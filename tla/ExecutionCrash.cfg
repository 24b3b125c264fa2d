CONSTANTS
    wf = wf
    so = so
    hy = hy
    art = art
    sec = sec
    noSkill = noSkill
    noInput = noInput
    NoRun = NoRun
    Runs = {r1, r2}
    Sessions = {s1}
    Skills <- TwoSkills
    Artifacts <- MCArtifacts
    Items <- MCItems
    Tools <- MCTools
    Contract <- MCContract
    Calls <- AllCalls
    InvestigationTools = {"Read"}
    WriteTools = {"Write"}
    ExemptCommands = {}
    NonSkillCommands = {}
    SkillTool = "Skill"
    NoSkill <- noSkill
    NoInput <- noInput
    MaxToolEvents = 3
    MaxEnds = 3
    MaxCrashes = 1
    MaxLoadFaults = 0
SPECIFICATION Spec
INVARIANT TypeOK
PROPERTY ImplementsLifecycle
PROPERTY OneBlockedStopPerRun
PROPERTY DenialIsFinal
