CONSTANTS
    wf = wf
    so = so
    hy = hy
    art = art
    sec = sec
    noSkill = noSkill
    noInput = noInput
    NoRun = NoRun
    Runs = {r1}
    Sessions = {s1, s2}
    Skills <- OneSkill
    Artifacts <- MCArtifacts
    Items <- MCItems
    Tools <- MCTools
    Contract <- MCContract
    Calls <- ContractCalls
    InvestigationTools = {"Read"}
    WriteTools = {"Write"}
    ExemptCommands = {}
    NonSkillCommands = {}
    SkillTool = "Skill"
    NoSkill <- noSkill
    NoInput <- noInput
    MaxToolEvents = 2
    MaxEnds = 1
    MaxCrashes = 1
    MaxLoadFaults = 1
SPECIFICATION Spec
INVARIANT LogLeadsState
INVARIANT CompletionIsEarned
PROPERTY HooksComeToAnEnd
SYMMETRY SessionSymmetry
