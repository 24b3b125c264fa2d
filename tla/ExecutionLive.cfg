CONSTANTS
    wf = wf
    so = so
    hy = hy
    art = art
    sec = sec
    noSkill = noSkill
    noInput = noInput
    NoRun = NoRun
    Runs = {r1, r2}
    Sessions = {s1}
    Skills <- MCSkills
    Artifacts <- MCArtifacts
    Items <- MCItems
    Tools <- MCTools
    Contract <- MCContract
    Calls <- ContractCalls
    InvestigationTools = {"Read"}
    WriteTools = {"Write"}
    ExemptCommands = {}
    NonSkillCommands = {}
    SkillTool = "Skill"
    NoSkill <- noSkill
    NoInput <- noInput
    MaxToolEvents = 2
    MaxEnds = 3
    MaxCrashes = 0
    MaxLoadFaults = 0
SPECIFICATION FairSpec
PROPERTY EveryRunEnds
