CONSTANTS
    wf = wf
    so = so
    hy = hy
    art = art
    sec = sec
    noSkill = noSkill
    noInput = noInput
    NoRun = NoRun
    Runs = {r1}
    Sessions = {s1, s2}
    Skills <- OneSkill
    Artifacts <- MCArtifacts
    Items <- MCItems
    Tools <- MCTools
    Contract <- MCContract
    Calls <- ContractCalls
    InvestigationTools = {"Read"}
    WriteTools = {"Write"}
    ExemptCommands = {}
    NonSkillCommands = {}
    SkillTool = "Skill"
    NoSkill <- noSkill
    NoInput <- noInput
    MaxToolEvents = 2
    MaxEnds = 1
    MaxCrashes = 0
    MaxLoadFaults = 0
SPECIFICATION Spec
PROPERTY ToolUseKeepsFailed
