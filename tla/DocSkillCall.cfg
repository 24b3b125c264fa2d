CONSTANTS
    build = build
    notes = notes
    art = art
    noSkill = noSkill
    noInput = noInput
    NoRun = NoRun
    Runs = {r1, r2}
    Sessions = {s1}
    Skills <- MCSkills
    Artifacts <- MCArtifacts
    Items = {}
    Tools <- MCTools
    Contract <- MCContract
    Calls <- MCCalls
    InvestigationTools = {"Read"}
    WriteTools = {}
    ExemptCommands = {}
    NonSkillCommands = {}
    SkillTool = "Skill"
    NoSkill <- noSkill
    NoInput <- noInput
    MaxToolEvents = 2
    MaxEnds = 3
    MaxCrashes = 0
    MaxLoadFaults = 0
    ToolNames <- MCTools
    ArtifactNames <- MCArtifacts
    SectionNames = {}
SPECIFICATION Spec
INVARIANT MatchingSkillCallIsAllowed
