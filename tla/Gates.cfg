SPECIFICATION Spec
CONSTANTS
    Skill <- MCSkill
    Profile <- MCProfile
    Tool <- MCTool
    NoSkill = "no skill"
    NoState = NoState
    MaxTurns = 2
    InvestigationTools = {"Skill"}
    ExecutionTools = {"Bash", "Edit"}
    TrackedTools = {"Skill", "Bash", "Edit"}
    CommandTools = {"Bash"}
    Knowledge = {"notes"}
    Exempt = "exempt"
    Session = {s1, s2}
    Calls <- MCCalls
    Prompts <- MCPrompts
    MaxCalls = 3
    MaxFaults = 1
SYMMETRY Sessions
INVARIANTS
    TypeOK
    RefusedByOwnSkill
    FirstToolFirst
    JudgedByLedger
    EnforcedStopSawSkill
CHECK_DEADLOCK FALSE
