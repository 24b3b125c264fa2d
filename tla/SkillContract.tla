--------------------------- MODULE SkillContract ---------------------------
(***************************************************************************)
(* From SKILL.md to the contract of a run: discovery parses the            *)
(* frontmatter, get_skill_config hands part of it on, and the prompt hook  *)
(* derives from that part what it passes to create_run.                    *)
(*                                                                         *)
(* Python dictionaries are records, and "get" is dict.get: which keys a    *)
(* dictionary has is the point of this module.                             *)
(***************************************************************************)
EXTENDS FiniteSets

CONSTANTS
    ToolNames,      \* tools a skill can declare; "Bash" is the default one
    ArtifactNames,  \* required_phase_artifacts and required_markers
    SectionNames    \* required_sections

Get(dict, key, default) ==
    IF key \in DOMAIN dict THEN dict[key] ELSE default

ExplicitTypes == {"", "workflow", "output", "hybrid", "analysis"}

(***************************************************************************)
(* The frontmatter fields that decide something.  "bound" is the           *)
(* disjunction of workflow_steps, workflow_binding and                     *)
(* workflow_enforcement; "schema" that of layer1_enforcement,              *)
(* final_output_schema and output_enforcement; "knowledge" says that the   *)
(* name or the category marks a reference-only skill.  A contract_type the *)
(* code does not know counts as none.                                      *)
(***************************************************************************)
Frontmatter ==
    [ contract_type            : ExplicitTypes,
      knowledge                : BOOLEAN,
      bound                    : BOOLEAN,
      schema                   : BOOLEAN,
      allowed_first_tools      : SUBSET ToolNames,
      required_phase_artifacts : SUBSET ArtifactNames,
      required_markers         : SUBSET ArtifactNames,
      required_sections        : SUBSET SectionNames ]

\* _infer_contract_type
WorkflowSignals(fm) == fm.bound \/ fm.required_phase_artifacts # {}

OutputSignals(fm) ==
    fm.schema \/ fm.required_markers # {} \/ fm.required_sections # {}

\* Mutant: the order of the tests lets a workflow signal hide the hybrid case.
InferContractTypeLateHybrid(fm) ==
    IF fm.contract_type # "" THEN fm.contract_type
    ELSE IF WorkflowSignals(fm) THEN "workflow"
    ELSE IF OutputSignals(fm) THEN "output"
    ELSE "analysis"

InferContractType(fm) ==
    CASE fm.contract_type # ""                     -> fm.contract_type
      [] /\ fm.contract_type = ""
         /\ WorkflowSignals(fm) /\ OutputSignals(fm)   -> "hybrid"
      [] /\ fm.contract_type = ""
         /\ WorkflowSignals(fm) /\ ~OutputSignals(fm)  -> "workflow"
      [] /\ fm.contract_type = ""
         /\ ~WorkflowSignals(fm) /\ OutputSignals(fm)  -> "output"
      [] OTHER                                         -> "analysis"

\* _parse_skill_frontmatter: the entry discover_all_skills has for a skill.
WorkflowLike(fm) ==
    InferContractType(fm) \in {"workflow", "hybrid"} \/ WorkflowSignals(fm)

FirstTools(fm) ==
    IF fm.knowledge THEN {}
    ELSE IF WorkflowLike(fm) /\ fm.allowed_first_tools = {}
         THEN {"Bash"}
         ELSE fm.allowed_first_tools

Discovered(fm) ==
    [ contract_type            |-> InferContractType(fm),
      has_execution            |-> ~fm.knowledge,
      allowed_first_tools      |-> FirstTools(fm),
      required_phase_artifacts |-> fm.required_phase_artifacts,
      required_markers         |-> fm.required_markers,
      required_sections        |-> fm.required_sections ]

\* get_skill_config: an unknown skill fails open; for a known one the tools
\* and the contract type are handed on, under the keys "tools" and
\* "contract_type", and nothing else that the frontmatter declared.
UnknownSkillConfig == [tools |-> {}, discovered |-> FALSE]

SkillConfig(fm) ==
    LET entry == Discovered(fm)
        tools == entry.allowed_first_tools
    IN  [ tools         |-> IF /\ tools = {}
                               /\ entry.contract_type \in {"workflow", "hybrid"}
                            THEN {"Bash"} ELSE tools,
          discovered    |-> TRUE,
          contract_type |-> entry.contract_type ]

-----------------------------------------------------------------------------
\* The prompt hook's derivations from the configuration.
MapContractType(type) ==
    CASE type = "output" -> "structured-output"
      [] type = "hybrid" -> "hybrid"
      [] OTHER           -> "workflow-execution"

AllowedTools(config) ==
    LET tools == Get(config, "allowed_first_tools", {})
    IN  IF /\ tools = {}
           /\ Get(config, "contract_type", "analysis") \in {"workflow", "hybrid"}
        THEN {"Bash"} ELSE tools

RequiredArtifacts(config) ==
    LET artifacts == Get(config, "required_phase_artifacts", {})
    IN  IF artifacts # {} THEN artifacts
        ELSE Get(config, "required_markers", {})
             \cup Get(config, "required_sections", {})

RequiredSections(config) == Get(config, "required_sections", {})

\* Whether handle_user_prompt_submit creates a run for the configuration.
CreatesRun(config) ==
    Get(config, "discovered", FALSE) \/ Get(config, "has_execution", TRUE)

\* The arguments of create_run.
DerivedContract(config) ==
    [ type     |-> MapContractType(Get(config, "contract_type", "analysis")),
      required |-> RequiredArtifacts(config),
      allowed  |-> AllowedTools(config),
      blocked  |-> {},
      sections |-> RequiredSections(config) ]
=============================================================================
