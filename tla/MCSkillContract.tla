-------------------------- MODULE MCSkillContract --------------------------
(***************************************************************************)
(* A SKILL.md that is edited between prompts, over every frontmatter with  *)
(* two tools, one artifact and one section.                                *)
(***************************************************************************)
EXTENDS SkillContract

CONSTANTS art, sec

MCTools == {"Bash", "Read"}

MCArtifacts == {art}

MCSections == {sec}

NoContract == [type |-> "none"]

VARIABLES
    file,     \* the frontmatter on disk
    contract  \* what the last prompt passed to create_run

vars == <<file, contract>>

Init ==
    /\ file \in Frontmatter
    /\ contract = NoContract

Edit ==
    /\ file' \in Frontmatter
    /\ contract' = NoContract

Prompt ==
    /\ CreatesRun(SkillConfig(file))
    /\ contract' = DerivedContract(SkillConfig(file))
    /\ UNCHANGED file

Next == Edit \/ Prompt

Spec == Init /\ [][Next]_vars

\* Where no type is written down, _infer_contract_type picks a contract that
\* evaluates everything the frontmatter asks for: artifacts need a contract
\* that looks at artifacts, sections one that looks at the response.
InferredTypeCoversDemands ==
    contract # NoContract /\ file.contract_type = "" =>
        /\ file.required_phase_artifacts # {} =>
               contract.type \in {"workflow-execution", "hybrid"}
        /\ file.required_sections # {} =>
               contract.type \in {"structured-output", "hybrid"}
=============================================================================
