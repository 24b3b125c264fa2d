--------------------------- MODULE MCSkillSession ---------------------------
(***************************************************************************)
(* The hooks with the contracts the prompt hook really derives: a skill    *)
(* declared as a workflow and one with no contract signals.                *)
(***************************************************************************)
EXTENDS ExecutionProperties, SkillContract, TLC

CONSTANTS build, notes, art, noSkill, noInput

MCSkills == {build, notes}

MCTools == {"Read", "Bash", "Skill"}

MCArtifacts == {art}

Plainly ==
    [ contract_type |-> "", knowledge |-> FALSE, bound |-> FALSE,
      schema |-> FALSE, allowed_first_tools |-> {},
      required_phase_artifacts |-> {}, required_markers |-> {},
      required_sections |-> {} ]

MCFrontmatter ==
    build :> [Plainly EXCEPT !.bound = TRUE,
                             !.required_phase_artifacts = {art}]
    @@ notes :> Plainly

MCContract ==
    [skill \in MCSkills |-> DerivedContract(SkillConfig(MCFrontmatter[skill]))]

\* The first action the prompt context demands, and the tool that follows it.
SkillCall(skill) ==
    [tool |-> "Skill", typed |-> skill, named |-> skill, authorised |-> TRUE]

MCCalls ==
    { SkillCall(build), SkillCall(notes),
      [tool |-> "Bash", typed |-> noSkill, named |-> noSkill,
       authorised |-> TRUE] }

\* handle_pre_tool_use, Layer 0: "Skill() matches -- proceed; do not block".
\* The Skill call that names the typed command is allowed.
MatchingSkillCallIsAllowed ==
    \A s \in Sessions :
        pc[s] = "tool_log" /\ input[s] \in {SkillCall(k) : k \in Skills}
        => answer[s] # "block"
=============================================================================
