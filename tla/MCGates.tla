------------------------------ MODULE MCGates ------------------------------
(***************************************************************************)
(* A workflow skill with a first command, an output skill with a first     *)
(* tool and a phase artifact, and a knowledge skill, in two sessions.      *)
(***************************************************************************)
EXTENDS GateProperties, TLC

Sessions == Permutations(Session)

MCSkill == {"deploy", "review", "notes"}

MCTool == {"Skill", "Bash", "Edit"}

Plain ==
    [ written |-> TRUE, contract |-> "analysis", bound |-> FALSE,
      artifact |-> FALSE, steps |-> FALSE, first |-> {}, firstCommand |-> FALSE,
      tools |-> {}, pattern |-> FALSE, tierNone |-> FALSE, warned |-> FALSE ]

MCProfile ==
    [k \in MCSkill |->
        CASE k = "deploy" ->
             [Plain EXCEPT !.contract = "workflow", !.steps = TRUE,
                           !.first = {"Bash"}, !.firstCommand = TRUE,
                           !.tools = {"Bash"}, !.pattern = TRUE]
          [] k = "review" ->
             [Plain EXCEPT !.contract = "output", !.bound = TRUE,
                           !.artifact = TRUE, !.first = {"Edit"}]
          [] k = "notes" -> [Plain EXCEPT !.written = FALSE]]

Use(tool, named, matches, names) ==
    [tool |-> tool, named |-> named, matches |-> matches, names |-> names]

MCCalls ==
    {Use("Skill", k, {}, FALSE) : k \in MCSkill}
    \cup {Use("Bash", NoSkill, m, FALSE) : m \in {{}, {"first", "pattern"}}}
    \cup {Use("Edit", NoSkill, {}, TRUE)}

\* The later Bash command that the skill's pattern allows.
MCLaterCalls ==
    {Use("Skill", "deploy", {}, FALSE)}
    \cup {Use("Bash", NoSkill, m, FALSE) : m \in {{"pattern"}, {"first", "pattern"}}}

Typed(command, form, help) == [command |-> command, form |-> form, help |-> help]

MCPrompts ==
    { Typed(Exempt, "plain", FALSE), Typed("deploy", "plain", FALSE),
      Typed("review", "harness", FALSE) }
=============================================================================
