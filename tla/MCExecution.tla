---------------------------- MODULE MCExecution ----------------------------
(***************************************************************************)
(* Small instances of the execution-contract runtime for TLC.              *)
(***************************************************************************)
EXTENDS ExecutionProperties, TLC

CONSTANTS wf, so, hy, art, sec, noSkill, noInput

MCSkills == {wf, so, hy}

TwoSkills == {so, hy}

\* The workflow alone, where two sessions make the state space large.
OneSkill == {wf}

MCArtifacts == {art}

MCItems == {sec}

MCTools == {"Read", "Bash", "Write", "Skill"}

\* One contract of each type: a workflow that must leave an artifact and may
\* only run Bash, a report that needs a section, a hybrid of the two.
AllContracts ==
    (wf :> [ type |-> "workflow-execution", required |-> {art},
             allowed |-> {"Bash"}, blocked |-> {}, sections |-> {} ])
    @@
    (so :> [ type |-> "structured-output", required |-> {},
             allowed |-> {}, blocked |-> {}, sections |-> {sec} ])
    @@
    (hy :> [ type |-> "hybrid", required |-> {art},
             allowed |-> {"Bash"}, blocked |-> {}, sections |-> {sec} ])

MCContract == [skill \in Skills |-> AllContracts[skill]]

Plain(tool) ==
    [tool |-> tool, typed |-> noSkill, named |-> noSkill, authorised |-> TRUE]

\* Tools that reach the contract: one the contracts list, one they do not.
ContractCalls == {Plain("Bash"), Plain("Write")}

\* Also the calls the layers before the contract answer.
AllCalls ==
    ContractCalls \cup
    { Plain("Read"),
      [Plain("Write") EXCEPT !.authorised = FALSE],
      [Plain("Bash") EXCEPT !.typed = hy],
      [Plain("Skill") EXCEPT !.typed = hy, !.named = so],
      [Plain("Skill") EXCEPT !.typed = hy, !.named = hy] }

SessionSymmetry == Permutations(Sessions)
=============================================================================
