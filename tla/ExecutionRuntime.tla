-------------------------- MODULE ExecutionRuntime --------------------------
(***************************************************************************)
(* What ExecutionRuntime computes: the run a method leaves in memory, from *)
(* the run it was given.  Persisting the result is ExecutionStore's part,  *)
(* and the order of the two is ExecutionHooks' part.                       *)
(***************************************************************************)
EXTENDS ExecutionStore

CONSTANTS
    Tools,      \* tool names a hook is asked about
    Contract    \* the contract create_run is given for each skill

ContractTypes ==
    {"workflow-execution", "structured-output", "hybrid", "manual-invocation"}

ASSUME ContractAssumption ==
    Contract \in [Skills -> [ type     : ContractTypes,
                              required : SUBSET Artifacts,
                              allowed  : SUBSET Tools,
                              blocked  : SUBSET Tools,
                              sections : SUBSET Items ]]

\* ExecutionRun.new
NewRun(r, skill) ==
    [ id |-> r, skill |-> skill, phase |-> "pending", status |-> "active",
      completed |-> {}, missing |-> {} ]

\* Mutant: the phase runs on into the "complete" that other modules know.
NextPhaseOverrun(phase) ==
    CASE phase = "pending" -> "loaded"
      [] phase = "loaded"  -> "executing"
      [] OTHER             -> "complete"

NextPhase(phase) ==
    IF phase = "pending" THEN "loaded" ELSE "executing"

\* Mutant: an allowed tool sets the status as well as the phase.
AfterToolUseReactivates(run, allowed) ==
    IF allowed THEN [run EXCEPT !.phase = NextPhase(@), !.status = "active"]
               ELSE [run EXCEPT !.status = "failed"]

\* record_tool_use, the assignments: a blocked tool fails the run and leaves
\* its phase; an allowed one moves the phase on and leaves the status.
AfterToolUse(run, allowed) ==
    IF allowed THEN [run EXCEPT !.phase = NextPhase(@)]
               ELSE [run EXCEPT !.status = "failed"]

\* record_artifact_created, the assignments.
AfterArtifact(run, path) ==
    [run EXCEPT !.completed = @ \cup {path}, !.missing = @ \ {path}]

(***************************************************************************)
(* The response handle_stop takes from the transcript.  "given" is FALSE   *)
(* for Python's None; "unmet" is missing + violations as                   *)
(* validate_response_requirements reports them.                            *)
(***************************************************************************)
Response == [given : BOOLEAN, unmet : SUBSET Items]

NoResponse == [given |-> FALSE, unmet |-> {}]

\* validate_response_requirements can only report what the contract asks for,
\* and handle_stop reads the transcript for two contract types only.
ResponsesTo(run) ==
    {NoResponse} \cup
    IF Contract[run.skill].type \in {"structured-output", "hybrid"}
    THEN [given : {TRUE}, unmet : SUBSET Contract[run.skill].sections]
    ELSE {}

\* evaluate_completion writes the run back before it returns.
EvaluationSaves(run, response) ==
    /\ run.status # "failed"
    /\ response.given
    /\ Contract[run.skill].type \in {"structured-output", "hybrid"}

\* evaluate_completion, the assignment: a structured-output contract forgets
\* what was missing before, a hybrid one adds to it.
AfterEvaluation(run, response) ==
    IF ~EvaluationSaves(run, response) THEN run
    ELSE IF Contract[run.skill].type = "hybrid"
         THEN [run EXCEPT !.missing = @ \cup response.unmet]
         ELSE [run EXCEPT !.missing = response.unmet]

\* Mutant: the two sides of the comparison are swapped.
WorkDoneSwapped(run) ==
    run.completed \subseteq Contract[run.skill].required

WorkDone(run) ==
    Contract[run.skill].required \subseteq run.completed

\* evaluate_completion, the contract rules, on the run after the assignment.
Satisfied(run, response) ==
    LET type == Contract[run.skill].type
    IN  \/ /\ type \in {"workflow-execution", "hybrid"}
           /\ WorkDone(run)
           /\ AfterEvaluation(run, response).missing = {}
        \/ /\ type = "structured-output"
           /\ response.given
           /\ response.unmet = {}

\* Mutant: FAILED does not short-circuit.
CompletionStatusOfAny(run, response) ==
    IF Satisfied(run, response) THEN "complete" ELSE "active"

\* evaluate_completion, the value it returns.
CompletionStatus(run, response) ==
    IF run.status = "failed" THEN "failed"
    ELSE IF Satisfied(run, response) THEN "complete" ELSE "active"

\* The contract test in handle_pre_tool_use: an empty allow-list restricts
\* nothing.
ToolBlocked(run, tool) ==
    LET contract == Contract[run.skill]
    IN  \/ tool \in contract.blocked
        \/ /\ contract.allowed # {}
           /\ tool \notin contract.allowed
=============================================================================
