------------------------ MODULE ExecutionProperties ------------------------
(***************************************************************************)
(* What is claimed of the execution-contract runtime, and the refinement   *)
(* mapping to ContractLifecycle.                                           *)
(***************************************************************************)
EXTENDS ExecutionHooks

\* A run record says no more than its lines in the log do: a phase beyond
\* "pending" has its allowed tools, a failure has its blocked tool, a completed
\* artifact its artifact_created line.
BackedBy(run, lines) ==
    /\ run.phase # "pending" => lines.allowed >= 1
    /\ run.phase = "executing" => lines.allowed >= 2
    /\ run.status = "failed" => lines.blocked >= 1
    /\ run.completed \subseteq lines.artifacts

\* Every copy of a run, in a file or in the memory of a hook process.
Copies == {state, tmp, backup} \cup {mem[s] : s \in Sessions}
                               \cup {prev[s] : s \in Sessions}

\* record_tool_use and record_artifact_created append to the log before they
\* save: whatever processes interleave or die, no copy of a run is ever ahead
\* of the log, so the log can always account for the state file.
LogLeadsState == \A run \in Copies \ {NoRun} : BackedBy(run, log[run.id])

\* evaluate_completion's rule holds against the log: a run that is marked
\* complete, in any copy, has an artifact_created line for every artifact its
\* contract requires, in every interleaving of hooks that save stale copies.
CompletionIsEarned ==
    \A run \in Copies \ {NoRun} :
        /\ run.status = "complete"
        /\ Contract[run.skill].type # "structured-output"
        => Contract[run.skill].required \subseteq log[run.id].artifacts

\* A step that appends a run_ended line for r appends one with a status in S.
EndsOnlyAs(r, S) ==
    Len(log'[r].ended) > Len(log[r].ended)
    => log'[r].ended[Len(log'[r].ended)] \in S

\* A session that was told "tool blocked by contract" never sees that run end
\* as anything but failed (or replaced by the next prompt), even when a hook
\* process dies between the verdict and the Stop.
DenialIsFinal ==
    [][\A r \in Runs :
          <<"tool", r>> \in denials => EndsOnlyAs(r, {"failed", "replaced"})]_vars

\* A failed run blocks one Stop and no more: end_run takes the state file away
\* with the verdict, so the harness's next attempt to stop goes through.
OneBlockedStopPerRun ==
    [][\A s \in Sessions :
          /\ pc[s] = "stop_retire"
          /\ answer[s] # "block" /\ answer'[s] = "block"
          => <<"stop", mem[s].id>> \notin denials]_vars

\* How many system calls are left to a hook at most: after a save it has those
\* of the place it returns to, and a save is three calls when one is refused.
CallsAfter ==
    [ idle |-> 0, stop_retire |-> 1, stop_end |-> 2, stop_final |-> 6,
      tool_log |-> 4, art_log |-> 4, ups_log |-> 4, ups_retire |-> 8, ups_end |-> 9 ]

CallsLeft(s) ==
    CASE pc[s] = "write"   -> CallsAfter[cont[s]] + 3
      [] pc[s] = "replace" -> CallsAfter[cont[s]] + 2
      [] pc[s] = "retry"   -> CallsAfter[cont[s]] + 1
      [] OTHER             -> CallsAfter[pc[s]]

\* No hook goes round in circles, whatever other writers do to the one temporary
\* file they share: a refused rename is retried once, a lost temporary file not
\* at all, so every call of a hook leaves it fewer, and it answers in nine.
HooksComeToAnEnd ==
    [][\A s \in Sessions :
          pc[s] # "idle" /\ <<pc'[s], cont'[s]>> # <<pc[s], cont[s]>>
          => CallsLeft(s)' < CallsLeft(s)]_vars

\* Every run that reaches the state file is ended in the log, because every
\* turn ends with a Stop that finalises whatever run it finds.
EveryRunEnds ==
    \A r \in Runs :
        (state # NoRun /\ state.id = r) ~> (log[r].ended # <<>>)

-----------------------------------------------------------------------------
\* The stage of a run is read off the state file; a run no longer there was
\* closed if the log has an end for it, with the last status it was given.
Held(r) == state # NoRun /\ state.id = r

StageOf(r) ==
    IF Held(r)
    THEN IF state.status = "failed" THEN "failed" ELSE state.phase
    ELSE IF log[r].ended = <<>> THEN "unborn" ELSE "closed"

VerdictOf(r) ==
    IF Held(r) \/ log[r].ended = <<>> THEN "none"
    ELSE log[r].ended[Len(log[r].ended)]

Lifecycle == INSTANCE ContractLifecycle
    WITH stage   <- [r \in Runs |-> StageOf(r)],
         verdict <- [r \in Runs |-> VerdictOf(r)]

\* The files and processes of a serial terminal implement the lifecycle.
ImplementsLifecycle == Lifecycle!Spec

-----------------------------------------------------------------------------
(***************************************************************************)
(* What the repository's own documents say and a run contradicts.          *)
(***************************************************************************)

\* The last save of a PreToolUse hook: the one that ends record_tool_use.
SavesToolUse(s) ==
    /\ pc[s] \in {"replace", "retry"} /\ cont[s] = "idle" /\ input[s] \in Calls
    /\ pc'[s] = "idle" /\ state' # NoRun

\* execution_runtime.py, record_tool_use: a blocked tool "sets run.status =
\* FAILED immediately", an allowed one moves the phase and nothing else; and
\* FAILED is what every later evaluation is to find. So recording a tool use
\* never takes the FAILED of a run off the state file again.
ToolUseKeepsFailed ==
    [][\A s \in Sessions :
          /\ SavesToolUse(s)
          /\ state # NoRun /\ state.status = "failed" /\ state'.id = state.id
          => state'.status = "failed"]_vars
=============================================================================
