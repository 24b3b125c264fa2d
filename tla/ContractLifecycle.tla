------------------------- MODULE ContractLifecycle -------------------------
(***************************************************************************)
(* What the execution-contract runtime promises about the runs of one      *)
(* terminal, with no files and no processes: a run is opened when no other *)
(* run is open, its phase only moves forward, a failure is final, and it   *)
(* is closed once, by a Stop or by its successor.                          *)
(***************************************************************************)
CONSTANT Runs

VARIABLES
    stage,   \* where each run is in its life
    verdict  \* the status a closed run was closed with

lifecycleVars == <<stage, verdict>>

Open == {"pending", "loaded", "executing", "failed"}

Stages == Open \cup {"unborn", "closed"}

TypeOK ==
    /\ stage \in [Runs -> Stages]
    /\ verdict \in [Runs -> {"none", "active", "complete", "failed", "replaced"}]

Init ==
    /\ stage = [r \in Runs |-> "unborn"]
    /\ verdict = [r \in Runs |-> "none"]

OpenRun(r) ==
    /\ stage[r] = "unborn"
    /\ \A q \in Runs : stage[q] \notin Open
    /\ stage' = [stage EXCEPT ![r] = "pending"]
    /\ UNCHANGED verdict

Advance(r) ==
    /\ \/ stage[r] = "pending" /\ stage' = [stage EXCEPT ![r] = "loaded"]
       \/ stage[r] = "loaded"  /\ stage' = [stage EXCEPT ![r] = "executing"]
    /\ UNCHANGED verdict

Fail(r) ==
    /\ stage[r] \in Open
    /\ stage' = [stage EXCEPT ![r] = "failed"]
    /\ UNCHANGED verdict

\* A failed run is not closed as complete or as merely stopped.
Close(r, status) ==
    /\ stage[r] \in Open
    /\ stage[r] = "failed" => status \in {"failed", "replaced"}
    /\ status = "failed" => stage[r] = "failed"
    /\ stage' = [stage EXCEPT ![r] = "closed"]
    /\ verdict' = [verdict EXCEPT ![r] = status]

Next ==
    \E r \in Runs :
        \/ OpenRun(r) \/ Advance(r) \/ Fail(r)
        \/ \E status \in {"active", "complete", "failed", "replaced"} :
               Close(r, status)

Spec == Init /\ [][Next]_lifecycleVars
=============================================================================
