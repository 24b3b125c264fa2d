------------------------- MODULE RetryProperties -------------------------
(***************************************************************************)
(* What the two limited validators of a Stop promise: a strike that is on  *)
(* record was struck, a turn is refused only so often, and it is let go.   *)
(***************************************************************************)
EXTENDS Governance, ManualInvocation

VARIABLE part    \* which of the two validators a behaviour runs

vars == <<sessionVars, govVars, invVars, part>>

Init ==
  /\ SessionInit /\ GovInit /\ InvocationInit
  /\ part \in {"governance", "invocation"}

InGovernance == part = "governance" /\ UNCHANGED <<attached, part, invVars>>

InInvocation == part = "invocation" /\ UNCHANGED <<attached, part, govVars>>

Next == (GovNext /\ InGovernance) \/ (InvocationNext /\ InInvocation)

(* A session that works comes to its Stop, and a Stop that runs goes on.   *)
Fairness ==
  \A s \in Session :
    /\ WF_vars(s \in attached /\ GovStop(s) /\ InGovernance)
    /\ WF_vars(s \in attached /\ InvStop(s) /\ InInvocation)

Spec == Init /\ [][Next]_vars /\ Fairness

(***************************************************************************)
(* Type invariant of both parts.  A record in the file or in a Stop's      *)
(* memory is one the router wrote, a run in the state file is one that was *)
(* made.                                                                   *)
(***************************************************************************)
GovTypeOK ==
  /\ gov \in States(loads) \cup {NoState}
  /\ held \in [Session -> States(loads) \cup {NoState}]
  /\ govAt \in [Session -> {"idle", "working", "judging"}]
  /\ kind \in [Session -> {"skill", "plain", "enforced"}]
  /\ verdict \in [Session -> {"none", "refuse", "pass"}]
  /\ loads \in 0 .. MaxLoads
  /\ strikes \in [Load -> 0 .. 3]

RunMade == (1 .. Len(skillOf)) \cup {NoRun}

InvTypeOK ==
  /\ skillOf \in Seq(Skill) /\ Len(skillOf) <= MaxRuns
  /\ active \in RunMade
  /\ retry \in [Run -> 0 .. 3] /\ refused \in [Run -> 0 .. 3]
  /\ loaded \in SUBSET Skill
  /\ invAt \in [Session -> {"idle", "saving", "tagging", "working", "judging",
                            "writing", "finishing", "retiring"}]
  /\ want \in [Session -> Skill \cup {NoSkill}]
  /\ obj \in [Session -> RunMade]
  /\ count \in [Session -> 0 .. 3]
  /\ outcome \in [Session -> {"complete", "warned"}]
  /\ said \in [Session -> {"none", "refuse", "pass"}]
  /\ ended \in [Run -> {"open", "complete", "warned"}]

TypeOK ==
  /\ attached \in SUBSET Session /\ faults \in 0 .. MaxFaults
  /\ part \in {"governance", "invocation"}
  /\ GovTypeOK
  /\ InvTypeOK

(***************************************************************************)
(* The retry count of a governance record says it was refused once: also   *)
(* when a Stop writes its copy after the router wrote the next record, the *)
(* second and last refusal is never spent on a skill that had no first.    *)
(* _update_governance_retry.                                               *)
(***************************************************************************)
StrikeIsEarned ==
  gov # NoState /\ gov.count = 1 => strikes[gov.load] >= 1

(***************************************************************************)
(* "attempt 1/2": with one session and no failed file access, one record   *)
(* refuses two Stops and never a third.  _check_governance_markers.        *)
(***************************************************************************)
TwoStrikes ==
  Undisturbed => \A n \in Load : strikes[n] <= 2

(***************************************************************************)
(* The retry file of a run counts no more refusals than were decided on    *)
(* that run, whatever sessions and writes come in between: no run has its  *)
(* budget used up by another.  _increment_retry_count.                     *)
(***************************************************************************)
RetryNeverOvercounts ==
  \A r \in Run : retry[r] <= refused[r]

(***************************************************************************)
(* A run is let go as "warned", its evidence missing, only after two       *)
(* refusals were decided on it, also under lost counts and shared files.   *)
(* validate_manual_invocation.                                             *)
(***************************************************************************)
WarnedWasRefusedTwice ==
  \A r \in Run : ended[r] = "warned" => refused[r] >= MaxRetries

(***************************************************************************)
(* With one session and no failed access a run is refused at most twice.   *)
(* validate_manual_invocation, DEFAULT_MAX_RETRIES.                        *)
(***************************************************************************)
RefusalsBounded ==
  Undisturbed => \A r \in Run : refused[r] <= MaxRetries

(***************************************************************************)
(* A turn the governance refused is let go in the end, even when the       *)
(* sessions of the terminal write over each other's records and the        *)
(* response never shows a marker.  run() of the Stop gate, layer 1.        *)
(***************************************************************************)
GovernanceYields ==
  \A s \in Session : verdict[s] = "refuse" ~> verdict[s] = "pass"

(***************************************************************************)
(* In a session with the terminal to itself a manual invocation that was   *)
(* refused is let go in the end, the skill loaded or not, once the writes  *)
(* of the retry file stop failing.  "Graceful degradation after bounded    *)
(* retries" (manual_invocation_tracker.py:37).                             *)
(***************************************************************************)
RetriesRunOut ==
  \A s \in Session :
    attached = {s} /\ said[s] = "refuse" ~> said[s] = "pass"
=============================================================================
