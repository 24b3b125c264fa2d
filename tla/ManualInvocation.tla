------------------------ MODULE ManualInvocation ------------------------
(***************************************************************************)
(* The obligation of a manually invoked skill                              *)
(* (src/src/skill_guard/manual_invocation_tracker.py): an execution run    *)
(* made at the prompt, validated at each Stop against the ledger, refused  *)
(* until a retry count kept in a file of its own is used up.  The run is   *)
(* in the terminal's one state file, so two sessions see each other's.     *)
(* Of the evidence collected only the skill_loaded event can be missing:   *)
(* the run is made with no required artifacts and no workflow steps.       *)
(***************************************************************************)
EXTENDS StopSessions

CONSTANTS
  Skill,       \* skills whose commands are not ignorable
  MaxRuns,     \* bound on the runs made
  NoRun,
  NoSkill

MaxRetries == 2       \* DEFAULT_MAX_RETRIES
Run == 1 .. MaxRuns

ASSUME InvocationAssumption == 
  MaxRuns \in Nat /\ NoRun \notin Run /\ NoSkill \notin Skill

VARIABLES
  active,      \* the run in the terminal's state file
  skillOf,     \* the skill of each run made so far
  retry,       \* the retry file of each run, 0 for none
  loaded,      \* skills with a skill_loaded event on the terminal, of any turn
  invAt,       \* where each session is
  want,        \* the skill each session was asked for
  obj,         \* the run a hook of the session has in memory
  count,       \* the retry count a Stop has read
  outcome,     \* the status finalize_run was called with
  said,        \* what the last Stop of each session said
  refused,     \* history: decisions to refuse on each run
  ended        \* history: the status each run was saved with

invVars == <<active, skillOf, retry, loaded, invAt, want, obj, count,
             outcome, said, refused, ended>>

InvocationInit ==
  /\ active = NoRun /\ skillOf = <<>> /\ loaded = {}
  /\ retry = [r \in Run |-> 0] /\ refused = [r \in Run |-> 0]
  /\ ended = [r \in Run |-> "open"]
  /\ invAt = [s \in Session |-> "idle"]
  /\ want = [s \in Session |-> NoSkill]
  /\ obj = [s \in Session |-> NoRun]
  /\ count = [s \in Session |-> 0]
  /\ outcome = [s \in Session |-> "complete"]
  /\ said = [s \in Session |-> "none"]

To(s, where) == invAt' = [invAt EXCEPT ![s] = where]

(* The hook returns with nothing more to do. *)
Answer(s, verdict) ==
  /\ To(s, IF verdict = "refuse" THEN "working" ELSE "idle")
  /\ said' = [said EXCEPT ![s] = verdict]
  /\ obj' = [obj EXCEPT ![s] = NoRun]
  /\ count' = [count EXCEPT ![s] = 0]
  /\ outcome' = [outcome EXCEPT ![s] = "complete"]

(***************************************************************************)
(* create_manual_invocation, called at a prompt                            *)
(***************************************************************************)

(* The run is made and the one in the state file retired. *)
Invoke(s, k) ==
  /\ invAt[s] = "idle" /\ Len(skillOf) < MaxRuns
  /\ skillOf' = Append(skillOf, k)
  /\ obj' = [obj EXCEPT ![s] = Len(skillOf')]
  /\ want' = [want EXCEPT ![s] = k]
  /\ said' = [said EXCEPT ![s] = "none"]
  /\ active' = NoRun
  /\ To(s, "saving")
  /\ UNCHANGED <<retry, loaded, count, outcome, refused, ended, faults>>

(* The turn goes on without the run in memory. *)
Work(s) ==
  /\ To(s, "working")
  /\ obj' = [obj EXCEPT ![s] = NoRun]

(* save_run, and with a turn id once more after the run is tagged with it *)
SaveRun(s) ==
  /\ invAt[s] \in {"saving", "tagging"}
  /\ active' = obj[s]
  /\ \/ Work(s)
     \/ invAt[s] = "saving" /\ To(s, "tagging") /\ UNCHANGED obj
  /\ UNCHANGED <<skillOf, retry, loaded, want, count, outcome, said,
                 refused, ended, faults>>

(* Any failure: None is returned and the turn goes on, perhaps without a run. *)
CreateFails(s) ==
  /\ invAt[s] \in {"saving", "tagging"} /\ Fault
  /\ Work(s)
  /\ UNCHANGED <<active, skillOf, retry, loaded, want, count, outcome,
                 said, refused, ended>>

(* The agent calls Skill, which the ledger records. *)
UseSkill(s, k) ==
  /\ invAt[s] = "working" /\ k \notin loaded
  /\ loaded' = loaded \cup {k}
  /\ UNCHANGED <<active, skillOf, retry, invAt, want, obj, count, outcome,
                 said, refused, ended, faults>>

(***************************************************************************)
(* The retry file.  It is rewritten in place, so a read beside a write may *)
(* find it empty, which counts as 0.                                       *)
(***************************************************************************)

(* Mutant: one file for the terminal. *)
RetryFileOfTerminal(r) == Run

(* the runs whose count is in the file of r *)
RetryFile(r) == {r}

SetRetry(r, n) ==
  retry' = [q \in Run |-> IF q \in RetryFile(r) THEN n ELSE retry[q]]

GetRetryCount(s, r) ==
  {retry[r]} \cup {0 : t \in {t \in Session \ {s} : invAt[t] = "writing" /\ obj[t] = r}}

(***************************************************************************)
(* validate_manual_invocation, called at a Stop                            *)
(***************************************************************************)

(* the run in the state file is of the skill *)
OfTheSkill(s) == \E r \in DOMAIN skillOf : active = r /\ skillOf[r] = want[s]

StopLoads(s) ==
  /\ invAt[s] = "working" /\ OfTheSkill(s)
  /\ obj' = [obj EXCEPT ![s] = active]
  /\ \E n \in GetRetryCount(s, active) : count' = [count EXCEPT ![s] = n]
  /\ To(s, "judging")
  /\ UNCHANGED <<active, skillOf, retry, loaded, want, outcome, said,
                 refused, ended, faults>>

(* No run, or another skill's: WARNED, which allows the Stop.  So does any *)
(* failure of the validation.                                              *)
StopWarns(s) ==
  /\ \/ invAt[s] = "working" /\ ~OfTheSkill(s) /\ UNCHANGED faults
     \/ invAt[s] \in {"working", "judging", "finishing", "retiring"} /\ Fault
  /\ Answer(s, "pass")
  /\ UNCHANGED <<active, skillOf, retry, loaded, want, refused, ended>>

(* the ledger answers; it reads as empty when it fails *)
Found(s) == want[s] \in loaded /\ UNCHANGED faults

Missing(s) ==
  \/ want[s] \notin loaded /\ UNCHANGED faults
  \/ want[s] \in loaded /\ Fault

(* Mutant: one refusal too many. *)
RetriesLeftInclusive(s) == count[s] <= MaxRetries

(* Mutant: the refusal about to be counted is counted already. *)
RetriesLeftEarly(s) == count[s] + 1 < MaxRetries

RetriesLeft(s) == count[s] < MaxRetries

(* No evidence is missing, or it is and the retries are used up. *)
StopSettles(s) ==
  /\ invAt[s] = "judging"
  /\ \/ Found(s) /\ outcome' = [outcome EXCEPT ![s] = "complete"]
     \/ /\ Missing(s) /\ ~RetriesLeft(s)
        /\ outcome' = [outcome EXCEPT ![s] = "warned"]
  /\ To(s, "finishing")
  /\ UNCHANGED <<active, skillOf, retry, loaded, want, obj, count, said,
                 refused, ended>>

(* MISSING_EVIDENCE.  The count is read again to be incremented. *)
StopRefuses(s) ==
  /\ invAt[s] = "judging" /\ Missing(s) /\ RetriesLeft(s)
  /\ refused' = [refused EXCEPT ![obj[s]] = OneMore(@)]
  /\ \E n \in GetRetryCount(s, obj[s]) : count' = [count EXCEPT ![s] = OneMore(n)]
  /\ To(s, "writing")
  /\ UNCHANGED <<active, skillOf, retry, loaded, want, obj, outcome, said, ended>>

(* Mutant: the count is left as it was. *)
WriteRetryNever(s) ==
  /\ invAt[s] = "writing"
  /\ Answer(s, "refuse")
  /\ UNCHANGED <<active, skillOf, retry, loaded, want, refused, ended, faults>>

(* _increment_retry_count writes; a failure is ignored, and may leave the  *)
(* file empty.                                                             *)
WriteRetry(s) ==
  /\ invAt[s] = "writing"
  /\ \/ SetRetry(obj[s], count[s]) /\ UNCHANGED faults
     \/ Fault /\ (UNCHANGED retry \/ SetRetry(obj[s], 0))
  /\ Answer(s, "refuse")
  /\ UNCHANGED <<active, skillOf, loaded, want, refused, ended>>

(* finalize_run saves the run it holds over whatever the state file has by *)
(* now ...                                                                 *)
FinalizeSaves(s) ==
  /\ invAt[s] = "finishing"
  /\ active' = obj[s]
  /\ ended' = [ended EXCEPT ![obj[s]] = outcome[s]]
  /\ To(s, "retiring")
  /\ UNCHANGED <<skillOf, retry, loaded, want, obj, count, outcome, said,
                 refused, faults>>

(* ... and retires the file; a complete run drops its retry file. *)
FinalizeRetires(s) ==
  /\ invAt[s] = "retiring"
  /\ active' = NoRun
  /\ \/ outcome[s] = "complete" /\ SetRetry(obj[s], 0) /\ UNCHANGED faults
     \/ outcome[s] = "complete" /\ Fault /\ UNCHANGED retry
     \/ outcome[s] = "warned" /\ UNCHANGED <<retry, faults>>
  /\ Answer(s, "pass")
  /\ UNCHANGED <<skillOf, loaded, want, refused, ended>>

(* The Stop hook of the execution contract retires the run (ExecutionHooks). *)
OtherStop ==
  /\ active # NoRun
  /\ active' = NoRun
  /\ UNCHANGED <<skillOf, retry, loaded, invAt, want, obj, count, outcome,
                 said, refused, ended, faults>>

InvStop(s) ==
  \/ SaveRun(s)
  \/ StopLoads(s) \/ StopWarns(s) \/ StopSettles(s) \/ StopRefuses(s)
  \/ WriteRetry(s) \/ FinalizeSaves(s) \/ FinalizeRetires(s)

InvocationNext ==
  \/ OtherStop
  \/ \E s \in attached :
       \/ InvStop(s) \/ CreateFails(s)
       \/ \E k \in Skill : Invoke(s, k) \/ UseSkill(s, k)
=============================================================================
