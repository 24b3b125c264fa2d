--------------------------- MODULE Governance ---------------------------
(***************************************************************************)
(* The marker governance of the Stop gate                                  *)
(* (src/src/skill_guard/StopHook_skill_execution_gate.py, layer 1): the    *)
(* state file of the terminal, the first strike that is written to it, the *)
(* second that clears it, and the earlier paths of run() that clear it     *)
(* too.  The router outside the repository writes the file when it injects *)
(* a skill.  A Stop reads the file, works, and writes the copy it holds.   *)
(* A governance record in the payload is judged alike and leaves the file  *)
(* alone; it is not modelled.                                              *)
(***************************************************************************)
EXTENDS StopSessions

CONSTANTS
  MaxLoads,    \* bound on the number of records the router writes
  NoState      \* no file

Load == 1 .. MaxLoads
States(n) == [load : 1 .. n, count : {0, 1}, markers : BOOLEAN]

ASSUME GovernanceAssumption == MaxLoads \in Nat /\ NoState \notin States(MaxLoads)

VARIABLES
  gov,       \* skill_governance_state.json
  held,      \* the state each Stop has read
  govAt,     \* where each session is
  kind,      \* the turn: "skill" reaches layer 1, the other kinds do not
  verdict,   \* what layer 1 said last
  loads,     \* records written so far
  strikes    \* history: the refusals of each record

govVars == <<gov, held, govAt, kind, verdict, loads, strikes>>

GovInit ==
  /\ gov = NoState
  /\ held = [s \in Session |-> NoState]
  /\ govAt = [s \in Session |-> "idle"]
  /\ kind = [s \in Session |-> "plain"]
  /\ verdict = [s \in Session |-> "none"]
  /\ loads = 0
  /\ strikes = [n \in Load |-> 0]

(* _clear_governance_state removes whatever is there; an error is ignored *)
ClearGov ==
  \/ gov' = NoState /\ UNCHANGED faults
  \/ Fault /\ UNCHANGED gov

(* A prompt; the router may write a record for the skill it injects.       *)
Prompt(s) ==
  /\ govAt[s] = "idle"
  /\ govAt' = [govAt EXCEPT ![s] = "working"]
  /\ kind' \in {[kind EXCEPT ![s] = k] : k \in {"skill", "plain", "enforced"}}
  /\ verdict' = [verdict EXCEPT ![s] = "none"]
  /\ \/ UNCHANGED <<gov, loads>>
     \/ /\ loads < MaxLoads /\ loads' = loads + 1
        /\ \E b \in BOOLEAN : gov' = [load |-> loads', count |-> 0, markers |-> b]
  /\ UNCHANGED <<held, strikes, faults>>

(* run() returns before layer 1: for an enforced slash command always,     *)
(* with either answer, else when the turn called no Skill.  snapshot: the  *)
(* payload carries a state or a turn id, and the file is left.             *)
StopsEarlier(s, snapshot) ==
  /\ govAt[s] = "working" /\ kind[s] # "skill"
  /\ IF snapshot THEN UNCHANGED <<gov, faults>> ELSE ClearGov
  /\ \/ govAt' = [govAt EXCEPT ![s] = "idle"]
     \/ kind[s] = "enforced" /\ UNCHANGED govAt
  /\ UNCHANGED <<held, kind, verdict, loads, strikes>>

Pass(s) ==
  /\ verdict' = [verdict EXCEPT ![s] = "pass"]
  /\ govAt' = [govAt EXCEPT ![s] = "idle"]
  /\ held' = [held EXCEPT ![s] = NoState]

Refuse(s) ==
  /\ verdict' = [verdict EXCEPT ![s] = "refuse"]
  /\ govAt' = [govAt EXCEPT ![s] = "working"]
  /\ held' = [held EXCEPT ![s] = NoState]
  /\ strikes' = [strikes EXCEPT ![held[s].load] = OneMore(@)]

(* _read_governance_state; any record may be stale by now, which removes   *)
(* the file.                                                               *)
StopReadsGov(s) ==
  /\ govAt[s] = "working" /\ kind[s] = "skill"
  /\ \/ Pass(s) /\ gov' = NoState
     \/ /\ gov # NoState
        /\ held' = [held EXCEPT ![s] = gov]
        /\ govAt' = [govAt EXCEPT ![s] = "judging"]
        /\ UNCHANGED <<gov, verdict>>
  /\ UNCHANGED <<kind, loads, strikes, faults>>

(* no markers to look for, no response text, or a marker found *)
StopPasses(s) ==
  /\ govAt[s] = "judging"
  /\ ClearGov
  /\ Pass(s)
  /\ UNCHANGED <<kind, loads, strikes>>

(* Mutant: the count of the record that is in the file by now goes up. *)
FirstStrikeRereads(s) ==
  /\ govAt[s] = "judging" /\ held[s].markers /\ held[s].count = 0
  /\ gov' = IF gov = NoState THEN NoState ELSE [gov EXCEPT !.count = 1]
  /\ UNCHANGED faults
  /\ Refuse(s)
  /\ UNCHANGED <<kind, loads>>

(* Mutant: the retry count is not written. *)
FirstStrikeForgotten(s) ==
  /\ govAt[s] = "judging" /\ held[s].markers /\ held[s].count = 0
  /\ UNCHANGED <<gov, faults>>
  /\ Refuse(s)
  /\ UNCHANGED <<kind, loads>>

(* _update_governance_retry writes the record that was read, over whatever *)
(* the file holds by now; an error is ignored.                             *)
FirstStrike(s) ==
  /\ govAt[s] = "judging" /\ held[s].markers /\ held[s].count = 0
  /\ \/ gov' = [held[s] EXCEPT !.count = 1] /\ UNCHANGED faults
     \/ Fault /\ UNCHANGED gov
  /\ Refuse(s)
  /\ UNCHANGED <<kind, loads>>

(* Mutant: the second strike leaves the file. *)
SecondStrikeKeeps(s) ==
  /\ govAt[s] = "judging" /\ held[s].markers /\ held[s].count = 1
  /\ UNCHANGED <<gov, faults>>
  /\ Refuse(s)
  /\ UNCHANGED <<kind, loads>>

(* Mutant: the second strike is counted like the first. *)
SecondStrikeCounts(s) ==
  /\ govAt[s] = "judging" /\ held[s].markers /\ held[s].count = 1
  /\ gov' = [held[s] EXCEPT !.count = 2]
  /\ UNCHANGED faults
  /\ Refuse(s)
  /\ UNCHANGED <<kind, loads>>

(* The file is removed, whichever record it holds by now. *)
SecondStrike(s) ==
  /\ govAt[s] = "judging" /\ held[s].markers /\ held[s].count = 1
  /\ ClearGov
  /\ Refuse(s)
  /\ UNCHANGED <<kind, loads>>

(* the hook is killed before it answers *)
StopKilled(s) ==
  /\ govAt[s] = "judging" /\ Fault
  /\ govAt' = [govAt EXCEPT ![s] = "working"]
  /\ held' = [held EXCEPT ![s] = NoState]
  /\ UNCHANGED <<gov, kind, verdict, loads, strikes>>

GovStop(s) ==
  \/ StopReadsGov(s) \/ StopPasses(s) \/ FirstStrike(s) \/ SecondStrike(s)

GovNext ==
  \E s \in attached :
    \/ Prompt(s) \/ GovStop(s) \/ StopKilled(s)
    \/ \E snapshot \in BOOLEAN : StopsEarlier(s, snapshot)
=============================================================================
