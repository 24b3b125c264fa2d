-------------------------- MODULE StopSessions --------------------------
(***************************************************************************)
(* The sessions whose Stop hooks share the files of one terminal, and the  *)
(* failures a run may have.  Governance and ManualInvocation are two       *)
(* validators of a Stop that refuse a turn a limited number of times.      *)
(***************************************************************************)
EXTENDS Integers, Sequences

CONSTANTS
  Session,
  MaxFaults    \* bound on failed accesses and killed hooks

ASSUME SessionAssumption == MaxFaults \in Nat

VARIABLES
  attached,    \* the sessions of the terminal, fixed at the start
  faults

sessionVars == <<attached, faults>>

SessionInit ==
  /\ attached \in SUBSET Session \ {{}}
  /\ faults = 0

Fault == faults < MaxFaults /\ faults' = faults + 1

(* One session, so that no two hooks run side by side, and no failure. *)
Undisturbed == faults = 0 /\ \E s \in Session : attached = {s}

(* refusals are counted up to one more than any budget *)
OneMore(n) == IF n = 3 THEN 3 ELSE n + 1
=============================================================================
