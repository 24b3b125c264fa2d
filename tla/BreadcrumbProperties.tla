---------------------- MODULE BreadcrumbProperties ----------------------
(***************************************************************************)
(* What the copies of a breadcrumb trail promise each other.               *)
(***************************************************************************)
EXTENDS BreadcrumbTrail

(* The steps marked for some run. *)
ForAnyRun(marked) == UNION {marked[r] : r \in Run}

(* What a trail may claim, given the steps marked and the evidence given   *)
(* for each run: evidence of its run only; steps of its run only, if it    *)
(* bears this terminal's id.  A trail without the id was rebuilt from the  *)
(* log, and verification never sees it: its steps were marked, but maybe   *)
(* for another run.                                                        *)
Backed(t, marked, evidenced) ==
  /\ t.done \subseteq IF t.owned THEN marked[t.run] ELSE ForAnyRun(marked)
  /\ t.proved \subseteq IF t.run = 0 THEN {} ELSE evidenced[t.run]

Honest(t) == Backed(t, earned, proved)

IsTrail(t) == t \notin {NoTrail, Corrupt}

(* Credit is earned: no copy of a trail with this terminal's id - the      *)
(* file, a process's cache, the trail a call is about to write - lists a   *)
(* step that no set_breadcrumb call marked for its own run, no copy        *)
(* whatever lists evidence not given for its run, and a row or a trail     *)
(* rebuilt from the log lists only steps that were marked for some run,    *)
(* whatever calls of other processes, failures and cleanups came between.  *)
CreditIsEarned ==
  /\ IsTrail(file) => Honest(file)
  /\ \A p \in Process :
       /\ IsTrail(cache[p]) => Honest(cache[p])
       /\ IsTrail(call[p].trail) => Honest(call[p].trail)
  /\ \A r \in Run : rows[r] # NoTrail => rows[r] \subseteq ForAnyRun(earned)
  /\ IsTrail(LoadFromLog(log)) => Honest(LoadFromLog(log))

(* The work an enforcement level stands for: enforcement.py, the docstring *)
(* of EnforcementLevel.                                                    *)
Work(r, level) ==
  CASE level = "MINIMAL" -> earned[r] # {}
    [] level = "STANDARD" -> /\ Cardinality(earned[r]) >= 2
                             /\ earned[r] \cap Checking # {}
    [] level = "STRICT" -> Workflow \subseteq proved[r]

(* Verified means done: when verify_breadcrumb_trail, called in whatever   *)
(* process, passes a trail at some level, the steps that level asks for    *)
(* were marked (with evidence, under STRICT) in a trail of the very run it *)
(* passes; what was done for an earlier run of the skill does not count.   *)
VerifiedIsEarned ==
  \A p \in Process, level \in Level :
    LET t == Returned(p)
    IN t # NoTrail /\ Complete(t, level, TRUE) => t.run # 0 /\ Work(t.run, level)

-----------------------------------------------------------------------------
(* "This ensures cache-miss reloads (get_breadcrumb_trail on cold cache)   *)
(* always read current state, not stale JSON": when no call is under way   *)
(* and a trail file is there, a process with a cold cache gets a trail     *)
(* with all the steps of the file.                                         *)
ColdReloadReadsFile ==
  \A p \in Process :
    /\ \A q \in Process : call[q].at = "idle"
    /\ cache[p] = NoTrail /\ file \notin {NoTrail, Corrupt}
    => Returned(p) # NoTrail /\ file.done \subseteq Returned(p).done
=============================================================================
