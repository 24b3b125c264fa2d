------------------------- MODULE BreadcrumbTrail -------------------------
(***************************************************************************)
(* The breadcrumb trail of one skill in one terminal                       *)
(* (src/src/skill_guard/breadcrumb: tracker.py, cache.py, log.py,          *)
(* sqlite_backend.py and enforcement.py).                                  *)
(*                                                                         *)
(* A trail has four copies: the JSON file, the append-only log, the row in *)
(* SQLite and one cache per process.  Hooks run as processes of their own, *)
(* side by side, so that a call is several steps and any other process, a  *)
(* failing write or a kill may come between two of them.  The row is read  *)
(* by no decision, so a call writes it in the step before it writes the    *)
(* log.                                                                    *)
(*                                                                         *)
(* "earned" and "proved" record history only: for each run the steps that  *)
(* a set_breadcrumb call marked (with evidence) in a trail of that run.    *)
(***************************************************************************)
EXTENDS Integers, Sequences, FiniteSets

CONSTANTS
  Process,      \* the processes that call the tracker
  Step,         \* the step names callers use
  Workflow,     \* the workflow_steps the skill declares
  Request,      \* <<step, evidence given>>: the arguments callers pass
  Checking,     \* the steps whose name has a verification keyword
  MaxRuns,      \* bound on the number of trails ever created
  MaxCalls,     \* bound on the number of calls
  MaxFaults,    \* bound on the number of failed writes and ended processes
  RotateAt,     \* entries at which the log is rotated (MAX_LOG_SIZE_BYTES)
  WriteEvery,   \* calls between two debounced writes (_WRITE_EVERY)
  NoTrail,      \* None, or no file
  Corrupt,      \* a file that does not parse: its write was cut short
  NoStep

ASSUME StepAssumption ==
  /\ Workflow \subseteq Step /\ Workflow # {}
  /\ Checking \subseteq Workflow
  /\ Request \subseteq Step \X BOOLEAN
  /\ NoStep \notin Step
ASSUME BoundAssumption ==
  /\ MaxRuns \in Nat \ {0}
  /\ MaxCalls \in Nat
  /\ MaxFaults \in Nat
  /\ RotateAt \in Nat \ {0}
  /\ WriteEvery \in Nat \ {0}

Run == 1 .. MaxRuns

(* The trail dictionary.  run 0: rebuilt from a log that does not begin    *)
(* with trail_initialized, so without run_id and workflow_steps.  owned:   *)
(* terminal_id is this terminal's; a trail rebuilt from the log has none.  *)
(* tools counts to 2, the most the enforcement levels ask for.             *)
Trail == [run : 0 .. MaxRuns, owned : BOOLEAN, done : SUBSET Step,
          proved : SUBSET Step, tools : 0 .. 2]

ASSUME ValueAssumption ==
  /\ NoTrail \notin Trail /\ Corrupt \notin Trail /\ NoTrail # Corrupt

VARIABLES
  file,      \* breadcrumb_<skill>.json
  log,       \* <skill>.jsonl, oldest entry first
  rows,      \* breadcrumb_trails: run -> completed_steps, or NoTrail
  cache,     \* _cache of each process
  dbReady,   \* _db_initialized of each process
  counter,   \* _json_write_counter of each process
  call,      \* where each process is in the tracker, and its local trail
  runs,      \* run ids handed out
  calls,     \* calls begun
  faults,    \* failures and ends of a process so far
  earned, proved

disk == <<file, log, rows>>
memory == <<cache, dbReady, counter>>
history == <<earned, proved>>
bounds == <<calls, faults>>
vars == <<disk, memory, call, runs, bounds, history>>

Idle == [at |-> "idle", step |-> NoStep, evidence |-> FALSE,
         trail |-> NoTrail, fresh |-> FALSE]

Init ==
  /\ file = NoTrail
  /\ log = << >>
  /\ rows = [r \in Run |-> NoTrail]
  /\ cache = [p \in Process |-> NoTrail]
  /\ dbReady = [p \in Process |-> FALSE]
  /\ counter = [p \in Process |-> 0]
  /\ call = [p \in Process |-> Idle]
  /\ runs = 0
  /\ calls = 0
  /\ faults = 0
  /\ earned = [r \in Run |-> {}]
  /\ proved = [r \in Run |-> {}]

-----------------------------------------------------------------------------
(* The log and the cache.                                                  *)

Initialized(r) == [event |-> "trail_initialized", run |-> r, step |-> NoStep]
StepComplete(s) == [event |-> "step_complete", run |-> 0, step |-> s]

(* append: a log that reached its size is archived first *)
Logged(e) == IF Len(log) >= RotateAt THEN <<e>> ELSE Append(log, e)

StepsAfterFirst(l) ==
  {l[i].step : i \in {j \in 2 .. Len(l) : l[j].event = "step_complete"}}

(* Mutant: the rebuilt trail is given this terminal's id. *)
LoadFromLogOwned(l) ==
  IF l = << >> THEN NoTrail
  ELSE [run |-> l[1].run, owned |-> l[1].run # 0, done |-> StepsAfterFirst(l),
        proved |-> {}, tools |-> 0]

(* _load_from_log: the first entry gives the base fields, later ones only  *)
(* completed_steps.                                                        *)
LoadFromLog(l) ==
  IF l = << >> THEN NoTrail
  ELSE [run |-> l[1].run, owned |-> FALSE, done |-> StepsAfterFirst(l),
        proved |-> {}, tools |-> 0]

(* get_state: a miss loads the log (and caches what it loads) *)
State(p) == IF cache[p] = NoTrail THEN LoadFromLog(log) ELSE cache[p]

(* the accesses that may fail are counted *)
Fault == faults < MaxFaults /\ faults' = faults + 1

(* a process at rest begins a call *)
Begin(p) ==
  /\ call[p].at = "idle"
  /\ calls < MaxCalls /\ calls' = calls + 1

OwnedFile == file \notin {NoTrail, Corrupt} /\ file.owned

-----------------------------------------------------------------------------
(* initialize_breadcrumb_trail, called by the prompt hook or from a        *)
(* set_breadcrumb that found no trail (call.at = "init").                  *)

Initializing(p) ==
  \/ Begin(p)
  \/ call[p].at = "init" /\ UNCHANGED calls

AfterInitialize(p) ==
  IF call[p].step = NoStep THEN Idle ELSE [call[p] EXCEPT !.at = "set", !.trail = NoTrail]

InitializeReuse(p) ==
  /\ Initializing(p) /\ OwnedFile
  /\ cache' = [cache EXCEPT ![p] = file]
  /\ call' = [call EXCEPT ![p] = AfterInitialize(p)]
  /\ UNCHANGED <<disk, dbReady, counter, runs, faults, history>>

FreshTrail(r) ==
  [run |-> r, owned |-> TRUE, done |-> {}, proved |-> {}, tools |-> 0]

(* The row becomes newRows, or the access to the database fails, which the *)
(* tracker ignores.                                                        *)
RowsBecome(newRows) ==
  \/ rows' = newRows /\ UNCHANGED faults
  \/ Fault /\ UNCHANGED rows

(* The file of another terminal is removed; the database is opened and the *)
(* run gets its row, or only the files count.                              *)
InitializeFresh(p) ==
  /\ Initializing(p) /\ ~ OwnedFile
  /\ runs < MaxRuns
  /\ runs' = runs + 1
  /\ file' = IF file = Corrupt THEN Corrupt ELSE NoTrail
  /\ \/ /\ dbReady' = [dbReady EXCEPT ![p] = TRUE]
        /\ RowsBecome([rows EXCEPT ![runs'] = {}])
     \/ Fault /\ UNCHANGED <<dbReady, rows>>
  /\ call' = [call EXCEPT ![p].at = "init_log", ![p].trail = FreshTrail(runs')]
  /\ UNCHANGED <<log, cache, counter, history>>

InitializeLog(p) ==
  /\ call[p].at = "init_log"
  /\ log' = Logged(Initialized(call[p].trail.run))
  /\ cache' = [cache EXCEPT ![p] = call[p].trail]
  /\ call' = [call EXCEPT ![p].at = "init_file"]
  /\ UNCHANGED <<file, rows, dbReady, counter, runs, bounds, history>>

InitializeFile(p) ==
  /\ call[p].at = "init_file"
  /\ file' = call[p].trail
  /\ call' = [call EXCEPT ![p] = AfterInitialize(p)]
  /\ UNCHANGED <<log, rows, memory, runs, bounds, history>>

-----------------------------------------------------------------------------
(* set_breadcrumb(step, evidence).                                         *)

Setting(p, s, e) ==
  \/ Begin(p)
  \/ /\ call[p].at = "set" /\ call[p].step = s /\ call[p].evidence = e
     /\ UNCHANGED calls

SetMiss(p, s, e) ==
  /\ Begin(p) /\ State(p) = NoTrail
  /\ call' = [call EXCEPT ![p] = [Idle EXCEPT !.at = "init", !.step = s,
                                              !.evidence = e]]
  /\ UNCHANGED <<disk, memory, runs, faults, history>>

(* a step the trail does not list, any step when it lists none *)
SetIgnored(p, s, e) ==
  /\ Setting(p, s, e) /\ State(p) # NoTrail
  /\ State(p).run = 0 \/ s \notin Workflow
  /\ cache' = [cache EXCEPT ![p] = State(p)]
  /\ call' = [call EXCEPT ![p] = Idle]
  /\ UNCHANGED <<disk, dbReady, counter, runs, faults, history>>

Marked(t, s, e) ==
  [t EXCEPT !.done = @ \cup {s},
            !.proved = IF e THEN @ \cup {s} ELSE @,
            !.tools = IF @ = 2 THEN 2 ELSE @ + 1]

(* The step counts for the run of the trail it is marked in, no other. *)
Earn(r, s, e) ==
  /\ earned' = [earned EXCEPT ![r] = @ \cup {s}]
  /\ proved' = [proved EXCEPT ![r] = IF e THEN @ \cup {s} ELSE @]

(* get_state returns a shallow copy, so the lists and the steps of the     *)
(* cached trail change with the local one, its tool_count does not.        *)
SetMark(p, s, e) ==
  /\ Setting(p, s, e) /\ State(p) # NoTrail
  /\ State(p).run # 0 /\ s \in Workflow
  /\ LET t == State(p)
         marked == Marked(t, s, e)
     IN /\ cache' = [cache EXCEPT ![p] = [marked EXCEPT !.tools = t.tools]]
        /\ RowsBecome(IF dbReady[p] /\ rows[t.run] # NoTrail
               THEN [rows EXCEPT ![t.run] = marked.done] ELSE rows)
        /\ call' = [call EXCEPT ![p] =
                      [at |-> "set_log", step |-> s, evidence |-> e,
                       trail |-> marked, fresh |-> s \notin t.done]]
  /\ Earn(State(p).run, s, e)
  /\ UNCHANGED <<file, log, dbReady, counter, runs>>

SetLog(p) ==
  /\ call[p].at = "set_log"
  /\ log' = Logged(StepComplete(call[p].step))
  /\ cache' = [cache EXCEPT ![p] = call[p].trail]
  /\ call' = [call EXCEPT ![p].at = "set_file"]
  /\ UNCHANGED <<file, rows, dbReady, counter, runs, bounds, history>>

(* Mutant: the counter of the debounced write is never reset. *)
SetFileKeepsCounter(p) ==
  /\ call[p].at = "set_file"
  /\ LET due == counter[p] + 1 >= WriteEvery
     IN /\ counter' = [counter EXCEPT ![p] = @ + 1]
        /\ file' = IF call[p].fresh \/ due THEN call[p].trail ELSE file
  /\ call' = [call EXCEPT ![p] = Idle]
  /\ UNCHANGED <<log, rows, cache, dbReady, runs, bounds, history>>

(* at once for a newly completed step, else on every WriteEvery-th call *)
SetFile(p) ==
  /\ call[p].at = "set_file"
  /\ LET due == counter[p] + 1 >= WriteEvery
     IN /\ counter' = [counter EXCEPT ![p] = IF due THEN 0 ELSE @ + 1]
        /\ file' = IF call[p].fresh \/ due THEN call[p].trail ELSE file
  /\ call' = [call EXCEPT ![p] = Idle]
  /\ UNCHANGED <<log, rows, cache, dbReady, runs, bounds, history>>

-----------------------------------------------------------------------------
(* get_breadcrumb_trail: what it returns, and its effect on the cache and  *)
(* the file.  Every file in this terminal's directory was written here, so *)
(* one that names a terminal names this one.                               *)

Returned(p) ==
  CASE State(p) # NoTrail /\ State(p).owned -> State(p)
    [] OwnedFile -> file
    [] OTHER -> NoTrail

GetTrail(p) ==
  /\ Begin(p)
  /\ cache' = [cache EXCEPT ![p] =
                 IF Returned(p) # NoTrail THEN Returned(p) ELSE State(p)]
  /\ file' = IF Returned(p) = NoTrail /\ file # Corrupt THEN NoTrail ELSE file
  /\ UNCHANGED <<log, rows, dbReady, counter, call, runs, faults, history>>

(* verify_with_enforcement on the trail that is returned; long: the trail  *)
(* is older than ten seconds.                                              *)
Level == {"MINIMAL", "STANDARD", "STRICT"}

Busy(t, long) == long /\ t.tools >= 2

Complete(t, level, long) ==
  \/ t = NoTrail
  \/ level = "MINIMAL" /\ Busy(t, long)
  \/ level = "STANDARD" /\ Busy(t, long)
       /\ Cardinality(t.done) >= 2 /\ t.done \cap Checking # {}
  \/ level = "STRICT" /\ Workflow \subseteq t.done /\ t.done \subseteq t.proved

-----------------------------------------------------------------------------
(* clear_breadcrumb_trail: row, log, file.  clear_all_breadcrumb_trails    *)
(* removes the file only.                                                  *)

ClearRow(p) ==
  /\ Begin(p)
  /\ RowsBecome(IF dbReady[p] /\ State(p) # NoTrail /\ State(p).run # 0
         THEN [rows EXCEPT ![State(p).run] = NoTrail] ELSE rows)
  /\ call' = [call EXCEPT ![p].at = "clear_log"]
  /\ cache' = [cache EXCEPT ![p] = NoTrail]
  /\ UNCHANGED <<file, log, dbReady, counter, runs, history>>

ClearLog(p) ==
  /\ call[p].at = "clear_log"
  /\ log' = << >>
  /\ call' = [call EXCEPT ![p].at = "clear_file"]
  /\ UNCHANGED <<file, rows, memory, runs, bounds, history>>

ClearFile(p) ==
  /\ call[p].at = "clear_file"
  /\ file' = NoTrail
  /\ call' = [call EXCEPT ![p] = Idle]
  /\ UNCHANGED <<log, rows, memory, runs, bounds, history>>

ClearAll(p) ==
  /\ Begin(p)
  /\ file' = NoTrail
  /\ UNCHANGED <<log, rows, memory, call, runs, faults, history>>

(* cleanup_session_breadcrumbs: the rows of the terminal, then its file;   *)
(* the log stays.                                                          *)
SessionRows(p) ==
  /\ Begin(p)
  /\ RowsBecome(IF dbReady[p] THEN [r \in Run |-> NoTrail] ELSE rows)
  /\ call' = [call EXCEPT ![p].at = "session_file"]
  /\ UNCHANGED <<file, log, memory, runs, history>>

SessionFile(p) ==
  /\ call[p].at = "session_file"
  /\ file' = IF OwnedFile \/ file = Corrupt THEN NoTrail ELSE file
  /\ cache' = [cache EXCEPT ![p] = IF OwnedFile THEN NoTrail ELSE @]
  /\ call' = [call EXCEPT ![p] = Idle]
  /\ UNCHANGED <<log, rows, dbReady, counter, runs, bounds, history>>

(* cleanup_stale_breadcrumbs: the runs older than MAX_TRAIL_AGE_SECONDS    *)
(* (any of them may be by now; a failure leaves the rest of the rows),     *)
(* files without this terminal's id, and the whole cache of the process.   *)
StaleRows(p) ==
  /\ Begin(p)
  /\ \E old \in SUBSET (1 .. runs) :
       RowsBecome([r \in Run |-> IF dbReady[p] /\ r \in old THEN NoTrail ELSE rows[r]])
  /\ call' = [call EXCEPT ![p].at = "stale_file"]
  /\ UNCHANGED <<file, log, memory, runs, history>>

StaleFile(p) ==
  /\ call[p].at = "stale_file"
  /\ file' \in IF OwnedFile THEN {file, NoTrail} ELSE {NoTrail}
  /\ cache' = [cache EXCEPT ![p] = NoTrail]
  /\ call' = [call EXCEPT ![p] = Idle]
  /\ UNCHANGED <<log, rows, dbReady, counter, runs, bounds, history>>

(* cleanup_old_log_dirs: appending does not touch the directory's mtime,   *)
(* so that a log still in use goes too.                                    *)
CleanupLogs(p) ==
  /\ Begin(p)
  /\ log # << >>
  /\ log' = << >>
  /\ UNCHANGED <<file, rows, memory, call, runs, faults, history>>

-----------------------------------------------------------------------------
(* The environment.                                                        *)

(* A write that fails or is killed after open() truncated the file. *)
CutShort(p) ==
  \/ file' = file
  \/ /\ \/ call[p].at = "init_file"
        \/ call[p].at = "set_file" /\ (call[p].fresh \/ counter[p] + 1 >= WriteEvery)
     /\ file' = Corrupt

(* an OSError of the log or the file leaves the call; the callers catch it *)
Fail(p) ==
  /\ call[p].at \in {"init_log", "init_file", "set_log", "set_file"}
  /\ Fault /\ CutShort(p)
  /\ call' = [call EXCEPT ![p] = Idle]
  /\ UNCHANGED <<log, rows, memory, runs, calls, history>>

(* the process ends, at rest or in the middle of a call *)
Restart(p) ==
  /\ Fault /\ CutShort(p)
  /\ cache' = [cache EXCEPT ![p] = NoTrail]
  /\ dbReady' = [dbReady EXCEPT ![p] = FALSE]
  /\ counter' = [counter EXCEPT ![p] = 0]
  /\ call' = [call EXCEPT ![p] = Idle]
  /\ UNCHANGED <<log, rows, runs, calls, history>>

-----------------------------------------------------------------------------
Initialize(p) ==
  \/ InitializeReuse(p)
  \/ InitializeFresh(p)
  \/ InitializeLog(p)
  \/ InitializeFile(p)

SetBreadcrumb(p) ==
  \/ \E r \in Request :
       SetMiss(p, r[1], r[2]) \/ SetIgnored(p, r[1], r[2]) \/ SetMark(p, r[1], r[2])
  \/ SetLog(p)
  \/ SetFile(p)

Clear(p) == ClearRow(p) \/ ClearLog(p) \/ ClearFile(p) \/ ClearAll(p)

Cleanup(p) ==
  \/ SessionRows(p) \/ SessionFile(p)
  \/ StaleRows(p) \/ StaleFile(p)
  \/ CleanupLogs(p)

Next ==
  \E p \in Process :
    \/ Initialize(p) \/ SetBreadcrumb(p) \/ GetTrail(p)
    \/ Clear(p) \/ Cleanup(p) \/ Fail(p) \/ Restart(p)

Spec == Init /\ [][Next]_vars

-----------------------------------------------------------------------------
Entry == [event : {"trail_initialized", "step_complete"}, run : 0 .. MaxRuns,
          step : Step \cup {NoStep}]

Phase == {"idle", "init", "init_log", "init_file", "set", "set_log", "set_file",
          "clear_log", "clear_file", "session_file", "stale_file"}

(* Types: each copy of the trail, and a process that is about to write one *)
(* holds it.                                                               *)
TypeOK ==
  /\ file \in Trail \cup {NoTrail, Corrupt}
  /\ log \in Seq(Entry)
  /\ rows \in [Run -> (SUBSET Step) \cup {NoTrail}]
  /\ cache \in [Process -> Trail \cup {NoTrail}]
  /\ dbReady \in [Process -> BOOLEAN]
  /\ counter \in [Process -> 0 .. WriteEvery - 1]
  /\ call \in [Process -> [at : Phase, step : Step \cup {NoStep},
                           evidence : BOOLEAN, trail : Trail \cup {NoTrail},
                           fresh : BOOLEAN]]
  /\ \A p \in Process :
       call[p].at \in {"init_log", "init_file", "set_log", "set_file"} =>
         call[p].trail \in Trail /\ call[p].trail.run \in Run
  /\ runs \in 0 .. MaxRuns
  /\ calls \in 0 .. MaxCalls
  /\ faults \in 0 .. MaxFaults
  /\ earned \in [Run -> SUBSET Step]
  /\ proved \in [Run -> SUBSET Step]
=============================================================================
