----------------------- MODULE BreadcrumbDatabase -----------------------
(***************************************************************************)
(* The SQLite database behind the breadcrumb trails                        *)
(* (src/src/skill_guard/breadcrumb: database.py, sqlite_backend.py and the *)
(* calls tracker.py makes of them): the connection a hook process pools,   *)
(* its open transaction, the schema and its version, the rows and events.  *)
(*                                                                         *)
(* Python's sqlite3 opens a transaction before INSERT, UPDATE and DELETE   *)
(* and not before CREATE; commit() ends it.  Readers see the last commit,  *)
(* the process with the write lock sees its own changes.  A statement that *)
(* fails leaves the transaction open, and the pooled connection keeps it,  *)
(* with the lock, until a later commit or the end of the process.          *)
(*                                                                         *)
(* One skill per terminal: a run belongs to the terminal that started it.  *)
(***************************************************************************)
EXTENDS Integers, FiniteSets

CONSTANTS
  Process,      \* the hook processes
  Terminal,
  Home,         \* the terminal of each process
  MaxRuns,      \* bound on the number of run ids
  MaxCalls,     \* bound on the number of calls of the tracker
  MaxFaults,    \* bound on failed accesses, timeouts and killed processes
  NoRow,        \* a run without row
  NoFile,       \* no breadcrumb_<skill>.json, no run
  Invalid,      \* a file the migration's validation rejects
  Nobody        \* the write lock is free

Run == 1 .. MaxRuns
File == Run \cup {NoFile, Invalid}

ASSUME HomeAssumption == Home \in [Process -> Terminal]
ASSUME BoundAssumption == MaxRuns \in Nat /\ MaxCalls \in Nat /\ MaxFaults \in Nat
ASSUME ValueAssumption ==
  /\ NoRow \notin [id : Nat, terminal : Terminal]
  /\ NoFile \notin Run /\ Invalid \notin Run
  /\ Nobody \notin Process

VARIABLES
  db,        \* the database as last committed
  dirty,     \* the database as the holder of the write lock sees it
  writer,    \* the process with the write lock
  ready,     \* _db_initialized of each process
  erred,     \* history: a statement of this process failed
  at,        \* where each process is in initialize_breadcrumb_trail
  run,       \* the run of the trail each process knows
  runs,      \* run ids handed out
  file,      \* breadcrumb_<skill>.json of each terminal
  log,       \* <skill>.jsonl of each terminal
  calls, faults

database == <<db, dirty, writer>>
session == <<ready, erred, at, run>>
files == <<file, log>>
hookVars == <<database, session, runs, files, calls, faults>>

Empty == [version |-> 0, tables |-> FALSE, last |-> 0,
          rows |-> [r \in Run |-> NoRow], events |-> {}]

HookInit ==
  /\ db = Empty /\ dirty = Empty /\ writer = Nobody
  /\ ready = [p \in Process |-> FALSE]
  /\ erred = [p \in Process |-> FALSE]
  /\ at = [p \in Process |-> "ended"]
  /\ run = [p \in Process |-> NoFile]
  /\ runs = 0
  /\ file = [t \in Terminal |-> NoFile]
  /\ log = [t \in Terminal |-> "none"]
  /\ calls = 0 /\ faults = 0

-----------------------------------------------------------------------------
(* The connection.                                                         *)

(* what the pooled connection of p reads: the commit, or its own changes *)
See(p) == IF writer = p THEN dirty ELSE db

Free(p) == writer \in {Nobody, p}

Commit(new) == db' = new /\ dirty' = new /\ writer' = Nobody

(* a statement runs in the open transaction of p *)
Hold(p, new) == db' = db /\ dirty' = new /\ writer' = p

(* the transaction of p, if there is one, is undone *)
Undo(p) ==
  /\ db' = db
  /\ dirty' = IF Free(p) THEN db ELSE dirty
  /\ writer' = IF writer = p THEN Nobody ELSE writer

(* CREATE TABLE IF NOT EXISTS: at once, except in an open transaction; it  *)
(* writes nothing when the tables are there.                               *)
Tables(p) ==
  LET new == [See(p) EXCEPT !.tables = TRUE]
  IN /\ Free(p) \/ db.tables
     /\ db' = IF writer = p THEN db ELSE new
     /\ dirty' = IF Free(p) THEN new ELSE dirty
     /\ writer' = writer

Fault == faults < MaxFaults /\ faults' = faults + 1

(* All statements of a call run and are committed; or one of them fails,   *)
(* which the tracker swallows: the lock did not come in busy_timeout, the  *)
(* transaction stays open after some statements, or SQLite undid it.       *)
Completed(p, new) == Free(p) /\ Commit(new) /\ UNCHANGED <<erred, faults>>
Interrupted(p, part) ==
  /\ Fault
  /\ erred' = [erred EXCEPT ![p] = TRUE]
  /\ \/ Free(p) /\ Hold(p, part)
     \/ Undo(p)

-----------------------------------------------------------------------------
(* Rows and events.                                                        *)

(* Mutant: an id is one more than the largest in use (no AUTOINCREMENT). *)
WithRowReusedId(d, r, t) ==
  LET used == {d.rows[q].id : q \in {s \in Run : d.rows[s] # NoRow}} \cup {0}
      id == 1 + CHOOSE i \in used : \A j \in used : j <= i
  IN [d EXCEPT !.rows[r] = [id |-> id, terminal |-> t]]

(* AUTOINCREMENT never hands out an id twice *)
WithRow(d, r, t) ==
  [d EXCEPT !.last = @ + 1, !.rows[r] = [id |-> d.last + 1, terminal |-> t]]

WithEvent(d, id, t) ==
  [d EXCEPT !.events = @ \cup {[trail |-> id, terminal |-> t]}]

(* Deleting rows cascades to their events: foreign keys are on in hooks.   *)
Without(d, S) ==
  [d EXCEPT !.rows = [r \in Run |-> IF r \in S THEN NoRow ELSE d.rows[r]],
            !.events = {e \in d.events :
                         \A r \in S : d.rows[r] # NoRow => e.trail # d.rows[r].id}]

TerminalRuns(d, t) == {r \in Run : d.rows[r] # NoRow /\ d.rows[r].terminal = t}

-----------------------------------------------------------------------------
(* initialize_breadcrumb_trail.                                            *)

(* a process at rest, or a new one, begins a call *)
Begin(p) ==
  /\ at[p] \in {"idle", "ended"}
  /\ calls < MaxCalls /\ calls' = calls + 1

(* A file of this terminal is kept as it is: only a cache changes. *)
Initialize(p) ==
  /\ Begin(p)
  /\ file[Home[p]] \in {NoFile, Invalid}
  /\ runs < MaxRuns /\ runs' = runs + 1
  /\ run' = [run EXCEPT ![p] = runs']
  /\ at' = [at EXCEPT ![p] = IF ready[p] THEN "create" ELSE "version"]
  /\ UNCHANGED <<database, ready, erred, files, faults>>

(* get_connection returns None, or _ensure_database_initialized catches an *)
(* OSError: the files only.                                                *)
NoConnection(p) ==
  /\ at[p] = "version" /\ Fault
  /\ at' = [at EXCEPT ![p] = "files"]
  /\ UNCHANGED <<database, ready, erred, run, runs, files, calls>>

(* Mutant: _db_initialized is set before initialize_schema runs. *)
ReadVersionReady(p) ==
  /\ at[p] = "version"
  /\ at' = [at EXCEPT ![p] = IF See(p).version = 0 THEN "insert" ELSE "tables"]
  /\ ready' = [ready EXCEPT ![p] = TRUE]
  /\ UNCHANGED <<database, erred, run, runs, files, calls, faults>>

ReadVersion(p) ==
  /\ at[p] = "version"
  /\ at' = [at EXCEPT ![p] = IF See(p).version = 0 THEN "insert" ELSE "tables"]
  /\ UNCHANGED <<database, ready, erred, run, runs, files, calls, faults>>

(* Mutant: the version row is committed before the tables are created. *)
InsertVersionCommits(p) ==
  /\ at[p] = "insert" /\ Free(p) /\ See(p).version = 0
  /\ Commit([See(p) EXCEPT !.version = 1])
  /\ at' = [at EXCEPT ![p] = "tables"]
  /\ UNCHANGED <<ready, erred, run, runs, files, calls, faults>>

(* _run_migrations: the row opens the transaction, which nothing in        *)
(* initialize_schema commits.                                              *)
InsertVersion(p) ==
  /\ at[p] = "insert" /\ Free(p) /\ See(p).version = 0
  /\ Hold(p, [See(p) EXCEPT !.version = 1])
  /\ at' = [at EXCEPT ![p] = "tables"]
  /\ UNCHANGED <<ready, erred, run, runs, files, calls, faults>>

(* Another process was first: sqlite3.IntegrityError, which is no OSError, *)
(* leaves initialize_breadcrumb_trail and keeps the transaction.           *)
VersionTaken(p) ==
  /\ at[p] = "insert" /\ Free(p) /\ See(p).version = 1
  /\ Hold(p, See(p))
  /\ erred' = [erred EXCEPT ![p] = TRUE]
  /\ at' = [at EXCEPT ![p] = "idle"]
  /\ run' = [run EXCEPT ![p] = NoFile]
  /\ UNCHANGED <<ready, runs, files, calls, faults>>

(* sqlite3.OperationalError: the lock did not come in time *)
LockTimeout(p) ==
  /\ at[p] = "insert" /\ ~ Free(p) /\ Fault
  /\ at' = [at EXCEPT ![p] = "idle"]
  /\ run' = [run EXCEPT ![p] = NoFile]
  /\ UNCHANGED <<database, ready, erred, runs, files, calls>>

(* sqlite3.OperationalError from a CREATE (the lock, the disk, or one of   *)
(* several that succeeded) leaves initialize_breadcrumb_trail: a version   *)
(* row stays in the open transaction, or SQLite undid it.                  *)
TablesFail(p) ==
  /\ at[p] = "tables" /\ Fault
  /\ UNCHANGED database \/ Undo(p)
  /\ erred' = [erred EXCEPT ![p] = TRUE]
  /\ at' = [at EXCEPT ![p] = "idle"]
  /\ run' = [run EXCEPT ![p] = NoFile]
  /\ UNCHANGED <<ready, runs, files, calls>>

CreateTables(p) ==
  /\ at[p] = "tables" /\ Tables(p)
  /\ ready' = [ready EXCEPT ![p] = TRUE]
  /\ at' = [at EXCEPT ![p] = "create"]
  /\ UNCHANGED <<erred, run, runs, files, calls, faults>>

(* Mutant: create_trail ends without commit(). *)
CreateOpen(p) ==
  LET t == Home[p]
      row == WithRow(See(p), run[p], t)
  IN /\ at[p] = "create" /\ See(p).tables /\ Free(p)
     /\ Hold(p, WithEvent(row, row.last, t))
     /\ at' = [at EXCEPT ![p] = "files"]
     /\ UNCHANGED <<ready, erred, run, runs, files, calls, faults>>

(* create_trail: row, event, commit *)
Create(p) ==
  LET t == Home[p]
      row == WithRow(See(p), run[p], t)
  IN /\ at[p] = "create" /\ See(p).tables
     /\ Completed(p, WithEvent(row, row.last, t))
     /\ at' = [at EXCEPT ![p] = "files"]
     /\ UNCHANGED <<ready, run, runs, files, calls>>

(* An exception takes away the run id that create_trail made: the trail    *)
(* keeps the one the tracker made before, which has no row.                *)
CreateFails(p) ==
  /\ at[p] = "create"
  /\ IF See(p).tables THEN Interrupted(p, WithRow(See(p), run[p], Home[p]))
     ELSE UNCHANGED <<database, erred, faults>>
  /\ runs < MaxRuns /\ runs' = runs + 1
  /\ run' = [run EXCEPT ![p] = runs']
  /\ at' = [at EXCEPT ![p] = "files"]
  /\ UNCHANGED <<ready, files, calls>>

(* the log, then the file *)
Files(p) ==
  /\ at[p] = "files"
  /\ at' = [at EXCEPT ![p] = "idle"]
  /\ file' = [file EXCEPT ![Home[p]] = run[p]]
  /\ log' = [log EXCEPT ![Home[p]] = IF @ = "none" THEN "lines" ELSE @]
  /\ UNCHANGED <<database, ready, erred, run, runs, calls, faults>>

-----------------------------------------------------------------------------
(* The other calls of the tracker: one step each, an error is swallowed.   *)

Known(p) == {run[p], file[Home[p]]} \cap Run

(* update_trail: without a row for the run it returns, with no commit      *)
UpdateRow(p, r) ==
  LET row == See(p).rows[r]
  IN /\ row # NoRow
     /\ \/ Completed(p, WithEvent(See(p), row.id, row.terminal))
        \/ Interrupted(p, See(p))

(* set_breadcrumb *)
Update(p) ==
  /\ Begin(p) /\ ready[p]
  /\ \E r \in Known(p) : UpdateRow(p, r)
  /\ UNCHANGED <<ready, at, run, runs, files>>

(* set_breadcrumb with a cold cache rebuilds the trail from the log, with  *)
(* the run of its first entry (any earlier one of the terminal), and       *)
(* writes the file without terminal_id.                                    *)
UpdateCold(p) ==
  /\ Begin(p) /\ run[p] = NoFile
  /\ log[Home[p]] # "none"
  /\ \/ UNCHANGED <<database, erred, faults>>
     \/ ready[p] /\ \E r \in TerminalRuns(See(p), Home[p]) : UpdateRow(p, r)
  /\ file' = [file EXCEPT ![Home[p]] = Invalid]
  /\ UNCHANGED <<ready, at, run, runs, log>>

DeleteRows(p, S) ==
  IF ready[p]
  THEN Completed(p, Without(See(p), S)) \/ Interrupted(p, Without(See(p), S))
  ELSE UNCHANGED <<database, erred, faults>>

(* clear_breadcrumb_trail *)
Clear(p) ==
  /\ Begin(p)
  /\ \E r \in Known(p) : DeleteRows(p, {r})
  /\ file' = [file EXCEPT ![Home[p]] = NoFile]
  /\ log' = [log EXCEPT ![Home[p]] = "none"]
  /\ run' = [run EXCEPT ![p] = NoFile]
  /\ UNCHANGED <<ready, at, runs>>

(* cleanup_session_breadcrumbs: the rows of the terminal, its file *)
ClearTerminal(p) ==
  /\ Begin(p)
  /\ DeleteRows(p, TerminalRuns(See(p), Home[p]))
  /\ file' = [file EXCEPT ![Home[p]] = NoFile]
  /\ run' = [run EXCEPT ![p] = NoFile]
  /\ UNCHANGED <<ready, at, runs, log>>

(* cleanup_stale_breadcrumbs: any run of the terminal may be old, one      *)
(* delete_trail each.                                                      *)
Stale(p) ==
  /\ Begin(p) /\ ready[p]
  /\ \E r \in TerminalRuns(See(p), Home[p]) : DeleteRows(p, {r})
  /\ file' = [file EXCEPT ![Home[p]] = NoFile]
  /\ run' = [run EXCEPT ![p] = NoFile]
  /\ UNCHANGED <<ready, at, runs, log>>

-----------------------------------------------------------------------------
(* The end of a hook process: the operating system closes its connection.  *)

Gone(p) ==
  /\ Undo(p)
  /\ ready' = [ready EXCEPT ![p] = FALSE]
  /\ erred' = [erred EXCEPT ![p] = FALSE]
  /\ at' = [at EXCEPT ![p] = "ended"]
  /\ run' = [run EXCEPT ![p] = NoFile]

End(p) ==
  /\ at[p] = "idle" /\ Gone(p)
  /\ UNCHANGED <<runs, files, calls, faults>>

(* in the middle of a call, perhaps while it writes the log or the file *)
Kill(p) ==
  /\ at[p] \notin {"idle", "ended"} /\ Fault /\ Gone(p)
  /\ \/ UNCHANGED files
     \/ at[p] = "files" /\ log' = [log EXCEPT ![Home[p]] = "torn"] /\ UNCHANGED file
     \/ at[p] = "files" /\ file' = [file EXCEPT ![Home[p]] = Invalid] /\ UNCHANGED log
  /\ UNCHANGED <<runs, calls>>

HookStep(p) ==
  \/ Initialize(p) \/ NoConnection(p)
  \/ ReadVersion(p) \/ InsertVersion(p) \/ VersionTaken(p) \/ LockTimeout(p)
  \/ TablesFail(p) \/ CreateTables(p) \/ Create(p) \/ CreateFails(p) \/ Files(p)
  \/ Update(p) \/ UpdateCold(p)
  \/ Clear(p) \/ ClearTerminal(p) \/ Stale(p)
  \/ End(p) \/ Kill(p)
=============================================================================
