----------------------- MODULE BreadcrumbMigration -----------------------
(***************************************************************************)
(* The command that copies the trail files of a terminal into the database *)
(* (src/src/skill_guard/breadcrumb/migration.py), run by hand beside the   *)
(* hooks.  It opens a connection per stage and commits each stage by       *)
(* itself; foreign keys stay off in its connections, so that neither       *)
(* REPLACE nor DELETE cascades.  --all runs it for one terminal after the  *)
(* other.                                                                  *)
(***************************************************************************)
EXTENDS BreadcrumbDatabase

CONSTANTS
  Migrator,        \* the command as a user of the database
  MaxMigrations    \* bound on the number of commands

ASSUME MigrationAssumption ==
  MaxMigrations \in Nat /\ Migrator \notin Process \cup {Nobody}

VARIABLES
  mig,         \* the stage of the command, and its terminal
  migrations   \* commands begun

migVars == <<mig, migrations>>
vars == <<hookVars, migVars>>

NoCommand(t) == [at |-> "idle", terminal |-> t]
hookSide == <<session, runs, files, calls>>

Init ==
  /\ HookInit
  /\ \E t \in Terminal : mig = NoCommand(t)
  /\ migrations = 0

Stage(s) == mig' = [mig EXCEPT !.at = s]

(* cli_migrate or cli_rollback *)
Command(t, s) ==
  /\ mig.at = "idle"
  /\ migrations < MaxMigrations /\ migrations' = migrations + 1
  /\ mig' = [at |-> s, terminal |-> t]

(* _ensure_schema: the tables, never the version *)
MigrateBegin(t) ==
  /\ Command(t, "validate")
  /\ Tables(Migrator)
  /\ UNCHANGED <<hookSide, faults>>

(* what validate_jsonl_files and validate_json_state accept *)
Valid(t) == log[t] # "torn" /\ file[t] # Invalid

Validate ==
  /\ mig.at = "validate"
  /\ Stage(IF Valid(mig.terminal) THEN "trails" ELSE "idle")
  /\ UNCHANGED <<database, hookSide, faults, migrations>>

(* INSERT OR REPLACE by run_id: a run that has a row gets a new id, the    *)
(* events of the old one stay.  A file that no longer parses is skipped.   *)
MigrateTrails ==
  /\ mig.at = "trails" /\ Free(Migrator)
  /\ LET t == mig.terminal
     IN Commit(IF file[t] \in Run THEN WithRow(db, file[t], t) ELSE db)
  /\ Stage("events")
  /\ UNCHANGED <<hookSide, faults, migrations>>

(* the row a log's events go to: the last one of the skill *)
NewestTrail(d, t) ==
  {r \in TerminalRuns(d, t) :
     \A q \in TerminalRuns(d, t) : d.rows[q].id <= d.rows[r].id}

(* Lines of earlier runs go to the same row. *)
MigrateEvents ==
  /\ mig.at = "events" /\ Free(Migrator)
  /\ LET t == mig.terminal
     IN IF log[t] # "none" /\ TerminalRuns(db, t) # {}
        THEN \E r \in NewestTrail(db, t) : Commit(WithEvent(db, db.rows[r].id, t))
        ELSE Commit(db)
  /\ Stage("idle")
  /\ UNCHANGED <<hookSide, faults, migrations>>

(* an error of this stage rolls the terminal back *)
EventsFail ==
  /\ mig.at = "events" /\ Fault
  /\ Stage("rollback")
  /\ UNCHANGED <<database, hookSide, migrations>>

(* Mutant: the rollback takes the rows of the terminal with their events   *)
(* and starts the ids again.                                               *)
RollbackMigrationResets ==
  /\ mig.at = "rollback" /\ Free(Migrator)
  /\ Commit([Without(db, TerminalRuns(db, mig.terminal)) EXCEPT !.last = 0])
  /\ Stage("idle")
  /\ UNCHANGED <<hookSide, faults, migrations>>

(* rollback_migration: every row of the terminal, whoever wrote it, and    *)
(* the events of these rows                                                *)
RollbackMigration ==
  /\ mig.at = "rollback" /\ Free(Migrator)
  /\ Commit(Without(db, TerminalRuns(db, mig.terminal)))
  /\ Stage("idle")
  /\ UNCHANGED <<hookSide, faults, migrations>>

RollbackBegin(t) ==
  /\ Command(t, "rollback")
  /\ UNCHANGED <<database, hookSide, faults>>

(* a stage fails (nothing of it is committed) or the command is killed *)
Abandon ==
  /\ mig.at # "idle" /\ Fault
  /\ Stage("idle")
  /\ UNCHANGED <<database, hookSide, migrations>>

Migrate ==
  \/ \E t \in Terminal : MigrateBegin(t) \/ RollbackBegin(t)
  \/ Validate \/ MigrateTrails \/ MigrateEvents \/ EventsFail
  \/ RollbackMigration \/ Abandon

Next ==
  \/ \E p \in Process : HookStep(p) /\ UNCHANGED migVars
  \/ Migrate

Spec == Init /\ [][Next]_vars
=============================================================================
