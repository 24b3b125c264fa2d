----------------------- MODULE DatabaseProperties -----------------------
(***************************************************************************)
(* What the breadcrumb database promises the hooks and the migration.      *)
(***************************************************************************)
EXTENDS BreadcrumbMigration

Row == [id : Nat, terminal : Terminal]
Event == [trail : Nat, terminal : Terminal]
Database ==
  [version : {0, 1}, tables : BOOLEAN, last : Nat,
   rows : [Run -> Row \cup {NoRow}], events : SUBSET Event]

HookPhase == {"ended", "idle", "version", "insert", "tables", "create", "files"}
MigrationStage == {"idle", "validate", "trails", "events", "rollback"}

(* ids in use come from the sequence, and a row's id is its own *)
IdsAreFresh(d) ==
  /\ \A e \in d.events : e.trail <= d.last
  /\ \A r \in Run : d.rows[r] # NoRow => d.rows[r].id <= d.last
  /\ \A r, s \in Run : d.rows[r] # NoRow /\ d.rows[s] # NoRow /\ r # s
                         => d.rows[r].id # d.rows[s].id

(* Types: the database as committed and as its writer sees it, ids from    *)
(* the sequence, and where processes and the command are.                  *)
TypeOK ==
  /\ db \in Database /\ IdsAreFresh(db)
  /\ dirty \in Database /\ IdsAreFresh(dirty)
  /\ writer \in Process \cup {Nobody}
  /\ ready \in [Process -> BOOLEAN]
  /\ erred \in [Process -> BOOLEAN]
  /\ at \in [Process -> HookPhase]
  /\ run \in [Process -> Run \cup {NoFile}]
  /\ runs \in 0 .. MaxRuns
  /\ file \in [Terminal -> File]
  /\ log \in [Terminal -> {"none", "lines", "torn"}]
  /\ calls \in 0 .. MaxCalls /\ faults \in 0 .. MaxFaults
  /\ mig \in [at : MigrationStage, terminal : Terminal]
  /\ migrations \in 0 .. MaxMigrations

(* A version that was committed tells the truth: whoever reads version 1,  *)
(* whichever process died or lost the race while it set the schema up,     *)
(* finds the tables, so that skipping _run_migrations is right.            *)
VersionMeansTables == db.version = 1 => db.tables

(* _db_initialized means what the tracker takes it for: a process that set *)
(* it sees the tables, until one of its own statements failed (SQLite may  *)
(* then undo the transaction that still held the CREATEs).                 *)
ReadySeesTables == \A p \in Process : ready[p] /\ ~ erred[p] => See(p).tables

(* Events keep their trail: every event that a row's id reaches was        *)
(* written for the terminal of that row, although a migration leaves       *)
(* events of rows it replaced behind and rows come and go.                 *)
EventsKeepTheirTrail ==
  \A d \in {db, dirty}, r \in Run :
    d.rows[r] # NoRow =>
      \A e \in d.events :
        e.trail = d.rows[r].id => e.terminal = d.rows[r].terminal

(* A call that ends without an error leaves no transaction open: a process *)
(* at rest holds the write lock, for which every other hook and the        *)
(* migration wait, only if one of its statements failed.                   *)
RestIsCommitted ==
  \A p \in Process : writer = p /\ at[p] \in {"idle", "ended"} => erred[p]

-----------------------------------------------------------------------------
(* "Graceful degradation on database unavailability": an initialisation    *)
(* the database fails goes on with the files, unless its process ends.     *)
DatabaseDegrades ==
  [][\A p \in Process :
       at[p] \in {"version", "insert", "tables", "create"} => at'[p] # "idle"]_vars
=============================================================================
