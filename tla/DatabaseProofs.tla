-------------------------- MODULE DatabaseProofs --------------------------
(***************************************************************************)
(* Theorems about the breadcrumb database, for any number of hooks,        *)
(* terminals, runs, migrations and failures, and every interleaving.       *)
(***************************************************************************)
EXTENDS DatabaseProperties, TLAPS

(***************************************************************************)
(* A database is sound when its ids come from the sequence and its events  *)
(* fit the rows they reach.                                                *)
(***************************************************************************)
Fits(d) ==
  \A r \in Run : d.rows[r] # NoRow =>
    \A e \in d.events : e.trail = d.rows[r].id => e.terminal = d.rows[r].terminal

Sound(d) == d \in Database /\ IdsAreFresh(d) /\ Fits(d)

LEMMA RowFact ==
    NoRow \notin Row
BY ValueAssumption DEF Row

LEMMA SoundRow ==
    ASSUME NEW d, Sound(d), NEW r \in Run, NEW t \in Terminal
    PROVE  /\ Sound(WithRow(d, r, t))
           /\ WithRow(d, r, t).tables = d.tables /\ WithRow(d, r, t).version = d.version
           /\ WithRow(d, r, t).rows[r] = [id |-> WithRow(d, r, t).last, terminal |-> t]
<1> DEFINE new == WithRow(d, r, t)
           row == [id |-> d.last + 1, terminal |-> t]
<1>1. d \in Database /\ d.last \in Nat /\ d.rows \in [Run -> Row \cup {NoRow}]
      /\ d.events \in SUBSET Event
  BY DEF Sound, Database
<1>2. row \in Row
  BY <1>1 DEF Row
<1>3. [d.rows EXCEPT ![r] = row] \in [Run -> Row \cup {NoRow}]
  BY <1>1, <1>2
<1>4. /\ new \in Database
      /\ new.last = d.last + 1 /\ new.events = d.events /\ new.tables = d.tables
      /\ new.version = d.version
      /\ new.rows = [d.rows EXCEPT ![r] = row]
  <2> HIDE DEF row
  <2>1. new = [version |-> d.version, tables |-> d.tables, last |-> d.last + 1,
               rows |-> [d.rows EXCEPT ![r] = row], events |-> d.events]
    <3>1. d = [version |-> d.version, tables |-> d.tables, last |-> d.last,
               rows |-> d.rows, events |-> d.events]
      BY <1>1 DEF Database
    <3>2. new = [[d EXCEPT !.last = d.last + 1] EXCEPT !.rows = [d.rows EXCEPT ![r] = row]]
      BY <3>1 DEF WithRow, row
    <3> HIDE DEF new
    <3> QED
      BY <3>1, <3>2
  <2> HIDE DEF new
  <2>2. d.version \in {0, 1} /\ d.tables \in BOOLEAN /\ d.last + 1 \in Nat
    BY <1>1 DEF Database
  <2> QED
    BY <1>1, <1>3, <2>1, <2>2 DEF Database
<1>5. new.rows[r] = row /\ \A q \in Run : q # r => new.rows[q] = d.rows[q]
  BY <1>1, <1>4
<1>6. \A q \in Run : d.rows[q] # NoRow => d.rows[q].id \in Nat /\ d.rows[q].id <= d.last
  BY <1>1 DEF Sound, IdsAreFresh, Row
<1>7. \A e \in d.events : e.trail \in Nat /\ e.trail <= d.last
  BY <1>1 DEF Sound, IdsAreFresh, Event
<1>8. IdsAreFresh(new)
  BY <1>1, <1>4, <1>5, <1>6, <1>7 DEF Sound, IdsAreFresh
<1>9. Fits(new)
  BY <1>1, <1>4, <1>5, <1>7 DEF Sound, Fits
<1> QED
  BY <1>4, <1>5, <1>8, <1>9 DEF Sound

LEMMA SoundEvent ==
    ASSUME NEW d, Sound(d), NEW r \in Run, d.rows[r] # NoRow
    PROVE  LET new == WithEvent(d, d.rows[r].id, d.rows[r].terminal)
           IN  Sound(new) /\ new.tables = d.tables /\ new.version = d.version
<1> DEFINE event == [trail |-> d.rows[r].id, terminal |-> d.rows[r].terminal]
           new == WithEvent(d, d.rows[r].id, d.rows[r].terminal)
<1>1. d \in Database /\ d.events \in SUBSET Event /\ d.rows[r] \in Row
  BY DEF Sound, Database
<1>2. event \in Event
  BY <1>1 DEF Row, Event
<1>3. /\ new \in Database /\ new.events = d.events \cup {event}
      /\ new.last = d.last /\ new.rows = d.rows /\ new.tables = d.tables
      /\ new.version = d.version
  BY <1>1, <1>2 DEF WithEvent, Database
<1>4. IdsAreFresh(new)
  BY <1>3 DEF Sound, IdsAreFresh
<1>5. Fits(new)
  BY <1>3 DEF Sound, Fits, IdsAreFresh
<1> QED
  BY <1>3, <1>4, <1>5 DEF Sound

LEMMA SoundWithout ==
    ASSUME NEW d, Sound(d), NEW S \in SUBSET Run
    PROVE  /\ Sound(Without(d, S))
           /\ Without(d, S).tables = d.tables /\ Without(d, S).version = d.version
<1> DEFINE new == Without(d, S)
<1>1. d \in Database /\ d.rows \in [Run -> Row \cup {NoRow}] /\ d.events \in SUBSET Event
  BY DEF Sound, Database
<1>2. /\ new \in Database /\ new.last = d.last /\ new.tables = d.tables
      /\ new.version = d.version
      /\ new.events \subseteq d.events
      /\ \A r \in Run : new.rows[r] \in {d.rows[r], NoRow}
  BY <1>1 DEF Without, Database
<1>3. IdsAreFresh(new)
  BY <1>2 DEF Sound, IdsAreFresh
<1>4. Fits(new)
  BY <1>2 DEF Sound, Fits
<1> QED
  BY <1>2, <1>3, <1>4 DEF Sound

LEMMA SoundHead ==
    ASSUME NEW d, Sound(d)
    PROVE  /\ Sound([d EXCEPT !.tables = TRUE]) /\ Sound([d EXCEPT !.version = 1])
           /\ [d EXCEPT !.tables = TRUE].tables /\ [d EXCEPT !.version = 1].version = 1
           /\ [d EXCEPT !.version = 1].tables = d.tables
           /\ [d EXCEPT !.tables = TRUE].version = d.version
BY DEF Sound, Database, IdsAreFresh, Fits

(***************************************************************************)
(* The strengthening.  What a transaction holds has the tables whenever    *)
(* the commit has them.  It lacks them with a version only while the       *)
(* schema of its process is unfinished: between the two statements of      *)
(* initialize_schema, or after the second failed, when the process has not *)
(* set _db_initialized and so commits nothing before it tried again.  It   *)
(* is open only between them and create_trail, or after an error.          *)
(***************************************************************************)
WriterTables == writer # Nobody /\ db.tables => dirty.tables

Unfinished(p) ==
  at[p] = "tables" \/ (at[p] \in {"idle", "version", "files"} /\ ~ ready[p])

WriterVersion ==
  writer # Nobody /\ dirty.version = 1 /\ ~ dirty.tables => Unfinished(writer)

WriterErred ==
  writer # Nobody =>
    \/ erred[writer] \/ at[writer] = "tables"
    \/ at[writer] = "create" /\ dirty.tables

RunKnown ==
  \A p \in Process :
    /\ at[p] \in {"version", "insert", "tables", "create", "files"} => run[p] \in Run
    /\ at[p] \in {"version", "insert", "tables"} => ~ ready[p]

DataOK ==
  /\ Sound(db) /\ Sound(dirty) /\ writer \in Process \cup {Nobody}
  /\ VersionMeansTables /\ WriterTables

PhaseOK ==
  /\ ready \in [Process -> BOOLEAN]
  /\ erred \in [Process -> BOOLEAN]
  /\ at \in [Process -> HookPhase]
  /\ run \in [Process -> Run \cup {NoFile}]
  /\ RunKnown

LockOK == WriterVersion /\ WriterErred /\ ReadySeesTables

FilesOK ==
  /\ runs \in 0 .. MaxRuns
  /\ file \in [Terminal -> File]
  /\ log \in [Terminal -> {"none", "lines", "torn"}]
  /\ calls \in 0 .. MaxCalls /\ faults \in 0 .. MaxFaults

MigrationOK ==
  /\ mig \in [at : MigrationStage, terminal : Terminal]
  /\ migrations \in 0 .. MaxMigrations

IInv == DataOK /\ PhaseOK /\ LockOK /\ FilesOK /\ MigrationOK

User == Process \cup {Migrator}

LEMMA SeeFacts ==
    ASSUME IInv, NEW p \in User
    PROVE  /\ Sound(See(p)) /\ See(p).tables \in BOOLEAN /\ See(p).version \in {0, 1}
           /\ db.tables => See(p).tables
           /\ See(p).version = 1 /\ ~ See(p).tables
                => writer = p /\ p \in Process /\ Unfinished(p)
<1>1. Sound(See(p)) /\ (writer = p => p \in Process /\ p # Nobody)
  BY ValueAssumption, MigrationAssumption DEF IInv, DataOK, See, User
<1>2. See(p).tables \in BOOLEAN /\ See(p).version \in {0, 1}
  BY <1>1 DEF Sound, Database
<1>3. db.tables => See(p).tables
  BY <1>1 DEF IInv, DataOK, See, WriterTables
<1>4. See(p).version = 1 /\ ~ See(p).tables => writer = p /\ p \in Process /\ Unfinished(p)
  BY <1>1 DEF IInv, DataOK, LockOK, See, WriterVersion, VersionMeansTables
<1> QED
  BY <1>1, <1>2, <1>3, <1>4

(***************************************************************************)
(* A step of p: the others stay where they are, and p is not ready without *)
(* having been so before.                                                  *)
(***************************************************************************)
Others(p) ==
  \A q \in Process \ {p} :
    at'[q] = at[q] /\ erred'[q] = erred[q] /\ ready'[q] = ready[q]

NotReadier(p) == ready'[p] /\ ~ erred'[p] => ready[p] /\ ~ erred[p]

(* what an open transaction of p asks of p *)
Owes(p, d) ==
  /\ d.version = 1 /\ ~ d.tables => Unfinished(p)'
  /\ erred'[p] \/ at'[p] = "tables" \/ (at'[p] = "create" /\ d.tables)

(* the database stays as it is *)
LEMMA SameKeeps ==
    ASSUME IInv, NEW p \in Process, UNCHANGED database, Others(p), NotReadier(p),
           writer = p => Owes(p, dirty)
    PROVE  DataOK' /\ LockOK'
<1>1. DataOK'
  BY DEF IInv, DataOK, database, VersionMeansTables, WriterTables
<1>2. WriterVersion' /\ WriterErred'
  BY DEF IInv, DataOK, LockOK, database, Others, Owes, WriterVersion, WriterErred, Unfinished
<1>3. ReadySeesTables'
  BY DEF IInv, LockOK, database, Others, NotReadier, ReadySeesTables, See
<1> QED
  BY <1>1, <1>2, <1>3 DEF LockOK

(* p commits what it saw, changed, with its version told the truth about. *)
LEMMA CommitKeeps ==
    ASSUME IInv, NEW p \in User, NEW new, Free(p), Commit(new), Sound(new),
           See(p).tables => new.tables, new.version = 1 => new.tables,
           Others(p), p \in Process => NotReadier(p)
    PROVE  DataOK' /\ LockOK'
<1>1. DataOK' /\ writer' = Nobody /\ db' = new
  BY DEF Commit, DataOK, VersionMeansTables, WriterTables
<1>2. WriterVersion' /\ WriterErred'
  BY <1>1 DEF WriterVersion, WriterErred
<1>3. ASSUME NEW q \in Process, ready'[q], ~ erred'[q]
      PROVE  See(q)'.tables
  <2>1. See(q)' = new
    BY <1>1, ValueAssumption DEF See
  <2>2. ready[q] /\ ~ erred[q]
    BY <1>3 DEF Others, NotReadier
  <2>3. See(q).tables
    BY <2>2 DEF IInv, LockOK, ReadySeesTables
  <2>4. CASE q = p
    BY <2>1, <2>3, <2>4
  <2>5. CASE q # p
    <3>1. See(q) = db
      BY <2>5, ValueAssumption DEF See, Free
    <3> QED
      BY <2>1, <2>3, <3>1, SeeFacts
  <2> QED
    BY <2>4, <2>5
<1> QED
  BY <1>1, <1>2, <1>3 DEF LockOK, ReadySeesTables

(* p holds what it saw, changed, in its transaction *)
LEMMA HoldKeeps ==
    ASSUME IInv, NEW p \in Process, NEW new, Free(p), Hold(p, new), Sound(new),
           See(p).tables => new.tables, Others(p), NotReadier(p), Owes(p, new)
    PROVE  DataOK' /\ LockOK'
<1>1. db' = db /\ dirty' = new /\ writer' = p /\ p # Nobody
  BY ValueAssumption DEF Hold
<1>2. DataOK'
  BY <1>1, SeeFacts DEF IInv, DataOK, VersionMeansTables, WriterTables, User
<1>3. WriterVersion' /\ WriterErred'
  BY <1>1 DEF Owes, WriterVersion, WriterErred
<1>4. ASSUME NEW q \in Process, ready'[q], ~ erred'[q]
      PROVE  See(q)'.tables
  <2>1. ready[q] /\ ~ erred[q]
    BY <1>4 DEF Others, NotReadier
  <2>2. See(q).tables
    BY <2>1 DEF IInv, LockOK, ReadySeesTables
  <2>3. CASE q = p
    BY <1>1, <2>2, <2>3 DEF See
  <2>4. CASE q # p
    BY <1>1, <2>2, <2>4, ValueAssumption DEF See, Free
  <2> QED
    BY <2>3, <2>4
<1> QED
  BY <1>2, <1>3, <1>4 DEF LockOK, ReadySeesTables

(* the transaction of p, if any, is lost, which p knows or does not survive *)
LEMMA UndoKeeps ==
    ASSUME IInv, NEW p \in Process, Undo(p), Others(p), erred'[p] \/ ~ ready'[p]
    PROVE  DataOK' /\ LockOK'
<1>1. db' = db /\ writer' \in {writer, Nobody} /\ writer' # p
      /\ (writer' # Nobody => dirty' = dirty /\ writer' = writer)
      /\ dirty' \in {db, dirty}
  BY ValueAssumption DEF Undo, Free
<1>2. DataOK'
  BY <1>1 DEF IInv, DataOK, VersionMeansTables, WriterTables
<1>3. WriterVersion' /\ WriterErred'
  BY <1>1 DEF IInv, DataOK, LockOK, Others, WriterVersion, WriterErred, Unfinished
<1>4. ASSUME NEW q \in Process, ready'[q], ~ erred'[q]
      PROVE  See(q)'.tables
  <2>1. q # p /\ ready[q] /\ ~ erred[q]
    BY <1>4 DEF Others
  <2>2. See(q).tables
    BY <2>1 DEF IInv, LockOK, ReadySeesTables
  <2>3. CASE writer = q
    BY <1>1, <2>1, <2>2, <2>3, ValueAssumption DEF See, Undo, Free
  <2>4. CASE writer # q
    BY <1>1, <2>2, <2>4, ValueAssumption DEF See
  <2> QED
    BY <2>3, <2>4
<1> QED
  BY <1>2, <1>3, <1>4 DEF LockOK, ReadySeesTables

(* CREATE TABLE by p *)
LEMMA TablesKeep ==
    ASSUME IInv, NEW p \in User, Tables(p), Others(p),
           p \in Process => at'[p] = "create"
    PROVE  DataOK' /\ LockOK'
<1> DEFINE new == [See(p) EXCEPT !.tables = TRUE]
<1>1. Sound(new) /\ new.tables /\ new.version = See(p).version
  BY SeeFacts, SoundHead
<1>2. /\ Free(p) \/ db.tables
      /\ db' = IF writer = p THEN db ELSE new
      /\ dirty' = IF Free(p) THEN new ELSE dirty
      /\ writer' = writer
  BY DEF Tables
<1> HIDE DEF new
<1>3. DataOK'
  BY <1>1, <1>2 DEF IInv, DataOK, VersionMeansTables, WriterTables, Free
<1>4. writer # Nobody => writer \in Process
  BY DEF IInv, DataOK
<1>5. writer = p => p \in Process
  BY MigrationAssumption DEF IInv, DataOK, User
<1>6. WriterVersion' /\ WriterErred'
  <2>1. CASE writer = p
    BY <1>1, <1>2, <1>5, <2>1 DEF WriterVersion, WriterErred, Free
  <2>2. CASE writer # p /\ writer # Nobody
    BY <1>2, <1>4, <2>2 DEF IInv, LockOK, WriterVersion, WriterErred, Unfinished, Free, Others
  <2>3. CASE writer = Nobody
    BY <1>2, <2>3 DEF WriterVersion, WriterErred
  <2> QED
    BY <2>1, <2>2, <2>3
<1>7. ASSUME NEW q \in Process, ready'[q], ~ erred'[q]
      PROVE  See(q)'.tables
  <2>1. CASE q = p
    BY <1>1, <1>2, <2>1 DEF See, Free
  <2>2. CASE q # p
    <3>1. See(q).tables
      BY <1>7, <2>2 DEF IInv, LockOK, ReadySeesTables, Others
    <3>2. CASE writer = q
      BY <1>2, <2>2, <3>1, <3>2, ValueAssumption DEF See, Free
    <3>3. CASE writer # q
      BY <1>1, <1>2, <3>1, <3>3 DEF See
    <3> QED
      BY <3>2, <3>3
  <2> QED
    BY <2>1, <2>2
<1> QED
  BY <1>3, <1>6, <1>7 DEF LockOK, ReadySeesTables

(***************************************************************************)
(* A call ends with its commit, or breaks off.                             *)
(***************************************************************************)
LEMMA CompletedKeeps ==
    ASSUME IInv, NEW p \in Process, NEW new, Completed(p, new), Sound(new),
           See(p).tables => new.tables, new.version = 1 => new.tables,
           UNCHANGED ready, Others(p)
    PROVE  DataOK' /\ LockOK'
BY CommitKeeps DEF Completed, NotReadier, User

LEMMA InterruptedKeeps ==
    ASSUME IInv, NEW p \in Process, NEW part, Interrupted(p, part), Sound(part),
           See(p).tables => part.tables, part.version = 1 => part.tables,
           UNCHANGED ready, Others(p)
    PROVE  DataOK' /\ LockOK'
<1>1. erred'[p]
  BY DEF Interrupted, IInv, PhaseOK
<1>2. NotReadier(p) /\ Owes(p, part)
  BY <1>1 DEF NotReadier, Owes
<1>3. CASE Free(p) /\ Hold(p, part)
  BY <1>2, <1>3, HoldKeeps
<1>4. CASE Undo(p)
  BY <1>1, <1>4, UndoKeeps
<1> QED
  BY <1>3, <1>4 DEF Interrupted

(* A process that is not between the two statements of initialize_schema   *)
(* has a transaction only if a statement failed or the tables are there,   *)
(* and reads a version without the tables only if its schema is unfinished.*)
LEMMA AtRest ==
    ASSUME IInv, NEW p \in Process, at[p] # "tables"
    PROVE  /\ See(p).version = 1 /\ ~ See(p).tables => Unfinished(p)
           /\ writer = p /\ at[p] # "create" => erred[p]
           /\ writer = p => (dirty.version = 1 /\ ~ dirty.tables => Unfinished(p))
                            /\ (erred[p] \/ dirty.tables)
<1>1. See(p).version = 1 /\ ~ See(p).tables => Unfinished(p)
  BY SeeFacts DEF User
<1>2. writer = p => erred[p] \/ (at[p] = "create" /\ dirty.tables)
  BY ValueAssumption DEF IInv, LockOK, WriterErred
<1> QED
  BY <1>1, <1>2, ValueAssumption DEF IInv, DataOK, LockOK, WriterVersion, Sound, Database, See

(* and never once it has finished *)
LEMMA ReadyReads ==
    ASSUME IInv, NEW p \in Process, ready[p] \/ at[p] \in {"insert", "create"}
    PROVE  See(p).version = 1 => See(p).tables
<1>1. ~ Unfinished(p)
  BY DEF Unfinished, IInv, PhaseOK, RunKnown
<1> QED
  BY <1>1, SeeFacts DEF User

LEMMA DeleteKeeps ==
    ASSUME IInv, NEW p \in Process, NEW S \in SUBSET Run, DeleteRows(p, S),
           at[p] \in {"idle", "ended"}, UNCHANGED <<ready, at>>
    PROVE  DataOK' /\ LockOK' /\ erred' \in [Process -> BOOLEAN] /\ faults' \in 0 .. MaxFaults
<1> DEFINE new == Without(See(p), S)
<1>1. Sound(new) /\ new.tables = See(p).tables /\ new.version = See(p).version
  BY SeeFacts, SoundWithout DEF User
<1>2. (ready[p] => (See(p).version = 1 => See(p).tables)) /\ (writer = p => erred[p])
  BY AtRest, ReadyReads
<1> HIDE DEF new
<1>3. CASE ready[p] /\ Completed(p, new)
  <2>1. Others(p) /\ erred' = erred /\ faults' = faults
    BY <1>3 DEF Completed, Others
  <2> QED
    BY <1>1, <1>2, <1>3, <2>1, CompletedKeeps DEF IInv, PhaseOK, FilesOK
<1>4. CASE ready[p] /\ Interrupted(p, new)
  <2>1. Others(p) /\ erred' \in [Process -> BOOLEAN] /\ faults' \in 0 .. MaxFaults
    BY <1>4, BoundAssumption DEF Interrupted, Others, IInv, PhaseOK, FilesOK, Fault
  <2> QED
    BY <1>1, <1>2, <1>4, <2>1, InterruptedKeeps
<1>5. CASE UNCHANGED <<database, erred, faults>>
  <2>1. Others(p) /\ NotReadier(p)
    BY <1>5 DEF Others, NotReadier
  <2>2. writer = p => Owes(p, dirty)
    BY <1>2, <1>5, AtRest DEF Owes, Unfinished
  <2> QED
    BY <1>5, <2>1, <2>2, SameKeeps DEF IInv, PhaseOK, FilesOK
<1> QED
  BY <1>3, <1>4, <1>5 DEF DeleteRows, new

(***************************************************************************)
(* The steps of a hook.                                                    *)
(***************************************************************************)
LEMMA InitializeKeeps ==
    ASSUME IInv, NEW p \in Process, Initialize(p), UNCHANGED migVars
    PROVE  IInv'
<1>1. DataOK' /\ LockOK'
  <2>1. Others(p) /\ NotReadier(p) /\ UNCHANGED database
    BY DEF Initialize, Begin, Others, NotReadier, session, IInv, PhaseOK
  <2>2. at[p] # "tables" /\ (writer = p => Owes(p, dirty))
    BY AtRest DEF Initialize, Begin, Owes, session, Free, IInv, PhaseOK, RunKnown, Unfinished
  <2> QED
    BY <2>1, <2>2, SameKeeps
<1>2. PhaseOK'
  BY BoundAssumption DEF Initialize, Begin, Run, FilesOK, IInv, PhaseOK, RunKnown, HookPhase, session
<1>3. FilesOK'
  BY HomeAssumption, BoundAssumption DEF Initialize, Begin, IInv, PhaseOK, RunKnown, FilesOK, File, Fault, files, Run
<1> QED
  BY <1>1, <1>2, <1>3 DEF IInv, MigrationOK, migVars

LEMMA NoConnectionKeeps ==
    ASSUME IInv, NEW p \in Process, NoConnection(p), UNCHANGED migVars
    PROVE  IInv'
<1>1. DataOK' /\ LockOK'
  <2>1. Others(p) /\ NotReadier(p) /\ UNCHANGED database
    BY DEF NoConnection, Others, NotReadier, session, IInv, PhaseOK
  <2>2. at[p] # "tables" /\ (writer = p => Owes(p, dirty))
    BY AtRest DEF NoConnection, Owes, session, Free, IInv, PhaseOK, RunKnown, Unfinished
  <2> QED
    BY <2>1, <2>2, SameKeeps
<1>2. PhaseOK'
  BY DEF NoConnection, IInv, PhaseOK, RunKnown, HookPhase, session
<1>3. FilesOK'
  BY HomeAssumption, BoundAssumption DEF NoConnection, IInv, PhaseOK, RunKnown, FilesOK, File, Fault, files, Run
<1> QED
  BY <1>1, <1>2, <1>3 DEF IInv, MigrationOK, migVars

LEMMA ReadVersionKeeps ==
    ASSUME IInv, NEW p \in Process, ReadVersion(p), UNCHANGED migVars
    PROVE  IInv'
<1>1. DataOK' /\ LockOK'
  <2>1. Others(p) /\ NotReadier(p) /\ UNCHANGED database
    BY DEF ReadVersion, Others, NotReadier, session, IInv, PhaseOK
  <2>2. at[p] # "tables" /\ (writer = p => Owes(p, dirty))
    BY AtRest DEF ReadVersion, Owes, See, session, Free, IInv, PhaseOK, RunKnown, Unfinished
  <2> QED
    BY <2>1, <2>2, SameKeeps
<1>2. PhaseOK'
  BY DEF ReadVersion, IInv, PhaseOK, RunKnown, HookPhase, session
<1>3. FilesOK'
  BY HomeAssumption, BoundAssumption DEF ReadVersion, IInv, PhaseOK, RunKnown, FilesOK, File, Fault, files, Run
<1> QED
  BY <1>1, <1>2, <1>3 DEF IInv, MigrationOK, migVars

LEMMA InsertVersionKeeps ==
    ASSUME IInv, NEW p \in Process, InsertVersion(p), UNCHANGED migVars
    PROVE  IInv'
<1>1. DataOK' /\ LockOK'
  <2> DEFINE new == [See(p) EXCEPT !.version = 1]
  <2>1. Sound(new) /\ new.tables = See(p).tables
    BY SeeFacts, SoundHead DEF User
  <2>2. Free(p) /\ Hold(p, new)
    BY DEF InsertVersion
  <2> HIDE DEF new
  <2>3. Others(p) /\ NotReadier(p) /\ Owes(p, new)
    BY DEF InsertVersion, Others, NotReadier, Owes, Unfinished, IInv, PhaseOK
  <2> QED
    BY <2>1, <2>2, <2>3, HoldKeeps
<1>2. PhaseOK'
  BY DEF InsertVersion, IInv, PhaseOK, RunKnown, HookPhase, session
<1>3. FilesOK'
  BY HomeAssumption, BoundAssumption DEF InsertVersion, IInv, PhaseOK, RunKnown, FilesOK, File, Fault, files, Run
<1> QED
  BY <1>1, <1>2, <1>3 DEF IInv, MigrationOK, migVars

LEMMA VersionTakenKeeps ==
    ASSUME IInv, NEW p \in Process, VersionTaken(p), UNCHANGED migVars
    PROVE  IInv'
<1>1. DataOK' /\ LockOK'
  <2>1. Sound(See(p)) /\ (See(p).version = 1 => See(p).tables)
    BY SeeFacts, ReadyReads DEF User, VersionTaken
  <2>2. Others(p) /\ NotReadier(p) /\ Owes(p, See(p))
    BY <2>1 DEF VersionTaken, Others, NotReadier, Owes, IInv, PhaseOK
  <2> QED
    BY <2>1, <2>2, HoldKeeps DEF VersionTaken
<1>2. PhaseOK'
  BY DEF VersionTaken, IInv, PhaseOK, RunKnown, HookPhase, session
<1>3. FilesOK'
  BY HomeAssumption, BoundAssumption DEF VersionTaken, IInv, PhaseOK, RunKnown, FilesOK, File, Fault, files, Run
<1> QED
  BY <1>1, <1>2, <1>3 DEF IInv, MigrationOK, migVars

LEMMA LockTimeoutKeeps ==
    ASSUME IInv, NEW p \in Process, LockTimeout(p), UNCHANGED migVars
    PROVE  IInv'
<1>1. DataOK' /\ LockOK'
  <2>1. Others(p) /\ NotReadier(p) /\ UNCHANGED database
    BY DEF LockTimeout, Others, NotReadier, session, IInv, PhaseOK
  <2>2. at[p] # "tables" /\ (writer = p => Owes(p, dirty))
    BY AtRest DEF LockTimeout, Owes, session, Free, IInv, PhaseOK, RunKnown, Unfinished
  <2> QED
    BY <2>1, <2>2, SameKeeps
<1>2. PhaseOK'
  BY DEF LockTimeout, IInv, PhaseOK, RunKnown, HookPhase, session
<1>3. FilesOK'
  BY HomeAssumption, BoundAssumption DEF LockTimeout, IInv, PhaseOK, RunKnown, FilesOK, File, Fault, files, Run
<1> QED
  BY <1>1, <1>2, <1>3 DEF IInv, MigrationOK, migVars

LEMMA CreateTablesKeeps ==
    ASSUME IInv, NEW p \in Process, CreateTables(p), UNCHANGED migVars
    PROVE  IInv'
<1>1. DataOK' /\ LockOK'
  <2>1. Others(p) /\ at'[p] = "create" /\ Tables(p)
    BY DEF CreateTables, Others, IInv, PhaseOK
  <2> QED
    BY <2>1, TablesKeep DEF User
<1>2. PhaseOK'
  BY DEF CreateTables, IInv, PhaseOK, RunKnown, HookPhase, session
<1>3. FilesOK'
  BY HomeAssumption, BoundAssumption DEF CreateTables, IInv, PhaseOK, RunKnown, FilesOK, File, Fault, files, Run
<1> QED
  BY <1>1, <1>2, <1>3 DEF IInv, MigrationOK, migVars

LEMMA CreateKeeps ==
    ASSUME IInv, NEW p \in Process, Create(p), UNCHANGED migVars
    PROVE  IInv'
<1>1. DataOK' /\ LockOK'
  <2> DEFINE row == WithRow(See(p), run[p], Home[p])
             new == WithEvent(row, row.last, Home[p])
  <2>1. run[p] \in Run /\ Home[p] \in Terminal
    BY HomeAssumption DEF Create, IInv, PhaseOK, RunKnown
  <2>2. /\ Sound(row) /\ row.tables = See(p).tables /\ row.version = See(p).version
        /\ row.rows[run[p]] = [id |-> row.last, terminal |-> Home[p]]
    BY <2>1, SeeFacts, SoundRow DEF User
  <2>3. Sound(new) /\ new.tables = row.tables /\ new.version = row.version
    <3> HIDE DEF row
    <3>1. /\ row.rows[run[p]] # NoRow /\ row.rows[run[p]].id = row.last
          /\ row.rows[run[p]].terminal = Home[p]
      BY <2>1, <2>2, RowFact DEF Sound, Database, IdsAreFresh, Row
    <3> QED
      BY <2>1, <2>2, <3>1, SoundEvent
  <2>4. Completed(p, new)
    BY DEF Create
  <2> HIDE DEF row, new
  <2>5. Others(p) /\ UNCHANGED ready /\ See(p).tables
    BY DEF Create, Completed, Others, IInv, PhaseOK
  <2> QED
    BY <2>2, <2>3, <2>4, <2>5, CompletedKeeps
<1>2. PhaseOK'
  BY DEF Create, Completed, IInv, PhaseOK, RunKnown, HookPhase, session
<1>3. FilesOK'
  BY HomeAssumption, BoundAssumption DEF Create, Completed, IInv, PhaseOK, RunKnown, FilesOK, File, Fault, files, Run
<1> QED
  BY <1>1, <1>2, <1>3 DEF IInv, MigrationOK, migVars

LEMMA CreateFailsKeeps ==
    ASSUME IInv, NEW p \in Process, CreateFails(p), UNCHANGED migVars
    PROVE  IInv'
<1>1. DataOK' /\ LockOK'
  <2> DEFINE row == WithRow(See(p), run[p], Home[p])
             new == WithEvent(row, row.last, Home[p])
  <2>1. run[p] \in Run /\ Home[p] \in Terminal
    BY HomeAssumption DEF CreateFails, IInv, PhaseOK, RunKnown
  <2>2. /\ Sound(row) /\ row.tables = See(p).tables /\ row.version = See(p).version
        /\ row.rows[run[p]] = [id |-> row.last, terminal |-> Home[p]]
    BY <2>1, SeeFacts, SoundRow DEF User
  <2> HIDE DEF new
  <2>3. Others(p) /\ UNCHANGED ready
    BY DEF CreateFails, Interrupted, Others, IInv, PhaseOK
  <2>4. CASE See(p).tables
    <3>1. Interrupted(p, row)
      BY <2>4 DEF CreateFails
    <3> HIDE DEF row
    <3> QED
      BY <2>2, <2>3, <2>4, <3>1, InterruptedKeeps
  <2>5. CASE ~ See(p).tables
    <3>1. UNCHANGED database /\ NotReadier(p) /\ erred' = erred
      BY <2>5 DEF CreateFails, NotReadier
    <3>2. writer = p => Owes(p, dirty)
      BY <2>5, <3>1, AtRest, ReadyReads DEF Owes, See, CreateFails
    <3> QED
      BY <2>3, <3>1, <3>2, SameKeeps
  <2> QED
    BY <2>4, <2>5
<1>2. PhaseOK'
  <2>1. erred' \in [Process -> BOOLEAN]
    BY DEF CreateFails, Interrupted, IInv, PhaseOK
  <2>2. runs' \in Run
    BY BoundAssumption DEF CreateFails, IInv, FilesOK, Run
  <2> QED
    BY <2>1, <2>2 DEF CreateFails, IInv, PhaseOK, RunKnown, HookPhase
<1>3. FilesOK'
  BY HomeAssumption, BoundAssumption DEF CreateFails, Interrupted, IInv, PhaseOK, RunKnown, FilesOK, File, Fault, files, Run
<1> QED
  BY <1>1, <1>2, <1>3 DEF IInv, MigrationOK, migVars

LEMMA FilesKeeps ==
    ASSUME IInv, NEW p \in Process, Files(p), UNCHANGED migVars
    PROVE  IInv'
<1>1. DataOK' /\ LockOK'
  <2>1. Others(p) /\ NotReadier(p) /\ UNCHANGED database
    BY DEF Files, Others, NotReadier, session, IInv, PhaseOK
  <2>2. at[p] # "tables" /\ (writer = p => Owes(p, dirty))
    BY AtRest DEF Files, Owes, session, Free, IInv, PhaseOK, RunKnown, Unfinished
  <2> QED
    BY <2>1, <2>2, SameKeeps
<1>2. PhaseOK'
  BY DEF Files, IInv, PhaseOK, RunKnown, HookPhase, session
<1>3. FilesOK'
  BY HomeAssumption, BoundAssumption DEF Files, IInv, PhaseOK, RunKnown, FilesOK, File, Fault, files, Run
<1> QED
  BY <1>1, <1>2, <1>3 DEF IInv, MigrationOK, migVars

LEMMA TablesFailKeeps ==
    ASSUME IInv, NEW p \in Process, TablesFail(p), UNCHANGED migVars
    PROVE  IInv'
<1>1. /\ at[p] = "tables" /\ at'[p] = "idle" /\ erred'[p] /\ ~ ready[p] /\ ~ ready'[p]
      /\ Others(p) /\ NotReadier(p)
  BY DEF TablesFail, Others, NotReadier, IInv, PhaseOK, RunKnown
<1>2. ASSUME UNCHANGED database
      PROVE  DataOK' /\ LockOK'
  <2>1. Owes(p, dirty)
    BY <1>1 DEF Owes, Unfinished
  <2> QED
    BY <1>1, <1>2, <2>1, SameKeeps
<1>3. ASSUME Undo(p)
      PROVE  DataOK' /\ LockOK'
  BY <1>1, <1>3, UndoKeeps
<1>4. DataOK' /\ LockOK'
  BY <1>2, <1>3 DEF TablesFail
<1>5. PhaseOK'
  BY DEF TablesFail, IInv, PhaseOK, RunKnown, HookPhase
<1>6. FilesOK'
  BY BoundAssumption DEF TablesFail, Fault, IInv, FilesOK, files
<1> QED
  BY <1>4, <1>5, <1>6 DEF IInv, MigrationOK, migVars

(* update_trail of a ready process *)
LEMMA UpdateRowKeeps ==
    ASSUME IInv, NEW p \in Process, NEW r \in Run, UpdateRow(p, r), ready[p],
           UNCHANGED <<ready, at>>
    PROVE  DataOK' /\ LockOK' /\ erred' \in [Process -> BOOLEAN] /\ faults' \in 0 .. MaxFaults
<1> DEFINE new == WithEvent(See(p), See(p).rows[r].id, See(p).rows[r].terminal)
<1>1. /\ See(p).rows[r] # NoRow
      /\ Completed(p, new) \/ Interrupted(p, See(p))
  BY DEF UpdateRow
<1>2. Sound(See(p)) /\ Sound(new) /\ new.tables = See(p).tables /\ new.version = See(p).version
  BY <1>1, SeeFacts, SoundEvent DEF User
<1>3. See(p).version = 1 => See(p).tables
  BY ReadyReads
<1> HIDE DEF new
<1>4. Others(p)
  BY <1>1 DEF Completed, Interrupted, Others, IInv, PhaseOK
<1>5. DataOK' /\ LockOK'
  BY <1>1, <1>2, <1>3, <1>4, CompletedKeeps, InterruptedKeeps
<1>6. erred' \in [Process -> BOOLEAN]
  BY <1>1 DEF Completed, Interrupted, IInv, PhaseOK
<1>7. faults' \in 0 .. MaxFaults
  BY <1>1, BoundAssumption DEF Completed, Interrupted, Fault, IInv, FilesOK
<1> QED
  BY <1>5, <1>6, <1>7

LEMMA UpdateKeeps ==
    ASSUME IInv, NEW p \in Process, Update(p), UNCHANGED migVars
    PROVE  IInv'
<1>1. PICK r \in Run : UpdateRow(p, r)
  BY DEF Update, Known
<1>2. ready[p] /\ UNCHANGED <<ready, at>>
  BY DEF Update
<1>3. DataOK' /\ LockOK' /\ erred' \in [Process -> BOOLEAN] /\ faults' \in 0 .. MaxFaults
  BY <1>1, <1>2, UpdateRowKeeps
<1>4. PhaseOK'
  BY <1>3 DEF Update, IInv, PhaseOK, RunKnown
<1>5. FilesOK'
  BY <1>3, BoundAssumption DEF Update, Begin, IInv, FilesOK, files
<1> QED
  BY <1>3, <1>4, <1>5 DEF IInv, MigrationOK, migVars

LEMMA UpdateColdKeeps ==
    ASSUME IInv, NEW p \in Process, UpdateCold(p), UNCHANGED migVars
    PROVE  IInv'
<1>1. UNCHANGED <<ready, at>> /\ at[p] \in {"idle", "ended"}
  BY DEF UpdateCold, Begin
<1>2. ASSUME UNCHANGED <<database, erred, faults>>
      PROVE  DataOK' /\ LockOK' /\ erred' \in [Process -> BOOLEAN] /\ faults' \in 0 .. MaxFaults
  <2>1. Others(p) /\ NotReadier(p)
    BY <1>1, <1>2 DEF Others, NotReadier
  <2>2. writer = p => Owes(p, dirty)
    BY <1>1, <1>2, AtRest DEF Owes, Unfinished
  <2> QED
    BY <1>2, <2>1, <2>2, SameKeeps DEF IInv, PhaseOK, FilesOK
<1>3. ASSUME NEW r \in Run, ready[p], UpdateRow(p, r)
      PROVE  DataOK' /\ LockOK' /\ erred' \in [Process -> BOOLEAN] /\ faults' \in 0 .. MaxFaults
  BY <1>1, <1>3, UpdateRowKeeps
<1>4. DataOK' /\ LockOK' /\ erred' \in [Process -> BOOLEAN] /\ faults' \in 0 .. MaxFaults
  BY <1>2, <1>3 DEF UpdateCold, TerminalRuns
<1>5. PhaseOK'
  BY <1>4 DEF UpdateCold, IInv, PhaseOK, RunKnown
<1>6. FilesOK'
  BY <1>4, HomeAssumption, BoundAssumption DEF UpdateCold, Begin, IInv, FilesOK, File
<1> QED
  BY <1>4, <1>5, <1>6 DEF IInv, MigrationOK, migVars

LEMMA ClearKeeps ==
    ASSUME IInv, NEW p \in Process, Clear(p), UNCHANGED migVars
    PROVE  IInv'
<1>1. \E S \in SUBSET Run : DeleteRows(p, S)
  BY DEF Clear, Known
<1>2. at[p] \in {"idle", "ended"} /\ UNCHANGED <<ready, at>>
  BY DEF Clear, Begin
<1>3. DataOK' /\ LockOK' /\ erred' \in [Process -> BOOLEAN] /\ faults' \in 0 .. MaxFaults
  BY <1>1, <1>2, DeleteKeeps
<1>4. PhaseOK'
  BY <1>2, <1>3 DEF Clear, IInv, PhaseOK, RunKnown
<1>5. FilesOK'
  BY <1>3, HomeAssumption, BoundAssumption DEF Clear, Begin, IInv, FilesOK, File
<1> QED
  BY <1>3, <1>4, <1>5 DEF IInv, MigrationOK, migVars

LEMMA ClearTerminalKeeps ==
    ASSUME IInv, NEW p \in Process, ClearTerminal(p), UNCHANGED migVars
    PROVE  IInv'
<1>1. \E S \in SUBSET Run : DeleteRows(p, S)
  BY DEF ClearTerminal, TerminalRuns
<1>2. at[p] \in {"idle", "ended"} /\ UNCHANGED <<ready, at>>
  BY DEF ClearTerminal, Begin
<1>3. DataOK' /\ LockOK' /\ erred' \in [Process -> BOOLEAN] /\ faults' \in 0 .. MaxFaults
  BY <1>1, <1>2, DeleteKeeps
<1>4. PhaseOK'
  BY <1>2, <1>3 DEF ClearTerminal, IInv, PhaseOK, RunKnown
<1>5. FilesOK'
  BY <1>3, HomeAssumption, BoundAssumption DEF ClearTerminal, Begin, IInv, FilesOK, File
<1> QED
  BY <1>3, <1>4, <1>5 DEF IInv, MigrationOK, migVars

LEMMA StaleKeeps ==
    ASSUME IInv, NEW p \in Process, Stale(p), UNCHANGED migVars
    PROVE  IInv'
<1>1. \E S \in SUBSET Run : DeleteRows(p, S)
  BY DEF Stale, TerminalRuns
<1>2. at[p] \in {"idle", "ended"} /\ UNCHANGED <<ready, at>>
  BY DEF Stale, Begin
<1>3. DataOK' /\ LockOK' /\ erred' \in [Process -> BOOLEAN] /\ faults' \in 0 .. MaxFaults
  BY <1>1, <1>2, DeleteKeeps
<1>4. PhaseOK'
  BY <1>2, <1>3 DEF Stale, IInv, PhaseOK, RunKnown
<1>5. FilesOK'
  BY <1>3, HomeAssumption, BoundAssumption DEF Stale, Begin, IInv, FilesOK, File
<1> QED
  BY <1>3, <1>4, <1>5 DEF IInv, MigrationOK, migVars

LEMMA GoneKeeps ==
    ASSUME IInv, NEW p \in Process, Gone(p)
    PROVE  DataOK' /\ LockOK' /\ PhaseOK'
<1>1. Undo(p) /\ Others(p) /\ ~ ready'[p]
  BY DEF Gone, Others, IInv, PhaseOK
<1>2. DataOK' /\ LockOK'
  BY <1>1, UndoKeeps
<1>3. PhaseOK'
  BY DEF Gone, IInv, PhaseOK, RunKnown, HookPhase
<1> QED
  BY <1>2, <1>3

LEMMA EndKeeps ==
    ASSUME IInv, NEW p \in Process, End(p) \/ Kill(p), UNCHANGED migVars
    PROVE  IInv'
<1>1. DataOK' /\ LockOK' /\ PhaseOK'
  BY GoneKeeps DEF End, Kill
<1>2. FilesOK'
  BY HomeAssumption, BoundAssumption DEF End, Kill, IInv, FilesOK, Fault, File, files
<1> QED
  BY <1>1, <1>2 DEF IInv, MigrationOK, migVars

LEMMA HookKeeps ==
    ASSUME IInv, NEW p \in Process, HookStep(p), UNCHANGED migVars
    PROVE  IInv'
BY InitializeKeeps, NoConnectionKeeps, ReadVersionKeeps, InsertVersionKeeps,
   VersionTakenKeeps, LockTimeoutKeeps, TablesFailKeeps, CreateTablesKeeps, CreateKeeps,
   CreateFailsKeeps, FilesKeeps, UpdateKeeps, UpdateColdKeeps, ClearKeeps,
   ClearTerminalKeeps, StaleKeeps, EndKeeps
DEF HookStep

(***************************************************************************)
(* The steps of the migration, whose transaction is never open between     *)
(* two of them.                                                            *)
(***************************************************************************)
LEMMA HooksStay ==
    ASSUME IInv, UNCHANGED session
    PROVE  PhaseOK' /\ (\A p \in User : Others(p)) /\ (\A p \in Process : NotReadier(p))
BY DEF IInv, PhaseOK, RunKnown, session, Others, NotReadier

LEMMA NoHookChanged ==
    ASSUME IInv, UNCHANGED database, UNCHANGED session
    PROVE  DataOK' /\ LockOK'
BY DEF IInv, DataOK, LockOK, database, session, VersionMeansTables, WriterTables,
       WriterVersion, WriterErred, Unfinished, ReadySeesTables, See

LEMMA MigratorCommits ==
    ASSUME IInv, NEW new, Free(Migrator), Commit(new), UNCHANGED session, Sound(new),
           new.tables = db.tables, new.version = db.version
    PROVE  DataOK' /\ LockOK'
<1>1. See(Migrator) = db
  BY MigrationAssumption DEF IInv, DataOK, See
<1>2. new.version = 1 => new.tables
  BY DEF IInv, DataOK, VersionMeansTables
<1> QED
  BY <1>1, <1>2, HooksStay, CommitKeeps, MigrationAssumption DEF User

LEMMA MigrateKeeps ==
    ASSUME IInv, Migrate
    PROVE  IInv'
<1> USE DEF hookSide
<1>1. UNCHANGED session /\ UNCHANGED <<runs, files, calls>>
  BY DEF Migrate, MigrateBegin, RollbackBegin, Validate, MigrateTrails, MigrateEvents,
         EventsFail, RollbackMigration, Abandon
<1>2. PhaseOK'
  BY <1>1, HooksStay
<1>3. FilesOK' /\ MigrationOK'
  BY <1>1, BoundAssumption, MigrationAssumption
  DEF Migrate, MigrateBegin, RollbackBegin, Validate, MigrateTrails, MigrateEvents,
      EventsFail, RollbackMigration, Abandon, Command, Stage, Fault, IInv, FilesOK,
      MigrationOK, MigrationStage, files
<1>4. mig.terminal \in Terminal /\ Sound(db)
  BY DEF IInv, MigrationOK, DataOK
<1>5. ASSUME NEW t \in Terminal, MigrateBegin(t)
      PROVE  DataOK' /\ LockOK'
  BY <1>1, <1>5, HooksStay, TablesKeep, MigrationAssumption DEF MigrateBegin, User
<1>6. ASSUME MigrateTrails
      PROVE  DataOK' /\ LockOK'
  <2> DEFINE new == IF file[mig.terminal] \in Run
                    THEN WithRow(db, file[mig.terminal], mig.terminal) ELSE db
  <2>1. Sound(new) /\ new.tables = db.tables /\ new.version = db.version
    BY <1>4, SoundRow
  <2>2. Free(Migrator) /\ Commit(new)
    BY <1>6 DEF MigrateTrails
  <2> HIDE DEF new
  <2> QED
    BY <1>1, <2>1, <2>2, MigratorCommits
<1>7. ASSUME MigrateEvents
      PROVE  DataOK' /\ LockOK'
  <2> DEFINE T == mig.terminal
  <2>1. CASE Commit(db)
    BY <1>1, <1>4, <1>7, <2>1, MigratorCommits DEF MigrateEvents
  <2>2. CASE \E r \in NewestTrail(db, T) : Commit(WithEvent(db, db.rows[r].id, T))
    <3>1. PICK r \in NewestTrail(db, T) : Commit(WithEvent(db, db.rows[r].id, T))
      BY <2>2
    <3>2. r \in Run /\ db.rows[r] # NoRow /\ db.rows[r].terminal = T
      BY DEF NewestTrail, TerminalRuns
    <3> DEFINE new == WithEvent(db, db.rows[r].id, T)
    <3>3. Sound(new) /\ new.tables = db.tables /\ new.version = db.version
      BY <1>4, <3>2, SoundEvent
    <3> HIDE DEF new
    <3> QED
      BY <1>1, <1>7, <3>1, <3>3, MigratorCommits DEF MigrateEvents, new
  <2> QED
    BY <1>7, <2>1, <2>2 DEF MigrateEvents
<1>8. ASSUME RollbackMigration
      PROVE  DataOK' /\ LockOK'
  <2> DEFINE S == TerminalRuns(db, mig.terminal)
  <2>1. S \in SUBSET Run
    BY DEF TerminalRuns
  <2>2. /\ Sound(Without(db, S)) /\ Without(db, S).tables = db.tables
        /\ Without(db, S).version = db.version
    BY <1>4, <2>1, SoundWithout
  <2> QED
    BY <1>1, <1>8, <2>2, MigratorCommits DEF RollbackMigration
<1>9. ASSUME Validate \/ EventsFail \/ Abandon \/ \E t \in Terminal : RollbackBegin(t)
      PROVE  DataOK' /\ LockOK'
  BY <1>1, <1>9, NoHookChanged DEF Validate, EventsFail, Abandon, RollbackBegin
<1> QED
  BY <1>2, <1>3, <1>5, <1>6, <1>7, <1>8, <1>9 DEF IInv, Migrate

(***************************************************************************)
(* The invariant and the theorems.                                         *)
(***************************************************************************)
LEMMA EmptySound ==
    Sound(Empty) /\ ~ Empty.tables /\ Empty.version = 0
BY DEF Sound, Empty, Database, IdsAreFresh, Fits

LEMMA InitInvariant ==
    Init => IInv
<1> SUFFICES ASSUME Init PROVE IInv
  OBVIOUS
<1>1. DataOK
  BY EmptySound DEF Init, HookInit, DataOK, VersionMeansTables, WriterTables
<1>2. PhaseOK
  BY DEF Init, HookInit, PhaseOK, RunKnown, HookPhase
<1>3. LockOK
  BY DEF Init, HookInit, LockOK, WriterVersion, WriterErred, ReadySeesTables
<1>4. FilesOK /\ MigrationOK
  BY BoundAssumption, MigrationAssumption
  DEF Init, HookInit, FilesOK, MigrationOK, File, NoCommand, MigrationStage
<1> QED
  BY <1>1, <1>2, <1>3, <1>4 DEF IInv

LEMMA NextInvariant ==
    IInv /\ [Next]_vars => IInv'
<1> SUFFICES ASSUME IInv, [Next]_vars PROVE IInv'
  OBVIOUS
<1>1. ASSUME NEW p \in Process, HookStep(p), UNCHANGED migVars
      PROVE  IInv'
  BY <1>1, HookKeeps
<1>2. CASE Migrate
  BY <1>2, MigrateKeeps
<1>3. CASE UNCHANGED vars
  <2>1. DataOK' /\ LockOK' /\ PhaseOK'
    BY <1>3, NoHookChanged, HooksStay DEF vars, hookVars
  <2>2. FilesOK' /\ MigrationOK'
    BY <1>3 DEF vars, hookVars, migVars, files, IInv, FilesOK, MigrationOK
  <2> QED
    BY <2>1, <2>2 DEF IInv
<1> QED
  BY <1>1, <1>2, <1>3 DEF Next

LEMMA Invariant ==
    Spec => []IInv
BY InitInvariant, NextInvariant, PTL DEF Spec

(* Types: every state of the database, of the calls and of the command is  *)
(* one of those the code distinguishes, and ids come from the sequence.    *)
THEOREM DatabaseTypeCorrect == Spec => []TypeOK
<1>1. IInv => TypeOK
  BY DEF IInv, DataOK, PhaseOK, FilesOK, MigrationOK, Sound, TypeOK
<1> QED
  BY Invariant, <1>1, PTL

(* A committed schema version implies the tables.                          *)
THEOREM VersionTellsTheTruth == Spec => []VersionMeansTables
<1>1. IInv => VersionMeansTables
  BY DEF IInv, DataOK
<1> QED
  BY Invariant, <1>1, PTL

(* A process that set _db_initialized sees the tables until one of its     *)
(* statements fails.                                                       *)
THEOREM InitializedSeesTables == Spec => []ReadySeesTables
<1>1. IInv => ReadySeesTables
  BY DEF IInv, LockOK
<1> QED
  BY Invariant, <1>1, PTL

(* No event reaches a row of another terminal.                             *)
THEOREM EventsStayWithTheirTrail == Spec => []EventsKeepTheirTrail
<1>1. IInv => EventsKeepTheirTrail
  BY DEF IInv, DataOK, Sound, Fits, EventsKeepTheirTrail
<1> QED
  BY Invariant, <1>1, PTL

(* A call that ends without an error leaves no transaction open.           *)
THEOREM CallsCommit == Spec => []RestIsCommitted
<1>1. IInv => RestIsCommitted
  BY ValueAssumption DEF IInv, DataOK, LockOK, WriterErred, RestIsCommitted
<1> QED
  BY Invariant, <1>1, PTL
=============================================================================
