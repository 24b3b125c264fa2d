--------------------------- MODULE ExecutionStore ---------------------------
(***************************************************************************)
(* The persistent half of the execution-contract runtime: the files one    *)
(* terminal keeps under .artifacts/console_<id>/ and the system calls      *)
(* ArtifactsExecutionStore makes on them.                                  *)
(*                                                                         *)
(* Every operator here is ONE system call.  The store takes no lock, so a  *)
(* hook process can be stopped, or overtaken by another process of the     *)
(* same terminal, between any two of them; the callers chain them with a   *)
(* program counter (module ExecutionHooks).                                *)
(***************************************************************************)
EXTENDS Naturals, Sequences

CONSTANTS
    Runs,       \* run identities, the uuid4 of ExecutionRun.new
    Skills,     \* slash commands that have a SKILL.md
    Artifacts,  \* paths a contract can require
    Items,      \* what a response check can report: sections and phrases
    NoRun       \* no run: a file that does not exist, Python's None

VARIABLES
    state,   \* execution-state.json
    tmp,     \* execution-state.json.tmp, one fixed name for every writer
    backup,  \* execution-state.json.ended, the last run that was retired
    log      \* execution-events.jsonl

storeVars == <<state, tmp, backup, log>>

Phases == {"pending", "loaded", "executing"}

RunStatuses == {"active", "complete", "failed"}

EndStatuses == RunStatuses \cup {"replaced"}

(***************************************************************************)
(* ExecutionRun without the fields nothing decides on (timestamps, ids of  *)
(* the session and the turn).  The contract a run carries is fixed at its  *)
(* creation by its skill, so the record names the skill only.              *)
(***************************************************************************)
ExecutionRun ==
    [ id        : Runs,
      skill     : Skills,
      phase     : Phases,
      status    : RunStatuses,
      completed : SUBSET Artifacts,
      missing   : SUBSET (Artifacts \cup Items) ]

ASSUME NoRunAssumption == NoRun \notin ExecutionRun

MaybeRun == ExecutionRun \cup {NoRun}

(***************************************************************************)
(* The log is append-only.  It is kept as what it says about each run: how *)
(* many of its tools were allowed and blocked, which artifacts it names,   *)
(* and the statuses of its run_ended lines in the order they were written. *)
(* The lines themselves carry no run id; the model keeps the attribution   *)
(* so that properties can speak about it.                                  *)
(***************************************************************************)
RunLog ==
    [ created   : BOOLEAN,
      allowed   : Nat,
      blocked   : Nat,
      artifacts : SUBSET Artifacts,
      ended     : Seq(EndStatuses) ]

EmptyRunLog ==
    [ created |-> FALSE, allowed |-> 0, blocked |-> 0,
      artifacts |-> {}, ended |-> <<>> ]

StoreInit ==
    /\ state = NoRun
    /\ tmp = NoRun
    /\ backup = NoRun
    /\ log = [r \in Runs |-> EmptyRunLog]

-----------------------------------------------------------------------------
\* append_event, one operator per event type.
AppendCreated(r) ==
    log' = [log EXCEPT ![r].created = TRUE]

\* Mutant: only allowed tools reach the log.
AppendToolAllowedOnly(r, allowed) ==
    log' = IF allowed THEN [log EXCEPT ![r].allowed = @ + 1] ELSE log

AppendTool(r, allowed) ==
    log' = IF allowed
           THEN [log EXCEPT ![r].allowed = @ + 1]
           ELSE [log EXCEPT ![r].blocked = @ + 1]

AppendArtifact(r, path) ==
    log' = [log EXCEPT ![r].artifacts = @ \cup {path}]

AppendEnded(r, status) ==
    log' = [log EXCEPT ![r].ended = Append(@, status)]

\* First half of _atomic_write_json: the text goes to the temporary file,
\* over whatever another writer may have left there.
WriteTmp(run) ==
    tmp' = run

\* Second half: os.replace moves whatever the temporary file holds by now.
ReplaceState ==
    /\ tmp # NoRun
    /\ state' = tmp
    /\ tmp' = NoRun

\* os.replace when another writer has already moved the temporary file away:
\* FileNotFoundError, which the retry for PermissionError does not cover.
ReplaceFails ==
    tmp = NoRun

\* Mutant: the state file is copied to the backup instead of renamed.
RetireStateByCopy ==
    /\ backup' = IF state = NoRun THEN backup ELSE state
    /\ UNCHANGED state

\* The last lines of end_run: whatever run the state file holds by now is
\* renamed to the backup; no state file, no rename.
RetireState ==
    /\ backup' = IF state = NoRun THEN backup ELSE state
    /\ state' = NoRun
=============================================================================
