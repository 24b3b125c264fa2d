# skill-guard: verification project

skill-guard is a set of Claude Code hooks that make a model follow the skill it was asked to run. The
hooks are short-lived operating-system processes. All they know of each other is what they leave in files, in a
SQLite database and in a hook ledger outside this repository, and several sessions may share a terminal id
(`WT_SESSION` is shared by the sessions of one Windows Terminal, `skill_enforcer.py:430`). Most of what can
go wrong therefore goes wrong *between* two hooks. The modules here model those hooks, step by step, and
check or prove what the files and the gates owe each other.

Paths below are relative to `src/src/skill_guard/`. `PROJECT.json` has the exact lines of every definition.

## 1. Inventory

| Part | State it keeps | Operations | Modules |
|---|---|---|---|
| Execution contract (`execution_store`, `execution_run`, `execution_runtime`, `execution_hooks`, `user_prompt_submit_hook`) | `execution-state.json`, its `.tmp` and `.ended`, one event log of the terminal | create or replace a run, record a tool or an artifact, evaluate, finalise, end | `ExecutionStore`, `ExecutionRuntime`, `ExecutionHooks`, `ContractLifecycle`, `ExecutionProperties` |
| Skill discovery (`skill_auto_discovery` and the derivations in `user_prompt_submit_hook`) | none | frontmatter to configuration to contract | `SkillContract` |
| Breadcrumb trail (`breadcrumb/tracker`, `cache`, `log`, `sqlite_backend`, `enforcement`) | JSON file, log, database row, one cache per process | initialise, set, get, verify, clear, three cleanups | `BreadcrumbTrail`, `BreadcrumbProperties` |
| Skill execution state (`skill_execution_state`, `_state_io`, `phases`) | a pending file per terminal, events per turn in the ledger | load, record a tool, change phase, read, mark | `SkillState` |
| Skill gates (`PreToolUse_skill_pattern_gate`, `StopHook_skill_execution_gate`) and tracker (`posttooluse/skill_execution_tracker`, `turn_marker`) | none of their own | answer a tool call, answer the end of a turn | `SkillGates`, `GateSession`, `GateProperties` |
| Governance markers (layer 1 of the Stop hook) | `skill_governance_state.json` of the terminal: a skill, its markers, a retry count | read, first strike, second strike, clear | `StopSessions`, `Governance`, `RetryProperties` |
| Manual invocation tracker | a run in the terminal's state file, a retry file per run | create, validate, refuse and count, finalise | `StopSessions`, `ManualInvocation`, `RetryProperties` |
| Breadcrumb database (`breadcrumb/database`, `sqlite_backend` and the calls of `tracker`) | a pooled connection with its open transaction, schema and version, rows and events | set up, create, update, delete, clear | `BreadcrumbDatabase`, `DatabaseProperties` |
| Breadcrumb migration (`breadcrumb/migration`) | the stage of a command | validate, copy trails, copy events, roll back | `BreadcrumbMigration`, `DatabaseProperties` |
| Command intent (`skill_enforcer`) | one file per session with a 90 s life | write, log, clear | not modelled |
| Stateless gates, loaders, advisories, terminal identity, router | none | text matching and dispatch | not modelled |

The parts meet in six places. The prompt hook turns frontmatter into a contract and creates a run
(`SkillContract` into `ExecutionStore`). PreToolUse and Stop read and write that run. The skill tracker
writes the pending file and the ledger that both skill gates read. A manual invocation is an execution run in the same state file, which the
execution hooks retire too. The Stop hook clears the governance file on paths that do not judge it. The breadcrumb
tracker is called by hooks of its own and shares nothing with the rest but the directory; its database is also
written by the migration command, which somebody starts by hand.

What makes the code hard:

- hook processes of two sessions interleave one system call at a time over the same files;
- nothing locks: every writer loads a record, changes it and saves the whole of it;
- a process may be killed between its log line and its save, or between its save and its rename;
- a copy can be old: a process cache, a `.tmp` file of another writer, a pending file of another session;
- a read that fails counts as "nothing there", and nothing there means "let it through";
- evidence of the same fact comes from two sources (the log and the record; the ledger and the transcript);
- a budget of refusals is kept in a file that the refusing hook rewrites and other hooks remove;
- Python opens a database transaction before some statements and not before others, and an error leaves it open.

What makes each part correct: files account for every copy of a run, and "complete" is earned (execution contract);
the contract asks for what the frontmatter declares (discovery); a run is credited only with steps marked for it (breadcrumbs);
a session is judged by its own skill and only after the facts (gates); a budget is neither exceeded nor lost
(governance, manual invocation); what is committed is whole, and nobody keeps the write lock (database).

## 2. Modules and their correspondence to the code

### Execution contract

`ExecutionStore` has the files: `state`, `tmp`, `backup` and `log`, with one operator per system call of
`ArtifactsExecutionStore` (write the `.tmp`, `os.replace`, append a line, retire the state file).
`ExecutionRuntime` has what the runtime computes from a record: the phase after a tool, the verdict of
`evaluate_completion` for each of the four contract types. `ExecutionHooks` chains them into processes. A
process has a program counter `pc[s]`, the record it loaded in `mem[s]`, and the step after its save in
`cont[s]`; each action is the code up to the next system call that another process could see.
`ContractLifecycle` is the abstract promise: a run is opened, advances, fails or not, and is closed once
with a verdict. `ExecutionProperties` maps files to lifecycle.

Simplifications: `write_text` is one step (a torn `.tmp` is the same as a kill before it, since nobody
reads it). `exists` and rename in `end_run` are one step. The log file of the terminal is split by run in the
model; the lines in the file carry no run id. A PermissionError makes a save write and rename
once more (`SaveRetries`); the second one ends the hook, which is `Crash`. Nothing in the hooks calls `record_artifact_created`; it is modelled as an operation any process
may start. `replay_events` only reads. Terminal ids that sanitise to the same directory are not modelled.

### Skill contract

`SkillContract` is a set of operators, checked over every frontmatter: `InferContractType`, `SkillConfig`
(what `get_skill_config` returns) and `DerivedContract` (what the prompt hook makes of that). `MCSkillSession`
feeds a derived contract into `ExecutionHooks`.

### Breadcrumb trail

`BreadcrumbTrail` has one skill in one terminal, and any number of processes, each with its own cache,
debounce counter and `_db_initialized` flag. `initialize`, `set` and `clear` are several steps: row, log, file.
`Fail` is a write or database access that raises, `CutShort` a write killed after `open(path, "w")` truncated
the file, `Restart` the end of a process with its cache. `earned` and `proved` are history, which
no code reads: the steps that a call marked, with evidence or without, credited to the run of the trail it marked them in
and to no other.

Simplifications: the row is written in the step before the log (no decision reads it, so the order cannot be
seen); a read of file and log is one step; `unlink` succeeds; evidence is given or not; the counter of tools
saturates at two, the most any level asks for; whether a trail is old enough for a cleanup is a free choice. Not modelled:
a rename that fails at rotation, the eviction at 100 skills, `snapshot_all`, `force=True` (no caller outside tests).

### Skill gates

`SkillState` has the pending file of the terminal and, per turn, what the ledger answers. The ledger is
outside the repository; it is modelled from the calls made here (`append_event`, `materialize_turn`,
`_load_db_events`) and marked external. `SkillGates` holds the two decisions as operators: `GateAnswer`
(layers 0, 1 and 2 of the pattern gate, in order, with the marks they leave) and `StopAnswer` (the slash
branch, the harness-expanded branch, the branch judged by the pending file). `GateSession` runs them: prompt,
gate before a tool, tracker after it (ledger event, then file), phase transition, Stop (read the file,
then answer and perhaps delete it). `past` is history of what really happened in the turn.

Simplifications: a tool call is the tool, the skill it names, and which of the two kinds of expression its
command matches. A transcript has one entry per call; it is read backwards, as the code does. Whether five
minutes have passed is a free choice of the step that asks. A gate's read and its marks are one step: turns
are per session and a session's calls come one after the other. Left out because nothing in the repository can make
them answer: topic drift (no caller fills `do_not_distract`), the intent layer (the prompt hook writes to
other directories than the gate reads) and the frontmatter advisory (the `turn_id` it compares is always "").
The intent daemon's answer changes no decision of `_make_decision`, so it is not there.

### Breadcrumb database and migration

`BreadcrumbDatabase` has SQLite as the hooks use it: `db` is the last commit, `writer` the process with the write
lock, `dirty` what it sees. `See`, `Hold`, `Commit` and `Undo` are what a statement, `commit()` and an error do to
these. Python's `sqlite3` opens a transaction before INSERT, UPDATE and DELETE and never before CREATE; the module
therefore distinguishes the version row, which opens one that nothing in `initialize_schema` commits, from the
tables, which appear at once when no transaction is open. `initialize_breadcrumb_trail` is a sequence of steps
(`at[p]`), since two first hooks race there; every other call of the tracker is one step, which commits, or
breaks off and leaves the transaction open, or undone. A CREATE may fail too (`TablesFail`): the error leaves
`initialize_breadcrumb_trail`, with the version row in the open transaction or undone. A cold cache rebuilds a trail from the
log and writes it back, to its row as well if the process has opened the database (`UpdateCold`). A process may end or be killed at any point, and its connection closes with it.

`BreadcrumbMigration` is the command beside them. Each stage commits by itself, `INSERT OR REPLACE` gives a run a
new row, and foreign keys are off in its connections, so events of the old row stay. The second stage may fail
and roll the terminal back, the rollback may fail, and the command may be killed between two stages.

Simplifications: hooks and command share one database. Their defaults differ (`database.py:40`, `migration.py:554`), so this is the
command with the path of the hooks given to it; with its default it would fill a database no hook opens. One skill per terminal; the columns of a row are its id and terminal; an event is the trail
it belongs to and the terminal that wrote it. A read and the decision on it are one step. Which trail a cleanup
calls stale is a free choice. `--all` is the command for one terminal after the other. Several threads of one
process, and the two functions without a caller (`append_event`, `get_trail_by_run_id`), are left out.

### Two limited validators of a Stop

`StopSessions` has the sessions of a terminal, chosen at the start, and a bound on failures. `Governance` and
`ManualInvocation` are two validators that refuse a Stop a limited number of times. They touch different files, so
`MCStopRetries` chooses one or the other at the start (`part`); the state spaces add and do not multiply.

In `Governance` a Stop reads the record (`StopReadsGov`), works, and writes back or removes what it read
(`FirstStrike`, `SecondStrike`, `StopPasses`), whatever the router has written meanwhile. `StopsEarlier` are the
paths of `run()` that answer before the markers are looked at and clear the file. The router, outside the
repository, writes records (`Prompt`).

In `ManualInvocation` a run is made and saved (`Invoke`, `SaveRun`), and each Stop loads whatever run the state
file has (`StopLoads`), asks the ledger (`Found`, `Missing`), and finishes or refuses; the refusal is counted in a
second read and write of the retry file (`StopRefuses`, `WriteRetry`). The retry file is rewritten in place, so a read beside
a write may find it empty and counts 0. `OtherStop` is the execution contract's Stop hook, which retires the same
state file. Of the evidence only `skill_loaded` can be missing: runs are made without required artifacts, and
`workflow_steps` are never stored in the requirements the validation reads; evidence of any turn counts.
Nothing in `src/` calls `create_manual_invocation` and `validate_manual_invocation`; they are modelled as their
docstrings place them, at a prompt and at a Stop.

## 3. Runs

Every run is deterministic breadth-first search. Deadlock is not checked where the bounds on calls or turns stop the system.

| Run | Question | Bounds |
|---|---|---|
| `ExecutionCrash` | Do the files of a serial terminal implement `ContractLifecycle`? Does a failed run block one Stop only, and is a refusal final, with a hook killed anywhere? | 1 session, 2 runs, 3 tool events a run, 1 kill |
| `ExecutionLive` | Is every run that reached the state file ended in the log? | 1 session, 2 tool events a run |
| `ExecutionShared` | Can the log account for every copy of a run, is "complete" earned, and does every hook come to an end, with two sessions side by side? | 2 sessions, 1 run, 1 kill, 1 failing read |
| `SkillContract` | Does the inferred contract type evaluate what the frontmatter demands? | every frontmatter |
| `Breadcrumb` | Does a copy with this terminal's id credit a run with steps or evidence of another, or a row or rebuilt trail a step nobody marked? Can a run be verified without the work done for it? | 2 processes, 2 trails, 4 calls, 1 failure, rotation at 3 entries, write every 2 calls |
| `Database` | Does a committed version tell the truth? Does `_db_initialized`? Do events stay with rows of their terminal through re-migration and rollback? Who may keep the write lock? | 2 hooks in 2 terminals, 4 run ids, 4 calls, 2 commands, 1 failure |
| `StopRetries` | Is every strike and every retry earned? Are two refusals the limit of an undisturbed session, and are refusals over at some time with any number of sessions? | 2 sessions, 2 records, 2 runs, 2 skills, 1 failure |
| `Gates` | Is a session refused tools for a skill of another? Does the shared file ever change a verdict? Does the first tool come first? Does Stop let a slash command go when no skill was called? | 2 sessions, 2 turns, 3 calls or transitions, 1 failure, 3 skills |

Why the bounds are enough to mean something: two runs are needed for one prompt to replace another and for
Stop to meet a run that is not its own; three tool events take a run through every phase with one call to
spare; two processes are enough for a lost update and for one `.tmp` to be moved by the other's rename;
rotation at three entries happens within four calls; two turns are what a load of an earlier turn needs in order
to be taken for one of this turn, and three calls are a load, a tool and one more;
four database calls and two commands are a trail in each terminal, its migration, its replacement and a second
migration; two records are what a stale strike needs to hit the wrong one, and two runs what a retry count needs to be
taken for another's. One failure is enough to leave a transaction open or lose a count; the theorems of section 4
hold for any number. Each property is broken by a mutant under the same bounds,
so the case it is about does occur.

**Fairness** (`ExecutionLive`). `WF(HookRuns)`: the operating system runs a started process on; there is no lock
or wait in the code that could disable it. `SF(Stop)`: the harness ends every turn with the Stop hook; the
hook is not continuously enabled, because other hooks run in between, hence strong. A refused rename (`SaveRetries`) is not
fair, and needs no bound: a save is retried once. No kill is allowed in this
run: a killed Stop is made good only by the next one, which the user must cause.

**Fairness** (`StopRetries`). `WF(GovStop(s))` and `WF(InvStop(s))`: a session at work comes to its Stop, because the
harness ends every turn with it, and a started hook is run on by the operating system. No action of another
session disables a step of a hook for good, hence weak. Prompts, Skill calls and failures are not fair.
`GovernanceYields` and `RetriesRunOut` hold because failures are bounded: with writes that fail for ever the code does
refuse for ever, since both writers swallow the error (see below).

Runs that contradict a comment of the code (`findings` in `PROJECT.json`):

- `DocBlockedFails`: two hooks load the active run; one is refused its tool and saves FAILED, the other, whose tool was
  allowed, saves its older record over it, and the run is active again. A Stop that loaded the run before FAILED was saved
  likewise ends it by its older record.
- `DocSkillCall`: the contract of a workflow skill refuses the Skill call that Layer 0 demands.
- `DocColdReload`: a trail written from a cold cache has no terminal id, and the next cold reader deletes it.
- `DocDatabaseDegrades`: of two first hooks the second ends its initialisation with an `IntegrityError` or a lock
  timeout of SQLite, neither of which the tracker catches, and writes neither log nor file.

Disagreements met while modelling and kept only here, because they restate one line, are a lost update as above, or depend on one of the above:

- `execution_store.py:67` (INVARIANT 1), a run that exists is ended before the new one takes over: the prompts of two sessions
  both find no run, and the second overwrites the first one's, which is never ended. An unreadable state file does the same
  to a single session. `user_prompt_submit_hook.py:10` (INVARIANT 2), only a prompt creates a run: a hook that loaded the run before
  another session's Stop retired it saves it afterwards, and the ended run is back. `ImplementsLifecycle` is therefore checked on
  the serial terminal with reads that succeed.
- `tracker.py:523` calls the log the source of truth. It survives clear-all, session end and stale cleanup, and what is rebuilt
  from it has the run id of its first entry (`cache.py:161`): the steps of a later run are credited to an earlier one.
  Initialise, clear all, initialise again and mark a step is enough. Only copies without terminal id and rows carry that credit, and
  verification never reads those: that is what `CreditIsEarned` and `VerifiedIsEarned` show, and all they show of such copies is
  that each step was marked for some run.
- `user_prompt_submit_hook.py:13` and `:123` announce declared artifacts and sections; the keys read at `:125` are never
  in the configuration, so they never reach the contract.
- Stop's "first Bash command" (`StopHook_skill_execution_gate.py:257`) is the last one, since the transcript is collected
  backwards (`:476`).
- INVARIANT 3, unlisted tools are blocked: an empty allow-list allows everything, and `_get_allowed_tools` reads
  a key that `get_skill_config` never returns.
- A hybrid contract may complete without a response when none is given to the evaluator.
- The pattern gate refuses every execution tool of a skill without a pattern (`_check_regex` answers False for an
  empty one), while the registry comment calls the pattern optional and the Stop gate treats none as satisfied.
- Layer 0 is stateless: with the prompt in the payload it refuses every other tool also after Skill was called, with
  the words "but haven't called Skill yet".
- `allowed_first_tools` of investigation tools only are never marked, so every acting tool stays refused.
- The Stop gate decides whether execution is required from the pending file of the terminal, whichever skill's it
  is, although a comment at `skill_execution_state.py:197` calls the state immune to stale data. A call that was refused counts as an execution tool.
- The tools in the pending file are empty unless a phase transition copied the ledger's snapshot, so
  `validate_execution` reports a late violation for a typed exempt command in whose turn a skill with tools was called.
- A log that was rotated makes cold processes ignore every step; `clear` leaves the row when the process never opened the database.
- A statement that fails leaves the transaction open, with the write lock, until a later commit or the end of the process: no
  path rolls back. A trail row whose commit failed is so committed by the next call that succeeds.
- `migration.py:13` and `:336` call the migration transactional; it is not when the rollback fails too or the command
  is killed between two stages. The rollback (`:426`, "Removes all migrated data") leaves the events of rows that an
  earlier migration replaced, and deletes live rows that no migration added.
- The "most recent trail (first one found)" that `migrate_jsonl_to_events` looks up is the last one of the list.
- A trail file rebuilt from a cold cache lacks `terminal_id`, which makes validation reject the whole terminal.
- `manual_invocation_tracker.py:37` promises bounded retries; a retry file that cannot be written is ignored, and the
  budget never shrinks. The governance count has the same gap.
- A manual run is tagged through `hasattr(run, "metadata")`, an attribute runs do not have.

## 4. Theorems

All are checked by TLAPS for every value of the constants under the assumptions the modules state. Each invariant below
was first checked by TLC on the run of its module. Every invariant and every action property of a run is stated by a theorem.

| Module | Theorems | For |
|---|---|---|
| `ExecutionProofs` | `TypeCorrect`, `HooksTerminate` | any number of sessions, runs, contracts, kills, failing reads, refused renames |
| `ExecutionLogProofs` | `InductiveInvariant`, `LogAccounts`, `CompletionEarned` | the same |
| `LifecycleProofs` | `DenialStandsToTheEnd`, `StopIsRefusedOnce` | one session at a time, the rest the same |
| `LifecycleProofs` | `HooksImplementLifecycle`, `ClosedRunsStayClosed` | one session at a time, no failing reads |
| `SkillContractProofs` | `DemandsAreEvaluated` | every frontmatter over any tools, artifacts and sections |
| `BreadcrumbProofs` | `BreadcrumbTypeCorrect`, `CreditStaysEarned`, `VerificationStaysEarned` | any number of processes, trails, calls, failures; any workflow, rotation and debounce |
| `GateProofs` | `GateTypeCorrect`, `LedgerDecides`, `RefusalsAreOwn`, `FirstToolComesFirst`, `EnforcedStopsAreHonest` | any number of sessions, turns, skills, calls, failures |
| `DatabaseProofs` | `DatabaseTypeCorrect`, `VersionTellsTheTruth`, `InitializedSeesTables`, `EventsStayWithTheirTrail`, `CallsCommit` | any number of hooks, terminals, runs, commands, failures |
| `RetryProofs` | `RetryTypeCorrect`, `StrikesAreEarned`, `RetriesAreEarned`, `WarningsAreEarned` | any number of sessions, records, runs, failures |
| `RetryProofs` | `NoThirdStrike`, `NoThirdRefusal` | a session that is alone and undisturbed |

**Types and ends** (`ExecutionProofs`). `TInv` adds to `TypeOK` what a program counter implies about the record held.
`HooksTerminate` needs nothing more: `CallsLeft` is a measure that each system call of a hook lowers, because a refused
rename is retried once and a lost `.tmp` not at all. With `WF(HookRuns)` it is the part of liveness the prover can reach.

**The log accounts for the files** (`ExecutionLogProofs`). `LogLeadsState` alone is not inductive. It says nothing of the status and
nothing about the moment between `evaluate_completion` and `finalize_run`, when the verdict exists only in a
local variable. The invariant is `IInv == TInv /\ CopiesJustified /\ OutcomeOK`. `CopiesJustified` says of every
copy, in a file or in memory, that the log backs its phase, failure and artifacts and that it is complete only
if its work is done. `OutcomeOK` says that a pending verdict is justified by the record it is about. The proof
needs no case analysis over interleavings: the log only grows (`LogGrows`), so a copy once justified stays so however stale it
becomes, and every step makes at most one new record, which is the one to justify. A stale save puts an
old copy in a new place and is no new record at all.

**One session and the lifecycle** (`LifecycleProofs`). The hypothesis `Serial` says that there is at most one session; two
sessions do break these properties (section 3), so it cannot be dropped. Between two hooks nothing is
remembered but the files, and `IssuedOK` and `DeniedOK` say what they know: a run id not handed out is nowhere, a run
whose tool was refused is failed as long as it is in the state file, and a run whose Stop was refused is not there. Inside a hook,
`SerialOK` says at every system call whether the record in memory is the state file's, a run nobody has seen
(`Newborn`), or one the state file may become (`Follows`: one phase further, or failed, and never back from failed).
The refinement then takes four facts: taking the file away closes the run with its last status (`RetiringCloses`), a newborn
opens in an empty place (`NewbornOpens`), any other save advances, fails or stutters (`SaveMoves`), and a `run_ended` line for the
run that is still in the file stutters (`EndingStutter`). A prompt that takes an unreadable file for a missing one writes its
run over one that was never ended, which the lifecycle forbids; hence `MaxLoadFaults = 0` for the refinement only.

**Contracts** (`SkillContractProofs`). The contract of the last prompt is the one derived from the file on disk (`CInv`), so the claim is one about
operators: inference follows the signals, and the type is the one key that crosses `get_skill_config` unchanged.

**Breadcrumb trails** (`BreadcrumbProofs`). `CreditIsEarned` says nothing of `run_id`, of the trail a call has yet to write, or of the
log as such, from which a cold cache rebuilds. `IInv` says of every copy that it is `Sound`: its run was handed out; if it bears the
terminal's id its steps were marked in a trail of that very run, and if it was rebuilt from the log they were marked for some run; its evidence
is of its run in either case, because the log carries none. `LogSound` is all the log can offer: a step in it was marked for some run, since
an entry does not say for which. Owned copies come from `initialize` and from marks on owned copies only, so what the log mixes up never reaches
them; marking a step in a rebuilt trail credits the run that trail names. History only grows, so old copies stay sound. `Returned` gives
owned trails only, and `VerifiedIsEarned` follows level by level, with the cardinality of a subset for the two levels that count.

**Gates** (`GateProofs`). `IInv == TypeOK /\ HookOK /\ OwnTurns /\ Honest`. `OwnTurns`: no two sessions have the same turn, and a turn to come
is empty in the ledger. `Honest`: as long as the ledger answered throughout the turn, what it says of the turn really happened in it
(`Witnessed`); and a pending file that names the turn, when the ledger has no state of it, names no skill: only a phase transition
writes such a file, and what other sessions leave there names a turn of theirs. `AnswerFromLedger` follows, that the gate answers as if there
were no file, and the properties are then about one answer of a gate and the ledger's record. The file of a session that is judged while `dark` is not covered, and the properties say so.

**Budgets** (`RetryProofs`). What a file says is earned only if what a Stop is about to write there is, so the
invariant `IInv == TypeOK /\ GovInv /\ InvInv` says of every record and count in memory what the properties say of
the files (`HeldIsEarned`, `CountIsEarned`, `WarningIsEarned`). Histories only grow, so a stale copy is never more than
it was. The limit on refusals holds of one session without failures only, and needs the opposite direction: nothing
is lost. `GovExact` and `InvExact` add that the file counts no less than was refused, except between the decision and the write.

**Database** (`DatabaseProofs`). `VersionMeansTables` speaks of commits, and a commit may publish any transaction; so the
invariant follows the open one. `WriterVersion`: it has a version without tables only while its process is `Unfinished`: between the
two statements of `initialize_schema`, or after the second failed, when `_db_initialized` is not set and the process therefore commits nothing
until it has been through `initialize_schema` again (`ReadyReads`). `WriterTables`: it never loses tables that are committed, because
CREATE needs the write lock or writes nothing. `WriterErred`: it is open only during `initialize_schema`,
up to `create_trail`, or after an error. Every call then reduces to one of five facts about what a process does with the
database (`SameKeeps`, `CommitKeeps`, `HoldKeeps`, `UndoKeeps`, `TablesKeep`), whatever the others do. Events fit their
rows (`Fits`) because AUTOINCREMENT hands out an id once, which `IdsAreFresh` carries.

Only model-checked: `EveryRunEnds`, `GovernanceYields` and `RetriesRunOut`, since liveness is out of the prover's reach, and the
four contradictions of section 3, which are counterexamples.

## 5. Not modelled, and why

Stateless gates, parsers, advisories and the router look at one payload and answer; there is no order of
steps in which they could go wrong. Finding `SKILL.md`, parsing YAML and matching regular expressions are
inputs of the models. The text of a refusal is left out. The command intent file has a path of its own per session, and the
gates look for it in another directory: it has no reader whose decision could go wrong. Step inference guesses a
step from keywords; `BreadcrumbTrail` takes any step. The legacy migration helpers have no caller. Hooks are processes
with one thread, so the races of several threads over one connection pool are not modelled. `tools/`, `scripts/` and `docs/` are not part of the hooks.

## 6. Plan

What is left, in this order:

1. Action properties that carry `GovernanceYields` and `RetriesRunOut` as `HooksComeToAnEnd` carries `EveryRunEnds`: a measure of the
   refusals and failures a record still has.
2. A refinement of an abstract trail (steps marked in the trail of a run, nothing else) by `BreadcrumbTrail`, of which `CreditIsEarned` is the safety half.
