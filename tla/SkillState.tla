----------------------------- MODULE SkillState -----------------------------
(***************************************************************************)
(* The skill execution state of one terminal (skill_execution_state.py,    *)
(* _state_io.py, phases.py).                                               *)
(*                                                                         *)
(* A loaded skill is recorded twice: as events of the session's turn in    *)
(* the hook ledger, and in one pending file per terminal that all sessions *)
(* of the terminal share.  The ledger (hook_ledger, evidence_store) is     *)
(* outside the repository; ledger[t] is what materialize_turn and          *)
(* _load_db_events answer for turn t, as the code here uses them.          *)
(***************************************************************************)
EXTENDS Naturals

CONSTANTS
    Skill,
    Profile,    \* what SKILL.md declares: a function on Skill
    Tool,
    NoSkill,    \* the empty skill name
    NoState,    \* None, or no file
    MaxTurns    \* bound: turns the sessions of the terminal start

Turn == 1 .. MaxTurns

NoTurn == 0

Phase == {"pending", "loaded", "executing", "complete", "stale"}

ValidTransitions ==
    [ pending   |-> {"loaded"},
      loaded    |-> {"executing", "stale"},
      executing |-> {"complete", "stale"},
      complete  |-> {},
      stale     |-> {} ]

\* written: SKILL.md exists and its frontmatter parses.  bound: the required
\* artifacts, binding or enforcement ask for execution whatever the contract
\* type.  artifact: a phase artifact is required and enforced.  tools and
\* pattern: what get_skill_config discovers.
SkillProfile ==
    [ written      : BOOLEAN,
      contract     : {"workflow", "output", "hybrid", "analysis"},
      bound        : BOOLEAN,
      artifact     : BOOLEAN,
      steps        : BOOLEAN,
      first        : SUBSET Tool,
      firstCommand : BOOLEAN,
      tools        : SUBSET Tool,
      pattern      : BOOLEAN,
      tierNone     : BOOLEAN,
      warned       : BOOLEAN ]

\* used and matched: the tools recorded for the skill, and whether one of
\* their commands matched its pattern.
State ==
    [ skill        : Skill \cup {NoSkill},
      turn         : 0 .. MaxTurns,
      phase        : Phase,
      firstTool    : BOOLEAN,
      firstCommand : BOOLEAN,
      used         : SUBSET Tool,
      matched      : BOOLEAN ]

ASSUME StateAssumption ==
    /\ Profile \in [Skill -> SkillProfile]
    /\ NoSkill \notin Skill
    /\ MaxTurns \in Nat \ {0}
    /\ NoState \notin State

MaybeState == State \cup {NoState}

VARIABLES
    file,       \* skill_execution_pending.json of the terminal
    ledger      \* turn -> its materialised state and its tool and load events

TurnRecord ==
    [ state   : MaybeState,
      loads   : SUBSET Skill,       \* skill_loaded events
      invoked : BOOLEAN,            \* a tool_invoked event
      passed  : BOOLEAN ]           \* an invoked tool without tool_blocked

EmptyTurn ==
    [state |-> NoState, loads |-> {}, invoked |-> FALSE, passed |-> FALSE]

-----------------------------------------------------------------------------
\* The state set_skill_loaded creates.  Its terminal_id and turn_id stay empty.
Loaded(k) ==
    [ skill |-> k, turn |-> NoTurn, phase |-> "pending", firstTool |-> FALSE,
      firstCommand |-> FALSE, used |-> {}, matched |-> FALSE ]

HasRequirements(p) == p.tools # {} \/ p.first # {} \/ p.firstCommand

\* The two early returns of set_skill_loaded: such a skill leaves no trace, and
\* whatever the file held before stays.
Tracked(k) ==
    LET p == Profile[k]
    IN /\ ~(p.tierNone /\ ~HasRequirements(p) /\ ~p.warned)
       /\ ~(~HasRequirements(p) /\ ~p.warned /\ ~p.written)

\* Mutant: the file speaks for the active turn whichever turn it was written in.
ReadPendingAnyTurn(t, up) ==
    IF t # NoTurn /\ up /\ ledger[t].state # NoState THEN ledger[t].state
    ELSE file

\* Mutant: the file is asked before the ledger.
ReadPendingFileFirst(t, up) ==
    IF t # NoTurn /\ up
    THEN IF file # NoState /\ file.turn = t THEN file ELSE ledger[t].state
    ELSE file

\* read_pending_state: the ledger's snapshot of the active turn, else the file
\* if it was written for that turn; the file as it is when no turn is active or
\* the ledger raises (up = FALSE).
ReadPending(t, up) ==
    IF t # NoTurn /\ up
    THEN IF ledger[t].state # NoState THEN ledger[t].state
         ELSE IF file # NoState /\ file.turn = t THEN file ELSE NoState
    ELSE file

\* The skill_loaded event, and what the ledger makes of it.
LedgerLoad(t, k) ==
    ledger' = [ledger EXCEPT ![t].state = Loaded(k), ![t].loads = @ \cup {k}]

\* record_tool_use
LedgerTool(t, tool, match) ==
    ledger' = IF ledger[t].state = NoState THEN ledger
              ELSE [ledger EXCEPT ![t].state.used = @ \cup {tool},
                                  ![t].state.matched = @ \/ match]

-----------------------------------------------------------------------------
\* transition_phase: through the ledger when a turn is active and the ledger
\* answers, else on the file, unless that is another turn's.
PhaseOf(st) == IF st = NoState THEN "pending" ELSE st.phase

\* The empty state of a turn that loaded no skill.
Unnamed == Loaded(NoSkill)

\* Mutant: the file does not get the turn whose snapshot it is.
TransitionLedgerNoTurn(t, to, ok) ==
    LET st == ledger[t].state
        base == IF st = NoState THEN Unnamed ELSE st
    IN /\ to \in ValidTransitions[PhaseOf(st)]
       /\ ledger' = IF st = NoState THEN ledger
                    ELSE [ledger EXCEPT ![t].state.phase = to]
       /\ file' = IF ok THEN [base EXCEPT !.phase = to] ELSE file

\* ok: the write of the file works; when it does not, the ledger is ahead of it.
TransitionLedger(t, to, ok) ==
    LET st == ledger[t].state
        base == IF st = NoState THEN Unnamed ELSE st
    IN /\ to \in ValidTransitions[PhaseOf(st)]
       /\ ledger' = IF st = NoState THEN ledger
                    ELSE [ledger EXCEPT ![t].state.phase = to]
       /\ file' = IF ok THEN [base EXCEPT !.phase = to, !.turn = t] ELSE file

TransitionFile(t, to) ==
    /\ file # NoState
    /\ t = NoTurn \/ file.turn \in {NoTurn, t}
    /\ to \in ValidTransitions[file.phase]
    /\ file' = [file EXCEPT !.phase = to, !.turn = IF t = NoTurn THEN @ ELSE t]
    /\ UNCHANGED ledger
=============================================================================
