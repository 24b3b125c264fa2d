---------------------------- MODULE GateSession ----------------------------
(***************************************************************************)
(* Sessions that share a terminal run the hooks around a turn: the turn    *)
(* marker when a prompt comes, the pattern gate before a tool, the skill   *)
(* tracker after it, the Stop gate at the end.                             *)
(*                                                                         *)
(* A session runs one hook at a time and sessions interleave.  A hook that *)
(* touches the shared file and something else is cut in two, so that the   *)
(* other session, or a kill, can come between.                             *)
(***************************************************************************)
EXTENDS SkillGates

CONSTANTS
    Session,
    Calls,          \* the tool calls the model may make
    Prompts,        \* the prompts the user may give
    MaxCalls,       \* bound: tool calls and phase transitions
    MaxFaults       \* bound: ledger or file accesses that fail, hooks killed

ASSUME SessionAssumption ==
    /\ Calls \subseteq Call /\ Prompts \subseteq Prompt
    /\ MaxCalls \in Nat /\ MaxFaults \in Nat

NoCall == [tool |-> "none", named |-> NoSkill, matches |-> {}, names |-> FALSE]

VARIABLES
    lastTurn,   \* the newest turn id of the evidence store
    turn,       \* session -> its active turn in the evidence store
    prompt,     \* session -> the prompt being worked on
    seen,       \* session -> the calls in the transcript since the prompt
    pc,         \* session -> where its hooks are
    mem,        \* session -> the state its hook holds: to write, or as read
    call,       \* session -> the call that is running
    calls,      \* tool calls and transitions so far
    faults,     \* accesses that failed so far
    past        \* session -> what really happened in its turn (history)

vars ==
    <<file, ledger, lastTurn, turn, prompt, seen, pc, mem, call, calls, faults, past>>

\* own: the skills loaded.  tried: the tools called since the last load.  ran:
\* some call was let through.  dark: a ledger access failed, or there is none.
Past == [own : SUBSET Skill, tried : SUBSET Tool, ran : BOOLEAN, dark : BOOLEAN]

Fresh(dark) == [own |-> {}, tried |-> {}, ran |-> FALSE, dark |-> dark]

NoPrompt == [command |-> NoSkill, form |-> "plain", help |-> FALSE]

Init ==
    /\ file = NoState
    /\ ledger = [t \in Turn |-> EmptyTurn]
    /\ lastTurn = NoTurn
    /\ turn = [s \in Session |-> NoTurn]
    /\ prompt = [s \in Session |-> NoPrompt]
    /\ seen = [s \in Session |-> NoCalls]
    /\ pc = [s \in Session |-> "waiting"]
    /\ mem = [s \in Session |-> NoState]
    /\ call = [s \in Session |-> NoCall]
    /\ calls = 0
    /\ faults = 0
    /\ past = [s \in Session |-> Fresh(TRUE)]

Counted == calls < MaxCalls /\ calls' = calls + 1

\* Whether an access works; a failing one is counted.
Works(ok) ==
    /\ ok \/ faults < MaxFaults
    /\ faults' = IF ok THEN faults ELSE faults + 1

-----------------------------------------------------------------------------
\* ensure_turn_marker: a turn that is still active is used again, else one is
\* started, which may fail.
GivePrompt(s, p) ==
    /\ pc[s] = "waiting"
    /\ IF turn[s] # NoTurn THEN UNCHANGED <<turn, lastTurn, past, faults>>
       ELSE /\ lastTurn < MaxTurns
            /\ \E ok \in BOOLEAN :
                  /\ Works(ok)
                  /\ lastTurn' = IF ok THEN lastTurn + 1 ELSE lastTurn
                  /\ turn' = [turn EXCEPT ![s] = IF ok THEN lastTurn' ELSE NoTurn]
                  /\ past' = [past EXCEPT ![s] = Fresh(~ok)]
    /\ prompt' = [prompt EXCEPT ![s] = p]
    /\ seen' = [seen EXCEPT ![s] = NoCalls]
    /\ pc' = [pc EXCEPT ![s] = "working"]
    /\ UNCHANGED <<file, ledger, mem, call, calls>>

\* What the pattern gate says.  told: the payload carries the prompt.
Says(s, c, told, up) ==
    GateAnswer(c, IF told THEN prompt[s].command ELSE NoSkill, ReadPending(turn[s], up))

\* The pattern gate answers one call.  The router writes the invoked event and,
\* on a refusal, the blocked one.
BeforeTool(s, c, told, up) ==
    LET t == turn[s]
        a == Says(s, c, told, up)
        runs == a.is = "allow"
        Marked(st) == IF st = NoState THEN st
                      ELSE [st EXCEPT !.firstTool = @ \/ a.tool,
                                      !.firstCommand = @ \/ a.command]
    IN /\ pc[s] = "working"
       /\ Counted
       /\ Works(up)
       /\ seen' = [seen EXCEPT ![s] = WithCall(@, c)]
       /\ ledger' = IF t = NoTurn \/ ~up THEN ledger
                    ELSE [ledger EXCEPT ![t].state = Marked(@),
                                        ![t].invoked = TRUE,
                                        ![t].passed = @ \/ runs]
       /\ pc' = [pc EXCEPT ![s] = IF runs THEN "ran" ELSE "working"]
       /\ call' = [call EXCEPT ![s] = IF runs THEN c ELSE NoCall]
       /\ past' = [past EXCEPT ![s].tried = @ \cup {c.tool},
                               ![s].ran = @ \/ runs,
                               ![s].dark = @ \/ ~up]
       /\ UNCHANGED <<file, lastTurn, turn, prompt, mem>>

-----------------------------------------------------------------------------
(* SkillExecutionTracker.process, after a tracked tool.                    *)

\* A tool that is not tracked, or a skill that leaves no state.
Untracked(s) ==
    LET c == call[s]
    IN /\ \/ c.tool \notin TrackedTools
          \/ c.tool = "Skill" /\ (c.named = NoSkill \/ ~Tracked(c.named))
       /\ pc' = [pc EXCEPT ![s] = "working"]
       /\ past' = [past EXCEPT ![s].own = @ \cup ({c.named} \ {NoSkill})]
       /\ UNCHANGED <<ledger, mem, faults>>

RecordTool(s, up) ==
    /\ call[s].tool \in TrackedTools \ {"Skill"}
    /\ Works(up)
    /\ IF turn[s] = NoTurn \/ ~up THEN UNCHANGED ledger
       ELSE LedgerTool(turn[s], call[s].tool, "pattern" \in call[s].matches)
    /\ pc' = [pc EXCEPT ![s] = "working"]
    /\ past' = [past EXCEPT ![s].dark = @ \/ ~up]
    /\ UNCHANGED mem

\* set_skill_loaded up to the ledger event; the write of the file is to come.
RecordLoad(s, up) ==
    LET k == call[s].named
    IN /\ call[s].tool = "Skill" /\ k # NoSkill
       /\ Tracked(k)
       /\ Works(up)
       /\ IF turn[s] = NoTurn \/ ~up THEN UNCHANGED ledger
          ELSE LedgerLoad(turn[s], k)
       /\ mem' = [mem EXCEPT ![s] = Loaded(k)]
       /\ pc' = [pc EXCEPT ![s] = "writing"]
       /\ past' = [past EXCEPT ![s].own = @ \cup {k}, ![s].tried = {},
                               ![s].dark = @ \/ ~up]

AfterTool(s) ==
    /\ pc[s] = "ran"
    /\ \/ Untracked(s)
       \/ \E up \in BOOLEAN : RecordTool(s, up) \/ RecordLoad(s, up)
    /\ call' = [call EXCEPT ![s] = NoCall]
    /\ UNCHANGED <<file, lastTurn, turn, prompt, seen, calls>>

\* _write_pending_state_file: replaced at once, or left as it is on an OSError.
WriteFile(s) ==
    /\ pc[s] = "writing"
    /\ \E ok \in BOOLEAN :
          /\ Works(ok)
          /\ file' = IF ok THEN mem[s] ELSE file
    /\ mem' = [mem EXCEPT ![s] = NoState]
    /\ pc' = [pc EXCEPT ![s] = "working"]
    /\ UNCHANGED <<ledger, lastTurn, turn, prompt, seen, call, past, calls>>

\* transition_phase, called by the workflow hooks outside the repository.
Transition(s, to) ==
    /\ pc[s] = "working"
    /\ Counted
    /\ \E up, ok \in BOOLEAN :
          /\ Works(up /\ ok)
          /\ IF turn[s] # NoTurn /\ up THEN TransitionLedger(turn[s], to, ok)
             ELSE TransitionFile(turn[s], to) /\ ok
          /\ past' = [past EXCEPT ![s].dark = @ \/ ~up]
    /\ UNCHANGED <<lastTurn, turn, prompt, seen, pc, mem, call>>

-----------------------------------------------------------------------------
\* The Stop gate reads the pending file ...
StopReads(s) ==
    /\ pc[s] = "working"
    /\ mem' = [mem EXCEPT ![s] = file]
    /\ pc' = [pc EXCEPT ![s] = "stopping"]
    /\ UNCHANGED <<file, ledger, lastTurn, turn, prompt, seen, call, faults, past, calls>>

\* What it sees: the transcript is whole, shows the prompt but no tools, or
\* cannot be read.
Heard(s, view) == IF view = "unread" THEN NoPrompt ELSE prompt[s]

Seen(s, view) == IF view = "whole" THEN seen[s] ELSE NoCalls

StopSays(s, view, up, old) ==
    StopAnswer(Heard(s, view), Seen(s, view), mem[s],
               IF turn[s] # NoTurn /\ up THEN ledger[turn[s]] ELSE EmptyTurn,
               old)

\* ... and answers.  When it answers allow, the turn is over.
\* old: five minutes have passed since the state was written.
StopAnswers(s, view, up, old) ==
    LET over == StopSays(s, view, up, old) = "allow"
    IN /\ pc[s] = "stopping"
       /\ Works(up /\ view = "whole")
       /\ file' = IF Judged(Heard(s, view), Seen(s, view), mem[s]) THEN NoState ELSE file
       /\ pc' = [pc EXCEPT ![s] = IF over THEN "waiting" ELSE "working"]
       /\ turn' = [turn EXCEPT ![s] = IF over THEN NoTurn ELSE @]
       /\ prompt' = [prompt EXCEPT ![s] = IF over THEN NoPrompt ELSE @]
       /\ seen' = [seen EXCEPT ![s] = IF over THEN NoCalls ELSE @]
       /\ past' = IF over THEN [past EXCEPT ![s] = Fresh(TRUE)]
                  ELSE [past EXCEPT ![s].dark = @ \/ ~up]
       /\ mem' = [mem EXCEPT ![s] = NoState]
       /\ UNCHANGED <<ledger, lastTurn, call, calls>>

\* A hook is killed: the tracker's write never happens, or the Stop gate gives
\* no answer and the session waits with its turn still active.
Kill(s) ==
    /\ pc[s] \in {"ran", "writing", "stopping"}
    /\ Works(FALSE)
    /\ IF pc[s] = "stopping"
       THEN /\ pc' = [pc EXCEPT ![s] = "waiting"]
            /\ prompt' = [prompt EXCEPT ![s] = NoPrompt]
            /\ seen' = [seen EXCEPT ![s] = NoCalls]
       ELSE /\ pc' = [pc EXCEPT ![s] = "working"]
            /\ UNCHANGED <<prompt, seen>>
    /\ past' = [past EXCEPT ![s].dark = @ \/ pc[s] # "stopping"]
    /\ mem' = [mem EXCEPT ![s] = NoState]
    /\ call' = [call EXCEPT ![s] = NoCall]
    /\ UNCHANGED <<file, ledger, lastTurn, turn, calls>>

Next ==
    \E s \in Session :
       \/ \E p \in Prompts : GivePrompt(s, p)
       \/ \E c \in Calls, told, up \in BOOLEAN : BeforeTool(s, c, told, up)
       \/ AfterTool(s)
       \/ WriteFile(s)
       \/ \E to \in Phase : Transition(s, to)
       \/ StopReads(s)
       \/ \E view \in {"whole", "lost", "unread"}, up, old \in BOOLEAN :
             StopAnswers(s, view, up, old)
       \/ Kill(s)

Spec == Init /\ [][Next]_vars
=============================================================================
