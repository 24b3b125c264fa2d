--------------------------- MODULE GateProperties ---------------------------
(***************************************************************************)
(* What the gates of GateSession must get right.                           *)
(***************************************************************************)
EXTENDS GateSession

PastOK ==
    /\ past \in [Session -> Past]
    /\ pc \in [Session -> {"waiting", "working", "ran", "writing", "stopping"}]

\* Types, and what a file without a turn can hold: marks and tools come from the
\* snapshot of a turn, so only a file with that turn's id has any.
TypeOK ==
    /\ file \in MaybeState
    /\ ledger \in [Turn -> TurnRecord]
    /\ lastTurn \in 0 .. MaxTurns
    /\ turn \in [Session -> 0 .. lastTurn]
    /\ prompt \in [Session -> Prompt]
    /\ seen \in [Session -> Transcript]
    /\ mem \in [Session -> MaybeState]
    /\ call \in [Session -> Call \cup {NoCall}]
    /\ calls \in 0 .. MaxCalls
    /\ faults \in 0 .. MaxFaults
    /\ PastOK
    /\ \A st \in {file} \ {NoState} :
          /\ st.turn <= lastTurn
          /\ st.turn = NoTurn => ~st.firstTool /\ ~st.firstCommand /\ st.used = {}

\* While the ledger answers, the pattern gate refuses a tool only for a skill
\* that this session loaded in this turn, although the pending file it may fall
\* back to belongs to every session of the terminal (read_pending_state).
RefusedByOwnSkill ==
    \A s \in Session, c \in Calls, told \in BOOLEAN :
        LET a == Says(s, c, told, TRUE)
        IN pc[s] = "working" /\ ~past[s].dark
           /\ a.is \notin {"allow", "skill first"} => a.by \in past[s].own

\* While the ledger answers, a tool that acts is let through under a skill with
\* first tools only if it is one of them or one of them was called since the
\* skill was loaded; a load that comes later asks again (layer 1, which counts a
\* call as soon as it sees it, whether or not a later layer then refuses it).
FirstToolFirst ==
    \A s \in Session, c \in Calls, told \in BOOLEAN :
        /\ pc[s] = "working" /\ ~past[s].dark
        /\ c.tool \notin InvestigationTools
        /\ Says(s, c, told, TRUE).is = "allow"
        => LET st == ledger[turn[s]].state
           IN \/ st = NoState
              \/ st.skill = NoSkill
              \/ Profile[st.skill].first = {}
              \/ (past[s].tried \cup {c.tool}) \cap Profile[st.skill].first # {}

\* While the ledger answers, the pattern gate judges a call as if the terminal
\* had no pending file: what another session writes there, what its Stop hook
\* deletes after judging it, and a copy of the session's own state that the
\* ledger has left behind decide nothing (read_pending_state).
JudgedByLedger ==
    \A s \in Session, c \in Calls, told \in BOOLEAN :
        pc[s] = "working" /\ ~past[s].dark
        => Says(s, c, told, TRUE)
           = GateAnswer(c, IF told THEN prompt[s].command ELSE NoSkill,
                        ledger[turn[s]].state)

\* A turn that a typed slash command started, and in which some tool ran, ends
\* only if Skill was called in it (refused or not: the transcript shows the call)
\* or the command's own skill was loaded in it: neither a load of another turn
\* nor a transcript that lost its tools opens the Stop gate (the fallback for a
\* transcript that does not parse).
EnforcedStopSawSkill ==
    \A s \in Session, view \in {"whole", "lost"}, old \in BOOLEAN :
        /\ pc[s] = "stopping" /\ ~past[s].dark
        /\ Enforced(prompt[s].command) /\ prompt[s].form = "plain"
        /\ StopSays(s, view, TRUE, old) = "allow"
        => \/ "Skill" \in seen[s].tools
           \/ prompt[s].command \in past[s].own
           \/ ~past[s].ran
=============================================================================
