----------------------------- MODULE GateProofs -----------------------------
(***************************************************************************)
(* Theorems about the two gates and the skill state between them, for any  *)
(* number of sessions, skills, tools and turns, any profiles, and any      *)
(* number of failing ledgers, failing writes and killed hooks.             *)
(***************************************************************************)
EXTENDS GateProperties, TLAPS

(***************************************************************************)
(* The inductive invariant.                                                *)
(***************************************************************************)

\* What a session holds between two steps of a hook.
Holds(s) ==
    /\ pc[s] = "ran" => call[s] \in Call
    /\ pc[s] = "writing" => \E k \in Skill : mem[s] = Loaded(k)

HookOK == \A s \in Session : Holds(s)

\* An active turn has one session, and a turn to come has no events.
OwnTurns ==
    /\ \A s, r \in Session : s # r /\ turn[s] # NoTurn => turn[s] # turn[r]
    /\ \A t \in Turn : t > lastTurn => ledger[t] = EmptyTurn

\* What the ledger and the file say of the session's turn really happened in it.
Witnessed(s) ==
    LET e == ledger[turn[s]]
        own == past[s].own
    IN /\ turn[s] # NoTurn
       /\ e.state # NoState => e.state.skill \in own
       /\ e.loads \subseteq own
       /\ e.state = NoState /\ file # NoState /\ file.turn = turn[s]
          => file.skill = NoSkill
       /\ e.state # NoState /\ e.state.firstTool
          => past[s].tried \cap Profile[e.state.skill].first # {}
       /\ past[s].ran => e.passed

Honest == \A s \in Session : ~past[s].dark => Witnessed(s)

IInv == TypeOK /\ HookOK /\ OwnTurns /\ Honest

(***************************************************************************)
(* Types of what the operators return.                                     *)
(***************************************************************************)

\* A state whose turn is known, and that has marks only if it has a turn.
Placed(st, last) ==
    /\ st \in State
    /\ st.turn <= last
    /\ st.turn = NoTurn => ~st.firstTool /\ ~st.firstCommand /\ st.used = {}

LEMMA LoadedType ==
    ASSUME NEW k \in Skill \cup {NoSkill}, NEW last \in Nat
    PROVE  /\ Loaded(k) \in State
           /\ Placed(Loaded(k), last)
           /\ Loaded(k).skill = k
           /\ Loaded(k).turn = NoTurn
           /\ ~Loaded(k).firstTool
BY StateAssumption DEF Loaded, State, Phase, NoTurn, Placed

LEMMA StateFields ==
    ASSUME NEW st \in State
    PROVE  st = [ skill |-> st.skill, turn |-> st.turn, phase |-> st.phase,
                  firstTool |-> st.firstTool, firstCommand |-> st.firstCommand,
                  used |-> st.used, matched |-> st.matched ]
BY DEF State

LEMMA PhaseMoved ==
    ASSUME NEW st \in State, NEW to \in Phase
    PROVE  /\ [st EXCEPT !.phase = to] \in State
           /\ [st EXCEPT !.phase = to].skill = st.skill
           /\ [st EXCEPT !.phase = to].firstTool = st.firstTool
           /\ \A t \in 0 .. MaxTurns :
                 /\ [st EXCEPT !.phase = to, !.turn = t] \in State
                 /\ [st EXCEPT !.phase = to, !.turn = t].skill = st.skill
                 /\ [st EXCEPT !.phase = to, !.turn = t].turn = t
BY DEF State

\* The marks of an answer, added to a snapshot.
WithMarks(st, tool, command) ==
    [st EXCEPT !.firstTool = @ \/ tool, !.firstCommand = @ \/ command]

LEMMA StateMarked ==
    ASSUME NEW st \in State, NEW tool \in BOOLEAN, NEW command \in BOOLEAN
    PROVE  /\ WithMarks(st, tool, command) \in State
           /\ WithMarks(st, tool, command).skill = st.skill
           /\ WithMarks(st, tool, command).firstTool = (st.firstTool \/ tool)
<1> DEFINE first == st.firstTool \/ tool
           firstCommand == st.firstCommand \/ command
           new == [st EXCEPT !.firstTool = first, !.firstCommand = firstCommand]
<1>1. first \in BOOLEAN /\ firstCommand \in BOOLEAN
  OBVIOUS
<1>2. /\ new \in State
      /\ new.skill = st.skill
      /\ new.firstTool = first
  <2> HIDE DEF first, firstCommand
  <2> QED
    BY <1>1 DEF State
<1> QED
  BY <1>2 DEF WithMarks

LEMMA StateUsed ==
    ASSUME NEW st \in State, NEW tool \in Tool, NEW match \in BOOLEAN
    PROVE  LET new == [st EXCEPT !.used = @ \cup {tool}, !.matched = @ \/ match]
           IN /\ new \in State
              /\ new.skill = st.skill
              /\ new.firstTool = st.firstTool
<1> DEFINE matched == st.matched \/ match
           new == [st EXCEPT !.used = @ \cup {tool}, !.matched = matched]
<1>1. matched \in BOOLEAN
  OBVIOUS
<1>2. /\ new \in State
      /\ new.skill = st.skill
      /\ new.firstTool = st.firstTool
  <2> HIDE DEF matched
  <2> QED
    BY <1>1 DEF State
<1> QED
  BY <1>2

LEMMA EmptyTurnType == EmptyTurn \in TurnRecord
BY DEF EmptyTurn, TurnRecord, MaybeState

LEMMA WithCallType ==
    ASSUME NEW c \in Call, NEW q \in Transcript
    PROVE  WithCall(q, c) \in Transcript
BY DEF WithCall, Transcript, Call

\* The answer of the pattern gate marks only what it was asked about.
LEMMA GateAnswerMarks ==
    ASSUME NEW c \in Call, NEW typed, NEW st \in MaybeState
    PROVE  LET a == GateAnswer(c, typed, st)
           IN /\ a.tool \in BOOLEAN /\ a.command \in BOOLEAN
              /\ a.tool => /\ st # NoState
                           /\ c.tool \in Profile[st.skill].first
<1>1. FirstToolDue(c, st) \in BOOLEAN /\ FirstCommandDue(c, st) \in BOOLEAN
  BY DEF FirstToolDue, FirstCommandDue
<1> QED
  BY <1>1 DEF GateAnswer, FirstToolMissed, FirstToolDue

\* A refusal that is not for the typed command names the skill of the state.
LEMMA GateAnswerBy ==
    ASSUME NEW c, NEW typed, NEW st,
           GateAnswer(c, typed, st).is \notin {"allow", "skill first"}
    PROVE  /\ st # NoState /\ st.skill # NoSkill
           /\ GateAnswer(c, typed, st).by = st.skill
BY DEF GateAnswer

\* A tool that acts is let through by layer 1.
LEMMA GateAnswerAllows ==
    ASSUME NEW c, NEW typed, NEW st,
           c.tool \notin InvestigationTools, st # NoState, st.skill # NoSkill,
           GateAnswer(c, typed, st).is = "allow"
    PROVE  ~FirstToolMissed(c, st)
BY DEF GateAnswer

(***************************************************************************)
(* What the operators do to the ledger and to the file.                    *)
(***************************************************************************)
LEMMA RecordFields ==
    ASSUME NEW e \in TurnRecord
    PROVE  /\ e = [ state |-> e.state, loads |-> e.loads,
                    invoked |-> e.invoked, passed |-> e.passed ]
           /\ e.state \in MaybeState
           /\ e.loads \subseteq Skill
BY DEF TurnRecord

\* One turn's record is replaced.
LEMMA LedgerAt ==
    ASSUME NEW l \in [Turn -> TurnRecord], NEW t \in Turn, NEW e \in TurnRecord
    PROVE  /\ [l EXCEPT ![t] = e] \in [Turn -> TurnRecord]
           /\ [l EXCEPT ![t] = e][t] = e
           /\ \A u \in Turn \ {t} : [l EXCEPT ![t] = e][u] = l[u]
OBVIOUS

LEMMA SnapshotAt ==
    ASSUME NEW l \in [Turn -> TurnRecord], NEW t \in Turn, NEW st \in MaybeState
    PROVE  LET new == [l EXCEPT ![t].state = st]
           IN /\ new \in [Turn -> TurnRecord]
              /\ new[t].state = st
              /\ new[t].loads = l[t].loads
              /\ new[t].passed = l[t].passed
              /\ \A u \in Turn \ {t} : new[u] = l[u]
<1> DEFINE e == [l[t] EXCEPT !.state = st]
<1>1. l[t] \in TurnRecord
  OBVIOUS
<1>2. /\ e \in TurnRecord
      /\ e.state = st /\ e.loads = l[t].loads /\ e.passed = l[t].passed
  BY <1>1 DEF TurnRecord
<1>3. [l EXCEPT ![t].state = st] = [l EXCEPT ![t] = e]
  OBVIOUS
<1> HIDE DEF e
<1> QED
  BY <1>2, <1>3, LedgerAt

\* The ledger of the step: only turn t's record changes, and how.
Others(t) ==
    /\ ledger' \in [Turn -> TurnRecord]
    /\ \A u \in Turn \ {t} : ledger'[u] = ledger[u]

LEMMA LedgerLoadKeeps ==
    ASSUME ledger \in [Turn -> TurnRecord], NEW t \in Turn, NEW k \in Skill,
           LedgerLoad(t, k)
    PROVE  /\ Others(t)
           /\ ledger'[t].state = Loaded(k)
           /\ ledger'[t].loads = ledger[t].loads \cup {k}
           /\ ledger'[t].passed = ledger[t].passed
<1> DEFINE e == ledger[t]
           loads == e.loads \cup {k}
           new == [e EXCEPT !.state = Loaded(k), !.loads = loads]
<1>1. e \in TurnRecord /\ loads \in SUBSET Skill
  BY RecordFields
<1>2. ledger' = [ledger EXCEPT ![t] = new]
  BY DEF LedgerLoad
<1>3. Loaded(k) \in MaybeState
  BY LoadedType, StateAssumption DEF MaybeState
<1>4. /\ new \in TurnRecord
      /\ new.state = Loaded(k)
      /\ new.loads = loads
      /\ new.passed = e.passed
  <2> HIDE DEF e, loads
  <2> QED
    BY <1>1, <1>3 DEF TurnRecord
<1> HIDE DEF new
<1> QED
  BY <1>2, <1>4, LedgerAt DEF Others

LEMMA LedgerToolKeeps ==
    ASSUME ledger \in [Turn -> TurnRecord], NEW t \in Turn, NEW tool \in Tool,
           NEW match \in BOOLEAN, LedgerTool(t, tool, match)
    PROVE  /\ Others(t)
           /\ ledger'[t].state # NoState <=> ledger[t].state # NoState
           /\ ledger[t].state # NoState
              => /\ ledger'[t].state.skill = ledger[t].state.skill
                 /\ ledger'[t].state.firstTool = ledger[t].state.firstTool
           /\ ledger'[t].loads = ledger[t].loads
           /\ ledger'[t].passed = ledger[t].passed
<1> DEFINE e == ledger[t]
           st == [e.state EXCEPT !.used = @ \cup {tool}, !.matched = @ \/ match]
<1>1. e \in TurnRecord
  OBVIOUS
<1>2. CASE e.state = NoState
  BY <1>1, <1>2 DEF LedgerTool, Others
<1>3. CASE e.state # NoState
  <2>1. e.state \in State
    BY <1>1, <1>3, RecordFields DEF MaybeState
  <2>2. st \in State /\ st.skill = e.state.skill /\ st.firstTool = e.state.firstTool
    BY <2>1, StateUsed
  <2>3. ledger' = [ledger EXCEPT ![t].state = st]
    BY <1>3 DEF LedgerTool
  <2> HIDE DEF st
  <2> QED
    BY <1>3, <2>2, <2>3, SnapshotAt, StateAssumption DEF MaybeState, Others
<1> QED
  BY <1>2, <1>3

\* A transition changes the phase of the snapshot, and the file gets the
\* snapshot, or the empty state of a turn without one.
LEMMA TransitionLedgerKeeps ==
    ASSUME ledger \in [Turn -> TurnRecord], NEW t \in Turn, NEW to \in Phase,
           NEW ok \in BOOLEAN, TransitionLedger(t, to, ok)
    PROVE  /\ Others(t)
           /\ ledger'[t].state # NoState <=> ledger[t].state # NoState
           /\ ledger[t].state # NoState
              => /\ ledger'[t].state.skill = ledger[t].state.skill
                 /\ ledger'[t].state.firstTool = ledger[t].state.firstTool
           /\ ledger'[t].loads = ledger[t].loads
           /\ ledger'[t].passed = ledger[t].passed
           /\ file' # file
              => /\ file' \in State
                 /\ file'.turn = t
                 /\ \/ file'.skill = NoSkill
                    \/ ledger[t].state # NoState /\ file'.skill = ledger[t].state.skill
<1> DEFINE e == ledger[t]
           base == IF e.state = NoState THEN Unnamed ELSE e.state
           st == [e.state EXCEPT !.phase = to]
<1>1. e \in TurnRecord /\ e.state \in MaybeState
  BY RecordFields
<1>2. base \in State
  BY <1>1, LoadedType, StateAssumption DEF Unnamed, MaybeState
<1>3. \/ base.skill = NoSkill
      \/ e.state # NoState /\ base.skill = e.state.skill
  BY LoadedType, StateAssumption DEF Unnamed
<1>4. file' # file
      => /\ file' \in State
         /\ file'.turn = t
         /\ file'.skill = base.skill
  <2>1. CASE ok
    <3>1. file' = [base EXCEPT !.phase = to, !.turn = t]
      BY <2>1 DEF TransitionLedger
    <3>2. t \in 0 .. MaxTurns
      BY StateAssumption DEF Turn
    <3> HIDE DEF base
    <3> QED
      BY <1>2, <3>1, <3>2, PhaseMoved
  <2>2. CASE ~ok
    BY <2>2 DEF TransitionLedger
  <2> QED
    BY <2>1, <2>2
<1>5. CASE e.state = NoState
  BY <1>1, <1>3, <1>4, <1>5 DEF TransitionLedger, Others
<1>6. CASE e.state # NoState
  <2>1. e.state \in State
    BY <1>1, <1>6 DEF MaybeState
  <2>2. st \in State /\ st.skill = e.state.skill /\ st.firstTool = e.state.firstTool
    BY <2>1, PhaseMoved
  <2>3. ledger' = [ledger EXCEPT ![t].state = st]
    BY <1>6 DEF TransitionLedger
  <2> HIDE DEF st
  <2>4. /\ Others(t) /\ ledger'[t].state = st
        /\ ledger'[t].loads = e.loads /\ ledger'[t].passed = e.passed
    BY <2>2, <2>3, SnapshotAt DEF MaybeState, Others
  <2> HIDE DEF base
  <2> QED
    BY <1>3, <1>4, <1>6, <2>2, <2>4, StateAssumption
<1> QED
  BY <1>5, <1>6

\* Without the ledger only the file changes, and it keeps its skill.
LEMMA TransitionFileKeeps ==
    ASSUME file \in MaybeState, NEW t \in 0 .. MaxTurns, NEW to \in Phase,
           TransitionFile(t, to)
    PROVE  /\ file # NoState
           /\ file' \in State
           /\ file'.skill = file.skill
           /\ file'.turn = IF t = NoTurn THEN file.turn ELSE t
           /\ file'.firstTool = file.firstTool
           /\ file'.firstCommand = file.firstCommand
           /\ file'.used = file.used
           /\ UNCHANGED ledger
BY DEF TransitionFile, MaybeState, State

(***************************************************************************)
(* One session's step leaves what is known of the others.                  *)
(***************************************************************************)
FilePlaced == file # NoState => Placed(file, lastTurn)

LEMMA TypeFacts ==
    ASSUME TypeOK, NEW s \in Session
    PROVE  /\ FilePlaced
           /\ turn[s] \in 0 .. lastTurn /\ turn[s] \in 0 .. MaxTurns
           /\ turn[s] # NoTurn => turn[s] \in Turn
           /\ lastTurn \in Nat /\ lastTurn <= MaxTurns
           /\ past[s] \in Past
           /\ prompt[s] \in Prompt /\ seen[s] \in Transcript
           /\ mem[s] \in MaybeState
BY StateAssumption DEF TypeOK, PastOK, FilePlaced, Placed, MaybeState, NoTurn, Turn

\* The step of session s touches the record of its own turn, and a file that it
\* writes is of its own turn, of no turn, or of the turn and the skill it was of.
Local(s) ==
    /\ turn[s] # NoTurn => Others(turn[s])
    /\ turn[s] = NoTurn => UNCHANGED ledger
    /\ UNCHANGED lastTurn
    /\ \A r \in Session \ {s} :
          /\ pc'[r] = pc[r] /\ mem'[r] = mem[r] /\ call'[r] = call[r]
          /\ past'[r] = past[r] /\ turn'[r] = turn[r]
    /\ turn'[s] \in {turn[s], NoTurn}
    /\ file' # NoState /\ file' # file
       => \/ file'.turn \in {NoTurn, turn[s]}
          \/ /\ file # NoState
             /\ file'.turn = file.turn /\ file'.skill = file.skill

LEMMA OthersWitnessed ==
    ASSUME IInv, NEW s \in Session, Local(s),
           NEW r \in Session \ {s}, ~past'[r].dark
    PROVE  Witnessed(r)'
<1>1. past'[r] = past[r] /\ turn'[r] = turn[r]
  BY DEF Local
<1>2. Witnessed(r)
  BY <1>1 DEF IInv, Honest
<1>3. turn[r] # NoTurn /\ turn[r] # turn[s] /\ turn[r] \in Turn
  BY <1>2, TypeFacts DEF IInv, OwnTurns, Witnessed
<1>4. ledger'[turn[r]] = ledger[turn[r]]
  BY <1>3 DEF Local, Others
<1>5. file' # NoState /\ file'.turn = turn[r]
      => file # NoState /\ file.turn = turn[r] /\ file'.skill = file.skill
  BY <1>3 DEF Local
<1> QED
  BY <1>1, <1>2, <1>4, <1>5 DEF Witnessed

LEMMA TurnsStayOwn ==
    ASSUME IInv, NEW s \in Session, Local(s)
    PROVE  OwnTurns'
<1>1. ASSUME NEW q \in Session, NEW r \in Session, q # r, turn'[q] # NoTurn
      PROVE  turn'[q] # turn'[r]
  <2>1. turn'[q] = turn[q] /\ turn'[r] \in {turn[r], NoTurn}
    BY <1>1 DEF Local
  <2> QED
    BY <1>1, <2>1 DEF IInv, OwnTurns
<1>2. ASSUME NEW t \in Turn, t > lastTurn'
      PROVE  ledger'[t] = EmptyTurn
  <2>1. lastTurn' = lastTurn
    BY DEF Local
  <2>2. t # turn[s]
    BY <1>2, <2>1, TypeFacts DEF IInv, Turn
  <2>3. ledger'[t] = ledger[t]
    BY <2>2 DEF Local, Others
  <2> QED
    BY <1>2, <2>1, <2>3 DEF IInv, OwnTurns
<1> QED
  BY <1>1, <1>2 DEF OwnTurns

\* What a step of one session has to show.
LEMMA LocalKeeps ==
    ASSUME IInv, NEW s \in Session, Local(s), TypeOK', Holds(s)',
           ~past'[s].dark => Witnessed(s)'
    PROVE  IInv'
<1>1. HookOK'
  BY DEF IInv, HookOK, Holds, Local
<1>2. Honest'
  BY OthersWitnessed DEF Honest
<1> QED
  BY <1>1, <1>2, TurnsStayOwn DEF IInv

\* A turn record whose snapshot is still of the same skill and marked as before.
Kept(new, old) ==
    /\ new.state # NoState <=> old.state # NoState
    /\ old.state # NoState => /\ new.state.skill = old.state.skill
                              /\ new.state.firstTool = old.state.firstTool
    /\ new.loads = old.loads
    /\ new.passed = old.passed

\* The acting session keeps its turn: what is left to show of its record.
LEMMA OwnWitnessed ==
    ASSUME IInv, NEW s \in Session, turn'[s] = turn[s],
           past[s].dark => past'[s].dark, ~past'[s].dark,
           past[s].own \subseteq past'[s].own,
           past'[s].tried = past[s].tried,
           past'[s].ran = past[s].ran,
           turn[s] # NoTurn => Kept(ledger'[turn[s]], ledger[turn[s]]),
           file' # NoState /\ file'.turn = turn[s]
           => \/ file'.skill = NoSkill
              \/ file # NoState /\ file.turn = turn[s] /\ file'.skill = file.skill
              \/ /\ ledger[turn[s]].state # NoState
                 /\ file'.skill = ledger[turn[s]].state.skill
    PROVE  Witnessed(s)'
<1>1. Witnessed(s)
  BY DEF IInv, Honest
<1> QED
  BY <1>1 DEF Witnessed, Kept

-----------------------------------------------------------------------------
LEMMA InitInvariant == Init => IInv
<1> SUFFICES ASSUME Init PROVE IInv
  OBVIOUS
<1>1. TypeOK
  <2>1. NoPrompt \in Prompt /\ NoCalls \in Transcript
    BY DEF NoPrompt, Prompt, NoCalls, Transcript
  <2>2. Fresh(TRUE) \in Past
    BY DEF Fresh, Past
  <2>3. PastOK
    BY <2>2 DEF Init, PastOK
  <2>4. /\ ledger \in [Turn -> TurnRecord]
        /\ call \in [Session -> Call \cup {NoCall}]
        /\ file \in MaybeState /\ mem \in [Session -> MaybeState]
    BY EmptyTurnType DEF Init, MaybeState
  <2>5. /\ lastTurn \in 0 .. MaxTurns /\ turn \in [Session -> 0 .. lastTurn]
        /\ calls \in 0 .. MaxCalls /\ faults \in 0 .. MaxFaults
    BY StateAssumption, SessionAssumption DEF Init, NoTurn
  <2>6. prompt \in [Session -> Prompt] /\ seen \in [Session -> Transcript]
    BY <2>1 DEF Init
  <2>7. {file} \ {NoState} = {}
    BY DEF Init
  <2> QED
    BY <2>3, <2>4, <2>5, <2>6, <2>7 DEF TypeOK
<1>2. HookOK
  BY DEF Init, HookOK, Holds
<1>3. OwnTurns
  BY DEF Init, OwnTurns
<1>4. Honest
  BY DEF Init, Honest, Fresh
<1> QED
  BY <1>1, <1>2, <1>3, <1>4 DEF IInv

(***************************************************************************)
(* Each action keeps the invariant.                                        *)
(***************************************************************************)
LEMMA FilePlacedTyped ==
    ASSUME file' \in MaybeState, FilePlaced'
    PROVE  \A st \in {file'} \ {NoState} :
              /\ st.turn <= lastTurn'
              /\ st.turn = NoTurn => ~st.firstTool /\ ~st.firstCommand /\ st.used = {}
BY DEF FilePlaced, Placed

LEMMA FilePlacedStays ==
    ASSUME TypeOK, UNCHANGED file, lastTurn' \in Nat, lastTurn <= lastTurn'
    PROVE  file' \in MaybeState /\ FilePlaced'
<1>1. FilePlaced /\ lastTurn \in Nat /\ file \in MaybeState
  BY StateAssumption DEF TypeOK, FilePlaced, Placed, MaybeState
<1>2. CASE file = NoState
  BY <1>1, <1>2 DEF FilePlaced
<1>3. CASE file # NoState
  <2>1. file.turn \in Nat
    BY <1>1, <1>3, StateAssumption DEF MaybeState, State
  <2> QED
    BY <1>1, <1>3, <2>1 DEF FilePlaced, Placed
<1> QED
  BY <1>2, <1>3

LEMMA FaultCounted ==
    ASSUME TypeOK, NEW ok \in BOOLEAN, Works(ok)
    PROVE  faults' \in 0 .. MaxFaults
BY SessionAssumption DEF TypeOK, Works

LEMMA CallCounted ==
    ASSUME TypeOK, Counted
    PROVE  calls' \in 0 .. MaxCalls
BY SessionAssumption DEF TypeOK, Counted

\* How a step changes the history of its session.
Darkening(s, dark) == past' = [past EXCEPT ![s].dark = @ \/ dark]

LEMMA PastDarkened ==
    ASSUME TypeOK, NEW s \in Session, NEW dark \in BOOLEAN, Darkening(s, dark)
    PROVE  /\ past' \in [Session -> Past]
           /\ \A r \in Session \ {s} : past'[r] = past[r]
           /\ past'[s].own = past[s].own
           /\ past'[s].tried = past[s].tried
           /\ past'[s].ran = past[s].ran
           /\ past'[s].dark = (past[s].dark \/ dark)
<1> DEFINE d == past[s].dark \/ dark
           new == [past[s] EXCEPT !.dark = d]
<1>1. past \in [Session -> Past] /\ past[s] \in Past
  BY DEF TypeOK, PastOK
<1>2. d \in BOOLEAN
  OBVIOUS
<1>3. past' = [past EXCEPT ![s] = new]
  BY <1>1 DEF Darkening
<1> HIDE DEF d
<1>4. /\ new \in Past
      /\ new.own = past[s].own /\ new.tried = past[s].tried
      /\ new.ran = past[s].ran /\ new.dark = d
  BY <1>1, <1>2 DEF Past
<1> HIDE DEF new
<1>5. /\ past' \in [Session -> Past] /\ past'[s] = new
      /\ \A r \in Session \ {s} : past'[r] = past[r]
  BY <1>1, <1>3, <1>4
<1> QED
  BY <1>4, <1>5 DEF d

Calling(s, tool, runs, dark) ==
    past' = [past EXCEPT ![s].tried = @ \cup {tool},
                         ![s].ran = @ \/ runs, ![s].dark = @ \/ dark]

LEMMA PastCalled ==
    ASSUME TypeOK, NEW s \in Session, NEW tool \in Tool,
           NEW runs \in BOOLEAN, NEW dark \in BOOLEAN, Calling(s, tool, runs, dark)
    PROVE  /\ past' \in [Session -> Past]
           /\ \A r \in Session \ {s} : past'[r] = past[r]
           /\ past'[s].own = past[s].own
           /\ past'[s].tried = past[s].tried \cup {tool}
           /\ past'[s].ran = (past[s].ran \/ runs)
           /\ past'[s].dark = (past[s].dark \/ dark)
<1> DEFINE r == past[s].ran \/ runs
           d == past[s].dark \/ dark
           new == [past[s] EXCEPT !.tried = @ \cup {tool}, !.ran = r, !.dark = d]
<1>1. past \in [Session -> Past] /\ past[s] \in Past
  BY DEF TypeOK, PastOK
<1>2. r \in BOOLEAN /\ d \in BOOLEAN
  OBVIOUS
<1>3. past' = [past EXCEPT ![s] = new]
  BY <1>1 DEF Calling
<1> HIDE DEF r, d
<1>4. /\ new \in Past
      /\ new.own = past[s].own /\ new.tried = past[s].tried \cup {tool}
      /\ new.ran = r /\ new.dark = d
  BY <1>1, <1>2 DEF Past
<1> HIDE DEF new
<1>5. /\ past' \in [Session -> Past] /\ past'[s] = new
      /\ \A q \in Session \ {s} : past'[q] = past[q]
  BY <1>1, <1>3, <1>4
<1> QED
  BY <1>4, <1>5 DEF r, d

Loading(s, k, dark) ==
    past' = [past EXCEPT ![s].own = @ \cup {k}, ![s].tried = {},
                         ![s].dark = @ \/ dark]

LEMMA PastLoaded ==
    ASSUME TypeOK, NEW s \in Session, NEW k \in Skill, NEW dark \in BOOLEAN,
           Loading(s, k, dark)
    PROVE  /\ past' \in [Session -> Past]
           /\ \A r \in Session \ {s} : past'[r] = past[r]
           /\ past'[s].own = past[s].own \cup {k}
           /\ past'[s].ran = past[s].ran
           /\ past'[s].dark = (past[s].dark \/ dark)
<1> DEFINE d == past[s].dark \/ dark
           new == [past[s] EXCEPT !.own = @ \cup {k}, !.tried = {}, !.dark = d]
<1>1. past \in [Session -> Past] /\ past[s] \in Past
  BY DEF TypeOK, PastOK
<1>2. d \in BOOLEAN
  OBVIOUS
<1>3. past' = [past EXCEPT ![s] = new]
  BY <1>1 DEF Loading
<1> HIDE DEF d
<1>4. /\ new \in Past
      /\ new.own = past[s].own \cup {k} /\ new.ran = past[s].ran /\ new.dark = d
  BY <1>1, <1>2 DEF Past
<1> HIDE DEF new
<1>5. /\ past' \in [Session -> Past] /\ past'[s] = new
      /\ \A q \in Session \ {s} : past'[q] = past[q]
  BY <1>1, <1>3, <1>4
<1> QED
  BY <1>4, <1>5 DEF d

LEMMA GivePromptKeeps ==
    ASSUME IInv, NEW s \in Session, NEW p \in Prompts, GivePrompt(s, p)
    PROVE  IInv'
<1> USE DEF GivePrompt
<1>1. TypeOK
  BY DEF IInv
<1>2. /\ prompt' \in [Session -> Prompt] /\ seen' \in [Session -> Transcript]
      /\ pc' \in [Session -> {"waiting", "working", "ran", "writing", "stopping"}]
  <2>1. p \in Prompt /\ NoCalls \in Transcript
    BY SessionAssumption DEF NoCalls, Transcript
  <2> QED
    BY <1>1, <2>1 DEF TypeOK, PastOK
<1>3. HookOK'
  BY <1>1 DEF IInv, HookOK, Holds, TypeOK, PastOK
<1>4. CASE turn[s] # NoTurn
  <2>1. TypeOK'
    BY <1>1, <1>2, <1>4 DEF TypeOK, PastOK
  <2>2. OwnTurns'
    BY <1>4 DEF IInv, OwnTurns
  <2>3. Honest'
    BY <1>4 DEF IInv, Honest, Witnessed
  <2> QED
    BY <1>3, <2>1, <2>2, <2>3 DEF IInv
<1>5. CASE turn[s] = NoTurn
  <2>1. PICK ok \in BOOLEAN :
           /\ Works(ok)
           /\ lastTurn' = IF ok THEN lastTurn + 1 ELSE lastTurn
           /\ turn' = [turn EXCEPT ![s] = IF ok THEN lastTurn' ELSE NoTurn]
           /\ past' = [past EXCEPT ![s] = Fresh(~ok)]
    BY <1>5
  <2>2. /\ lastTurn \in Nat /\ lastTurn' \in 0 .. MaxTurns /\ lastTurn <= lastTurn'
        /\ turn \in [Session -> 0 .. lastTurn]
    BY <1>1, <1>5, <2>1, StateAssumption DEF TypeOK
  <2>3. turn' \in [Session -> 0 .. lastTurn']
    BY <2>1, <2>2 DEF NoTurn
  <2>4. past' \in [Session -> Past]
    <3>1. Fresh(~ok) \in Past
      BY DEF Fresh, Past
    <3> QED
      BY <1>1, <2>1, <3>1 DEF TypeOK, PastOK
  <2>5. TypeOK'
    <3>1. file' \in MaybeState /\ FilePlaced'
      BY <1>1, <2>2, FilePlacedStays
    <3>2. faults' \in 0 .. MaxFaults
      BY <1>1, <2>1, FaultCounted
    <3> QED
      BY <1>1, <1>2, <2>2, <2>3, <2>4, <3>1, <3>2, FilePlacedTyped
      DEF TypeOK, PastOK
  <2>6. OwnTurns'
    <3>1. ASSUME NEW q \in Session, NEW r \in Session, q # r, turn'[q] # NoTurn
          PROVE  turn'[q] # turn'[r]
      <4>1. \A x \in Session \ {s} : turn'[x] = turn[x] /\ turn[x] <= lastTurn
        BY <2>1, <2>2
      <4>2. turn'[s] \in {NoTurn, lastTurn + 1} /\ turn[s] = NoTurn
        BY <1>5, <2>1, <2>2
      <4> QED
        BY <3>1, <4>1, <4>2, <2>2 DEF IInv, OwnTurns, NoTurn
    <3>2. ASSUME NEW t \in Turn, t > lastTurn'
          PROVE  ledger'[t] = EmptyTurn
      BY <3>2, <2>2 DEF IInv, OwnTurns, Turn
    <3> QED
      BY <3>1, <3>2 DEF OwnTurns
  <2>7. Honest'
    <3> SUFFICES ASSUME NEW r \in Session, ~past'[r].dark
                 PROVE  Witnessed(r)'
      BY DEF Honest
    <3>1. CASE r # s
      <4>1. past'[r] = past[r] /\ turn'[r] = turn[r]
        BY <2>1, <2>2, <3>1
      <4> QED
        BY <4>1 DEF IInv, Honest, Witnessed
    <3>2. CASE r = s
      <4>1. ok /\ past'[s] = Fresh(FALSE)
        BY <1>1, <2>1, <3>2 DEF TypeOK, PastOK, Fresh
      <4>2. turn'[s] = lastTurn + 1 /\ lastTurn + 1 \in Turn
        BY <2>1, <2>2, <4>1, StateAssumption DEF Turn
      <4>3. ledger'[turn'[s]] = EmptyTurn
        BY <2>2, <4>2 DEF IInv, OwnTurns
      <4>4. ~(file' # NoState /\ file'.turn = turn'[s])
        BY <1>1, <2>2, <4>2, TypeFacts DEF FilePlaced, Placed, State
      <4> QED
        BY <2>2, <3>2, <4>1, <4>2, <4>3, <4>4
        DEF Witnessed, EmptyTurn, Fresh, NoTurn
    <3> QED
      BY <3>1, <3>2
  <2> QED
    BY <1>3, <2>5, <2>6, <2>7 DEF IInv
<1> QED
  BY <1>4, <1>5

LEMMA ReadPendingType ==
    ASSUME TypeOK, NEW s \in Session, NEW up \in BOOLEAN
    PROVE  /\ ReadPending(turn[s], up) \in MaybeState
           /\ turn[s] # NoTurn /\ up /\ ledger[turn[s]].state # NoState
              => ReadPending(turn[s], up) = ledger[turn[s]].state
<1>1. turn[s] # NoTurn => ledger[turn[s]].state \in MaybeState
  BY TypeFacts, RecordFields DEF TypeOK
<1>2. file \in MaybeState
  BY DEF TypeOK
<1> QED
  BY <1>1, <1>2 DEF ReadPending, MaybeState

\* The router's events replace three fields of one turn's record.
Answered(l, t, st, passed) ==
    [l EXCEPT ![t].state = st, ![t].invoked = TRUE, ![t].passed = passed]

LEMMA RecordAnswered ==
    ASSUME NEW l \in [Turn -> TurnRecord], NEW t \in Turn,
           NEW st \in MaybeState, NEW passed \in BOOLEAN
    PROVE  LET new == Answered(l, t, st, passed)
           IN /\ new \in [Turn -> TurnRecord]
              /\ \A u \in Turn \ {t} : new[u] = l[u]
              /\ new[t].state = st
              /\ new[t].loads = l[t].loads
              /\ new[t].passed = passed
<1> DEFINE e == [l[t] EXCEPT !.state = st, !.invoked = TRUE, !.passed = passed]
<1>1. l[t] \in TurnRecord
  OBVIOUS
<1>2. Answered(l, t, st, passed) = [l EXCEPT ![t] = e]
  BY DEF Answered
<1>3. /\ e \in TurnRecord
      /\ e.state = st /\ e.loads = l[t].loads /\ e.passed = passed
  BY <1>1 DEF TurnRecord
<1> HIDE DEF e
<1> QED
  BY <1>2, <1>3, LedgerAt

\* The marks that an answer leaves in the snapshot of the turn.
LEMMA AnswerMarks ==
    ASSUME TypeOK, NEW s \in Session, NEW c \in Call, NEW told \in BOOLEAN,
           turn[s] # NoTurn, ledger[turn[s]].state # NoState
    PROVE  LET st == ledger[turn[s]].state
               a == Says(s, c, told, TRUE)
               new == WithMarks(st, a.tool, a.command)
           IN /\ new \in State
              /\ new.skill = st.skill
              /\ new.firstTool => st.firstTool \/ c.tool \in Profile[st.skill].first
<1> DEFINE st == ledger[turn[s]].state
           a == Says(s, c, told, TRUE)
<1>1. st \in State
  BY TypeFacts, RecordFields DEF TypeOK, MaybeState
<1>2. ReadPending(turn[s], TRUE) = st
  BY ReadPendingType
<1>3. /\ a.tool \in BOOLEAN /\ a.command \in BOOLEAN
      /\ a.tool => c.tool \in Profile[st.skill].first
  BY <1>1, <1>2, GateAnswerMarks DEF Says, MaybeState
<1>4. /\ WithMarks(st, a.tool, a.command) \in State
      /\ WithMarks(st, a.tool, a.command).skill = st.skill
      /\ WithMarks(st, a.tool, a.command).firstTool = (st.firstTool \/ a.tool)
  <2> DEFINE tool == a.tool
             command == a.command
  <2>1. tool \in BOOLEAN /\ command \in BOOLEAN
    BY <1>3
  <2> HIDE DEF st, tool, command
  <2>2. /\ WithMarks(st, tool, command) \in State
        /\ WithMarks(st, tool, command).skill = st.skill
        /\ WithMarks(st, tool, command).firstTool = (st.firstTool \/ tool)
    BY <1>1, <2>1, StateMarked
  <2> QED
    BY <2>2 DEF tool, command
<1> HIDE DEF st, a
<1> QED
  BY <1>3, <1>4 DEF st, a

\* What the answer to a call does to the ledger.
LEMMA BeforeToolLedger ==
    ASSUME TypeOK, NEW s \in Session, NEW c \in Call, NEW told \in BOOLEAN,
           BeforeTool(s, c, told, TRUE), turn[s] # NoTurn
    PROVE  /\ Others(turn[s])
           /\ LET e == ledger[turn[s]]
                  new == ledger'[turn[s]]
              IN /\ new.state # NoState <=> e.state # NoState
                 /\ e.state # NoState
                    => /\ new.state.skill = e.state.skill
                       /\ new.state.firstTool
                          => e.state.firstTool \/ c.tool \in Profile[e.state.skill].first
                 /\ new.loads = e.loads
                 /\ new.passed = (e.passed \/ Says(s, c, told, TRUE).is = "allow")
<1> DEFINE t == turn[s]
           e == ledger[t]
           a == Says(s, c, told, TRUE)
           st == IF e.state = NoState THEN e.state
                 ELSE WithMarks(e.state, a.tool, a.command)
           passed == e.passed \/ a.is = "allow"
<1>1. ledger \in [Turn -> TurnRecord] /\ t \in Turn /\ e \in TurnRecord
  BY TypeFacts DEF TypeOK
<1>2. ledger' = Answered(ledger, t, st, passed)
  BY DEF BeforeTool, WithMarks, Answered
<1>3. st \in MaybeState /\ passed \in BOOLEAN
  BY <1>1, RecordFields, AnswerMarks DEF MaybeState
<1>4. /\ st # NoState <=> e.state # NoState
      /\ e.state # NoState
         => /\ st.skill = e.state.skill
            /\ st.firstTool
               => e.state.firstTool \/ c.tool \in Profile[e.state.skill].first
  BY AnswerMarks, StateAssumption
<1> HIDE DEF t, e, st, passed
<1>5. /\ Others(t) /\ ledger'[t].state = st
      /\ ledger'[t].loads = e.loads /\ ledger'[t].passed = passed
  BY <1>1, <1>2, <1>3, RecordAnswered DEF Others, e
<1> QED
  BY <1>4, <1>5 DEF t, e, passed

LEMMA BeforeToolKeeps ==
    ASSUME IInv, NEW s \in Session, NEW c \in Calls, NEW told \in BOOLEAN,
           NEW up \in BOOLEAN, BeforeTool(s, c, told, up)
    PROVE  IInv'
<1> DEFINE a == Says(s, c, told, up)
           runs == a.is = "allow"
           dark == ~up
<1>1. TypeOK /\ c \in Call
  BY SessionAssumption DEF IInv
<1>2. c.tool \in Tool
  BY <1>1 DEF Call
<1>3. runs \in BOOLEAN /\ dark \in BOOLEAN
  OBVIOUS
<1>4. Calling(s, c.tool, runs, dark)
  BY DEF BeforeTool, Calling
<1>5. /\ past' \in [Session -> Past]
      /\ \A r \in Session \ {s} : past'[r] = past[r]
      /\ past'[s].own = past[s].own
      /\ past'[s].tried = past[s].tried \cup {c.tool}
      /\ past'[s].ran = (past[s].ran \/ runs)
      /\ past'[s].dark = (past[s].dark \/ dark)
  <2> HIDE DEF runs, dark
  <2> QED
    BY <1>1, <1>2, <1>3, <1>4, PastCalled
<1>6. ledger' \in [Turn -> TurnRecord]
  <2>1. CASE up /\ turn[s] # NoTurn
    BY <1>1, <2>1, BeforeToolLedger DEF Others
  <2>2. CASE ~(up /\ turn[s] # NoTurn)
    BY <1>1, <2>2 DEF BeforeTool, TypeOK
  <2> QED
    BY <2>1, <2>2
<1>7. TypeOK'
  <2>1. file' \in MaybeState /\ FilePlaced'
    BY <1>1, FilePlacedStays, StateAssumption DEF BeforeTool, TypeOK
  <2>2. faults' \in 0 .. MaxFaults /\ calls' \in 0 .. MaxCalls
    BY <1>1, FaultCounted, CallCounted DEF BeforeTool
  <2>3. seen' \in [Session -> Transcript]
    BY <1>1, WithCallType DEF BeforeTool, TypeOK
  <2>4. /\ call' \in [Session -> Call \cup {NoCall}]
        /\ pc' \in [Session -> {"waiting", "working", "ran", "writing", "stopping"}]
    BY <1>1 DEF BeforeTool, TypeOK, PastOK
  <2> QED
    BY <1>1, <1>5, <1>6, <2>1, <2>2, <2>3, <2>4, FilePlacedTyped
    DEF BeforeTool, TypeOK, PastOK
<1>8. Local(s)
  <2>1. turn[s] # NoTurn => Others(turn[s])
    <3>1. CASE up
      BY <1>1, <3>1, BeforeToolLedger
    <3>2. CASE ~up
      BY <1>6, <3>2 DEF BeforeTool, Others
    <3> QED
      BY <3>1, <3>2
  <2>2. turn[s] = NoTurn => UNCHANGED ledger
    BY DEF BeforeTool
  <2> QED
    BY <1>1, <1>5, <2>1, <2>2 DEF BeforeTool, Local, TypeOK, PastOK
<1>9. Holds(s)'
  BY <1>1 DEF BeforeTool, Holds, TypeOK, PastOK
<1>10. ASSUME ~past'[s].dark PROVE Witnessed(s)'
  <2>1. up /\ ~past[s].dark
    BY <1>5, <1>10
  <2>2. Witnessed(s)
    BY <2>1 DEF IInv, Honest
  <2>3. turn[s] # NoTurn /\ turn'[s] = turn[s] /\ file' = file
    BY <2>2 DEF Witnessed, BeforeTool
  <2>4. LET e == ledger[turn[s]]
            new == ledger'[turn[s]]
        IN /\ new.state # NoState <=> e.state # NoState
           /\ e.state # NoState
              => /\ new.state.skill = e.state.skill
                 /\ new.state.firstTool
                    => e.state.firstTool \/ c.tool \in Profile[e.state.skill].first
           /\ new.loads = e.loads
           /\ new.passed = (e.passed \/ runs)
    BY <1>1, <2>1, <2>3, BeforeToolLedger
  <2> HIDE DEF runs
  <2> QED
    BY <1>5, <2>2, <2>3, <2>4 DEF Witnessed
<1> QED
  BY <1>7, <1>8, <1>9, <1>10, LocalKeeps

\* What AfterTool leaves alone whichever of its cases it takes.
LEMMA AfterToolTypes ==
    ASSUME TypeOK, NEW s \in Session, AfterTool(s)
    PROVE  /\ file' \in MaybeState /\ FilePlaced'
           /\ call' \in [Session -> Call \cup {NoCall}]
           /\ lastTurn' \in 0 .. MaxTurns /\ turn' \in [Session -> 0 .. lastTurn']
           /\ prompt' \in [Session -> Prompt] /\ seen' \in [Session -> Transcript]
           /\ calls' \in 0 .. MaxCalls
           /\ \A r \in Session \ {s} : call'[r] = call[r] /\ turn'[r] = turn[r]
           /\ turn'[s] = turn[s]
<1>1. file' \in MaybeState /\ FilePlaced'
  BY FilePlacedStays, StateAssumption DEF AfterTool, TypeOK
<1> QED
  BY <1>1 DEF AfterTool, TypeOK

LEMMA UntrackedKeeps ==
    ASSUME IInv, NEW s \in Session, AfterTool(s), Untracked(s)
    PROVE  IInv'
<1> DEFINE loaded == {call[s].named} \ {NoSkill}
           new == [past[s] EXCEPT !.own = @ \cup loaded]
<1>1. TypeOK /\ call[s] \in Call
  BY DEF IInv, HookOK, Holds, AfterTool
<1>2. past \in [Session -> Past] /\ past[s] \in Past /\ loaded \subseteq Skill
  BY <1>1 DEF TypeOK, PastOK, Call
<1>3. past' = [past EXCEPT ![s] = new]
  BY <1>2 DEF Untracked
<1> HIDE DEF loaded
<1>4. /\ new \in Past
      /\ new.own = past[s].own \cup loaded /\ new.tried = past[s].tried
      /\ new.ran = past[s].ran /\ new.dark = past[s].dark
  BY <1>2 DEF Past
<1> HIDE DEF new
<1>5. /\ past' \in [Session -> Past] /\ past'[s] = new
      /\ \A r \in Session \ {s} : past'[r] = past[r]
  BY <1>2, <1>3, <1>4
<1>6. /\ pc' = [pc EXCEPT ![s] = "working"] /\ pc'[s] = "working"
      /\ pc' \in [Session -> {"waiting", "working", "ran", "writing", "stopping"}]
      /\ UNCHANGED <<ledger, mem, faults, file, lastTurn, turn>>
  BY <1>1 DEF Untracked, AfterTool, TypeOK, PastOK
<1>7. TypeOK'
  BY <1>1, <1>5, <1>6, AfterToolTypes, FilePlacedTyped DEF TypeOK, PastOK
<1>8. Local(s)
  BY <1>1, <1>5, <1>6, AfterToolTypes DEF Local, Others, TypeOK, PastOK
<1>9. Holds(s)'
  BY <1>6 DEF Holds
<1>10. ASSUME ~past'[s].dark PROVE Witnessed(s)'
  BY <1>4, <1>5, <1>6, <1>10 DEF IInv, Honest, Witnessed
<1> QED
  BY <1>7, <1>8, <1>9, <1>10, LocalKeeps

LEMMA RecordToolKeeps ==
    ASSUME IInv, NEW s \in Session, NEW up \in BOOLEAN, AfterTool(s), RecordTool(s, up)
    PROVE  IInv'
<1> DEFINE dark == ~up
           match == "pattern" \in call[s].matches
<1>1. TypeOK /\ call[s] \in Call /\ call[s].tool \in Tool
  BY DEF IInv, HookOK, Holds, AfterTool, Call
<1>2. dark \in BOOLEAN /\ match \in BOOLEAN /\ Darkening(s, dark)
  BY DEF RecordTool, Darkening
<1>3. /\ past' \in [Session -> Past]
      /\ \A r \in Session \ {s} : past'[r] = past[r]
      /\ past'[s].own = past[s].own
      /\ past'[s].tried = past[s].tried
      /\ past'[s].ran = past[s].ran
      /\ past'[s].dark = (past[s].dark \/ dark)
  <2> HIDE DEF dark
  <2> QED
    BY <1>1, <1>2, PastDarkened
<1>4. /\ pc' = [pc EXCEPT ![s] = "working"] /\ pc'[s] = "working"
      /\ pc' \in [Session -> {"waiting", "working", "ran", "writing", "stopping"}]
      /\ UNCHANGED <<mem, file, lastTurn, turn>>
  BY <1>1 DEF RecordTool, AfterTool, TypeOK, PastOK
<1>5. /\ ledger' \in [Turn -> TurnRecord]
      /\ turn[s] = NoTurn => UNCHANGED ledger
      /\ turn[s] # NoTurn => /\ Others(turn[s])
                             /\ Kept(ledger'[turn[s]], ledger[turn[s]])
  <2>1. CASE turn[s] = NoTurn \/ ~up
    BY <1>1, <2>1 DEF RecordTool, TypeOK, Others, Kept
  <2>2. CASE ~(turn[s] = NoTurn \/ ~up)
    <3>1. LedgerTool(turn[s], call[s].tool, match)
      BY <2>2 DEF RecordTool
    <3>2. turn[s] \in Turn /\ ledger \in [Turn -> TurnRecord]
      BY <1>1, <2>2, TypeFacts DEF TypeOK
    <3> HIDE DEF match
    <3> QED
      BY <1>1, <1>2, <2>2, <3>1, <3>2, LedgerToolKeeps DEF Kept, Others
  <2> QED
    BY <2>1, <2>2
<1>6. faults' \in 0 .. MaxFaults
  BY <1>1, FaultCounted DEF RecordTool
<1>7. TypeOK'
  BY <1>1, <1>3, <1>4, <1>5, <1>6, AfterToolTypes, FilePlacedTyped DEF TypeOK, PastOK
<1>8. Local(s)
  BY <1>1, <1>3, <1>4, <1>5, AfterToolTypes DEF Local, TypeOK, PastOK
<1>9. Holds(s)'
  BY <1>4 DEF Holds
<1>10. ASSUME ~past'[s].dark PROVE Witnessed(s)'
  BY <1>3, <1>4, <1>5, <1>10, OwnWitnessed
<1> QED
  BY <1>7, <1>8, <1>9, <1>10, LocalKeeps

LEMMA RecordLoadKeeps ==
    ASSUME IInv, NEW s \in Session, NEW up \in BOOLEAN, AfterTool(s), RecordLoad(s, up)
    PROVE  IInv'
<1> DEFINE dark == ~up
           k == call[s].named
<1>1. TypeOK /\ k \in Skill
  BY DEF IInv, HookOK, Holds, AfterTool, Call, RecordLoad
<1>2. dark \in BOOLEAN /\ Loading(s, k, dark)
  BY DEF RecordLoad, Loading
<1>3. /\ past' \in [Session -> Past]
      /\ \A r \in Session \ {s} : past'[r] = past[r]
      /\ past'[s].own = past[s].own \cup {k}
      /\ past'[s].ran = past[s].ran
      /\ past'[s].dark = (past[s].dark \/ dark)
  <2> HIDE DEF dark, k
  <2> QED
    BY <1>1, <1>2, PastLoaded
<1>4. /\ Loaded(k) \in MaybeState /\ Loaded(k) # NoState /\ Loaded(k).skill = k /\ ~Loaded(k).firstTool
  BY <1>1, LoadedType, StateAssumption DEF MaybeState
<1>5. /\ pc' = [pc EXCEPT ![s] = "writing"] /\ mem' = [mem EXCEPT ![s] = Loaded(k)]
      /\ pc' \in [Session -> {"waiting", "working", "ran", "writing", "stopping"}]
      /\ mem' \in [Session -> MaybeState]
      /\ pc'[s] = "writing" /\ mem'[s] = Loaded(k)
      /\ \A r \in Session \ {s} : pc'[r] = pc[r] /\ mem'[r] = mem[r]
      /\ UNCHANGED <<file, lastTurn, turn>>
  BY <1>1, <1>4 DEF RecordLoad, AfterTool, TypeOK, PastOK
<1>6. /\ ledger' \in [Turn -> TurnRecord]
      /\ turn[s] = NoTurn => UNCHANGED ledger
      /\ turn[s] # NoTurn
         => /\ Others(turn[s])
            /\ up => /\ ledger'[turn[s]].state = Loaded(k)
                     /\ ledger'[turn[s]].loads = ledger[turn[s]].loads \cup {k}
                     /\ ledger'[turn[s]].passed = ledger[turn[s]].passed
  <2>1. CASE turn[s] = NoTurn \/ ~up
    BY <1>1, <2>1 DEF RecordLoad, TypeOK, Others
  <2>2. CASE ~(turn[s] = NoTurn \/ ~up)
    <3>1. LedgerLoad(turn[s], k)
      BY <2>2 DEF RecordLoad
    <3>2. turn[s] \in Turn /\ ledger \in [Turn -> TurnRecord]
      BY <1>1, <2>2, TypeFacts DEF TypeOK
    <3> HIDE DEF k
    <3> QED
      BY <1>1, <2>2, <3>1, <3>2, LedgerLoadKeeps DEF Others
  <2> QED
    BY <2>1, <2>2
<1>7. faults' \in 0 .. MaxFaults
  BY <1>1, FaultCounted DEF RecordLoad
<1>8. TypeOK'
  BY <1>1, <1>3, <1>5, <1>6, <1>7, AfterToolTypes, FilePlacedTyped DEF TypeOK, PastOK
<1>9. Local(s)
  BY <1>1, <1>3, <1>5, <1>6, AfterToolTypes DEF Local
<1>10. Holds(s)'
  BY <1>1, <1>5 DEF Holds
<1>11. ASSUME ~past'[s].dark PROVE Witnessed(s)'
  <2>1. up /\ ~past[s].dark
    BY <1>3, <1>11
  <2>2. Witnessed(s)
    BY <2>1 DEF IInv, Honest
  <2> HIDE DEF k
  <2> QED
    BY <1>3, <1>4, <1>5, <1>6, <2>1, <2>2 DEF Witnessed
<1> QED
  BY <1>8, <1>9, <1>10, <1>11, LocalKeeps

LEMMA WriteFileKeeps ==
    ASSUME IInv, NEW s \in Session, WriteFile(s)
    PROVE  IInv'
<1>1. TypeOK
  BY DEF IInv
<1>2. PICK k \in Skill : mem[s] = Loaded(k)
  BY DEF IInv, HookOK, Holds, WriteFile
<1>3. PICK ok \in BOOLEAN : Works(ok) /\ file' = IF ok THEN mem[s] ELSE file
  BY DEF WriteFile
<1>4. /\ pc' = [pc EXCEPT ![s] = "working"] /\ mem' = [mem EXCEPT ![s] = NoState]
      /\ pc' \in [Session -> {"waiting", "working", "ran", "writing", "stopping"}]
      /\ mem' \in [Session -> MaybeState]
      /\ pc'[s] = "working"
      /\ \A r \in Session \ {s} : pc'[r] = pc[r] /\ mem'[r] = mem[r]
      /\ UNCHANGED <<ledger, lastTurn, turn, prompt, seen, call, past, calls>>
  BY <1>1 DEF WriteFile, TypeOK, PastOK, MaybeState
<1>5. file' \in MaybeState /\ FilePlaced' /\ (file' # file => file'.turn = NoTurn)
  <2>1. /\ Loaded(k) \in State /\ Placed(Loaded(k), lastTurn)
        /\ Loaded(k).turn = NoTurn
    BY <1>1, LoadedType, TypeFacts
  <2>2. file \in MaybeState /\ FilePlaced /\ lastTurn' = lastTurn
    BY <1>1, <1>4, TypeFacts DEF TypeOK
  <2> QED
    BY <1>2, <1>3, <2>1, <2>2 DEF FilePlaced, Placed, MaybeState
<1>6. faults' \in 0 .. MaxFaults
  BY <1>1, <1>3, FaultCounted
<1>7. TypeOK'
  BY <1>1, <1>4, <1>5, <1>6, FilePlacedTyped DEF TypeOK, PastOK
<1>8. Local(s)
  BY <1>1, <1>4, <1>5 DEF Local, Others, TypeOK
<1>9. Holds(s)'
  BY <1>4 DEF Holds
<1>10. ASSUME ~past'[s].dark PROVE Witnessed(s)'
  BY <1>4, <1>5, <1>10 DEF IInv, Honest, Witnessed
<1> QED
  BY <1>7, <1>8, <1>9, <1>10, LocalKeeps

LEMMA TransitionKeeps ==
    ASSUME IInv, NEW s \in Session, NEW to \in Phase, Transition(s, to)
    PROVE  IInv'
<1>1. TypeOK
  BY DEF IInv
<1>2. PICK up \in BOOLEAN, ok \in BOOLEAN :
         /\ Works(up /\ ok)
         /\ IF turn[s] # NoTurn /\ up THEN TransitionLedger(turn[s], to, ok)
            ELSE TransitionFile(turn[s], to) /\ ok
         /\ past' = [past EXCEPT ![s].dark = @ \/ ~up]
  BY DEF Transition
<1> DEFINE dark == ~up
           works == up /\ ok
<1>3. dark \in BOOLEAN /\ works \in BOOLEAN /\ Darkening(s, dark) /\ Works(works)
  BY <1>2 DEF Darkening
<1>4. /\ past' \in [Session -> Past]
      /\ \A r \in Session \ {s} : past'[r] = past[r]
      /\ past'[s].own = past[s].own
      /\ past'[s].tried = past[s].tried
      /\ past'[s].ran = past[s].ran
      /\ past'[s].dark = (past[s].dark \/ dark)
  <2> HIDE DEF dark
  <2> QED
    BY <1>1, <1>3, PastDarkened
<1>5. UNCHANGED <<lastTurn, turn, prompt, seen, pc, mem, call>>
  BY DEF Transition
<1>6. faults' \in 0 .. MaxFaults /\ calls' \in 0 .. MaxCalls
  <2> HIDE DEF works
  <2> QED
    BY <1>1, <1>3, FaultCounted, CallCounted DEF Transition
<1>7. ledger \in [Turn -> TurnRecord] /\ file \in MaybeState /\ FilePlaced
      /\ turn[s] \in 0 .. MaxTurns /\ (turn[s] # NoTurn => turn[s] \in Turn)
      /\ lastTurn \in Nat /\ turn[s] \in 0 .. lastTurn
  BY <1>1, TypeFacts DEF TypeOK
<1>8. /\ ledger' \in [Turn -> TurnRecord]
      /\ turn[s] = NoTurn => UNCHANGED ledger
      /\ turn[s] # NoTurn => /\ Others(turn[s])
                             /\ Kept(ledger'[turn[s]], ledger[turn[s]])
      /\ file' # file
         => /\ file' \in State
            /\ file'.turn # turn[s] => UNCHANGED lastTurn /\ turn[s] = NoTurn
            /\ \/ turn[s] # NoTurn /\ file'.turn = turn[s]
               \/ /\ file # NoState /\ Placed(file', lastTurn)
                  /\ file'.turn = file.turn /\ file'.skill = file.skill
            /\ turn[s] # NoTurn /\ up
               => \/ file'.skill = NoSkill
                  \/ /\ ledger[turn[s]].state # NoState
                     /\ file'.skill = ledger[turn[s]].state.skill
  <2>1. CASE turn[s] # NoTurn /\ up
    <3>1. TransitionLedger(turn[s], to, ok)
      BY <1>2, <2>1
    <3> QED
      BY <1>7, <2>1, <3>1, TransitionLedgerKeeps DEF Kept, Others
  <2>2. CASE ~(turn[s] # NoTurn /\ up)
    <3>1. TransitionFile(turn[s], to)
      BY <1>2, <2>2
    <3>2. /\ file # NoState
          /\ file' \in State
          /\ file'.skill = file.skill
          /\ file'.turn = IF turn[s] = NoTurn THEN file.turn ELSE turn[s]
          /\ file'.firstTool = file.firstTool
          /\ file'.firstCommand = file.firstCommand
          /\ file'.used = file.used
          /\ UNCHANGED ledger
      BY <1>7, <3>1, TransitionFileKeeps
    <3> QED
      BY <1>5, <1>7, <2>2, <3>2 DEF Kept, Others, FilePlaced, Placed
  <2> QED
    BY <2>1, <2>2
<1>9. file' \in MaybeState /\ FilePlaced'
  BY <1>5, <1>7, <1>8 DEF FilePlaced, Placed, MaybeState, NoTurn
<1>10. TypeOK'
  BY <1>1, <1>4, <1>5, <1>6, <1>8, <1>9, FilePlacedTyped DEF TypeOK, PastOK
<1>11. Local(s)
  BY <1>4, <1>5, <1>8 DEF Local
<1>12. Holds(s)'
  BY <1>1, <1>5 DEF Holds, IInv, HookOK
<1>13. ASSUME ~past'[s].dark PROVE Witnessed(s)'
  <2>1. up /\ ~past[s].dark
    BY <1>4, <1>13
  <2>2. Witnessed(s) /\ turn[s] # NoTurn
    BY <2>1 DEF IInv, Honest, Witnessed
  <2>3. file' # NoState /\ file'.turn = turn[s]
        => \/ file'.skill = NoSkill
           \/ file # NoState /\ file.turn = turn[s] /\ file'.skill = file.skill
           \/ /\ ledger[turn[s]].state # NoState
              /\ file'.skill = ledger[turn[s]].state.skill
    BY <1>8, <2>1, <2>2
  <2> QED
    BY <1>4, <1>5, <1>8, <1>13, <2>1, <2>3, OwnWitnessed
<1> QED
  BY <1>10, <1>11, <1>12, <1>13, LocalKeeps

LEMMA StopReadsKeeps ==
    ASSUME IInv, NEW s \in Session, StopReads(s)
    PROVE  IInv'
<1>1. TypeOK
  BY DEF IInv
<1>2. /\ UNCHANGED <<file, ledger, lastTurn, turn, prompt, seen, call, faults, past, calls>>
      /\ pc' \in [Session -> {"waiting", "working", "ran", "writing", "stopping"}]
      /\ mem' \in [Session -> MaybeState]
      /\ pc'[s] = "stopping"
      /\ \A r \in Session \ {s} : pc'[r] = pc[r] /\ mem'[r] = mem[r]
  BY <1>1 DEF StopReads, TypeOK, PastOK
<1>3. TypeOK'
  BY <1>1, <1>2 DEF TypeOK, PastOK
<1>4. Local(s)
  BY <1>1, <1>2 DEF Local, Others, TypeOK
<1>5. Holds(s)'
  BY <1>2 DEF Holds
<1>6. ASSUME ~past'[s].dark PROVE Witnessed(s)'
  BY <1>2, <1>6 DEF IInv, Honest, Witnessed
<1> QED
  BY <1>3, <1>4, <1>5, <1>6, LocalKeeps

LEMMA StopAnswersKeeps ==
    ASSUME IInv, NEW s \in Session, NEW view \in {"whole", "lost", "unread"},
           NEW up \in BOOLEAN, NEW old \in BOOLEAN, StopAnswers(s, view, up, old)
    PROVE  IInv'
<1> DEFINE over == StopSays(s, view, up, old) = "allow"
           dark == ~up
           works == up /\ view = "whole"
<1>1. TypeOK
  BY DEF IInv
<1>2. /\ pc' \in [Session -> {"waiting", "working", "ran", "writing", "stopping"}]
      /\ prompt' \in [Session -> Prompt] /\ seen' \in [Session -> Transcript]
      /\ mem' \in [Session -> MaybeState]
      /\ pc'[s] \in {"waiting", "working"}
      /\ \A r \in Session \ {s} : pc'[r] = pc[r] /\ mem'[r] = mem[r]
      /\ UNCHANGED <<ledger, lastTurn, call, calls>>
  <2>1. NoPrompt \in Prompt /\ NoCalls \in Transcript
    BY DEF NoPrompt, Prompt, NoCalls, Transcript
  <2> HIDE DEF over
  <2>2. /\ pc' = [pc EXCEPT ![s] = IF over THEN "waiting" ELSE "working"]
        /\ prompt' = [prompt EXCEPT ![s] = IF over THEN NoPrompt ELSE @]
        /\ seen' = [seen EXCEPT ![s] = IF over THEN NoCalls ELSE @]
        /\ mem' = [mem EXCEPT ![s] = NoState]
        /\ UNCHANGED <<ledger, lastTurn, call, calls>>
    BY DEF StopAnswers, over
  <2> QED
    BY <1>1, <2>1, <2>2 DEF TypeOK, PastOK, MaybeState
<1>3. /\ turn' \in [Session -> 0 .. lastTurn]
      /\ \A r \in Session \ {s} : turn'[r] = turn[r]
      /\ turn'[s] = IF over THEN NoTurn ELSE turn[s]
  <2>1. turn' = [turn EXCEPT ![s] = IF over THEN NoTurn ELSE @]
    BY DEF StopAnswers
  <2> HIDE DEF over
  <2> QED
    BY <1>1, <2>1, StateAssumption DEF TypeOK, NoTurn
<1>4. /\ past' \in [Session -> Past]
      /\ \A r \in Session \ {s} : past'[r] = past[r]
      /\ over => past'[s].dark
      /\ ~over => /\ past'[s].own = past[s].own
                  /\ past'[s].tried = past[s].tried
                  /\ past'[s].ran = past[s].ran
                  /\ past'[s].dark = (past[s].dark \/ dark)
  <2>1. CASE over
    <3>1. past' = [past EXCEPT ![s] = Fresh(TRUE)]
      BY <2>1 DEF StopAnswers
    <3>2. Fresh(TRUE) \in Past /\ Fresh(TRUE).dark
      BY DEF Fresh, Past
    <3> QED
      BY <1>1, <2>1, <3>1, <3>2 DEF TypeOK, PastOK
  <2>2. CASE ~over
    <3>1. Darkening(s, dark) /\ dark \in BOOLEAN
      BY <2>2 DEF StopAnswers, Darkening
    <3> HIDE DEF dark, over
    <3> QED
      BY <1>1, <2>2, <3>1, PastDarkened
  <2> QED
    BY <2>1, <2>2
<1>5. faults' \in 0 .. MaxFaults
  <2>1. works \in BOOLEAN /\ Works(works)
    BY DEF StopAnswers
  <2> HIDE DEF works
  <2> QED
    BY <1>1, <2>1, FaultCounted
<1>6. file' \in {file, NoState}
  BY DEF StopAnswers
<1>7. file' \in MaybeState /\ FilePlaced'
  BY <1>1, <1>2, <1>6, TypeFacts DEF TypeOK, FilePlaced, MaybeState
<1>8. TypeOK'
  BY <1>1, <1>2, <1>3, <1>4, <1>5, <1>7, FilePlacedTyped DEF TypeOK, PastOK
<1>9. Local(s)
  <2> HIDE DEF over
  <2> QED
    BY <1>1, <1>2, <1>3, <1>4, <1>6 DEF Local, Others, TypeOK
<1>10. Holds(s)'
  BY <1>2 DEF Holds
<1>11. ASSUME ~past'[s].dark PROVE Witnessed(s)'
  <2> HIDE DEF over
  <2> QED
    BY <1>2, <1>3, <1>4, <1>6, <1>11 DEF IInv, Honest, Witnessed
<1> QED
  BY <1>8, <1>9, <1>10, <1>11, LocalKeeps

LEMMA KillKeeps ==
    ASSUME IInv, NEW s \in Session, Kill(s)
    PROVE  IInv'
<1> DEFINE dark == pc[s] # "stopping"
<1>1. TypeOK
  BY DEF IInv
<1>2. /\ pc' \in [Session -> {"waiting", "working", "ran", "writing", "stopping"}]
      /\ prompt' \in [Session -> Prompt] /\ seen' \in [Session -> Transcript]
      /\ mem' \in [Session -> MaybeState]
      /\ call' \in [Session -> Call \cup {NoCall}]
      /\ pc'[s] \in {"waiting", "working"}
      /\ \A r \in Session \ {s} :
            pc'[r] = pc[r] /\ mem'[r] = mem[r] /\ call'[r] = call[r]
      /\ UNCHANGED <<file, ledger, lastTurn, turn, calls>>
  <2>1. NoPrompt \in Prompt /\ NoCalls \in Transcript
    BY DEF NoPrompt, Prompt, NoCalls, Transcript
  <2> QED
    BY <1>1, <2>1 DEF Kill, TypeOK, PastOK, MaybeState
<1>3. /\ past' \in [Session -> Past]
      /\ \A r \in Session \ {s} : past'[r] = past[r]
      /\ past'[s].own = past[s].own
      /\ past'[s].tried = past[s].tried
      /\ past'[s].ran = past[s].ran
      /\ past'[s].dark = (past[s].dark \/ dark)
  <2>1. Darkening(s, dark) /\ dark \in BOOLEAN
    BY DEF Kill, Darkening
  <2> HIDE DEF dark
  <2> QED
    BY <1>1, <2>1, PastDarkened
<1>4. faults' \in 0 .. MaxFaults
  BY <1>1, FaultCounted DEF Kill
<1>5. TypeOK'
  BY <1>1, <1>2, <1>3, <1>4 DEF TypeOK, PastOK
<1>6. Local(s)
  BY <1>1, <1>2, <1>3 DEF Local, Others, TypeOK
<1>7. Holds(s)'
  BY <1>2 DEF Holds
<1>8. ASSUME ~past'[s].dark PROVE Witnessed(s)'
  BY <1>2, <1>3, <1>8 DEF IInv, Honest, Witnessed
<1> QED
  BY <1>5, <1>6, <1>7, <1>8, LocalKeeps

LEMMA NextInvariant == IInv /\ [Next]_vars => IInv'
<1> SUFFICES ASSUME IInv, [Next]_vars PROVE IInv'
  OBVIOUS
<1>1. CASE UNCHANGED vars
  BY <1>1 DEF vars, IInv, TypeOK, PastOK, HookOK, Holds, OwnTurns, Honest, Witnessed
<1>2. ASSUME NEW s \in Session, NEW p \in Prompts, GivePrompt(s, p)
      PROVE  IInv'
  BY <1>2, GivePromptKeeps
<1>3. ASSUME NEW s \in Session, NEW c \in Calls, NEW told \in BOOLEAN,
             NEW up \in BOOLEAN, BeforeTool(s, c, told, up)
      PROVE  IInv'
  BY <1>3, BeforeToolKeeps
<1>4. ASSUME NEW s \in Session, AfterTool(s)
      PROVE  IInv'
  <2>1. \/ Untracked(s)
        \/ \E up \in BOOLEAN : RecordTool(s, up) \/ RecordLoad(s, up)
    BY <1>4 DEF AfterTool
  <2> QED
    BY <1>4, <2>1, UntrackedKeeps, RecordToolKeeps, RecordLoadKeeps
<1>5. ASSUME NEW s \in Session, WriteFile(s)
      PROVE  IInv'
  BY <1>5, WriteFileKeeps
<1>6. ASSUME NEW s \in Session, NEW to \in Phase, Transition(s, to)
      PROVE  IInv'
  BY <1>6, TransitionKeeps
<1>7. ASSUME NEW s \in Session, StopReads(s)
      PROVE  IInv'
  BY <1>7, StopReadsKeeps
<1>8. ASSUME NEW s \in Session, NEW view \in {"whole", "lost", "unread"},
             NEW up \in BOOLEAN, NEW old \in BOOLEAN, StopAnswers(s, view, up, old)
      PROVE  IInv'
  BY <1>8, StopAnswersKeeps
<1>9. ASSUME NEW s \in Session, Kill(s)
      PROVE  IInv'
  BY <1>9, KillKeeps
<1> QED
  BY <1>1, <1>2, <1>3, <1>4, <1>5, <1>6, <1>7, <1>8, <1>9 DEF Next

LEMMA Invariant == Spec => []IInv
BY InitInvariant, NextInvariant, PTL DEF Spec

-----------------------------------------------------------------------------
(* Types: the states, events and calls of every session are those the code *)
(* distinguishes, and a file without a turn carries no marks and no tools. *)
THEOREM GateTypeCorrect == Spec => []TypeOK
<1>1. IInv => TypeOK
  BY DEF IInv
<1> QED
  BY Invariant, <1>1, PTL

(* What the pattern gate falls back to when the ledger has no state of the *)
(* turn names no skill, and is answered like no state at all.              *)
LEMMA AnswerFromLedger ==
    ASSUME IInv, NEW s \in Session, NEW c, NEW told, ~past[s].dark
    PROVE  Says(s, c, told, TRUE)
           = GateAnswer(c, IF told THEN prompt[s].command ELSE NoSkill,
                        ledger[turn[s]].state)
<1> DEFINE st == ReadPending(turn[s], TRUE)
           typed == IF told THEN prompt[s].command ELSE NoSkill
<1>1. Witnessed(s)
  BY DEF IInv, Honest
<1>2. \/ st = ledger[turn[s]].state
      \/ ledger[turn[s]].state = NoState /\ st.skill = NoSkill
  BY <1>1 DEF ReadPending, Witnessed
<1> HIDE DEF st, typed
<1>3. GateAnswer(c, typed, st) = GateAnswer(c, typed, ledger[turn[s]].state)
  BY <1>2 DEF GateAnswer
<1> QED
  BY <1>3 DEF Says, st, typed

(* While the ledger answers, the pattern gate judges a call as if the      *)
(* terminal had no pending file: no session's load, transition or Stop     *)
(* changes the verdict on another's call (read_pending_state).             *)
THEOREM LedgerDecides == Spec => []JudgedByLedger
<1>1. IInv => JudgedByLedger
  BY AnswerFromLedger DEF JudgedByLedger
<1> QED
  BY Invariant, <1>1, PTL

(* While the ledger answers, the pattern gate refuses a tool only for a    *)
(* skill this session loaded in this turn, whatever the sessions that      *)
(* share the pending file have written into it (read_pending_state).       *)
THEOREM RefusalsAreOwn == Spec => []RefusedByOwnSkill
<1>1. ASSUME IInv, NEW s \in Session, NEW c \in Calls, NEW told \in BOOLEAN,
             pc[s] = "working", ~past[s].dark,
             Says(s, c, told, TRUE).is \notin {"allow", "skill first"}
      PROVE  Says(s, c, told, TRUE).by \in past[s].own
  <2> DEFINE st == ledger[turn[s]].state
             typed == IF told THEN prompt[s].command ELSE NoSkill
  <2>1. Witnessed(s)
    BY <1>1 DEF IInv, Honest
  <2>2. Says(s, c, told, TRUE) = GateAnswer(c, typed, st)
    BY <1>1, AnswerFromLedger
  <2>3. /\ st # NoState
        /\ Says(s, c, told, TRUE).by = st.skill
    <3> HIDE DEF st, typed
    <3> QED
      BY <1>1, <2>2, GateAnswerBy
  <2> QED
    BY <2>1, <2>3 DEF Witnessed
<1>2. IInv => RefusedByOwnSkill
  BY <1>1 DEF RefusedByOwnSkill
<1> QED
  BY Invariant, <1>2, PTL

(* While the ledger answers, no tool that acts gets past layer 1 before    *)
(* one of the skill's first tools was called, refused or not, since its    *)
(* load.                                                                   *)
THEOREM FirstToolComesFirst == Spec => []FirstToolFirst
<1>1. ASSUME IInv, NEW s \in Session, NEW c \in Calls, NEW told \in BOOLEAN,
             ~past[s].dark, c.tool \notin InvestigationTools,
             Says(s, c, told, TRUE).is = "allow",
             ledger[turn[s]].state # NoState,
             ledger[turn[s]].state.skill # NoSkill,
             Profile[ledger[turn[s]].state.skill].first # {}
      PROVE  (past[s].tried \cup {c.tool})
             \cap Profile[ledger[turn[s]].state.skill].first # {}
  <2> DEFINE st == ledger[turn[s]].state
  <2>1. Witnessed(s)
    BY <1>1 DEF IInv, Honest
  <2>2. ReadPending(turn[s], TRUE) = st
    BY <1>1, <2>1 DEF ReadPending, Witnessed
  <2>3. ~FirstToolMissed(c, st)
    BY <1>1, <2>2, GateAnswerAllows DEF Says
  <2>4. st.firstTool \/ c.tool \in Profile[st.skill].first
    BY <1>1, <2>3 DEF FirstToolMissed, FirstToolDue
  <2> QED
    BY <1>1, <2>1, <2>4 DEF Witnessed
<1>2. IInv => FirstToolFirst
  BY <1>1 DEF FirstToolFirst
<1> QED
  BY Invariant, <1>2, PTL

(* A turn of a typed slash command in which a tool ran ends only           *)
(* with Skill called in it, refused or not, or the command's own           *)
(* skill loaded in it: the Stop gate's fallback to the ledger never takes  *)
(* another turn's load.                                                    *)
THEOREM EnforcedStopsAreHonest == Spec => []EnforcedStopSawSkill
<1>1. ASSUME IInv, NEW s \in Session, NEW view \in {"whole", "lost"},
             NEW old \in BOOLEAN, ~past[s].dark,
             Enforced(prompt[s].command), prompt[s].form = "plain",
             StopSays(s, view, TRUE, old) = "allow",
             "Skill" \notin seen[s].tools, past[s].ran
      PROVE  prompt[s].command \in past[s].own
  <2> DEFINE e == ledger[turn[s]]
             sight == Seen(s, view)
  <2>1. Witnessed(s)
    BY <1>1 DEF IInv, Honest
  <2>2. Heard(s, view) = prompt[s]
    BY <1>1 DEF Heard
  <2>3. "Skill" \notin sight.tools
    BY <1>1 DEF Seen, NoCalls
  <2>4. SlashStop(prompt[s], sight, mem[s], e) = "allow"
    BY <1>1, <2>1, <2>2 DEF StopSays, StopAnswer, Witnessed
  <2> HIDE DEF e, sight
  <2>5. AllBlocked(e) \/ LedgerConfirms(prompt[s].command, sight, e)
    BY <1>1, <2>3, <2>4 DEF SlashStop
  <2>6. ~AllBlocked(e)
    BY <1>1, <2>1 DEF Witnessed, AllBlocked, e
  <2> QED
    BY <2>1, <2>5, <2>6 DEF LedgerConfirms, Witnessed, e
<1>2. IInv => EnforcedStopSawSkill
  BY <1>1 DEF EnforcedStopSawSkill
<1> QED
  BY Invariant, <1>2, PTL
=============================================================================
