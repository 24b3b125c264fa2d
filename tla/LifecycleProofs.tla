-------------------------- MODULE LifecycleProofs --------------------------
(***************************************************************************)
(* What one session sees of its runs when its hooks run one after the      *)
(* other, as Claude Code starts them, and any of them can be killed: the   *)
(* verdicts a run was given stand, and the files go through the lifecycle  *)
(* of ContractLifecycle.                                                   *)
(*                                                                         *)
(* The argument: between two hooks nothing is remembered but the files, so *)
(* it is enough to say what the state file and the log know of each run;   *)
(* inside a hook, the record in memory is at every system call either the  *)
(* state file's, or what the state file may become next, or a run nobody   *)
(* has seen yet.                                                           *)
(***************************************************************************)
EXTENDS ExecutionProofs

\* The sessions do not run side by side: there is at most one.
Serial == \A s, t \in Sessions : s = t

RunStage(run) == IF run.status = "failed" THEN "failed" ELSE run.phase

\* What one hook may make of the run it loaded: the phase moves one step on,
\* or the run fails, and a failed run stays failed.
Follows(old, new) ==
    /\ new.id = old.id
    /\ \/ RunStage(new) = RunStage(old)
       \/ RunStage(new) = "failed"
       \/ RunStage(old) = "pending" /\ RunStage(new) = "loaded"
       \/ RunStage(old) = "loaded" /\ RunStage(new) = "executing"

EndedAs(r, status) ==
    /\ log[r].ended # <<>>
    /\ log[r].ended[Len(log[r].ended)] = status

Denied(hook, r) == <<hook, r>> \in denials

\* Nothing is known of a run id that was not handed out.
Unknown(r) ==
    /\ ~Held(r)
    /\ log[r].ended = <<>>
    /\ ~Denied("tool", r) /\ ~Denied("stop", r)

IssuedOK == \A r \in Runs \ issued : Unknown(r)

\* A verdict leaves its trace: the run of a refused tool is failed as long as
\* it is in the state file, the run of a refused stop is not there any more.
DeniedOK ==
    \A r \in Runs :
        Held(r) => /\ Denied("tool", r) => state.status = "failed"
                   /\ ~Denied("stop", r)

\* The prompt hook holds a run nobody has seen.
Newborn(s) ==
    /\ mem[s].id \in issued
    /\ Unknown(mem[s].id)
    /\ mem[s].phase = "pending" /\ mem[s].status = "active"
    /\ answer[s] # "block"

HoldsState(s) == state # NoRun /\ mem[s] = state

AgreesOnFailure(s) == outcome[s] = "failed" <=> mem[s].status = "failed"

\* save_run: a newborn run goes to an empty place unless a read failed; any
\* other save makes of the state file what the hook may make of it, and what
\* the code after the save relies on is already true of the record.
Saving(s) ==
    IF cont[s] = "ups_log"
    THEN /\ Newborn(s)
         /\ loadFaults = 0 => state = NoRun
    ELSE /\ state # NoRun
         /\ Follows(state, mem[s])
         /\ cont[s] = "idle" /\ answer[s] = "block" => mem[s].status = "failed"
         /\ cont[s] = "stop_final" => AgreesOnFailure(s)
         /\ cont[s] = "stop_end" => outcome[s] = mem[s].status

SerialOK(s) ==
    /\ pc[s] \in {"ups_end", "ups_retire"} =>
           Newborn(s) /\ state # NoRun /\ prev[s] = state
    /\ pc[s] = "ups_retire" => EndedAs(state.id, "replaced")
    /\ pc[s] \in {"write", "replace", "retry"} => Saving(s)
    /\ pc[s] \in {"replace", "retry"} => tmp = mem[s]
    /\ pc[s] \in {"ups_log", "tool_log", "art_log",
                  "stop_final", "stop_end", "stop_retire"} => HoldsState(s)
    /\ pc[s] \in {"ups_log", "art_log"} => answer[s] # "block"
    /\ pc[s] = "tool_log" => answer[s] # "none"
    /\ pc[s] = "stop_final" => AgreesOnFailure(s)
    /\ pc[s] \in {"stop_end", "stop_retire"} => outcome[s] = state.status
    /\ pc[s] = "stop_retire" => EndedAs(state.id, outcome[s])

SInv ==
    /\ TInv
    /\ IssuedOK
    /\ DeniedOK
    /\ \A s \in Sessions : SerialOK(s)

-----------------------------------------------------------------------------
(***************************************************************************)
(* What the runtime's operators do to the stage of a run, and the log's to *)
(* the ends it holds.                                                      *)
(***************************************************************************)
LEMMA SameFollows ==
    ASSUME NEW old, NEW new, new.id = old.id, new.status = old.status,
           new.phase = old.phase
    PROVE  Follows(old, new)
BY DEF Follows, RunStage

LEMMA ToolFollows ==
    ASSUME NEW run \in ExecutionRun, NEW allowed \in BOOLEAN
    PROVE  /\ Follows(run, AfterToolUse(run, allowed))
           /\ ~allowed => AfterToolUse(run, allowed).status = "failed"
<1>1. CASE allowed
  <2>1. /\ AfterToolUse(run, allowed).id = run.id
        /\ AfterToolUse(run, allowed).status = run.status
        /\ AfterToolUse(run, allowed).phase = NextPhase(run.phase)
    BY <1>1 DEF AfterToolUse, ExecutionRun
  <2>2. run.phase \in {"pending", "loaded", "executing"}
    BY DEF ExecutionRun, Phases
  <2> QED
    BY <1>1, <2>1, <2>2 DEF Follows, RunStage, NextPhase
<1>2. CASE ~allowed
  BY <1>2 DEF AfterToolUse, ExecutionRun, Follows, RunStage
<1> QED
  BY <1>1, <1>2

LEMMA ArtifactFollows ==
    ASSUME NEW run \in ExecutionRun, NEW path
    PROVE  Follows(run, AfterArtifact(run, path))
<1>1. /\ AfterArtifact(run, path).id = run.id
      /\ AfterArtifact(run, path).status = run.status
      /\ AfterArtifact(run, path).phase = run.phase
  BY DEF AfterArtifact, ExecutionRun
<1> QED
  BY <1>1, SameFollows

LEMMA FinalFollows ==
    ASSUME NEW run \in ExecutionRun, NEW status \in RunStatuses,
           status = "failed" <=> run.status = "failed"
    PROVE  /\ Follows(run, [run EXCEPT !.status = status])
           /\ [run EXCEPT !.status = status].status = status
BY DEF Follows, RunStage, ExecutionRun

LEMMA CompletionAgrees ==
    ASSUME NEW run, NEW response
    PROVE  CompletionStatus(run, response) = "failed" <=> run.status = "failed"
BY DEF CompletionStatus

\* A failure is the one stage a run does not leave.
LEMMA FailureStays ==
    ASSUME NEW old \in ExecutionRun, NEW new \in ExecutionRun, Follows(old, new),
           old.status = "failed"
    PROVE  new.status = "failed"
BY DEF Follows, RunStage, ExecutionRun, Phases

EndsKept == \A r \in Runs : log'[r].ended = log[r].ended

LEMMA AppendKeepsEnds ==
    ASSUME log \in [Runs -> RunLog], NEW r \in Runs,
           \/ AppendCreated(r)
           \/ \E allowed \in BOOLEAN : AppendTool(r, allowed)
           \/ \E path \in Artifacts : AppendArtifact(r, path)
    PROVE  EndsKept
<1>1. DOMAIN log = Runs /\ \A q \in Runs : log[q] \in RunLog
  OBVIOUS
<1>2. CASE AppendCreated(r)
  BY <1>1, <1>2 DEF AppendCreated, EndsKept, RunLog
<1>3. ASSUME NEW allowed \in BOOLEAN, AppendTool(r, allowed)
      PROVE  EndsKept
  BY <1>1, <1>3 DEF AppendTool, EndsKept, RunLog
<1>4. ASSUME NEW path \in Artifacts, AppendArtifact(r, path)
      PROVE  EndsKept
  BY <1>1, <1>4 DEF AppendArtifact, EndsKept, RunLog
<1> QED
  BY <1>2, <1>3, <1>4

LEMMA AppendEnds ==
    ASSUME log \in [Runs -> RunLog], NEW r \in Runs, NEW status \in EndStatuses,
           AppendEnded(r, status)
    PROVE  /\ \A q \in Runs \ {r} : log'[q] = log[q]
           /\ EndedAs(r, status)'
           /\ Len(log'[r].ended) > Len(log[r].ended)
<1>1. log[r].ended \in Seq(EndStatuses)
  BY DEF RunLog
<1>2. log'[r].ended = Append(log[r].ended, status)
  BY DEF AppendEnded, RunLog
<1>3. Append(log[r].ended, status) # <<>>
      /\ Len(Append(log[r].ended, status)) = Len(log[r].ended) + 1
      /\ Append(log[r].ended, status)[Len(log[r].ended) + 1] = status
  BY <1>1
<1>4. Len(log[r].ended) \in Nat
  BY <1>1
<1>5. \A q \in Runs \ {r} : log'[q] = log[q]
  BY DEF AppendEnded
<1> QED
  BY <1>2, <1>3, <1>4, <1>5 DEF EndedAs

-----------------------------------------------------------------------------
(***************************************************************************)
(* The invariant, one action at a time.                                    *)
(***************************************************************************)
LEMMA SerialInit == Init => SInv
BY TypeInit
   DEF Init, StoreInit, SInv, IssuedOK, Unknown, DeniedOK, SerialOK, Held, Denied,
       EmptyRunLog

\* With one session the others have nothing to say.
LEMMA Alone ==
    ASSUME Serial, NEW s \in Sessions, TInv', IssuedOK', DeniedOK', SerialOK(s)'
    PROVE  SInv'
<1>1. \A t \in Sessions : t = s
  BY DEF Serial
<1>2. \A t \in Sessions : SerialOK(t)'
  BY <1>1
<1> QED
  BY <1>2 DEF SInv

LEMMA IdleOK ==
    ASSUME NEW s \in Sessions, pc'[s] = "idle"
    PROVE  SerialOK(s)'
BY DEF SerialOK

\* A step that leaves the state file, the ends and the verdicts alone.
LEMMA QuietStep ==
    ASSUME SInv, state' = state, EndsKept, denials' = denials, issued \subseteq issued'
    PROVE  IssuedOK' /\ DeniedOK'
<1>1. ASSUME NEW r \in Runs \ issued'
      PROVE  Unknown(r)'
  <2>1. r \in Runs \ issued
    OBVIOUS
  <2>2. Unknown(r)
    BY <2>1 DEF SInv, IssuedOK
  <2>3. log'[r].ended = log[r].ended
    BY DEF EndsKept
  <2> QED
    BY <2>2, <2>3 DEF Unknown, Held, Denied
<1>2. DeniedOK'
  BY DEF SInv, DeniedOK, Held, Denied
<1> QED
  BY <1>1, <1>2 DEF IssuedOK

LEMMA LogUnchangedKeeps ==
    ASSUME log' = log
    PROVE  EndsKept
BY DEF EndsKept

\* What is in the state file is a run that was handed out.
LEMMA StateKnown ==
    ASSUME SInv, state # NoRun
    PROVE  /\ state \in ExecutionRun
           /\ state.id \in Runs /\ state.id \in issued
           /\ Denied("tool", state.id) => state.status = "failed"
           /\ ~Denied("stop", state.id)
<1>1. state \in ExecutionRun
  BY DEF SInv, TInv, TypeOK, MaybeRun
<1>2. state.id \in Runs
  BY <1>1 DEF ExecutionRun
<1>3. Held(state.id)
  BY DEF Held
<1> QED
  BY <1>1, <1>2, <1>3 DEF SInv, IssuedOK, DeniedOK, Unknown

LEMMA WriteSerial ==
    ASSUME Serial, SInv, TInv', NEW s \in Sessions, Write(s) \/ SaveRetries(s)
    PROVE  SInv'
<1>1. IssuedOK' /\ DeniedOK'
  BY QuietStep, LogUnchangedKeeps DEF Write, SaveRetries
<1>2. Saving(s)
  BY DEF Write, SaveRetries, SInv, SerialOK
<1>3. Saving(s)'
  BY <1>2 DEF Saving, Newborn, Unknown, Held, Denied, AgreesOnFailure, Write, SaveRetries,
              faultVars
<1>4. pc'[s] \in {"replace", "retry"} /\ tmp' = mem'[s]
  BY DEF Write, SaveRetries, WriteTmp, Goto, SInv, TInv, TypeOK
<1>5. SerialOK(s)'
  BY <1>3, <1>4 DEF SerialOK
<1> QED
  BY <1>1, <1>5, Alone

LEMMA ReplaceNewborn ==
    ASSUME Serial, SInv, TInv', NEW s \in Sessions, Replace(s), cont[s] = "ups_log"
    PROVE  SInv'
<1>1. Newborn(s) /\ tmp = mem[s]
  BY DEF Replace, SInv, SerialOK, Saving
<1>2. /\ state' = mem[s] /\ state' # NoRun
      /\ pc' = [pc EXCEPT ![s] = "ups_log"]
      /\ UNCHANGED <<log, mem, answer, denials, issued>>
  BY <1>1 DEF Replace, ReplaceState, Goto
<1>3. mem[s].id \in Runs
  BY DEF Replace, SInv, TInv, ProcOK, ExecutionRun
<1>4. ASSUME NEW r \in Runs \ issued'
      PROVE  Unknown(r)'
  <2>1. Unknown(r) /\ r # mem[s].id
    BY <1>1, <1>2 DEF SInv, IssuedOK, Newborn
  <2> QED
    BY <1>2, <2>1 DEF Unknown, Held, Denied
<1>5. DeniedOK'
  BY <1>1, <1>2, <1>3 DEF DeniedOK, Held, Denied, Newborn, Unknown
<1>6. pc'[s] = "ups_log"
  BY <1>2 DEF SInv, TInv, TypeOK
<1>7. SerialOK(s)'
  BY <1>1, <1>2, <1>6 DEF SerialOK, HoldsState, Newborn
<1> QED
  BY <1>4, <1>5, <1>7, Alone DEF IssuedOK

LEMMA ReplaceSame ==
    ASSUME Serial, SInv, TInv', NEW s \in Sessions, Replace(s), cont[s] # "ups_log"
    PROVE  SInv'
<1>1. /\ state # NoRun /\ tmp = mem[s]
      /\ Follows(state, mem[s])
      /\ cont[s] = "idle" /\ answer[s] = "block" => mem[s].status = "failed"
      /\ cont[s] = "stop_final" => AgreesOnFailure(s)
      /\ cont[s] = "stop_end" => outcome[s] = mem[s].status
  BY DEF Replace, SInv, SerialOK, Saving
<1>2. /\ state' = mem[s] /\ state' # NoRun
      /\ UNCHANGED <<log, issued>>
  BY <1>1 DEF Replace, ReplaceState
<1>3. /\ state \in ExecutionRun /\ mem[s] \in ExecutionRun
      /\ state.id \in Runs /\ state.id \in issued
      /\ mem[s].id = state.id
      /\ Denied("tool", state.id) => state.status = "failed"
      /\ ~Denied("stop", state.id)
  BY <1>1, StateKnown DEF Follows, Replace, SInv, TInv, ProcOK
<1>4. state.status = "failed" => mem[s].status = "failed"
  BY <1>1, <1>3, FailureStays
<1>5. /\ denials \subseteq denials'
      /\ \A hook, r : <<hook, r>> \in denials' \ denials =>
            hook = "tool" /\ r = mem[s].id /\ mem[s].status = "failed"
  <2>1. CASE cont[s] = "idle" /\ answer[s] = "block"
    BY <1>1, <2>1 DEF Replace
  <2>2. CASE ~(cont[s] = "idle" /\ answer[s] = "block")
    BY <2>2 DEF Replace
  <2> QED
    BY <2>1, <2>2
<1>6. ASSUME NEW r \in Runs \ issued'
      PROVE  Unknown(r)'
  <2>1. Unknown(r) /\ r # mem[s].id
    BY <1>2, <1>3 DEF SInv, IssuedOK
  <2> QED
    BY <1>2, <1>5, <2>1 DEF Unknown, Held, Denied
<1>7. DeniedOK'
  BY <1>2, <1>3, <1>4, <1>5 DEF DeniedOK, Held, Denied
<1>8. SerialOK(s)'
  <2>1. CASE cont[s] = "idle"
    <3>1. pc'[s] = "idle"
      BY <2>1 DEF Replace, Return, Goto, SInv, TInv, TypeOK
    <3> QED
      BY <3>1, IdleOK
  <2>2. CASE cont[s] # "idle"
    <3>1. cont[s] \in {"stop_final", "stop_end"}
      BY <2>2 DEF SInv, TInv, ProcOK
    <3>2. pc'[s] = cont[s] /\ UNCHANGED <<mem, outcome>>
      BY <2>2 DEF Replace, Goto, SInv, TInv, TypeOK
    <3> QED
      BY <1>1, <1>2, <3>1, <3>2 DEF SerialOK, HoldsState, AgreesOnFailure
  <2> QED
    BY <2>1, <2>2
<1> QED
  BY <1>6, <1>7, <1>8, Alone DEF IssuedOK

\* Nobody takes the temporary file away.
LEMMA NoSaveRaises ==
    ASSUME SInv, NEW s \in Sessions, SaveRaises(s)
    PROVE  FALSE
<1>1. tmp = mem[s] /\ tmp = NoRun /\ mem[s] \in ExecutionRun
  BY DEF SaveRaises, ReplaceFails, SInv, SerialOK, TInv, ProcOK
<1> QED
  BY <1>1, NoRunAssumption

LEMMA PromptSubmitSerial ==
    ASSUME Serial, SInv, TInv', NEW s \in Sessions, NEW skill \in Skills,
           PromptSubmit(s, skill)
    PROVE  SInv'
<1>1. PICK r \in Runs \ issued, seen \in {state, NoRun} :
        /\ Load(seen)
        /\ issued' = issued \cup {r}
        /\ mem' = [mem EXCEPT ![s] = NewRun(r, skill)]
        /\ prev' = [prev EXCEPT ![s] = seen]
        /\ Goto(s, IF seen = NoRun THEN "write" ELSE "ups_end")
  BY DEF PromptSubmit
<1>2. UNCHANGED <<state, log, denials>>
  BY DEF PromptSubmit, storeVars
<1>3. IssuedOK' /\ DeniedOK'
  BY <1>1, <1>2, QuietStep, LogUnchangedKeeps
<1>4. /\ mem'[s] = NewRun(r, skill) /\ prev'[s] = seen
      /\ cont'[s] = "ups_log" /\ answer'[s] = "none"
      /\ pc'[s] = IF seen = NoRun THEN "write" ELSE "ups_end"
  BY <1>1 DEF PromptSubmit, Goto, SInv, TInv, TypeOK
<1>5. Newborn(s)'
  <2>1. Unknown(r)
    BY DEF SInv, IssuedOK
  <2> QED
    BY <1>1, <1>2, <1>4, <2>1 DEF Newborn, Unknown, Held, Denied, NewRun
<1>6. CASE seen = NoRun
  <2>1. loadFaults' = 0 => state' = NoRun
    <3>1. CASE seen = state
      BY <1>2, <1>6, <3>1
    <3>2. CASE seen # state
      BY <1>1, <3>2, HooksAssumption DEF Load, SInv, TInv, TypeOK
    <3> QED
      BY <3>1, <3>2
  <2>2. Saving(s)'
    BY <1>4, <1>5, <2>1 DEF Saving
  <2>3. SerialOK(s)'
    BY <1>4, <1>6, <2>2 DEF SerialOK
  <2> QED
    BY <1>3, <2>3, Alone
<1>7. CASE seen # NoRun
  <2>1. SerialOK(s)'
    BY <1>2, <1>4, <1>5, <1>7 DEF SerialOK
  <2> QED
    BY <1>3, <2>1, Alone
<1> QED
  BY <1>6, <1>7

\* A step that appends an end for the run in the state file and leaves the
\* state file and the verdicts alone.
LEMMA EndingStep ==
    ASSUME SInv, state # NoRun, NEW status \in EndStatuses,
           AppendEnded(state.id, status), UNCHANGED <<state, denials, issued>>
    PROVE  /\ IssuedOK' /\ DeniedOK'
           /\ EndedAs(state.id, status)'
           /\ \A q \in Runs \ {state.id} : log'[q] = log[q]
<1>1. /\ state.id \in Runs /\ state.id \in issued
      /\ log \in [Runs -> RunLog]
  BY StateKnown DEF SInv, TInv, TypeOK
<1>2. /\ \A q \in Runs \ {state.id} : log'[q] = log[q]
      /\ EndedAs(state.id, status)'
  BY <1>1, AppendEnds
<1>3. IssuedOK'
  BY <1>1, <1>2 DEF SInv, IssuedOK, Unknown, Held, Denied
<1>4. DeniedOK'
  BY DEF SInv, DeniedOK, Held, Denied
<1> QED
  BY <1>2, <1>3, <1>4

LEMMA EndPreviousSerial ==
    ASSUME Serial, SInv, TInv', NEW s \in Sessions, EndPrevious(s)
    PROVE  SInv'
<1>1. Newborn(s) /\ state # NoRun /\ prev[s] = state
  BY DEF EndPrevious, SInv, SerialOK
<1>2. /\ IssuedOK' /\ DeniedOK'
      /\ EndedAs(state.id, "replaced")'
      /\ \A q \in Runs \ {state.id} : log'[q] = log[q]
  BY <1>1, EndingStep DEF EndPrevious, EndStatuses
<1>3. mem[s].id \in Runs \ {state.id}
  BY <1>1 DEF Newborn, Unknown, Held, EndPrevious, SInv, TInv, ProcOK, ExecutionRun
<1>4. Newborn(s)'
  BY <1>1, <1>2, <1>3 DEF EndPrevious, Newborn, Unknown, Held, Denied
<1>5. pc'[s] = "ups_retire"
  BY DEF EndPrevious, Goto, SInv, TInv, TypeOK
<1>6. state' = state /\ prev' = prev
  BY DEF EndPrevious
<1>7. SerialOK(s)'
  BY <1>1, <1>2, <1>4, <1>5, <1>6 DEF SerialOK
<1> QED
  BY <1>2, <1>7, Alone

\* A step that takes the run out of the state file.
LEMMA RetiringStep ==
    ASSUME SInv, state # NoRun, RetireState, UNCHANGED <<log, issued>>,
           denials \subseteq denials',
           \A hook, r : <<hook, r>> \in denials' \ denials => r = state.id
    PROVE  IssuedOK' /\ DeniedOK' /\ state' = NoRun
<1>1. state' = NoRun /\ state.id \in issued
  BY StateKnown DEF RetireState
<1>2. IssuedOK'
  BY <1>1 DEF SInv, IssuedOK, Unknown, Held, Denied
<1>3. DeniedOK'
  BY <1>1 DEF DeniedOK, Held
<1> QED
  BY <1>1, <1>2, <1>3

LEMMA RetirePreviousSerial ==
    ASSUME Serial, SInv, TInv', NEW s \in Sessions, RetirePrevious(s)
    PROVE  SInv'
<1>1. Newborn(s) /\ state # NoRun /\ cont[s] = "ups_log"
  BY DEF RetirePrevious, SInv, SerialOK, TInv, ProcOK
<1>2. IssuedOK' /\ DeniedOK' /\ state' = NoRun
  BY <1>1, RetiringStep DEF RetirePrevious
<1>3. UNCHANGED <<log, cont, mem, answer, denials, issued>>
  BY DEF RetirePrevious
<1>4. Saving(s)'
  BY <1>1, <1>2, <1>3 DEF Saving, Newborn, Unknown, Held, Denied
<1>5. pc'[s] = "write"
  BY DEF RetirePrevious, Goto, SInv, TInv, TypeOK
<1>6. SerialOK(s)'
  BY <1>4, <1>5 DEF SerialOK
<1> QED
  BY <1>2, <1>6, Alone

\* SaveThen(s, "idle") with a record the run in the state file may become.
LEMMA SaveToReturn ==
    ASSUME Serial, SInv, TInv', NEW s \in Sessions, SaveThen(s, "idle"),
           UNCHANGED <<state, denials, issued>>, EndsKept,
           state # NoRun, Follows(state, mem'[s]),
           answer'[s] = "block" => mem'[s].status = "failed"
    PROVE  SInv'
<1>1. IssuedOK' /\ DeniedOK'
  BY QuietStep
<1>2. pc'[s] = "write" /\ cont'[s] = "idle"
  BY DEF SaveThen, Goto, SInv, TInv, TypeOK
<1>3. Saving(s)'
  BY <1>2 DEF Saving
<1>4. SerialOK(s)'
  BY <1>2, <1>3 DEF SerialOK
<1> QED
  BY <1>1, <1>4, Alone

LEMMA LogCreatedSerial ==
    ASSUME Serial, SInv, TInv', NEW s \in Sessions, LogCreated(s)
    PROVE  SInv'
<1>1. HoldsState(s) /\ answer[s] # "block" /\ mem[s].id \in Runs
  BY DEF LogCreated, SInv, SerialOK, TInv, ProcOK, ExecutionRun
<1>2. EndsKept
  BY <1>1, AppendKeepsEnds DEF LogCreated, SInv, TInv, TypeOK
<1>3. UNCHANGED <<state, denials, issued>>
  BY DEF LogCreated
<1>4. CASE Return(s, "none")
  <2>1. pc'[s] = "idle"
    BY <1>4 DEF Return, Goto, SInv, TInv, TypeOK
  <2> QED
    BY <1>2, <1>3, <2>1, QuietStep, IdleOK, Alone
<1>5. CASE SaveThen(s, "idle") /\ UNCHANGED <<mem, prev, input, outcome, answer>>
  <2>1. Follows(state, mem'[s])
    BY <1>1, <1>5, SameFollows DEF HoldsState
  <2> QED
    BY <1>1, <1>2, <1>3, <1>5, <2>1, SaveToReturn DEF HoldsState
<1> QED
  BY <1>4, <1>5 DEF LogCreated

LEMMA LogToolSerial ==
    ASSUME Serial, SInv, TInv', NEW s \in Sessions, LogTool(s)
    PROVE  SInv'
<1>1. HoldsState(s) /\ answer[s] # "none" /\ mem[s] \in ExecutionRun /\ mem[s].id \in Runs
  BY DEF LogTool, SInv, SerialOK, TInv, ProcOK, ExecutionRun
<1>2. EndsKept
  BY <1>1, AppendKeepsEnds DEF LogTool, SInv, TInv, TypeOK
<1>3. mem'[s] = AfterToolUse(state, answer[s] = "allow")
  BY <1>1 DEF LogTool, HoldsState, SInv, TInv, TypeOK
<1>4. Follows(state, mem'[s]) /\ (answer[s] # "allow" => mem'[s].status = "failed")
  BY <1>1, <1>3, ToolFollows DEF HoldsState
<1>5. UNCHANGED <<state, denials, issued, answer>> /\ SaveThen(s, "idle")
  BY DEF LogTool
<1> QED
  BY <1>1, <1>2, <1>4, <1>5, SaveToReturn DEF HoldsState

LEMMA LogArtifactSerial ==
    ASSUME Serial, SInv, TInv', NEW s \in Sessions, LogArtifact(s)
    PROVE  SInv'
<1>1. /\ HoldsState(s) /\ answer[s] # "block" /\ mem[s] \in ExecutionRun
      /\ mem[s].id \in Runs /\ input[s] \in Artifacts
  BY DEF LogArtifact, SInv, SerialOK, TInv, ProcOK, ExecutionRun
<1>2. EndsKept
  BY <1>1, AppendKeepsEnds DEF LogArtifact, SInv, TInv, TypeOK
<1>3. mem'[s] = AfterArtifact(state, input[s])
  BY <1>1 DEF LogArtifact, HoldsState, SInv, TInv, TypeOK
<1>4. Follows(state, mem'[s])
  BY <1>1, <1>3, ArtifactFollows DEF HoldsState
<1>5. UNCHANGED <<state, denials, issued, answer>> /\ SaveThen(s, "idle")
  BY DEF LogArtifact
<1> QED
  BY <1>1, <1>2, <1>4, <1>5, SaveToReturn DEF HoldsState

\* A hook that answers at once leaves its session where it was: idle.
LEMMA AnswerSerial ==
    ASSUME Serial, SInv, TInv', NEW s \in Sessions,
           \/ \E call \in Calls : GateAnswers(s, call)
           \/ StopWithoutRun(s)
    PROVE  SInv'
<1>1. /\ pc'[s] = "idle"
      /\ UNCHANGED <<state, log, denials, issued>>
  BY DEF GateAnswers, StopWithoutRun, storeVars
<1> QED
  BY <1>1, QuietStep, LogUnchangedKeeps, IdleOK, Alone

\* A hook that loads the run holds the state file's.
LEMMA LoadSerial ==
    ASSUME Serial, SInv, TInv', NEW s \in Sessions,
           \/ \E call \in Calls : PreToolUse(s, call)
           \/ \E path \in Artifacts : ArtifactCreated(s, path)
    PROVE  SInv'
<1>1. /\ state # NoRun /\ mem'[s] = state
      /\ UNCHANGED <<state, log, denials, issued>>
  BY DEF PreToolUse, ArtifactCreated, storeVars, SInv, TInv, TypeOK
<1>2. \/ pc'[s] = "tool_log" /\ answer'[s] # "none"
      \/ pc'[s] = "art_log" /\ answer'[s] # "block"
  BY DEF PreToolUse, ArtifactCreated, Goto, SInv, TInv, TypeOK
<1>3. SerialOK(s)'
  BY <1>1, <1>2 DEF SerialOK, HoldsState
<1> QED
  BY <1>1, <1>3, QuietStep, LogUnchangedKeeps, Alone

LEMMA StopSerial ==
    ASSUME Serial, SInv, TInv', NEW s \in Sessions, Stop(s)
    PROVE  SInv'
<1>1. state # NoRun /\ state \in ExecutionRun
  BY StateKnown DEF Stop
<1>2. PICK response \in ResponsesTo(state) :
        /\ mem' = [mem EXCEPT ![s] = AfterEvaluation(state, response)]
        /\ outcome' = [outcome EXCEPT ![s] = CompletionStatus(state, response)]
        /\ IF EvaluationSaves(state, response)
           THEN SaveThen(s, "stop_final")
           ELSE Goto(s, "stop_final") /\ UNCHANGED cont
  BY DEF Stop
<1>3. UNCHANGED <<state, log, denials, issued>>
  BY DEF Stop, storeVars
<1>4. IssuedOK' /\ DeniedOK'
  BY <1>3, QuietStep, LogUnchangedKeeps
<1>5. /\ mem'[s] = AfterEvaluation(state, response)
      /\ outcome'[s] = CompletionStatus(state, response)
  BY <1>2 DEF SInv, TInv, TypeOK
<1>6. /\ mem'[s].id = state.id /\ mem'[s].status = state.status
      /\ mem'[s].phase = state.phase
  BY <1>1, <1>5, ResponseType, AfterEvaluationType
<1>7. Follows(state, mem'[s])
  BY <1>6, SameFollows
<1>8. outcome'[s] = "failed" <=> mem'[s].status = "failed"
  BY <1>5, <1>6, CompletionAgrees
<1>9. CASE EvaluationSaves(state, response)
  <2>1. pc'[s] = "write" /\ cont'[s] = "stop_final"
    BY <1>2, <1>9 DEF SaveThen, Goto, SInv, TInv, TypeOK
  <2>2. Saving(s)'
    BY <1>1, <1>3, <1>7, <1>8, <2>1 DEF Saving, AgreesOnFailure
  <2>3. SerialOK(s)'
    BY <2>1, <2>2 DEF SerialOK
  <2> QED
    BY <1>4, <2>3, Alone
<1>10. CASE ~EvaluationSaves(state, response)
  <2>1. pc'[s] = "stop_final"
    BY <1>2, <1>10 DEF Goto, SInv, TInv, TypeOK
  <2>2. mem'[s] = state
    BY <1>5, <1>10 DEF AfterEvaluation
  <2>3. SerialOK(s)'
    BY <1>1, <1>3, <1>8, <2>1, <2>2 DEF SerialOK, HoldsState, AgreesOnFailure
  <2> QED
    BY <1>4, <2>3, Alone
<1> QED
  BY <1>9, <1>10

LEMMA FinalizeSerial ==
    ASSUME Serial, SInv, TInv', NEW s \in Sessions, Finalize(s)
    PROVE  SInv'
<1>1. HoldsState(s) /\ AgreesOnFailure(s)
  BY DEF Finalize, SInv, SerialOK
<1>2. state \in ExecutionRun /\ outcome[s] \in RunStatuses
  BY <1>1, StateKnown DEF HoldsState, SInv, TInv, TypeOK
<1>3. mem'[s] = [state EXCEPT !.status = outcome[s]]
  BY <1>1 DEF Finalize, HoldsState, SInv, TInv, TypeOK
<1>4. Follows(state, mem'[s]) /\ mem'[s].status = outcome[s]
  BY <1>1, <1>2, <1>3, FinalFollows DEF HoldsState, AgreesOnFailure
<1>5. pc'[s] = "write" /\ cont'[s] = "stop_end" /\ outcome' = outcome
  BY DEF Finalize, SaveThen, Goto, SInv, TInv, TypeOK
<1>6. UNCHANGED <<state, log, denials, issued>>
  BY DEF Finalize, storeVars
<1>7. Saving(s)'
  BY <1>1, <1>4, <1>5, <1>6 DEF Saving, HoldsState
<1>8. SerialOK(s)'
  BY <1>5, <1>7 DEF SerialOK
<1> QED
  BY <1>6, <1>8, QuietStep, LogUnchangedKeeps, Alone

LEMMA EndRunSerial ==
    ASSUME Serial, SInv, TInv', NEW s \in Sessions, EndRun(s)
    PROVE  SInv'
<1>1. HoldsState(s) /\ outcome[s] = state.status /\ outcome[s] \in EndStatuses
  BY DEF EndRun, SInv, SerialOK, TInv, TypeOK, EndStatuses
<1>2. AppendEnded(state.id, outcome[s]) /\ UNCHANGED <<state, mem, outcome, denials, issued>>
  BY <1>1 DEF EndRun, HoldsState
<1>3. IssuedOK' /\ DeniedOK' /\ EndedAs(state.id, outcome[s])'
  BY <1>1, <1>2, EndingStep DEF HoldsState
<1>4. pc'[s] = "stop_retire"
  BY DEF EndRun, Goto, SInv, TInv, TypeOK
<1>5. SerialOK(s)'
  BY <1>1, <1>2, <1>3, <1>4 DEF SerialOK, HoldsState
<1> QED
  BY <1>3, <1>5, Alone

LEMMA RetireRunSerial ==
    ASSUME Serial, SInv, TInv', NEW s \in Sessions, RetireRun(s)
    PROVE  SInv'
<1>1. HoldsState(s)
  BY DEF RetireRun, SInv, SerialOK
<1>2. /\ denials \subseteq denials'
      /\ \A hook, r : <<hook, r>> \in denials' \ denials => r = state.id
  BY <1>1 DEF RetireRun, HoldsState
<1>3. IssuedOK' /\ DeniedOK'
  BY <1>1, <1>2, RetiringStep DEF RetireRun, HoldsState
<1>4. pc'[s] = "idle"
  BY DEF RetireRun, Return, Goto, SInv, TInv, TypeOK
<1> QED
  BY <1>3, <1>4, IdleOK, Alone

LEMMA CrashSerial ==
    ASSUME Serial, SInv, TInv', NEW s \in Sessions, Crash(s)
    PROVE  SInv'
<1>1. pc'[s] = "idle"
  BY DEF Crash, Die, Return, Goto, SInv, TInv, TypeOK
<1>2. UNCHANGED <<state, log, denials, issued>>
  BY DEF Crash, storeVars
<1> QED
  BY <1>1, <1>2, QuietStep, LogUnchangedKeeps, IdleOK, Alone

LEMMA StutterSerial ==
    ASSUME SInv, TInv', UNCHANGED vars
    PROVE  SInv'
<1>1. UNCHANGED <<state, tmp, log, pc, cont, mem, prev, outcome, answer, issued,
                  denials, loadFaults>>
  BY DEF vars, storeVars, procVars, faultVars
<1>2. IssuedOK' /\ DeniedOK'
  BY <1>1, QuietStep, LogUnchangedKeeps
<1>3. ASSUME NEW s \in Sessions
      PROVE  SerialOK(s)'
  <2>1. SerialOK(s)
    BY DEF SInv
  <2> QED
    BY <1>1, <2>1
       DEF SerialOK, Saving, Newborn, Unknown, Held, Denied, EndedAs, HoldsState,
           AgreesOnFailure
<1> QED
  BY <1>2, <1>3 DEF SInv

LEMMA SerialStep == Serial /\ SInv /\ [Next]_vars => SInv'
<1> SUFFICES ASSUME Serial, SInv, [Next]_vars
             PROVE  SInv'
  OBVIOUS
<1>1. TInv'
  BY TypeStep DEF SInv
<1>2. CASE Next
  <2>1. PICK s \in Sessions :
          HookStarts(s) \/ HookRuns(s) \/ SaveRetries(s) \/ Crash(s)
    BY <1>2 DEF Next
  <2>2. CASE HookStarts(s)
    BY <1>1, <2>2, PromptSubmitSerial, AnswerSerial, LoadSerial, StopSerial
       DEF HookStarts
  <2>3. CASE HookRuns(s)
    BY <1>1, <2>3, WriteSerial, ReplaceNewborn, ReplaceSame, NoSaveRaises,
       EndPreviousSerial, RetirePreviousSerial, LogCreatedSerial, LogToolSerial,
       LogArtifactSerial, FinalizeSerial, EndRunSerial, RetireRunSerial
       DEF HookRuns
  <2>4. CASE SaveRetries(s) \/ Crash(s)
    BY <1>1, <2>4, WriteSerial, CrashSerial
  <2> QED
    BY <2>1, <2>2, <2>3, <2>4
<1>3. CASE UNCHANGED vars
  BY <1>1, <1>3, StutterSerial
<1> QED
  BY <1>2, <1>3

-----------------------------------------------------------------------------
(***************************************************************************)
(* Verdicts.                                                               *)
(***************************************************************************)
\* What a step can do to the state file and to the ends in the log.
LEMMA StepKinds ==
    ASSUME SInv, Next
    PROVE  \/ state' = state /\ EndsKept
           \/ \E s \in Sessions : EndPrevious(s) \/ EndRun(s)
           \/ /\ log' = log
              /\ \E s \in Sessions : RetirePrevious(s) \/ RetireRun(s) \/ Replace(s)
<1>1. PICK s \in Sessions :
        HookStarts(s) \/ HookRuns(s) \/ SaveRetries(s) \/ Crash(s)
  BY DEF Next
<1>2. CASE HookStarts(s) \/ Crash(s)
  <2>1. state' = state /\ log' = log
    BY <1>2
       DEF HookStarts, PromptSubmit, GateAnswers, PreToolUse, ArtifactCreated,
           StopWithoutRun, Stop, Crash, storeVars
  <2> QED
    BY <2>1, LogUnchangedKeeps
<1>3. CASE LogCreated(s) \/ LogTool(s) \/ LogArtifact(s)
  <2>1. mem[s].id \in Runs /\ (LogArtifact(s) => input[s] \in Artifacts)
    BY <1>3 DEF LogCreated, LogTool, LogArtifact, SInv, TInv, ProcOK, ExecutionRun
  <2>2. EndsKept
    BY <1>3, <2>1, AppendKeepsEnds
       DEF LogCreated, LogTool, LogArtifact, SInv, TInv, TypeOK
  <2> QED
    BY <1>3, <2>2 DEF LogCreated, LogTool, LogArtifact
<1>4. CASE Write(s) \/ SaveRetries(s) \/ SaveRaises(s) \/ Finalize(s)
  <2>1. state' = state /\ log' = log
    BY <1>4 DEF Write, SaveRetries, SaveRaises, Finalize, storeVars
  <2> QED
    BY <2>1, LogUnchangedKeeps
<1>5. CASE RetirePrevious(s) \/ RetireRun(s) \/ Replace(s)
  BY <1>5 DEF RetirePrevious, RetireRun, Replace
<1> QED
  BY <1>1, <1>2, <1>3, <1>4, <1>5 DEF HookRuns

\* The two hooks that end a run end the one in the state file: the prompt hook
\* as replaced, the Stop hook with the status the file says it has.
LEMMA EndingStatus ==
    ASSUME SInv, NEW s \in Sessions, EndPrevious(s) \/ EndRun(s)
    PROVE  /\ state # NoRun
           /\ \E status \in EndStatuses :
                 /\ AppendEnded(state.id, status)
                 /\ status \in {"replaced", state.status}
           /\ UNCHANGED <<state, denials, issued>>
<1>1. CASE EndPrevious(s)
  BY <1>1 DEF EndPrevious, SInv, SerialOK, EndStatuses
<1>2. CASE EndRun(s)
  <2>1. HoldsState(s) /\ outcome[s] = state.status /\ outcome[s] \in EndStatuses
    BY <1>2 DEF EndRun, SInv, SerialOK, TInv, TypeOK, EndStatuses
  <2> QED
    BY <1>2, <2>1 DEF EndRun, HoldsState
<1> QED
  BY <1>1, <1>2

\* DenialIsFinal, of one step.
DenialStands ==
    \A r \in Runs :
        <<"tool", r>> \in denials => EndsOnlyAs(r, {"failed", "replaced"})

LEMMA EndsKeptStands ==
    ASSUME EndsKept, log \in [Runs -> RunLog]
    PROVE  DenialStands
<1> SUFFICES ASSUME NEW r \in Runs
             PROVE  EndsOnlyAs(r, {"failed", "replaced"})
  BY DEF DenialStands
<1>1. log'[r].ended = log[r].ended
  BY DEF EndsKept
<1>2. Len(log[r].ended) \in Nat
  BY DEF RunLog
<1>3. ~(Len(log'[r].ended) > Len(log[r].ended))
  BY <1>1, <1>2
<1> QED
  BY <1>3 DEF EndsOnlyAs

LEMMA DenialStep == SInv /\ [Next]_vars => DenialStands
<1> SUFFICES ASSUME SInv, [Next]_vars
             PROVE  DenialStands
  OBVIOUS
<1>0. log \in [Runs -> RunLog]
  BY DEF SInv, TInv, TypeOK
<1>1. CASE EndsKept
  BY <1>0, <1>1, EndsKeptStands
<1>2. ASSUME NEW s \in Sessions, EndPrevious(s) \/ EndRun(s)
      PROVE  DenialStands
  <2>1. PICK status \in EndStatuses :
          /\ AppendEnded(state.id, status)
          /\ status \in {"replaced", state.status}
    BY <1>2, EndingStatus
  <2>2. state # NoRun
    BY <1>2, EndingStatus
  <2>3. state.id \in Runs /\ (Denied("tool", state.id) => state.status = "failed")
    BY <2>2, StateKnown
  <2> DEFINE id == state.id
  <2>4. /\ \A q \in Runs \ {id} : log'[q] = log[q]
        /\ log'[id].ended[Len(log'[id].ended)] = status
    BY <1>0, <2>1, <2>3, AppendEnds DEF EndedAs
  <2>5. ASSUME NEW r \in Runs, <<"tool", r>> \in denials
        PROVE  EndsOnlyAs(r, {"failed", "replaced"})
    <3>1. CASE r = id
      BY <2>1, <2>3, <2>4, <2>5, <3>1 DEF EndsOnlyAs, Denied
    <3>2. CASE r # id
      <4>1. log'[r] = log[r] /\ Len(log[r].ended) \in Nat
        BY <1>0, <2>4, <3>2 DEF RunLog
      <4>2. ~(Len(log'[r].ended) > Len(log[r].ended))
        BY <4>1
      <4> QED
        BY <4>2 DEF EndsOnlyAs
    <3> QED
      BY <3>1, <3>2
  <2> QED
    BY <2>5 DEF DenialStands
<1>3. CASE Next
  BY <1>1, <1>2, <1>3, StepKinds, LogUnchangedKeeps
<1>4. CASE UNCHANGED vars
  BY <1>1, <1>4, LogUnchangedKeeps DEF vars, storeVars
<1> QED
  BY <1>3, <1>4

\* For one session at a time, however many hooks are killed and reads fail: a
\* session that was told "tool blocked by contract" never sees that run end as
\* complete or as merely stopped; this is about record_tool_use saving FAILED
\* before the verdict is returned, and about evaluate_completion keeping it.
THEOREM DenialStandsToTheEnd == Serial /\ Spec => DenialIsFinal
<1> SUFFICES ASSUME Serial PROVE Spec => DenialIsFinal
  OBVIOUS
<1>1. SInv /\ [Next]_vars => SInv'
  BY SerialStep
<1>2. SInv /\ [Next]_vars => [DenialStands]_vars
  BY DenialStep DEF DenialStands
<1> QED
  BY SerialInit, <1>1, <1>2, PTL DEF Spec, DenialIsFinal, DenialStands

\* OneBlockedStopPerRun, of one step.
StopBlockedOnce ==
    \A s \in Sessions :
        /\ pc[s] = "stop_retire"
        /\ answer[s] # "block" /\ answer'[s] = "block"
        => <<"stop", mem[s].id>> \notin denials

LEMMA StopBlockedStep == SInv => StopBlockedOnce
<1> SUFFICES ASSUME SInv, NEW s \in Sessions, pc[s] = "stop_retire"
             PROVE  <<"stop", mem[s].id>> \notin denials
  BY DEF StopBlockedOnce
<1>1. state # NoRun /\ mem[s] = state
  BY DEF SInv, SerialOK, HoldsState
<1> QED
  BY <1>1, StateKnown DEF Denied

\* For one session at a time: a failed run refuses one Stop and no more, since
\* end_run takes the state file away in the call that returns the verdict and
\* nothing brings the run back.
THEOREM StopIsRefusedOnce == Serial /\ Spec => OneBlockedStopPerRun
<1> SUFFICES ASSUME Serial PROVE Spec => OneBlockedStopPerRun
  OBVIOUS
<1>1. SInv /\ [Next]_vars => SInv'
  BY SerialStep
<1>2. SInv /\ [Next]_vars => [StopBlockedOnce]_vars
  BY StopBlockedStep DEF StopBlockedOnce
<1> QED
  BY SerialInit, <1>1, <1>2, PTL DEF Spec, OneBlockedStopPerRun, StopBlockedOnce

-----------------------------------------------------------------------------
(***************************************************************************)
(* The refinement of ContractLifecycle.  A hook is many system calls and   *)
(* one abstract step at most: the run opens and moves when the state file  *)
(* is replaced, it closes when the file is taken away, and every other     *)
(* call, a crash included, is a stutter.                                   *)
(***************************************************************************)
\* No load_active_run has taken an unreadable file for a missing one.
NoReadFails == loadFaults = 0

\* What the mapping says of the run in the state file and of the others.
LEMMA HeldStage ==
    ASSUME SInv, state # NoRun
    PROVE  /\ StageOf(state.id) = RunStage(state)
           /\ VerdictOf(state.id) = "none"
           /\ RunStage(state) \in {"pending", "loaded", "executing", "failed"}
           /\ RunStage(state) = "failed" <=> state.status = "failed"
<1>1. state.phase \in {"pending", "loaded", "executing"}
  BY StateKnown DEF ExecutionRun, Phases
<1> QED
  BY <1>1 DEF StageOf, VerdictOf, Held, RunStage

\* Nothing the mapping reads has changed.
LEMMA StageStutter ==
    ASSUME state' = state, EndsKept
    PROVE  UNCHANGED Lifecycle!lifecycleVars
<1>1. \A r \in Runs : StageOf(r)' = StageOf(r)
  BY DEF EndsKept, StageOf, Held
<1>2. \A r \in Runs : VerdictOf(r)' = VerdictOf(r)
  BY DEF EndsKept, VerdictOf, Held
<1> QED
  BY <1>1, <1>2 DEF Lifecycle!lifecycleVars

\* A run_ended line for the run in the state file does not close it yet.
LEMMA EndingStutter ==
    ASSUME SInv, state # NoRun, NEW status \in EndStatuses,
           AppendEnded(state.id, status), state' = state
    PROVE  UNCHANGED Lifecycle!lifecycleVars
<1> DEFINE id == state.id
<1>1. id \in Runs /\ log \in [Runs -> RunLog]
  BY StateKnown DEF SInv, TInv, TypeOK
<1>2. \A q \in Runs \ {id} : log'[q] = log[q]
  BY <1>1, AppendEnds
<1>3. \A r \in Runs : StageOf(r)' = StageOf(r)
  BY <1>2 DEF StageOf, Held
<1>4. \A r \in Runs : VerdictOf(r)' = VerdictOf(r)
  BY <1>2 DEF VerdictOf, Held
<1> QED
  BY <1>3, <1>4 DEF Lifecycle!lifecycleVars

\* Taking the state file away closes the run with the last status it was given.
LEMMA RetiringCloses ==
    ASSUME SInv, state # NoRun, RetireState, log' = log,
           NEW status \in {"replaced", state.status}, EndedAs(state.id, status)
    PROVE  Lifecycle!Next
<1> DEFINE id == state.id
<1>1. /\ id \in Runs /\ state' = NoRun
      /\ status \in {"active", "complete", "failed", "replaced"}
      /\ status = "failed" => state.status = "failed"
      /\ state.status = "failed" => status \in {"failed", "replaced"}
  BY StateKnown DEF RetireState, ExecutionRun, RunStatuses
<1>2. \A q \in Runs : StageOf(q)' = IF q = id THEN "closed" ELSE StageOf(q)
  BY <1>1 DEF StageOf, Held, EndedAs
<1>3. \A q \in Runs : VerdictOf(q)' = IF q = id THEN status ELSE VerdictOf(q)
  BY <1>1 DEF VerdictOf, Held, EndedAs
<1>4. Lifecycle!Close(id, status)
  BY <1>1, <1>2, <1>3, HeldStage DEF Lifecycle!Close, Lifecycle!Open
<1> QED
  BY <1>1, <1>4 DEF Lifecycle!Next

\* A newborn run in an empty state file opens.
LEMMA NewbornOpens ==
    ASSUME SInv, NEW s \in Sessions, Newborn(s), mem[s] \in ExecutionRun,
           state = NoRun, state' = mem[s], log' = log
    PROVE  Lifecycle!Next
<1> DEFINE id == mem[s].id
<1>1. /\ id \in Runs /\ state' # NoRun
      /\ log[id].ended = <<>>
      /\ mem[s].phase = "pending" /\ mem[s].status = "active"
  BY NoRunAssumption DEF ExecutionRun, Newborn, Unknown
<1>2. \A q \in Runs : StageOf(q) \in {"unborn", "closed"}
  BY DEF StageOf, Held
<1>3. StageOf(id) = "unborn"
  BY <1>1 DEF StageOf, Held
<1>4. \A q \in Runs : StageOf(q)' = IF q = id THEN "pending" ELSE StageOf(q)
  BY <1>1 DEF StageOf, Held
<1>5. \A q \in Runs : VerdictOf(q)' = VerdictOf(q)
  BY <1>1 DEF VerdictOf, Held
<1>6. Lifecycle!OpenRun(id)
  BY <1>1, <1>2, <1>3, <1>4, <1>5 DEF Lifecycle!OpenRun, Lifecycle!Open
<1> QED
  BY <1>1, <1>6 DEF Lifecycle!Next

\* Any other save moves the run on, fails it, or changes nothing that shows.
LEMMA SaveMoves ==
    ASSUME SInv, NEW run \in ExecutionRun, state # NoRun, Follows(state, run),
           state' = run, log' = log
    PROVE  Lifecycle!Next \/ UNCHANGED Lifecycle!lifecycleVars
<1> DEFINE id == state.id
<1>1. id \in Runs /\ run # NoRun /\ run.id = id
  BY StateKnown, NoRunAssumption DEF Follows
<1>2. \A q \in Runs : StageOf(q)' = IF q = id THEN RunStage(run) ELSE StageOf(q)
  BY <1>1 DEF StageOf, Held, RunStage
<1>3. \A q \in Runs : VerdictOf(q)' = VerdictOf(q)
  BY <1>1 DEF VerdictOf, Held
<1>4. StageOf(id) = RunStage(state)
      /\ RunStage(state) \in {"pending", "loaded", "executing", "failed"}
  BY HeldStage
<1>5. CASE RunStage(run) = RunStage(state)
  BY <1>2, <1>3, <1>4, <1>5 DEF Lifecycle!lifecycleVars
<1>6. CASE RunStage(run) = "failed"
  <2>1. Lifecycle!Fail(id)
    BY <1>1, <1>2, <1>3, <1>4, <1>6 DEF Lifecycle!Fail, Lifecycle!Open
  <2> QED
    BY <1>1, <2>1 DEF Lifecycle!Next
<1>7. CASE \/ RunStage(state) = "pending" /\ RunStage(run) = "loaded"
           \/ RunStage(state) = "loaded" /\ RunStage(run) = "executing"
  <2>1. Lifecycle!Advance(id)
    BY <1>1, <1>2, <1>3, <1>4, <1>7 DEF Lifecycle!Advance
  <2> QED
    BY <1>1, <2>1 DEF Lifecycle!Next
<1> QED
  BY <1>5, <1>6, <1>7 DEF Follows

LEMMA ReplaceMaps ==
    ASSUME SInv, NoReadFails, NEW s \in Sessions, Replace(s)
    PROVE  Lifecycle!Next \/ UNCHANGED Lifecycle!lifecycleVars
<1>1. /\ Saving(s) /\ tmp = mem[s] /\ mem[s] \in ExecutionRun
      /\ state' = mem[s] /\ log' = log
  BY DEF Replace, ReplaceState, SInv, SerialOK, TInv, ProcOK
<1>2. CASE cont[s] = "ups_log"
  BY <1>1, <1>2, NewbornOpens DEF Saving, NoReadFails
<1>3. CASE cont[s] # "ups_log"
  BY <1>1, <1>3, SaveMoves DEF Saving
<1> QED
  BY <1>2, <1>3

LEMMA RetireMaps ==
    ASSUME SInv, NEW s \in Sessions, RetirePrevious(s) \/ RetireRun(s)
    PROVE  Lifecycle!Next
<1>1. CASE RetirePrevious(s)
  BY <1>1, RetiringCloses DEF RetirePrevious, SInv, SerialOK
<1>2. CASE RetireRun(s)
  BY <1>2, RetiringCloses DEF RetireRun, SInv, SerialOK, HoldsState
<1> QED
  BY <1>1, <1>2

LEMMA RefinementStep ==
    SInv /\ NoReadFails /\ [Next]_vars => [Lifecycle!Next]_(Lifecycle!lifecycleVars)
<1> SUFFICES ASSUME SInv, NoReadFails, [Next]_vars
             PROVE  Lifecycle!Next \/ UNCHANGED Lifecycle!lifecycleVars
  OBVIOUS
<1>1. CASE state' = state /\ EndsKept
  BY <1>1, StageStutter
<1>2. ASSUME NEW s \in Sessions, EndPrevious(s) \/ EndRun(s)
      PROVE  UNCHANGED Lifecycle!lifecycleVars
  BY <1>2, EndingStatus, EndingStutter
<1>3. CASE Next
  BY <1>1, <1>2, <1>3, StepKinds, RetireMaps, ReplaceMaps
<1>4. CASE UNCHANGED vars
  BY <1>1, <1>4, LogUnchangedKeeps DEF vars, storeVars
<1> QED
  BY <1>3, <1>4

LEMMA RefinementInit == Init => Lifecycle!Init
BY DEF Init, StoreInit, Lifecycle!Init, StageOf, VerdictOf, Held, EmptyRunLog

\* For one session at a time and reads that do not fail, with any number of
\* hooks killed at any system call: every behaviour of the hooks and the files
\* is one of the lifecycle that the runtime promises.
THEOREM HooksImplementLifecycle ==
    Serial /\ MaxLoadFaults = 0 /\ Spec => ImplementsLifecycle
<1> SUFFICES ASSUME Serial, MaxLoadFaults = 0 PROVE Spec => ImplementsLifecycle
  OBVIOUS
<1>1. SInv /\ [Next]_vars => SInv'
  BY SerialStep
<1>2. SInv => NoReadFails
  BY DEF SInv, TInv, TypeOK, NoReadFails
<1> QED
  BY SerialInit, RefinementInit, RefinementStep, <1>1, <1>2, PTL
     DEF Spec, ImplementsLifecycle, Lifecycle!Spec

\* A closed run stays closed, with the status it was closed with.
ClosedStays ==
    \A r \in Runs :
        StageOf(r) = "closed" => StageOf(r)' = "closed" /\ VerdictOf(r)' = VerdictOf(r)

LEMMA LifecycleKeepsClosed ==
    [Lifecycle!Next]_(Lifecycle!lifecycleVars) => ClosedStays
<1> DEFINE stage == [r \in Runs |-> StageOf(r)]
           verdict == [r \in Runs |-> VerdictOf(r)]
<1> SUFFICES ASSUME [Lifecycle!Next]_(Lifecycle!lifecycleVars),
                    NEW r \in Runs, stage[r] = "closed"
             PROVE  stage'[r] = "closed" /\ verdict'[r] = verdict[r]
  BY DEF ClosedStays
<1>1. CASE UNCHANGED Lifecycle!lifecycleVars
  BY <1>1 DEF Lifecycle!lifecycleVars
<1>2. ASSUME NEW q \in Runs, Lifecycle!OpenRun(q) \/ Lifecycle!Advance(q) \/ Lifecycle!Fail(q)
      PROVE  stage'[r] = "closed" /\ verdict'[r] = verdict[r]
  <2>1. verdict' = verdict /\ stage[q] # "closed"
    BY <1>2 DEF Lifecycle!OpenRun, Lifecycle!Advance, Lifecycle!Fail, Lifecycle!Open
  <2>2. PICK next : stage' = [stage EXCEPT ![q] = next]
    BY <1>2 DEF Lifecycle!OpenRun, Lifecycle!Advance, Lifecycle!Fail
  <2>3. q # r
    BY <2>1
  <2> QED
    BY <2>1, <2>2, <2>3
<1>3. ASSUME NEW q \in Runs, NEW status, Lifecycle!Close(q, status)
      PROVE  stage'[r] = "closed" /\ verdict'[r] = verdict[r]
  <2>1. /\ stage' = [stage EXCEPT ![q] = "closed"]
        /\ verdict' = [verdict EXCEPT ![q] = status]
        /\ stage[q] # "closed"
    BY <1>3 DEF Lifecycle!Close, Lifecycle!Open
  <2> QED
    BY <2>1
<1> QED
  BY <1>1, <1>2, <1>3 DEF Lifecycle!Next

\* In every step.
VerdictIsFinal == [][ClosedStays]_vars

\* A consequence of the refinement: a run that left the state file with an end
\* in the log never comes back, and no later hook revises its last status; this
\* is about the backup of end_run never being read again.
THEOREM ClosedRunsStayClosed ==
    Serial /\ MaxLoadFaults = 0 /\ Spec => VerdictIsFinal
<1> SUFFICES ASSUME Serial, MaxLoadFaults = 0 PROVE Spec => VerdictIsFinal
  OBVIOUS
<1>1. SInv /\ [Next]_vars => SInv'
  BY SerialStep
<1>2. SInv => NoReadFails
  BY DEF SInv, TInv, TypeOK, NoReadFails
<1>3. SInv /\ [Next]_vars => [ClosedStays]_vars
  BY <1>2, RefinementStep, LifecycleKeepsClosed
<1> QED
  BY SerialInit, <1>1, <1>3, PTL DEF Spec, VerdictIsFinal
=============================================================================
