------------------------- MODULE ExecutionLogProofs -------------------------
(***************************************************************************)
(* The state files and the log agree, for any number of processes that     *)
(* interleave, die or overwrite each other's files.                        *)
(*                                                                         *)
(* The argument: the log only grows, and every step leaves at most one     *)
(* record that was not already a copy somewhere.  So it is enough that     *)
(* each new record is justified by the log of the step that makes it; all  *)
(* the older copies, however stale, stay justified.                        *)
(***************************************************************************)
EXTENDS ExecutionProofs

\* What the log says by f accounts for the record: its phase, its failure and
\* its artifacts have their lines, and it is complete only if its work is done.
Justified(run, f) ==
    /\ BackedBy(run, f[run.id])
    /\ /\ run.status = "complete"
       /\ Contract[run.skill].type # "structured-output"
       => WorkDone(run)

CopiesJustified == \A run \in Copies \ {NoRun} : Justified(run, log)

\* Between evaluate_completion and finalize_run the outcome is a promise about
\* the record the process holds.
Decided(s) ==
    pc[s] = "stop_final" \/ (pc[s] \in {"write", "replace", "retry"} /\ cont[s] = "stop_final")

OutcomeOK ==
    \A s \in Sessions :
        Decided(s) =>
            /\ outcome[s] = "failed" => mem[s].status = "failed"
            /\ /\ outcome[s] = "complete"
               /\ Contract[mem[s].skill].type # "structured-output"
               => WorkDone(mem[s])

IInv == TInv /\ CopiesJustified /\ OutcomeOK

LogGrows ==
    \A r \in Runs :
        /\ log'[r].allowed >= log[r].allowed
        /\ log'[r].blocked >= log[r].blocked
        /\ log[r].artifacts \subseteq log'[r].artifacts

-----------------------------------------------------------------------------
\* The log grows.
LEMMA AppendGrows ==
    ASSUME log \in [Runs -> RunLog], NEW r \in Runs,
           \/ AppendCreated(r)
           \/ \E allowed \in BOOLEAN : AppendTool(r, allowed)
           \/ \E path \in Artifacts : AppendArtifact(r, path)
           \/ \E status \in EndStatuses : AppendEnded(r, status)
    PROVE  LogGrows
<1>1. \A q \in Runs : log[q].allowed \in Nat /\ log[q].blocked \in Nat
  BY DEF RunLog
<1>2. DOMAIN log = Runs
  OBVIOUS
<1>3. CASE AppendCreated(r)
  BY <1>1, <1>2, <1>3 DEF AppendCreated, LogGrows, RunLog
<1>4. ASSUME NEW allowed \in BOOLEAN, AppendTool(r, allowed)
      PROVE  LogGrows
  BY <1>1, <1>2, <1>4 DEF AppendTool, LogGrows, RunLog
<1>5. ASSUME NEW path \in Artifacts, AppendArtifact(r, path)
      PROVE  LogGrows
  BY <1>1, <1>2, <1>5 DEF AppendArtifact, LogGrows, RunLog
<1>6. ASSUME NEW status \in EndStatuses, AppendEnded(r, status)
      PROVE  LogGrows
  BY <1>1, <1>2, <1>6 DEF AppendEnded, LogGrows, RunLog
<1> QED
  BY <1>3, <1>4, <1>5, <1>6

LEMMA UnchangedGrows ==
    ASSUME log \in [Runs -> RunLog], log' = log
    PROVE  LogGrows
BY DEF LogGrows, RunLog

\* What the log has accounted for once it accounts for ever.
LEMMA JustifiedStays ==
    ASSUME NEW run \in ExecutionRun, log \in [Runs -> RunLog],
           log' \in [Runs -> RunLog], LogGrows, Justified(run, log)
    PROVE  Justified(run, log')
<1>1. run.id \in Runs
  BY DEF ExecutionRun
<1> DEFINE old == log[run.id]
           new == log'[run.id]
<1>2. /\ old.allowed \in Nat /\ new.allowed \in Nat
      /\ old.blocked \in Nat /\ new.blocked \in Nat
  BY <1>1 DEF RunLog
<1>3. /\ new.allowed >= old.allowed
      /\ new.blocked >= old.blocked
      /\ old.artifacts \subseteq new.artifacts
  BY <1>1 DEF LogGrows
<1>4. BackedBy(run, old)
  BY DEF Justified
<1>5. BackedBy(run, new)
  <2> HIDE DEF old, new
  <2> QED BY <1>2, <1>3, <1>4 DEF BackedBy
<1> QED
  BY <1>5 DEF Justified

\* The step rule of the argument: whatever record a step leaves somewhere was
\* a copy before the step, or the log accounts for it after the step.
LEMMA CopiesStep ==
    ASSUME TInv, TInv', CopiesJustified, LogGrows,
           \A run \in Copies' \ {NoRun} : run \in Copies \/ Justified(run, log')
    PROVE  CopiesJustified'
<1> SUFFICES ASSUME NEW run \in Copies' \ {NoRun}
             PROVE  Justified(run, log')
  BY DEF CopiesJustified
<1>1. CASE run \in Copies
  <2>1. run \in ExecutionRun
    BY <1>1 DEF Copies, TInv, TypeOK, MaybeRun
  <2>2. Justified(run, log)
    BY <1>1 DEF CopiesJustified
  <2> QED
    BY <2>1, <2>2, JustifiedStays DEF TInv, TypeOK
<1> QED
  BY <1>1
-----------------------------------------------------------------------------
\* Actions that only move records about.
LEMMA SilentStep ==
    ASSUME IInv, TInv', log' = log, Copies' \subseteq Copies \cup {NoRun}
    PROVE  CopiesJustified'
BY UnchangedGrows, CopiesStep DEF IInv, TInv, TypeOK

LEMMA WriteCopies ==
    ASSUME IInv, TInv', NEW s \in Sessions, Write(s) \/ SaveRetries(s)
    PROVE  CopiesJustified' /\ OutcomeOK'
<1>1. Copies' \subseteq Copies \cup {NoRun}
  BY DEF Write, SaveRetries, WriteTmp, Copies
<1>2. CopiesJustified'
  BY <1>1, SilentStep DEF Write, SaveRetries
<1>3. OutcomeOK'
  BY DEF Write, SaveRetries, Goto, IInv, TInv, TypeOK, OutcomeOK, Decided
<1> QED
  BY <1>2, <1>3

LEMMA ReturnCopies ==
    ASSUME IInv, NEW s \in Sessions, NEW verdict, Return(s, verdict),
           {state', tmp', backup'} \subseteq Copies \cup {NoRun}
    PROVE  Copies' \subseteq Copies \cup {NoRun} /\ OutcomeOK'
<1>1. Copies' \subseteq Copies \cup {NoRun}
  BY DEF Return, Copies, IInv, TInv, TypeOK
<1>2. OutcomeOK'
  BY DEF Return, Goto, IInv, TInv, TypeOK, OutcomeOK, Decided
<1> QED
  BY <1>1, <1>2

LEMMA ReplaceCopies ==
    ASSUME IInv, TInv', NEW s \in Sessions, Replace(s)
    PROVE  CopiesJustified' /\ OutcomeOK'
<1>1. {state', tmp', backup'} \subseteq Copies \cup {NoRun}
  BY DEF Replace, ReplaceState, Copies
<1>2. CASE Return(s, answer[s])
  BY <1>1, <1>2, ReturnCopies, SilentStep DEF Replace
<1>3. CASE Goto(s, cont[s]) /\ UNCHANGED <<cont, mem, prev, input, outcome, answer>>
  <2>1. Copies' \subseteq Copies \cup {NoRun}
    BY <1>1, <1>3 DEF Copies
  <2>2. OutcomeOK'
    BY <1>3 DEF Replace, Goto, IInv, TInv, TypeOK, ProcOK, OutcomeOK, Decided
  <2> QED
    BY <2>1, <2>2, SilentStep DEF Replace
<1> QED
  BY <1>2, <1>3 DEF Replace

LEMMA DieCopies ==
    ASSUME IInv, TInv', NEW s \in Sessions, SaveRaises(s) \/ Crash(s)
    PROVE  CopiesJustified' /\ OutcomeOK'
<1>1. Return(s, "none") /\ UNCHANGED storeVars
  BY DEF SaveRaises, Crash, Die
<1>2. {state', tmp', backup'} \subseteq Copies \cup {NoRun}
  BY <1>1 DEF storeVars, Copies
<1> QED
  BY <1>1, <1>2, ReturnCopies, SilentStep DEF storeVars

LEMMA PromptSubmitCopies ==
    ASSUME IInv, TInv', NEW s \in Sessions, NEW skill \in Skills, PromptSubmit(s, skill)
    PROVE  CopiesJustified' /\ OutcomeOK'
<1>1. PICK r \in Runs \ issued, seen \in {state, NoRun} :
        /\ mem' = [mem EXCEPT ![s] = NewRun(r, skill)]
        /\ prev' = [prev EXCEPT ![s] = seen]
        /\ Goto(s, IF seen = NoRun THEN "write" ELSE "ups_end")
  BY DEF PromptSubmit
<1>2. Copies' \subseteq Copies \cup {NoRun, NewRun(r, skill)}
  BY <1>1 DEF PromptSubmit, storeVars, Copies, IInv, TInv, TypeOK
<1>3. LogGrows
  BY UnchangedGrows DEF PromptSubmit, storeVars, IInv, TInv, TypeOK
<1>4. Justified(NewRun(r, skill), log')
  BY DEF Justified, BackedBy, NewRun
<1>5. CopiesJustified'
  BY <1>2, <1>3, <1>4, CopiesStep DEF IInv
<1>6. OutcomeOK'
  BY <1>1 DEF PromptSubmit, Goto, IInv, TInv, TypeOK, OutcomeOK, Decided
<1> QED
  BY <1>5, <1>6

LEMMA EndPreviousCopies ==
    ASSUME IInv, TInv', NEW s \in Sessions, EndPrevious(s)
    PROVE  CopiesJustified' /\ OutcomeOK'
<1>1. prev[s].id \in Runs
  BY DEF EndPrevious, IInv, TInv, ProcOK, ExecutionRun
<1>2. LogGrows
  BY <1>1, AppendGrows DEF EndPrevious, EndStatuses, IInv, TInv, TypeOK
<1>3. Copies' = Copies
  BY DEF EndPrevious, Copies
<1>4. OutcomeOK'
  BY DEF EndPrevious, Goto, IInv, TInv, TypeOK, OutcomeOK, Decided
<1> QED
  BY <1>2, <1>3, <1>4, CopiesStep DEF IInv

LEMMA RetirePreviousCopies ==
    ASSUME IInv, TInv', NEW s \in Sessions, RetirePrevious(s)
    PROVE  CopiesJustified' /\ OutcomeOK'
<1>1. Copies' \subseteq Copies \cup {NoRun}
  BY DEF RetirePrevious, RetireState, Copies
<1>2. OutcomeOK'
  <2>1. cont[s] = "ups_log"
    BY DEF RetirePrevious, IInv, TInv, ProcOK
  <2> QED
    BY <2>1 DEF RetirePrevious, Goto, IInv, TInv, TypeOK, OutcomeOK, Decided
<1> QED
  BY <1>1, <1>2, SilentStep DEF RetirePrevious

LEMMA LogCreatedCopies ==
    ASSUME IInv, TInv', NEW s \in Sessions, LogCreated(s)
    PROVE  CopiesJustified' /\ OutcomeOK'
<1>1. mem[s].id \in Runs
  BY DEF LogCreated, IInv, TInv, ProcOK, ExecutionRun
<1>2. LogGrows
  BY <1>1, AppendGrows DEF LogCreated, IInv, TInv, TypeOK
<1>3. {state', tmp', backup'} \subseteq Copies \cup {NoRun}
  BY DEF LogCreated, Copies
<1>4. CASE Return(s, "none")
  BY <1>2, <1>3, <1>4, ReturnCopies, CopiesStep DEF IInv
<1>5. CASE SaveThen(s, "idle") /\ UNCHANGED <<mem, prev, input, outcome, answer>>
  <2>1. Copies' \subseteq Copies \cup {NoRun}
    BY <1>3, <1>5 DEF Copies
  <2>2. OutcomeOK'
    BY <1>5 DEF SaveThen, Goto, IInv, TInv, TypeOK, OutcomeOK, Decided
  <2> QED
    BY <1>2, <2>1, <2>2, CopiesStep DEF IInv
<1> QED
  BY <1>4, <1>5 DEF LogCreated

LEMMA NoHookCopies ==
    ASSUME IInv, TInv', NEW s \in Sessions,
           StopWithoutRun(s) \/ \E call \in Calls : GateAnswers(s, call)
    PROVE  CopiesJustified' /\ OutcomeOK'
<1>1. UNCHANGED <<storeVars, pc, cont, mem, prev, outcome>>
  BY DEF StopWithoutRun, GateAnswers
<1>2. Copies' = Copies
  BY <1>1 DEF Copies, storeVars
<1>3. OutcomeOK'
  BY <1>1 DEF IInv, OutcomeOK, Decided
<1> QED
  BY <1>1, <1>2, <1>3, SilentStep DEF storeVars

LEMMA LoadCopies ==
    ASSUME IInv, TInv', NEW s \in Sessions,
           \/ \E call \in Calls : PreToolUse(s, call)
           \/ \E path \in Artifacts : ArtifactCreated(s, path)
    PROVE  CopiesJustified' /\ OutcomeOK'
<1>1. /\ UNCHANGED <<storeVars, cont, prev, outcome>>
      /\ mem' = [mem EXCEPT ![s] = state]
      /\ pc' \in {[pc EXCEPT ![s] = "tool_log"], [pc EXCEPT ![s] = "art_log"]}
  BY DEF PreToolUse, ArtifactCreated, Goto
<1>2. Copies' \subseteq Copies \cup {NoRun}
  BY <1>1 DEF Copies, storeVars, IInv, TInv, TypeOK
<1>3. OutcomeOK'
  BY <1>1 DEF IInv, TInv, TypeOK, OutcomeOK, Decided
<1> QED
  BY <1>1, <1>2, <1>3, SilentStep DEF storeVars

LEMMA LogToolCopies ==
    ASSUME IInv, TInv', NEW s \in Sessions, LogTool(s)
    PROVE  CopiesJustified' /\ OutcomeOK'
<1> DEFINE run == mem[s]
           new == AfterToolUse(run, answer[s] = "allow")
<1>1. run \in ExecutionRun /\ run.id \in Runs
  BY DEF LogTool, IInv, TInv, ProcOK, ExecutionRun
<1>2. LogGrows
  BY <1>1, AppendGrows DEF LogTool, IInv, TInv, TypeOK
<1>3. Justified(run, log)
  BY <1>1, NoRunAssumption DEF IInv, CopiesJustified, Copies
<1>4. Justified(new, log')
  <2>1. BackedBy(run, log[run.id])
    BY <1>3 DEF Justified
  <2>2. log[run.id] \in RunLog
    BY <1>1 DEF IInv, TInv, TypeOK
  <2>3. CASE answer[s] = "allow"
    <3>1. new = [run EXCEPT !.phase = NextPhase(@)]
      BY <2>3 DEF AfterToolUse
    <3>2. log'[run.id].allowed = log[run.id].allowed + 1
      BY <1>1, <2>2, <2>3 DEF LogTool, AppendTool, IInv, TInv, TypeOK, RunLog
    <3>3. /\ log'[run.id].blocked = log[run.id].blocked
          /\ log'[run.id].artifacts = log[run.id].artifacts
      BY <1>1, <2>2, <2>3 DEF LogTool, AppendTool, IInv, TInv, TypeOK, RunLog
    <3>4. BackedBy(new, log'[run.id])
      BY <1>1, <2>1, <2>2, <3>1, <3>2, <3>3
         DEF BackedBy, NextPhase, ExecutionRun, Phases, RunLog
    <3> QED
      BY <1>1, <1>3, <3>1, <3>4 DEF Justified, WorkDone, ExecutionRun
  <2>4. CASE answer[s] # "allow"
    <3>1. new = [run EXCEPT !.status = "failed"]
      BY <2>4 DEF AfterToolUse
    <3>2. log'[run.id].blocked = log[run.id].blocked + 1
      BY <1>1, <2>2, <2>4 DEF LogTool, AppendTool, IInv, TInv, TypeOK, RunLog
    <3>3. /\ log'[run.id].allowed = log[run.id].allowed
          /\ log'[run.id].artifacts = log[run.id].artifacts
      BY <1>1, <2>2, <2>4 DEF LogTool, AppendTool, IInv, TInv, TypeOK, RunLog
    <3>4. BackedBy(new, log'[run.id])
      BY <1>1, <2>1, <2>2, <3>1, <3>2, <3>3 DEF BackedBy, ExecutionRun, RunLog
    <3> QED
      BY <1>1, <3>1, <3>4 DEF Justified, ExecutionRun
  <2> QED
    BY <2>3, <2>4
<1>5. Copies' \subseteq Copies \cup {NoRun, new}
  BY DEF LogTool, Copies, IInv, TInv, TypeOK
<1>6. CopiesJustified'
  BY <1>2, <1>4, <1>5, CopiesStep DEF IInv
<1>7. OutcomeOK'
  BY DEF LogTool, SaveThen, Goto, IInv, TInv, TypeOK, OutcomeOK, Decided
<1> QED
  BY <1>6, <1>7
LEMMA LogArtifactCopies ==
    ASSUME IInv, TInv', NEW s \in Sessions, LogArtifact(s)
    PROVE  CopiesJustified' /\ OutcomeOK'
<1> DEFINE run == mem[s]
           path == input[s]
           new == AfterArtifact(run, path)
<1>1. run \in ExecutionRun /\ run.id \in Runs /\ path \in Artifacts
  BY DEF LogArtifact, IInv, TInv, ProcOK, ExecutionRun
<1>2. LogGrows
  BY <1>1, AppendGrows DEF LogArtifact, IInv, TInv, TypeOK
<1>3. Justified(run, log)
  BY <1>1, NoRunAssumption DEF IInv, CopiesJustified, Copies
<1>4. Justified(new, log')
  <2>1. Justified(run, log')
    BY <1>1, <1>2, <1>3, JustifiedStays DEF IInv, TInv, TypeOK
  <2>2. path \in log'[run.id].artifacts
    <3>1. log[run.id] \in RunLog
      BY <1>1 DEF IInv, TInv, TypeOK
    <3> QED
      BY <1>1, <3>1 DEF LogArtifact, AppendArtifact, IInv, TInv, TypeOK, RunLog
  <2>3. /\ new.id = run.id /\ new.skill = run.skill
        /\ new.phase = run.phase /\ new.status = run.status
        /\ new.completed = run.completed \cup {path}
    BY <1>1 DEF AfterArtifact, ExecutionRun
  <2> HIDE DEF new
  <2> QED
    BY <2>1, <2>2, <2>3 DEF Justified, BackedBy, WorkDone
<1>5. Copies' \subseteq Copies \cup {NoRun, new}
  BY DEF LogArtifact, Copies, IInv, TInv, TypeOK
<1>6. CopiesJustified'
  BY <1>2, <1>4, <1>5, CopiesStep DEF IInv
<1>7. OutcomeOK'
  BY DEF LogArtifact, SaveThen, Goto, IInv, TInv, TypeOK, OutcomeOK, Decided
<1> QED
  BY <1>6, <1>7

\* evaluate_completion changes nothing the log accounts for.
LEMMA StopCopies ==
    ASSUME IInv, TInv', NEW s \in Sessions, Stop(s)
    PROVE  CopiesJustified' /\ OutcomeOK'
<1>1. state \in ExecutionRun
  BY DEF Stop, IInv, TInv, TypeOK, MaybeRun
<1>2. PICK response \in ResponsesTo(state) :
        /\ mem' = [mem EXCEPT ![s] = AfterEvaluation(state, response)]
        /\ outcome' = [outcome EXCEPT ![s] = CompletionStatus(state, response)]
        /\ IF EvaluationSaves(state, response)
           THEN SaveThen(s, "stop_final")
           ELSE Goto(s, "stop_final") /\ UNCHANGED cont
  BY DEF Stop
<1> DEFINE new == AfterEvaluation(state, response)
<1>3. /\ new \in ExecutionRun
      /\ new.completed = state.completed /\ new.status = state.status
      /\ new.phase = state.phase /\ new.skill = state.skill
      /\ new.id = state.id
  BY <1>1, ResponseType, AfterEvaluationType
<1>4. LogGrows /\ log' = log
  BY UnchangedGrows DEF Stop, storeVars, IInv, TInv, TypeOK
<1>5. Justified(state, log)
  BY <1>1, NoRunAssumption DEF IInv, CopiesJustified, Copies
<1>6. Justified(new, log')
  <2> HIDE DEF new
  <2> QED BY <1>3, <1>4, <1>5 DEF Justified, BackedBy, WorkDone
<1>7. Copies' \subseteq Copies \cup {NoRun, new}
  BY <1>2 DEF Stop, storeVars, Copies, IInv, TInv, TypeOK
<1>8. CopiesJustified'
  BY <1>4, <1>6, <1>7, CopiesStep DEF IInv
<1>9. mem'[s] = new /\ outcome'[s] = CompletionStatus(state, response)
  BY <1>2 DEF IInv, TInv, TypeOK
<1>10. OutcomeOK'
  <2> SUFFICES ASSUME NEW t \in Sessions, Decided(t)'
               PROVE  /\ outcome'[t] = "failed" => mem'[t].status = "failed"
                      /\ /\ outcome'[t] = "complete"
                         /\ Contract[mem'[t].skill].type # "structured-output"
                         => WorkDone(mem'[t])
    BY DEF OutcomeOK
  <2>1. CASE t # s
    <3>1. mem'[t] = mem[t] /\ outcome'[t] = outcome[t] /\ Decided(t)
      BY <1>2, <2>1 DEF Stop, SaveThen, Goto, Decided, IInv, TInv, TypeOK
    <3> QED
      BY <3>1 DEF IInv, OutcomeOK
  <2>2. CASE t = s
    <3>1. outcome'[s] = "failed" => new.status = "failed"
      BY <1>3, <1>9 DEF CompletionStatus
    <3>2. outcome'[s] = "complete" => Satisfied(state, response)
      BY <1>9 DEF CompletionStatus
    <3>3. /\ outcome'[s] = "complete"
          /\ Contract[state.skill].type # "structured-output"
          => WorkDone(state)
      BY <3>2 DEF Satisfied
    <3> HIDE DEF new
    <3> QED
      BY <1>3, <1>9, <2>2, <3>1, <3>3 DEF WorkDone
  <2> QED
    BY <2>1, <2>2
<1> QED
  BY <1>8, <1>10

\* finalize_run writes the outcome down, which evaluate_completion justified.
LEMMA FinalizeCopies ==
    ASSUME IInv, TInv', NEW s \in Sessions, Finalize(s)
    PROVE  CopiesJustified' /\ OutcomeOK'
<1> DEFINE run == mem[s]
           new == [run EXCEPT !.status = outcome[s]]
<1>1. run \in ExecutionRun
  BY DEF Finalize, IInv, TInv, ProcOK
<1>2. LogGrows /\ log' = log
  BY UnchangedGrows DEF Finalize, storeVars, IInv, TInv, TypeOK
<1>3. Justified(run, log)
  BY <1>1, NoRunAssumption DEF IInv, CopiesJustified, Copies
<1>4. /\ outcome[s] = "failed" => run.status = "failed"
      /\ /\ outcome[s] = "complete"
         /\ Contract[run.skill].type # "structured-output"
         => WorkDone(run)
  BY DEF Finalize, IInv, OutcomeOK, Decided
<1>5. /\ new.id = run.id /\ new.skill = run.skill /\ new.phase = run.phase
      /\ new.completed = run.completed /\ new.status = outcome[s]
  BY <1>1 DEF ExecutionRun
<1>6. mem' = [mem EXCEPT ![s] = new]
  BY DEF Finalize
<1>7. Justified(new, log')
  <2> HIDE DEF new
  <2> QED BY <1>2, <1>3, <1>4, <1>5 DEF Justified, BackedBy, WorkDone
<1>8. Copies' \subseteq Copies \cup {NoRun, new}
  <2> HIDE DEF new
  <2> QED BY <1>6 DEF Finalize, storeVars, Copies, IInv, TInv, TypeOK
<1>9. CopiesJustified'
  BY <1>2, <1>7, <1>8, CopiesStep DEF IInv
<1>10. OutcomeOK'
  <2> HIDE DEF new
  <2> QED
    BY <1>6 DEF Finalize, SaveThen, Goto, IInv, TInv, TypeOK, OutcomeOK, Decided
<1> QED
  BY <1>9, <1>10

LEMMA EndRunCopies ==
    ASSUME IInv, TInv', NEW s \in Sessions, EndRun(s)
    PROVE  CopiesJustified' /\ OutcomeOK'
<1>1. mem[s].id \in Runs /\ outcome[s] \in EndStatuses
  BY DEF EndRun, EndStatuses, IInv, TInv, TypeOK, ProcOK, ExecutionRun
<1>2. LogGrows
  BY <1>1, AppendGrows DEF EndRun, IInv, TInv, TypeOK
<1>3. Copies' = Copies
  BY DEF EndRun, Copies
<1>4. OutcomeOK'
  BY DEF EndRun, Goto, IInv, TInv, TypeOK, OutcomeOK, Decided
<1> QED
  BY <1>2, <1>3, <1>4, CopiesStep DEF IInv

LEMMA RetireRunCopies ==
    ASSUME IInv, TInv', NEW s \in Sessions, RetireRun(s)
    PROVE  CopiesJustified' /\ OutcomeOK'
<1>1. {state', tmp', backup'} \subseteq Copies \cup {NoRun} /\ log' = log
  BY DEF RetireRun, RetireState, Copies
<1>2. \E verdict : Return(s, verdict)
  BY DEF RetireRun
<1> QED
  BY <1>1, <1>2, ReturnCopies, SilentStep

-----------------------------------------------------------------------------
LEMMA IInvInit == Init => IInv
<1> SUFFICES ASSUME Init PROVE IInv
  OBVIOUS
<1>1. TInv
  BY TypeInit
<1>2. Copies \subseteq {NoRun}
  BY DEF Init, StoreInit, Copies
<1>3. OutcomeOK
  BY DEF Init, OutcomeOK, Decided
<1> QED
  BY <1>1, <1>2, <1>3 DEF IInv, CopiesJustified

LEMMA IInvStep == IInv /\ [Next]_vars => IInv'
<1> SUFFICES ASSUME IInv, [Next]_vars PROVE IInv'
  OBVIOUS
<1>1. TInv'
  BY TypeStep DEF IInv
<1>2. CASE Next
  <2>1. PICK s \in Sessions :
          HookStarts(s) \/ HookRuns(s) \/ SaveRetries(s) \/ Crash(s)
    BY <1>2 DEF Next
  <2>2. CASE HookStarts(s)
    BY <1>1, <2>2, PromptSubmitCopies, NoHookCopies, LoadCopies, StopCopies
       DEF HookStarts, IInv
  <2>3. CASE HookRuns(s)
    BY <1>1, <2>3, WriteCopies, ReplaceCopies, DieCopies, EndPreviousCopies,
       RetirePreviousCopies, LogCreatedCopies, LogToolCopies,
       LogArtifactCopies, FinalizeCopies, EndRunCopies, RetireRunCopies
       DEF HookRuns, IInv
  <2>4. CASE SaveRetries(s) \/ Crash(s)
    BY <1>1, <2>4, WriteCopies, DieCopies DEF IInv
  <2> QED
    BY <2>1, <2>2, <2>3, <2>4
<1>3. CASE UNCHANGED vars
  <2>1. Copies' = Copies /\ log' = log
    BY <1>3 DEF vars, storeVars, procVars, Copies
  <2>2. OutcomeOK'
    BY <1>3 DEF vars, procVars, IInv, OutcomeOK, Decided
  <2> QED
    BY <1>1, <2>1, <2>2, SilentStep DEF IInv
<1> QED
  BY <1>2, <1>3

THEOREM InductiveInvariant == Spec => []IInv
BY IInvInit, IInvStep, PTL DEF Spec

\* No copy of a run is ever ahead of the log: record_tool_use and
\* record_artifact_created append before they save, and no interleaving, crash
\* or overwritten file can undo that order.
THEOREM LogAccounts == Spec => []LogLeadsState
<1>1. IInv => LogLeadsState
  BY DEF IInv, CopiesJustified, Justified, LogLeadsState
<1> QED
  BY InductiveInvariant, <1>1, PTL

\* A run marked complete has done its contract's work, as the log shows:
\* evaluate_completion's rule survives every stale copy that another process
\* saves over it.
THEOREM CompletionEarned == Spec => []CompletionIsEarned
<1>1. IInv => CompletionIsEarned
  BY DEF IInv, CopiesJustified, Justified, BackedBy, WorkDone, CompletionIsEarned
<1> QED
  BY InductiveInvariant, <1>1, PTL
=============================================================================
