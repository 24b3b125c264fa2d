-------------------------- MODULE ExecutionProofs --------------------------
(***************************************************************************)
(* Theorems about the execution-contract runtime, for any number of        *)
(* sessions, runs, skills, tools and artifacts, any contracts, any number  *)
(* of crashes and failing reads, and every interleaving of the processes.  *)
(***************************************************************************)
EXTENDS ExecutionProperties, TLAPS

(***************************************************************************)
(* What the store and the runtime operators return.                        *)
(***************************************************************************)
LEMMA NewRunType ==
    ASSUME NEW r \in Runs, NEW skill \in Skills
    PROVE  NewRun(r, skill) \in ExecutionRun
BY DEF NewRun, ExecutionRun, Phases, RunStatuses

LEMMA AfterToolUseType ==
    ASSUME NEW run \in ExecutionRun, NEW allowed \in BOOLEAN
    PROVE  AfterToolUse(run, allowed) \in ExecutionRun
BY DEF AfterToolUse, NextPhase, ExecutionRun, Phases, RunStatuses

LEMMA AfterArtifactType ==
    ASSUME NEW run \in ExecutionRun, NEW path \in Artifacts
    PROVE  AfterArtifact(run, path) \in ExecutionRun
BY DEF AfterArtifact, ExecutionRun

LEMMA ResponseType ==
    ASSUME NEW run \in ExecutionRun, NEW response \in ResponsesTo(run)
    PROVE  response \in Response
<1>1. run.skill \in Skills
  BY DEF ExecutionRun
<1>2. Contract[run.skill].sections \subseteq Items
  BY <1>1, ContractAssumption
<1>3. [given : {TRUE}, unmet : SUBSET Contract[run.skill].sections] \subseteq Response
  BY <1>2 DEF Response
<1>4. NoResponse \in Response
  BY DEF NoResponse, Response
<1> QED
  BY <1>3, <1>4 DEF ResponsesTo

LEMMA AfterEvaluationType ==
    ASSUME NEW run \in ExecutionRun, NEW response \in Response
    PROVE  /\ AfterEvaluation(run, response) \in ExecutionRun
           /\ AfterEvaluation(run, response).completed = run.completed
           /\ AfterEvaluation(run, response).status = run.status
           /\ AfterEvaluation(run, response).phase = run.phase
           /\ AfterEvaluation(run, response).skill = run.skill
           /\ AfterEvaluation(run, response).id = run.id
BY DEF AfterEvaluation, ExecutionRun, Response

LEMMA CompletionStatusType ==
    ASSUME NEW run, NEW response
    PROVE  CompletionStatus(run, response) \in RunStatuses
BY DEF CompletionStatus, RunStatuses

LEMMA RunLogType ==
    ASSUME NEW l \in RunLog
    PROVE  /\ [l EXCEPT !.created = TRUE] \in RunLog
           /\ [l EXCEPT !.allowed = @ + 1] \in RunLog
           /\ [l EXCEPT !.blocked = @ + 1] \in RunLog
           /\ \A path \in Artifacts : [l EXCEPT !.artifacts = @ \cup {path}] \in RunLog
           /\ \A status \in EndStatuses : [l EXCEPT !.ended = Append(@, status)] \in RunLog
<1>1. [l EXCEPT !.created = TRUE] \in RunLog
  BY DEF RunLog
<1>2. [l EXCEPT !.allowed = @ + 1] \in RunLog
  BY DEF RunLog
<1>3. [l EXCEPT !.blocked = @ + 1] \in RunLog
  BY DEF RunLog
<1>4. ASSUME NEW path \in Artifacts
      PROVE  [l EXCEPT !.artifacts = @ \cup {path}] \in RunLog
  BY DEF RunLog
<1>5. ASSUME NEW status \in EndStatuses
      PROVE  [l EXCEPT !.ended = Append(@, status)] \in RunLog
  <2>1. Append(l.ended, status) \in Seq(EndStatuses)
    BY <1>5 DEF RunLog
  <2> DEFINE e == Append(l.ended, status)
  <2>2. e \in Seq(EndStatuses)
    BY <2>1
  <2> HIDE DEF e
  <2>3. [l EXCEPT !.ended = e] \in RunLog
    BY <2>2 DEF RunLog
  <2> QED
    BY <2>3 DEF e
<1> QED
  BY <1>1, <1>2, <1>3, <1>4, <1>5

LEMMA LogType ==
    ASSUME log \in [Runs -> RunLog], NEW r \in Runs,
           \/ AppendCreated(r)
           \/ \E allowed \in BOOLEAN : AppendTool(r, allowed)
           \/ \E path \in Artifacts : AppendArtifact(r, path)
           \/ \E status \in EndStatuses : AppendEnded(r, status)
    PROVE  log' \in [Runs -> RunLog]
<1>1. log[r] \in RunLog
  OBVIOUS
<1>2. PICK l \in RunLog : log' = [log EXCEPT ![r] = l]
  BY <1>1, RunLogType
     DEF AppendCreated, AppendTool, AppendArtifact, AppendEnded
<1> QED
  BY <1>2

(***************************************************************************)
(* Type correctness.  TypeOK is not inductive: what a process does next    *)
(* depends on what it holds, so the invariant also says which variables    *)
(* are defined where.                                                      *)
(***************************************************************************)
ProcOK ==
    \A s \in Sessions :
        /\ pc[s] # "idle" => mem[s] \in ExecutionRun
        /\ pc[s] = "ups_end" => prev[s] \in ExecutionRun
        /\ pc[s] \in {"ups_end", "ups_retire"} => cont[s] = "ups_log"
        /\ pc[s] = "art_log" => input[s] \in Artifacts
        /\ cont[s] \in {"idle", "ups_log", "stop_final", "stop_end"}

TInv == TypeOK /\ ProcOK

LEMMA TypeInit == Init => TInv
BY HooksAssumption
   DEF Init, StoreInit, TInv, TypeOK, ProcOK, MaybeRun, Labels, RunStatuses,
       Answers, EmptyRunLog, RunLog, EndStatuses

LEMMA ReturnType ==
    ASSUME TInv, NEW s \in Sessions, NEW verdict \in Answers, Return(s, verdict)
    PROVE  /\ pc' \in [Sessions -> Labels]
           /\ cont' \in [Sessions -> Labels]
           /\ mem' \in [Sessions -> MaybeRun]
           /\ prev' \in [Sessions -> MaybeRun]
           /\ input' \in [Sessions -> Calls \cup Artifacts \cup {NoInput}]
           /\ outcome' \in [Sessions -> RunStatuses]
           /\ answer' \in [Sessions -> Answers]
           /\ ProcOK'
BY DEF TInv, TypeOK, ProcOK, Return, Goto, Labels, MaybeRun, RunStatuses

LEMMA WriteType ==
    ASSUME TInv, NEW s \in Sessions, Write(s) \/ SaveRetries(s)
    PROVE  TInv'
BY DEF TInv, TypeOK, ProcOK, Write, SaveRetries, WriteTmp, Goto, Labels, faultVars

LEMMA ReplaceType ==
    ASSUME TInv, NEW s \in Sessions, Replace(s)
    PROVE  TInv'
<1>1. /\ state' \in MaybeRun /\ tmp' \in MaybeRun
      /\ UNCHANGED <<backup, log, issued, crashes, loadFaults>>
  BY DEF Replace, ReplaceState, TInv, TypeOK, MaybeRun, faultVars
<1>2. mem[s].id \in Runs
  BY DEF Replace, TInv, ProcOK, ExecutionRun
<1>3. CASE cont[s] = "idle"
  <2>1. Return(s, answer[s]) /\ answer[s] \in Answers
    BY <1>3 DEF Replace, TInv, TypeOK
  <2>2. denials' \subseteq {"tool", "stop"} \X Runs
    BY <1>2, <1>3 DEF Replace, TInv, TypeOK
  <2> QED
    BY <1>1, <2>1, <2>2, ReturnType DEF TInv, TypeOK
<1>4. CASE cont[s] # "idle"
  BY <1>1, <1>4 DEF Replace, Goto, TInv, TypeOK, ProcOK, Labels
<1> QED
  BY <1>3, <1>4

LEMMA PromptSubmitType ==
    ASSUME TInv, NEW s \in Sessions, NEW skill \in Skills, PromptSubmit(s, skill)
    PROVE  TInv'
<1>1. PICK r \in Runs \ issued, seen \in {state, NoRun} :
        /\ Load(seen)
        /\ issued' = issued \cup {r}
        /\ mem' = [mem EXCEPT ![s] = NewRun(r, skill)]
        /\ prev' = [prev EXCEPT ![s] = seen]
        /\ Goto(s, IF seen = NoRun THEN "write" ELSE "ups_end")
  BY DEF PromptSubmit
<1>2. NewRun(r, skill) \in ExecutionRun
  BY NewRunType
<1>3. seen \in MaybeRun /\ (seen # NoRun => seen \in ExecutionRun)
  BY DEF TInv, TypeOK, MaybeRun
<1>4. loadFaults' \in 0..MaxLoadFaults
  BY <1>1, HooksAssumption DEF Load, TInv, TypeOK
<1> QED
  BY <1>1, <1>2, <1>3, <1>4
     DEF PromptSubmit, storeVars, Goto, TInv, TypeOK, ProcOK, MaybeRun, Labels,
         Answers
LEMMA EndPreviousType ==
    ASSUME TInv, NEW s \in Sessions, EndPrevious(s)
    PROVE  TInv'
<1>1. prev[s].id \in Runs
  BY DEF EndPrevious, TInv, ProcOK, ExecutionRun
<1>2. log' \in [Runs -> RunLog]
  BY <1>1, LogType DEF EndPrevious, EndStatuses, TInv, TypeOK
<1> QED
  BY <1>2 DEF EndPrevious, Goto, TInv, TypeOK, ProcOK, Labels, faultVars

LEMMA RetirePreviousType ==
    ASSUME TInv, NEW s \in Sessions, RetirePrevious(s)
    PROVE  TInv'
BY DEF RetirePrevious, RetireState, Goto, TInv, TypeOK, ProcOK, MaybeRun, Labels,
       faultVars

LEMMA LogCreatedType ==
    ASSUME TInv, NEW s \in Sessions, LogCreated(s)
    PROVE  TInv'
<1>1. mem[s].id \in Runs
  BY DEF LogCreated, TInv, ProcOK, ExecutionRun
<1>2. log' \in [Runs -> RunLog]
  BY <1>1, LogType DEF LogCreated, TInv, TypeOK
<1>3. CASE Return(s, "none")
  BY <1>2, <1>3, ReturnType DEF LogCreated, TInv, TypeOK, Answers, faultVars
<1>4. CASE SaveThen(s, "idle") /\ UNCHANGED <<mem, prev, input, outcome, answer>>
  BY <1>2, <1>4
     DEF LogCreated, SaveThen, Goto, TInv, TypeOK, ProcOK, Labels, faultVars
<1> QED
  BY <1>3, <1>4 DEF LogCreated

LEMMA GateAnswersType ==
    ASSUME TInv, NEW s \in Sessions, NEW call \in Calls, GateAnswers(s, call)
    PROVE  TInv'
<1>1. loadFaults' \in 0..MaxLoadFaults
  BY HooksAssumption DEF GateAnswers, Load, TInv, TypeOK
<1>2. answer' \in [Sessions -> Answers]
  BY DEF GateAnswers, TInv, TypeOK, Answers
<1> QED
  BY <1>1, <1>2 DEF GateAnswers, storeVars, TInv, TypeOK, ProcOK

LEMMA PreToolUseType ==
    ASSUME TInv, NEW s \in Sessions, NEW call \in Calls, PreToolUse(s, call)
    PROVE  TInv'
BY DEF PreToolUse, Goto, TInv, TypeOK, ProcOK, MaybeRun, Labels, Answers,
       storeVars, faultVars

LEMMA LogToolType ==
    ASSUME TInv, NEW s \in Sessions, LogTool(s)
    PROVE  TInv'
<1>1. mem[s] \in ExecutionRun /\ mem[s].id \in Runs
  BY DEF LogTool, TInv, ProcOK, ExecutionRun
<1>2. log' \in [Runs -> RunLog]
  BY <1>1, LogType DEF LogTool, TInv, TypeOK
<1>3. AfterToolUse(mem[s], answer[s] = "allow") \in ExecutionRun
  BY <1>1, AfterToolUseType
<1> QED
  BY <1>2, <1>3
     DEF LogTool, SaveThen, Goto, TInv, TypeOK, ProcOK, MaybeRun, Labels, faultVars

LEMMA ArtifactCreatedType ==
    ASSUME TInv, NEW s \in Sessions, NEW path \in Artifacts, ArtifactCreated(s, path)
    PROVE  TInv'
BY DEF ArtifactCreated, Goto, TInv, TypeOK, ProcOK, MaybeRun, Labels, Answers,
       storeVars, faultVars

LEMMA LogArtifactType ==
    ASSUME TInv, NEW s \in Sessions, LogArtifact(s)
    PROVE  TInv'
<1>1. mem[s] \in ExecutionRun /\ mem[s].id \in Runs /\ input[s] \in Artifacts
  BY DEF LogArtifact, TInv, ProcOK, ExecutionRun
<1>2. log' \in [Runs -> RunLog]
  BY <1>1, LogType DEF LogArtifact, TInv, TypeOK
<1>3. AfterArtifact(mem[s], input[s]) \in ExecutionRun
  BY <1>1, AfterArtifactType
<1> QED
  BY <1>2, <1>3
     DEF LogArtifact, SaveThen, Goto, TInv, TypeOK, ProcOK, MaybeRun, Labels,
         faultVars

LEMMA StopWithoutRunType ==
    ASSUME TInv, NEW s \in Sessions, StopWithoutRun(s)
    PROVE  TInv'
<1>1. loadFaults' \in 0..MaxLoadFaults
  BY HooksAssumption DEF StopWithoutRun, Load, TInv, TypeOK
<1> QED
  BY <1>1 DEF StopWithoutRun, storeVars, TInv, TypeOK, ProcOK, Answers

LEMMA StopType ==
    ASSUME TInv, NEW s \in Sessions, Stop(s)
    PROVE  TInv'
<1>1. state \in ExecutionRun
  BY DEF Stop, TInv, TypeOK, MaybeRun
<1>2. PICK response \in ResponsesTo(state) :
        /\ mem' = [mem EXCEPT ![s] = AfterEvaluation(state, response)]
        /\ outcome' = [outcome EXCEPT ![s] = CompletionStatus(state, response)]
        /\ IF EvaluationSaves(state, response)
           THEN SaveThen(s, "stop_final")
           ELSE Goto(s, "stop_final") /\ UNCHANGED cont
  BY DEF Stop
<1>3. AfterEvaluation(state, response) \in ExecutionRun
  BY <1>1, ResponseType, AfterEvaluationType
<1>4. CompletionStatus(state, response) \in RunStatuses
  BY CompletionStatusType
<1>5. pc' \in [Sessions -> Labels] /\ cont' \in [Sessions -> Labels]
  BY <1>2 DEF SaveThen, Goto, TInv, TypeOK, Labels
<1>6. ProcOK'
  BY <1>1, <1>2, <1>3 DEF Stop, SaveThen, Goto, TInv, TypeOK, ProcOK
<1> QED
  BY <1>2, <1>3, <1>4, <1>5, <1>6
     DEF Stop, TInv, TypeOK, MaybeRun, Answers, storeVars, faultVars

LEMMA FinalizeType ==
    ASSUME TInv, NEW s \in Sessions, Finalize(s)
    PROVE  TInv'
<1>1. mem[s] \in ExecutionRun /\ outcome[s] \in RunStatuses
  BY DEF Finalize, TInv, TypeOK, ProcOK
<1>2. [mem[s] EXCEPT !.status = outcome[s]] \in ExecutionRun
  BY <1>1 DEF ExecutionRun
<1>3. mem' = [mem EXCEPT ![s] = [mem[s] EXCEPT !.status = outcome[s]]]
  BY DEF Finalize
<1> QED
  BY <1>2, <1>3
     DEF Finalize, SaveThen, Goto, TInv, TypeOK, ProcOK, MaybeRun, Labels,
         storeVars, faultVars

LEMMA EndRunType ==
    ASSUME TInv, NEW s \in Sessions, EndRun(s)
    PROVE  TInv'
<1>1. mem[s].id \in Runs /\ outcome[s] \in EndStatuses
  BY DEF EndRun, EndStatuses, TInv, TypeOK, ProcOK, ExecutionRun
<1>2. log' \in [Runs -> RunLog]
  BY <1>1, LogType DEF EndRun, TInv, TypeOK
<1> QED
  BY <1>2 DEF EndRun, Goto, TInv, TypeOK, ProcOK, Labels, faultVars

LEMMA RetireRunType ==
    ASSUME TInv, NEW s \in Sessions, RetireRun(s)
    PROVE  TInv'
<1>1. mem[s].id \in Runs
  BY DEF RetireRun, TInv, ProcOK, ExecutionRun
<1>2. state' \in MaybeRun /\ backup' \in MaybeRun
  BY DEF RetireRun, RetireState, TInv, TypeOK, MaybeRun
<1>3. denials' \subseteq {"tool", "stop"} \X Runs
  BY <1>1 DEF RetireRun, TInv, TypeOK
<1>4. PICK verdict \in Answers : Return(s, verdict)
  BY DEF RetireRun, Answers
<1> QED
  BY <1>2, <1>3, <1>4, ReturnType DEF RetireRun, TInv, TypeOK, faultVars

LEMMA DieType ==
    ASSUME TInv, NEW s \in Sessions, SaveRaises(s) \/ Crash(s)
    PROVE  TInv'
<1>1. Return(s, "none")
  BY DEF SaveRaises, Crash, Die
<1>2. crashes' \in 0..MaxCrashes /\ loadFaults' \in 0..MaxLoadFaults
  BY HooksAssumption DEF SaveRaises, Crash, TInv, TypeOK, faultVars
<1> QED
  BY <1>1, <1>2, ReturnType
     DEF SaveRaises, Crash, TInv, TypeOK, Answers, storeVars

LEMMA TypeStutter ==
    ASSUME TInv, UNCHANGED vars
    PROVE  TInv'
BY DEF TInv, TypeOK, ProcOK, vars, storeVars, procVars, faultVars

LEMMA TypeStep == TInv /\ [Next]_vars => TInv'
<1> SUFFICES ASSUME TInv, [Next]_vars PROVE TInv'
  OBVIOUS
<1>1. CASE Next
  <2>1. PICK s \in Sessions :
          HookStarts(s) \/ HookRuns(s) \/ SaveRetries(s) \/ Crash(s)
    BY <1>1 DEF Next
  <2>2. CASE HookStarts(s)
    BY <2>2, PromptSubmitType, GateAnswersType, PreToolUseType,
       ArtifactCreatedType, StopWithoutRunType, StopType DEF HookStarts
  <2>3. CASE HookRuns(s)
    BY <2>3, WriteType, ReplaceType, DieType, EndPreviousType,
       RetirePreviousType, LogCreatedType, LogToolType, LogArtifactType,
       FinalizeType, EndRunType, RetireRunType DEF HookRuns
  <2> QED
    BY <2>1, <2>2, <2>3, WriteType, DieType
<1>2. CASE UNCHANGED vars
  BY <1>2, TypeStutter
<1> QED
  BY <1>1, <1>2

\* Every variable keeps its type, however many processes interleave: this is
\* about all the hook handlers and the store's system calls.
THEOREM TypeCorrect == Spec => []TypeOK
<1>1. TInv => TypeOK
  BY DEF TInv
<1> QED
  BY TypeInit, TypeStep, <1>1, PTL DEF Spec

-----------------------------------------------------------------------------
(***************************************************************************)
(* Every hook comes to an end, the part of liveness that is not a matter   *)
(* of fairness.                                                            *)
(***************************************************************************)
LEMMA ReturnEnds ==
    ASSUME TInv, NEW s \in Sessions, NEW verdict, Return(s, verdict), pc[s] # "idle"
    PROVE  CallsLeft(s)' < CallsLeft(s)
<1>1. pc'[s] = "idle"
  BY DEF Return, Goto, TInv, TypeOK
<1>2. pc[s] \in Labels /\ cont[s] \in {"idle", "ups_log", "stop_final", "stop_end"}
  BY DEF TInv, TypeOK, ProcOK
<1> QED
  BY <1>1, <1>2 DEF CallsLeft, CallsAfter, Labels

LEMMA SaveThenLeaves ==
    ASSUME TInv, NEW s \in Sessions, NEW label \in {"idle", "stop_final", "stop_end"},
           SaveThen(s, label)
    PROVE  CallsLeft(s)' = CallsAfter[label] + 3
<1>1. pc'[s] = "write" /\ cont'[s] = label
  BY DEF SaveThen, Goto, TInv, TypeOK
<1> QED
  BY <1>1 DEF CallsLeft

LEMMA HookRunsDown ==
    ASSUME TInv, NEW s \in Sessions,
           HookRuns(s) \/ SaveRetries(s) \/ Crash(s)
    PROVE  CallsLeft(s)' < CallsLeft(s)
<1>1. /\ pc[s] \in Labels /\ pc \in [Sessions -> Labels]
      /\ cont[s] \in {"idle", "ups_log", "stop_final", "stop_end"}
      /\ pc[s] \in {"ups_end", "ups_retire"} => cont[s] = "ups_log"
  BY DEF TInv, TypeOK, ProcOK
<1>2. CASE Write(s) \/ SaveRetries(s)
  <2>1. /\ cont' = cont
        /\ \/ pc[s] = "write" /\ pc'[s] = "replace"
           \/ pc[s] = "replace" /\ pc'[s] = "retry"
    BY <1>1, <1>2 DEF Write, SaveRetries, Goto
  <2> QED
    BY <1>1, <2>1 DEF CallsLeft, CallsAfter
<1>3. CASE Replace(s)
  <2>1. pc[s] \in {"replace", "retry"}
    BY <1>3 DEF Replace
  <2>2. CASE cont[s] = "idle"
    BY <1>3, <2>1, <2>2, ReturnEnds DEF Replace
  <2>3. CASE cont[s] # "idle"
    <3>1. pc'[s] = cont[s]
      BY <1>1, <1>3, <2>3 DEF Replace, Goto
    <3> QED
      BY <1>1, <2>1, <2>3, <3>1 DEF CallsLeft, CallsAfter
  <2> QED
    BY <2>2, <2>3
<1>4. CASE SaveRaises(s) \/ Crash(s)
  BY <1>4, ReturnEnds DEF SaveRaises, Crash, Die
<1>5. CASE EndPrevious(s) \/ RetirePrevious(s)
  <2>1. /\ cont' = cont
        /\ \/ pc[s] = "ups_end" /\ pc'[s] = "ups_retire"
           \/ pc[s] = "ups_retire" /\ pc'[s] = "write"
    BY <1>1, <1>5 DEF EndPrevious, RetirePrevious, Goto
  <2> QED
    BY <1>1, <2>1 DEF CallsLeft, CallsAfter
<1>6. CASE LogCreated(s)
  <2>1. pc[s] = "ups_log" /\ (Return(s, "none") \/ SaveThen(s, "idle"))
    BY <1>6 DEF LogCreated
  <2> QED
    BY <2>1, ReturnEnds, SaveThenLeaves DEF CallsLeft, CallsAfter
<1>7. CASE LogTool(s) \/ LogArtifact(s)
  <2>1. pc[s] \in {"tool_log", "art_log"} /\ SaveThen(s, "idle")
    BY <1>7 DEF LogTool, LogArtifact
  <2> QED
    BY <2>1, SaveThenLeaves DEF CallsLeft, CallsAfter
<1>8. CASE Finalize(s)
  <2>1. pc[s] = "stop_final" /\ SaveThen(s, "stop_end")
    BY <1>8 DEF Finalize
  <2> QED
    BY <2>1, SaveThenLeaves DEF CallsLeft, CallsAfter
<1>9. CASE EndRun(s)
  <2>1. pc[s] = "stop_end" /\ pc'[s] = "stop_retire"
    BY <1>1, <1>9 DEF EndRun, Goto
  <2> QED
    BY <2>1 DEF CallsLeft, CallsAfter
<1>10. CASE RetireRun(s)
  BY <1>10, ReturnEnds DEF RetireRun
<1> QED
  BY <1>2, <1>3, <1>4, <1>5, <1>6, <1>7, <1>8, <1>9, <1>10 DEF HookRuns

LEMMA OthersWait ==
    ASSUME TInv, NEW t \in Sessions,
           HookStarts(t) \/ HookRuns(t) \/ SaveRetries(t) \/ Crash(t),
           NEW s \in Sessions, s # t
    PROVE  pc'[s] = pc[s] /\ cont'[s] = cont[s]
<1> USE DEF Goto, SaveThen, Return, TInv, TypeOK
<1>1. CASE HookStarts(t)
  BY <1>1
     DEF HookStarts, PromptSubmit, GateAnswers, PreToolUse, ArtifactCreated,
         StopWithoutRun, Stop
<1>2. CASE SaveRetries(t) \/ Crash(t)
  BY <1>2 DEF SaveRetries, Crash, Die
<1>3. CASE HookRuns(t)
  BY <1>3
     DEF HookRuns, Write, Replace, SaveRaises, Die, EndPrevious, RetirePrevious,
         LogCreated, LogTool, LogArtifact, Finalize, EndRun, RetireRun
<1> QED
  BY <1>1, <1>2, <1>3

\* HooksComeToAnEnd, of one step.
HooksGoOn ==
    \A s \in Sessions :
        pc[s] # "idle" /\ <<pc'[s], cont'[s]>> # <<pc[s], cont[s]>>
        => CallsLeft(s)' < CallsLeft(s)

LEMMA EndStep == TInv /\ [Next]_vars => HooksGoOn
<1> SUFFICES ASSUME TInv, [Next]_vars, NEW s \in Sessions, pc[s] # "idle",
                    <<pc'[s], cont'[s]>> # <<pc[s], cont[s]>>
             PROVE  CallsLeft(s)' < CallsLeft(s)
  BY DEF HooksGoOn
<1>1. CASE Next
  <2>1. PICK t \in Sessions :
          HookStarts(t) \/ HookRuns(t) \/ SaveRetries(t) \/ Crash(t)
    BY <1>1 DEF Next
  <2>2. t = s
    BY <2>1, OthersWait
  <2>3. ~HookStarts(s)
    BY DEF HookStarts, PromptSubmit, GateAnswers, PreToolUse, ArtifactCreated,
           StopWithoutRun, Stop
  <2> QED
    BY <2>1, <2>2, <2>3, HookRunsDown
<1>2. CASE UNCHANGED vars
  BY <1>2 DEF vars, procVars
<1> QED
  BY <1>1, <1>2

\* For any number of sessions that write the same files, hooks that are killed
\* and renames that are refused: every call of a hook leaves it fewer, so none
\* goes round in circles; this is about _atomic_write_json retrying once only.
THEOREM HooksTerminate == Spec => HooksComeToAnEnd
<1>1. TInv /\ [Next]_vars => [HooksGoOn]_vars
  BY EndStep
<1> QED
  BY TypeInit, TypeStep, <1>1, PTL DEF Spec, HooksComeToAnEnd, HooksGoOn
=============================================================================
