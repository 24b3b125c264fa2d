--------------------------- MODULE ExecutionHooks ---------------------------
(***************************************************************************)
(* The hook processes of one terminal: UserPromptSubmit creates the run,   *)
(* PreToolUse gates and records every tool, record_artifact_created notes  *)
(* an artifact, Stop evaluates and ends the run.                           *)
(*                                                                         *)
(* Each hook call is an operating-system process that reads and writes the *)
(* files of ExecutionStore one system call at a time.  A Claude session    *)
(* runs its hooks one after the other; sessions that share a terminal id   *)
(* (WT_SESSION is shared by all sessions of one Windows Terminal) run      *)
(* theirs side by side.  One element of Sessions gives the serial system,  *)
(* two give the interleavings.                                             *)
(***************************************************************************)
EXTENDS ExecutionRuntime

CONSTANTS
    Sessions,           \* Claude sessions attached to this terminal id
    Calls,              \* the tool calls PreToolUse is asked about
    InvestigationTools, \* _INVESTIGATION_TOOLS
    WriteTools,         \* Write, Edit, MultiEdit
    ExemptCommands,     \* commands should_block_command lets through
    NonSkillCommands,   \* _NON_SKILL_COMMANDS of the prompt hook
    SkillTool,          \* the tool name "Skill"
    NoSkill,            \* no slash command in the payload
    NoInput,
    MaxToolEvents,      \* bound: tool events per run
    MaxEnds,            \* bound: run_ended lines a run may have when a hook
                        \* that would add one more starts
    MaxCrashes,         \* bound: hook processes killed half-way
    MaxLoadFaults       \* bound: reads that fail with OSError

\* A call is the tool, the slash command typed in the payload's message, the
\* skill a Skill call names, and what the authority gate reads in the
\* transcript: whether the last user message authorises file changes.
ToolCall ==
    [ tool       : Tools,
      typed      : Skills \cup {NoSkill},
      named      : Skills \cup {NoSkill},
      authorised : BOOLEAN ]

ASSUME HooksAssumption ==
    /\ Calls \subseteq ToolCall
    /\ NoInput \notin Calls \cup Artifacts
    /\ MaxToolEvents \in Nat
    /\ MaxEnds \in Nat
    /\ MaxCrashes \in Nat
    /\ MaxLoadFaults \in Nat

VARIABLES
    pc,         \* the next system call of the session's hook process
    cont,       \* where save_run returns to
    mem,        \* the ExecutionRun object the process holds
    prev,       \* create_or_replace_run's prev
    input,      \* the tool call or the artifact path being handled
    outcome,    \* what evaluate_completion returned
    answer,     \* the last verdict a hook of the session returned
    issued,     \* run ids handed out so far
    denials,    \* <<hook, run>>: the "block" answers sessions have received
    crashes, loadFaults

procVars == <<pc, cont, mem, prev, input, outcome, answer>>

faultVars == <<crashes, loadFaults>>

vars == <<storeVars, procVars, issued, denials, faultVars>>

Labels == {"idle", "ups_end", "ups_retire", "ups_log", "tool_log", "art_log",
           "stop_final", "stop_end", "stop_retire", "write", "replace", "retry"}

Answers == {"none", "allow", "block"}

TypeOK ==
    /\ state \in MaybeRun /\ tmp \in MaybeRun /\ backup \in MaybeRun
    /\ log \in [Runs -> RunLog]
    /\ pc \in [Sessions -> Labels]
    /\ cont \in [Sessions -> Labels]
    /\ mem \in [Sessions -> MaybeRun]
    /\ prev \in [Sessions -> MaybeRun]
    /\ input \in [Sessions -> Calls \cup Artifacts \cup {NoInput}]
    /\ outcome \in [Sessions -> RunStatuses]
    /\ answer \in [Sessions -> Answers]
    /\ issued \subseteq Runs
    /\ denials \subseteq {"tool", "stop"} \X Runs
    /\ crashes \in 0..MaxCrashes
    /\ loadFaults \in 0..MaxLoadFaults

Init ==
    /\ StoreInit
    /\ pc = [s \in Sessions |-> "idle"]
    /\ cont = [s \in Sessions |-> "idle"]
    /\ mem = [s \in Sessions |-> NoRun]
    /\ prev = [s \in Sessions |-> NoRun]
    /\ input = [s \in Sessions |-> NoInput]
    /\ outcome = [s \in Sessions |-> "active"]
    /\ answer = [s \in Sessions |-> "none"]
    /\ issued = {}
    /\ denials = {}
    /\ crashes = 0
    /\ loadFaults = 0

-----------------------------------------------------------------------------
EndsBelowBound(run) ==
    run # NoRun => Len(log[run.id].ended) < MaxEnds

\* load_active_run: the state file, or None when it cannot be read.
Load(seen) ==
    \/ /\ seen = state
       /\ UNCHANGED loadFaults
    \/ /\ state # NoRun
       /\ seen = NoRun
       /\ loadFaults < MaxLoadFaults
       /\ loadFaults' = loadFaults + 1

Goto(s, label) == pc' = [pc EXCEPT ![s] = label]

SaveThen(s, label) ==
    /\ Goto(s, "write")
    /\ cont' = [cont EXCEPT ![s] = label]

\* The hook process ends with an answer; everything it held is gone.
Return(s, verdict) ==
    /\ Goto(s, "idle")
    /\ cont' = [cont EXCEPT ![s] = "idle"]
    /\ mem' = [mem EXCEPT ![s] = NoRun]
    /\ prev' = [prev EXCEPT ![s] = NoRun]
    /\ input' = [input EXCEPT ![s] = NoInput]
    /\ outcome' = [outcome EXCEPT ![s] = "active"]
    /\ answer' = [answer EXCEPT ![s] = verdict]

\* The hook process ends without an answer: an exception or a kill.
Die(s) == Return(s, "none")

-----------------------------------------------------------------------------
\* save_run, shared by every hook.
Write(s) ==
    /\ pc[s] = "write"
    /\ WriteTmp(mem[s])
    /\ Goto(s, "replace")
    /\ UNCHANGED <<state, backup, log, cont, mem, prev, input, outcome, answer,
                   issued, denials, faultVars>>

\* The save that ends record_tool_use is the last thing the hook does before
\* it returns its verdict.
Replace(s) ==
    /\ pc[s] \in {"replace", "retry"}
    /\ ReplaceState
    /\ IF cont[s] = "idle"
       THEN /\ Return(s, answer[s])
            /\ denials' = IF answer[s] = "block"
                          THEN denials \cup {<<"tool", mem[s].id>>}
                          ELSE denials
       ELSE /\ Goto(s, cont[s])
            /\ UNCHANGED <<cont, mem, prev, input, outcome, answer, denials>>
    /\ UNCHANGED <<backup, log, issued, faultVars>>

\* Mutant: a lost temporary file is written again, as often as it is lost.
SaveRaisesRetried(s) ==
    /\ pc[s] \in {"replace", "retry"}
    /\ ReplaceFails
    /\ Goto(s, "write")
    /\ UNCHANGED <<storeVars, cont, mem, prev, input, outcome, answer,
                   issued, denials, faultVars>>

SaveRaises(s) ==
    /\ pc[s] \in {"replace", "retry"}
    /\ ReplaceFails
    /\ Die(s)
    /\ UNCHANGED <<storeVars, issued, denials, faultVars>>

\* PermissionError, because somebody has one of the two files open: both calls
\* are made once more, and the temporary file may by now be another writer's
\* or gone.  A second PermissionError ends the hook (Crash).
SaveRetries(s) ==
    /\ pc[s] = "replace"
    /\ WriteTmp(mem[s])
    /\ Goto(s, "retry")
    /\ UNCHANGED <<state, backup, log, cont, mem, prev, input, outcome, answer,
                   issued, denials, faultVars>>

-----------------------------------------------------------------------------
\* handle_user_prompt_submit for a command that is a skill: create_run.
PromptSubmit(s, skill) ==
    /\ pc[s] = "idle"
    /\ skill \notin ExemptCommands \cup NonSkillCommands
    /\ \E r \in Runs \ issued, seen \in {state, NoRun} :
        /\ Load(seen)
        /\ EndsBelowBound(seen)
        /\ issued' = issued \cup {r}
        /\ mem' = [mem EXCEPT ![s] = NewRun(r, skill)]
        /\ prev' = [prev EXCEPT ![s] = seen]
        /\ Goto(s, IF seen = NoRun THEN "write" ELSE "ups_end")
    /\ cont' = [cont EXCEPT ![s] = "ups_log"]
    /\ answer' = [answer EXCEPT ![s] = "none"]
    /\ UNCHANGED <<storeVars, input, outcome, denials, crashes>>

\* create_or_replace_run ends the run it found ...
EndPrevious(s) ==
    /\ pc[s] = "ups_end"
    /\ AppendEnded(prev[s].id, "replaced")
    /\ Goto(s, "ups_retire")
    /\ UNCHANGED <<state, tmp, backup, cont, mem, prev, input, outcome, answer,
                   issued, denials, faultVars>>

\* ... and clears the state file before it saves the new run.
RetirePrevious(s) ==
    /\ pc[s] = "ups_retire"
    /\ RetireState
    /\ Goto(s, "write")
    /\ UNCHANGED <<tmp, log, cont, mem, prev, input, outcome, answer,
                   issued, denials, faultVars>>

\* create_run logs the creation last; a payload with a turn id makes the
\* prompt hook save the run a second time.
LogCreated(s) ==
    /\ pc[s] = "ups_log"
    /\ AppendCreated(mem[s].id)
    /\ \/ /\ SaveThen(s, "idle")
          /\ UNCHANGED <<mem, prev, input, outcome, answer>>
       \/ Return(s, "none")
    /\ UNCHANGED <<state, tmp, backup, issued, denials, faultVars>>

-----------------------------------------------------------------------------
\* Layer 0 of handle_pre_tool_use, the universal skill-first gate.
SkillFirstBlocks(call) ==
    /\ call.typed # NoSkill
    /\ IF call.tool = SkillTool THEN call.named # call.typed
                                ELSE call.typed \notin ExemptCommands

\* Layer 0.5, the action-authority gate.
AuthorityBlocks(call) ==
    /\ call.tool \in WriteTools
    /\ ~call.authorised

GateBlocks(call) == SkillFirstBlocks(call) \/ AuthorityBlocks(call)

\* handle_pre_tool_use when it answers without touching a run.
GateAnswers(s, call) ==
    /\ pc[s] = "idle"
    /\ \/ /\ GateBlocks(call)
          /\ answer' = [answer EXCEPT ![s] = "block"]
          /\ UNCHANGED loadFaults
       \/ /\ ~GateBlocks(call)
          /\ call.tool \in InvestigationTools
          /\ answer' = [answer EXCEPT ![s] = "allow"]
          /\ UNCHANGED loadFaults
       \/ /\ ~GateBlocks(call)
          /\ call.tool \notin InvestigationTools
          /\ Load(NoRun)
          /\ answer' = [answer EXCEPT ![s] = "allow"]
    /\ UNCHANGED <<storeVars, pc, cont, mem, prev, input, outcome,
                   issued, denials, crashes>>

\* handle_pre_tool_use with a run: the contract decides, record_tool_use
\* writes the decision down before it is returned.
PreToolUse(s, call) ==
    /\ pc[s] = "idle"
    /\ ~GateBlocks(call)
    /\ call.tool \notin InvestigationTools
    /\ state # NoRun
    /\ log[state.id].allowed + log[state.id].blocked < MaxToolEvents
    /\ mem' = [mem EXCEPT ![s] = state]
    /\ input' = [input EXCEPT ![s] = call]
    /\ answer' = [answer EXCEPT ![s] =
                    IF ToolBlocked(state, call.tool) THEN "block" ELSE "allow"]
    /\ Goto(s, "tool_log")
    /\ UNCHANGED <<storeVars, cont, prev, outcome, issued, denials, faultVars>>

\* record_tool_use: assignments and append_event, then save_run.
LogTool(s) ==
    /\ pc[s] = "tool_log"
    /\ AppendTool(mem[s].id, answer[s] = "allow")
    /\ mem' = [mem EXCEPT ![s] = AfterToolUse(@, answer[s] = "allow")]
    /\ SaveThen(s, "idle")
    /\ UNCHANGED <<state, tmp, backup, prev, input, outcome, answer,
                   issued, denials, faultVars>>

-----------------------------------------------------------------------------
\* A caller of record_artifact_created loads the run and hands over a path.
ArtifactCreated(s, path) ==
    /\ pc[s] = "idle"
    /\ state # NoRun
    /\ mem' = [mem EXCEPT ![s] = state]
    /\ input' = [input EXCEPT ![s] = path]
    /\ answer' = [answer EXCEPT ![s] = "none"]
    /\ Goto(s, "art_log")
    /\ UNCHANGED <<storeVars, cont, prev, outcome, issued, denials, faultVars>>

LogArtifact(s) ==
    /\ pc[s] = "art_log"
    /\ AppendArtifact(mem[s].id, input[s])
    /\ mem' = [mem EXCEPT ![s] = AfterArtifact(@, input[s])]
    /\ SaveThen(s, "idle")
    /\ UNCHANGED <<state, tmp, backup, prev, input, outcome, answer,
                   issued, denials, faultVars>>

-----------------------------------------------------------------------------
\* handle_stop with no run to judge.
StopWithoutRun(s) ==
    /\ pc[s] = "idle"
    /\ Load(NoRun)
    /\ answer' = [answer EXCEPT ![s] = "allow"]
    /\ UNCHANGED <<storeVars, pc, cont, mem, prev, input, outcome,
                   issued, denials, crashes>>

\* handle_stop with a run: evaluate_completion, which may save the run ...
Stop(s) ==
    /\ pc[s] = "idle"
    /\ state # NoRun
    /\ EndsBelowBound(state)
    /\ \E response \in ResponsesTo(state) :
        /\ mem' = [mem EXCEPT ![s] = AfterEvaluation(state, response)]
        /\ outcome' = [outcome EXCEPT ![s] = CompletionStatus(state, response)]
        /\ IF EvaluationSaves(state, response)
           THEN SaveThen(s, "stop_final")
           ELSE Goto(s, "stop_final") /\ UNCHANGED cont
    /\ answer' = [answer EXCEPT ![s] = "none"]
    /\ UNCHANGED <<storeVars, prev, input, issued, denials, faultVars>>

\* ... then finalize_run, whatever the status: assign it, save, end the run.
Finalize(s) ==
    /\ pc[s] = "stop_final"
    /\ mem' = [mem EXCEPT ![s].status = outcome[s]]
    /\ SaveThen(s, "stop_end")
    /\ UNCHANGED <<storeVars, prev, input, outcome, answer,
                   issued, denials, faultVars>>

\* Mutant: only a decided run gets its run_ended line.
EndRunIfDecided(s) ==
    /\ pc[s] = "stop_end"
    /\ IF outcome[s] = "active" THEN UNCHANGED log
                                ELSE AppendEnded(mem[s].id, outcome[s])
    /\ Goto(s, "stop_retire")
    /\ UNCHANGED <<state, tmp, backup, cont, mem, prev, input, outcome, answer,
                   issued, denials, faultVars>>

EndRun(s) ==
    /\ pc[s] = "stop_end"
    /\ AppendEnded(mem[s].id, outcome[s])
    /\ Goto(s, "stop_retire")
    /\ UNCHANGED <<state, tmp, backup, cont, mem, prev, input, outcome, answer,
                   issued, denials, faultVars>>

\* A failed run blocks the stop; the run is gone either way.
RetireRun(s) ==
    /\ pc[s] = "stop_retire"
    /\ RetireState
    /\ IF outcome[s] = "failed"
       THEN /\ Return(s, "block")
            /\ denials' = denials \cup {<<"stop", mem[s].id>>}
       ELSE /\ Return(s, "allow")
            /\ UNCHANGED denials
    /\ UNCHANGED <<tmp, log, issued, faultVars>>

-----------------------------------------------------------------------------
\* The hook process is killed, or a system call it makes raises.
Crash(s) ==
    /\ pc[s] # "idle"
    /\ crashes < MaxCrashes
    /\ crashes' = crashes + 1
    /\ Die(s)
    /\ UNCHANGED <<storeVars, issued, denials, loadFaults>>

\* What the harness starts.
HookStarts(s) ==
    \/ \E skill \in Skills : PromptSubmit(s, skill)
    \/ \E call \in Calls : GateAnswers(s, call) \/ PreToolUse(s, call)
    \/ \E path \in Artifacts : ArtifactCreated(s, path)
    \/ StopWithoutRun(s)
    \/ Stop(s)

\* What a started process goes on to do.
HookRuns(s) ==
    \/ Write(s) \/ Replace(s) \/ SaveRaises(s)
    \/ EndPrevious(s) \/ RetirePrevious(s) \/ LogCreated(s)
    \/ LogTool(s) \/ LogArtifact(s)
    \/ Finalize(s) \/ EndRun(s) \/ RetireRun(s)

Next ==
    \E s \in Sessions :
        HookStarts(s) \/ HookRuns(s) \/ SaveRetries(s) \/ Crash(s)

Spec == Init /\ [][Next]_vars

(***************************************************************************)
(* The operating system runs a started process on, and every turn of a     *)
(* session ends with its Stop hook, however many other hooks come first.   *)
(***************************************************************************)
Fairness ==
    \A s \in Sessions : WF_vars(HookRuns(s)) /\ SF_vars(Stop(s))

FairSpec == Spec /\ Fairness
=============================================================================
