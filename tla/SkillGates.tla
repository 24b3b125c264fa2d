----------------------------- MODULE SkillGates -----------------------------
(***************************************************************************)
(* What the two gates answer: PreToolUse_skill_pattern_gate.py to one tool *)
(* call, StopHook_skill_execution_gate.py to the end of a turn.            *)
(*                                                                         *)
(* Left out because nothing in the repository can make them answer:        *)
(* topic drift (no caller fills do_not_distract), the pending command      *)
(* intent (the prompt hook writes it to other directories than the gate    *)
(* reads) and the frontmatter advisory (it compares the turn with the      *)
(* turn_id of the loaded state, which is empty).  Governance markers are   *)
(* not modelled.                                                           *)
(***************************************************************************)
EXTENDS SkillState

CONSTANTS
    InvestigationTools,
    ExecutionTools,     \* _EXECUTION_TOOLS of the Stop gate
    TrackedTools,       \* tool_matcher of the PostToolUse tracker
    CommandTools,       \* Bash and Task
    Knowledge,          \* KNOWLEDGE_SKILLS
    Exempt              \* a built-in or lightweight slash command

\* A tool call: the skill a Skill call names, the expressions its command text
\* matches (a first-command pattern, the execution pattern), and whether its
\* input mentions the phase artifact.
Call ==
    [ tool    : Tool,
      named   : Skill \cup {NoSkill},
      matches : SUBSET {"first", "pattern"},
      names   : BOOLEAN ]

\* A prompt: the slash command it holds, if any, as typed or as the harness
\* expands it (<command-name>), and whether its arguments are only help flags.
Prompt ==
    [ command : Skill \cup {NoSkill, Exempt},
      form    : {"plain", "harness"},
      help    : BOOLEAN ]

ASSUME GatesAssumption ==
    /\ Exempt \notin Skill \cup {NoSkill}
    /\ Knowledge \subseteq Skill
    /\ "Skill" \in InvestigationTools \cap TrackedTools

-----------------------------------------------------------------------------
(* The pattern gate.  typed is the slash command of the message in the     *)
(* payload, NoSkill when there is none.                                    *)

\* Layer 0: a skill with workflow steps comes before any other tool.
SkillFirst(c, typed) ==
    /\ typed \in Skill
    /\ ~(c.tool = "Skill" /\ c.named = typed)
    /\ Profile[typed].steps

\* Layer 1: the skill names its first tools and none has been validated yet.
FirstToolDue(c, st) ==
    Profile[st.skill].first # {} /\ ~st.firstTool

\* Mutant: an unvalidated first tool is compared only for command tools.
FirstToolMissedCommandsOnly(c, st) ==
    FirstToolDue(c, st) /\ c.tool \in CommandTools \ Profile[st.skill].first

FirstToolMissed(c, st) ==
    FirstToolDue(c, st) /\ c.tool \notin Profile[st.skill].first

FirstCommandDue(c, st) ==
    /\ Profile[st.skill].firstCommand /\ ~st.firstCommand
    /\ c.tool \in CommandTools

\* Layer 2: an execution tool of the skill must match its pattern; _make_decision
\* lets a call through only when the expression matches, whatever the daemon
\* says, and an empty pattern never matches.
PatternMissed(c, st) ==
    /\ c.tool \in Profile[st.skill].tools
    /\ ~(Profile[st.skill].pattern /\ "pattern" \in c.matches)

\* The answer, the skill whose state gave it, and the marks the ledger gets.
\* A mark stays even when a later layer refuses the call.
GateAnswer(c, typed, st) ==
    LET Answer(is, by, tool, command) ==
            [is |-> is, by |-> by, tool |-> tool, command |-> command]
        marksTool == FirstToolDue(c, st)
        marksCommand == FirstCommandDue(c, st)
    IN IF SkillFirst(c, typed) THEN Answer("skill first", typed, FALSE, FALSE)
       ELSE IF c.tool \in InvestigationTools THEN Answer("allow", NoSkill, FALSE, FALSE)
       ELSE IF st = NoState THEN Answer("allow", NoSkill, FALSE, FALSE)
       ELSE IF st.skill = NoSkill THEN Answer("allow", NoSkill, FALSE, FALSE)
       ELSE IF FirstToolMissed(c, st) THEN Answer("first tool", st.skill, FALSE, FALSE)
       ELSE IF marksCommand /\ "first" \notin c.matches
            THEN Answer("first command", st.skill, marksTool, FALSE)
       ELSE IF PatternMissed(c, st)
            THEN Answer("pattern", st.skill, marksTool, marksCommand)
       ELSE Answer("allow", st.skill, marksTool, marksCommand)

-----------------------------------------------------------------------------
(* The Stop gate.  seen is what the transcript shows of the turn, refused   *)
(* calls included; st the pending file; events the ledger's turn record,   *)
(* EmptyTurn when no turn is active or the ledger cannot be read.          *)

\* The calls of a turn as the transcript tells them: the tools, whether the
\* Bash command the gate takes for the first one matches the skill's
\* first-command patterns, and whether the phase artifact was mentioned.
Transcript ==
    [tools : SUBSET Tool, firstBash : {"none", "right", "wrong"}, names : BOOLEAN]

NoCalls == [tools |-> {}, firstBash |-> "none", names |-> FALSE]

\* The transcript has one entry per call and is collected from its end, so that
\* the first Bash command of the list is the last one of the turn.
WithCall(seen, c) ==
    [ tools     |-> seen.tools \cup {c.tool},
      firstBash |-> IF c.tool # "Bash" THEN seen.firstBash
                    ELSE IF "first" \in c.matches THEN "right" ELSE "wrong",
      names     |-> seen.names \/ c.names ]

Enforced(command) == command \in Skill \ Knowledge

\* _requires_execution_tools: of the state in the file, whichever skill's it is.
RequiresExecution(st) ==
    /\ st # NoState /\ st.skill # NoSkill
    /\ \/ Profile[st.skill].contract \in {"workflow", "hybrid"}
       \/ Profile[st.skill].bound

\* What passes for the first Bash command is not what the skill asks for.
FirstBashMissed(k, seen) == Profile[k].firstCommand /\ seen.firstBash = "wrong"

AllBlocked(events) == events.invoked /\ ~events.passed

\* Mutant: the fallback takes a load of any turn of the terminal.
LedgerConfirmsAnyTurn(k, seen, events) ==
    seen.tools = {} /\ \E t \in Turn : k \in ledger[t].loads

\* The transcript shows no tools, but the ledger has the skill's load.
LedgerConfirms(k, seen, events) ==
    seen.tools = {} /\ k \in events.loads

\* A turn that began with an enforced slash command.
SlashStop(p, seen, st, events) ==
    LET tools == seen.tools
        executed == tools \cap ExecutionTools # {}
    IN CASE FirstBashMissed(p.command, seen) -> "first command"
         [] OTHER ->
            CASE "Skill" \in tools ->
                 IF ~RequiresExecution(st) \/ executed
                    \/ (p.help /\ p.form = "plain")
                 THEN "allow" ELSE "not executed"
              [] "Skill" \notin tools /\ p.form = "harness" ->
                 IF executed \/ p.help \/ (seen.tools # {} /\ ~RequiresExecution(st))
                 THEN "allow" ELSE "not executed"
              [] OTHER ->
                 IF AllBlocked(events) \/ LedgerConfirms(p.command, seen, events)
                 THEN "allow" ELSE "skill not called"

\* validate_execution against the state in the file.  old: it was loaded more
\* than STALE_TIMEOUT ago.
Satisfied(st, seen, old) ==
    LET p == Profile[st.skill]
    IN \/ old
       \/ /\ p.tools # {} => /\ st.used \cap p.tools # {}
                             /\ p.pattern => st.matched
          /\ p.artifact => seen.names

\* Any other turn: only the turn of a typed exempt command in which a skill was
\* called is judged by the state, which the gate then clears.
Judged(p, seen, st) ==
    /\ ~Enforced(p.command)
    /\ p.form = "plain" /\ p.command # NoSkill
    /\ "Skill" \in seen.tools
    /\ st # NoState

OtherStop(p, seen, st, old) ==
    IF /\ Judged(p, seen, st)
       /\ st.skill \in Skill \ Knowledge
       /\ ~Satisfied(st, seen, old)
    THEN "not executed" ELSE "allow"

StopAnswer(p, seen, st, events, old) ==
    IF Enforced(p.command) THEN SlashStop(p, seen, st, events)
    ELSE OtherStop(p, seen, st, old)
=============================================================================
