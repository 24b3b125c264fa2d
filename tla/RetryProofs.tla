--------------------------- MODULE RetryProofs ---------------------------
(***************************************************************************)
(* Theorems about the two limited validators of a Stop, for any number of  *)
(* sessions, records, runs and failures, and every interleaving.           *)
(***************************************************************************)
EXTENDS RetryProperties, TLAPS

(***************************************************************************)
(* The governance file.  A record in the memory of a Stop is as good as    *)
(* one in the file: the Stop will write it there.                          *)
(***************************************************************************)
HeldKnown == \A s \in Session : govAt[s] = "judging" => held[s] # NoState

HeldIsEarned ==
  \A s \in Session :
    held[s] # NoState /\ held[s].count = 1 => strikes[held[s].load] >= 1

GovInv == GovTypeOK /\ HeldKnown /\ HeldIsEarned /\ StrikeIsEarned

LEMMA OneMoreType ==
    ASSUME NEW n \in 0 .. 3
    PROVE  OneMore(n) \in 0 .. 3 /\ OneMore(n) >= 1 /\ OneMore(n) >= n
BY DEF OneMore

LEMMA StatesFact ==
    /\ MaxLoads \in Nat
    /\ \A n \in 0 .. MaxLoads :
         /\ NoState \notin States(n)
         /\ \A x \in States(n) : x.load \in 1 .. n /\ x.load \in Load /\ x.count \in {0, 1}
         /\ States(n) \subseteq States(MaxLoads)
BY GovernanceAssumption DEF States, Load

(* Refuse(s) by a Stop that holds a record keeps all but what is in the file. *)
LEMMA RefuseKeeps ==
    ASSUME NEW s \in Session, GovInv, govAt[s] = "judging", Refuse(s),
           UNCHANGED <<kind, loads>>
    PROVE  /\ govAt' \in [Session -> {"idle", "working", "judging"}]
           /\ held' \in [Session -> States(loads) \cup {NoState}]
           /\ verdict' \in [Session -> {"none", "refuse", "pass"}]
           /\ strikes' \in [Load -> 0 .. 3]
           /\ \A n \in Load : strikes'[n] >= strikes[n]
           /\ strikes'[held[s].load] >= 1
           /\ HeldKnown'
           /\ HeldIsEarned'
<1>1. held[s] \in States(loads) /\ held[s].load \in Load /\ loads \in 0 .. MaxLoads
  BY StatesFact DEF GovInv, GovTypeOK, HeldKnown
<1>2. /\ strikes' \in [Load -> 0 .. 3]
      /\ \A n \in Load : strikes'[n] >= strikes[n]
      /\ strikes'[held[s].load] >= 1
  BY <1>1, OneMoreType DEF GovInv, GovTypeOK, Refuse
<1>3. /\ govAt' \in [Session -> {"idle", "working", "judging"}]
      /\ held' \in [Session -> States(loads) \cup {NoState}]
      /\ verdict' \in [Session -> {"none", "refuse", "pass"}]
  BY DEF GovInv, GovTypeOK, Refuse
<1>4. HeldKnown'
  BY DEF GovInv, GovTypeOK, HeldKnown, Refuse
<1>5. ASSUME NEW t \in Session, held'[t] # NoState, held'[t].count = 1
      PROVE  strikes'[held'[t].load] >= 1
  <2>1. t # s /\ held'[t] = held[t]
    BY <1>5 DEF GovInv, GovTypeOK, Refuse
  <2>2. held[t].load \in Load /\ strikes[held[t].load] >= 1
    BY <1>5, <2>1, StatesFact DEF GovInv, GovTypeOK, HeldIsEarned
  <2>3. strikes'[held[t].load] >= strikes[held[t].load]
    BY <1>2, <2>2
  <2>4. strikes[held[t].load] \in 0 .. 3 /\ strikes'[held[t].load] \in 0 .. 3
    BY <1>2, <2>2 DEF GovInv, GovTypeOK
  <2> QED
    BY <2>1, <2>2, <2>3, <2>4
<1>6. HeldIsEarned'
  BY <1>5 DEF HeldIsEarned
<1> QED
  BY <1>2, <1>3, <1>4, <1>6

(* The file as it was, or removed, after strikes that only went up. *)
LEMMA FileKept ==
    ASSUME GovInv, gov' \in {gov, NoState}, loads' = loads,
           strikes' \in [Load -> 0 .. 3],
           \A n \in Load : strikes'[n] >= strikes[n]
    PROVE  gov' \in States(loads') \cup {NoState} /\ StrikeIsEarned'
<1>1. gov' \in States(loads') \cup {NoState}
  BY DEF GovInv, GovTypeOK
<1>2. ASSUME gov' # NoState, gov'.count = 1
      PROVE  strikes'[gov'.load] >= 1
  <2>1. gov' = gov /\ gov.load \in Load /\ strikes[gov.load] >= 1
    BY <1>2, StatesFact DEF GovInv, GovTypeOK, StrikeIsEarned
  <2>2. strikes[gov.load] \in 0 .. 3 /\ strikes'[gov.load] \in 0 .. 3
    BY <2>1 DEF GovInv, GovTypeOK
  <2> QED
    BY <2>1, <2>2
<1> QED
  BY <1>1, <1>2 DEF StrikeIsEarned

LEMMA GovStep ==
    ASSUME TypeOK, GovInv, GovNext, UNCHANGED attached
    PROVE  GovInv'
<1> SUFFICES ASSUME NEW s \in Session,
                    \/ Prompt(s) \/ GovStop(s) \/ StopKilled(s)
                    \/ \E snapshot \in BOOLEAN : StopsEarlier(s, snapshot)
             PROVE  GovInv'
  BY DEF GovNext, TypeOK
<1>1. CASE Prompt(s)
  <2>1. CASE UNCHANGED <<gov, loads>>
    BY <1>1, <2>1 DEF Prompt, GovInv, GovTypeOK, HeldKnown, HeldIsEarned, StrikeIsEarned
  <2>2. CASE /\ loads < MaxLoads /\ loads' = loads + 1
             /\ \E b \in BOOLEAN : gov' = [load |-> loads', count |-> 0, markers |-> b]
    <3>1. loads' \in 1 .. MaxLoads /\ States(loads) \subseteq States(loads')
      BY <2>2, StatesFact DEF GovInv, GovTypeOK, States
    <3>2. gov' \in States(loads') /\ gov'.count = 0
      BY <2>2, <3>1 DEF States
    <3>3. held' \in [Session -> States(loads') \cup {NoState}]
      BY <1>1, <3>1 DEF Prompt, GovInv, GovTypeOK
    <3> QED
      BY <1>1, <3>1, <3>2, <3>3
      DEF Prompt, GovInv, GovTypeOK, HeldKnown, HeldIsEarned, StrikeIsEarned
  <2> QED
    BY <1>1, <2>1, <2>2 DEF Prompt
<1>2. CASE StopReadsGov(s)
  <2>1. CASE Pass(s) /\ gov' = NoState
    BY <1>2, <2>1
    DEF StopReadsGov, Pass, GovInv, GovTypeOK, HeldKnown, HeldIsEarned, StrikeIsEarned
  <2>2. CASE /\ gov # NoState
             /\ held' = [held EXCEPT ![s] = gov]
             /\ govAt' = [govAt EXCEPT ![s] = "judging"]
             /\ UNCHANGED <<gov, verdict>>
    BY <1>2, <2>2
    DEF StopReadsGov, GovInv, GovTypeOK, HeldKnown, HeldIsEarned, StrikeIsEarned
  <2> QED
    BY <1>2, <2>1, <2>2 DEF StopReadsGov
<1>3. CASE StopPasses(s)
  BY <1>3 DEF StopPasses, ClearGov, Pass, GovInv, GovTypeOK, HeldKnown, HeldIsEarned, StrikeIsEarned
<1>4. CASE FirstStrike(s)
  <2> USE <1>4 DEF FirstStrike
  <2>1. held[s] \in States(loads) /\ held[s].load \in Load /\ loads \in 0 .. MaxLoads
    BY StatesFact DEF GovInv, GovTypeOK, HeldKnown
  <2>2. CASE gov' = [held[s] EXCEPT !.count = 1]
    <3>1. gov' \in States(loads) /\ gov'.load = held[s].load
      BY <2>1, <2>2 DEF States
    <3>2. StrikeIsEarned'
      BY <3>1, RefuseKeeps DEF StrikeIsEarned
    <3> QED
      BY <3>1, <3>2, RefuseKeeps DEF GovInv, GovTypeOK
  <2>3. CASE gov' = gov
    BY <2>3, RefuseKeeps, FileKept DEF GovInv, GovTypeOK
  <2> QED
    BY <2>2, <2>3
<1>5. CASE SecondStrike(s)
  <2>1. gov' \in {gov, NoState}
    BY <1>5 DEF SecondStrike, ClearGov
  <2> QED
    BY <1>5, <2>1, RefuseKeeps, FileKept DEF SecondStrike, GovInv, GovTypeOK
<1>6. CASE StopKilled(s)
  BY <1>6 DEF StopKilled, GovInv, GovTypeOK, HeldKnown, HeldIsEarned, StrikeIsEarned
<1>7. ASSUME NEW snapshot \in BOOLEAN, StopsEarlier(s, snapshot)
      PROVE  GovInv'
  <2>1. gov' \in {gov, NoState}
    BY <1>7 DEF StopsEarlier, ClearGov
  <2>2. govAt' \in {govAt, [govAt EXCEPT ![s] = "idle"]}
    BY <1>7 DEF StopsEarlier
  <2> QED
    BY <1>7, <2>1, <2>2
    DEF StopsEarlier, GovInv, GovTypeOK, HeldKnown, HeldIsEarned, StrikeIsEarned
<1> QED
  BY <1>1, <1>2, <1>3, <1>4, <1>5, <1>6, <1>7 DEF GovStop

(***************************************************************************)
(* The manual invocation.  The count a Stop read or is about to write is   *)
(* backed by refusals of the run it holds, and so is a pending "warned".   *)
(***************************************************************************)
Holding == {"saving", "tagging", "judging", "writing", "finishing", "retiring"}

ObjKnown == \A s \in Session : invAt[s] \in Holding => obj[s] # NoRun

CountIsEarned ==
  \A s \in Session :
    invAt[s] \in {"judging", "writing"} => count[s] <= refused[obj[s]]

WarningIsEarned ==
  \A s \in Session :
    invAt[s] = "finishing" /\ outcome[s] = "warned" => refused[obj[s]] >= MaxRetries

InvInv ==
  /\ InvTypeOK /\ ObjKnown
  /\ RetryNeverOvercounts /\ CountIsEarned
  /\ WarningIsEarned /\ WarnedWasRefusedTwice

LEMMA RunFacts ==
    ASSUME InvInv
    PROVE  /\ MaxRuns \in Nat /\ Len(skillOf) \in 0 .. MaxRuns
           /\ NoRun \notin Run
           /\ \A r \in RunMade : r # NoRun => r \in Run
           /\ \A r \in Run : retry[r] \in 0 .. 3 /\ refused[r] \in 0 .. 3
                              /\ retry[r] <= refused[r]
           /\ \A s \in Session : invAt[s] \in Holding => obj[s] \in Run
BY InvocationAssumption DEF InvInv, InvTypeOK, RunMade, Run, ObjKnown, RetryNeverOvercounts

(* What a read of the retry file returns is backed as the file is. *)
LEMMA ReadIsEarned ==
    ASSUME InvInv, NEW s \in Session, NEW r \in Run, NEW n \in GetRetryCount(s, r)
    PROVE  n \in 0 .. 3 /\ n <= refused[r]
BY RunFacts DEF GetRetryCount

(* Setting the file to no more than is backed keeps every file backed. *)
LEMMA SetRetryKeeps ==
    ASSUME InvInv, NEW r \in Run, NEW n \in 0 .. 3, n <= refused[r],
           SetRetry(r, n), UNCHANGED refused
    PROVE  retry' \in [Run -> 0 .. 3] /\ RetryNeverOvercounts'
BY RunFacts DEF SetRetry, RetryFile, RetryNeverOvercounts, InvInv, InvTypeOK

LEMMA AnswerKeeps ==
    ASSUME InvInv, NEW s \in Session, NEW v \in {"pass", "refuse"}, Answer(s, v),
           UNCHANGED <<skillOf, refused>>
    PROVE  /\ invAt' \in [Session -> {"idle", "saving", "tagging", "working", "judging",
                                       "writing", "finishing", "retiring"}]
           /\ obj' \in [Session -> RunMade']
           /\ count' \in [Session -> 0 .. 3]
           /\ outcome' \in [Session -> {"complete", "warned"}]
           /\ said' \in [Session -> {"none", "refuse", "pass"}]
           /\ ObjKnown' /\ CountIsEarned' /\ WarningIsEarned'
<1>1. invAt'[s] \in {"idle", "working"}
      /\ \A t \in Session \ {s} : /\ invAt'[t] = invAt[t] /\ obj'[t] = obj[t]
                                  /\ count'[t] = count[t] /\ outcome'[t] = outcome[t]
  BY DEF Answer, To, InvInv, InvTypeOK
<1>2. ObjKnown' /\ CountIsEarned' /\ WarningIsEarned'
  BY <1>1 DEF InvInv, ObjKnown, CountIsEarned, WarningIsEarned, Holding
<1> QED
  BY <1>2 DEF Answer, To, InvInv, InvTypeOK, RunMade

LEMMA InvokeStep ==
    ASSUME InvInv, NEW s \in Session, NEW k \in Skill, Invoke(s, k)
    PROVE  InvInv'
<1>1. /\ skillOf' \in Seq(Skill) /\ Len(skillOf') = Len(skillOf) + 1
      /\ Len(skillOf') <= MaxRuns
  BY RunFacts DEF Invoke, InvInv, InvTypeOK
<1>2. RunMade \subseteq RunMade' /\ Len(skillOf') \in RunMade' /\ Len(skillOf') \in Run
  BY <1>1, RunFacts DEF RunMade, Run
<1>3. InvTypeOK'
  BY <1>1, <1>2 DEF Invoke, To, InvInv, InvTypeOK, RunMade
<1>4. \A t \in Session \ {s} : invAt'[t] = invAt[t] /\ obj'[t] = obj[t]
  BY DEF Invoke, To, InvInv, InvTypeOK
<1>5. invAt'[s] = "saving" /\ obj'[s] = Len(skillOf')
  BY DEF Invoke, To, InvInv, InvTypeOK
<1>6. ObjKnown'
  BY <1>2, <1>4, <1>5, RunFacts DEF InvInv, ObjKnown
<1> QED
  BY <1>3, <1>4, <1>5, <1>6
  DEF Invoke, InvInv, RetryNeverOvercounts, CountIsEarned, WarningIsEarned, WarnedWasRefusedTwice

LEMMA CreateStep ==
    ASSUME InvInv, NEW s \in Session, SaveRun(s) \/ CreateFails(s)
    PROVE  InvInv'
<1>1. CASE SaveRun(s)
  BY <1>1 DEF SaveRun, Work, To, InvInv, InvTypeOK, RunMade, ObjKnown, Holding,
              RetryNeverOvercounts, CountIsEarned, WarningIsEarned, WarnedWasRefusedTwice
<1>2. CASE CreateFails(s)
  BY <1>2 DEF CreateFails, Work, To, InvInv, InvTypeOK, RunMade, ObjKnown, Holding,
              RetryNeverOvercounts, CountIsEarned, WarningIsEarned, WarnedWasRefusedTwice
<1> QED
  BY <1>1, <1>2

LEMMA UseStep ==
    ASSUME InvInv, NEW s \in Session, NEW k \in Skill, UseSkill(s, k)
    PROVE  InvInv'
BY DEF UseSkill, InvInv, InvTypeOK, RunMade, ObjKnown,
       RetryNeverOvercounts, CountIsEarned, WarningIsEarned, WarnedWasRefusedTwice

LEMMA OtherStep ==
    ASSUME InvInv, OtherStop
    PROVE  InvInv'
BY DEF OtherStop, InvInv, InvTypeOK, RunMade, ObjKnown,
       RetryNeverOvercounts, CountIsEarned, WarningIsEarned, WarnedWasRefusedTwice

LEMMA LoadStep ==
    ASSUME InvInv, NEW s \in Session, StopLoads(s)
    PROVE  InvInv'
<1>1. active \in RunMade /\ active \in Run /\ active # NoRun
  <2>1. active \in DOMAIN skillOf
    BY DEF StopLoads, OfTheSkill
  <2>2. DOMAIN skillOf = 1 .. Len(skillOf)
    BY DEF InvInv, InvTypeOK
  <2> QED
    BY <2>1, <2>2, RunFacts DEF RunMade, Run
<1>2. PICK n \in GetRetryCount(s, active) : count' = [count EXCEPT ![s] = n]
  BY DEF StopLoads
<1>3. n \in 0 .. 3 /\ n <= refused[active]
  BY <1>1, <1>2, ReadIsEarned
<1>4. InvTypeOK'
  BY <1>1, <1>2, <1>3 DEF StopLoads, To, InvInv, InvTypeOK, RunMade
<1>5. /\ invAt'[s] = "judging" /\ obj'[s] = active /\ count'[s] = n
      /\ \A t \in Session \ {s} : /\ invAt'[t] = invAt[t] /\ obj'[t] = obj[t]
                                  /\ count'[t] = count[t]
  BY <1>2 DEF StopLoads, To, InvInv, InvTypeOK
<1> QED
  BY <1>1, <1>3, <1>4, <1>5
  DEF StopLoads, InvInv, ObjKnown, RetryNeverOvercounts, CountIsEarned,
      WarningIsEarned, WarnedWasRefusedTwice

LEMMA WarnStep ==
    ASSUME InvInv, NEW s \in Session, StopWarns(s)
    PROVE  InvInv'
BY AnswerKeeps
DEF StopWarns, InvInv, InvTypeOK, RunMade, RetryNeverOvercounts, WarnedWasRefusedTwice

LEMMA SettleStep ==
    ASSUME InvInv, NEW s \in Session, StopSettles(s)
    PROVE  InvInv'
<1>1. obj[s] \in Run /\ refused[obj[s]] \in 0 .. 3 /\ count[s] \in 0 .. 3
  BY RunFacts DEF StopSettles, Holding, InvInv, InvTypeOK
<1>2. /\ invAt'[s] = "finishing"
      /\ \A t \in Session \ {s} : invAt'[t] = invAt[t] /\ outcome'[t] = outcome[t]
      /\ outcome'[s] = "warned" => count[s] >= MaxRetries
  BY <1>1 DEF StopSettles, To, RetriesLeft, MaxRetries, InvInv, InvTypeOK
<1>3. count[s] <= refused[obj[s]]
  BY DEF StopSettles, InvInv, CountIsEarned
<1>4. WarningIsEarned'
  BY <1>1, <1>2, <1>3 DEF StopSettles, InvInv, WarningIsEarned, MaxRetries
<1> QED
  BY <1>2, <1>4
  DEF StopSettles, To, InvInv, InvTypeOK, RunMade, ObjKnown, Holding,
      RetryNeverOvercounts, CountIsEarned, WarnedWasRefusedTwice

LEMMA RefuseStep ==
    ASSUME InvInv, NEW s \in Session, StopRefuses(s)
    PROVE  InvInv'
<1>1. obj[s] \in Run /\ refused[obj[s]] \in 0 .. 3
  BY RunFacts DEF StopRefuses, Holding
<1>2. PICK n \in GetRetryCount(s, obj[s]) : count' = [count EXCEPT ![s] = OneMore(n)]
  BY DEF StopRefuses
<1>3. n \in 0 .. 3 /\ n <= refused[obj[s]]
  BY <1>1, <1>2, ReadIsEarned
<1>4. /\ refused' \in [Run -> 0 .. 3]
      /\ refused'[obj[s]] = OneMore(refused[obj[s]])
      /\ \A r \in Run : refused'[r] >= refused[r] /\ refused'[r] \in 0 .. 3
  BY <1>1, RunFacts, OneMoreType DEF StopRefuses, InvInv, InvTypeOK
<1>5. OneMore(n) \in 0 .. 3 /\ OneMore(n) <= refused'[obj[s]]
  BY <1>1, <1>3, <1>4 DEF OneMore
<1>6. InvTypeOK'
  BY <1>2, <1>4, <1>5 DEF StopRefuses, To, InvInv, InvTypeOK, RunMade
<1>7. /\ invAt'[s] = "writing" /\ count'[s] = OneMore(n) /\ obj' = obj
      /\ \A t \in Session \ {s} : invAt'[t] = invAt[t] /\ count'[t] = count[t]
  BY <1>2 DEF StopRefuses, To, InvInv, InvTypeOK
<1>8. ObjKnown'
  BY <1>7 DEF StopRefuses, InvInv, ObjKnown, Holding
<1>9. RetryNeverOvercounts'
  BY <1>4, RunFacts DEF StopRefuses, RetryNeverOvercounts
<1>10. CountIsEarned'
  <2>1. ASSUME NEW t \in Session \ {s}, invAt[t] \in {"judging", "writing"}
        PROVE  count'[t] <= refused'[obj'[t]]
    <3>1. count[t] <= refused[obj[t]] /\ count[t] \in 0 .. 3 /\ obj[t] \in Run
      BY <2>1, RunFacts DEF InvInv, InvTypeOK, CountIsEarned, Holding
    <3> QED
      BY <1>4, <1>7, <3>1, RunFacts
  <2> QED
    BY <1>5, <1>7, <2>1 DEF CountIsEarned
<1>11. WarningIsEarned'
  <2>1. ASSUME NEW t \in Session, invAt'[t] = "finishing", outcome'[t] = "warned"
        PROVE  refused'[obj'[t]] >= MaxRetries
    <3>1. t # s /\ invAt[t] = "finishing" /\ outcome[t] = "warned" /\ obj[t] \in Run
      BY <1>7, <2>1, RunFacts DEF StopRefuses, Holding
    <3>2. refused[obj[t]] >= MaxRetries
      BY <3>1 DEF InvInv, WarningIsEarned
    <3> QED
      BY <1>4, <1>7, <3>1, <3>2, RunFacts DEF MaxRetries
  <2> QED
    BY <2>1 DEF WarningIsEarned
<1>12. WarnedWasRefusedTwice'
  BY <1>4, RunFacts DEF StopRefuses, InvInv, WarnedWasRefusedTwice, MaxRetries
<1> QED
  BY <1>6, <1>8, <1>9, <1>10, <1>11, <1>12 DEF InvInv

LEMMA WriteStep ==
    ASSUME InvInv, NEW s \in Session, WriteRetry(s)
    PROVE  InvInv'
<1>1. obj[s] \in Run /\ count[s] \in 0 .. 3 /\ count[s] <= refused[obj[s]]
      /\ refused[obj[s]] \in 0 .. 3
  BY RunFacts DEF WriteRetry, Holding, InvInv, InvTypeOK, CountIsEarned
<1>2. retry' \in [Run -> 0 .. 3] /\ RetryNeverOvercounts'
  <2>1. CASE SetRetry(obj[s], count[s])
    BY <1>1, <2>1, SetRetryKeeps DEF WriteRetry
  <2>2. CASE SetRetry(obj[s], 0)
    BY <1>1, <2>2, SetRetryKeeps DEF WriteRetry
  <2>3. CASE UNCHANGED retry
    BY <2>3 DEF WriteRetry, InvInv, InvTypeOK, RetryNeverOvercounts
  <2> QED
    BY <2>1, <2>2, <2>3 DEF WriteRetry
<1> QED
  BY <1>2, AnswerKeeps
  DEF WriteRetry, InvInv, InvTypeOK, RunMade, WarnedWasRefusedTwice

LEMMA FinalizeStep ==
    ASSUME InvInv, NEW s \in Session, FinalizeSaves(s) \/ FinalizeRetires(s)
    PROVE  InvInv'
<1>1. obj[s] \in Run /\ obj[s] \in RunMade /\ refused[obj[s]] \in 0 .. 3
  BY RunFacts DEF FinalizeSaves, FinalizeRetires, Holding, InvInv, InvTypeOK
<1>2. CASE FinalizeSaves(s)
  <2>1. InvTypeOK'
    BY <1>1, <1>2 DEF FinalizeSaves, To, InvInv, InvTypeOK, RunMade
  <2>2. WarnedWasRefusedTwice'
    BY <1>1, <1>2 DEF FinalizeSaves, InvInv, InvTypeOK, WarningIsEarned, WarnedWasRefusedTwice
  <2> QED
    BY <1>2, <2>1, <2>2
    DEF FinalizeSaves, To, InvInv, InvTypeOK, ObjKnown, Holding, RetryNeverOvercounts,
        CountIsEarned, WarningIsEarned
<1>3. CASE FinalizeRetires(s)
  <2>1. retry' \in [Run -> 0 .. 3] /\ RetryNeverOvercounts'
    <3>1. CASE SetRetry(obj[s], 0)
      BY <1>1, <1>3, <3>1, SetRetryKeeps DEF FinalizeRetires
    <3>2. CASE UNCHANGED retry
      BY <1>3, <3>2 DEF FinalizeRetires, InvInv, InvTypeOK, RetryNeverOvercounts
    <3> QED
      BY <1>3, <3>1, <3>2 DEF FinalizeRetires
  <2> QED
    BY <1>3, <2>1, AnswerKeeps
    DEF FinalizeRetires, InvInv, InvTypeOK, RunMade, WarnedWasRefusedTwice
<1> QED
  BY <1>2, <1>3

LEMMA InvStep ==
    ASSUME TypeOK, InvInv, InvocationNext, UNCHANGED attached
    PROVE  InvInv'
<1>1. ASSUME NEW s \in Session, InvStop(s) \/ CreateFails(s)
      PROVE  InvInv'
  BY <1>1, CreateStep, LoadStep, WarnStep, SettleStep, RefuseStep, WriteStep,
     FinalizeStep DEF InvStop
<1>2. ASSUME NEW s \in Session, NEW k \in Skill, Invoke(s, k) \/ UseSkill(s, k)
      PROVE  InvInv'
  BY <1>2, InvokeStep, UseStep
<1>3. CASE OtherStop
  BY <1>3, OtherStep
<1> QED
  BY <1>1, <1>2, <1>3 DEF InvocationNext, TypeOK

-----------------------------------------------------------------------------
(***************************************************************************)
(* Both parts together.                                                    *)
(***************************************************************************)
IInv == TypeOK /\ GovInv /\ InvInv

LEMMA InitIInv ==
    Init => IInv
<1> SUFFICES ASSUME Init
             PROVE  IInv
  OBVIOUS
<1>1. MaxFaults \in Nat /\ MaxLoads \in Nat /\ MaxRuns \in Nat
  BY SessionAssumption, GovernanceAssumption, InvocationAssumption
<1>2. GovInv
  BY <1>1 DEF Init, GovInit, GovInv, GovTypeOK, HeldKnown, HeldIsEarned, StrikeIsEarned, Load
<1>3. skillOf = <<>> /\ skillOf \in Seq(Skill) /\ Len(skillOf) = 0
  BY DEF Init, InvocationInit
<1>4. InvTypeOK
  BY <1>1, <1>3 DEF Init, InvocationInit, InvTypeOK, RunMade
<1>5. InvInv
  BY <1>4 DEF Init, InvocationInit, InvInv, ObjKnown, Holding, RetryNeverOvercounts,
     CountIsEarned, WarningIsEarned, WarnedWasRefusedTwice, Run
<1>6. TypeOK
  BY <1>1, <1>2, <1>5 DEF Init, SessionInit, TypeOK, GovInv, InvInv
<1> QED
  BY <1>2, <1>5, <1>6 DEF IInv

(* Faults are counted up to their bound and no further. *)
LEMMA FaultsType ==
    ASSUME TypeOK, UNCHANGED faults \/ Fault
    PROVE  faults' \in 0 .. MaxFaults
BY SessionAssumption DEF TypeOK, Fault

LEMMA NextIInv ==
    IInv /\ [Next]_vars => IInv'
<1> SUFFICES ASSUME IInv, [Next]_vars
             PROVE  IInv'
  OBVIOUS
<1>1. CASE UNCHANGED vars
  <2>1. TypeOK'
    BY <1>1 DEF IInv, vars, sessionVars, govVars, invVars, TypeOK, GovTypeOK, InvTypeOK, RunMade
  <2>2. GovInv'
    BY <1>1, <2>1 DEF IInv, vars, govVars, TypeOK, GovInv, HeldKnown, HeldIsEarned, StrikeIsEarned
  <2>3. InvInv'
    BY <1>1, <2>1 DEF IInv, vars, invVars, TypeOK, InvInv, ObjKnown, RetryNeverOvercounts,
       CountIsEarned, WarningIsEarned, WarnedWasRefusedTwice
  <2> QED
    BY <2>1, <2>2, <2>3 DEF IInv
<1>2. CASE GovNext /\ InGovernance
  <2>1. GovInv'
    BY <1>2, GovStep DEF IInv, InGovernance
  <2>2. UNCHANGED faults \/ Fault
    BY <1>2 DEF GovNext, GovStop, Prompt, StopReadsGov, StopPasses, FirstStrike, SecondStrike,
       StopKilled, StopsEarlier, ClearGov
  <2>3. InvInv'
    BY <1>2 DEF IInv, InGovernance, invVars, InvInv, InvTypeOK, RunMade, ObjKnown,
       RetryNeverOvercounts, CountIsEarned, WarningIsEarned, WarnedWasRefusedTwice
  <2>4. TypeOK'
    BY <1>2, <2>1, <2>2, <2>3, FaultsType DEF IInv, InGovernance, TypeOK, GovInv, InvInv
  <2> QED
    BY <2>1, <2>3, <2>4 DEF IInv
<1>3. CASE InvocationNext /\ InInvocation
  <2>1. InvInv'
    BY <1>3, InvStep DEF IInv, InInvocation
  <2>2. UNCHANGED faults \/ Fault
    BY <1>3 DEF InvocationNext, InvStop, Invoke, SaveRun, CreateFails, UseSkill, StopLoads,
       StopWarns, StopSettles, StopRefuses, WriteRetry, FinalizeSaves, FinalizeRetires, OtherStop,
       Found, Missing
  <2>3. GovInv'
    BY <1>3 DEF IInv, InInvocation, govVars, GovInv, GovTypeOK, HeldKnown, HeldIsEarned, StrikeIsEarned
  <2>4. TypeOK'
    BY <1>3, <2>1, <2>2, <2>3, FaultsType DEF IInv, InInvocation, TypeOK, GovInv, InvInv
  <2> QED
    BY <2>1, <2>3, <2>4 DEF IInv
<1> QED
  BY <1>1, <1>2, <1>3 DEF Next

(***************************************************************************)
(* Every state of both validators has the types of TypeOK: no Stop writes  *)
(* a record the router did not, no session judges a run nobody made.       *)
(***************************************************************************)
THEOREM RetryTypeCorrect ==
    Spec => []TypeOK
<1>1. IInv => TypeOK
  BY DEF IInv
<1> QED
  BY InitIInv, NextIInv, <1>1, PTL DEF Spec

(***************************************************************************)
(* A retry count in the governance file was earned by the record it is in, *)
(* whichever sessions wrote the file (_update_governance_retry).           *)
(***************************************************************************)
THEOREM StrikesAreEarned ==
    Spec => []StrikeIsEarned
<1>1. IInv => StrikeIsEarned
  BY DEF IInv, GovInv
<1> QED
  BY InitIInv, NextIInv, <1>1, PTL DEF Spec

(***************************************************************************)
(* No retry file counts more refusals than were decided on its run         *)
(* (_increment_retry_count).                                               *)
(***************************************************************************)
THEOREM RetriesAreEarned ==
    Spec => []RetryNeverOvercounts
<1>1. IInv => RetryNeverOvercounts
  BY DEF IInv, InvInv
<1> QED
  BY InitIInv, NextIInv, <1>1, PTL DEF Spec

(***************************************************************************)
(* A run is let go without its evidence only after two refusals, whatever  *)
(* counts were lost (validate_manual_invocation).                          *)
(***************************************************************************)
THEOREM WarningsAreEarned ==
    Spec => []WarnedWasRefusedTwice
<1>1. IInv => WarnedWasRefusedTwice
  BY DEF IInv, InvInv
<1> QED
  BY InitIInv, NextIInv, <1>1, PTL DEF Spec

-----------------------------------------------------------------------------
(***************************************************************************)
(* One session and no failure: the counts are not only backed but exact.   *)
(***************************************************************************)

(* what the record in the file says is all it was struck *)
GovExact ==
  /\ \A n \in Load : strikes[n] <= 2 /\ (n > loads => strikes[n] = 0)
  /\ gov # NoState => strikes[gov.load] <= gov.count
  /\ \A s \in attached : govAt[s] = "judging" => held[s] = gov

GovAlone == Undisturbed => GovExact

LEMMA GovExactStep ==
    ASSUME IInv, GovExact, NEW s \in Session, attached = {s}, attached' = attached,
           UNCHANGED faults, GovNext
    PROVE  GovExact'
<1>1. \/ Prompt(s) \/ GovStop(s)
      \/ \E snapshot \in BOOLEAN : StopsEarlier(s, snapshot)
  <2>1. ~ Fault
    BY SessionAssumption DEF Fault, IInv, TypeOK
  <2> QED
    BY <2>1 DEF GovNext, StopKilled
<1>2. /\ loads \in 0 .. MaxLoads /\ MaxLoads \in Nat
      /\ \A n \in Load : strikes[n] \in 0 .. 3
      /\ gov # NoState => gov.load \in 1 .. loads /\ gov.load \in Load /\ gov.count \in {0, 1}
  BY StatesFact DEF IInv, GovInv, GovTypeOK
<1>3. CASE Prompt(s)
  BY <1>2, <1>3 DEF Prompt, IInv, GovInv, GovTypeOK, GovExact, Load
<1>4. CASE StopReadsGov(s)
  BY <1>2, <1>4 DEF StopReadsGov, Pass, IInv, GovInv, GovTypeOK, GovExact
<1>5. CASE StopPasses(s)
  BY <1>2, <1>5 DEF StopPasses, Pass, ClearGov, IInv, GovInv, GovTypeOK, GovExact
<1>6. CASE FirstStrike(s) \/ SecondStrike(s)
  <2> DEFINE n == gov.load
  <2>1. held[s] = gov /\ gov # NoState /\ n \in Load /\ strikes[n] <= gov.count
    BY <1>2, <1>6 DEF FirstStrike, SecondStrike, GovExact, IInv, GovInv, HeldKnown
  <2>2. strikes' = [strikes EXCEPT ![n] = OneMore(@)] /\ loads' = loads /\ govAt'[s] = "working"
    BY <1>6, <2>1 DEF FirstStrike, SecondStrike, Refuse, IInv, GovInv, GovTypeOK
  <2>3. \A k \in Load : k # n => strikes'[k] = strikes[k]
    BY <2>2 DEF IInv, GovInv, GovTypeOK
  <2>4. strikes'[n] = strikes[n] + 1
    BY <1>2, <2>1, <2>2 DEF OneMore, IInv, GovInv, GovTypeOK
  <2>5. \A k \in Load : strikes'[k] <= 2 /\ (k > loads' => strikes'[k] = 0)
    BY <1>2, <2>1, <2>2, <2>3, <2>4 DEF GovExact
  <2>6. CASE FirstStrike(s)
    <3>1. gov.count = 0
      BY <2>1, <2>6 DEF FirstStrike
    <3>2. gov' = [gov EXCEPT !.count = 1] \/ gov' = gov
      BY <2>1, <2>6 DEF FirstStrike
    <3>3. gov' # gov
      BY <2>1, <2>6, <3>1, SessionAssumption DEF FirstStrike, Fault, IInv, TypeOK, GovInv, GovTypeOK, States
    <3>4. gov'.load = n /\ gov'.count = 1
      BY <2>1, <3>2, <3>3 DEF IInv, GovInv, GovTypeOK, States
    <3> QED
      BY <1>2, <2>1, <2>2, <2>4, <2>5, <3>1, <3>4 DEF GovExact
  <2>7. CASE SecondStrike(s)
    <3>1. gov' = NoState
      BY <2>7, SessionAssumption DEF SecondStrike, ClearGov, Fault, IInv, TypeOK
    <3> QED
      BY <2>2, <2>5, <3>1 DEF GovExact
  <2> QED
    BY <1>6, <2>6, <2>7
<1>7. CASE \E snapshot \in BOOLEAN : StopsEarlier(s, snapshot)
  <2>1. govAt'[s] # "judging" /\ gov' \in {gov, NoState}
        /\ UNCHANGED <<loads, strikes>>
    BY <1>7 DEF StopsEarlier, ClearGov, IInv, GovInv, GovTypeOK
  <2> QED
    BY <2>1 DEF GovExact
<1> QED
  BY <1>1, <1>3, <1>4, <1>5, <1>6, <1>7 DEF GovStop

(* The retry file of a run that can still be judged counts its refusals,   *)
(* but for one that is about to be written.                                *)
Level(r) == refused[r] = retry[r]

InvExact ==
  /\ \A r \in Run : refused[r] <= 2 /\ (r > Len(skillOf) => refused[r] = 0 /\ Level(r))
  /\ \A t \in Session : t \notin attached => invAt[t] = "idle"
  /\ \A s \in attached :
       /\ active # NoRun /\ invAt[s] # "writing" => Level(active)
       /\ invAt[s] \in {"saving", "tagging", "judging", "finishing"} => Level(obj[s])
       /\ invAt[s] = "judging" => count[s] = retry[obj[s]]
       /\ invAt[s] = "writing" => /\ count[s] = retry[obj[s]] + 1
                                  /\ refused[obj[s]] = count[s]
                                  /\ active \in {NoRun, obj[s]}
       /\ invAt[s] = "judging" => active \in {NoRun, obj[s]}

InvAlone == Undisturbed => InvExact

LEMMA InvExactStep ==
    ASSUME IInv, InvExact, NEW s \in Session, attached = {s}, attached' = attached,
           UNCHANGED faults, InvocationNext
    PROVE  InvExact'
<1>1. /\ ~ Fault
      /\ \/ OtherStop \/ InvStop(s)
         \/ \E k \in Skill : Invoke(s, k) \/ UseSkill(s, k)
  <2>1. ~ Fault
    BY SessionAssumption DEF Fault, IInv, TypeOK
  <2> QED
    BY <2>1 DEF InvocationNext, CreateFails
<1>2. /\ InvInv /\ MaxRuns \in Nat /\ Len(skillOf) \in 0 .. MaxRuns
      /\ NoRun \notin Run
      /\ \A r \in RunMade : r # NoRun => r \in Run
      /\ \A r \in Run : retry[r] \in 0 .. 3 /\ refused[r] \in 0 .. 3
      /\ invAt[s] \in Holding => obj[s] \in Run
      /\ active # NoRun => active \in Run
  BY RunFacts DEF IInv, InvInv, InvTypeOK
<1>3. \A r \in Run : GetRetryCount(s, r) = {retry[r]}
  BY DEF GetRetryCount, InvExact
<1>4. CASE OtherStop
  BY <1>4 DEF OtherStop, InvExact, Level
<1>5. CASE SaveRun(s)
  BY <1>2, <1>5 DEF SaveRun, Work, To, InvInv, InvTypeOK, InvExact, Level
<1>6. CASE StopLoads(s)
  <2>1. active \in Run /\ active # NoRun /\ count' = [count EXCEPT ![s] = retry[active]]
    <3>1. active \in DOMAIN skillOf /\ DOMAIN skillOf = 1 .. Len(skillOf)
      BY <1>6 DEF StopLoads, OfTheSkill, InvInv, InvTypeOK, IInv
    <3>2. active \in Run
      BY <1>2, <3>1 DEF Run
    <3> QED
      BY <1>2, <1>3, <1>6, <3>2 DEF StopLoads
  <2> QED
    BY <1>2, <1>6, <2>1 DEF StopLoads, To, InvInv, InvTypeOK, InvExact, Level
<1>7. CASE StopWarns(s)
  BY <1>1, <1>2, <1>7 DEF StopWarns, Answer, To, InvInv, InvTypeOK, InvExact, Level
<1>8. CASE StopSettles(s)
  BY <1>2, <1>8 DEF StopSettles, To, InvInv, InvTypeOK, InvExact, Level
<1>9. CASE StopRefuses(s)
  <2> DEFINE r == obj[s]
  <2>1. r \in Run /\ invAt[s] = "judging" /\ retry[r] < 2 /\ refused[r] = retry[r]
    BY <1>2, <1>9 DEF StopRefuses, Holding, RetriesLeft, MaxRetries, InvExact, Level
  <2>2. count' = [count EXCEPT ![s] = OneMore(retry[r])]
    BY <1>3, <1>9, <2>1 DEF StopRefuses
  <2>3. OneMore(retry[r]) = retry[r] + 1 /\ OneMore(refused[r]) = retry[r] + 1
    BY <1>2, <2>1 DEF OneMore
  <2>4. refused'[r] = retry[r] + 1 /\ \A q \in Run : q # r => refused'[q] = refused[q]
    BY <1>2, <1>9, <2>1, <2>3 DEF StopRefuses, InvInv, InvTypeOK
  <2>5. /\ invAt'[s] = "writing" /\ count'[s] = retry[r] + 1
        /\ UNCHANGED <<active, skillOf, retry, obj>>
        /\ \A t \in Session \ {s} : invAt'[t] = invAt[t]
    BY <1>2, <1>9, <2>2, <2>3 DEF StopRefuses, To, InvInv, InvTypeOK
  <2>6. r <= Len(skillOf)
    BY <1>2, <2>1 DEF InvInv, InvTypeOK, RunMade
  <2>7. \A q \in Run : refused'[q] <= 2 /\ (q > Len(skillOf') => refused'[q] = 0 /\ Level(q)')
    BY <1>2, <2>1, <2>4, <2>5, <2>6 DEF InvExact, Level, Run
  <2>8. active' \in {NoRun, obj'[s]}
    BY <2>1, <2>5 DEF InvExact
  <2>9. refused'[obj'[s]] = count'[s] /\ count'[s] = retry'[obj'[s]] + 1
    BY <2>4, <2>5
  <2>10. \A t \in Session : t \notin attached' => invAt'[t] = "idle"
    BY <2>5 DEF InvExact
  <2> QED
    BY <2>5, <2>7, <2>8, <2>9, <2>10 DEF InvExact, Level
<1>10. CASE WriteRetry(s)
  <2>1. obj[s] \in Run /\ retry' = [retry EXCEPT ![obj[s]] = count[s]]
    BY <1>1, <1>2, <1>10 DEF WriteRetry, Holding, SetRetry, RetryFile, InvInv, InvTypeOK
  <2> QED
    BY <1>2, <1>10, <2>1 DEF WriteRetry, Answer, To, InvInv, InvTypeOK, RunMade, InvExact, Level
<1>11. CASE FinalizeSaves(s)
  BY <1>2, <1>11 DEF FinalizeSaves, To, Holding, InvInv, InvTypeOK, InvExact, Level
<1>12. CASE FinalizeRetires(s)
  <2>1. obj[s] \in Run /\ obj[s] <= Len(skillOf)
    BY <1>2, <1>12 DEF FinalizeRetires, Holding, InvInv, InvTypeOK, RunMade
  <2>2. \A q \in Run : q # obj[s] => retry'[q] = retry[q]
    BY <1>12 DEF FinalizeRetires, SetRetry, RetryFile
  <2>3. /\ invAt'[s] = "idle" /\ active' = NoRun /\ UNCHANGED <<skillOf, refused>>
        /\ \A t \in Session \ {s} : invAt'[t] = invAt[t]
    BY <1>12 DEF FinalizeRetires, Answer, To, InvInv, InvTypeOK, IInv
  <2>4. \A q \in Run : refused'[q] <= 2 /\ (q > Len(skillOf') => refused'[q] = 0 /\ Level(q)')
    BY <1>2, <2>1, <2>2, <2>3 DEF InvExact, Level, Run
  <2> QED
    BY <2>3, <2>4 DEF InvExact
<1>13. CASE \E k \in Skill : Invoke(s, k) \/ UseSkill(s, k)
  <2>1. CASE \E k \in Skill : UseSkill(s, k)
    BY <2>1 DEF UseSkill, InvExact, Level
  <2>2. ASSUME NEW k \in Skill, Invoke(s, k)
        PROVE  InvExact'
    <3>1. Len(skillOf') = Len(skillOf) + 1 /\ Len(skillOf') \in Run
      BY <1>2, <2>2 DEF Invoke, InvInv, InvTypeOK, Run
    <3>2. obj'[s] = Len(skillOf') /\ invAt'[s] = "saving" /\ active' = NoRun
          /\ \A t \in Session \ {s} : invAt'[t] = invAt[t]
      BY <2>2 DEF Invoke, To, InvInv, InvTypeOK, IInv
    <3>3. Level(Len(skillOf'))
      BY <1>2, <3>1 DEF InvExact
    <3>4. UNCHANGED <<retry, refused>>
      BY <2>2 DEF Invoke
    <3>5. refused'[obj'[s]] = retry'[obj'[s]]
      BY <3>2, <3>3, <3>4 DEF Level
    <3>6. \A q \in Run : refused'[q] <= 2 /\ (q > Len(skillOf') => refused'[q] = 0 /\ Level(q)')
      BY <1>2, <3>1, <3>4 DEF InvExact, Level, Run
    <3> QED
      BY <3>2, <3>4, <3>5, <3>6 DEF InvExact, Level
  <2> QED
    BY <1>13, <2>1, <2>2
<1> QED
  BY <1>1, <1>4, <1>5, <1>6, <1>7, <1>8, <1>9, <1>10, <1>11, <1>12, <1>13 DEF InvStop

Exact == IInv /\ GovAlone /\ InvAlone

LEMMA InitExact ==
    Init => Exact
<1>1. Init => GovExact
  BY GovernanceAssumption DEF Init, GovInit, SessionInit, GovExact, Load
<1>2. Init => InvExact
  BY DEF Init, InvocationInit, SessionInit, InvExact, Level
<1> QED
  BY <1>1, <1>2, InitIInv DEF Exact, GovAlone, InvAlone

LEMMA NextExact ==
    Exact /\ [Next]_vars => Exact'
<1> SUFFICES ASSUME Exact, [Next]_vars
             PROVE  Exact'
  OBVIOUS
<1>1. IInv'
  BY NextIInv DEF Exact
<1>2. CASE ~ Undisturbed'
  BY <1>1, <1>2 DEF Exact, GovAlone, InvAlone
<1>3. CASE Undisturbed'
  <2>1. UNCHANGED attached /\ (UNCHANGED faults \/ Fault)
    BY DEF Next, InGovernance, InInvocation, vars, sessionVars,
       GovNext, GovStop, Prompt, StopReadsGov, StopPasses, FirstStrike, SecondStrike,
       StopKilled, StopsEarlier, ClearGov,
       InvocationNext, InvStop, Invoke, SaveRun, CreateFails, UseSkill, StopLoads,
       StopWarns, StopSettles, StopRefuses, WriteRetry, FinalizeSaves, FinalizeRetires,
       OtherStop, Found, Missing
  <2>2. PICK s \in Session : attached = {s} /\ UNCHANGED faults /\ faults = 0
    BY <1>3, <2>1, SessionAssumption DEF Undisturbed, Fault, Exact, IInv, TypeOK
  <2>3. GovExact /\ InvExact
    BY <2>2 DEF Exact, GovAlone, InvAlone, Undisturbed
  <2>4. GovExact'
    <3>1. CASE UNCHANGED govVars
      BY <2>1, <2>3, <3>1 DEF govVars, GovExact
    <3>2. CASE GovNext
      BY <2>1, <2>2, <2>3, <3>2, GovExactStep DEF Exact
    <3> QED
      BY <3>1, <3>2 DEF Next, InInvocation, vars
  <2>5. InvExact'
    <3>1. CASE UNCHANGED invVars
      BY <2>1, <2>3, <3>1 DEF invVars, InvExact, Level
    <3>2. CASE InvocationNext
      BY <2>1, <2>2, <2>3, <3>2, InvExactStep DEF Exact
    <3> QED
      BY <3>1, <3>2 DEF Next, InGovernance, vars
  <2> QED
    BY <1>1, <2>4, <2>5 DEF Exact, GovAlone, InvAlone
<1> QED
  BY <1>2, <1>3

(***************************************************************************)
(* A session that has its terminal to itself and meets no failure has no   *)
(* more than two Stops refused over one record of the router               *)
(* (_check_governance_markers).                                            *)
(***************************************************************************)
THEOREM NoThirdStrike ==
    Spec => []TwoStrikes
<1>1. Exact => TwoStrikes
  BY DEF Exact, GovAlone, GovExact, TwoStrikes
<1> QED
  BY InitExact, NextExact, <1>1, PTL DEF Spec

(***************************************************************************)
(* Nor is a run of such a session refused more than MaxRetries times       *)
(* (validate_manual_invocation).                                           *)
(***************************************************************************)
THEOREM NoThirdRefusal ==
    Spec => []RefusalsBounded
<1>1. Exact => RefusalsBounded
  BY DEF Exact, InvAlone, InvExact, RefusalsBounded, MaxRetries
<1> QED
  BY InitExact, NextExact, <1>1, PTL DEF Spec
=============================================================================
