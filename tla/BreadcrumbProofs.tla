-------------------------- MODULE BreadcrumbProofs --------------------------
(***************************************************************************)
(* Theorems about the copies of a breadcrumb trail, for any number of      *)
(* processes, runs, calls and faults, any workflow, and any sizes of the   *)
(* log and of the debounced write.                                         *)
(***************************************************************************)
EXTENDS BreadcrumbProperties, FiniteSetTheorems, TLAPS

(***************************************************************************)
(* The inductive invariant.                                                *)
(***************************************************************************)

\* A trail tells the truth against n runs handed out, the steps marked and the
\* evidence given for each of them.
Sound(t, n, marked, evidenced) ==
  /\ t.run <= n
  /\ t.owned => t.run # 0
  /\ t.tools > 0 => t.done # {}
  /\ Backed(t, marked, evidenced)

SoundNow(t) == Sound(t, runs, earned, proved)

Copies ==
  /\ file \notin {NoTrail, Corrupt} => SoundNow(file)
  /\ \A p \in Process :
       /\ cache[p] # NoTrail => SoundNow(cache[p])
       /\ call[p].trail # NoTrail => SoundNow(call[p].trail)

Record == [at : Phase, step : Step \cup {NoStep}, evidence : BOOLEAN,
           trail : Trail \cup {NoTrail}, fresh : BOOLEAN]

Writing == {"init_log", "init_file", "set_log", "set_file"}

\* What a call under way holds.
Held(c) ==
  /\ c \in Record
  /\ c.at \in Writing => c.trail \in Trail /\ c.trail.run \in Run
  /\ c.at \in {"set", "set_log", "set_file"} => c.step \in Step
  /\ c.at = "set_log" => c.step \in c.trail.done

RowsSound ==
  \A r \in Run : rows[r] # NoTrail => rows[r] \subseteq ForAnyRun(earned)

\* An entry of the log names a run that was handed out, or a step that was
\* marked, for whatever run: the log does not say.
Plain(e, n, marked) ==
  /\ e \in Entry
  /\ e.run <= n
  /\ e.event = "step_complete" => e.step \in Step \cap ForAnyRun(marked)

LogSound(l, n, marked) ==
  /\ l \in Seq(Entry)
  /\ \A i \in 1 .. Len(l) : Plain(l[i], n, marked)

MemoryOK ==
  /\ dbReady \in [Process -> BOOLEAN]
  /\ counter \in [Process -> 0 .. WriteEvery - 1]
  /\ cache \in [Process -> Trail \cup {NoTrail}]

HistoryOK ==
  /\ runs \in 0 .. MaxRuns
  /\ earned \in [Run -> SUBSET Step] /\ proved \in [Run -> SUBSET Step]
  /\ \A r \in Run : IsFiniteSet(earned[r])

BoundsOK == calls \in 0 .. MaxCalls /\ faults \in 0 .. MaxFaults

FileOK == file \in Trail \cup {NoTrail, Corrupt}

RowsOK == rows \in [Run -> (SUBSET Step) \cup {NoTrail}]

CallsOK == DOMAIN call = Process /\ call \in [Process -> Record]
           /\ \A p \in Process : Held(call[p])

IInv ==
  /\ FileOK /\ RowsOK /\ MemoryOK /\ CallsOK /\ HistoryOK /\ BoundsOK
  /\ LogSound(log, runs, earned)
  /\ RowsSound
  /\ Copies

(***************************************************************************)
(* What the operators on trails and on the log return.                     *)
(***************************************************************************)
LEMMA FreshTrailSound ==
  ASSUME NEW r \in Run, NEW marked, NEW evidenced
  PROVE  FreshTrail(r) \in Trail /\ Sound(FreshTrail(r), r, marked, evidenced)
         /\ FreshTrail(r).run = r
BY BoundAssumption DEF FreshTrail, Trail, Sound, Backed, Run

LEMMA MarkedSound ==
  ASSUME NEW t \in Trail, NEW s \in Step, NEW e \in BOOLEAN, NEW n,
         NEW marked \in [Run -> SUBSET Step], NEW evidenced \in [Run -> SUBSET Step],
         Sound(t, n, marked, evidenced), t.run \in Run,
         s \in marked[t.run], e => s \in evidenced[t.run]
  PROVE  /\ Marked(t, s, e) \in Trail
         /\ Sound(Marked(t, s, e), n, marked, evidenced)
         /\ Marked(t, s, e).run = t.run
         /\ Marked(t, s, e).done = t.done \cup {s}
<1> DEFINE done == t.done \cup {s}
           proof == IF e THEN t.proved \cup {s} ELSE t.proved
           tools == IF t.tools = 2 THEN 2 ELSE t.tools + 1
           new == [t EXCEPT !.done = done, !.proved = proof, !.tools = tools]
<1>1. /\ done \in SUBSET Step /\ proof \in SUBSET Step /\ tools \in 0 .. 2
      /\ done # {} /\ proof \subseteq evidenced[t.run]
      /\ done \subseteq IF t.owned THEN marked[t.run] ELSE ForAnyRun(marked)
  <2>1. /\ t.done \subseteq Step /\ t.proved \subseteq Step
        /\ t.tools \in 0 .. 2 /\ t.run # 0
    BY DEF Trail, Run
  <2>2. /\ t.proved \subseteq evidenced[t.run]
        /\ t.done \subseteq IF t.owned THEN marked[t.run] ELSE ForAnyRun(marked)
    BY <2>1 DEF Sound, Backed
  <2>3. tools \in 0 .. 2
    BY <2>1
  <2>4. s \in ForAnyRun(marked)
    BY DEF ForAnyRun
  <2> QED
    BY <2>1, <2>2, <2>3, <2>4
<1>2. Marked(t, s, e) = new
  BY DEF Marked
<1> HIDE DEF done, proof, tools
<1>3. /\ new \in Trail
      /\ new.run = t.run /\ new.owned = t.owned /\ new.done = done
      /\ new.proved = proof /\ new.tools = tools
  BY <1>1 DEF Trail
<1> HIDE DEF new
<1>4. Sound(new, n, marked, evidenced)
  BY <1>1, <1>3 DEF Sound, Backed, Run
<1> QED
  BY <1>2, <1>3, <1>4 DEF done

\* SetMark keeps the count of the cached trail.
LEMMA UncountedSound ==
  ASSUME NEW t \in Trail, NEW n, NEW marked, NEW evidenced,
         Sound(t, n, marked, evidenced), NEW k \in 0 .. 2, t.done # {}
  PROVE  /\ [t EXCEPT !.tools = k] \in Trail
         /\ Sound([t EXCEPT !.tools = k], n, marked, evidenced)
BY DEF Trail, Sound, Backed

\* What a cold cache rebuilds from the log.
LEMMA LoadSound ==
  ASSUME NEW n \in 0 .. MaxRuns, NEW l, NEW marked, NEW evidenced,
         LogSound(l, n, marked), LoadFromLog(l) # NoTrail
  PROVE  /\ LoadFromLog(l) \in Trail
         /\ Sound(LoadFromLog(l), n, marked, evidenced)
<1>1. l # << >> /\ l \in Seq(Entry) /\ 1 \in 1 .. Len(l)
  BY DEF LoadFromLog, LogSound
<1>2. l[1] \in Entry /\ l[1].run \in 0 .. MaxRuns /\ l[1].run <= n
  BY <1>1 DEF LogSound, Plain, Entry
<1>3. StepsAfterFirst(l) \subseteq Step \cap ForAnyRun(marked)
  BY <1>1 DEF StepsAfterFirst, LogSound, Plain
<1>5. LoadFromLog(l) = [run |-> l[1].run, owned |-> FALSE, done |-> StepsAfterFirst(l),
                        proved |-> {}, tools |-> 0]
  BY <1>1 DEF LoadFromLog
<1> QED
  BY <1>2, <1>3, <1>5 DEF Trail, Sound, Backed

\* What was marked for some run stays so.
LEMMA AnyRunGrows ==
  ASSUME NEW marked, NEW marked2, \A r \in Run : marked[r] \subseteq marked2[r]
  PROVE  ForAnyRun(marked) \subseteq ForAnyRun(marked2)
BY DEF ForAnyRun

\* Soundness outlives new runs and new marks.
LEMMA SoundGrows ==
  ASSUME NEW t \in Trail, NEW n \in 0 .. MaxRuns, NEW n2 \in 0 .. MaxRuns, n <= n2,
         NEW marked, NEW marked2, NEW evidenced, NEW evidenced2,
         \A r \in Run : /\ marked[r] \subseteq marked2[r]
                        /\ evidenced[r] \subseteq evidenced2[r],
         Sound(t, n, marked, evidenced)
  PROVE  Sound(t, n2, marked2, evidenced2)
<1>1. t.run \in 0 .. MaxRuns
  BY DEF Trail
<1>2. ForAnyRun(marked) \subseteq ForAnyRun(marked2)
  BY AnyRunGrows
<1>3. t.run # 0 => t.run \in Run
  BY <1>1, BoundAssumption DEF Run
<1>4. Backed(t, marked2, evidenced2)
  BY <1>2, <1>3 DEF Sound, Backed
<1> QED
  BY <1>1, <1>4, BoundAssumption DEF Sound

LEMMA LogGrows ==
  ASSUME NEW l, NEW n \in 0 .. MaxRuns, NEW n2 \in 0 .. MaxRuns, n <= n2,
         NEW marked, NEW marked2,
         \A r \in Run : marked[r] \subseteq marked2[r],
         LogSound(l, n, marked)
  PROVE  LogSound(l, n2, marked2)
<1>1. \A i \in 1 .. Len(l) : l[i].run \in 0 .. MaxRuns
  BY DEF LogSound, Plain, Entry
<1>2. ForAnyRun(marked) \subseteq ForAnyRun(marked2)
  BY AnyRunGrows
<1>3. \A i \in 1 .. Len(l) : Plain(l[i], n2, marked2)
  BY <1>1, <1>2, BoundAssumption DEF LogSound, Plain
<1> QED
  BY <1>3 DEF LogSound

LEMMA LoggedSound ==
  ASSUME NEW n \in 0 .. MaxRuns, NEW marked, LogSound(log, n, marked),
         NEW e, Plain(e, n, marked)
  PROVE  LogSound(Logged(e), n, marked)
<1>1. e \in Entry /\ log \in Seq(Entry)
  BY DEF Plain, LogSound
<1>2. CASE Logged(e) = <<e>>
  <2>1. <<e>> \in Seq(Entry) /\ Len(<<e>>) = 1 /\ <<e>>[1] = e
    BY <1>1
  <2> QED
    BY <1>2, <2>1 DEF LogSound
<1>3. CASE Logged(e) = Append(log, e)
  <2> DEFINE new == Append(log, e)
  <2>1. /\ new \in Seq(Entry) /\ Len(new) = Len(log) + 1 /\ Len(log) \in Nat
        /\ \A i \in 1 .. Len(log) : new[i] = log[i]
        /\ new[Len(log) + 1] = e
    BY <1>1, <1>3
  <2> HIDE DEF new
  <2>2. \A i \in 1 .. Len(new) : Plain(new[i], n, marked)
    BY <2>1 DEF LogSound
  <2> QED
    BY <1>3, <2>1, <2>2 DEF LogSound, new
<1> QED
  BY <1>2, <1>3 DEF Logged

(***************************************************************************)
(* What a step has to show.                                                *)
(***************************************************************************)

\* Runs and marks only grow.
Grown ==
  /\ HistoryOK'
  /\ runs <= runs'
  /\ \A r \in Run : earned[r] \subseteq earned'[r] /\ proved[r] \subseteq proved'[r]

\* A trail that is sound after the step.
Fine(t) == t \in Trail /\ Sound(t, runs', earned', proved')

LEMMA NothingMarked ==
  ASSUME IInv, UNCHANGED <<runs, earned, proved>>
  PROVE  Grown
BY BoundAssumption DEF IInv, HistoryOK, Grown

LEMMA FineStays ==
  ASSUME IInv, Grown, NEW t \in Trail, SoundNow(t)
  PROVE  Fine(t)
<1>1. runs \in 0 .. MaxRuns /\ runs' \in 0 .. MaxRuns
  BY DEF IInv, HistoryOK, Grown
<1> QED
  BY <1>1, SoundGrows DEF Grown, SoundNow, Fine

LEMMA StateSound ==
  ASSUME IInv, NEW p \in Process, State(p) # NoTrail
  PROVE  State(p) \in Trail /\ SoundNow(State(p))
BY LoadSound DEF IInv, State, MemoryOK, Copies, HistoryOK, SoundNow

LEMMA ReturnedSound ==
  ASSUME IInv, NEW p \in Process, Returned(p) # NoTrail
  PROVE  /\ Returned(p) \in Trail /\ SoundNow(Returned(p))
         /\ Returned(p).owned /\ Returned(p).run # 0
<1>1. \/ Returned(p) = State(p) /\ State(p) # NoTrail /\ State(p).owned
      \/ Returned(p) = file /\ OwnedFile
  BY DEF Returned
<1>2. CASE Returned(p) = State(p) /\ State(p) # NoTrail /\ State(p).owned
  BY <1>2, StateSound DEF SoundNow, Sound
<1>3. CASE Returned(p) = file /\ OwnedFile
  BY <1>3 DEF IInv, FileOK, Copies, OwnedFile, SoundNow, Sound
<1> QED
  BY <1>1, <1>2, <1>3

LEMMA FineClaims ==
  ASSUME NEW t, Fine(t), t.run \in Run
  PROVE  t.done \subseteq ForAnyRun(earned')
BY DEF Fine, Sound, Backed, ForAnyRun

LEMMA FileFine ==
  ASSUME IInv, Grown, OwnedFile
  PROVE  Fine(file)
<1>1. file \in Trail /\ SoundNow(file)
  BY DEF IInv, FileOK, OwnedFile, Copies
<1> QED
  BY <1>1, FineStays

LEMMA CallFine ==
  ASSUME IInv, Grown, NEW p \in Process, call[p].trail # NoTrail
  PROVE  Fine(call[p].trail)
<1>1. call[p].trail \in Trail /\ SoundNow(call[p].trail)
  BY DEF IInv, CallsOK, Held, Record, Copies
<1> QED
  BY <1>1, FineStays

LEMMA IdleHeld == Held(Idle) /\ Idle.trail = NoTrail
BY DEF Idle, Held, Record, Phase, Writing

LEMMA Bounded ==
  ASSUME IInv,
         calls' = calls \/ (calls < MaxCalls /\ calls' = calls + 1),
         faults' = faults \/ Fault
  PROVE  BoundsOK'
BY BoundAssumption DEF IInv, BoundsOK, Fault

LEMMA RowsStay ==
  ASSUME IInv, Grown, UNCHANGED rows
  PROVE  RowsOK' /\ RowsSound'
<1>1. ForAnyRun(earned) \subseteq ForAnyRun(earned')
  BY AnyRunGrows DEF Grown
<1> QED
  BY <1>1 DEF IInv, RowsOK, RowsSound

LEMMA StepKeeps ==
  ASSUME IInv, Grown, BoundsOK', NEW p \in Process,
         NEW c, call' = [call EXCEPT ![p] = c], Held(c),
         c.trail \in {call[p].trail, NoTrail} \/ Fine(c.trail),
         NEW k, cache' = [cache EXCEPT ![p] = k],
         k \in {cache[p], NoTrail} \/ Fine(k),
         dbReady' \in [Process -> BOOLEAN],
         counter' \in [Process -> 0 .. WriteEvery - 1],
         file' \in {file, NoTrail, Corrupt} \/ Fine(file'),
         RowsOK', RowsSound',
         log' = log \/ log' = << >> \/ LogSound(log', runs', earned')
  PROVE  IInv'
<1>1. HistoryOK' /\ runs \in 0 .. MaxRuns /\ runs' \in 0 .. MaxRuns /\ runs <= runs'
  BY DEF IInv, HistoryOK, Grown
<1>2. FileOK'
  BY DEF IInv, FileOK, Fine
<1>3. MemoryOK'
  BY DEF IInv, MemoryOK, Fine
<1>4. CallsOK'
  BY DEF IInv, CallsOK, Held
<1>5. LogSound(log', runs', earned')
  <2>1. CASE log' = log
    BY <1>1, <2>1, LogGrows DEF IInv, Grown
  <2>2. CASE log' = << >>
    BY <2>2 DEF LogSound
  <2> QED
    BY <2>1, <2>2
<1>6. file' \notin {NoTrail, Corrupt} => Sound(file', runs', earned', proved')
  <2>1. CASE file' = file /\ file \notin {NoTrail, Corrupt}
    BY <2>1, FineStays DEF IInv, FileOK, Copies, Fine
  <2> QED
    BY <2>1 DEF Fine
<1>7. ASSUME NEW q \in Process, cache'[q] # NoTrail
      PROVE  Sound(cache'[q], runs', earned', proved')
  <2>1. CASE cache'[q] = cache[q]
    BY <1>7, <2>1, FineStays DEF IInv, MemoryOK, Copies, Fine
  <2>2. CASE cache'[q] # cache[q]
    BY <1>7, <2>2 DEF IInv, MemoryOK, Fine
  <2> QED
    BY <2>1, <2>2
<1>8. ASSUME NEW q \in Process, call'[q].trail # NoTrail
      PROVE  Sound(call'[q].trail, runs', earned', proved')
  <2>1. CASE call'[q].trail = call[q].trail
    BY <1>8, <2>1, CallFine DEF Fine
  <2>2. CASE call'[q].trail # call[q].trail
    BY <1>8, <2>2 DEF IInv, CallsOK, Fine
  <2> QED
    BY <2>1, <2>2
<1>9. Copies'
  BY <1>6, <1>7, <1>8 DEF Copies, SoundNow
<1> QED
  BY <1>1, <1>2, <1>3, <1>4, <1>5, <1>9 DEF IInv

-----------------------------------------------------------------------------
LEMMA InitInvariant == Init => IInv
<1> SUFFICES ASSUME Init PROVE IInv
  OBVIOUS
<1>1. FileOK /\ RowsOK /\ BoundsOK /\ RowsSound
  <2>1. FileOK /\ RowsOK
    BY DEF Init, FileOK, RowsOK
  <2>2. BoundsOK
    BY BoundAssumption DEF Init, BoundsOK
  <2>3. RowsSound
    BY DEF Init, RowsSound
  <2> QED
    BY <2>1, <2>2, <2>3
<1>2. MemoryOK
  BY BoundAssumption DEF Init, MemoryOK
<1>3. CallsOK
  BY IdleHeld DEF Init, CallsOK, Held
<1>4. HistoryOK
  BY BoundAssumption, FS_EmptySet DEF Init, HistoryOK
<1>5. LogSound(log, runs, earned)
  BY DEF Init, LogSound
<1>6. Copies
  BY IdleHeld DEF Init, Copies
<1> QED
  BY <1>1, <1>2, <1>3, <1>4, <1>5, <1>6 DEF IInv

(***************************************************************************)
(* initialize_breadcrumb_trail.                                            *)
(***************************************************************************)

\* A call goes on, with the trail it holds or with another one.
Going(c, at) == [c EXCEPT !.at = at]

GoingWith(c, at, t) == [c EXCEPT !.at = at, !.trail = t]

LEMMA GoingHeld ==
  ASSUME NEW c, Held(c), NEW at \in Phase,
         at # "set_log", at \in {"set", "set_file"} => c.step \in Step,
         at \in Writing => c.trail \in Trail /\ c.trail.run \in Run
  PROVE  Held(Going(c, at)) /\ Going(c, at).trail = c.trail
<1>1. c \in Record
  BY DEF Held
<1>2. /\ Going(c, at) \in Record /\ Going(c, at).at = at
      /\ Going(c, at).step = c.step /\ Going(c, at).trail = c.trail
  BY <1>1 DEF Record, Going
<1> QED
  BY <1>2 DEF Held

LEMMA GoingWithHeld ==
  ASSUME NEW c, Held(c), NEW at \in Phase, NEW t \in Trail \cup {NoTrail},
         at # "set_log", at \in {"set", "set_file"} => c.step \in Step,
         at \in Writing => t \in Trail /\ t.run \in Run
  PROVE  Held(GoingWith(c, at, t)) /\ GoingWith(c, at, t).trail = t
<1>1. c \in Record
  BY DEF Held
<1>2. /\ GoingWith(c, at, t) \in Record /\ GoingWith(c, at, t).at = at
      /\ GoingWith(c, at, t).step = c.step /\ GoingWith(c, at, t).trail = t
  BY <1>1 DEF Record, GoingWith
<1> QED
  BY <1>2 DEF Held

LEMMA AfterInitializeHeld ==
  ASSUME IInv, NEW p \in Process
  PROVE  Held(AfterInitialize(p)) /\ AfterInitialize(p).trail = NoTrail
<1>1. Held(call[p])
  BY DEF IInv, CallsOK
<1>2. CASE call[p].step = NoStep
  BY <1>2, IdleHeld DEF AfterInitialize
<1>3. CASE call[p].step # NoStep
  <2>1. call[p].step \in Step /\ "set" \in Phase /\ "set" \notin Writing
    BY <1>1, <1>3 DEF Held, Record, Phase, Writing
  <2>2. AfterInitialize(p) = GoingWith(call[p], "set", NoTrail)
    BY <1>3 DEF AfterInitialize, GoingWith
  <2> QED
    BY <1>1, <2>1, <2>2, GoingWithHeld
<1> QED
  BY <1>2, <1>3

LEMMA InitializeReuseKeeps ==
  ASSUME IInv, NEW p \in Process, InitializeReuse(p)
  PROVE  IInv'
<1>1. Grown
  BY NothingMarked DEF InitializeReuse, history
<1>2. BoundsOK'
  BY Bounded DEF InitializeReuse, Initializing, Begin
<1>3. Fine(file)
  BY <1>1, FileFine DEF InitializeReuse
<1>4. RowsOK' /\ RowsSound'
  BY <1>1, RowsStay DEF InitializeReuse, disk
<1> QED
  BY <1>1, <1>2, <1>3, <1>4, AfterInitializeHeld, StepKeeps
  DEF InitializeReuse, disk, IInv, MemoryOK

LEMMA InitializeFreshKeeps ==
  ASSUME IInv, NEW p \in Process, InitializeFresh(p)
  PROVE  IInv'
<1>1. /\ runs' = runs + 1 /\ runs' \in Run /\ runs \in Nat /\ runs' \in 0 .. MaxRuns
      /\ UNCHANGED <<log, cache, counter, earned, proved>>
  BY BoundAssumption DEF InitializeFresh, IInv, HistoryOK, Run, history
<1>2. Grown
  BY <1>1 DEF IInv, HistoryOK, Grown
<1>3. BoundsOK'
  BY Bounded DEF InitializeFresh, Initializing, Begin, RowsBecome
<1>4. FreshTrail(runs') \in Trail /\ Fine(FreshTrail(runs')) /\ FreshTrail(runs').run \in Run
  BY <1>1, FreshTrailSound DEF Fine
<1> DEFINE c == GoingWith(call[p], "init_log", FreshTrail(runs'))
<1>5. Held(c) /\ c.trail = FreshTrail(runs') /\ call' = [call EXCEPT ![p] = c]
  <2>1. Held(call[p]) /\ "init_log" \in Phase /\ "init_log" \notin {"set", "set_log", "set_file"}
    BY DEF IInv, CallsOK, Phase
  <2>2. call' = [call EXCEPT ![p] = c]
    BY DEF InitializeFresh, GoingWith
  <2> QED
    BY <1>4, <2>1, <2>2, GoingWithHeld
<1>6. RowsOK' /\ RowsSound'
  <2>1. CASE UNCHANGED rows
    BY <1>2, <2>1, RowsStay
  <2>2. CASE rows' = [rows EXCEPT ![runs'] = {}]
    BY <1>1, <1>2, <2>2 DEF IInv, Grown, RowsOK, RowsSound
  <2> QED
    BY <2>1, <2>2 DEF InitializeFresh, RowsBecome
<1>7. dbReady' \in [Process -> BOOLEAN]
  BY DEF InitializeFresh, IInv, MemoryOK
<1>8. file' \in {NoTrail, Corrupt}
  BY DEF InitializeFresh
<1>9. cache' = [cache EXCEPT ![p] = cache[p]] /\ counter' \in [Process -> 0 .. WriteEvery - 1]
  BY <1>1 DEF IInv, MemoryOK
<1> HIDE DEF c
<1> QED
  BY <1>1, <1>2, <1>3, <1>4, <1>5, <1>6, <1>7, <1>8, <1>9, StepKeeps

LEMMA InitializeLogKeeps ==
  ASSUME IInv, NEW p \in Process, InitializeLog(p)
  PROVE  IInv'
<1>1. Grown /\ BoundsOK' /\ RowsOK' /\ RowsSound'
  BY NothingMarked, Bounded, RowsStay DEF InitializeLog, history, bounds
<1>2. /\ Held(call[p]) /\ call[p].trail \in Trail /\ call[p].trail.run \in Run
      /\ call[p].trail # NoTrail
  BY ValueAssumption DEF IInv, CallsOK, Held, Writing, InitializeLog
<1>3. Fine(call[p].trail)
  BY <1>1, <1>2, CallFine
<1>4. LogSound(log', runs', earned')
  <2> DEFINE e == Initialized(call[p].trail.run)
  <2>1. /\ runs \in 0 .. MaxRuns /\ UNCHANGED <<runs, earned, proved>>
        /\ LogSound(log, runs, earned)
    BY DEF IInv, HistoryOK, InitializeLog, history
  <2>2. call[p].trail.run <= runs
    BY <1>3, <2>1 DEF Fine, Sound
  <2>3. Plain(e, runs, earned)
    BY <1>2, <2>2, BoundAssumption DEF Plain, Entry, Initialized, Run
  <2> HIDE DEF e
  <2>4. LogSound(Logged(e), runs, earned)
    BY <2>1, <2>3, LoggedSound
  <2> QED
    BY <2>1, <2>4 DEF InitializeLog, e
<1> DEFINE c == Going(call[p], "init_file")
<1>5. Held(c) /\ c.trail = call[p].trail /\ call' = [call EXCEPT ![p] = c]
  <2>1. "init_file" \in Phase /\ "init_file" \notin {"set", "set_log", "set_file"}
    BY DEF Phase
  <2>2. call' = [call EXCEPT ![p] = c]
    BY DEF InitializeLog, Going
  <2> QED
    BY <1>2, <2>1, <2>2, GoingHeld
<1> HIDE DEF c
<1> QED
  BY <1>1, <1>3, <1>4, <1>5, StepKeeps DEF InitializeLog, IInv, MemoryOK

LEMMA InitializeFileKeeps ==
  ASSUME IInv, NEW p \in Process, InitializeFile(p)
  PROVE  IInv'
<1>1. Grown /\ BoundsOK' /\ RowsOK' /\ RowsSound'
  BY NothingMarked, Bounded, RowsStay DEF InitializeFile, history, bounds
<1>2. Fine(call[p].trail)
  BY <1>1, CallFine, ValueAssumption
  DEF IInv, CallsOK, Held, Writing, InitializeFile
<1>3. cache' = [cache EXCEPT ![p] = cache[p]]
  BY DEF InitializeFile, memory, IInv, MemoryOK
<1> QED
  BY <1>1, <1>2, <1>3, AfterInitializeHeld, StepKeeps
  DEF InitializeFile, memory, IInv, MemoryOK

(***************************************************************************)
(* set_breadcrumb.                                                         *)
(***************************************************************************)
LEMMA EarnGrows ==
  ASSUME IInv, NEW n \in Run, NEW s \in Step, NEW e \in BOOLEAN, Earn(n, s, e),
         UNCHANGED runs
  PROVE  Grown /\ s \in earned'[n] /\ (e => s \in proved'[n])
<1>1. HistoryOK
  BY DEF IInv
<1>2. /\ earned' \in [Run -> SUBSET Step] /\ proved' \in [Run -> SUBSET Step]
      /\ \A r \in Run : earned[r] \subseteq earned'[r] /\ proved[r] \subseteq proved'[r]
      /\ s \in earned'[n] /\ (e => s \in proved'[n])
      /\ \A r \in Run : earned'[r] \in {earned[r], earned[r] \cup {s}}
  BY <1>1 DEF Earn, HistoryOK
<1>3. \A r \in Run : IsFiniteSet(earned'[r])
  <2> SUFFICES ASSUME NEW r \in Run PROVE IsFiniteSet(earned'[r])
    OBVIOUS
  <2>1. IsFiniteSet(earned[r]) /\ IsFiniteSet(earned[r] \cup {s})
    BY <1>1, FS_AddElement DEF HistoryOK
  <2> QED
    BY <1>2, <2>1
<1> QED
  BY <1>1, <1>2, <1>3, BoundAssumption DEF Grown, HistoryOK

LEMMA SetMissKeeps ==
  ASSUME IInv, NEW p \in Process, NEW s \in Step, NEW e \in BOOLEAN, SetMiss(p, s, e)
  PROVE  IInv'
<1>1. Grown /\ BoundsOK' /\ RowsOK' /\ RowsSound'
  BY NothingMarked, Bounded, RowsStay DEF SetMiss, Begin, history, disk
<1> DEFINE c == [Idle EXCEPT !.at = "init", !.step = s, !.evidence = e]
<1>2. Held(c) /\ c.trail = NoTrail /\ call' = [call EXCEPT ![p] = c]
  <2>1. Idle \in Record /\ Idle.trail = NoTrail /\ "init" \in Phase
    BY IdleHeld DEF Held, Phase
  <2>2. c \in Record /\ c.at = "init" /\ c.trail = NoTrail
    BY <2>1 DEF Record
  <2>3. call' = [call EXCEPT ![p] = c]
    BY DEF SetMiss
  <2> HIDE DEF c
  <2> QED
    BY <2>2, <2>3 DEF Held, Writing
<1>3. cache' = [cache EXCEPT ![p] = cache[p]]
  BY DEF SetMiss, memory, IInv, MemoryOK
<1> HIDE DEF c
<1> QED
  BY <1>1, <1>2, <1>3, StepKeeps DEF SetMiss, memory, disk, IInv, MemoryOK

LEMMA SetIgnoredKeeps ==
  ASSUME IInv, NEW p \in Process, NEW s, NEW e, SetIgnored(p, s, e)
  PROVE  IInv'
<1>1. Grown /\ BoundsOK' /\ RowsOK' /\ RowsSound'
  BY NothingMarked, Bounded, RowsStay DEF SetIgnored, Setting, Begin, history, disk
<1>2. Fine(State(p))
  BY <1>1, StateSound, FineStays DEF SetIgnored
<1> QED
  BY <1>1, <1>2, IdleHeld, StepKeeps DEF SetIgnored, disk, IInv, MemoryOK

LEMMA SetMarkKeeps ==
  ASSUME IInv, NEW p \in Process, NEW s \in Step, NEW e \in BOOLEAN, SetMark(p, s, e)
  PROVE  IInv'
<1> DEFINE t == State(p)
           marked == Marked(t, s, e)
           c == [at |-> "set_log", step |-> s, evidence |-> e,
                 trail |-> marked, fresh |-> s \notin t.done]
           k == [marked EXCEPT !.tools = t.tools]
<1>1. Grown /\ s \in earned'[t.run] /\ (e => s \in proved'[t.run])
  <2>1. t \in Trail /\ t.run # 0
    BY StateSound DEF SetMark
  <2>2. t.run \in Run
    <3> HIDE DEF t
    <3> QED
      BY <2>1, BoundAssumption DEF Trail, Run
  <2> QED
    BY <2>2, EarnGrows DEF SetMark
<1>2. BoundsOK'
  BY Bounded DEF SetMark, Setting, Begin, RowsBecome
<1>3. /\ t \in Trail /\ t.run \in Run /\ t.tools \in 0 .. 2 /\ t.run <= runs
      /\ Sound(t, runs', earned', proved')
  <2>1. Fine(t) /\ SoundNow(t) /\ t.run # 0
    BY <1>1, StateSound, FineStays DEF SetMark
  <2> HIDE DEF t
  <2> QED
    BY <2>1, BoundAssumption DEF Fine, SoundNow, Sound, Trail, Run
<1>4. /\ Fine(marked) /\ marked.run = t.run /\ marked.done = t.done \cup {s}
  <2>1. HistoryOK'
    BY <1>1 DEF Grown
  <2> HIDE DEF t
  <2> QED
    BY <1>1, <1>3, <2>1, MarkedSound DEF Fine, HistoryOK
<1>5. Fine(k)
  <2> HIDE DEF t, marked
  <2> QED
    BY <1>3, <1>4, UncountedSound DEF Fine
<1>6. Held(c) /\ c.trail = marked /\ call' = [call EXCEPT ![p] = c]
  <2>1. call' = [call EXCEPT ![p] = c]
    BY DEF SetMark
  <2>2. (s \notin t.done) \in BOOLEAN
    OBVIOUS
  <2> HIDE DEF t, marked
  <2> QED
    BY <1>3, <1>4, <2>1, <2>2 DEF Held, Record, Phase, Writing, Fine
<1>7. cache' = [cache EXCEPT ![p] = k]
  BY DEF SetMark
<1>8. RowsOK' /\ RowsSound'
  <2>1. rows' \in {rows, [rows EXCEPT ![t.run] = marked.done]}
    BY DEF SetMark, RowsBecome
  <2>2. CASE rows' = rows
    BY <1>1, <2>2, RowsStay
  <2>3. CASE rows' = [rows EXCEPT ![t.run] = marked.done]
    <3>1. marked.done \subseteq Step /\ marked.done \subseteq ForAnyRun(earned')
      <4> HIDE DEF t, marked
      <4> QED
        BY <1>3, <1>4, FineClaims DEF Fine, Trail
    <3>2. ForAnyRun(earned) \subseteq ForAnyRun(earned')
      BY <1>1, AnyRunGrows DEF Grown
    <3> HIDE DEF t, marked
    <3> QED
      BY <1>3, <2>3, <3>1, <3>2 DEF IInv, RowsOK, RowsSound
  <2> QED
    BY <2>1, <2>2, <2>3
<1> HIDE DEF t, marked, c, k
<1> QED
  BY <1>1, <1>2, <1>4, <1>5, <1>6, <1>7, <1>8, StepKeeps DEF SetMark, IInv, MemoryOK

LEMMA SetLogKeeps ==
  ASSUME IInv, NEW p \in Process, SetLog(p)
  PROVE  IInv'
<1>1. /\ Held(call[p]) /\ call[p].trail \in Trail /\ call[p].trail.run \in Run
      /\ call[p].trail # NoTrail
      /\ call[p].step \in Step /\ call[p].evidence \in BOOLEAN
  BY ValueAssumption DEF IInv, CallsOK, Held, Writing, SetLog, Record
<1>2. Grown
  BY NothingMarked DEF SetLog, history
<1>3. BoundsOK' /\ RowsOK' /\ RowsSound'
  BY <1>2, Bounded, RowsStay DEF SetLog, bounds
<1>4. Fine(call[p].trail)
  BY <1>1, <1>2, CallFine
<1>5. LogSound(log', runs', earned')
  <2> DEFINE e == StepComplete(call[p].step)
  <2>1. runs \in 0 .. MaxRuns /\ runs' = runs
    BY DEF IInv, HistoryOK, SetLog
  <2>2. LogSound(log, runs, earned')
    BY <1>2, <2>1, LogGrows DEF IInv, Grown
  <2>3. call[p].step \in ForAnyRun(earned')
    BY <1>1, <1>4, FineClaims DEF IInv, CallsOK, Held, SetLog
  <2>4. Plain(e, runs, earned')
    BY <1>1, <2>1, <2>3, BoundAssumption DEF Plain, Entry, StepComplete
  <2> HIDE DEF e
  <2>5. LogSound(Logged(e), runs, earned')
    BY <2>1, <2>2, <2>4, LoggedSound
  <2> QED
    BY <2>1, <2>5 DEF SetLog, e
<1> DEFINE c == Going(call[p], "set_file")
<1>6. Held(c) /\ c.trail = call[p].trail /\ call' = [call EXCEPT ![p] = c]
  <2>1. "set_file" \in Phase
    BY DEF Phase
  <2>2. call' = [call EXCEPT ![p] = c]
    BY DEF SetLog, Going
  <2> QED
    BY <1>1, <2>1, <2>2, GoingHeld
<1> HIDE DEF c
<1> QED
  BY <1>2, <1>3, <1>4, <1>5, <1>6, StepKeeps DEF SetLog, IInv, MemoryOK

LEMMA SetFileKeeps ==
  ASSUME IInv, NEW p \in Process, SetFile(p)
  PROVE  IInv'
<1>1. Grown /\ BoundsOK' /\ RowsOK' /\ RowsSound'
  BY NothingMarked, Bounded, RowsStay DEF SetFile, history, bounds
<1>2. Fine(call[p].trail)
  BY <1>1, CallFine, ValueAssumption DEF IInv, CallsOK, Held, Writing, SetFile
<1>3. /\ cache' = [cache EXCEPT ![p] = cache[p]]
      /\ dbReady' \in [Process -> BOOLEAN]
      /\ counter' \in [Process -> 0 .. WriteEvery - 1]
  BY BoundAssumption DEF SetFile, IInv, MemoryOK
<1>4. file' \in {file, call[p].trail}
  BY DEF SetFile
<1>5. UNCHANGED log /\ call' = [call EXCEPT ![p] = Idle]
  BY DEF SetFile
<1> QED
  BY <1>1, <1>2, <1>3, <1>4, <1>5, IdleHeld, StepKeeps

(***************************************************************************)
(* get_breadcrumb_trail.                                                   *)
(***************************************************************************)
LEMMA GetTrailKeeps ==
  ASSUME IInv, NEW p \in Process, GetTrail(p)
  PROVE  IInv'
<1>1. Grown /\ BoundsOK' /\ RowsOK' /\ RowsSound'
  BY NothingMarked, Bounded, RowsStay DEF GetTrail, Begin, history
<1> DEFINE k == IF Returned(p) # NoTrail THEN Returned(p) ELSE State(p)
<1>2. k = NoTrail \/ Fine(k)
  BY <1>1, ReturnedSound, StateSound, FineStays
<1>3. cache' = [cache EXCEPT ![p] = k]
  BY DEF GetTrail
<1>4. /\ call' = [call EXCEPT ![p] = call[p]] /\ Held(call[p])
      /\ dbReady' \in [Process -> BOOLEAN]
      /\ counter' \in [Process -> 0 .. WriteEvery - 1]
      /\ file' \in {file, NoTrail}
      /\ log' = log
  BY DEF GetTrail, IInv, MemoryOK, CallsOK
<1> HIDE DEF k
<1> QED
  BY <1>1, <1>2, <1>3, <1>4, StepKeeps

(***************************************************************************)
(* The clears and the cleanups.                                            *)
(***************************************************************************)

\* A step of a clear or a cleanup: nothing is marked, no copy is new, and the
\* rows it leaves are some of those that were there.
LEMMA RemovalKeeps ==
  ASSUME IInv, NEW p \in Process, UNCHANGED <<runs, earned, proved>>, BoundsOK',
         NEW c, call' = [call EXCEPT ![p] = c], Held(c),
         c.trail \in {call[p].trail, NoTrail},
         NEW k \in {cache[p], NoTrail}, cache' = [cache EXCEPT ![p] = k],
         dbReady' \in [Process -> BOOLEAN],
         counter' \in [Process -> 0 .. WriteEvery - 1],
         file' \in {file, NoTrail, Corrupt},
         \/ UNCHANGED rows
         \/ /\ DOMAIN rows' = Run /\ rows' = [r \in Run |-> rows'[r]]
            /\ \A r \in Run : rows'[r] \in {rows[r], NoTrail},
         log' \in {log, << >>}
  PROVE  IInv'
<1>1. Grown
  BY NothingMarked
<1>2. RowsOK' /\ RowsSound'
  <2>1. CASE UNCHANGED rows
    BY <1>1, <2>1, RowsStay
  <2>2. CASE ~ UNCHANGED rows
    BY <1>1, <2>2 DEF IInv, Grown, RowsOK, RowsSound
  <2> QED
    BY <2>1, <2>2
<1> QED
  BY <1>1, <1>2, StepKeeps

\* The cleanup goes on to its next file or log.
LEMMA NextRemoval ==
  ASSUME IInv, NEW p \in Process, NEW at \in {"clear_log", "clear_file", "session_file",
                                              "stale_file"},
         call' = [call EXCEPT ![p].at = at]
  PROVE  /\ Held(Going(call[p], at)) /\ Going(call[p], at).trail = call[p].trail
         /\ call' = [call EXCEPT ![p] = Going(call[p], at)]
<1>1. at \in Phase /\ at \notin Writing /\ at \notin {"set", "set_log", "set_file"}
  BY DEF Phase, Writing
<1>2. Held(call[p])
  BY DEF IInv, CallsOK
<1>3. call' = [call EXCEPT ![p] = Going(call[p], at)]
  BY DEF Going
<1> QED
  BY <1>1, <1>2, <1>3, GoingHeld

LEMMA SameMemory ==
  ASSUME IInv, NEW p \in Process
  PROVE  /\ UNCHANGED cache => cache' = [cache EXCEPT ![p] = cache[p]]
         /\ UNCHANGED dbReady => dbReady' \in [Process -> BOOLEAN]
         /\ UNCHANGED counter => counter' \in [Process -> 0 .. WriteEvery - 1]
         /\ UNCHANGED call => call' = [call EXCEPT ![p] = call[p]] /\ Held(call[p])
BY DEF IInv, MemoryOK, CallsOK

LEMMA ClearRowKeeps ==
  ASSUME IInv, NEW p \in Process, ClearRow(p)
  PROVE  IInv'
<1>1. BoundsOK' /\ UNCHANGED <<runs, earned, proved, file, log, dbReady, counter>>
  BY Bounded DEF ClearRow, Begin, RowsBecome, history
<1>2. call' = [call EXCEPT ![p].at = "clear_log"] /\ cache' = [cache EXCEPT ![p] = NoTrail]
  BY DEF ClearRow
<1>3. \/ UNCHANGED rows
      \/ /\ DOMAIN rows' = Run /\ rows' = [r \in Run |-> rows'[r]]
         /\ \A r \in Run : rows'[r] \in {rows[r], NoTrail}
  BY DEF ClearRow, RowsBecome, IInv, RowsOK
<1> QED
  BY <1>1, <1>2, <1>3, NextRemoval, SameMemory, RemovalKeeps

LEMMA ClearLogKeeps ==
  ASSUME IInv, NEW p \in Process, ClearLog(p)
  PROVE  IInv'
<1>1. BoundsOK' /\ UNCHANGED <<runs, earned, proved, file, rows, cache, dbReady, counter>>
  BY Bounded DEF ClearLog, history, bounds, memory
<1>2. call' = [call EXCEPT ![p].at = "clear_file"] /\ log' = << >>
  BY DEF ClearLog
<1> QED
  BY <1>1, <1>2, NextRemoval, SameMemory, RemovalKeeps

LEMMA ClearFileKeeps ==
  ASSUME IInv, NEW p \in Process, ClearFile(p)
  PROVE  IInv'
<1>1. BoundsOK' /\ UNCHANGED <<runs, earned, proved, log, rows, cache, dbReady, counter>>
  BY Bounded DEF ClearFile, history, bounds, memory
<1>2. call' = [call EXCEPT ![p] = Idle] /\ file' = NoTrail
  BY DEF ClearFile
<1> QED
  BY <1>1, <1>2, IdleHeld, SameMemory, RemovalKeeps

LEMMA ClearAllKeeps ==
  ASSUME IInv, NEW p \in Process, ClearAll(p)
  PROVE  IInv'
<1>1. /\ BoundsOK'
      /\ UNCHANGED <<runs, earned, proved, log, rows, cache, dbReady, counter, call>>
  BY Bounded DEF ClearAll, Begin, history, memory
<1>2. file' = NoTrail
  BY DEF ClearAll
<1> QED
  BY <1>1, <1>2, SameMemory, RemovalKeeps

LEMMA SessionRowsKeeps ==
  ASSUME IInv, NEW p \in Process, SessionRows(p)
  PROVE  IInv'
<1>1. /\ BoundsOK'
      /\ UNCHANGED <<runs, earned, proved, file, log, cache, dbReady, counter>>
  BY Bounded DEF SessionRows, Begin, RowsBecome, history, memory
<1>2. call' = [call EXCEPT ![p].at = "session_file"]
  BY DEF SessionRows
<1>3. \/ UNCHANGED rows
      \/ /\ DOMAIN rows' = Run /\ rows' = [r \in Run |-> rows'[r]]
         /\ \A r \in Run : rows'[r] \in {rows[r], NoTrail}
  BY DEF SessionRows, RowsBecome
<1> QED
  BY <1>1, <1>2, <1>3, NextRemoval, SameMemory, RemovalKeeps

LEMMA SessionFileKeeps ==
  ASSUME IInv, NEW p \in Process, SessionFile(p)
  PROVE  IInv'
<1>1. BoundsOK' /\ UNCHANGED <<runs, earned, proved, log, rows, dbReady, counter>>
  BY Bounded DEF SessionFile, history, bounds
<1> DEFINE k == IF OwnedFile THEN NoTrail ELSE cache[p]
<1>2. /\ call' = [call EXCEPT ![p] = Idle] /\ file' \in {file, NoTrail}
      /\ cache' = [cache EXCEPT ![p] = k] /\ k \in {cache[p], NoTrail}
  BY DEF SessionFile
<1> HIDE DEF k
<1> QED
  BY <1>1, <1>2, IdleHeld, SameMemory, RemovalKeeps

LEMMA StaleRowsKeeps ==
  ASSUME IInv, NEW p \in Process, StaleRows(p)
  PROVE  IInv'
<1>1. PICK old \in SUBSET (1 .. runs) :
         RowsBecome([r \in Run |-> IF dbReady[p] /\ r \in old THEN NoTrail ELSE rows[r]])
  BY DEF StaleRows
<1>2. /\ BoundsOK'
      /\ UNCHANGED <<runs, earned, proved, file, log, cache, dbReady, counter>>
  BY <1>1, Bounded DEF StaleRows, Begin, RowsBecome, history, memory
<1>3. call' = [call EXCEPT ![p].at = "stale_file"]
  BY DEF StaleRows
<1>4. \/ UNCHANGED rows
      \/ /\ DOMAIN rows' = Run /\ rows' = [r \in Run |-> rows'[r]]
         /\ \A r \in Run : rows'[r] \in {rows[r], NoTrail}
  BY <1>1 DEF RowsBecome
<1> QED
  BY <1>2, <1>3, <1>4, NextRemoval, SameMemory, RemovalKeeps

LEMMA StaleFileKeeps ==
  ASSUME IInv, NEW p \in Process, StaleFile(p)
  PROVE  IInv'
<1>1. BoundsOK' /\ UNCHANGED <<runs, earned, proved, log, rows, dbReady, counter>>
  BY Bounded DEF StaleFile, history, bounds
<1>2. /\ call' = [call EXCEPT ![p] = Idle] /\ file' \in {file, NoTrail}
      /\ cache' = [cache EXCEPT ![p] = NoTrail]
  BY DEF StaleFile
<1> QED
  BY <1>1, <1>2, IdleHeld, SameMemory, RemovalKeeps

LEMMA CleanupLogsKeeps ==
  ASSUME IInv, NEW p \in Process, CleanupLogs(p)
  PROVE  IInv'
<1>1. /\ BoundsOK'
      /\ UNCHANGED <<runs, earned, proved, file, rows, cache, dbReady, counter, call>>
  BY Bounded DEF CleanupLogs, Begin, history, memory
<1>2. log' = << >>
  BY DEF CleanupLogs
<1> QED
  BY <1>1, <1>2, SameMemory, RemovalKeeps

(***************************************************************************)
(* Failures and ends of a process.                                         *)
(***************************************************************************)
LEMMA FailKeeps ==
  ASSUME IInv, NEW p \in Process, Fail(p)
  PROVE  IInv'
<1>1. /\ BoundsOK'
      /\ UNCHANGED <<runs, earned, proved, log, rows, cache, dbReady, counter>>
  BY Bounded DEF Fail, Fault, history, memory
<1>2. call' = [call EXCEPT ![p] = Idle] /\ file' \in {file, NoTrail, Corrupt}
  BY DEF Fail, CutShort
<1> QED
  BY <1>1, <1>2, IdleHeld, SameMemory, RemovalKeeps

LEMMA RestartKeeps ==
  ASSUME IInv, NEW p \in Process, Restart(p)
  PROVE  IInv'
<1>1. BoundsOK' /\ UNCHANGED <<runs, earned, proved, log, rows>>
  BY Bounded DEF Restart, Fault, history
<1>2. /\ call' = [call EXCEPT ![p] = Idle] /\ file' \in {file, NoTrail, Corrupt}
      /\ cache' = [cache EXCEPT ![p] = NoTrail]
  BY DEF Restart, CutShort
<1>3. dbReady' \in [Process -> BOOLEAN] /\ counter' \in [Process -> 0 .. WriteEvery - 1]
  BY BoundAssumption DEF Restart, IInv, MemoryOK
<1> QED
  BY <1>1, <1>2, <1>3, IdleHeld, RemovalKeeps

-----------------------------------------------------------------------------
LEMMA NextInvariant == IInv /\ [Next]_vars => IInv'
<1> SUFFICES ASSUME IInv, [Next]_vars PROVE IInv'
  OBVIOUS
<1>1. CASE UNCHANGED vars
  BY <1>1
  DEF vars, disk, memory, history, bounds, IInv, FileOK, RowsOK, MemoryOK, CallsOK,
      HistoryOK, BoundsOK, RowsSound, Copies, SoundNow
<1>2. ASSUME NEW p \in Process, Initialize(p) PROVE IInv'
  BY <1>2, InitializeReuseKeeps, InitializeFreshKeeps, InitializeLogKeeps,
     InitializeFileKeeps DEF Initialize
<1>3. ASSUME NEW p \in Process, SetBreadcrumb(p) PROVE IInv'
  <2>1. ASSUME NEW r \in Request,
               SetMiss(p, r[1], r[2]) \/ SetIgnored(p, r[1], r[2])
                 \/ SetMark(p, r[1], r[2])
        PROVE  IInv'
    <3>1. r[1] \in Step /\ r[2] \in BOOLEAN
      BY StepAssumption
    <3> QED
      BY <1>3, <2>1, <3>1, SetMissKeeps, SetIgnoredKeeps, SetMarkKeeps
  <2> QED
    BY <1>3, <2>1, SetLogKeeps, SetFileKeeps DEF SetBreadcrumb
<1>4. ASSUME NEW p \in Process, GetTrail(p) PROVE IInv'
  BY <1>4, GetTrailKeeps
<1>5. ASSUME NEW p \in Process, Clear(p) PROVE IInv'
  BY <1>5, ClearRowKeeps, ClearLogKeeps, ClearFileKeeps, ClearAllKeeps DEF Clear
<1>6. ASSUME NEW p \in Process, Cleanup(p) PROVE IInv'
  BY <1>6, SessionRowsKeeps, SessionFileKeeps, StaleRowsKeeps, StaleFileKeeps,
     CleanupLogsKeeps DEF Cleanup
<1>7. ASSUME NEW p \in Process, Fail(p) \/ Restart(p) PROVE IInv'
  BY <1>7, FailKeeps, RestartKeeps
<1> QED
  BY <1>1, <1>2, <1>3, <1>4, <1>5, <1>6, <1>7 DEF Next

LEMMA Invariant == Spec => []IInv
BY InitInvariant, NextInvariant, PTL DEF Spec

(* Types: each copy of the trail, and a call that is about to write one    *)
(* holds it.                                                               *)
THEOREM BreadcrumbTypeCorrect == Spec => []TypeOK
<1>1. IInv => TypeOK
  BY DEF IInv, FileOK, RowsOK, MemoryOK, CallsOK, Held, HistoryOK, BoundsOK,
         LogSound, Record, Writing, TypeOK
<1> QED
  BY Invariant, <1>1, PTL

(* No copy of a trail with this terminal's id - file, cache, call - lists  *)
(* a step that no set_breadcrumb call marked for its own run, no copy      *)
(* whatever lists evidence that was not given for its run, and a row, or   *)
(* what a cold cache rebuilds from the log, lists only steps that were     *)
(* marked for some run.                                                    *)
THEOREM CreditStaysEarned == Spec => []CreditIsEarned
<1>1. ASSUME IInv PROVE CreditIsEarned
  <2>1. IsTrail(file) => Honest(file)
    BY <1>1 DEF IInv, Copies, SoundNow, Sound, IsTrail, Honest
  <2>2. ASSUME NEW p \in Process
        PROVE  /\ IsTrail(cache[p]) => Honest(cache[p])
               /\ IsTrail(call[p].trail) => Honest(call[p].trail)
    BY <1>1 DEF IInv, Copies, SoundNow, Sound, IsTrail, Honest
  <2>3. IsTrail(LoadFromLog(log)) => Honest(LoadFromLog(log))
    BY <1>1, LoadSound DEF IInv, HistoryOK, Sound, IsTrail, Honest
  <2> QED
    BY <1>1, <2>1, <2>2, <2>3 DEF IInv, RowsSound, CreditIsEarned
<1> QED
  BY Invariant, <1>1, PTL

(* A trail that verify_with_enforcement passes belongs to a run whose work *)
(* was really marked in a trail of that run, not of an earlier one: some   *)
(* step (MINIMAL), two steps with a verification (STANDARD), every step of *)
(* the workflow with evidence (STRICT).                                    *)
THEOREM VerificationStaysEarned == Spec => []VerifiedIsEarned
<1>1. ASSUME IInv, NEW p \in Process, NEW level \in Level,
             Returned(p) # NoTrail, Complete(Returned(p), level, TRUE)
      PROVE  Returned(p).run # 0 /\ Work(Returned(p).run, level)
  <2> DEFINE t == Returned(p)
             r == t.run
  <2>1. t \in Trail /\ t.owned /\ r # 0 /\ SoundNow(t)
    BY <1>1, ReturnedSound
  <2>2. /\ r \in Run /\ t.tools \in 0 .. 2
        /\ t.done \subseteq earned[r] /\ t.proved \subseteq proved[r]
        /\ t.tools > 0 => t.done # {}
    <3> HIDE DEF t
    <3> QED
      BY <2>1, BoundAssumption DEF Trail, SoundNow, Sound, Backed, Run
  <2>3. IsFiniteSet(earned[r])
    BY <1>1, <2>2 DEF IInv, HistoryOK
  <2>4. /\ Cardinality(t.done) \in Nat /\ Cardinality(earned[r]) \in Nat
        /\ Cardinality(t.done) <= Cardinality(earned[r])
    BY <2>2, <2>3, FS_Subset, FS_CardinalityType
  <2> HIDE DEF t
  <2>5. CASE level = "MINIMAL"
    <3>1. t.tools >= 2
      BY <1>1, <2>1, <2>5, ValueAssumption DEF Complete, Busy, t
    <3> QED
      BY <2>1, <2>2, <2>5, <3>1 DEF Work, t
  <2>6. CASE level = "STANDARD"
    <3>1. Cardinality(t.done) >= 2 /\ t.done \cap Checking # {}
      BY <1>1, <2>1, <2>6, ValueAssumption DEF Complete, t
    <3>2. Cardinality(earned[r]) >= 2 /\ earned[r] \cap Checking # {}
      BY <2>2, <2>4, <3>1
    <3> QED
      BY <2>1, <2>6, <3>2 DEF Work, t
  <2>7. CASE level = "STRICT"
    <3>1. Workflow \subseteq t.done /\ t.done \subseteq t.proved
      BY <1>1, <2>1, <2>7, ValueAssumption DEF Complete, t
    <3> QED
      BY <2>1, <2>2, <2>7, <3>1 DEF Work, t
  <2> QED
    BY <2>5, <2>6, <2>7 DEF Level
<1>2. IInv => VerifiedIsEarned
  BY <1>1 DEF VerifiedIsEarned
<1> QED
  BY Invariant, <1>2, PTL
=============================================================================
