-------------------------- MODULE AuditIngestProofs --------------------------
(***************************************************************************)
(* Proofs about AuditIngest for every value of its constants: no           *)
(* authentication is skipped, by an invariant that says what a run under   *)
(* way has walked past and still holds in `latest`.                        *)
(***************************************************************************)
EXTENDS AuditIngest, WellFoundedInduction, TLAPS


\* A nonempty set of natural numbers has a least member.
LEMMA LeastNat ==
  ASSUME NEW D \in SUBSET Nat, D # {}
  PROVE  \E d \in D : \A e \in D : d <= e
  <1> DEFINE Less == {ss \in Nat \X Nat : ss[1] < ss[2]}
  <1>1. IsWellFoundedOn(Less, Nat)
    <2>1. Less = OpToRel(<, Nat)
      BY DEF OpToRel
    <2> QED BY <2>1, NatLessThanWellFounded, Zenon
  <1>2. \E d \in D : \A e \in D : ~(<<e, d>> \in Less)
    <2> HIDE DEF Less
    <2> QED BY <1>1, WFMin, Zenon
  <1>3. PICK d \in D : \A e \in D : ~(<<e, d>> \in Less)
    BY <1>2
  <1>4. ASSUME NEW e \in D PROVE d <= e
    <2>1. d \in Nat /\ e \in Nat /\ ~(<<e, d>> \in Less)
      BY <1>3
    <2>2. <<e, d>> \in Nat \X Nat => ~(e < d)
      BY <2>1
    <2> QED BY <2>1, <2>2
  <1> QED BY <1>4

\* A ts is a whole number, at most the clock's bound.
LEMMA StampIsTime ==
  ASSUME NEW x \in Stamps
  PROVE  x \in Int /\ MaxClock - x \in Nat
  <1>1. PICK t \in Times, d \in Delays : x = t - d
    BY DEF Stamps
  <1>2. t \in Nat /\ t <= MaxClock /\ d \in Nat /\ MaxClock \in Nat
    BY IngestAssumption DEF Times
  <1> QED BY <1>1, <1>2

\* So is the ts of an event that CloudWatch stamps with the clock.
LEMMA StampOfEvent ==
  ASSUME TypeOK, NEW d \in Delays
  PROVE  clock - d \in Stamps
  BY DEF TypeOK, Stamps

\* A set of events has one with a newest ts, and Newest is such a one.
LEMMA NewestIsNewest ==
  ASSUME NEW T \in SUBSET Times, T # {}, \A t \in T : stamp[t] \in Stamps
  PROVE  Newest(T) \in T /\ \A u \in T : stamp[u] <= stamp[Newest(T)]
  <1> DEFINE D == {MaxClock - stamp[t] : t \in T}
  <1>1. \A t \in T : stamp[t] \in Int /\ MaxClock - stamp[t] \in Nat
    BY StampIsTime
  <1>2. D \in SUBSET Nat /\ D # {}
    BY <1>1
  <1>3. \E d \in D : \A e \in D : d <= e
    <2> HIDE DEF D
    <2> QED BY <1>2, LeastNat
  <1>4. PICK m \in T : \A u \in T : MaxClock - stamp[m] <= MaxClock - stamp[u]
    BY <1>3
  <1>5. \A u \in T : stamp[u] <= stamp[m]
    BY <1>1, <1>4, IngestAssumption
  <1> DEFINE E == {u \in T : stamp[u] = stamp[m]}
  <1>6. E \in SUBSET Nat /\ E # {}
    <2>1. \A t \in Times : t \in Nat
      BY IngestAssumption DEF Times
    <2> QED BY <2>1
  <1>7. \E t \in E : \A u \in E : t <= u
    <2> HIDE DEF E
    <2> QED BY <1>6, LeastNat
  <1>8. PICK t \in E : \A u \in E : t <= u
    BY <1>7
  <1>9. ASSUME NEW u \in T
        PROVE  stamp[u] < stamp[t] \/ (stamp[u] = stamp[t] /\ t <= u)
    <2>1. stamp[u] <= stamp[m] /\ stamp[t] = stamp[m] /\ stamp[u] \in Int /\ stamp[m] \in Int
      BY <1>1, <1>5, <1>8
    <2>2. stamp[u] = stamp[m] => t <= u
      BY <1>8
    <2> QED BY <2>1, <2>2
  <1>10. /\ Newest(T) \in T
         /\ \A u \in T : \/ stamp[u] < stamp[Newest(T)]
                         \/ stamp[u] = stamp[Newest(T)] /\ Newest(T) <= u
    <2> HIDE DEF E
    <2>1. t \in T
      BY <1>8 DEF E
    <2> QED BY <1>9, <2>1 DEF Newest
  <1> QED BY <1>1, <1>10

-----------------------------------------------------------------------------
(* The inductive invariant.                                                *)

\* An event is in the log once it has happened, and readable within MaxLag.
Logged ==
  /\ \A t \in Times : log[t] # None => t <= clock
  /\ \A t \in readable : log[t] # None
  /\ \A t \in Times : log[t] # None => stamp[t] \in Stamps
  /\ \A t \in Times : log[t] # None /\ t \notin readable => clock <= t + MaxLag

\* Where the next run starts, given what is saved.
Saved ==
  /\ from # None => nextStart # None \/ resume # None
  /\ nextStart # None => from # None /\ from <= nextStart /\ nextStart <= clock
  /\ resume # None => /\ from # None /\ from <= resume.start
                      /\ resume.start <= resume.end /\ resume.end <= clock
                      /\ resume.start = IF nextStart # None THEN nextStart ELSE from

\* The window of the run is the one the checkpoint calls for.
Begun ==
  pc # "idle" =>
    /\ win.start <= win.end /\ win.end <= clock
    /\ nextStart # None => win.start = nextStart
    /\ nextStart = None /\ from # None => win.start = from
    /\ resume # None => win.start = resume.start /\ win.end = resume.end /\ resume.at <= win.at

\* The table or the run has the event at t, or one with a ts as new.
KnownOrRead(t) ==
  log[t] # None =>
    \/ store[log[t]] # None /\ stamp[store[log[t]]] >= stamp[t]
    \/ latest[log[t]] # None /\ stamp[latest[log[t]]] >= stamp[t]

\* What the run has walked past is known, the overlap apart.
Walked ==
  pc # "idle" =>
    /\ \A t \in Times : (IF from # None THEN from ELSE win.start) <= t
                          /\ t < win.at /\ t < win.end - Overlap => KnownOrRead(t)
    /\ pc = "write" /\ ~more => win.at > win.end

\* What the run holds are events of the log.
LatestTruthful ==
  \A s \in Sockets : latest[s] # None => latest[s] \in readable /\ log[latest[s]] = s

Inv == /\ TypeOK /\ Logged /\ Saved /\ Begun /\ Walked
       /\ NoneSkipped /\ ResumeSkipsNothing
       /\ LatestTruthful /\ StoreTruthful

-----------------------------------------------------------------------------
\* What a page makes of `latest`.
LEMMA MergedSound ==
  ASSUME TypeOK, Logged, LatestTruthful, NEW s \in Sockets, NEW span
  PROVE  /\ Merged(s, span) \in Times \cup {None}
         /\ \A t \in Found(s, span) : Merged(s, span) # None /\ stamp[Merged(s, span)] >= stamp[t]
         /\ latest[s] # None => Merged(s, span) # None /\ stamp[Merged(s, span)] >= stamp[latest[s]]
         /\ Merged(s, span) # None => Merged(s, span) \in Found(s, span) \cup {latest[s]}
  <1> DEFINE T == (Found(s, span) \cup {latest[s]}) \ {None}
  <1>1. None \notin Times
    BY IngestAssumption DEF Times
  <1>2. T \in SUBSET Times
    BY DEF TypeOK, Found
  <1>3. \A t \in Found(s, span) : t \in T
    BY <1>1 DEF TypeOK, Found
  <1>4. Merged(s, span) = Newest(T)
    BY DEF Merged
  <1>5. \A t \in T : stamp[t] \in Stamps
    BY <1>2 DEF Found, Logged, LatestTruthful
  <1>6. \A t \in T : stamp[t] \in Int
    BY <1>5, StampIsTime
  <1>7. CASE T = {}
    BY <1>3, <1>4, <1>7 DEF Newest
  <1>8. CASE T # {}
    <2>1. Newest(T) \in T /\ \A u \in T : stamp[u] <= stamp[Newest(T)]
      BY <1>2, <1>5, <1>8, NewestIsNewest
    <2>2. \A u \in T : stamp[Newest(T)] >= stamp[u]
      BY <1>6, <2>1
    <2> QED BY <1>1, <1>2, <1>3, <1>4, <2>1, <2>2
  <1> QED BY <1>7, <1>8

\* Every step keeps the types.
LEMMA TypeStep ==
  ASSUME TypeOK, Logged, LatestTruthful, [Next]_vars
  PROVE  TypeOK'
  <1> USE IngestAssumption, LagAssumption
  <1>1. ASSUME NEW s \in Sockets, NEW d \in Delays, Authenticate(s, d) PROVE TypeOK'
    <2>1. clock - d \in Stamps
      BY StampOfEvent
    <2> QED BY <1>1, <2>1 DEF TypeOK, Authenticate, savedVars, runVars
  <1>2. ASSUME NEW t \in Times, Deliver(t) PROVE TypeOK'
    BY <1>2 DEF TypeOK, Deliver, savedVars, runVars
  <1>3. CASE Tick
    BY <1>3 DEF TypeOK, Tick, Times, savedVars, runVars
  <1>4. CASE StartRun
    <2>1. Window \in Windows
      <3>1. CASE resume # None
        BY <3>1 DEF TypeOK, Window
      <3>2. CASE resume = None
        <4>1. (IF nextStart # None THEN nextStart ELSE clock - Backfill) \in Int
          BY DEF TypeOK, Times
        <4> QED BY <3>2, <4>1 DEF TypeOK, Window, Windows, Times
      <3> QED BY <3>1, <3>2
    <2>2. latest' \in [Sockets -> Times \cup {None}]
      BY <1>4 DEF StartRun, Nothing
    <2> QED BY <1>4, <2>1, <2>2 DEF TypeOK, StartRun, worldVars, savedVars
  <1>5. ASSUME NEW n \in win.at .. win.end, ReadPage(n) PROVE TypeOK'
    <2>1. latest' \in [Sockets -> Times \cup {None}]
      BY <1>5, MergedSound DEF ReadPage
    <2>2. win' \in Windows
      <3>1. win.at \in Int /\ win.end \in Int
        BY DEF TypeOK, Windows
      <3>2. n + 1 \in Int
        BY <3>1
      <3>3. win' = [win EXCEPT !.at = n + 1] /\ win \in Windows
        BY <1>5 DEF ReadPage, TypeOK
      <3> HIDE DEF TypeOK
      <3> QED BY <3>2, <3>3 DEF Windows
    <2>3. left' \in 0 .. Timeout
      BY <1>5 DEF ReadPage, TypeOK
    <2>4. more' \in BOOLEAN /\ pc' \in {"idle", "read", "write"}
      BY <1>5 DEF ReadPage
    <2> QED BY <1>5, <2>1, <2>2, <2>3, <2>4 DEF ReadPage, TypeOK, worldVars, savedVars
  <1>6. ASSUME NEW s \in Sockets, Record(s) PROVE TypeOK'
    <2>1. left' \in 0 .. Timeout
      BY <1>6 DEF Record, TypeOK
    <2>2. store' \in [Sockets -> Times \cup {None}] /\ latest' \in [Sockets -> Times \cup {None}]
      BY <1>6 DEF Record, TypeOK
    <2> QED BY <1>6, <2>1, <2>2 DEF Record, TypeOK, worldVars, savedVars
  <1>7. CASE Save
    <2>1. win.start \in Int /\ win.end \in Int
      BY DEF TypeOK, Windows
    <2>2. nextStart' \in Int \cup {None} /\ resume' \in Windows \cup {None} /\ from' \in Int \cup {None}
      BY <1>7, <2>1 DEF Save, TypeOK, Later
    <2> QED BY <1>7, <2>2 DEF Save, TypeOK, worldVars
  <1>8. CASE Fail \/ Kill
    <2>1. Abandon /\ faults' \in 0 .. MaxFaults
      BY <1>8 DEF Fail, Kill, TypeOK
    <2> QED BY <2>1 DEF Abandon, Nothing, TypeOK, worldVars, savedVars
  <1>9. CASE Hang
    BY <1>9 DEF Hang, TypeOK, worldVars, savedVars
  <1>10. CASE UNCHANGED vars
    BY <1>10 DEF TypeOK, vars, worldVars, savedVars, runVars
  <1> QED BY <1>1, <1>2, <1>3, <1>4, <1>5, <1>6, <1>7, <1>8, <1>9, <1>10 DEF Next, Run

\* The steps of a run leave the world alone.
LEMMA RunLeavesWorld ==
  ASSUME Run \/ Fail \/ Hang
  PROVE  UNCHANGED worldVars
  BY DEF Run, Fail, Hang, StartRun, ReadPage, Record, Save, Kill, Abandon

\* Every step keeps the log in order.
LEMMA LoggedStep ==
  ASSUME TypeOK, Logged, [Next]_vars
  PROVE  Logged'
  <1> USE IngestAssumption, LagAssumption
  <1>1. ASSUME NEW s \in Sockets, NEW d \in Delays, Authenticate(s, d) PROVE Logged'
    <2>1. clock - d \in Stamps
      BY StampOfEvent
    <2> QED BY <1>1, <2>1 DEF TypeOK, Logged, Authenticate, Times
  <1>2. ASSUME NEW t \in Times, Deliver(t) PROVE Logged'
    BY <1>2 DEF TypeOK, Logged, Deliver, Times
  <1>3. CASE Tick
    BY <1>3 DEF TypeOK, Logged, Tick, Times
  <1>4. CASE Run \/ Fail \/ Hang
    BY <1>4, RunLeavesWorld DEF Logged, worldVars
  <1>5. CASE UNCHANGED vars
    BY <1>5 DEF Logged, vars, worldVars
  <1> QED BY <1>1, <1>2, <1>3, <1>4, <1>5 DEF Next

\* The conjuncts that talk about the checkpoint, the run and the table.
Rest == /\ Saved /\ Begun /\ Walked
        /\ NoneSkipped /\ ResumeSkipsNothing
        /\ LatestTruthful /\ StoreTruthful

\* Time passing and a delivery disturb none of them.
LEMMA QuietStep ==
  ASSUME TypeOK, Rest, clock' \in Times, clock <= clock', readable \subseteq readable',
         UNCHANGED <<log, stamp, savedVars, store, runVars>>
  PROVE  Rest'
  <1>1. UNCHANGED <<log, stamp, nextStart, resume, from, store, pc, win, more, latest, left>>
    BY DEF savedVars, runVars
  <1>2. clock \in Int /\ clock' \in Int
    BY IngestAssumption DEF TypeOK, Times
  <1>3. Saved'
    BY <1>1, <1>2 DEF Rest, Saved, TypeOK, Windows
  <1>4. Begun'
    BY <1>1, <1>2 DEF Rest, Begun, TypeOK, Windows
  <1>5. Walked' /\ NoneSkipped' /\ ResumeSkipsNothing'
    BY <1>1 DEF Rest, Walked, NoneSkipped, ResumeSkipsNothing, Known, KnownOrRead
  <1>6. LatestTruthful' /\ StoreTruthful'
    BY <1>1 DEF Rest, LatestTruthful, StoreTruthful
  <1> QED BY <1>3, <1>4, <1>5, <1>6 DEF Rest

\* An event that happens now is in no part of the log that was walked past.
LEMMA HappensStep ==
  ASSUME TypeOK, Logged, Rest, NEW s \in Sockets, NEW d \in Delays, Authenticate(s, d)
  PROVE  Rest'
  <1> USE IngestAssumption, LagAssumption
  <1>1. /\ UNCHANGED <<clock, readable, nextStart, resume, from, store, pc, win, more, latest, left>>
        /\ clock \in Times /\ \A t \in Times \ {clock} : log'[t] = log[t] /\ stamp'[t] = stamp[t]
        /\ log[clock] = None
    BY DEF Authenticate, savedVars, runVars, TypeOK
  <1>2. Saved' /\ Begun'
    BY <1>1 DEF Rest, Saved, Begun
  <1>3. \A t \in readable : t \in Times /\ t # clock
    BY <1>1 DEF Logged, TypeOK
  <1>4. \A u \in Sockets : /\ store[u] # None => stamp'[store[u]] = stamp[store[u]]
                           /\ latest[u] # None => stamp'[latest[u]] = stamp[latest[u]]
    BY <1>1, <1>3 DEF Rest, StoreTruthful, LatestTruthful
  <1>5. \A t \in Times : log[t] # None => log[t] \in Sockets
    BY DEF TypeOK
  <1>6. Walked'
    <2>1. pc # "idle" => win.end <= clock
      BY DEF Rest, Begun
    <2>2. pc # "idle" => ~(clock < win.end - Overlap)
      BY <1>1, <2>1 DEF TypeOK, Windows, Times
    <2>3. ASSUME NEW t \in Times, t # clock, KnownOrRead(t)
          PROVE  KnownOrRead(t)'
      <3>1. log'[t] = log[t] /\ stamp'[t] = stamp[t] /\ store' = store /\ latest' = latest
        BY <1>1, <2>3
      <3>2. log[t] # None => /\ store[log[t]] # None => stamp'[store[log[t]]] = stamp[store[log[t]]]
                             /\ latest[log[t]] # None => stamp'[latest[log[t]]] = stamp[latest[log[t]]]
        BY <1>4, <1>5
      <3> QED BY <2>3, <3>1, <3>2 DEF KnownOrRead
    <2> QED BY <1>1, <2>2, <2>3 DEF Rest, Walked
  <1>7. ASSUME NEW t \in Times, t # clock, Known(t)
        PROVE  Known(t)'
    <2>1. log'[t] = log[t] /\ stamp'[t] = stamp[t] /\ store' = store
      BY <1>1, <1>7
    <2>2. log[t] # None /\ store[log[t]] # None => stamp'[store[log[t]]] = stamp[store[log[t]]]
      BY <1>4, <1>5
    <2> QED BY <1>7, <2>1, <2>2 DEF Known
  <1>8. NoneSkipped'
    <2>1. nextStart # None => ~(clock < nextStart)
      BY <1>1 DEF Rest, Saved, TypeOK, Times
    <2> QED BY <1>1, <1>7, <2>1 DEF Rest, NoneSkipped
  <1>9. ResumeSkipsNothing'
    <2>1. resume # None => ~(clock < resume.end - Overlap)
      BY <1>1 DEF Rest, Saved, TypeOK, Windows, Times
    <2> QED BY <1>1, <1>7, <2>1 DEF Rest, ResumeSkipsNothing
  <1>10. LatestTruthful' /\ StoreTruthful'
    BY <1>1, <1>3 DEF Rest, LatestTruthful, StoreTruthful
  <1> QED BY <1>2, <1>6, <1>8, <1>9, <1>10 DEF Rest

\* A run begins with the window the checkpoint calls for.
LEMMA StartStep ==
  ASSUME TypeOK, Rest, StartRun
  PROVE  Rest'
  <1> USE IngestAssumption, LagAssumption
  <1>1. /\ UNCHANGED <<clock, log, stamp, readable, nextStart, resume, from, store>>
        /\ pc' = "read" /\ win' = Window /\ latest' = Nothing
    BY DEF StartRun, worldVars, savedVars
  <1>2. Saved' /\ NoneSkipped' /\ ResumeSkipsNothing' /\ StoreTruthful'
    BY <1>1 DEF Rest, Saved, NoneSkipped, ResumeSkipsNothing, StoreTruthful, Known
  <1>3. LatestTruthful'
    BY <1>1 DEF LatestTruthful, Nothing
  <1>4. clock \in Int
    BY DEF TypeOK, Times
  <1>5. CASE resume # None
    <2>1. win' = resume
      BY <1>1, <1>5 DEF Window
    <2>2. resume \in Windows
      BY <1>5 DEF TypeOK
    <2>3. Begun'
      BY <1>1, <1>5, <2>1, <2>2 DEF Rest, Saved, Begun, Windows
    <2>4. from # None
      BY <1>5 DEF Rest, Saved
    <2>5. \A t \in Times : Known(t) => KnownOrRead(t)'
      BY <1>1 DEF Known, KnownOrRead
    <2>6. Walked'
      BY <1>1, <1>5, <2>1, <2>4, <2>5 DEF Rest, ResumeSkipsNothing, Walked
    <2> QED BY <1>2, <1>3, <2>3, <2>6 DEF Rest
  <1>6. CASE resume = None /\ nextStart # None
    <2>1. win' = [start |-> nextStart, end |-> clock, at |-> nextStart]
      BY <1>1, <1>6 DEF Window
    <2>2. from # None /\ nextStart <= clock
      BY <1>6 DEF Rest, Saved
    <2>3. Begun'
      BY <1>1, <1>4, <1>6, <2>1, <2>2 DEF Begun
    <2>4. \A t \in Times : Known(t) => KnownOrRead(t)'
      BY <1>1 DEF Known, KnownOrRead
    <2>5. Walked'
      BY <1>1, <1>6, <2>1, <2>2, <2>4 DEF Rest, NoneSkipped, Walked
    <2> QED BY <1>2, <1>3, <2>3, <2>5 DEF Rest
  <1>7. CASE resume = None /\ nextStart = None
    <2>1. win' = [start |-> clock - Backfill, end |-> clock, at |-> clock - Backfill]
      BY <1>1, <1>7 DEF Window
    <2>2. from = None
      BY <1>7 DEF Rest, Saved
    <2>3. Begun'
      BY <1>1, <1>4, <1>7, <2>1, <2>2 DEF Begun
    <2>4. \A t \in Times : ~(clock - Backfill <= t /\ t < clock - Backfill)
      BY <1>4 DEF Times
    <2>5. Walked'
      BY <1>1, <2>1, <2>2, <2>4 DEF Walked
    <2> QED BY <1>2, <1>3, <2>3, <2>5 DEF Rest
  <1> QED BY <1>5, <1>6, <1>7

\* A page hands over all it should, but for events that are not readable yet,
\* and those are in the overlap.
LEMMA PageStep ==
  ASSUME TypeOK, Logged, Rest, NEW n \in win.at .. win.end, ReadPage(n)
  PROVE  Rest'
  <1> USE IngestAssumption, LagAssumption
  <1>1. /\ UNCHANGED <<clock, log, stamp, readable, nextStart, resume, from, store>>
        /\ pc = "read" /\ pc' # "idle"
        /\ win' = [win EXCEPT !.at = n + 1] /\ more' = (n < win.end)
        /\ latest' = [u \in Sockets |-> Merged(u, win.at .. n)]
    BY DEF ReadPage, worldVars, savedVars
  <1>2. /\ win \in Windows /\ n \in Int /\ win.at \in Int /\ win.end \in Int /\ win.start \in Int
        /\ win.at <= n /\ n <= win.end /\ clock \in Int
        /\ win'.start = win.start /\ win'.end = win.end /\ win'.at = n + 1
    <2>1. win \in Windows /\ clock \in Int
      BY DEF TypeOK, Times
    <2>2. win.at \in Int /\ win.end \in Int /\ win.start \in Int
      BY <2>1 DEF Windows
    <2>3. n \in Int /\ win.at <= n /\ n <= win.end
      BY <2>2
    <2>4. win'.start = win.start /\ win'.end = win.end /\ win'.at = n + 1
      BY <1>1, <2>1 DEF Windows
    <2> QED BY <2>1, <2>2, <2>3, <2>4
  <1>3. Saved' /\ NoneSkipped' /\ ResumeSkipsNothing' /\ StoreTruthful'
    BY <1>1 DEF Rest, Saved, NoneSkipped, ResumeSkipsNothing, StoreTruthful, Known
  <1>4. Begun'
    <2>1. resume # None => resume.at \in Int
      BY DEF TypeOK, Windows
    <2> QED BY <1>1, <1>2, <2>1 DEF Rest, Begun
  <1>5. LatestTruthful
    BY DEF Rest
  <1>6. \A t \in readable : stamp[t] \in Int
    BY StampIsTime DEF Logged, TypeOK
  <1>7. LatestTruthful'
    BY <1>1, <1>5, MergedSound DEF LatestTruthful, Found
  <1>8. ASSUME NEW t \in Times, KnownOrRead(t)
        PROVE  KnownOrRead(t)'
    <2> SUFFICES ASSUME log[t] # None PROVE KnownOrRead(t)'
      BY <1>1 DEF KnownOrRead
    <2>1. log[t] \in Sockets /\ stamp[t] \in Int
      BY StampIsTime DEF TypeOK, Logged
    <2>2. CASE store[log[t]] # None /\ stamp[store[log[t]]] >= stamp[t]
      BY <1>1, <2>2, Zenon DEF KnownOrRead
    <2>3. CASE latest[log[t]] # None /\ stamp[latest[log[t]]] >= stamp[t]
      <3>1. latest'[log[t]] = Merged(log[t], win.at .. n)
        BY <1>1, <2>1
      <3>2. latest'[log[t]] # None /\ stamp[latest'[log[t]]] >= stamp[latest[log[t]]]
        BY <2>1, <2>3, <3>1, <1>5, MergedSound
      <3>3. /\ latest'[log[t]] \in readable /\ latest[log[t]] \in readable
        BY <1>7, <1>1, <2>1, <2>3, <3>2 DEF Rest, LatestTruthful
      <3>4. stamp[latest'[log[t]]] \in Int /\ stamp[latest[log[t]]] \in Int
        BY <3>3, <1>6
      <3>5. stamp[latest'[log[t]]] >= stamp[t]
        BY <2>1, <2>3, <3>2, <3>4
      <3> QED BY <1>1, <3>2, <3>5, Zenon DEF KnownOrRead
    <2> QED BY <1>8, <2>2, <2>3, Zenon DEF KnownOrRead
  <1>9. ASSUME NEW t \in Times, win.at <= t, t <= n, t < win.end - Overlap
        PROVE  KnownOrRead(t)'
    <2> SUFFICES ASSUME log[t] # None PROVE KnownOrRead(t)'
      BY <1>1 DEF KnownOrRead
    <2>1. log[t] \in Sockets
      BY DEF TypeOK
    <2>2. t \in readable
      <3> SUFFICES ASSUME t \notin readable PROVE FALSE
        OBVIOUS
      <3>1. clock <= t + MaxLag
        BY DEF Logged
      <3>2. win.end <= clock
        BY <1>1 DEF Rest, Begun
      <3> QED BY <1>2, <1>9, <3>1, <3>2 DEF Times
    <2>3. t \in Found(log[t], win.at .. n)
      BY <1>2, <1>9, <2>2 DEF Found, Times
    <2>4. latest'[log[t]] # None /\ stamp[latest'[log[t]]] >= stamp[t]
      BY <1>1, <1>5, <2>1, <2>3, MergedSound
    <2> QED BY <1>1, <2>4, Zenon DEF KnownOrRead
  <1>10. Walked'
    <2>1. ASSUME NEW t \in Times, t < win'.at, t < win'.end - Overlap,
                 (IF from' # None THEN from' ELSE win'.start) <= t
          PROVE  KnownOrRead(t)'
      <3>1. CASE t < win.at
        BY <1>1, <1>2, <1>8, <2>1, <3>1 DEF Rest, Walked
      <3>2. CASE ~(t < win.at)
        BY <1>2, <1>9, <2>1, <3>2 DEF Times
      <3> QED BY <3>1, <3>2
    <2>2. ~more' => win'.at > win'.end
      <3>1. ~more' => ~(n < win.end)
        BY <1>1, Zenon
      <3>2. ~(n < win.end) => n + 1 > win.end
        BY <1>2
      <3> QED BY <1>2, <3>1, <3>2
    <2> QED BY <2>1, <2>2 DEF Walked
  <1> QED BY <1>3, <1>4, <1>7, <1>10 DEF Rest

\* A put moves an event from the run to the table, or finds a newer one there.
LEMMA RecordStep ==
  ASSUME TypeOK, Logged, Rest, NEW s \in Sockets, Record(s)
  PROVE  Rest'
  <1> USE IngestAssumption
  <1>1. /\ UNCHANGED <<clock, log, stamp, readable, nextStart, resume, from, pc, win, more>>
        /\ latest[s] # None
        /\ store' = [store EXCEPT ![s] = IF @ = None \/ stamp[@] < stamp[latest[s]]
                                         THEN latest[s] ELSE @]
        /\ latest' = [latest EXCEPT ![s] = None]
    BY DEF Record, worldVars, savedVars
  <1>2. /\ \A u \in Sockets \ {s} : store'[u] = store[u] /\ latest'[u] = latest[u]
        /\ store'[s] = IF store[s] = None \/ stamp[store[s]] < stamp[latest[s]]
                      THEN latest[s] ELSE store[s]
        /\ latest'[s] = None
    BY <1>1 DEF TypeOK
  <1>3. \A t \in Times : log[t] # None => stamp[t] \in Int
    BY StampIsTime DEF Logged
  <1>4. \A t \in readable : stamp[t] \in Int
    BY <1>3 DEF Logged, TypeOK
  <1>5. /\ stamp[latest[s]] \in Int
        /\ store[s] # None => stamp[store[s]] \in Int
    BY <1>1, <1>4 DEF Rest, LatestTruthful, StoreTruthful
  <1>6. /\ store'[s] # None /\ stamp[store'[s]] >= stamp[latest[s]]
        /\ store[s] # None => stamp[store'[s]] >= stamp[store[s]]
        /\ stamp[store'[s]] \in Int
    <2>1. CASE store[s] = None \/ stamp[store[s]] < stamp[latest[s]]
      <3>1. store'[s] = latest[s]
        BY <1>2, <2>1
      <3> QED BY <1>1, <1>5, <2>1, <3>1
    <2>2. CASE ~(store[s] = None \/ stamp[store[s]] < stamp[latest[s]])
      <3>1. store'[s] = store[s]
        BY <1>2, <2>2
      <3> QED BY <1>5, <2>2, <3>1
    <2> QED BY <2>1, <2>2
  <1>7. ASSUME NEW t \in Times, Known(t)
        PROVE  Known(t)'
    <2> SUFFICES ASSUME log[t] # None PROVE Known(t)'
      BY <1>1, Zenon DEF Known
    <2>1. log[t] \in Sockets /\ stamp[t] \in Int
      BY <1>3 DEF TypeOK
    <2>2. store[log[t]] # None /\ stamp[store[log[t]]] >= stamp[t]
      BY <1>7, Zenon DEF Known
    <2>3. store'[log[t]] # None /\ stamp[store'[log[t]]] >= stamp[t]
      BY <1>2, <1>5, <1>6, <2>1, <2>2
    <2> QED BY <1>1, <2>3, Zenon DEF Known
  <1>8. ASSUME NEW t \in Times, KnownOrRead(t)
        PROVE  KnownOrRead(t)'
    <2> SUFFICES ASSUME log[t] # None PROVE KnownOrRead(t)'
      BY <1>1, Zenon DEF KnownOrRead
    <2>1. log[t] \in Sockets /\ stamp[t] \in Int
      BY <1>3 DEF TypeOK
    <2>2. \/ store[log[t]] # None /\ stamp[store[log[t]]] >= stamp[t]
          \/ latest[log[t]] # None /\ stamp[latest[log[t]]] >= stamp[t]
      BY <1>8, Zenon DEF KnownOrRead
    <2>3. \/ store'[log[t]] # None /\ stamp[store'[log[t]]] >= stamp[t]
          \/ latest'[log[t]] # None /\ stamp[latest'[log[t]]] >= stamp[t]
      <3>1. CASE log[t] = s
        BY <1>5, <1>6, <2>1, <2>2, <3>1
      <3>2. CASE log[t] # s
        BY <1>2, <2>1, <2>2, <3>2
      <3> QED BY <3>1, <3>2
    <2> QED BY <1>1, <2>3, Zenon DEF KnownOrRead
  <1>9. Saved' /\ Begun'
    BY <1>1 DEF Rest, Saved, Begun
  <1>10. Walked' /\ NoneSkipped' /\ ResumeSkipsNothing'
    BY <1>1, <1>7, <1>8 DEF Rest, Walked, NoneSkipped, ResumeSkipsNothing
  <1>11. LatestTruthful' /\ StoreTruthful'
    BY <1>1, <1>2 DEF Rest, LatestTruthful, StoreTruthful
  <1> QED BY <1>9, <1>10, <1>11 DEF Rest

\* A checkpoint is saved with nothing left to write: what was walked past is in
\* the table.
LEMMA SaveStep ==
  ASSUME TypeOK, Rest, Save
  PROVE  Rest'
  <1> USE IngestAssumption
  <1>1. /\ UNCHANGED <<clock, log, stamp, readable, store, win, more, latest>>
        /\ pc = "write" /\ pc' = "idle" /\ latest = Nothing
        /\ from' = IF from = None THEN win.start ELSE from
    BY DEF Save, worldVars
  <1>2. /\ win \in Windows /\ clock \in Int /\ win.start \in Int /\ win.end \in Int /\ win.at \in Int
        /\ from # None => from \in Int
        /\ nextStart # None => nextStart \in Int
        /\ from' # None /\ from' \in Int
    <2>1. win \in Windows /\ clock \in Int
      BY DEF TypeOK, Times
    <2>2. win.start \in Int /\ win.end \in Int /\ win.at \in Int
      BY <2>1 DEF Windows
    <2>3. (from # None => from \in Int) /\ (nextStart # None => nextStart \in Int)
      BY DEF TypeOK
    <2> QED BY <1>1, <2>1, <2>2, <2>3
  <1>3. /\ win.start <= win.end /\ win.end <= clock
        /\ nextStart # None => win.start = nextStart
        /\ nextStart = None /\ from # None => win.start = from
    BY <1>1 DEF Rest, Begun
  <1>4. from' <= win.start
    BY <1>1, <1>2, <1>3 DEF Rest, Saved
  <1>5. ASSUME NEW t \in Times, from' <= t, t < win.at, t < win.end - Overlap
        PROVE  Known(t)'
    <2>1. KnownOrRead(t)
      <3>1. (IF from # None THEN from ELSE win.start) <= t
        BY <1>1, <1>5
      <3> QED BY <1>1, <1>5, <3>1 DEF Rest, Walked
    <2>2. log[t] # None => log[t] \in Sockets
      BY DEF TypeOK
    <2>3. log[t] # None => latest[log[t]] = None
      BY <1>1, <2>2 DEF Nothing
    <2> QED BY <1>1, <2>1, <2>3 DEF KnownOrRead, Known
  <1>6. Begun' /\ Walked'
    BY <1>1 DEF Begun, Walked
  <1>7. LatestTruthful' /\ StoreTruthful'
    BY <1>1 DEF Rest, LatestTruthful, StoreTruthful
  <1>8. CASE more
    <2>1. resume' = win /\ nextStart' = nextStart
      BY <1>8 DEF Save
    <2>2. Saved'
      BY <1>1, <1>2, <1>3, <1>4, <2>1 DEF Rest, Saved
    <2>3. NoneSkipped'
      <3>1. from # None => from' = from
        BY <1>1
      <3>2. nextStart # None => from # None
        BY DEF Rest, Saved
      <3>3. \A t \in Times : Known(t) => Known(t)'
        BY <1>1 DEF Known
      <3> QED BY <2>1, <3>1, <3>2, <3>3 DEF Rest, NoneSkipped
    <2>4. ResumeSkipsNothing'
      BY <1>5, <2>1 DEF ResumeSkipsNothing
    <2> QED BY <1>6, <1>7, <2>2, <2>3, <2>4 DEF Rest
  <1>9. CASE ~more
    <2>1. resume' = None /\ nextStart' = Later(win.start, win.end - Overlap)
      BY <1>9 DEF Save
    <2>2. nextStart' \in Int /\ nextStart' >= win.start /\ nextStart' <= win.end
      BY <1>2, <1>3, <2>1 DEF Later
    <2>3. Saved'
      BY <1>1, <1>2, <1>3, <1>4, <2>1, <2>2 DEF Saved
    <2>4. ResumeSkipsNothing'
      BY <2>1 DEF ResumeSkipsNothing
    <2>5. win.at > win.end
      BY <1>1, <1>9 DEF Rest, Walked
    <2>6. ASSUME NEW t \in Times, from' <= t, t < nextStart'
          PROVE  Known(t)'
      <3>1. CASE nextStart' = win.end - Overlap
        <4>1. t < win.at /\ t < win.end - Overlap
          BY <1>2, <2>2, <2>5, <2>6, <3>1 DEF Times
        <4> QED BY <1>5, <2>6, <4>1
      <3>2. CASE nextStart' = win.start
        <4>1. CASE nextStart # None
          <5>1. nextStart = win.start /\ from # None /\ from' = from
            BY <1>1, <1>3, <4>1 DEF Rest, Saved
          <5>2. Known(t)
            BY <2>6, <3>2, <4>1, <5>1 DEF Rest, NoneSkipped
          <5> QED BY <1>1, <5>2 DEF Known
        <4>2. CASE nextStart = None
          <5>1. from' = win.start
            BY <1>1, <1>3, <4>2
          <5> QED BY <1>2, <2>6, <3>2, <5>1 DEF Times
        <4> QED BY <4>1, <4>2
      <3> QED BY <2>1, <3>1, <3>2 DEF Later
    <2>7. NoneSkipped'
      BY <2>6 DEF NoneSkipped
    <2> QED BY <1>6, <1>7, <2>3, <2>4, <2>7 DEF Rest
  <1>10. more \in BOOLEAN
    BY DEF TypeOK
  <1> QED BY <1>8, <1>9, <1>10

\* A run that ends without a checkpoint leaves only what it wrote.
LEMMA AbandonStep ==
  ASSUME Rest, Abandon
  PROVE  Rest'
  <1>1. /\ UNCHANGED <<clock, log, stamp, readable, nextStart, resume, from, store, win, more>>
        /\ pc' = "idle" /\ latest' = Nothing
    BY DEF Abandon, worldVars, savedVars
  <1>2. Saved' /\ NoneSkipped' /\ ResumeSkipsNothing' /\ StoreTruthful'
    BY <1>1 DEF Rest, Saved, NoneSkipped, ResumeSkipsNothing, StoreTruthful, Known
  <1>3. Begun' /\ Walked' /\ LatestTruthful'
    BY <1>1 DEF Begun, Walked, LatestTruthful, Nothing
  <1> QED BY <1>2, <1>3 DEF Rest

\* A call that hangs only uses up the time.
LEMMA HangStep ==
  ASSUME TypeOK, Rest, Hang
  PROVE  Rest'
  <1>1. UNCHANGED <<clock, log, stamp, readable, nextStart, resume, from, store, pc, win, more, latest>>
    BY DEF Hang, worldVars, savedVars
  <1>2. Saved' /\ Begun'
    BY <1>1 DEF Rest, Saved, Begun
  <1>3. Walked' /\ NoneSkipped' /\ ResumeSkipsNothing'
    BY <1>1 DEF Rest, Walked, NoneSkipped, ResumeSkipsNothing, Known, KnownOrRead
  <1>4. LatestTruthful' /\ StoreTruthful'
    BY <1>1 DEF Rest, LatestTruthful, StoreTruthful
  <1> QED BY <1>2, <1>3, <1>4 DEF Rest

\* Every step keeps them.
LEMMA RestStep ==
  ASSUME TypeOK, Logged, Rest, [Next]_vars
  PROVE  Rest'
  <1>1. clock \in Times /\ clock \in Int
    BY IngestAssumption DEF TypeOK, Times
  <1>2. ASSUME NEW s \in Sockets, NEW d \in Delays, Authenticate(s, d) PROVE Rest'
    BY <1>2, HappensStep
  <1>3. ASSUME NEW t \in Times, Deliver(t) PROVE Rest'
    BY <1>1, <1>3, QuietStep DEF Deliver
  <1>4. CASE Tick
    <2>1. clock' \in Times /\ clock <= clock'
      BY <1>1, <1>4, IngestAssumption DEF Tick, Times
    <2> QED BY <1>4, <2>1, QuietStep DEF Tick
  <1>5. CASE StartRun
    BY <1>5, StartStep
  <1>6. ASSUME NEW n \in win.at .. win.end, ReadPage(n) PROVE Rest'
    BY <1>6, PageStep
  <1>7. ASSUME NEW s \in Sockets, Record(s) PROVE Rest'
    BY <1>7, RecordStep
  <1>8. CASE Save
    BY <1>8, SaveStep
  <1>9. CASE Fail \/ Kill
    BY <1>9, AbandonStep DEF Fail, Kill
  <1>10. CASE Hang
    BY <1>10, HangStep
  <1>11. CASE UNCHANGED vars
    BY <1>1, <1>11, QuietStep DEF vars, worldVars
  <1> QED BY <1>2, <1>3, <1>4, <1>5, <1>6, <1>7, <1>8, <1>9, <1>10, <1>11 DEF Next, Run

-----------------------------------------------------------------------------
(* The theorems.                                                           *)

\* Inv holds throughout.
THEOREM InvHolds == Spec => []Inv
  <1>1. Init => Inv
    <2> SUFFICES ASSUME Init PROVE Inv
      OBVIOUS
    <2> USE IngestAssumption
    <2>1. TypeOK
      <3>1. clock \in Times /\ win \in Windows /\ left \in 0 .. Timeout /\ faults \in 0 .. MaxFaults
        BY DEF Init, Times, Windows
      <3>2. /\ log \in [Times -> Sockets \cup {None}] /\ readable \subseteq Times
            /\ store \in [Sockets -> Times \cup {None}] /\ latest \in [Sockets -> Times \cup {None}]
        BY DEF Init, Nothing
      <3> QED BY <3>1, <3>2 DEF Init, TypeOK
    <2>2. Logged
      BY DEF Init, Logged
    <2>3. Saved /\ Begun /\ Walked
      BY DEF Init, Saved, Begun, Walked
    <2>4. NoneSkipped /\ ResumeSkipsNothing /\ LatestTruthful /\ StoreTruthful
      BY DEF Init, NoneSkipped, ResumeSkipsNothing, LatestTruthful, StoreTruthful, Nothing
    <2> QED BY <2>1, <2>2, <2>3, <2>4 DEF Inv
  <1>2. Inv /\ [Next]_vars => Inv'
    <2> SUFFICES ASSUME Inv, [Next]_vars PROVE Inv'
      OBVIOUS
    <2>1. TypeOK /\ Logged /\ Rest /\ LatestTruthful
      BY DEF Inv, Rest
    <2>2. TypeOK' /\ Logged' /\ Rest'
      BY <2>1, TypeStep, LoggedStep, RestStep
    <2> QED BY <2>2 DEF Inv, Rest
  <1> QED BY <1>1, <1>2, PTL DEF Spec

\* The variables keep their types.
THEOREM TypeCorrect == Spec => []TypeOK
  <1>1. Inv => TypeOK
    BY DEF Inv
  <1> QED BY <1>1, InvHolds, PTL

\* No authentication is skipped: the checkpoint never moves past an event the
\* table does not know of.
THEOREM NothingSkipped == Spec => []NoneSkipped
  <1>1. Inv => NoneSkipped
    BY DEF Inv
  <1> QED BY <1>1, InvHolds, PTL

\* Nor does the page token of an unfinished window.
THEOREM ResumeSound == Spec => []ResumeSkipsNothing
  <1>1. Inv => ResumeSkipsNothing
    BY DEF Inv
  <1> QED BY <1>1, InvHolds, PTL

\* Every mapping in the table is one the log has.
THEOREM StoreIsTruthful == Spec => []StoreTruthful
  <1>1. Inv => StoreTruthful
    BY DEF Inv
  <1> QED BY <1>1, InvHolds, PTL

\* One step of NeverBackwards.
Forward ==
  /\ nextStart # None => nextStart' # None /\ nextStart' >= nextStart
  /\ resume # None /\ resume' # None =>
       resume'.start = resume.start /\ resume'.end = resume.end /\ resume'.at >= resume.at
  /\ \A s \in Sockets : store[s] # None =>
       \/ store'[s] = store[s]
       \/ store'[s] # None /\ stamp'[store'[s]] > stamp[store[s]]

\* A step that leaves the checkpoint and the table alone does not move back.
LEMMA StaysForward ==
  ASSUME TypeOK, UNCHANGED <<nextStart, resume, store>>
  PROVE  Forward
  <1>1. nextStart # None => nextStart \in Int
    BY DEF TypeOK
  <1>2. resume # None => resume.at \in Int
    BY DEF TypeOK, Windows
  <1> QED BY <1>1, <1>2 DEF Forward

\* Neither the checkpoint nor the table ever goes back.
THEOREM NeverMovesBack == Spec => NeverBackwards
  <1> USE IngestAssumption
  <1>1. ASSUME Inv, [Next]_vars PROVE Forward
    <2>1. TypeOK
      BY <1>1 DEF Inv
    <2>2. ASSUME NEW s \in Sockets, Record(s) PROVE Forward
      <3>1. /\ UNCHANGED <<nextStart, resume, stamp>>
            /\ latest[s] # None
            /\ store' = [store EXCEPT ![s] = IF @ = None \/ stamp[@] < stamp[latest[s]]
                                             THEN latest[s] ELSE @]
        BY <2>2 DEF Record, savedVars, worldVars
      <3>2. nextStart # None => nextStart \in Int
        BY <2>1 DEF TypeOK
      <3>3. resume # None => resume.at \in Int
        BY <2>1 DEF TypeOK, Windows
      <3>4. latest[s] \in readable /\ \A t \in readable : stamp[t] \in Int
        BY <1>1, <2>1, <3>1, StampIsTime DEF Inv, LatestTruthful, Logged, TypeOK
      <3>5. ASSUME NEW u \in Sockets, store[u] # None
            PROVE  \/ store'[u] = store[u]
                   \/ store'[u] # None /\ stamp'[store'[u]] > stamp[store[u]]
        <4>1. CASE u = s /\ stamp[store[u]] < stamp[latest[s]]
          <5>1. store'[u] = latest[s]
            BY <2>1, <3>1, <4>1 DEF TypeOK
          <5>2. stamp[store[u]] \in Int /\ stamp[latest[s]] \in Int
            BY <1>1, <3>4, <3>5 DEF Inv, StoreTruthful
          <5> QED BY <3>1, <4>1, <5>1, <5>2
        <4>2. CASE u # s \/ ~(stamp[store[u]] < stamp[latest[s]])
          BY <2>1, <3>1, <3>5, <4>2 DEF TypeOK
        <4> QED BY <4>1, <4>2
      <3> QED BY <3>1, <3>2, <3>3, <3>5 DEF Forward
    <2>3. CASE Save
      <3>1. pc = "write" /\ store' = store
        BY <2>3 DEF Save
      <3>2. /\ win \in Windows /\ win.start \in Int /\ win.end \in Int /\ win.at \in Int
        BY <2>1 DEF TypeOK, Windows
      <3>3. /\ nextStart # None => nextStart \in Int /\ win.start = nextStart
            /\ resume # None => resume.at \in Int /\ win.start = resume.start
                                /\ win.end = resume.end /\ resume.at <= win.at
        BY <1>1, <2>1, <3>1 DEF Inv, Begun, TypeOK, Windows
      <3>5. CASE more
        BY <2>3, <3>1, <3>2, <3>3, <3>5 DEF Save, Forward
      <3>6. CASE ~more
        <4>1. resume' = None /\ nextStart' = Later(win.start, win.end - Overlap)
          BY <2>3, <3>6 DEF Save
        <4>2. nextStart' \in Int /\ nextStart' >= win.start
          BY <3>2, <4>1 DEF Later
        <4> QED BY <3>1, <3>3, <4>1, <4>2 DEF Forward
      <3> QED BY <2>1, <3>5, <3>6 DEF TypeOK
    <2>4. CASE UNCHANGED <<nextStart, resume, store>>
      BY <2>1, <2>4, StaysForward
    <2> QED BY <1>1, <2>2, <2>3, <2>4
         DEF Next, Run, Authenticate, Deliver, Tick, StartRun, ReadPage, Fail, Hang, Kill, Abandon,
             savedVars, vars
  <1>2. Spec => [][Forward]_vars
    BY <1>1, InvHolds, PTL DEF Spec
  <1> QED BY <1>2 DEF NeverBackwards, Forward
=============================================================================
