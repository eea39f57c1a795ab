----------------------- MODULE ConnectionSnapshotProofs -----------------------
(***************************************************************************)
(* Theorems about ConnectionSnapshot for all instances, clients, TTLs and  *)
(* bounds.  The invariant says how far an open connection's mapping is     *)
(* from its expiry: it outlives the next visit of its instance.            *)
(***************************************************************************)
EXTENDS DocdbRun, FiniteSetTheorems, TLAPS

\* The mapping of the connection that is open on s is in the table.
Mapped(s) == Maps(table[s], open[s])

Instance(s) == s[1]

Half == Ttl \div 2

\* An instance was visited in the past, and no longer ago than Outage.
Bounds == \A i \in Instances : visited[i] <= clock /\ clock <= visited[i] + Outage

\* An event not yet read is not newer than the open connection.
Order ==
  \A s \in Sockets : unread[s] # None /\ open[s] # None => unread[s].at <= open[s].at

\* The connections at hand are those of `inst`, and a mapped one is among them:
\* one that opened after the listing is not mapped before the next run.
Visiting ==
  pc \in {"lookup", "refresh"} =>
    /\ inst \in Instances /\ inst \notin todo
    /\ \A s \in Wanted : Instance(s) = inst
    /\ \A s \in Sockets : Instance(s) = inst /\ Mapped(s) => s \in Wanted

\* An item that BatchGetItem may still return in an older version was written
\* by this run.
Lagging ==
  \A s \in Sockets :
    /\ Instance(s) \in todo \/ (pc = "lookup" /\ Instance(s) = inst)
    /\ table[s] # None /\ table[s] # before[s]
    => table[s].expires >= visited[Instance(s)] + Ttl

\* What is not left to refresh has half its TTL before it.
Refreshing ==
  pc = "refresh" =>
    /\ asOf <= clock /\ visited[inst] <= asOf
    /\ \A s \in Sockets : Instance(s) = inst /\ Mapped(s) =>
         s \in stale \/ table[s].expires >= asOf + Half

\* A mapping in use expires no earlier than the next visit is due.
Extended ==
  ~died => \A s \in Sockets : Mapped(s) => table[s].expires >= visited[Instance(s)] + Outage

\* Refreshes are left over only while they are made, failures only during a run.
Resting == (pc # "refresh" => stale = {}) /\ (pc = "idle" => failed = {})

Inv == TypeOK /\ Resting /\ Bounds /\ Order /\ Visiting /\ Lagging /\ Refreshing /\ Extended

-----------------------------------------------------------------------------
(* Facts about the constants and the types.                                *)

\* Half of the TTL is a bound on the time between two visits.
LEMMA HalfBounds == Half \in Nat /\ Half + Half <= Ttl /\ Outage <= Half /\ Ttl \in Nat /\ Outage \in Nat
  BY SnapshotAssumption, OutageAssumption DEF Half

\* None is not a connection, an item or a number.
LEMMA NoneDiffers ==
  /\ None \notin Connections /\ None \notin Items /\ None \notin Users
  /\ None \notin Instances /\ MaxClock \in Nat /\ MaxOpens \in Nat
  BY SnapshotAssumption

\* Initially nothing is open, stored or running.
LEMMA InitInv == Init => Inv
  <1> SUFFICES ASSUME Init PROVE Inv
    OBVIOUS
  <1>1. TypeOK
    <2>1. died \in BOOLEAN
      BY Zenon DEF Init
    <2>2. 0 \in Times /\ 0 \in 0 .. MaxOpens
      BY NoneDiffers DEF Times
    <2> QED BY <2>1, <2>2, NoneDiffers DEF Init, TypeOK, Nothing
  <1>2. Bounds
    BY HalfBounds DEF Init, Bounds
  <1>3. Resting /\ Order /\ Visiting /\ Lagging /\ Refreshing /\ Extended
    BY DEF Init, Resting, Order, Visiting, Lagging, Refreshing, Extended, Mapped, Maps, Nothing
  <1> QED BY <1>1, <1>2, <1>3 DEF Inv

-----------------------------------------------------------------------------
(* The cluster, time and DynamoDB.                                         *)

\* A step that only takes items and connections away keeps what is said of runs.
LEMMA Shrinks ==
  ASSUME Inv, UNCHANGED <<clock, visited, died, runVars>>,
         \A s \in Sockets : table'[s] \in {table[s], None},
         \A s \in Sockets : Maps(table'[s], open'[s]) => Mapped(s)
  PROVE  Resting' /\ Bounds' /\ Visiting' /\ Lagging' /\ Refreshing' /\ Extended'
  <1>1. ASSUME NEW s \in Sockets, Maps(table'[s], open'[s])
        PROVE  Mapped(s) /\ table'[s] = table[s]
    BY <1>1 DEF Maps
  <1>2. Resting' /\ Bounds'
    BY DEF Inv, Resting, Bounds, runVars
  <1>3. Visiting'
    BY <1>1 DEF Inv, Visiting, Mapped, Instance, Wanted, runVars
  <1>4. Lagging'
    BY DEF Inv, Lagging, Instance, runVars
  <1>5. Refreshing'
    BY <1>1 DEF Inv, Refreshing, Mapped, Instance, runVars
  <1>6. Extended'
    BY <1>1 DEF Inv, Extended, Mapped, Instance
  <1> QED BY <1>2, <1>3, <1>4, <1>5, <1>6

LEMMA OpenStep ==
  ASSUME Inv, NEW s \in Sockets, NEW u \in Users \cup {None}, Open(s, u)
  PROVE  Inv'
  <1>1. /\ open' = [open EXCEPT ![s] = [user |-> u, at |-> clock]]
        /\ unread' = IF u = None THEN unread ELSE [unread EXCEPT ![s] = [user |-> u, at |-> clock]]
        /\ opens' = opens + 1 /\ opens < MaxOpens /\ Fresh(s)
        /\ UNCHANGED <<clock, table, historyVars, runVars>>
    BY DEF Open
  <1>2. [user |-> u, at |-> clock] \in Connections
    BY DEF Inv, TypeOK, Connections
  <1>3. TypeOK'
    BY <1>1, <1>2, NoneDiffers DEF Inv, TypeOK, historyVars, runVars, Wanted
  <1>4. Order'
    <2> SUFFICES ASSUME NEW r \in Sockets, unread'[r] # None, open'[r] # None
                 PROVE  unread'[r].at <= open'[r].at
      BY DEF Order
    <2>1. CASE r # s
      BY <1>1, <2>1 DEF Inv, Order, TypeOK
    <2>2. CASE r = s /\ u = None
      <3>1. unread'[s] = unread[s] /\ open'[s].at = clock /\ unread[s] \in Connections /\ clock \in Nat
        BY <1>1, <2>2 DEF Inv, TypeOK, Times
      <3>2. unread[s].at < clock /\ unread[s].at \in Nat
        BY <1>1, <2>2, <3>1 DEF Fresh, Connections, Times
      <3> QED BY <2>2, <3>1, <3>2
    <2>3. CASE r = s /\ u # None
      <3>1. unread'[s] = [user |-> u, at |-> clock] /\ open'[s] = [user |-> u, at |-> clock]
            /\ clock \in Nat
        BY <1>1, <2>3 DEF Inv, TypeOK, Times
      <3> QED BY <2>3, <3>1
    <2> QED BY <2>1, <2>2, <2>3
  <1>5. ASSUME NEW r \in Sockets, Maps(table'[r], open'[r])
        PROVE  Mapped(r)
    <2>1. CASE r # s
      BY <1>1, <1>5, <2>1 DEF Inv, TypeOK, Mapped
    <2>2. CASE r = s
      <3>1. table[s] # None /\ table[s].ts = clock /\ clock \in Nat
        BY <1>1, <1>5, <2>2 DEF Inv, TypeOK, Maps, Times
      <3>2. None \notin Nat
        BY SnapshotAssumption
      <3>3. table[s].ts < clock
        BY <1>1, <3>1, <3>2 DEF Fresh
      <3> QED BY <3>1, <3>3
    <2> QED BY <2>1, <2>2
  <1>6. Resting' /\ Bounds' /\ Visiting' /\ Lagging' /\ Refreshing' /\ Extended'
    BY <1>1, <1>5, Shrinks DEF historyVars
  <1> QED BY <1>3, <1>4, <1>6 DEF Inv

LEMMA CloseStep ==
  ASSUME Inv, NEW s \in Sockets, Close(s)
  PROVE  Inv'
  <1>1. /\ open' = [open EXCEPT ![s] = None]
        /\ UNCHANGED <<clock, opens, unread, table, historyVars, runVars>>
    BY DEF Close
  <1>2. TypeOK'
    BY <1>1 DEF Inv, TypeOK, historyVars, runVars, Wanted
  <1>3. Order'
    BY <1>1 DEF Inv, Order, TypeOK
  <1>4. ASSUME NEW r \in Sockets, Maps(table'[r], open'[r])
        PROVE  Mapped(r)
    BY <1>1, <1>4 DEF Inv, TypeOK, Mapped, Maps
  <1>5. Resting' /\ Bounds' /\ Visiting' /\ Lagging' /\ Refreshing' /\ Extended'
    BY <1>1, <1>4, Shrinks DEF historyVars
  <1> QED BY <1>2, <1>3, <1>5 DEF Inv

LEMMA ExpireStep ==
  ASSUME Inv, NEW s \in Sockets, Expire(s)
  PROVE  Inv'
  <1>1. /\ table' = [table EXCEPT ![s] = None]
        /\ UNCHANGED <<clusterVars, unread, historyVars, runVars>>
    BY DEF Expire
  <1>2. TypeOK'
    BY <1>1 DEF Inv, TypeOK, clusterVars, historyVars, runVars, Wanted
  <1>3. Order'
    BY <1>1 DEF Inv, Order, clusterVars
  <1>4. ASSUME NEW r \in Sockets
        PROVE  table'[r] \in {table[r], None} /\ (Maps(table'[r], open'[r]) => Mapped(r))
    BY <1>1, <1>4 DEF Inv, TypeOK, Mapped, Maps, clusterVars
  <1>5. Resting' /\ Bounds' /\ Visiting' /\ Lagging' /\ Refreshing' /\ Extended'
    BY <1>1, <1>4, Shrinks DEF historyVars, clusterVars
  <1> QED BY <1>2, <1>3, <1>5 DEF Inv

LEMMA TickStep ==
  ASSUME Inv, Tick
  PROVE  Inv'
  <1>1. /\ clock < MaxClock /\ clock' = clock + 1 /\ clock \in Nat
        /\ \A i \in Instances : clock < visited[i] + Outage /\ visited[i] \in Nat
        /\ UNCHANGED <<open, opens, unread, table, historyVars, runVars>>
    BY DEF Tick, Inv, TypeOK, Times
  <1>2. TypeOK'
    BY <1>1, NoneDiffers DEF Inv, TypeOK, historyVars, runVars, Wanted, Times
  <1>3. Bounds'
    BY <1>1, HalfBounds DEF Inv, Bounds, historyVars
  <1>4. Resting' /\ Order' /\ Visiting' /\ Lagging' /\ Extended'
    BY <1>1 DEF Inv, Resting, Order, Visiting, Lagging, Extended, Mapped, Instance, Wanted,
                historyVars, runVars
  <1>5. Refreshing'
    <2>1. asOf \in Nat
      BY DEF Inv, TypeOK, Times
    <2> QED BY <1>1, <2>1 DEF Inv, Refreshing, Mapped, Instance, historyVars, runVars
  <1> QED BY <1>2, <1>3, <1>4, <1>5 DEF Inv

-----------------------------------------------------------------------------
(* lambda_handler.                                                         *)

LEMMA StartRunStep ==
  ASSUME Inv, NEW sockets \in SUBSET Sockets, NEW available \in SUBSET Instances,
         StartRun(sockets, available)
  PROVE  Inv'
  <1>1. /\ pc = "idle" /\ pc' = "list" /\ hosts' = available /\ todo' = available
        /\ before' = table /\ \A s \in sockets : unread[s] # None
        /\ UNCHANGED <<clusterVars, historyVars, inst, failed, conns, names, stale, asOf, counts>>
    BY DEF StartRun
  <1>2. /\ table' = [s \in Sockets |->
                       IF s \in sockets /\ MayRecord(s) THEN Recorded(s) ELSE table[s]]
        /\ unread' = [s \in Sockets |-> IF s \in sockets THEN None ELSE unread[s]]
    BY DEF StartRun
  <1>3. ASSUME NEW s \in sockets
        PROVE  /\ Recorded(s) \in Items /\ unread[s] \in Connections
               /\ Recorded(s).expires = clock + Ttl /\ Recorded(s).ts = unread[s].at
    <2>1. unread[s] \in Connections /\ clock \in Nat
      BY <1>1 DEF Inv, TypeOK, Times
    <2>2. unread[s].user \in Users \cup {None} /\ unread[s].at \in Times /\ clock + Ttl \in Nat
      BY <2>1, HalfBounds DEF Connections
    <2> QED BY <2>1, <2>2 DEF Recorded, Items
  <1>4. TypeOK'
    <2>1. table' \in [Sockets -> Items \cup {None}] /\ before' \in [Sockets -> Items \cup {None}]
      BY <1>1, <1>2, <1>3 DEF Inv, TypeOK
    <2>2. unread' \in [Sockets -> Connections \cup {None}]
      BY <1>2 DEF Inv, TypeOK
    <2>3. failed = {}
      BY <1>1 DEF Inv, Resting
    <2> QED BY <1>1, <2>1, <2>2, <2>3 DEF Inv, TypeOK, clusterVars, historyVars, Wanted
  <1>5. Resting' /\ Bounds' /\ Visiting' /\ Refreshing'
    BY <1>1 DEF Inv, Resting, Bounds, Visiting, Refreshing, clusterVars, historyVars
  <1>6. Order'
    BY <1>1, <1>2 DEF Inv, Order, clusterVars
  <1>7. ASSUME NEW s \in Sockets
        PROVE  table'[s] = table[s] \/ (s \in sockets /\ table'[s] = Recorded(s))
    BY <1>2
  <1>8. ASSUME NEW s \in Sockets
        PROVE  /\ Instance(s) \in Instances /\ visited[Instance(s)] \in Nat /\ clock \in Nat
               /\ visited[Instance(s)] <= clock
    BY DEF Inv, Bounds, TypeOK, Instance, Sockets, Times
  <1>9. Lagging'
    <2> SUFFICES ASSUME NEW s \in Sockets, table'[s] # table[s]
                 PROVE  table'[s].expires >= visited[Instance(s)] + Ttl
      BY <1>1 DEF Lagging, Instance, historyVars
    <2> QED BY <1>3, <1>7, <1>8, HalfBounds
  <1>10. Extended'
    <2> SUFFICES ASSUME NEW s \in Sockets, ~died, Maps(table'[s], open[s])
                 PROVE  table'[s].expires >= visited[Instance(s)] + Outage
      BY <1>1 DEF Extended, Mapped, Instance, clusterVars, historyVars
    <2>1. CASE table'[s] = table[s]
      BY <2>1 DEF Inv, Extended, Mapped
    <2>2. CASE s \in sockets /\ table'[s] = Recorded(s)
      BY <1>3, <1>8, <2>2, HalfBounds
    <2> QED BY <1>7, <2>1, <2>2
  <1> QED BY <1>4, <1>5, <1>6, <1>9, <1>10 DEF Inv

LEMMA ListFailsStep ==
  ASSUME Inv, NEW i \in Instances, ListFails(i)
  PROVE  Inv'
  <1>1. /\ pc = "list" /\ i \in todo /\ todo' = todo \ {i} /\ failed' = failed \cup {i}
        /\ UNCHANGED <<clusterVars, unread, table, historyVars, pc, hosts, inst, before,
                       conns, names, stale, asOf, counts>>
    BY DEF ListFails
  <1>2. TypeOK'
    BY <1>1 DEF Inv, TypeOK, clusterVars, historyVars, Wanted
  <1>3. Resting' /\ Bounds' /\ Order' /\ Visiting' /\ Refreshing'
    BY <1>1 DEF Inv, Resting, Bounds, Order, Visiting, Refreshing, clusterVars, historyVars
  <1>4. Lagging' /\ Extended'
    BY <1>1 DEF Inv, Lagging, Extended, Mapped, Instance, clusterVars, historyVars
  <1> QED BY <1>2, <1>3, <1>4 DEF Inv

LEMMA ListStep ==
  ASSUME Inv, NEW i \in Instances, List(i)
  PROVE  Inv'
  <1>1. /\ pc = "list" /\ i \in todo /\ todo' = todo \ {i} /\ inst' = i /\ pc' = "lookup"
        /\ conns' = [s \in Sockets |-> IF s \in On(i) THEN open[s] ELSE None]
        /\ UNCHANGED <<clusterVars, unread, table, historyVars, hosts, failed, before,
                       names, stale, asOf, counts>>
    BY DEF List
  <1>2. stale = {}
    BY <1>1 DEF Inv, Resting
  <1>3. TypeOK'
    BY <1>1, <1>2 DEF Inv, TypeOK, clusterVars, historyVars
  <1>4. Bounds' /\ Order' /\ Refreshing'
    BY <1>1 DEF Inv, Bounds, Order, Refreshing, clusterVars, historyVars
  <1>5. Visiting'
    <2>1. i \notin todo'
      BY <1>1
    <2>2. ASSUME NEW s \in Sockets, conns'[s] # None PROVE s[1] = i
      BY <1>1, <2>2 DEF On
    <2>3. ASSUME NEW s \in Sockets, s[1] = i, Maps(table'[s], open'[s]) PROVE conns'[s] # None
      BY <1>1, <2>3 DEF On, Maps, clusterVars
    <2> QED BY <1>1, <2>1, <2>2, <2>3 DEF Visiting, Wanted, Mapped, Instance
  <1>6. Lagging' /\ Extended'
    BY <1>1 DEF Inv, Lagging, Extended, Mapped, Instance, clusterVars, historyVars
  <1>7. Resting'
    BY <1>1, <1>2 DEF Resting
  <1> QED BY <1>3, <1>4, <1>5, <1>6, <1>7 DEF Inv

LEMMA LookupStep ==
  ASSUME Inv, NEW busy \in SUBSET Wanted, NEW lagging \in SUBSET Wanted, Lookup(busy, lagging)
  PROVE  Inv'
  <1>1. /\ pc = "lookup" /\ pc' = "refresh" /\ asOf' = clock
        /\ stale' = {s \in Hits(lagging) : NearExpiry(Read(s, lagging))}
        /\ UNCHANGED <<clusterVars, unread, table, historyVars, hosts, todo, inst, failed,
                       before, conns, counts>>
    BY DEF Lookup
  <1>2. names' = [s \in Sockets |-> IF s \in Wanted THEN Attribute(s, busy, lagging) ELSE None]
        /\ \A s \in Hits(lagging) : Read(s, lagging).user # None
    BY DEF Lookup
  <1>3. ASSUME NEW s \in Wanted
        PROVE  Read(s, lagging) \in Items \cup {None}
    BY DEF Inv, TypeOK, Read, Wanted
  <1>4. ASSUME NEW s \in Wanted
        PROVE  Attribute(s, busy, lagging) \in Users \cup {None}
    <2>1. conns[s] \in Connections
      BY DEF Inv, TypeOK, Wanted
    <2>2. s \in Hits(lagging) => Read(s, lagging) \in Items
      BY <1>3 DEF Hits
    <2> QED BY <2>1, <2>2 DEF Attribute, LookedUp, Connections, Items
  <1>5. TypeOK'
    <2>1. names' \in [Sockets -> Users \cup {None}]
      BY <1>2, <1>4
    <2>2. stale' \subseteq Wanted /\ Wanted' = Wanted
      BY <1>1 DEF Hits, Wanted
    <2> QED BY <1>1, <2>1, <2>2 DEF Inv, TypeOK, clusterVars, historyVars
  <1>6. Resting' /\ Bounds' /\ Order' /\ Visiting' /\ Extended'
    BY <1>1 DEF Inv, Resting, Bounds, Order, Visiting, Extended, Mapped, Instance, Wanted,
                clusterVars, historyVars
  <1>7. Lagging'
    BY <1>1 DEF Inv, Lagging, Instance, clusterVars, historyVars
  <1>8. inst \in Instances /\ visited[inst] \in Nat /\ clock \in Nat
        /\ visited[inst] <= clock /\ clock <= visited[inst] + Outage
    BY <1>1 DEF Inv, Visiting, Bounds, TypeOK, Times
  <1>9. ASSUME NEW s \in Sockets, Instance(s) = inst, Mapped(s), s \notin stale'
        PROVE  table[s].expires >= clock + Half
    <2>1. s \in Wanted /\ table[s] \in Items /\ table[s] # None
      BY <1>1, <1>9 DEF Inv, Visiting, TypeOK, Mapped, Maps
    <2>2. table[s].expires \in Nat
      BY <2>1 DEF Items
    <2>3. CASE Read(s, lagging) = table[s]
      <3>1. ~NearExpiry(table[s])
        BY <1>1, <1>9, <2>1, <2>3 DEF Hits
      <3> QED BY <1>8, <2>2, <3>1, HalfBounds DEF NearExpiry, Half
    <2>4. CASE table[s] # before[s]
      <3>1. table[s].expires >= visited[inst] + Ttl
        BY <1>1, <1>9, <2>1, <2>4 DEF Inv, Lagging
      <3> QED BY <1>8, <2>2, <3>1, HalfBounds
    <2> QED BY <2>3, <2>4 DEF Read
  <1>10. Refreshing'
    BY <1>1, <1>8, <1>9 DEF Refreshing, Mapped, Instance, clusterVars, historyVars
  <1> QED BY <1>5, <1>6, <1>7, <1>10 DEF Inv

LEMMA RefreshStep ==
  ASSUME Inv, NEW s \in Sockets, Refresh(s)
  PROVE  Inv'
  <1> DEFINE item == IF table[s] = None
                     THEN [user |-> None, ts |-> None, expires |-> asOf + Ttl]
                     ELSE [table[s] EXCEPT !.expires = asOf + Ttl]
  <1>1. /\ pc = "refresh" /\ s \in stale /\ stale' = stale \ {s}
        /\ table' = [table EXCEPT ![s] = item]
        /\ UNCHANGED <<clusterVars, unread, historyVars, pc, hosts, todo, inst, failed,
                       before, conns, names, asOf, counts>>
    BY DEF Refresh
  <1>2. /\ inst \in Instances /\ inst \notin todo /\ Instance(s) = inst
        /\ asOf \in Nat /\ visited[inst] \in Nat /\ visited[inst] <= asOf
    BY <1>1 DEF Inv, TypeOK, Visiting, Refreshing, Times
  <1>3. item \in Items /\ item.expires = asOf + Ttl
        /\ (table[s] = None => item.ts = None) /\ (table[s] # None => item.ts = table[s].ts)
    <2>1. asOf + Ttl \in Nat
      BY <1>2, HalfBounds
    <2>2. table[s] # None => table[s] \in Items
      BY DEF Inv, TypeOK
    <2> QED BY <2>1, <2>2 DEF Items
  <1> HIDE DEF item
  <1>4. table'[s] = item /\ \A r \in Sockets : r # s => table'[r] = table[r]
    BY <1>1 DEF Inv, TypeOK
  <1>5. TypeOK'
    <2>1. table' \in [Sockets -> Items \cup {None}]
      BY <1>1, <1>3 DEF Inv, TypeOK
    <2> QED BY <1>1, <2>1 DEF Inv, TypeOK, clusterVars, historyVars, Wanted
  <1>6. Resting' /\ Bounds' /\ Order'
    BY <1>1 DEF Inv, Resting, Bounds, Order, clusterVars, historyVars
  <1>7. ASSUME NEW r \in Sockets, Maps(table'[r], open'[r])
        PROVE  Mapped(r)
    <2>1. CASE r # s
      BY <1>1, <1>4, <1>7, <2>1 DEF Mapped, clusterVars
    <2>2. CASE r = s
      <3>1. open[s] \in Connections /\ open[s].at \in Times /\ item.ts = open[s].at
            /\ open[s].user # None
        BY <1>1, <1>4, <1>7, <2>2 DEF Inv, TypeOK, Maps, clusterVars, Connections
      <3>2. None \notin Times
        BY SnapshotAssumption DEF Times
      <3>3. table[s] # None
        BY <1>3, <3>1, <3>2
      <3>4. open[s] # None
        BY <1>1, <1>7, <2>2 DEF Maps, clusterVars
      <3> QED BY <1>3, <2>2, <3>1, <3>3, <3>4 DEF Mapped, Maps
    <2> QED BY <2>1, <2>2
  <1>8. Visiting'
    BY <1>1, <1>7 DEF Inv, Visiting, Mapped, Instance, Wanted
  <1>9. Lagging'
    <2> SUFFICES ASSUME NEW r \in Sockets, Instance(r) \in todo, table'[r] # None,
                        table'[r] # before[r]
                 PROVE  table'[r].expires >= visited[Instance(r)] + Ttl
      BY <1>1 DEF Lagging, Instance, historyVars
    <2>1. r # s
      BY <1>2
    <2> QED BY <1>4, <2>1 DEF Inv, Lagging
  <1>10. Refreshing'
    <2> SUFFICES ASSUME NEW r \in Sockets, Instance(r) = inst, Maps(table'[r], open'[r])
                 PROVE  r \in stale' \/ table'[r].expires >= asOf + Half
      BY <1>1 DEF Inv, Refreshing, Mapped, Instance, clusterVars, historyVars
    <2>1. CASE r = s
      BY <1>2, <1>3, <1>4, <2>1, HalfBounds
    <2>2. CASE r # s
      BY <1>1, <1>4, <1>7, <2>2 DEF Inv, Refreshing
    <2> QED BY <2>1, <2>2
  <1>11. Extended'
    <2> SUFFICES ASSUME ~died, NEW r \in Sockets, Maps(table'[r], open'[r])
                 PROVE  table'[r].expires >= visited[Instance(r)] + Outage
      BY <1>1 DEF Extended, Mapped, Instance, historyVars
    <2>1. CASE r = s
      BY <1>2, <1>3, <1>4, <2>1, HalfBounds
    <2>2. CASE r # s
      BY <1>4, <1>7, <2>2 DEF Inv, Extended
    <2> QED BY <2>1, <2>2
  <1> QED BY <1>5, <1>6, <1>8, <1>9, <1>10, <1>11 DEF Inv

LEMMA CountStep ==
  ASSUME Inv, Count
  PROVE  Inv'
  <1>1. /\ pc = "refresh" /\ pc' = "list" /\ stale = {} /\ counts' = counts \cup Wanted
        /\ visited' = [visited EXCEPT ![inst] = asOf]
        /\ inst' = None /\ conns' = Nothing /\ names' = Nothing /\ asOf' = 0
        /\ UNCHANGED <<clusterVars, unread, table, died, hosts, todo, failed, before, stale>>
    BY DEF Count
  <1>2. /\ inst \in Instances /\ inst \notin todo /\ asOf \in Times /\ asOf <= clock
        /\ visited[inst] <= asOf /\ clock \in Nat /\ asOf \in Nat
        /\ \A i \in Instances : visited[i] \in Nat
    BY <1>1 DEF Inv, Visiting, Refreshing, TypeOK, Times
  <1>3. /\ visited'[inst] = asOf
        /\ \A i \in Instances : i # inst => visited'[i] = visited[i]
    BY <1>1, <1>2 DEF Inv, TypeOK
  <1>4. TypeOK'
    <2>1. 0 \in Times
      BY NoneDiffers DEF Times
    <2>2. visited' \in [Instances -> Times]
      BY <1>1, <1>2 DEF Inv, TypeOK
    <2>3. conns' \in [Sockets -> Connections \cup {None}] /\ names' \in [Sockets -> Users \cup {None}]
      BY <1>1 DEF Nothing
    <2>4. counts' \subseteq Sockets
      BY <1>1 DEF Inv, TypeOK, Wanted
    <2> QED BY <1>1, <2>1, <2>2, <2>3, <2>4 DEF Inv, TypeOK, clusterVars
  <1>5. Bounds'
    <2> SUFFICES ASSUME NEW i \in Instances
                 PROVE  visited'[i] <= clock /\ clock <= visited'[i] + Outage
      BY <1>1 DEF Bounds, clusterVars
    <2>1. visited[i] <= clock /\ clock <= visited[i] + Outage
      BY DEF Inv, Bounds
    <2> QED BY <1>2, <1>3, <2>1, HalfBounds
  <1>6. Resting' /\ Order' /\ Visiting' /\ Refreshing'
    BY <1>1 DEF Inv, Resting, Order, Visiting, Refreshing, clusterVars
  <1>7. Lagging'
    <2> SUFFICES ASSUME NEW s \in Sockets, Instance(s) \in todo, table[s] # None,
                        table[s] # before[s]
                 PROVE  table[s].expires >= visited'[Instance(s)] + Ttl
      BY <1>1 DEF Lagging, Instance
    <2>1. Instance(s) \in Instances /\ Instance(s) # inst
      BY <1>2 DEF Inv, TypeOK
    <2> QED BY <1>3, <2>1 DEF Inv, Lagging
  <1>8. Extended'
    <2> SUFFICES ASSUME ~died, NEW s \in Sockets, Mapped(s)
                 PROVE  table[s].expires >= visited'[Instance(s)] + Outage
      BY <1>1 DEF Extended, Mapped, Instance, clusterVars
    <2>1. Instance(s) \in Instances
      BY DEF Instance, Sockets
    <2>2. CASE Instance(s) = inst
      <3>1. table[s].expires >= asOf + Half
        BY <1>1, <2>2 DEF Inv, Refreshing
      <3>2. table[s].expires \in Nat
        BY DEF Inv, TypeOK, Mapped, Maps, Items
      <3> QED BY <1>2, <1>3, <2>2, <3>1, <3>2, HalfBounds
    <2>3. CASE Instance(s) # inst
      BY <1>3, <2>1, <2>3 DEF Inv, Extended
    <2> QED BY <2>2, <2>3
  <1> QED BY <1>4, <1>5, <1>6, <1>7, <1>8 DEF Inv

LEMMA EndLoopStep ==
  ASSUME Inv, EndLoop
  PROVE  Inv'
  <1>1. /\ pc = "list" /\ pc' = "export"
        /\ UNCHANGED <<clusterVars, unread, table, historyVars, hosts, todo, inst, failed,
                       before, conns, names, stale, asOf, counts>>
    BY DEF EndLoop
  <1>2. TypeOK'
    BY <1>1 DEF Inv, TypeOK, clusterVars, historyVars, Wanted
  <1>3. Resting' /\ Bounds' /\ Order' /\ Visiting' /\ Lagging' /\ Refreshing' /\ Extended'
    BY <1>1 DEF Inv, Resting, Bounds, Order, Visiting, Lagging, Refreshing, Extended,
                Mapped, Instance, clusterVars, historyVars
  <1> QED BY <1>2, <1>3 DEF Inv

\* The end of a run leaves nothing to say of it.
LEMMA EndOfRun ==
  ASSUME Inv, EndRun, UNCHANGED <<clusterVars, unread, table>>,
         visited' \in [Instances -> Times], died' \in BOOLEAN, Bounds', Extended'
  PROVE  Inv'
  <1>1. TypeOK'
    <2>1. 0 \in Times
      BY NoneDiffers DEF Times
    <2> QED BY <2>1 DEF Inv, TypeOK, EndRun, Nothing, clusterVars
  <1>2. Resting' /\ Order' /\ Visiting' /\ Lagging' /\ Refreshing'
    BY DEF Inv, Resting, Order, Visiting, Lagging, Refreshing, EndRun, clusterVars
  <1> QED BY <1>1, <1>2 DEF Inv

LEMMA ExportOrFailStep ==
  ASSUME Inv, Export \/ Fail
  PROVE  Inv'
  <1>1. EndRun /\ UNCHANGED <<clusterVars, unread, table, historyVars>>
    BY DEF Export, Fail
  <1>2. Bounds' /\ Extended'
    BY <1>1 DEF Inv, Bounds, Extended, Mapped, Instance, clusterVars, historyVars
  <1>3. visited' \in [Instances -> Times] /\ died' \in BOOLEAN
    BY <1>1 DEF Inv, TypeOK, historyVars
  <1> QED BY <1>1, <1>2, <1>3, EndOfRun

LEMMA LookupDiesStep ==
  ASSUME Inv, NEW lagging \in SUBSET Wanted, LookupDies(lagging)
  PROVE  Inv'
  <1>1. /\ EndRun /\ died' = TRUE
        /\ visited' = [i \in Instances |-> IF i \in todo \cup {inst} THEN clock ELSE visited[i]]
        /\ UNCHANGED <<clusterVars, unread, table>>
    BY DEF LookupDies
  <1>2. clock \in Times /\ clock \in Nat
    BY DEF Inv, TypeOK, Times
  <1>3. Bounds'
    BY <1>1, <1>2, HalfBounds DEF Inv, Bounds, clusterVars
  <1>4. Extended'
    BY <1>1 DEF Extended
  <1>5. visited' \in [Instances -> Times]
    BY <1>1, <1>2 DEF Inv, TypeOK
  <1>6. died' \in BOOLEAN
    BY <1>1, Zenon
  <1> QED BY <1>1, <1>3, <1>4, <1>5, <1>6, EndOfRun

-----------------------------------------------------------------------------
(* The theorems.                                                           *)

\* Every step keeps the invariant.
LEMMA NextInv == Inv /\ [Next]_vars => Inv'
  <1> SUFFICES ASSUME Inv, [Next]_vars PROVE Inv'
    OBVIOUS
  <1>1. ASSUME NEW s \in Sockets, NEW u \in Users \cup {None}, Open(s, u) PROVE Inv'
    BY <1>1, OpenStep
  <1>2. ASSUME NEW s \in Sockets, Close(s) \/ Expire(s) \/ Refresh(s) PROVE Inv'
    BY <1>2, CloseStep, ExpireStep, RefreshStep
  <1>3. CASE Tick
    BY <1>3, TickStep
  <1>4. ASSUME NEW sockets \in SUBSET Sockets, NEW available \in SUBSET Instances,
               StartRun(sockets, available)
        PROVE  Inv'
    BY <1>4, StartRunStep
  <1>5. ASSUME NEW i \in Instances, List(i) \/ ListFails(i) PROVE Inv'
    BY <1>5, ListStep, ListFailsStep
  <1>6. ASSUME NEW busy \in SUBSET Wanted, NEW lagging \in SUBSET Wanted, Lookup(busy, lagging)
        PROVE  Inv'
    BY <1>6, LookupStep
  <1>7. ASSUME NEW lagging \in SUBSET Wanted, LookupDies(lagging) PROVE Inv'
    BY <1>7, LookupDiesStep
  <1>8. CASE Count
    BY <1>8, CountStep
  <1>9. CASE EndLoop
    BY <1>9, EndLoopStep
  <1>10. CASE Export \/ Fail
    BY <1>10, ExportOrFailStep
  <1>11. CASE UNCHANGED vars
    <2>1. TypeOK'
      BY <1>11 DEF Inv, TypeOK, vars, clusterVars, historyVars, runVars, Wanted
    <2>2. Resting' /\ Bounds' /\ Order' /\ Visiting' /\ Lagging' /\ Refreshing' /\ Extended'
      BY <1>11 DEF Inv, Resting, Bounds, Order, Visiting, Lagging, Refreshing, Extended,
                   Mapped, Instance, Wanted, vars, clusterVars, historyVars, runVars
    <2> QED BY <2>1, <2>2 DEF Inv
  <1> QED BY <1>1, <1>2, <1>3, <1>4, <1>5, <1>6, <1>7, <1>8, <1>9, <1>10, <1>11 DEF Next

\* The invariant holds of every behaviour of the run, the table and the cluster.
THEOREM InvHolds == Spec => []Inv
  <1> QED BY InitInv, NextInv, PTL DEF Spec

\* Every variable of the handler, the table and the cluster keeps its type.
THEOREM TypeCorrect == Spec => []TypeOK
  <1>1. Inv => TypeOK
    BY DEF Inv
  <1> QED BY <1>1, InvHolds, PTL

\* One step of the handler, of DynamoDB or of time takes no mapping from a
\* connection that stays open.
LEMMA StepKeepsMapping ==
  ASSUME Inv, [Next]_vars, NEW s \in Sockets, ~died, Mapped(s), open'[s] = open[s]
  PROVE  Maps(table'[s], open'[s])
  <1>1. table[s] # None /\ table[s] \in Items /\ table[s].ts = open[s].at /\ open[s] # None
        /\ open[s] \in Connections
    BY DEF Inv, TypeOK, Mapped, Maps
  <1>2. SUFFICES ASSUME table'[s] # table[s]
                 PROVE  table'[s] # None /\ table'[s].ts = table[s].ts
    BY DEF Mapped, Maps
  <1>3. ASSUME NEW r \in Sockets, Expire(r) PROVE FALSE
    <2>1. r = s /\ table[s].expires < clock
      BY <1>2, <1>3 DEF Expire, Inv, TypeOK
    <2>2. /\ Instance(s) \in Instances /\ table[s].expires \in Nat
          /\ table[s].expires >= visited[Instance(s)] + Outage
      BY <1>1 DEF Inv, Extended, Instance, Sockets, Items
    <2>3. clock <= visited[Instance(s)] + Outage /\ visited[Instance(s)] \in Nat /\ clock \in Nat
      BY <2>2 DEF Inv, Bounds, TypeOK, Times
    <2> QED BY <2>1, <2>2, <2>3, HalfBounds
  <1>4. ASSUME NEW sockets \in SUBSET Sockets, NEW available \in SUBSET Instances,
               StartRun(sockets, available)
        PROVE  FALSE
    <2>1. s \in sockets /\ MayRecord(s) /\ unread[s] # None
      BY <1>2, <1>4 DEF StartRun
    <2>2. unread[s].at <= open[s].at /\ unread[s] \in Connections
      BY <1>1, <2>1 DEF Inv, Order, TypeOK
    <2>3. table[s].ts < unread[s].at
      BY <1>1, <2>1 DEF MayRecord
    <2>4. unread[s].at \in Nat /\ open[s].at \in Nat
      BY <1>1, <2>2 DEF Connections, Times
    <2> QED BY <1>1, <2>2, <2>3, <2>4
  <1>5. ASSUME NEW r \in Sockets, Refresh(r)
        PROVE  table'[s] # None /\ table'[s].ts = table[s].ts
    <2>1. r = s /\ table'[s] = [table[s] EXCEPT !.expires = asOf + Ttl]
      BY <1>1, <1>2, <1>5 DEF Refresh, Inv, TypeOK
    <2>2. asOf + Ttl \in Nat
      BY HalfBounds DEF Inv, TypeOK, Times
    <2>3. table'[s] \in Items /\ table'[s].ts = table[s].ts
      BY <1>1, <2>1, <2>2 DEF Items
    <2> QED BY <2>3, NoneDiffers
  <1>6. ASSUME UNCHANGED table PROVE FALSE
    BY <1>2, <1>6
  <1> QED BY <1>3, <1>4, <1>5, <1>6 DEF Next, vars, Open, Close, Tick, ListFails, List, Lookup,
                                        LookupDies, Count, EndLoop, Export, Fail

\* README.md of the example: "Each run extends the TTL of every mapping that is
\* still open".  A mapping in use is not lost for any TTL and any outage up to half
\* of it, whichever runs fail, until a run has died of an item without a user.
THEOREM OpenKeepsMapping == Spec => KeepsMapping
  <1>1. Inv /\ [Next]_vars =>
          [\A s \in Sockets :
             ~died /\ Maps(table[s], open[s]) /\ open'[s] = open[s] => Maps(table'[s], open'[s])]_vars
    BY StepKeepsMapping DEF Mapped
  <1> QED BY <1>1, InvHolds, PTL DEF Spec, KeepsMapping

-----------------------------------------------------------------------------
(* What a snapshot says of the connections: nobody open and known is left  *)
(* out, and nobody is shown under another user's name.  The invariant      *)
(* relates the table a run found to the table as it is, and both to the    *)
(* connections.                                                            *)

\* The item says when it was recorded.
Stamped(item) == item # None /\ item.ts # None

\* Nothing comes from the future, and an event is that of the connection it opened.
Past ==
  \A s \in Sockets :
    /\ open[s] # None => open[s].at <= clock
    /\ unread[s] # None =>
         /\ unread[s].at <= clock
         /\ open[s] # None /\ unread[s].at = open[s].at => unread[s].user = open[s].user

\* An item lives on after its event, for no more than a whole TTL.
Dated(item) ==
  item # None =>
    /\ item.expires <= clock + Ttl
    /\ item.ts # None => item.ts <= clock /\ item.ts < item.expires

AllDated ==
  \A s \in Sockets :
    /\ Dated(table[s]) /\ Dated(before[s])
    /\ pc = "refresh" /\ Stamped(table[s]) => table[s].ts <= asOf

\* The item of a connection has its user, and no item is newer than it.
Agrees(item, c) == Maps(item, c) => item.user = c.user
Older(item, c) == Stamped(item) /\ c # None => item.ts <= c.at

Own ==
  \A s \in Sockets :
    /\ Agrees(table[s], open[s]) /\ Agrees(before[s], open[s]) /\ Older(table[s], open[s])
    /\ pc = "lookup" =>
         Agrees(table[s], conns[s]) /\ Agrees(before[s], conns[s]) /\ Older(table[s], conns[s])

\* The item this run found is there, or a newer one.
Kept(s) == Stamped(table[s]) /\ table[s].ts >= before[s].ts

\* Its lookup is yet to come in this run.
Unvisited(s) == Instance(s) \in todo \/ (pc = "lookup" /\ Instance(s) = inst)

\* It goes only once its event is in the past, and before its instance is looked
\* up only once it expired.
Held ==
  \A s \in Sockets :
    Stamped(before[s]) =>
      /\ before[s].ts < clock \/ Kept(s)
      /\ Unvisited(s) /\ clock <= before[s].expires =>
           Kept(s) /\ table[s].expires >= before[s].expires

\* What the run found mapped and open is counted once its instance is done, and
\* among the connections at hand while it is looked up.
Shown ==
  /\ pc = "export" => todo = {}
  /\ pc # "idle" =>
       \A s \in Sockets :
         Instance(s) \in hosts \ (failed \cup todo) /\ Maps(before[s], open[s]) =>
           IF pc \in {"lookup", "refresh"} /\ Instance(s) = inst THEN s \in Wanted ELSE s \in counts

Truth == Past /\ AllDated /\ Own /\ Held /\ Shown /\ KnownKeepsName

-----------------------------------------------------------------------------
(* Types and frames.                                                       *)

LEMMA Numbers ==
  ASSUME Inv
  PROVE  /\ clock \in Nat /\ asOf \in Nat /\ Ttl \in Nat /\ Ttl > 0 /\ None \notin Nat
         /\ \A s \in Sockets :
              /\ table[s] # None => table[s].expires \in Nat /\ (table[s].ts # None => table[s].ts \in Nat)
              /\ before[s] # None => before[s].expires \in Nat /\ (before[s].ts # None => before[s].ts \in Nat)
              /\ open[s] # None => open[s].at \in Nat
              /\ unread[s] # None => unread[s].at \in Nat
              /\ conns[s] # None => conns[s].at \in Nat
  <1>1. clock \in Nat /\ asOf \in Nat /\ Ttl \in Nat /\ Ttl > 0 /\ None \notin Nat
    BY SnapshotAssumption DEF Inv, TypeOK, Times
  <1>2. ASSUME NEW item \in Items \cup {None}, item # None
        PROVE  item.expires \in Nat /\ (item.ts # None => item.ts \in Nat)
    BY <1>2 DEF Items, Times
  <1>3. ASSUME NEW c \in Connections \cup {None}, c # None
        PROVE  c.at \in Nat
    BY <1>3 DEF Connections, Times
  <1>4. ASSUME NEW s \in Sockets
        PROVE  /\ table[s] \in Items \cup {None} /\ before[s] \in Items \cup {None}
               /\ open[s] \in Connections \cup {None} /\ unread[s] \in Connections \cup {None}
               /\ conns[s] \in Connections \cup {None}
    BY DEF Inv, TypeOK
  <1> QED BY <1>1, <1>2, <1>3, <1>4

\* A step of the handler that writes nothing and puts no lookup off.
LEMMA Still ==
  ASSUME Inv, Truth, UNCHANGED <<clusterVars, unread, table, before>>, pc' # "refresh",
         \A s \in Sockets : Unvisited(s)' => Unvisited(s),
         pc' = "lookup" => \A s \in Sockets : conns'[s] = open[s] \/ conns'[s] = None
  PROVE  Past' /\ AllDated' /\ Own' /\ Held' /\ KnownKeepsName'
  <1>1. Past'
    BY DEF Truth, Past, clusterVars
  <1>2. AllDated'
    BY DEF Truth, AllDated, Dated, clusterVars
  <1>3. Own'
    BY DEF Truth, Own, Agrees, Older, Maps, clusterVars
  <1>4. Held'
    BY DEF Truth, Held, Kept, Stamped, clusterVars
  <1>5. KnownKeepsName'
    BY DEF KnownKeepsName
  <1> QED BY <1>1, <1>2, <1>3, <1>4, <1>5

-----------------------------------------------------------------------------
(* The cluster, time and DynamoDB.                                         *)

LEMMA OpenTruth ==
  ASSUME Inv, Truth, NEW s \in Sockets, NEW u \in Users \cup {None}, Open(s, u)
  PROVE  Truth'
  <1>1. /\ open' = [open EXCEPT ![s] = [user |-> u, at |-> clock]]
        /\ unread' = IF u = None THEN unread ELSE [unread EXCEPT ![s] = [user |-> u, at |-> clock]]
        /\ Fresh(s) /\ UNCHANGED <<clock, table, historyVars, runVars>>
    BY DEF Open
  <1>2. /\ open'[s] = [user |-> u, at |-> clock]
        /\ \A r \in Sockets \ {s} : open'[r] = open[r] /\ unread'[r] = unread[r]
    BY <1>1 DEF Inv, TypeOK
  <1>3. clock \in Nat /\ None \notin Nat
    BY Numbers
  <1>4. Stamped(table[s]) => table[s].ts < clock
    BY <1>1 DEF Fresh, Stamped
  <1>5. Stamped(before[s]) => before[s].ts < clock
    <2>1. Stamped(before[s]) => before[s].ts \in Nat
      BY Numbers DEF Stamped
    <2>2. Stamped(table[s]) => table[s].ts \in Nat
      BY Numbers DEF Stamped
    <2> QED BY <1>3, <1>4, <2>1, <2>2 DEF Truth, Held, Kept
  <1>6. ~Maps(table[s], open'[s]) /\ ~Maps(before[s], open'[s])
    BY <1>2, <1>3, <1>4, <1>5 DEF Maps, Stamped
  <1>7. Past'
    <2> SUFFICES ASSUME NEW r \in Sockets
                 PROVE  /\ open'[r] # None => open'[r].at <= clock
                        /\ unread'[r] # None =>
                             /\ unread'[r].at <= clock
                             /\ open'[r] # None /\ unread'[r].at = open'[r].at =>
                                  unread'[r].user = open'[r].user
      BY <1>1 DEF Past
    <2>1. CASE r # s
      BY <1>2, <2>1 DEF Truth, Past
    <2>2. CASE r = s /\ u = None
      <3>1. unread'[s] = unread[s] /\ (unread[s] # None => unread[s].at < clock /\ unread[s].at \in Nat)
        BY <1>1, <2>2, Numbers DEF Fresh
      <3> QED BY <1>2, <1>3, <2>2, <3>1
    <2>3. CASE r = s /\ u # None
      <3>1. unread'[s] = [user |-> u, at |-> clock]
        BY <1>1, <2>3 DEF Inv, TypeOK
      <3> QED BY <1>2, <1>3, <2>3, <3>1
    <2> QED BY <2>1, <2>2, <2>3
  <1>8. AllDated' /\ Held'
    BY <1>1 DEF Truth, AllDated, Dated, Held, Kept, Stamped, Unvisited, runVars
  <1>9. Own'
    <2> SUFFICES ASSUME NEW r \in Sockets
                 PROVE  /\ Agrees(table[r], open'[r]) /\ Agrees(before[r], open'[r])
                        /\ Older(table[r], open'[r])
      BY <1>1 DEF Truth, Own, Agrees, Older, Maps, Stamped, runVars
    <2>1. CASE r # s
      BY <1>2, <2>1 DEF Truth, Own
    <2>2. CASE r = s
      <3>1. Stamped(table[s]) => table[s].ts \in Nat
        BY Numbers DEF Stamped
      <3> QED BY <1>2, <1>3, <1>4, <1>6, <2>2, <3>1 DEF Agrees, Older
    <2> QED BY <2>1, <2>2
  <1>10. Shown'
    <2>1. \A r \in Sockets : Maps(before[r], open'[r]) => Maps(before[r], open[r])
      BY <1>2, <1>6
    <2> QED BY <1>1, <2>1 DEF Truth, Shown, Instance, Wanted, runVars
  <1>11. KnownKeepsName'
    BY <1>1 DEF Truth, KnownKeepsName, Maps, Wanted, runVars
  <1> QED BY <1>7, <1>8, <1>9, <1>10, <1>11 DEF Truth

LEMMA CloseTruth ==
  ASSUME Inv, Truth, NEW s \in Sockets, Close(s)
  PROVE  Truth'
  <1>1. /\ UNCHANGED <<clock, opens, unread, table, historyVars, runVars>>
        /\ \A r \in Sockets : open'[r] \in {open[r], None}
    BY DEF Close, Inv, TypeOK
  <1>2. Past'
    BY <1>1 DEF Truth, Past
  <1>3. AllDated' /\ Held'
    BY <1>1 DEF Truth, AllDated, Dated, Held, Kept, Stamped, Unvisited, runVars
  <1>4. Own'
    BY <1>1 DEF Truth, Own, Agrees, Older, Maps, Stamped, runVars
  <1>5. Shown'
    BY <1>1 DEF Truth, Shown, Maps, Instance, Wanted, runVars
  <1>6. KnownKeepsName'
    BY <1>1 DEF Truth, KnownKeepsName, Maps, Wanted, runVars
  <1> QED BY <1>2, <1>3, <1>4, <1>5, <1>6 DEF Truth

LEMMA ExpireTruth ==
  ASSUME Inv, Truth, NEW s \in Sockets, Expire(s)
  PROVE  Truth'
  <1>1. /\ table[s] # None /\ table[s].expires < clock /\ table'[s] = None
        /\ \A r \in Sockets \ {s} : table'[r] = table[r]
        /\ UNCHANGED <<clusterVars, unread, historyVars, runVars>>
    BY DEF Expire, Inv, TypeOK
  <1>2. Past'
    BY <1>1 DEF Truth, Past, clusterVars
  <1>3. AllDated'
    BY <1>1 DEF Truth, AllDated, Dated, Stamped, clusterVars, runVars
  <1>4. Own'
    BY <1>1 DEF Truth, Own, Agrees, Older, Maps, Stamped, clusterVars, runVars
  <1>5. Held'
    <2> SUFFICES ASSUME NEW r \in Sockets, Stamped(before[r])
                 PROVE  /\ before[r].ts < clock \/ Kept(r)'
                        /\ Unvisited(r) /\ clock <= before[r].expires =>
                             Kept(r)' /\ table'[r].expires >= before[r].expires
      BY <1>1 DEF Held, Stamped, Unvisited, Instance, clusterVars, runVars
    <2>1. /\ before[r].ts < clock \/ Kept(r)
          /\ Unvisited(r) /\ clock <= before[r].expires =>
               Kept(r) /\ table[r].expires >= before[r].expires
      BY DEF Truth, Held
    <2>2. CASE r # s
      BY <1>1, <2>1, <2>2 DEF Kept, Stamped, runVars
    <2>3. CASE r = s
      <3>1. /\ clock \in Nat /\ table[s].expires \in Nat /\ before[s].ts \in Nat
            /\ before[s].expires \in Nat /\ (table[s].ts # None => table[s].ts \in Nat)
        BY <1>1, <2>3, Numbers DEF Stamped
      <3>2. table[s].ts # None => table[s].ts < table[s].expires
        BY <1>1 DEF Truth, AllDated, Dated
      <3> QED BY <1>1, <2>1, <2>3, <3>1, <3>2 DEF Kept, Stamped
    <2> QED BY <2>2, <2>3
  <1>6. Shown'
    BY <1>1 DEF Truth, Shown, Maps, Instance, Wanted, clusterVars, runVars
  <1>7. KnownKeepsName'
    BY <1>1 DEF Truth, KnownKeepsName, Maps, Wanted, clusterVars, runVars
  <1> QED BY <1>2, <1>3, <1>4, <1>5, <1>6, <1>7 DEF Truth

LEMMA TickTruth ==
  ASSUME Inv, Truth, Tick
  PROVE  Truth'
  <1>1. clock' = clock + 1 /\ UNCHANGED <<open, opens, unread, table, historyVars, runVars>>
    BY DEF Tick
  <1>2. Past'
    BY <1>1, Numbers DEF Truth, Past
  <1>3. AllDated'
    <2> SUFFICES ASSUME NEW s \in Sockets
                 PROVE  Dated(table[s])' /\ Dated(before[s])'
      BY <1>1 DEF Truth, AllDated, Stamped, runVars
    <2>1. Dated(table[s]) /\ Dated(before[s])
      BY DEF Truth, AllDated
    <2> QED BY <1>1, <2>1, Numbers DEF Dated, runVars
  <1>4. Own'
    BY <1>1 DEF Truth, Own, Agrees, Older, Maps, Stamped, runVars
  <1>5. Held'
    <2> SUFFICES ASSUME NEW s \in Sockets, Stamped(before[s])
                 PROVE  /\ before[s].ts < clock + 1 \/ Kept(s)
                        /\ Unvisited(s) /\ clock + 1 <= before[s].expires =>
                             Kept(s) /\ table[s].expires >= before[s].expires
      BY <1>1 DEF Held, Kept, Stamped, Unvisited, Instance, runVars
    <2>1. clock \in Nat /\ before[s].ts \in Nat /\ before[s].expires \in Nat
      BY Numbers DEF Stamped
    <2> QED BY <2>1 DEF Truth, Held
  <1>6. Shown'
    BY <1>1 DEF Truth, Shown, Maps, Instance, Wanted, runVars
  <1>7. KnownKeepsName'
    <2> SUFFICES ASSUME pc = "refresh", NEW s \in Wanted, Maps(before[s], conns[s]),
                        clock + 1 <= before[s].expires
                 PROVE  names[s] = conns[s].user
      BY <1>1 DEF KnownKeepsName, Maps, Wanted, runVars
    <2>1. clock \in Nat /\ before[s].expires \in Nat
      BY Numbers DEF Wanted, Maps
    <2> QED BY <2>1 DEF Truth, KnownKeepsName
  <1> QED BY <1>2, <1>3, <1>4, <1>5, <1>6, <1>7 DEF Truth

-----------------------------------------------------------------------------
(* lambda_handler.                                                         *)

LEMMA StartRunTruth ==
  ASSUME Inv, Truth, NEW sockets \in SUBSET Sockets, NEW available \in SUBSET Instances,
         StartRun(sockets, available)
  PROVE  Truth'
  <1>1. /\ pc' = "list" /\ hosts' = available /\ todo' = available /\ before' = table
        /\ \A s \in sockets : unread[s] # None
        /\ UNCHANGED <<clusterVars, historyVars, inst, failed, conns, names, stale, asOf, counts>>
    BY DEF StartRun
  <1>2. \A s \in Sockets :
          /\ table'[s] = table[s] \/ (s \in sockets /\ MayRecord(s) /\ table'[s] = Recorded(s))
          /\ unread'[s] = unread[s] \/ unread'[s] = None
    BY DEF StartRun
  <1>3. ASSUME NEW s \in sockets, MayRecord(s)
        PROVE  /\ Recorded(s).user = unread[s].user /\ Recorded(s).ts = unread[s].at
               /\ Recorded(s).expires = clock + Ttl
               /\ unread[s].at \in Nat /\ unread[s].at <= clock /\ unread[s].at # None
               /\ table[s] # None => table[s].ts # None /\ table[s].ts < unread[s].at
    BY <1>1, <1>3, Numbers DEF Recorded, MayRecord, Truth, Past
  <1>4. Past'
    BY <1>1, <1>2 DEF Truth, Past, clusterVars
  <1>5. AllDated'
    <2> SUFFICES ASSUME NEW s \in Sockets PROVE Dated(table'[s]) /\ Dated(table[s])
      BY <1>1 DEF AllDated, Dated, clusterVars
    <2>1. Dated(table[s])
      BY DEF Truth, AllDated
    <2>2. CASE s \in sockets /\ MayRecord(s) /\ table'[s] = Recorded(s)
      BY <1>3, <2>1, <2>2, Numbers DEF Dated
    <2> QED BY <1>2, <2>1, <2>2
  <1>6. Own'
    <2> SUFFICES ASSUME NEW s \in Sockets
                 PROVE  /\ Agrees(table'[s], open[s]) /\ Agrees(table[s], open[s])
                        /\ Older(table'[s], open[s])
      BY <1>1 DEF Own, Agrees, Older, Maps, Stamped, clusterVars
    <2>1. Agrees(table[s], open[s]) /\ Older(table[s], open[s])
      BY DEF Truth, Own
    <2>2. CASE s \in sockets /\ MayRecord(s) /\ table'[s] = Recorded(s)
      <3>1. open[s] # None => unread[s].at <= open[s].at
        BY <1>1, <2>2 DEF Inv, Order
      <3>2. open[s] # None /\ unread[s].at = open[s].at => unread[s].user = open[s].user
        BY <1>1, <2>2 DEF Truth, Past
      <3> QED BY <1>3, <2>1, <2>2, <3>1, <3>2 DEF Agrees, Older, Maps, Stamped
    <2> QED BY <1>2, <2>1, <2>2
  <1>7. Held'
    <2> SUFFICES ASSUME NEW s \in Sockets, Stamped(table[s])
                 PROVE  /\ Stamped(table'[s]) /\ table'[s].ts >= table[s].ts
                        /\ table'[s].expires >= table[s].expires
      BY <1>1 DEF Held, Kept, Stamped
    <2>1. table[s].ts \in Nat /\ table[s].expires \in Nat
      BY Numbers DEF Stamped
    <2>2. CASE s \in sockets /\ MayRecord(s) /\ table'[s] = Recorded(s)
      <3>1. table[s].expires <= clock + Ttl
        BY DEF Truth, AllDated, Dated, Stamped
      <3>2. Recorded(s) # None
        <4>1. table'[s] \in Items
          <5>1. unread[s] \in Connections /\ clock + Ttl \in Nat
            BY <1>1, <2>2, Numbers DEF Inv, TypeOK
          <5> QED BY <2>2, <5>1 DEF Recorded, Connections, Items
        <4> QED BY <2>2, <4>1, NoneDiffers
      <3> QED BY <1>3, <2>1, <2>2, <3>1, <3>2 DEF Stamped
    <2> QED BY <1>2, <2>1, <2>2
  <1>8. Shown' /\ KnownKeepsName'
    BY <1>1 DEF Shown, KnownKeepsName
  <1> QED BY <1>4, <1>5, <1>6, <1>7, <1>8 DEF Truth

LEMMA ListFailsTruth ==
  ASSUME Inv, Truth, NEW i \in Instances, ListFails(i)
  PROVE  Truth'
  <1>1. /\ pc = "list" /\ todo' = todo \ {i} /\ failed' = failed \cup {i}
        /\ UNCHANGED <<clusterVars, unread, table, historyVars, pc, hosts, inst, before,
                       conns, names, stale, asOf, counts>>
    BY DEF ListFails
  <1>2. Past' /\ AllDated' /\ Own' /\ Held' /\ KnownKeepsName'
    BY <1>1, Still DEF Unvisited
  <1>3. Shown'
    BY <1>1 DEF Truth, Shown, Instance, Wanted, clusterVars
  <1> QED BY <1>2, <1>3 DEF Truth

LEMMA ListTruth ==
  ASSUME Inv, Truth, NEW i \in Instances, List(i)
  PROVE  Truth'
  <1>1. /\ pc = "list" /\ i \in todo /\ todo' = todo \ {i} /\ inst' = i /\ pc' = "lookup"
        /\ conns' = [s \in Sockets |-> IF s \in On(i) THEN open[s] ELSE None]
        /\ UNCHANGED <<clusterVars, unread, table, historyVars, hosts, failed, before,
                       names, stale, asOf, counts>>
    BY DEF List
  <1>2. Past' /\ AllDated' /\ Own' /\ Held' /\ KnownKeepsName'
    <2>1. \A s \in Sockets : Unvisited(s)' => Unvisited(s)
      BY <1>1 DEF Unvisited, Instance
    <2>2. \A s \in Sockets : conns'[s] = open[s] \/ conns'[s] = None
      BY <1>1
    <2> QED BY <1>1, <2>1, <2>2, Still
  <1>3. Shown'
    <2> SUFFICES ASSUME NEW s \in Sockets, Instance(s) \in hosts \ (failed \cup todo'),
                        Maps(before[s], open[s])
                 PROVE  IF Instance(s) = i THEN conns'[s] # None ELSE s \in counts
      BY <1>1 DEF Shown, Wanted, Instance, clusterVars
    <2> QED BY <1>1 DEF Truth, Shown, Maps, On, Instance
  <1> QED BY <1>2, <1>3 DEF Truth

LEMMA LookupTruth ==
  ASSUME Inv, Truth, NEW busy \in SUBSET Wanted, NEW lagging \in SUBSET Wanted, Lookup(busy, lagging)
  PROVE  Truth'
  <1>1. /\ pc = "lookup" /\ pc' = "refresh" /\ asOf' = clock
        /\ names' = [s \in Sockets |-> IF s \in Wanted THEN Attribute(s, busy, lagging) ELSE None]
        /\ UNCHANGED <<clusterVars, unread, table, historyVars, hosts, todo, inst, failed,
                       before, conns, counts>>
    BY DEF Lookup
  <1>2. Past'
    BY <1>1 DEF Truth, Past, clusterVars
  <1>3. AllDated'
    BY <1>1 DEF Truth, AllDated, Dated, Stamped, clusterVars
  <1>4. Own'
    BY <1>1 DEF Truth, Own, Agrees, Older, Maps, Stamped, clusterVars
  <1>5. Held'
    BY <1>1 DEF Truth, Held, Kept, Stamped, Unvisited, Instance, clusterVars
  <1>6. Shown'
    BY <1>1 DEF Truth, Shown, Maps, Instance, Wanted, clusterVars
  <1>7. KnownKeepsName'
    <2> SUFFICES ASSUME NEW s \in Wanted, Maps(before[s], conns[s]), clock <= before[s].expires
                 PROVE  Attribute(s, busy, lagging) = conns[s].user
      BY <1>1 DEF KnownKeepsName, Maps, Wanted, clusterVars
    <2>1. /\ s \in Sockets /\ conns[s] # None /\ conns[s].user # None /\ conns[s].at \in Nat
          /\ before[s] # None /\ before[s].ts = conns[s].at /\ Stamped(before[s])
      BY Numbers DEF Wanted, Maps, Stamped
    <2>2. Instance(s) = inst
      BY <1>1 DEF Inv, Visiting
    <2>3. Stamped(table[s]) /\ table[s].ts >= before[s].ts
      BY <1>1, <2>1, <2>2 DEF Truth, Held, Unvisited, Kept
    <2>4. Agrees(table[s], conns[s]) /\ Agrees(before[s], conns[s]) /\ Older(table[s], conns[s])
      BY <1>1, <2>1 DEF Truth, Own
    <2>5. table[s].ts = conns[s].at
      <3>1. table[s].ts \in Nat
        BY <2>1, <2>3, Numbers DEF Stamped
      <3> QED BY <2>1, <2>3, <2>4, <3>1 DEF Older
    <2>6. table[s] # None /\ table[s].user = conns[s].user /\ before[s].user = conns[s].user
      BY <2>1, <2>3, <2>4, <2>5 DEF Agrees, Maps, Stamped
    <2>7. Read(s, lagging) # None /\ Read(s, lagging).user = conns[s].user
      BY <2>1, <2>6 DEF Read
    <2>8. LookedUp(s, lagging) = conns[s].user
      BY <2>7 DEF LookedUp, Hits
    <2> QED BY <2>8 DEF Attribute
  <1> QED BY <1>2, <1>3, <1>4, <1>5, <1>6, <1>7 DEF Truth

LEMMA RefreshTruth ==
  ASSUME Inv, Truth, NEW s \in Sockets, Refresh(s)
  PROVE  Truth'
  <1> DEFINE item == IF table[s] = None
                     THEN [user |-> None, ts |-> None, expires |-> asOf + Ttl]
                     ELSE [table[s] EXCEPT !.expires = asOf + Ttl]
  <1>1. /\ pc = "refresh" /\ s \in stale
        /\ table' = [table EXCEPT ![s] = item]
        /\ UNCHANGED <<clusterVars, unread, historyVars, pc, hosts, todo, inst, failed,
                       before, conns, names, asOf, counts>>
    BY DEF Refresh
  <1>2. inst \notin todo /\ Instance(s) = inst /\ asOf <= clock /\ asOf \in Nat /\ clock \in Nat
    BY <1>1, Numbers DEF Inv, TypeOK, Visiting, Refreshing
  <1>3. /\ item.expires = asOf + Ttl
        /\ table[s] = None => item.ts = None
        /\ table[s] # None => item.ts = table[s].ts /\ item.user = table[s].user
    <2>1. table[s] # None => table[s] \in Items
      BY DEF Inv, TypeOK
    <2> QED BY <2>1 DEF Items
  <1>4. item # None
    <2>1. table'[s] \in Items
      <3>1. table[s] # None => table[s] \in Items
        BY DEF Inv, TypeOK
      <3>2. asOf + Ttl \in Nat
        BY <1>2, Numbers
      <3>3. table'[s] = item
        BY <1>1 DEF Inv, TypeOK
      <3> QED BY <3>1, <3>2, <3>3 DEF Items
    <2>2. table'[s] = item
      BY <1>1 DEF Inv, TypeOK
    <2> QED BY <2>1, <2>2, NoneDiffers
  <1> HIDE DEF item
  <1>5. table'[s] = item /\ \A r \in Sockets \ {s} : table'[r] = table[r]
    BY <1>1 DEF Inv, TypeOK
  <1>6. Past'
    BY <1>1 DEF Truth, Past, clusterVars
  <1>7. AllDated'
    <2> SUFFICES ASSUME NEW r \in Sockets
                 PROVE  Dated(table'[r]) /\ (Stamped(table'[r]) => table'[r].ts <= asOf)
      BY <1>1 DEF Truth, AllDated, Dated, Stamped, clusterVars
    <2>1. Dated(table[r]) /\ (Stamped(table[r]) => table[r].ts <= asOf)
      BY <1>1 DEF Truth, AllDated
    <2>2. CASE r # s
      BY <1>5, <2>1, <2>2
    <2>3. CASE r = s
      <3>1. item.ts # None => item.ts <= asOf /\ item.ts \in Nat
        BY <1>3, <2>1, <2>3, Numbers DEF Stamped
      <3>2. Ttl \in Nat /\ Ttl > 0
        BY Numbers
      <3>3. /\ item.expires <= clock + Ttl
            /\ item.ts # None => item.ts <= clock /\ item.ts < item.expires
        BY <1>2, <1>3, <3>1, <3>2
      <3> QED BY <1>5, <2>3, <3>1, <3>3 DEF Dated, Stamped
    <2> QED BY <2>2, <2>3
  <1>8. Own'
    <2> SUFFICES ASSUME NEW r \in Sockets
                 PROVE  Agrees(table'[r], open[r]) /\ Older(table'[r], open[r])
      BY <1>1 DEF Truth, Own, Agrees, Older, Maps, Stamped, clusterVars
    <2>1. Agrees(table[r], open[r]) /\ Older(table[r], open[r])
      BY DEF Truth, Own
    <2>2. CASE r # s
      BY <1>5, <2>1, <2>2
    <2>3. CASE r = s /\ table[s] # None
      BY <1>3, <1>5, <2>1, <2>3 DEF Agrees, Older, Maps, Stamped
    <2>4. CASE r = s /\ table[s] = None
      <3>1. open[s] # None => open[s].at # None
        BY Numbers
      <3> QED BY <1>3, <1>5, <2>4, <3>1 DEF Agrees, Older, Maps, Stamped
    <2> QED BY <2>2, <2>3, <2>4
  <1>9. Held'
    <2> SUFFICES ASSUME NEW r \in Sockets, Stamped(before[r])
                 PROVE  /\ before[r].ts < clock \/ Kept(r)'
                        /\ Unvisited(r) /\ clock <= before[r].expires =>
                             Kept(r)' /\ table'[r].expires >= before[r].expires
      BY <1>1 DEF Held, Stamped, Unvisited, Instance, clusterVars
    <2>1. /\ before[r].ts < clock \/ Kept(r)
          /\ Unvisited(r) /\ clock <= before[r].expires =>
               Kept(r) /\ table[r].expires >= before[r].expires
      BY DEF Truth, Held
    <2>2. CASE r # s
      BY <1>1, <1>5, <2>1, <2>2 DEF Kept, Stamped
    <2>3. CASE r = s
      <3>1. ~Unvisited(r) /\ (Kept(r) => Kept(r)')
        BY <1>1, <1>2, <1>3, <1>4, <1>5, <2>3 DEF Unvisited, Kept, Stamped
      <3> QED BY <2>1, <3>1
    <2> QED BY <2>2, <2>3
  <1>10. Shown'
    BY <1>1 DEF Truth, Shown, Maps, Instance, Wanted, clusterVars
  <1>11. KnownKeepsName'
    BY <1>1 DEF Truth, KnownKeepsName, Maps, Wanted, clusterVars
  <1> QED BY <1>6, <1>7, <1>8, <1>9, <1>10, <1>11 DEF Truth

LEMMA CountTruth ==
  ASSUME Inv, Truth, Count
  PROVE  Truth'
  <1>1. /\ pc = "refresh" /\ pc' = "list" /\ counts' = counts \cup Wanted
        /\ UNCHANGED <<clusterVars, unread, table, hosts, todo, failed, before>>
    BY DEF Count
  <1>2. Past' /\ AllDated' /\ Own' /\ Held' /\ KnownKeepsName'
    BY <1>1, Still DEF Unvisited
  <1>3. Shown'
    <2> SUFFICES ASSUME NEW s \in Sockets, Instance(s) \in hosts \ (failed \cup todo),
                        Maps(before[s], open[s])
                 PROVE  s \in counts'
      BY <1>1 DEF Shown, Instance, clusterVars
    <2> QED BY <1>1 DEF Truth, Shown
  <1> QED BY <1>2, <1>3 DEF Truth

LEMMA EndLoopTruth ==
  ASSUME Inv, Truth, EndLoop
  PROVE  Truth'
  <1>1. /\ pc = "list" /\ pc' = "export" /\ todo = {}
        /\ UNCHANGED <<clusterVars, unread, table, historyVars, hosts, todo, inst, failed, before,
                       conns, names, stale, asOf, counts>>
    BY DEF EndLoop
  <1>2. Past' /\ AllDated' /\ Own' /\ Held' /\ KnownKeepsName'
    BY <1>1, Still DEF Unvisited
  <1>3. Shown'
    BY <1>1 DEF Truth, Shown, Instance, clusterVars
  <1> QED BY <1>2, <1>3 DEF Truth

\* A run that returns, raises or is killed leaves no view of the table behind.
LEMMA EndTruth ==
  ASSUME Inv, Truth, EndRun, UNCHANGED <<clusterVars, unread, table>>
  PROVE  Truth'
  <1>1. pc' = "idle" /\ \A s \in Sockets : before'[s] = None
    BY DEF EndRun, Nothing
  <1>2. Past'
    BY DEF Truth, Past, clusterVars
  <1>3. AllDated' /\ Own' /\ Held'
    BY <1>1 DEF Truth, AllDated, Dated, Own, Agrees, Older, Maps, Held, Stamped, clusterVars
  <1>4. Shown' /\ KnownKeepsName'
    BY <1>1 DEF Shown, KnownKeepsName
  <1> QED BY <1>2, <1>3, <1>4 DEF Truth

-----------------------------------------------------------------------------
(* The theorems.                                                           *)

LEMMA NextTruth == Inv /\ Truth /\ [Next]_vars => Truth'
  <1> SUFFICES ASSUME Inv, Truth, [Next]_vars PROVE Truth'
    OBVIOUS
  <1>1. ASSUME NEW s \in Sockets, NEW u \in Users \cup {None}, Open(s, u) PROVE Truth'
    BY <1>1, OpenTruth
  <1>2. ASSUME NEW s \in Sockets, Close(s) \/ Expire(s) \/ Refresh(s) PROVE Truth'
    BY <1>2, CloseTruth, ExpireTruth, RefreshTruth
  <1>3. CASE Tick
    BY <1>3, TickTruth
  <1>4. ASSUME NEW sockets \in SUBSET Sockets, NEW available \in SUBSET Instances,
               StartRun(sockets, available)
        PROVE  Truth'
    BY <1>4, StartRunTruth
  <1>5. ASSUME NEW i \in Instances, List(i) \/ ListFails(i) PROVE Truth'
    BY <1>5, ListTruth, ListFailsTruth
  <1>6. ASSUME NEW busy \in SUBSET Wanted, NEW lagging \in SUBSET Wanted, Lookup(busy, lagging)
        PROVE  Truth'
    BY <1>6, LookupTruth
  <1>7. CASE Count
    BY <1>7, CountTruth
  <1>8. CASE EndLoop
    BY <1>8, EndLoopTruth
  <1>9. ASSUME (\E lagging \in SUBSET Wanted : LookupDies(lagging)) \/ Export \/ Fail PROVE Truth'
    <2>1. EndRun /\ UNCHANGED <<clusterVars, unread, table>>
      BY <1>9 DEF LookupDies, Export, Fail
    <2> QED BY <2>1, EndTruth
  <1>10. CASE UNCHANGED vars
    <2>1. Past' /\ AllDated' /\ Own'
      BY <1>10 DEF Truth, Past, AllDated, Dated, Own, Agrees, Older, Maps, Stamped,
                   vars, clusterVars, historyVars, runVars
    <2>2. Held' /\ Shown' /\ KnownKeepsName'
      BY <1>10 DEF Truth, Held, Kept, Stamped, Unvisited, Shown, KnownKeepsName, Maps, Instance,
                   Wanted, vars, clusterVars, historyVars, runVars
    <2> QED BY <2>1, <2>2 DEF Truth
  <1> QED BY <1>1, <1>2, <1>3, <1>4, <1>5, <1>6, <1>7, <1>8, <1>9, <1>10 DEF Next

\* What relates the table a run found, the table as it is and the connections
\* holds of every behaviour.
THEOREM TruthHolds == Spec => []Truth
  <1>1. Init => Truth
    <2> SUFFICES ASSUME Init PROVE Truth
      OBVIOUS
    <2>1. /\ pc = "idle"
          /\ \A s \in Sockets : /\ open[s] = None /\ unread[s] = None
                                /\ table[s] = None /\ before[s] = None
      BY DEF Init, Nothing
    <2> QED BY <2>1 DEF Truth, Past, AllDated, Dated, Own, Agrees, Older, Maps, Held, Stamped,
                        Shown, KnownKeepsName
  <1> QED BY <1>1, NextTruth, InvHolds, PTL DEF Spec

\* "One unreachable instance should not blank the other instances' series":
\* OthersStillShown, whichever instances are there and whichever fail.
THEOREM NoneLeftOut == Spec => []OthersStillShown
  <1>1. Truth => OthersStillShown
    <2> SUFFICES ASSUME Truth, pc = "export", NEW s \in Sockets, s[1] \in hosts \ failed,
                        Maps(before[s], open[s])
                 PROVE  s \in counts
      BY DEF OthersStillShown
    <2> QED BY DEF Truth, Shown, Instance
  <1> QED BY <1>1, TruthHolds, PTL

\* A known connection is shown under its own user: KnownKeepsName, whatever
\* BatchGetItem returns of before the run and whoever had the port before.
THEOREM OwnName == Spec => []KnownKeepsName
  <1>1. Truth => KnownKeepsName
    BY DEF Truth
  <1> QED BY <1>1, TruthHolds, PTL
-----------------------------------------------------------------------------
(* The run of DocdbRun: it takes the steps of ConnectionSnapshot, and what *)
(* it exports is whole.                                                    *)

allVars == <<vars, exportVars>>

LEMMA RunStep == [RunNext]_allVars => [Next]_vars
  <1> SUFFICES ASSUME [RunNext]_allVars PROVE [Next]_vars
    OBVIOUS
  <1>1. ASSUME NEW sockets \in SUBSET Sockets, NEW members \in [Instances -> Members],
               Begin(sockets, members)
        PROVE  Next
    <2>1. InstanceEndpoints(members) \in SUBSET Instances /\ StartRun(sockets, InstanceEndpoints(members))
      BY <1>1 DEF Begin, InstanceEndpoints
    <2> QED BY <2>1 DEF Next
  <1>2. ASSUME NEW i \in Instances, ListAndAsk(i) \/ Forget(i) PROVE Next
    BY <1>2 DEF ListAndAsk, Forget, Next
  <1>3. ASSUME NEW running \in SUBSET Wanted, NEW lagging \in SUBSET Wanted, LookUp(running, lagging)
        PROVE  Next
    BY <1>3 DEF LookUp, Next
  <1>4. CASE CountSeries \/ ExportSnapshot
    BY <1>4 DEF CountSeries, ExportSnapshot, Next
  <1>5. CASE UNCHANGED allVars
    BY <1>5 DEF allVars
  <1>6. CASE (\E s \in Sockets, u \in Users \cup {None} : Open(s, u)) \/ (\E s \in Sockets : Close(s) \/ Expire(s))
    BY <1>6 DEF Next
  <1>7. CASE Tick \/ (\E s \in Sockets : Refresh(s)) \/ EndLoop \/ Fail
    BY <1>7 DEF Next
  <1>8. CASE \E lagging \in SUBSET Wanted : LookupDies(lagging)
    BY <1>8 DEF Next
  <1> QED BY <1>1, <1>2, <1>3, <1>4, <1>5, <1>6, <1>7, <1>8 DEF RunNext

\* What is proved of ConnectionSnapshot holds of the run: it begins as one and
\* takes only its steps.
THEOREM RunImplements == RunSpec => Spec
  <1>1. RunInit => Init
    BY DEF RunInit
  <1>2. [RunNext]_<<vars, exportVars>> => [Next]_vars
    BY RunStep DEF allVars
  <1> QED BY <1>1, <1>2, PTL DEF RunSpec, Spec

\* A connection at hand that this run found mapped is the one that was listed.
SameConnection ==
  pc \in {"lookup", "refresh"} =>
    \A s \in Wanted : Maps(before[s], open[s]) => conns[s] = open[s]

LEMMA NotMappedBefore ==
  ASSUME Inv, Truth, NEW s \in Sockets, NEW u \in Users \cup {None}, Open(s, u)
  PROVE  /\ ~Maps(before[s], open'[s])
         /\ \A r \in Sockets \ {s} : open'[r] = open[r]
  <1>1. /\ open'[s] = [user |-> u, at |-> clock]
        /\ \A r \in Sockets \ {s} : open'[r] = open[r]
        /\ Fresh(s)
    BY DEF Open, Inv, TypeOK
  <1>2. clock \in Nat /\ None \notin Nat
    BY Numbers
  <1>3. Stamped(table[s]) => table[s].ts < clock /\ table[s].ts \in Nat
    BY <1>1, Numbers DEF Fresh, Stamped
  <1>4. Stamped(before[s]) => before[s].ts < clock
    <2>1. Stamped(before[s]) => before[s].ts \in Nat
      BY Numbers DEF Stamped
    <2> QED BY <1>2, <1>3, <2>1 DEF Truth, Held, Kept
  <1> QED BY <1>1, <1>2, <1>4 DEF Maps, Stamped

LEMMA NextSame ==
  ASSUME Inv, Truth, SameConnection, [Next]_vars
  PROVE  SameConnection'
  <1>1. ASSUME NEW s \in Sockets, NEW u \in Users \cup {None}, Open(s, u)
        PROVE  SameConnection'
    <2>1. \A r \in Sockets : Maps(before[r], open'[r]) => open'[r] = open[r]
      BY <1>1, NotMappedBefore
    <2>2. UNCHANGED <<pc, conns, before>>
      BY <1>1 DEF Open, runVars
    <2> QED BY <2>1, <2>2 DEF SameConnection, Wanted
  <1>2. ASSUME NEW s \in Sockets, Close(s) PROVE SameConnection'
    <2>1. open' = [open EXCEPT ![s] = None] /\ UNCHANGED <<pc, conns, before>>
      BY <1>2 DEF Close, runVars
    <2>2. \A r \in Sockets : Maps(before[r], open'[r]) => open'[r] = open[r]
      BY <2>1 DEF Maps, Inv, TypeOK
    <2> QED BY <2>1, <2>2 DEF SameConnection, Wanted
  <1>3. ASSUME UNCHANGED <<open, conns, before>>, pc' \in {"lookup", "refresh"} => pc \in {"lookup", "refresh"}
        PROVE  SameConnection'
    BY <1>3 DEF SameConnection, Wanted
  <1>4. ASSUME NEW i \in Instances, List(i) PROVE SameConnection'
    <2>1. conns' = [s \in Sockets |-> IF s \in On(i) THEN open[s] ELSE None] /\ UNCHANGED <<open, before>>
      BY <1>4 DEF List, clusterVars
    <2>2. \A s \in Sockets : s \in Wanted' => conns'[s] = open'[s]
      BY <2>1 DEF Wanted
    <2> QED BY <2>2 DEF SameConnection, Wanted
  <1>5. ASSUME pc' \notin {"lookup", "refresh"} PROVE SameConnection'
    BY <1>5 DEF SameConnection
  <1>6. CASE UNCHANGED vars
    BY <1>3, <1>6 DEF vars, clusterVars, runVars
  <1>7. CASE Tick \/ (\E s \in Sockets : Expire(s) \/ Refresh(s))
    BY <1>3, <1>7 DEF Tick, Expire, Refresh, clusterVars, runVars
  <1>8. CASE \E busy \in SUBSET Wanted, lagging \in SUBSET Wanted : Lookup(busy, lagging)
    BY <1>3, <1>8 DEF Lookup, clusterVars
  <1>9. CASE \E sockets \in SUBSET Sockets, available \in SUBSET Instances : StartRun(sockets, available)
    BY <1>5, <1>9 DEF StartRun
  <1>10. CASE (\E i \in Instances : ListFails(i)) \/ Count \/ EndLoop \/ Export \/ Fail
    BY <1>5, <1>10 DEF ListFails, Count, EndLoop, Export, Fail, EndRun
  <1>11. CASE \E lagging \in SUBSET Wanted : LookupDies(lagging)
    BY <1>5, <1>11 DEF LookupDies, EndRun
  <1> QED BY <1>1, <1>2, <1>4, <1>6, <1>7, <1>8, <1>9, <1>10, <1>11 DEF Next

\* Nothing is counted between two runs.
Emptied == pc = "idle" => counts = {}

LEMMA NextEmptied ==
  ASSUME Inv, Emptied, [Next]_vars
  PROVE  Emptied'
  <1>1. ASSUME UNCHANGED <<pc, counts>> PROVE Emptied'
    BY <1>1 DEF Emptied
  <1>2. ASSUME pc' # "idle" PROVE Emptied'
    BY <1>2 DEF Emptied
  <1>3. ASSUME EndRun PROVE Emptied'
    BY <1>3 DEF EndRun, Emptied
  <1>4. CASE (\E s \in Sockets, u \in Users \cup {None} : Open(s, u)) \/ Tick \/ UNCHANGED vars
    BY <1>1, <1>4 DEF Open, Tick, runVars, vars
  <1>5. CASE \E s \in Sockets : Close(s) \/ Expire(s) \/ Refresh(s)
    BY <1>1, <1>5 DEF Close, Expire, Refresh, runVars
  <1>6. CASE \E i \in Instances : List(i) \/ ListFails(i)
    BY <1>1, <1>2, <1>6 DEF List, ListFails
  <1>7. CASE \E sockets \in SUBSET Sockets, available \in SUBSET Instances : StartRun(sockets, available)
    BY <1>2, <1>7 DEF StartRun
  <1>8. CASE (\E busy \in SUBSET Wanted, lagging \in SUBSET Wanted : Lookup(busy, lagging)) \/ Count \/ EndLoop
    BY <1>2, <1>8 DEF Lookup, Count, EndLoop
  <1>9. CASE (\E lagging \in SUBSET Wanted : LookupDies(lagging)) \/ Export \/ Fail
    BY <1>3, <1>9 DEF LookupDies, Export, Fail
  <1> QED BY <1>4, <1>5, <1>6, <1>7, <1>8, <1>9 DEF Next

\* Every counted connection has a series, of its instance and, once known, of its user.
Grouped ==
  /\ DOMAIN series = counts
  /\ \A s \in counts :
       /\ series[s].instance = s[1]
       /\ Maps(before[s], open[s]) /\ clock <= before[s].expires => series[s].user = open[s].user

\* As long as nobody answered or refused, every instance listed failed to answer.
Asked ==
  /\ roles \in {None, UserRoles(UsersInfo)}
  /\ pc # "idle" /\ roles = None /\ ~denied => hosts \ (failed \cup todo) \subseteq unanswered

ExportInv == SameConnection /\ Emptied /\ Grouped /\ Asked

\* A step that counts nothing leaves the series as they are, or ends the run.
LEMMA GroupedStep ==
  ASSUME Inv, Truth, ExportInv, [RunNext]_allVars
  PROVE  Grouped'
  <1>0. clock \in Nat /\ \A s \in Sockets : before[s] # None => before[s].expires \in Nat
    BY Numbers
  <1>00. counts \subseteq Sockets /\ Wanted \subseteq Sockets
    BY DEF Inv, TypeOK, Wanted
  <1>1. ASSUME UNCHANGED <<series, counts, before>>, clock' \in {clock, clock + 1},
               \A s \in Sockets : Maps(before[s], open'[s]) => open'[s] = open[s]
        PROVE  Grouped'
    <2> SUFFICES ASSUME NEW s \in counts, Maps(before[s], open'[s]), clock' <= before[s].expires
                 PROVE  series[s].user = open'[s].user
      BY <1>1 DEF ExportInv, Grouped
    <2>1. open'[s] = open[s] /\ before[s] # None /\ clock <= before[s].expires
      BY <1>0, <1>00, <1>1 DEF Maps
    <2> QED BY <2>1 DEF ExportInv, Grouped
  <1>2. ASSUME EndRun, Leave PROVE Grouped'
    BY <1>2 DEF EndRun, Leave, Grouped, NoSeries
  <1>3. ASSUME NEW s \in Sockets, NEW u \in Users \cup {None}, Open(s, u), UNCHANGED exportVars
        PROVE  Grouped'
    <2>1. \A r \in Sockets : Maps(before[r], open'[r]) => open'[r] = open[r]
      BY <1>3, NotMappedBefore
    <2> QED BY <1>1, <1>3, <2>1 DEF Open, runVars, exportVars
  <1>4. ASSUME NEW s \in Sockets, Close(s), UNCHANGED exportVars PROVE Grouped'
    <2>1. open' = [open EXCEPT ![s] = None] /\ UNCHANGED <<clock, series, counts, before>>
      BY <1>4 DEF Close, runVars, exportVars
    <2>2. \A r \in Sockets : Maps(before[r], open'[r]) => open'[r] = open[r]
      BY <2>1 DEF Maps, Inv, TypeOK
    <2> QED BY <1>1, <2>1, <2>2
  <1>5. ASSUME UNCHANGED <<series, counts, before, open>>, clock' \in {clock, clock + 1} PROVE Grouped'
    BY <1>1, <1>5
  <1>6. CASE (Tick \/ (\E s \in Sockets : Expire(s))) /\ UNCHANGED exportVars
    BY <1>5, <1>6 DEF Tick, Expire, clusterVars, runVars, exportVars
  <1>7. CASE (\E s \in Sockets : Refresh(s)) /\ UNCHANGED exportVars
    BY <1>5, <1>7 DEF Refresh, clusterVars, exportVars
  <1>8. ASSUME NEW sockets \in SUBSET Sockets, NEW members \in [Instances -> Members],
               Begin(sockets, members)
        PROVE  Grouped'
    <2>1. UNCHANGED <<series, counts, open, clock>> /\ pc = "idle"
      BY <1>8 DEF Begin, StartRun, clusterVars, exportVars
    <2>2. counts = {}
      BY <2>1 DEF ExportInv, Emptied
    <2> QED BY <2>1, <2>2 DEF ExportInv, Grouped
  <1>9. ASSUME NEW i \in Instances, ListAndAsk(i) \/ Forget(i) PROVE Grouped'
    BY <1>5, <1>9 DEF ListAndAsk, Forget, List, ListFails, clusterVars, exportVars
  <1>10. ASSUME NEW running \in SUBSET Wanted, NEW lagging \in SUBSET Wanted, LookUp(running, lagging)
         PROVE  Grouped'
    BY <1>5, <1>10 DEF LookUp, Lookup, clusterVars
  <1>11. CASE CountSeries
    <2>1. /\ pc = "refresh" /\ counts' = counts \cup Wanted /\ UNCHANGED <<clock, open, before>>
          /\ series' = [s \in DOMAIN series \cup Wanted |-> IF s \in Wanted THEN Key(s) ELSE series[s]]
      BY <1>11 DEF CountSeries, Count, clusterVars
    <2>2. DOMAIN series' = counts'
      BY <2>1 DEF ExportInv, Grouped
    <2>3. ASSUME NEW s \in Wanted
          PROVE  /\ series'[s].instance = s[1]
                 /\ Maps(before[s], open[s]) /\ clock <= before[s].expires => series'[s].user = open[s].user
      <3>1. series'[s] = Key(s) /\ Key(s).instance = s[1]
            /\ (names[s] # None => Key(s).user = names[s])
        BY <2>1, <2>3 DEF Key
      <3>2. ASSUME Maps(before[s], open[s]), clock <= before[s].expires
            PROVE  names[s] = open[s].user /\ names[s] # None
        <4>1. conns[s] = open[s]
          BY <2>1, <2>3, <3>2 DEF ExportInv, SameConnection
        <4>2. names[s] = conns[s].user
          BY <2>1, <2>3, <3>2, <4>1 DEF Truth, KnownKeepsName
        <4> QED BY <3>2, <4>1, <4>2 DEF Maps
      <3> QED BY <3>1, <3>2
    <2>4. ASSUME NEW s \in counts \ Wanted
          PROVE  /\ series'[s].instance = s[1]
                 /\ Maps(before[s], open[s]) /\ clock <= before[s].expires => series'[s].user = open[s].user
      <3>1. series'[s] = series[s]
        BY <2>1, <2>4 DEF ExportInv, Grouped
      <3> QED BY <3>1, <2>4 DEF ExportInv, Grouped
    <2> QED BY <2>1, <2>2, <2>3, <2>4 DEF Grouped
  <1>12. CASE EndLoop /\ UNCHANGED exportVars
    BY <1>5, <1>12 DEF EndLoop, clusterVars, exportVars
  <1>13. CASE ExportSnapshot \/ (Fail /\ Leave) \/ ((\E lagging \in SUBSET Wanted : LookupDies(lagging)) /\ Leave)
    BY <1>2, <1>13 DEF ExportSnapshot, Export, Fail, LookupDies
  <1>14. CASE UNCHANGED allVars
    BY <1>5, <1>14 DEF allVars, vars, clusterVars, runVars, exportVars
  <1> QED BY <1>3, <1>4, <1>6, <1>7, <1>8, <1>9, <1>10, <1>11, <1>12, <1>13, <1>14 DEF RunNext

LEMMA AskedStep ==
  ASSUME Inv, ExportInv, [RunNext]_allVars
  PROVE  Asked'
  <1>1. ASSUME UNCHANGED <<roles, denied, unanswered, hosts, failed, todo>>, pc = "idle" => pc' = "idle"
        PROVE  Asked'
    BY <1>1 DEF ExportInv, Asked
  <1>2. ASSUME EndRun, Leave PROVE Asked'
    BY <1>2 DEF EndRun, Leave, Asked
  <1>3. CASE ((\E s \in Sockets, u \in Users \cup {None} : Open(s, u)) \/ Tick) /\ UNCHANGED exportVars
    BY <1>1, <1>3 DEF Open, Tick, runVars, exportVars
  <1>4. CASE (\E s \in Sockets : Close(s) \/ Expire(s)) /\ UNCHANGED exportVars
    BY <1>1, <1>4 DEF Close, Expire, runVars, exportVars
  <1>5. CASE (\E s \in Sockets : Refresh(s)) /\ UNCHANGED exportVars
    BY <1>1, <1>5 DEF Refresh, exportVars
  <1>6. ASSUME NEW sockets \in SUBSET Sockets, NEW members \in [Instances -> Members],
               Begin(sockets, members)
        PROVE  Asked'
    <2>1. UNCHANGED <<roles, denied, unanswered, failed>> /\ hosts' = todo'
      BY <1>6 DEF Begin, StartRun, exportVars
    <2> QED BY <2>1 DEF ExportInv, Asked
  <1>7. ASSUME NEW i \in Instances, Forget(i) PROVE Asked'
    <2>1. /\ pc = "list" /\ pc' = pc /\ todo' = todo \ {i} /\ failed' = failed \cup {i}
          /\ UNCHANGED <<roles, denied, unanswered, hosts>>
      BY <1>7 DEF Forget, ListFails, exportVars
    <2> QED BY <2>1 DEF ExportInv, Asked
  <1>8. ASSUME NEW i \in Instances, ListAndAsk(i) PROVE Asked'
    <2>1. /\ pc = "list" /\ todo' = todo \ {i} /\ UNCHANGED <<hosts, failed>>
      BY <1>8 DEF ListAndAsk, List
    <2>2. CASE (roles # None \/ denied) /\ UNCHANGED <<roles, denied, unanswered>>
      BY <2>1, <2>2 DEF ExportInv, Asked
    <2>3. CASE roles = None /\ ~denied /\ unanswered' = unanswered \cup {i} /\ UNCHANGED <<roles, denied>>
      BY <2>1, <2>3 DEF ExportInv, Asked
    <2>4. CASE denied' = TRUE /\ UNCHANGED roles
      BY <2>4 DEF ExportInv, Asked
    <2>5. CASE roles' = UserRoles(UsersInfo)
      BY <2>5, RolesAssumption DEF Asked
    <2> QED BY <1>8, <2>2, <2>3, <2>4, <2>5 DEF ListAndAsk, AskRoles
  <1>9. CASE \E running \in SUBSET Wanted, lagging \in SUBSET Wanted : LookUp(running, lagging)
    BY <1>1, <1>9 DEF LookUp, Lookup
  <1>10. CASE CountSeries
    BY <1>1, <1>10 DEF CountSeries, Count
  <1>11. CASE EndLoop /\ UNCHANGED exportVars
    BY <1>1, <1>11 DEF EndLoop, exportVars
  <1>12. CASE ExportSnapshot \/ (Fail /\ Leave) \/ ((\E lagging \in SUBSET Wanted : LookupDies(lagging)) /\ Leave)
    BY <1>2, <1>12 DEF ExportSnapshot, Export, Fail, LookupDies
  <1>13. CASE UNCHANGED allVars
    BY <1>1, <1>13 DEF allVars, vars, runVars, exportVars
  <1> QED BY <1>3, <1>4, <1>5, <1>6, <1>7, <1>8, <1>9, <1>10, <1>11, <1>12, <1>13 DEF RunNext

LEMMA ExportHolds == RunSpec => []ExportInv
  <1>1. RunInit => ExportInv
    BY DEF RunInit, Init, ExportInv, SameConnection, Emptied, Grouped, Asked, NoSeries
  <1>2. Inv /\ Truth /\ ExportInv /\ [RunNext]_allVars => ExportInv'
    BY RunStep, NextSame, NextEmptied, GroupedStep, AskedStep DEF ExportInv
  <1>3. RunSpec => [](Inv /\ Truth)
    BY RunImplements, InvHolds, TruthHolds, PTL
  <1> QED BY <1>1, <1>2, <1>3, PTL DEF RunSpec, allVars

\* What is exported is whole: SnapshotWhole, for every cluster, however many of
\* its instances fail and wherever the roles come from.
THEOREM WholeSnapshot == RunSpec => []SnapshotWhole
  <1>1. Inv /\ Truth /\ ExportInv => SnapshotWhole
    <2> SUFFICES ASSUME Inv, Truth, ExportInv, pc = "export"
                 PROVE  SnapshotWhole
      BY DEF SnapshotWhole
    <2>1. ASSUME NEW s \in Sockets, s[1] \in hosts \ failed, Maps(before[s], open[s]),
                 clock <= before[s].expires
          PROVE  \E o \in Observations :
                   o.value > 0 /\ o.key.instance = s[1] /\ o.key.user = open[s].user
      <3>1. s \in counts /\ s \in DOMAIN series
        BY <2>1 DEF Truth, Shown, Instance, ExportInv, Grouped
      <3>2. series[s].instance = s[1] /\ series[s].user = open[s].user
        BY <2>1, <3>1 DEF ExportInv, Grouped
      <3> DEFINE alike == {r \in DOMAIN series : series[r] = series[s]}
                 o == [value |-> Cardinality(alike), cluster |-> CONFIG.cluster, key |-> series[s]]
      <3>3. Cardinality(alike) > 0
        <4>1. alike \subseteq Sockets /\ s \in alike
          BY <3>1 DEF ExportInv, Grouped, Inv, TypeOK
        <4>2. IsFiniteSet(alike)
          BY <4>1, SnapshotAssumption, FS_Subset
        <4>3. Cardinality(alike) \in Nat /\ (Cardinality(alike) = 0 <=> alike = {})
          BY <4>2, FS_CardinalityType, FS_EmptySet
        <4> QED BY <4>1, <4>3
      <3>4. o \in Observations
        BY <3>1 DEF Observations
      <3> QED BY <3>2, <3>3, <3>4
    <2>2. ASSUME RoleObservations = {}, ~denied, UserRoles(UsersInfo) # {}
          PROVE  hosts \ failed \subseteq unanswered
      <3>1. roles = None
        BY <2>2 DEF RoleObservations, ExportInv, Asked
      <3>2. todo = {}
        BY DEF Truth, Shown
      <3> QED BY <2>2, <3>1, <3>2 DEF ExportInv, Asked
    <2> QED BY <2>1, <2>2 DEF SnapshotWhole
  <1>2. RunSpec => [](Inv /\ Truth)
    BY RunImplements, InvHolds, TruthHolds, PTL
  <1> QED BY <1>1, <1>2, ExportHolds, PTL

=============================================================================
