-------------------------- MODULE ConnectionSnapshot --------------------------
(***************************************************************************)
(* The scheduled run of docdb-connection-attribution: it stores who        *)
(* authenticated, lists the open connections of each instance, looks their *)
(* sockets up, extends what it found, and exports one snapshot.  Source:   *)
(* handler.py, store.py (record, lookup), attribution.py and docdb.py in   *)
(* examples/docdb-connection-attribution/src/docdb_connection_attribution. *)
(*                                                                         *)
(* AuditIngest says which audit events reach `record`; here the newest one *)
(* of a socket reaches it in some run.  The role series, which share       *)
(* nothing with the connection counts, are left out.  DynamoDB is          *)
(* external: it deletes an item some time after its expires_at,            *)
(* BatchGetItem may return an item as it was before this run, and          *)
(* UpdateItem creates the item that is missing.                            *)
(***************************************************************************)
EXTENDS Integers, FiniteSets

CONSTANTS
  Instances, Clients,  \* an (instance, ip:port) pair is a socket
  Users,
  Ttl,       \* mapping_ttl_days
  Outage,    \* the longest an instance goes without being looked up
  MaxClock,  \* bound on the clock
  MaxOpens,  \* bound on the connections opened
  None       \* Python's None

Sockets == Instances \X Clients
Times == 0 .. MaxClock

\* An open connection; an unauthenticated heartbeat has no user.  An audit event
\* is the connection it opened.
Connections == [user : Users \cup {None}, at : Times]

\* An item of the table.  UpdateItem can leave one with neither user nor ts.
Items == [user : Users \cup {None}, ts : Times \cup {None}, expires : Nat]

ASSUME SnapshotAssumption ==
  /\ IsFiniteSet(Sockets)
  /\ Ttl \in Nat \ {0} /\ Outage \in Nat
  /\ MaxClock \in Nat /\ MaxOpens \in Nat
  /\ None \notin Users \cup Instances \cup Connections \cup Items \cup Nat

\* Runs are a minute apart and the TTL is a day or more.
ASSUME OutageAssumption == Outage <= Ttl \div 2

VARIABLES
  clock,
  open,     \* per socket: the open connection, or None
  opens,    \* connections opened so far
  unread,   \* per socket: its newest audit event, until a run reads it
  table,    \* per socket: the item, or None
  visited,  \* history: per instance, when its last completed lookup began
  died,     \* history: a lookup met an item without a user
  pc,       \* "idle", "list", "lookup", "refresh" or "export"
  hosts,    \* instance_endpoints(...)
  todo,     \* those the loop has not reached
  inst,     \* instance
  failed,   \* failed
  before,   \* the table as this run found it
  conns,    \* per socket of the instance: the connection listed, or None
  names,    \* per socket: the user its connection is counted under, or None
  stale,    \* sockets left to refresh
  asOf,     \* when the lookup began
  counts    \* sockets whose connection is counted

clusterVars == <<clock, open, opens>>
historyVars == <<visited, died>>
runVars == <<pc, hosts, todo, inst, failed, before, conns, names, stale,
             asOf, counts>>
vars == <<clusterVars, unread, table, historyVars, runVars>>

Nothing == [s \in Sockets |-> None]
On(i) == {s \in Sockets : s[1] = i}

Init ==
  /\ clock = 0 /\ open = Nothing /\ opens = 0 /\ unread = Nothing /\ table = Nothing
  /\ visited = [i \in Instances |-> 0] /\ died = FALSE
  /\ pc = "idle" /\ hosts = {} /\ todo = {} /\ inst = None /\ failed = {}
  /\ before = Nothing /\ conns = Nothing /\ names = Nothing
  /\ stale = {} /\ asOf = 0 /\ counts = {}

-----------------------------------------------------------------------------
(* The cluster, time and DynamoDB's deletions.                             *)

\* A port is not opened twice at one time.
Fresh(s) ==
  /\ unread[s] # None => unread[s].at < clock
  /\ table[s] # None /\ table[s].ts # None => table[s].ts < clock

Open(s, u) ==
  /\ open[s] = None /\ Fresh(s) /\ opens < MaxOpens
  /\ opens' = opens + 1
  /\ open' = [open EXCEPT ![s] = [user |-> u, at |-> clock]]
  /\ unread' = IF u = None THEN unread ELSE [unread EXCEPT ![s] = [user |-> u, at |-> clock]]
  /\ UNCHANGED <<clock, table, historyVars, runVars>>

Close(s) ==
  /\ open[s] # None
  /\ open' = [open EXCEPT ![s] = None]
  /\ UNCHANGED <<clock, opens, unread, table, historyVars, runVars>>

\* No instance is away for more than Outage.
Tick ==
  /\ clock < MaxClock
  /\ \A i \in Instances : clock < visited[i] + Outage
  /\ clock' = clock + 1
  /\ UNCHANGED <<open, opens, unread, table, historyVars, runVars>>

Expire(s) ==
  /\ table[s] # None /\ table[s].expires < clock
  /\ table' = [table EXCEPT ![s] = None]
  /\ UNCHANGED <<clusterVars, unread, historyVars, runVars>>

-----------------------------------------------------------------------------
(* lambda_handler.                                                         *)

\* The condition of `record`; a comparison with a missing attribute is false.
MayRecord(s) ==
  table[s] # None => table[s].ts # None /\ table[s].ts < unread[s].at

Recorded(s) ==
  [user |-> unread[s].user, ts |-> unread[s].at, expires |-> clock + Ttl]

\* ingest records the events of `sockets`; `available` are the instances that
\* instance_endpoints returns.
StartRun(sockets, available) ==
  /\ pc = "idle"
  /\ \A s \in sockets : unread[s] # None
  /\ table' = [s \in Sockets |->
                 IF s \in sockets /\ MayRecord(s) THEN Recorded(s) ELSE table[s]]
  /\ unread' = [s \in Sockets |-> IF s \in sockets THEN None ELSE unread[s]]
  /\ pc' = "list" /\ hosts' = available /\ todo' = available /\ before' = table
  /\ UNCHANGED <<clusterVars, historyVars, inst, failed, conns, names, stale,
                 asOf, counts>>

\* The locals of a run go with it.
EndRun ==
  /\ pc' = "idle" /\ hosts' = {} /\ todo' = {} /\ inst' = None /\ failed' = {}
  /\ before' = Nothing /\ conns' = Nothing /\ names' = Nothing
  /\ stale' = {} /\ asOf' = 0 /\ counts' = {}

\* Mutant: the loop ends at the first instance that cannot be listed.
ListFailsForAll(i) ==
  /\ pc = "list" /\ i \in todo
  /\ todo' = {} /\ failed' = failed \cup {i}
  /\ UNCHANGED <<clusterVars, unread, table, historyVars, pc, hosts, inst, before,
                 conns, names, stale, asOf, counts>>

\* open_connections raised.
ListFails(i) ==
  /\ pc = "list" /\ i \in todo
  /\ todo' = todo \ {i} /\ failed' = failed \cup {i}
  /\ UNCHANGED <<clusterVars, unread, table, historyVars, pc, hosts, inst, before,
                 conns, names, stale, asOf, counts>>

\* open_connections.
List(i) ==
  /\ pc = "list" /\ i \in todo
  /\ todo' = todo \ {i} /\ inst' = i
  /\ conns' = [s \in Sockets |-> IF s \in On(i) THEN open[s] ELSE None]
  /\ pc' = "lookup"
  /\ UNCHANGED <<clusterVars, unread, table, historyVars, hosts, failed, before,
                 names, stale, asOf, counts>>

Wanted == {s \in Sockets : conns[s] # None}

\* What BatchGetItem returns for s when the items of `lagging` are old.
Read(s, lagging) == IF s \in lagging THEN before[s] ELSE table[s]

Hits(lagging) == {s \in Wanted : Read(s, lagging) # None}

\* Mutant: a mapping is extended only when its TTL is over.
Overdue(item) == item.expires < clock

\* refresh_before: the item is in the second half of its TTL.
NearExpiry(item) == item.expires < clock + (Ttl \div 2)

\* Mutant: the instance is left out of the key.
LookedUpByClient(s, lagging) ==
  IF \E r \in Sockets : r[2] = s[2] /\ Read(r, lagging) # None
  THEN Read(CHOOSE r \in Sockets : r[2] = s[2] /\ Read(r, lagging) # None, lagging).user
  ELSE None

LookedUp(s, lagging) == IF s \in Hits(lagging) THEN Read(s, lagging).user ELSE None

\* attribute: the user of a running operation wins over the one of the table.
Attribute(s, busy, lagging) ==
  IF s \in busy /\ conns[s].user # None THEN conns[s].user ELSE LookedUp(s, lagging)

\* lookup up to the refreshes, and the names it gives; the connections in `busy`
\* were listed with a running operation.
Lookup(busy, lagging) ==
  /\ pc = "lookup"
  /\ \A s \in Hits(lagging) : Read(s, lagging).user # None
  /\ names' = [s \in Sockets |->
                 IF s \in Wanted THEN Attribute(s, busy, lagging) ELSE None]
  /\ stale' = {s \in Hits(lagging) : NearExpiry(Read(s, lagging))}
  /\ asOf' = clock /\ pc' = "refresh"
  /\ UNCHANGED <<clusterVars, unread, table, historyVars, hosts, todo, inst, failed,
                 before, conns, counts>>

\* An item without a user ends the run with a KeyError.  The instances it would
\* have gone on to count as visited: it was not they that were away.
LookupDies(lagging) ==
  /\ pc = "lookup"
  /\ \E s \in Hits(lagging) : Read(s, lagging).user = None
  /\ died' = TRUE
  /\ visited' = [i \in Instances |-> IF i \in todo \cup {inst} THEN clock ELSE visited[i]]
  /\ EndRun
  /\ UNCHANGED <<clusterVars, unread, table>>

\* UpdateItem SET expires_at.
Refresh(s) ==
  /\ pc = "refresh" /\ s \in stale
  /\ table' = [table EXCEPT ![s] =
                 IF @ = None THEN [user |-> None, ts |-> None, expires |-> asOf + Ttl]
                 ELSE [@ EXCEPT !.expires = asOf + Ttl]]
  /\ stale' = stale \ {s}
  /\ UNCHANGED <<clusterVars, unread, historyVars, pc, hosts, todo, inst, failed,
                 before, conns, names, asOf, counts>>

\* group_connections, and on to the next instance.
Count ==
  /\ pc = "refresh" /\ stale = {}
  /\ counts' = counts \cup Wanted
  /\ visited' = [visited EXCEPT ![inst] = asOf]
  /\ pc' = "list" /\ inst' = None /\ conns' = Nothing /\ names' = Nothing
  /\ asOf' = 0
  /\ UNCHANGED <<clusterVars, unread, table, died, hosts, todo, failed, before, stale>>

\* What follows the loop is the credential and the export.
EndLoop ==
  /\ pc = "list" /\ todo = {}
  /\ pc' = "export"
  /\ UNCHANGED <<clusterVars, unread, table, historyVars, hosts, todo, inst, failed,
                 before, conns, names, stale, asOf, counts>>

\* The run returns its summary, or raises: for `failed` after the export, or
\* because the export failed.
Export ==
  pc = "export" /\ EndRun /\ UNCHANGED <<clusterVars, unread, table, historyVars>>

\* Any other AWS call may raise, and the function timeout may strike.
Fail ==
  /\ pc \in {"list", "lookup", "refresh"}
  /\ EndRun
  /\ UNCHANGED <<clusterVars, unread, table, historyVars>>

Next ==
  \/ (\E s \in Sockets, u \in Users \cup {None} : Open(s, u))
  \/ (\E s \in Sockets : Close(s) \/ Expire(s))
  \/ Tick
  \/ (\E sockets \in SUBSET Sockets, available \in SUBSET Instances :
        StartRun(sockets, available))
  \/ (\E i \in Instances : List(i) \/ ListFails(i))
  \/ (\E busy \in SUBSET Wanted, lagging \in SUBSET Wanted : Lookup(busy, lagging))
  \/ (\E lagging \in SUBSET Wanted : LookupDies(lagging))
  \/ (\E s \in Sockets : Refresh(s))
  \/ Count \/ EndLoop \/ Export \/ Fail

Spec == Init /\ [][Next]_vars

-----------------------------------------------------------------------------
(* Properties.                                                             *)

\* Every variable has its type; an instance is behind the loop once it failed.
TypeOK ==
  /\ clock \in Times /\ open \in [Sockets -> Connections \cup {None}] /\ opens \in 0 .. MaxOpens
  /\ unread \in [Sockets -> Connections \cup {None}]
  /\ table \in [Sockets -> Items \cup {None}] /\ before \in [Sockets -> Items \cup {None}]
  /\ visited \in [Instances -> Times] /\ died \in BOOLEAN
  /\ pc \in {"idle", "list", "lookup", "refresh", "export"}
  /\ hosts \subseteq Instances /\ todo \subseteq hosts /\ failed \subseteq hosts \ todo
  /\ inst \in Instances \cup {None}
  /\ conns \in [Sockets -> Connections \cup {None}]
  /\ names \in [Sockets -> Users \cup {None}] /\ stale \subseteq Wanted
  /\ asOf \in Times /\ counts \subseteq Sockets

\* The item is the mapping of connection c.
Maps(item, c) == item # None /\ c # None /\ c.user # None /\ item.ts = c.at

\* "One unreachable instance should not blank the other instances' series":
\* whatever was open and mapped before the run, on an instance that is there and
\* did not fail, is in the snapshot.
OthersStillShown ==
  pc = "export" =>
    \A s \in Sockets : s[1] \in hosts \ failed /\ Maps(before[s], open[s]) => s \in counts

\* A connection whose mapping an earlier run stored is counted under its own
\* user, idle or active, even if BatchGetItem answers with old items, the port
\* was somebody else's before, or another instance has the same client.
KnownKeepsName ==
  pc = "refresh" =>
    \A s \in Wanted : Maps(before[s], conns[s]) /\ clock <= before[s].expires =>
                        names[s] = conns[s].user

\* "Each run extends the TTL of every mapping that is still open": the mapping of
\* a connection that stays open is not lost, however long it idles and whatever
\* runs fail between two visits of its instance, unless a run died of an item
\* that has no user.
KeepsMapping ==
  [][\A s \in Sockets :
       ~died /\ Maps(table[s], open[s]) /\ open'[s] = open[s] => Maps(table'[s], open'[s])]_vars

\* The table says "which user authenticated on each (instance, ip:port)".
EveryItemNamesUser == \A s \in Sockets : table[s] # None => table[s].user # None
=============================================================================
