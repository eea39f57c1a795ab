------------------------------- MODULE DocdbRun -------------------------------
(***************************************************************************)
(* What a scheduled run of docdb-connection-attribution exports, around    *)
(* the steps of ConnectionSnapshot: the configuration, the endpoints it    *)
(* asks, the roles it reads once, and the series it groups the connections *)
(* into.  Source: config.py, handler.py, docdb.py, attribution.py and      *)
(* export.py in examples/docdb-connection-attribution/src/                 *)
(* docdb_connection_attribution.                                           *)
(*                                                                         *)
(* Left out: the cached MongoClients, which carry nothing from one run to  *)
(* the next, connections without a client address, and the number of audit *)
(* events.  A client is [host, port, app]; app is None when its driver     *)
(* sends no name.                                                          *)
(***************************************************************************)
EXTENDS ConnectionSnapshot, Sequences

CONSTANTS
  Deployment,  \* the environment: a variable is the set of its values
  DocdbSecret, \* the secret with the function's own user
  Download,    \* of the CA bundle
  UsersInfo    \* the users of the cluster, as usersInfo returns them

-----------------------------------------------------------------------------
(* Config.from_env: the set of its results, {} standing for a ConfigError. *)

\* _required.
Required(raw) == raw \ {""}

WholeNumber == [v \in {"0", "1", "2"} |-> IF v = "0" THEN 0 ELSE IF v = "1" THEN 1 ELSE 2]

\* _int.
AtLeast(raw, default, minimum) ==
  IF Required(raw) = {} THEN {default}
  ELSE {WholeNumber[v] : v \in {w \in raw \cap DOMAIN WholeNumber : WholeNumber[w] >= minimum}}

SignalPath == <<"v1", "metrics">>

\* otlp_metrics_url: the signal path is there once, whether or not the endpoint
\* was given with it.  Slashes at the end are gone with the segments.
MetricsUrl(endpoint) ==
  LET n    == Len(endpoint.path)
      ends == n >= 2 /\ SubSeq(endpoint.path, n - 1, n) = SignalPath
      base == IF ends THEN SubSeq(endpoint.path, 1, n - 2) ELSE endpoint.path
  IN  IF endpoint.scheme = "https" THEN {[host |-> endpoint.host, path |-> base \o SignalPath]} ELSE {}

TenantIds(raw) == IF Required(raw) = {} THEN {None} ELSE raw \cap DOMAIN WholeNumber

FromEnv(env) ==
  {[cluster |-> c, secret |-> s, table |-> t, grafana |-> g, url |-> u, tenant |-> i,
    backfill |-> b, ttl |-> d, address |-> env.address = {"true"},
    group |-> IF Required(env.group) = {} THEN <<"aws", "docdb", c, "audit">> ELSE env.group] :
   c \in Required(env.cluster), s \in Required(env.secret), t \in Required(env.table),
   g \in Required(env.grafana), u \in UNION {MetricsUrl(e) : e \in env.endpoint},
   i \in TenantIds(env.tenant), b \in AtLeast(env.backfill, 10080, 1),
   d \in AtLeast(env.ttl, 14, 1)}

CONFIG == CHOOSE config \in FromEnv(Deployment) : TRUE

\* docdb_credentials: a JSON object with a username and a password.
Credentials(secret) ==
  IF secret.form = "object" /\ "" \notin {secret.username, secret.password}
  THEN {<<secret.username, secret.password>>} ELSE {}

\* fetch_ca_bundle: the file is there, or an https URL has returned certificates.
HasCaBundle(download) ==
  download.present \/ (download.scheme = "https" /\ download.body = "certificates")

\* A run begins only where the module could be loaded.
ASSUME DeploymentAssumption ==
  /\ FromEnv(Deployment) # {} /\ CONFIG.ttl = Ttl
  /\ Credentials(DocdbSecret) # {} /\ HasCaBundle(Download)

\* user_roles: a row for every role that is granted to a named user.
UserRoles(users) ==
  UNION {{[user |-> u.user, role |-> r.role, db |-> IF r.db = None THEN "" ELSE r.db] :
            r \in {x \in u.roles : x.role # None}} :
         u \in {v \in users : v.user # None}}

\* A list of rows is not None.
ASSUME RolesAssumption == UserRoles(UsersInfo) # None

-----------------------------------------------------------------------------
VARIABLES
  roles,       \* roles: None until an instance answers
  denied,      \* roles_denied
  unanswered,  \* history: where usersInfo raised, until an instance answers
  active,      \* the sockets at hand whose connection had a running operation
  series       \* counts: the SeriesKey of every socket that is counted

exportVars == <<roles, denied, unanswered, active, series>>

Unattributed == "<unattributed>"
NoSeries == [s \in {} |-> None]

RunInit ==
  /\ Init
  /\ roles = None /\ denied = FALSE /\ unanswered = {} /\ active = {} /\ series = NoSeries

\* The locals of a run go with it.
Leave ==
  roles' = None /\ denied' = FALSE /\ unanswered' = {} /\ active' = {} /\ series' = NoSeries

-----------------------------------------------------------------------------
\* instance_endpoints: a member with no address yet has no endpoint.
InstanceEndpoints(members) ==
  {i \in DOMAIN members : members[i].status = "available" /\ members[i].address # None}

Members == [status : {"available", "creating"}, address : {"host", None}]

Begin(sockets, members) ==
  StartRun(sockets, InstanceEndpoints(members)) /\ UNCHANGED exportVars

\* One instance is unreachable; the loop goes on.
Forget(i) == ListFails(i) /\ UNCHANGED exportVars

\* The first instance that answers answers for all: usersInfo raises, is refused,
\* or returns the users.
AskRoles(i) ==
  \/ /\ roles # None \/ denied
     /\ UNCHANGED <<roles, denied, unanswered>>
  \/ /\ roles = None /\ ~denied
     /\ \/ unanswered' = unanswered \cup {i} /\ UNCHANGED <<roles, denied>>
        \/ unanswered' = {} /\ denied' = TRUE /\ UNCHANGED roles
        \/ unanswered' = {} /\ roles' = UserRoles(UsersInfo) /\ UNCHANGED denied

ListAndAsk(i) == List(i) /\ AskRoles(i) /\ UNCHANGED <<active, series>>

\* STORE.lookup, with the connections that have a running operation.
LookUp(running, lagging) ==
  /\ Lookup(running, lagging)
  /\ active' = running
  /\ UNCHANGED <<roles, denied, unanswered, series>>

\* connection_state.
ConnectionState(s) == IF s \in active THEN "active" ELSE "idle"

\* client_host: the port is left out, and the brackets of IPv6.
ClientHost(client) == client.host

\* The SeriesKey of group_connections.
Key(s) ==
  [instance |-> s[1],
   user     |-> IF names[s] = None THEN Unattributed ELSE names[s],
   app      |-> IF s[2].app = None THEN "" ELSE s[2].app,
   state    |-> ConnectionState(s),
   address  |-> IF CONFIG.address THEN ClientHost(s[2]) ELSE None]

\* Mutant: the counts of this instance replace those before it.
CountAnew ==
  /\ Count
  /\ series' = [s \in Wanted |-> Key(s)]
  /\ active' = {}
  /\ UNCHANGED <<roles, denied, unanswered>>

\* counts += group_connections(...): the count of a key is the number of sockets
\* it has in `series`.
CountSeries ==
  /\ Count
  /\ series' = [s \in DOMAIN series \cup Wanted |-> IF s \in Wanted THEN Key(s) ELSE series[s]]
  /\ active' = {}
  /\ UNCHANGED <<roles, denied, unanswered>>

\* connections: the gauge docdb.connections.open.
Observations ==
  {[value |-> Cardinality({r \in DOMAIN series : series[r] = series[s]}),
    cluster |-> CONFIG.cluster, key |-> series[s]] : s \in DOMAIN series}

\* user_role: the gauge docdb.user.role.
RoleObservations ==
  IF roles = None THEN {} ELSE {[value |-> 1, cluster |-> CONFIG.cluster, row |-> r] : r \in roles}

\* GRAFANA.resolve, the tenant id and export_snapshot: whatever of it fails, and
\* whether the run then raises for `failed`, nothing of the run is left.
ExportSnapshot == Export /\ Leave

RunNext ==
  \/ (\E s \in Sockets, u \in Users \cup {None} : Open(s, u)) /\ UNCHANGED exportVars
  \/ (\E s \in Sockets : Close(s) \/ Expire(s)) /\ UNCHANGED exportVars
  \/ Tick /\ UNCHANGED exportVars
  \/ (\E sockets \in SUBSET Sockets, members \in [Instances -> Members] : Begin(sockets, members))
  \/ (\E i \in Instances : ListAndAsk(i) \/ Forget(i))
  \/ (\E running \in SUBSET Wanted, lagging \in SUBSET Wanted : LookUp(running, lagging))
  \/ (\E lagging \in SUBSET Wanted : LookupDies(lagging)) /\ Leave
  \/ (\E s \in Sockets : Refresh(s)) /\ UNCHANGED exportVars
  \/ CountSeries
  \/ EndLoop /\ UNCHANGED exportVars
  \/ ExportSnapshot
  \/ Fail /\ Leave

RunSpec == RunInit /\ [][RunNext]_<<vars, exportVars>>

-----------------------------------------------------------------------------
\* The gauges are whole: a connection that an earlier run mapped, that is still
\* open and whose mapping is not over, is in a series of its instance under its
\* own user, whichever other instances fail; and the roles are missing only if
\* every instance that could be listed failed to give them, or refused.
SnapshotWhole ==
  pc = "export" =>
    /\ \A s \in Sockets :
         s[1] \in hosts \ failed /\ Maps(before[s], open[s]) /\ clock <= before[s].expires =>
           \E o \in Observations :
             o.value > 0 /\ o.key.instance = s[1] /\ o.key.user = open[s].user
    /\ RoleObservations = {} /\ ~denied /\ UserRoles(UsersInfo) # {} => hosts \ failed \subseteq unanswered
=============================================================================
