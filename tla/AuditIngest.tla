----------------------------- MODULE AuditIngest ------------------------------
(***************************************************************************)
(* ingest: scheduled runs read DocumentDB authenticate events from a       *)
(* CloudWatch log group into the attribution table, window by window, with *)
(* a checkpoint between runs.  Source: examples/docdb-connection-          *)
(* attribution/src/docdb_connection_attribution/audit.py and store.py.     *)
(* CloudWatch Logs is external: an event can be read only some time after  *)
(* it happened, and a window comes in pages of any size, in time order.    *)
(*                                                                         *)
(* An event has two times: CloudWatch's timestamp, which the window goes   *)
(* by, and the ts inside its message, which decides between two events of  *)
(* a socket.  At most one event has a given CloudWatch timestamp, so that  *)
(* timestamp stands for the event and the user it names; several may carry *)
(* the same ts.                                                            *)
(* One unit of `clock` is one event timestamp; one unit of `left` is one   *)
(* page read.  Reserved concurrency keeps the runs from overlapping.       *)
(***************************************************************************)
EXTENDS Integers, FiniteSets

CONSTANTS
  Sockets,    \* (instance, ip:port) pairs
  Overlap,    \* OVERLAP_MS
  Backfill,   \* backfill_minutes
  MaxLag,     \* the longest an event takes to become readable
  Delays,     \* how long after the ts in its message CloudWatch may stamp an event
  Timeout,    \* the function timeout
  Reserve,    \* reserve_ms
  WriteCost,  \* what one put_item takes, in page reads
  MaxClock,   \* bound on the clock
  MaxEvents,  \* bound on the authentications
  MaxFaults,  \* bound on the calls that fail or hang
  None        \* Python's None

Windows == [start : Int, end : Int, at : Int]

ASSUME IngestAssumption ==
  /\ IsFiniteSet(Sockets) /\ None \notin Sockets
  /\ Overlap \in Nat /\ Backfill \in Nat \ {0}
  /\ Timeout \in Nat \ {0} /\ Reserve \in Nat /\ WriteCost \in Nat
  /\ Delays \subseteq Nat /\ MaxClock \in Nat /\ MaxEvents \in Nat /\ MaxFaults \in Nat
  /\ None \notin Int /\ None \notin Windows

\* "CloudWatch Logs can deliver an event a minute or two after its timestamp":
\* the overlap is chosen to cover it.
ASSUME LagAssumption == MaxLag \in Nat /\ MaxLag <= Overlap

Times == 0 .. MaxClock
Stamps == {t - d : t \in Times, d \in Delays}

VARIABLES
  clock,
  log,        \* per timestamp: the socket of the event CloudWatch has there, or None
  stamp,      \* per timestamp: the ts in the message of that event
  readable,   \* timestamps whose events CloudWatch returns
  nextStart,  \* Checkpoint.next_start_ms
  resume,     \* Checkpoint.resume_*, None when unset
  store,      \* per socket: the event stored, or None
  pc,         \* "idle", "read" or "write"
  win,        \* start, end of the window, and where its next page begins
  more,       \* the page token is set
  latest,     \* per socket: the event with the newest ts this run has read, or None
  left,       \* what time_left_ms would return
  faults,     \* failed and hanging calls so far
  from        \* history: the start of the first window committed

worldVars == <<clock, log, stamp, readable>>
savedVars == <<nextStart, resume, from>>
runVars   == <<pc, win, more, latest, left>>
vars == <<worldVars, savedVars, store, runVars, faults>>

Nothing == [s \in Sockets |-> None]

Init ==
  /\ clock = 0 /\ log = [t \in Times |-> None] /\ stamp = [t \in Times |-> None] /\ readable = {}
  /\ nextStart = None /\ resume = None /\ from = None
  /\ store = Nothing
  /\ pc = "idle" /\ win = [start |-> 0, end |-> 0, at |-> 0] /\ more = FALSE
  /\ latest = Nothing /\ left = 0 /\ faults = 0

-----------------------------------------------------------------------------
(* The cluster and CloudWatch Logs.                                        *)

\* A successful authentication; the pattern and parse_event leave out the rest.
Authenticate(s, d) ==
  /\ log[clock] = None /\ Cardinality({t \in Times : log[t] # None}) < MaxEvents
  /\ log' = [log EXCEPT ![clock] = s] /\ stamp' = [stamp EXCEPT ![clock] = clock - d]
  /\ UNCHANGED <<clock, readable, savedVars, store, runVars, faults>>

Deliver(t) ==
  /\ log[t] # None /\ t \notin readable
  /\ readable' = readable \cup {t}
  /\ UNCHANGED <<clock, log, stamp, savedVars, store, runVars, faults>>

Tick ==
  /\ clock < MaxClock
  /\ \A t \in Times : log[t] # None /\ t \notin readable => clock < t + MaxLag
  /\ clock' = clock + 1
  /\ UNCHANGED <<log, stamp, readable, savedVars, store, runVars, faults>>

-----------------------------------------------------------------------------
(* ingest.                                                                 *)

\* Mutant: an unfinished window is started over.
WindowAgain ==
  IF resume # None THEN [resume EXCEPT !.at = resume.start]
  ELSE LET start == IF nextStart # None THEN nextStart ELSE clock - Backfill
       IN  [start |-> start, end |-> clock, at |-> start]

\* load_checkpoint: an unfinished window goes on from its page token, another
\* begins where the last one ended, less the overlap, or a backfill ago.
Window ==
  IF resume # None THEN resume
  ELSE LET start == IF nextStart # None THEN nextStart ELSE clock - Backfill
       IN  [start |-> start, end |-> clock, at |-> start]

StartRun ==
  /\ pc = "idle"
  /\ pc' = "read" /\ win' = Window /\ more' = (resume # None)
  /\ latest' = Nothing /\ left' = Timeout
  /\ UNCHANGED <<worldVars, savedVars, store, faults>>

\* Mutant: the instance is left out of the key.
FoundAnywhere(s, span) == span \cap readable

\* The events a page over the timestamps `span` returns for socket s.
Found(s, span) == {t \in span \cap readable : log[t] = s}

\* Of the events T the one with the newest ts, the first read among equals.
Newest(T) ==
  IF T = {} THEN None
  ELSE CHOOSE t \in T : \A u \in T :
         stamp[u] < stamp[t] \/ (stamp[u] = stamp[t] /\ t <= u)

\* `latest` after such a page.
Merged(s, span) == Newest((Found(s, span) \cup {latest[s]}) \ {None})

\* Mutant: the whole window is read, whatever time is left.
ReadOn(n) ==
  /\ pc = "read" /\ left > 0
  /\ n \in win.at .. win.end
  /\ latest' = [s \in Sockets |-> Merged(s, win.at .. n)]
  /\ win' = [win EXCEPT !.at = n + 1]
  /\ more' = (n < win.end)
  /\ left' = left - 1
  /\ pc' = IF ~more' THEN "write" ELSE "read"
  /\ UNCHANGED <<worldVars, savedVars, store, faults>>

\* One page.  After the last one, or with less than the reserve left, the run
\* turns to writing.
ReadPage(n) ==
  /\ pc = "read" /\ left > 0
  /\ n \in win.at .. win.end
  /\ latest' = [s \in Sockets |-> Merged(s, win.at .. n)]
  /\ win' = [win EXCEPT !.at = n + 1]
  /\ more' = (n < win.end)
  /\ left' = left - 1
  /\ pc' = IF ~more' \/ left' < Reserve THEN "write" ELSE "read"
  /\ UNCHANGED <<worldVars, savedVars, store, faults>>

\* Mutant: the put has no condition.
RecordAlways(s) ==
  /\ pc = "write" /\ latest[s] # None /\ left >= WriteCost
  /\ store' = [store EXCEPT ![s] = latest[s]]
  /\ latest' = [latest EXCEPT ![s] = None]
  /\ left' = left - WriteCost
  /\ UNCHANGED <<worldVars, savedVars, pc, win, more, faults>>

\* record, for one socket: the condition keeps a stored event whose
\* ts is as new.
Record(s) ==
  /\ pc = "write" /\ latest[s] # None /\ left >= WriteCost
  /\ store' = [store EXCEPT ![s] = IF @ = None \/ stamp[@] < stamp[latest[s]] THEN latest[s] ELSE @]
  /\ latest' = [latest EXCEPT ![s] = None]
  /\ left' = left - WriteCost
  /\ UNCHANGED <<worldVars, savedVars, pc, win, more, faults>>

Later(a, b) == IF a > b THEN a ELSE b

\* Mutant: the next window starts where this one ended.
SaveNoOverlap ==
  /\ pc = "write" /\ latest = Nothing
  /\ IF more
     THEN resume' = win /\ UNCHANGED nextStart
     ELSE resume' = None /\ nextStart' = win.end
  /\ from' = IF from = None THEN win.start ELSE from
  /\ pc' = "idle" /\ left' = 0
  /\ UNCHANGED <<worldVars, store, win, more, latest, faults>>

\* Mutant: the page token is saved ahead of the mappings of its pages.
SaveTokenFirst ==
  /\ pc = "write" /\ (more \/ latest = Nothing)
  /\ IF more
     THEN resume' = win /\ UNCHANGED nextStart
     ELSE resume' = None /\ nextStart' = Later(win.start, win.end - Overlap)
  /\ from' = IF from = None THEN win.start ELSE from
  /\ pc' = "idle" /\ left' = 0
  /\ latest' = Nothing
  /\ UNCHANGED <<worldVars, store, win, more, faults>>

\* save_checkpoint, once every mapping is written.
Save ==
  /\ pc = "write" /\ latest = Nothing
  /\ IF more
     THEN resume' = win /\ UNCHANGED nextStart
     ELSE resume' = None /\ nextStart' = Later(win.start, win.end - Overlap)
  /\ from' = IF from = None THEN win.start ELSE from
  /\ pc' = "idle" /\ left' = 0
  /\ UNCHANGED <<worldVars, store, win, more, latest, faults>>

\* The locals of a run that ends without a checkpoint go with it; what it wrote
\* stays.
Abandon ==
  /\ pc' = "idle" /\ latest' = Nothing /\ left' = 0
  /\ UNCHANGED <<worldVars, savedVars, store, win, more>>

\* Any AWS call of the run may raise.
Fail == pc # "idle" /\ faults < MaxFaults /\ faults' = faults + 1 /\ Abandon

\* A call hangs for the rest of the time.
Hang ==
  /\ pc # "idle" /\ left > 0
  /\ faults < MaxFaults /\ faults' = faults + 1
  /\ left' = 0
  /\ UNCHANGED <<worldVars, savedVars, store, pc, win, more, latest>>

\* The function timeout strikes during the next call.
Kill ==
  /\ \/ pc = "read" /\ left = 0
     \/ pc = "write" /\ latest # Nothing /\ left < WriteCost
  /\ Abandon
  /\ UNCHANGED faults

Run == StartRun \/ (\E n \in win.at .. win.end : ReadPage(n)) \/ (\E s \in Sockets : Record(s))
         \/ Save \/ Kill

Next ==
  \/ (\E s \in Sockets, d \in Delays : Authenticate(s, d))
  \/ (\E t \in Times : Deliver(t)) \/ Tick
  \/ Run \/ Fail \/ Hang

\* The schedule keeps starting runs and a run goes on; time passes and
\* CloudWatch delivers in the end.
Fairness ==
  /\ WF_vars(Run) /\ WF_vars(Tick)
  /\ \A t \in Times : WF_vars(Deliver(t))

Spec == Init /\ [][Next]_vars
FairSpec == Spec /\ Fairness

-----------------------------------------------------------------------------
(* Properties.                                                             *)

\* Every variable has its type.
TypeOK ==
  /\ clock \in Times /\ log \in [Times -> Sockets \cup {None}] /\ readable \subseteq Times
  /\ stamp \in [Times -> Stamps \cup {None}]
  /\ nextStart \in Int \cup {None} /\ from \in Int \cup {None}
  /\ resume \in Windows \cup {None}
  /\ store \in [Sockets -> Times \cup {None}] /\ latest \in [Sockets -> Times \cup {None}]
  /\ pc \in {"idle", "read", "write"} /\ win \in Windows /\ more \in BOOLEAN
  /\ left \in 0 .. Timeout /\ faults \in 0 .. MaxFaults

\* The table has the event at t, or one of the same socket with a ts as new.
Known(t) == log[t] # None =>
              store[log[t]] # None /\ stamp[store[log[t]]] >= stamp[t]

\* No authentication is skipped: everything between the start of the first
\* window and the point where the next run starts to read is in the table,
\* although pages end early, runs fail at any call and events arrive late.
NoneSkipped ==
  nextStart # None => \A t \in Times : from <= t /\ t < nextStart => Known(t)

\* The same for the pages an unfinished window has behind it: what a page token
\* steps over was stored before the token was, or arrived after its page and is
\* read again in the overlap.
ResumeSkipsNothing ==
  resume # None =>
    \A t \in Times : from <= t /\ t < resume.at /\ t < resume.end - Overlap => Known(t)

\* The table never runs ahead of the log: a mapping is the one of an event that
\* happened on that socket.
StoreTruthful ==
  \A s \in Sockets : store[s] # None =>
    store[s] \in readable /\ log[store[s]] = s

\* The point where the next run starts never moves back, a window once begun
\* keeps its bounds until it is finished, and a socket's user is only replaced
\* by one with a newer ts, whatever order CloudWatch has the events in and
\* however often the overlap is read again.
NeverBackwards ==
  [][/\ nextStart # None => nextStart' # None /\ nextStart' >= nextStart
     /\ resume # None /\ resume' # None =>
          resume'.start = resume.start /\ resume'.end = resume.end /\ resume'.at >= resume.at
     /\ \A s \in Sockets : store[s] # None =>
          \/ store'[s] = store[s]
          \/ store'[s] # None /\ stamp'[store'[s]] > stamp[store[s]]]_vars

\* What the run has to write fits into the time the reserve leaves it.  The code
\* does not see to it: the reserve is compared after a page, and the writes of
\* everything read by then come on top.
WritesFit ==
  pc = "write" => Cardinality({s \in Sockets : latest[s] # None}) * WriteCost < Reserve

\* Every authentication from the start of the first window on is attributed in
\* the end, however the windows end, as long as runs keep starting and their
\* writes come to fit into the reserve.
EventuallyKnown ==
  <>[]WritesFit =>
    \A t \in Times : (from # None /\ from <= t /\ log[t] # None) ~> Known(t)

\* Where the docstring of ingest holds ("the next run finishes the same window
\* before starting a new one, so a first-run backfill of a busy cluster spreads
\* over several runs instead of timing out"): writes that do not fit into the
\* reserve are all that can keep a backfill from being committed, at least page
\* by page.  Runs that fail or hang, windows of many pages and late events
\* cannot.
BackfillProgresses == <>[]WritesFit => <>(from # None)
=============================================================================
