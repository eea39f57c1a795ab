---------------------------- MODULE StreamBatcher ----------------------------
(***************************************************************************)
(* StreamBatcher.drain, as ship_object drives it: entries go in one by     *)
(* one, bounded batches come out and are serialised and pushed before the  *)
(* next entry is read.  Source: common/python/src/grafana_cloud_common/    *)
(* batching.py, and build_payload and group_by_labels in loki.py; what the *)
(* Node library does with the same entries stands beside it (batching.ts   *)
(* and loki.ts).                                                           *)
(*                                                                         *)
(* An entry is a record with its position in the generator's output, its   *)
(* labels, size and timestamp.  AemObject drives the actions.              *)
(***************************************************************************)
EXTENDS Integers, Sequences, SequencesExt, FiniteSets

CONSTANTS
  StaticLabels,                  \* labels every stream has
  MaxBatchLines, MaxBatchBytes   \* max_lines and max_bytes

ASSUME BatcherAssumption ==
  MaxBatchLines \in Nat \ {0} /\ MaxBatchBytes \in Nat \ {0}

VARIABLES
  yielded,  \* history: the entries the object's generator has yielded
  entries,  \* _entries
  bytes,    \* _bytes
  sent,     \* history: the batches drain() yielded and push() shipped, in order
  state     \* "draining", "done", or "failed" when a push raised

batchVars == <<yielded, entries, bytes, sent, state>>

-----------------------------------------------------------------------------
\* The members of a finite set as a sequence, in an order given as its pairs.
Ranked(S, order) ==
  [n \in 1 .. Cardinality(S) |->
     CHOOSE x \in S : Cardinality({y \in S : <<y, x>> \in order}) = n - 1]

Ascending(S) == Ranked(S, {p \in S \X S : p[1] < p[2]})

\* Group s by the key of each member, groups in order of first appearance,
\* members in order.
GroupBy(s, keys) ==
  LET heads == Ascending({i \in DOMAIN s : \A j \in 1 .. i - 1 : keys[j] # keys[i]})
  IN  [n \in DOMAIN heads |->
         LET at == Ascending({i \in DOMAIN s : keys[i] = keys[heads[n]]})
         IN  [key |-> keys[heads[n]], members |-> [m \in DOMAIN at |-> s[at[m]]]]]

\* {**static_labels, **labels}: distinct label sets may become equal.
Resolve(labels) ==
  [n \in DOMAIN labels \cup DOMAIN StaticLabels |->
     IF n \in DOMAIN labels THEN labels[n] ELSE StaticLabels[n]]

BannedLabelNames ==
  {"request_id", "requestid", "trace_id", "traceid", "span_id", "spanid", "user_id", "userid",
   "customer_id", "customerid", "session_id", "sessionid", "object_key", "objectkey", "s3_key",
   "key", "filename", "file_name", "path", "timestamp", "time", "date", "uuid", "id", "ip",
   "message", "line"}

MaxLabelsPerStream == 15

\* validate_labels.  Every label name of the model is valid Loki syntax.
ValidLabels(labels) ==
  /\ Cardinality(DOMAIN labels) \in 1 .. MaxLabelsPerStream
  /\ \A n \in DOMAIN labels : n \notin BannedLabelNames /\ labels[n] # ""

AllValid(es) == \A i \in DOMAIN es : ValidLabels(Resolve(es[i].labels))

\* group_by_labels: [labels, entry] pairs become streams.
GroupByLabels(es) ==
  LET groups == GroupBy(es, [i \in DOMAIN es |-> es[i].labels])
  IN  [n \in DOMAIN groups |-> [labels |-> groups[n].key, entries |-> groups[n].members]]

\* The lines of streams that are merged: <<stream, line>>, first stream first.
Places(runs) == UNION {{r} \X DOMAIN runs[r] : r \in DOMAIN runs}
LineAt(runs, p) == runs[p[1]][p[2]]
Ahead(p, q) == p[1] < q[1] \/ (p[1] = q[1] /\ p[2] < q[2])

\* Mutant: merged streams are not sorted.
Unsorted(runs) ==
  LET sorted == Ranked(Places(runs), {pq \in Places(runs) \X Places(runs) : Ahead(pq[1], pq[2])})
  IN  [n \in DOMAIN sorted |-> LineAt(runs, sorted[n])]

\* extend, then sorted(entries, key=timestamp_ns), which is stable.
Sorted(runs) ==
  LET Ts(p) == LineAt(runs, p).ts
      sorted == Ranked(Places(runs),
                       {pq \in Places(runs) \X Places(runs) :
                          \/ Ts(pq[1]) < Ts(pq[2])
                          \/ Ts(pq[1]) = Ts(pq[2]) /\ Ahead(pq[1], pq[2])})
  IN  [n \in DOMAIN sorted |-> LineAt(runs, sorted[n])]

\* build_payload: streams that resolve to the same labels are merged in order,
\* then each is sorted.
BuildPayload(streams) ==
  LET merged == GroupBy(streams, [n \in DOMAIN streams |-> Resolve(streams[n].labels)])
  IN  [n \in DOMAIN merged |->
         [stream |-> merged[n].key,
          values |-> Sorted([r \in DOMAIN merged[n].members |-> merged[n].members[r].entries])]]

-----------------------------------------------------------------------------
\* The approximate bytes of a run of entries.
TotalSize(es) ==
  LET upTo[n \in 0 .. Len(es)] == IF n = 0 THEN 0 ELSE upTo[n - 1] + es[n].size
  IN  upTo[Len(es)]

BatchInit == yielded = <<>> /\ entries = <<>> /\ bytes = 0 /\ sent = <<>> /\ state = "draining"

\* flush, and the push of what it returns, which raises when a label set is
\* refused.  A push that raises ends the loop and the batch and the buffer are
\* gone with it.
FlushAndPush(es) ==
  /\ entries' = <<>> /\ bytes' = 0
  /\ \/ AllValid(es) /\ sent' = Append(sent, BuildPayload(GroupByLabels(es))) /\ state' = state
     \/ sent' = sent /\ state' = "failed"

\* Mutant: the line bound is checked before the entry is counted.
AddThenCheck(e) ==
  /\ state = "draining"
  /\ yielded' = Append(yielded, e)
  /\ IF Len(entries) >= MaxBatchLines \/ bytes + e.size >= MaxBatchBytes
     THEN FlushAndPush(Append(entries, e))
     ELSE /\ entries' = Append(entries, e) /\ bytes' = bytes + e.size
          /\ UNCHANGED <<sent, state>>

\* add: append, then flush when either bound is reached.
Add(e) ==
  /\ state = "draining"
  /\ yielded' = Append(yielded, e)
  /\ IF Len(entries) + 1 >= MaxBatchLines \/ bytes + e.size >= MaxBatchBytes
     THEN FlushAndPush(Append(entries, e))
     ELSE /\ entries' = Append(entries, e) /\ bytes' = bytes + e.size
          /\ UNCHANGED <<sent, state>>

\* Mutant: the batch left at the end of the object is dropped.
FinishEarly ==
  /\ state = "draining"
  /\ state' = "done" /\ entries' = <<>> /\ bytes' = 0
  /\ UNCHANGED <<yielded, sent>>

\* The object ends: the last batch, if there is one.
Finish ==
  /\ state = "draining"
  /\ IF entries = <<>> THEN state' = "done" /\ UNCHANGED <<entries, bytes, sent>>
     ELSE /\ entries' = <<>> /\ bytes' = 0
          /\ \/ /\ AllValid(entries) /\ state' = "done"
                /\ sent' = Append(sent, BuildPayload(GroupByLabels(entries)))
             \/ sent' = sent /\ state' = "failed"
  /\ UNCHANGED yielded

-----------------------------------------------------------------------------
(* The Node library.                                                       *)

\* A Map from labels to entries, keys in order of insertion.
Into(streams, labels, es) ==
  LET at == {i \in DOMAIN streams : streams[i].labels = labels}
  IN  IF at = {} THEN Append(streams, [labels |-> labels, entries |-> es])
      ELSE [streams EXCEPT ![CHOOSE i \in at : TRUE].entries = @ \o es]

\* Mutant: equal stamps count as ascending.
CompareLoose(a, b) == IF a.ts <= b.ts THEN -1 ELSE 1

\* The comparator of sort: it never says equal.
NodeCompare(a, b) == IF a.ts < b.ts THEN -1 ELSE 1

\* Array.prototype.sort, as V8 inserts: after all that do not compare greater.
Insert(sorted, e) ==
  LET place == CHOOSE i \in 1 .. Len(sorted) + 1 :
                 /\ \A j \in 1 .. i - 1 : NodeCompare(e, sorted[j]) > 0
                 /\ i <= Len(sorted) => NodeCompare(e, sorted[i]) < 0
  IN  InsertAt(sorted, place, e)

NodeSort(es) ==
  LET upTo[n \in 0 .. Len(es)] == IF n = 0 THEN <<>> ELSE Insert(upTo[n - 1], es[n])
  IN  upTo[Len(es)]

\* The Map after runs have been put in under their keys, in turn.
Gathered(keys, runs) ==
  LET upTo[n \in 0 .. Len(keys)] ==
        IF n = 0 THEN <<>> ELSE Into(upTo[n - 1], keys[n], runs[n])
  IN  upTo[Len(keys)]

NodeGroup(es) == Gathered([i \in DOMAIN es |-> es[i].labels], [i \in DOMAIN es |-> <<es[i]>>])

\* buildPayload.
NodePayload(streams) ==
  LET merged == Gathered([n \in DOMAIN streams |-> Resolve(streams[n].labels)],
                         [n \in DOMAIN streams |-> streams[n].entries])
  IN  [n \in DOMAIN merged |->
         [stream |-> merged[n].labels, values |-> NodeSort(merged[n].entries)]]

\* add, and flush when a bound is reached.
NodeAdd(acc, e) ==
  LET pending == Append(acc.pending, e)
      size    == acc.bytes + e.size
  IN  IF Len(pending) >= MaxBatchLines \/ size >= MaxBatchBytes
      THEN [pending |-> <<>>, bytes |-> 0,
            payloads |-> Append(acc.payloads, NodePayload(NodeGroup(pending)))]
      ELSE [acc EXCEPT !.pending = pending, !.bytes = size]

\* drain: the batcher after these entries, and all the payloads they make.
NodeState(es) ==
  LET upTo[n \in 0 .. Len(es)] ==
        IF n = 0 THEN [pending |-> <<>>, bytes |-> 0, payloads |-> <<>>]
        ELSE NodeAdd(upTo[n - 1], es[n])
  IN  upTo[Len(es)]

NodeDrain(es) ==
  LET acc == NodeState(es)
  IN  IF acc.pending = <<>> THEN acc.payloads
      ELSE Append(acc.payloads, NodePayload(NodeGroup(acc.pending)))

-----------------------------------------------------------------------------
(* Properties.                                                             *)

\* The lines of a payload, and the positions they had in the object.
Slots(payload) == Places([i \in DOMAIN payload |-> payload[i].values])
Pushed(payload, p) == payload[p[1]].values[p[2]]
Positions(payload) == {Pushed(payload, p).pos : p \in Slots(payload)}

\* What has been pushed, batch after batch, and what is buffered is exactly
\* what was read, in order: no entry is lost, doubled, altered or overtaken by
\* a later batch, unless a push raised, and then what went out before is a
\* prefix.
NothingLost ==
  LET out == UNION {Positions(sent[n]) : n \in DOMAIN sent}
      shipped == Cardinality(out)
  IN  /\ out = 1 .. shipped /\ shipped <= Len(yielded)
      /\ \A n \in DOMAIN sent :
           /\ \A p \in Slots(sent[n]) :
                Pushed(sent[n], p) = yielded[Pushed(sent[n], p).pos]
           /\ \A p, q \in Slots(sent[n]) :
                p # q => Pushed(sent[n], p).pos # Pushed(sent[n], q).pos
           /\ \A m \in 1 .. n - 1 :
                \A x \in Positions(sent[m]), y \in Positions(sent[n]) : x < y
      /\ state # "failed" => entries = SubSeq(yielded, shipped + 1, Len(yielded))

\* Both bounds hold: a batch is a run of at most max_lines lines and only its
\* last may carry it over max_bytes, and what is buffered reaches neither.
Bounded ==
  /\ Len(entries) < MaxBatchLines /\ bytes < MaxBatchBytes
  /\ bytes = TotalSize(entries)
  /\ \A n \in DOMAIN sent :
       \E first, last \in DOMAIN yielded :
         /\ Positions(sent[n]) = first .. last
         /\ first <= last /\ last - first < MaxBatchLines
         /\ TotalSize(SubSeq(yielded, first, last - 1)) < MaxBatchBytes

\* A payload has one stream per resolved label set, and every line is in the
\* stream of its own labels, in ascending time; lines of the same labels and
\* the same time keep the order of the object.
PayloadSound ==
  \A n \in DOMAIN sent : \A i \in DOMAIN sent[n] :
    LET values == sent[n][i].values
    IN  /\ values # <<>>
        /\ \A j \in DOMAIN sent[n] \ {i} : sent[n][j].stream # sent[n][i].stream
        /\ \A a \in DOMAIN values :
             /\ Resolve(values[a].labels) = sent[n][i].stream
             /\ \A b \in 1 .. a - 1 :
                  \/ values[b].ts < values[a].ts
                  \/ /\ values[b].ts = values[a].ts
                     /\ values[b].labels = values[a].labels => values[b].pos < values[a].pos

\* The two libraries put the same entries into the same payloads, byte for byte
\* alike in streams and lines, although the Node comparator calls no two stamps
\* equal; what a failed object has pushed is a prefix of them.
LibrariesShipAlike ==
  /\ state = "done"   => sent = NodeDrain(yielded)
  /\ state = "failed" => IsPrefix(sent, NodeDrain(yielded))
=============================================================================
