------------------------------ MODULE AemObject ------------------------------
(***************************************************************************)
(* One log object on its way through the AEM example: the generator        *)
(* _entries reads a line, parses it and hands it to the correlator; what   *)
(* comes out is labelled, stamped and yielded entry by entry to the        *)
(* batcher, which pushes.  Source: handle_object, _entries, _resolve and   *)
(* _timestamp_for in examples/adobe-aem/src/adobe_aem/handler.py.          *)
(*                                                                         *)
(* The correlator and the batcher are the modules of their own that this   *)
(* one extends; it adds the lines' content, the generator between them     *)
(* and the time that passes while the object is shipped, counted from the  *)
(* moment the generator took now_ns.                                       *)
(***************************************************************************)
EXTENDS RequestCorrelator, StreamBatcher, AemParse

CONSTANTS
  Jobs,       \* pairs of an object, [captured |-> groups of the key, suffix |-> it
              \* has the suffix, writer], and a deployment, a record of the
              \* handler's environment variables
  Content(_), \* the lines a writer writes
  Longest(_), \* bound on the lines of its objects
  MaxSpan,    \* bound on the time an invocation may take
  OldestTaken \* reject_old_samples_max_age of the tenant

\* A line has a form, a length and a stamp in seconds; an invocation is shorter
\* than the age Loki takes, and MAX_TIMESTAMP_AGE_SECONDS, where it is set,
\* leaves room for one.
AemAssumption ==
  /\ MaxSpan \in Nat /\ OldestTaken \in Nat /\ MaxSpan <= OldestTaken
  /\ \A job \in Jobs :
       /\ job[2].utc \in Int
       /\ \A age \in job[2].maxAge : age \in Int /\ age + MaxSpan <= OldestTaken
       /\ \A line \in Content(job[1].writer) :
            /\ line.form \in DOMAIN SniffedAs /\ line.size \in Nat
            /\ \A s \in line.stamp : s.local \in Int /\ s.offset \in Int

\* LOKI_STATIC_LABELS holds valid labels, and leaves room for the six this
\* handler builds: with others every push would be refused.
LabelsAssumption ==
  /\ IsFiniteSet(DOMAIN StaticLabels)
  /\ Cardinality(DOMAIN StaticLabels) + 6 <= MaxLabelsPerStream
  /\ \A n \in DOMAIN StaticLabels : n \notin BannedLabelNames /\ StaticLabels[n] # ""

ASSUME AemAssumption
ASSUME LabelsAssumption

VARIABLES
  file, config,  \* the object and the deployment
  text,          \* the lines read so far
  out,           \* lines the correlator has returned and _entries not yet yielded
  clock,         \* time since now_ns was taken
  unmatched      \* the counter of that name

aemVars == <<vars, batchVars, file, config, text, out, clock, unmatched>>

-----------------------------------------------------------------------------
\* The key wins where it says anything; the first line only gives a log type.
Resolved(first) ==
  LET coordinates == FromKey(file.captured)
      named  == IF "log_type" \in DOMAIN coordinates
                THEN LogTypeFromName(coordinates.log_type) ELSE "unknown"
      type   == IF named = "unknown" /\ config.sniff THEN SniffLogType(first) ELSE named
      keyed  == IF "tier" \in DOMAIN coordinates
                THEN TierFromName(coordinates.tier) ELSE "unknown"
      tier   == IF keyed = "unknown" /\ config.tier # ""
                THEN TierFromName(config.tier) ELSE keyed
  IN  [type |-> type,
       tier |-> IF type = "aemdispatcher" /\ tier = "unknown" THEN "dispatcher" ELSE tier,
       coordinates |-> Coordinates(coordinates, config.defaults)]

Object == Resolved(text[1])
Correlating(type) == config.correlate /\ type = "aemrequest"

Parsed(l) == ParserFor(Object.type, text[l], config.utc)

\* Mutant: the stamp of an old line is kept.
KeepOld(record) == IF record.ts = {} THEN 0 ELSE CHOOSE t \in record.ts : TRUE

\* now_ns is 0.
TimestampFor(record) ==
  LET Fits == {t \in record.ts : \A age \in config.maxAge : -t <= age}
  IN  IF Fits = {} THEN 0 ELSE CHOOSE t \in Fits : TRUE

\* What the correlator made of the record of line l: _enrich and
\* _mark_uncorrelated.
Carried(meta) == [n \in {"method", "path", "protocol"} \cap DOMAIN meta |-> meta[n]]

\* Mutant: a response that is given up on is not marked.
EnrichedOnly(l) ==
  IF partner[l] > 0 THEN Over([correlated |-> "true"], Carried(Parsed(partner[l]).meta)) ELSE <<>>

Enriched(l) ==
  CASE partner[l] > 0 -> Over([correlated |-> "true"], Carried(Parsed(partner[l]).meta))
    [] partner[l] = 0 /\ IsResponse(l) -> [correlated |-> "false"]
    [] OTHER -> <<>>

\* build: client_ip may be dropped, a level may be inferred.
Entry(l, number) ==
  LET r == Parsed(l)
      meta == [n \in DOMAIN r.meta \ {"client_ip" : d \in config.dropIp} |-> r.meta[n]]
      labels == BuildLabels(Object.type, Object.tier, Object.coordinates, r.level)
      inferred == IF "level" \in DOMAIN labels THEN {}
                  ELSE IF r.level # {} THEN r.level ELSE DetectedLevelFor(r.meta)
      detected == [n \in {"detected_level" : i \in inferred} |-> CHOOSE i \in inferred : TRUE]
  IN  [pos    |-> Len(yielded) + 1,
       record |-> number,
       line   |-> IF config.content = "raw" THEN "line" ELSE r.message,
       labels |-> labels,
       size   |-> text[l].size,
       ts     |-> TimestampFor(r),
       meta   |-> Over(detected, Over(Enriched(l), meta))]

\* Mutant: the record number is the one of the line being read.
BuildLate(l) == Entry(l, read)

\* The number was attached when the line was parsed.
Build(l) == Entry(l, l)

-----------------------------------------------------------------------------
\* A deployment whose pattern, content mode or bound is unusable never starts.
Usable(c) ==
  /\ UsablePattern(c.groups)
  /\ c.content \in {"raw", "message"}
  /\ MaxPending >= 1

AemInit ==
  /\ Init /\ BatchInit
  /\ \E job \in {j \in Jobs : Usable(j[2])} : file = job[1] /\ config = job[2]
  /\ text = <<>> /\ out = <<>> /\ clock = 0 /\ unmatched = 0

Waiting == out = <<>> /\ state = "draining" /\ ~done

\* What the correlator makes of a parsed record: _key and the carried fields.
KeyOf(meta) ==
  IF "request_id" \in DOMAIN meta /\ "direction" \in DOMAIN meta
  THEN <<IF "node_id" \in DOMAIN meta THEN meta.node_id ELSE "", meta.request_id>>
  ELSE NoKey

DirectionOf(meta) ==
  IF KeyOf(meta) = NoKey THEN "other"
  ELSE IF meta.direction = "response" THEN "response"
  ELSE IF DOMAIN Carried(meta) = {} THEN "bare" ELSE "request"

\* The lines this step returned: a request ahead of the response it releases,
\* at the end of the object in the order they were held.
Returned(before, after) ==
  LET new == {l \in Lines : after[l] > before[l]}
  IN  Ranked(new, {p \in new \X new : IF done' THEN p[1] < p[2] ELSE p[1] > p[2]})

\* SOURCE_KEY_SUFFIX is checked before the object is opened.
Skipped == config.suffix /\ ~file.suffix

Skip ==
  /\ Skipped /\ state = "draining"
  /\ state' = "done"
  /\ UNCHANGED <<vars, yielded, entries, bytes, sent, file, config, text, out, clock, unmatched>>

\* RequestCorrelator.process for a record of this direction and key.
Process(d, k) == Next /\ read' = Line /\ dir'[Line] = d /\ key'[Line] = k

\* The generator reads and parses one line; the first one settles the log type.
ReadLine(line) ==
  /\ Waiting /\ ~Skipped
  /\ Len(text) < Longest(file.writer)
  /\ text' = Append(text, line)
  /\ LET type == Resolved(text'[1]).type
         meta == ParserFor(type, line, config.utc).meta
     IN  IF Correlating(type)
         THEN Process(DirectionOf(meta), KeyOf(meta))
         ELSE PassThrough
  /\ out' = Returned(emitted, emitted')
  /\ UNCHANGED <<batchVars, file, config, clock, unmatched>>

\* The object ends; a correlator is flushed.
EndObject ==
  /\ Waiting /\ ~Skipped
  /\ Flush
  /\ out' = Returned(emitted, emitted')
  /\ UNCHANGED <<batchVars, file, config, text, clock, unmatched>>

\* One entry is built and yielded; drain() adds it, and pushes a full batch.
Yield ==
  /\ out # <<>>
  /\ LET entry == Build(Head(out))
     IN  /\ Add(entry)
         /\ unmatched' = unmatched +
              IF ~done /\ "parse_status" \in DOMAIN entry.meta
                 /\ entry.meta.parse_status = "unmatched" THEN 1 ELSE 0
  /\ out' = Tail(out)
  /\ UNCHANGED <<vars, file, config, text, clock>>

\* The generator is exhausted.
Drained ==
  /\ done /\ out = <<>>
  /\ Finish
  /\ UNCHANGED <<vars, file, config, text, out, clock, unmatched>>

Tick ==
  /\ state = "draining" /\ text # <<>> /\ clock < MaxSpan
  /\ clock' = clock + 1
  /\ UNCHANGED <<vars, batchVars, file, config, text, out, unmatched>>

AemNext ==
  \/ \E line \in Content(file.writer) : ReadLine(line)
  \/ EndObject \/ Yield \/ Drained \/ Skip
  \/ Tick

AemSpec == AemInit /\ [][AemNext]_aemVars

-----------------------------------------------------------------------------
(* Properties.                                                             *)

Shipped == UNION {{Pushed(sent[n], p) : p \in Slots(sent[n])} : n \in DOMAIN sent}
Field(entry, name) == IF name \in DOMAIN entry.meta THEN entry.meta[name] ELSE ""
With(name, value) == {e \in Shipped : Field(e, name) = value}

\* Once the object is done, Loki has each of its lines exactly once under the
\* line's own number and node, and a response that says it was correlated
\* carries the request fields of a line of its own node and request id.
ShippedWhole ==
  state = "done" /\ ~Skipped =>
    /\ Cardinality(Shipped) = Len(text)
    /\ {e.record : e \in Shipped} = DOMAIN text
    /\ \A e \in Shipped : Field(e, "node_id") = Field([meta |-> Parsed(e.record).meta], "node_id")
    /\ \A e \in With("correlated", "true") :
         \E l \in DOMAIN text :
           LET meta == Parsed(l).meta
           IN  /\ KeyOf(meta) = KeyOf(e.meta) /\ meta.direction = "request"
               /\ \A n \in {"method", "path", "protocol"} :
                    Field(e, n) = Field([meta |-> meta], n)

\* The counters the handler logs for an object are what a panel counts in Loki:
\* correlated and uncorrelated responses, and lines that did not parse.
CountersMatchLoki ==
  state = "done" =>
    /\ paired = Cardinality(With("correlated", "true"))
    /\ unpaired = Cardinality(With("correlated", "false"))
    /\ unmatched = Cardinality(With("parse_status", "unmatched"))

\* The streams of one object differ in the level only, and only in the known
\* words: no line can create a stream of its own, none has labels for which
\* validate_labels would refuse its whole batch, and no entry has both a level
\* label and an inferred level.
StreamsBounded ==
  \A i, j \in DOMAIN yielded :
    LET Rest(labels) == [n \in DOMAIN labels \ {"level"} |-> labels[n]]
        e == yielded[i]
    IN  /\ Rest(e.labels) = Rest(yielded[j].labels)
        /\ ValidLabels(Resolve(e.labels))
        /\ "level" \in DOMAIN e.labels =>
             e.labels.level \in KnownLevels /\ "detected_level" \notin DOMAIN e.meta

\* Where an age limit is set, no push holds a line older than Loki takes at the
\* moment of the push, which may be long after the stamps were chosen: one such
\* line would be answered 400 and take its batch with it.
NeverTooOld ==
  [][sent' # sent /\ config.maxAge # {} =>
       \A p \in Slots(Last(sent')) :
         clock - Pushed(Last(sent'), p).ts <= OldestTaken]_aemVars
=============================================================================
