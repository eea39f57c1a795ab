# TLA+ model of the Grafana Cloud reference examples

The repository holds AWS Lambda functions that ship data to Grafana Cloud and the
libraries they share, one in Python and one for Node. Two kinds of function matter here:

- `generic-s3` and `adobe-aem` read objects that appear in an S3 bucket and push
  their lines to Loki. Notifications reach them through an SQS queue or by direct
  invocation.
- `docdb-connection-attribution` runs on a schedule: it reads DocumentDB audit
  events from CloudWatch Logs into a DynamoDB table, takes a snapshot of the open
  connections and exports it as metrics.

An invocation of a Python function is sequential; the Node client interleaves at every
`await`. The hard part lies mostly between invocations: a message is delivered again
after a failure, a warm container keeps a token that has been rotated, a run is killed
between two writes, an event becomes readable late. Within one, it lies in long chains of
steps over untrusted content: a log line goes through classification, parser, correlator,
labels, stamps and batches, and what the counters say afterwards has to be what Loki
holds. Those are the behaviours modelled here.

## Inventory

| Component (under `src/`) | State | Operations | What makes it correct |
|---|---|---|---|
| Event parsing, `common/python/.../aws/handler.py`, `common/nodejs/src/aws/handler.ts` | none | `parse_event`, `_object_from_s3_record`, `_objects_from_eventbridge` | Every object a sender announces comes out once, with the id of its message; what cannot be parsed is reported; both libraries do the same |
| Message processing, the same files, and `examples/generic-s3/.../handler.py` | the invocation's batch, remaining time, `failed_message_ids` | `process_messages`, `ship_object`, `lambda_handler`, `to_response` | A message is acknowledged only when all of it is in Loki; one bad object fails its own message only |
| Queue wiring, `common/terraform/modules/s3-event-source` | SQS visibility and receive counts | deliver, time out, redrive | No message is processed twice at once; each ends deleted or parked |
| Loki client, `loki.py`, `loki.ts` | the header, the attempt | `push`, `_authorization`, `_classify_http_error`, `_backoff_seconds`, `validate_labels`, `build_payload` | A returned push is in Loki; a stale token is replaced; retries are bounded |
| Credential provider, `aws/credentials.py`, `aws/credentials.ts` | `_cached`, `_expires_at` | `resolve`, `token`, `invalidate`, `_fetch`, `parse_secret` | No token older than the TTL is handed out, however many callers there are |
| Batching, `batching.py`, `batching.ts` | `_entries`, `_bytes` | `add`, `flush`, `drain` | Bounded batches, no line lost, order kept |
| S3 reader, `aws/s3.py`, `aws/s3.ts` | the position in one object | `lines`, `_records`, `_json_array`, `splitDelimited` | Each record once, numbered, within the byte bound; a failure is permanent only if it is |
| Configuration, `config.py`, `config.ts` | none | `from_env`, `normalise_push_url`, the number parsers | A deployment means the same to both libraries |
| AEM parsing, `examples/adobe-aem/.../classify.py`, `parsers.py`, `labels.py`, `logtypes.py` | none | `from_key`, `sniff_log_type`, `parser_for`, the seven parsers, `build_labels` | A line that does not parse is shipped all the same; severities stay among the known words |
| AEM correlation, `correlate.py` | two bounded `OrderedDict`s, counters | `process`, `flush` | No line lost or doubled; a pair is a real pair |
| AEM handler, `handler.py` | the generator over one object | `handle_object`, `_entries`, `_resolve`, `_timestamp_for` | What is yielded late is still built from its own line |
| Audit ingest, `examples/docdb-connection-attribution/.../audit.py`, `store.py` | the checkpoint, the mapping table | `ingest`, `load_checkpoint`, `save_checkpoint`, `record` | No audit event is skipped; a newer user is never replaced by an older one |
| Attribution, `store.py` `lookup`, `attribution.py` | the table with its TTL | `lookup`, `group_connections` | An open connection keeps its user |
| Snapshot and export, `handler.py`, `docdb.py`, `export.py`, `config.py` | clients per host; of a run, `counts`, `roles`, `failed` | `from_env`, `lambda_handler`, `instance_endpoints`, `open_connections`, `users`, `export_snapshot` | A failing instance hides no other; the exported gauges are whole |
| Logging, `log.py`, `logger.ts` | process-wide level | `configure`, `sample_debug`, `redact`, the formatters | The same deployment logs the same lines in both languages |
| Terraform, CloudFormation, tools, workflows, dashboards | none at run time | - | not modelled, the delivery settings apart |

They interact by calls within one invocation (`lambda_handler` -> `parse_event` ->
`process_messages` -> `ship_object` -> reader, correlator, `drain` -> `push` ->
`_authorization` -> `resolve`) and, between invocations, through SQS, the warm
container (`_auth_header`, `_cached`), the checkpoint item and the mapping table.

`PROJECT.json` lists the hazards found while reading, each at its line, with the
properties that cover it or the reason why none does.

## Modules

| Module | What it is |
|---|---|
| `AtLeastOnce` | what the S3 pipeline promises: a notification is acknowledged only when everything it owes is stored, or parked |
| `S3Events` | `parse_event` as operators, and a sender that builds every event |
| `NodeEvents` | `parseEvent` and both `processMessages` on the same events; extends `ClientConfig` |
| `ClientConfig` | environment variables and secrets as each library reads them, and the lines each logs |
| `S3Delivery`, `MCS3Delivery` | queue, environments, `process_messages`, `ship_object`; implements `AtLeastOnce`. In the instance, kinds and objects come from `S3Events` |
| `LokiPush` | the Python `push` with its header, the credential cache, Secrets Manager and rotations |
| `NodePush` | the Node `push`: several at once over one header and one cache |
| `ObjectReader`, `NodeReader` | a writer of objects, the Python reader with the entries of `generic-s3`, the Node reader, and what both promise |
| `RequestCorrelator` | the correlator over every order of lines |
| `StreamBatcher` | `drain`, `group_by_labels`, `validate_labels`, `build_payload`, and the Node payload of the same entries |
| `AemParse` | classification, parsers, labels and levels as operators |
| `AemObject`, `MCAemObject` | one AEM object from key to payload: composes the three modules above |
| `AuditIngest` | scheduled audit reads with checkpoint and mapping table |
| `ConnectionSnapshot` | the docdb run from `record` to the export: table, TTL, lookup, instances that fail |
| `DocdbRun`, `MCDocdbRun` | the same run with its configuration, endpoints, roles, series and observations: composes the steps above |
| `S3DeliveryProofs`, `NodePushProofs`, `NodeReaderProofs`, `AemPartsProofs`, `AemObjectProofs`, `NodeEventsProofs`, `AuditIngestProofs`, `ConnectionSnapshotProofs` | theorems about the module they are named after; `S3DeliveryProofs` has those of `LokiPush` too, `NodeReaderProofs` those of `ObjectReader`, `ConnectionSnapshotProofs` those of `DocdbRun` too, `AemPartsProofs` those of `RequestCorrelator` and `StreamBatcher`, `NodeEventsProofs` those of `S3Events` |

A definition whose comment starts with `Mutant:` is a plausible bug in the definition
after it; `PROJECT.json` pairs each with the property that finds it. Nothing else uses it.

### How they correspond to the code

**S3Events.** A record is reduced to what `parse_event` branches on: its source, the shape of
its SQS body, and for a notification record its event name, the form of its `s3` block and
its key. Names are creations, removals and `Unlisted`, any other or none: the code filters
out removals only, and which types arrive is a setting
(`common/terraform/modules/s3-event-source/variables.tf:62`). The block may have a
bucket and a key, an empty or null one, none, or be null. A key is made of
characters and escapes, and `UnquotePlus` undoes them. `ParseRecords` is the loop, `MakesMessage`
and `MessageOfSqs` its SQS branch, `ParseEventBridge` the branch above it, `ParseRaises` the record
that fails the event. What a sender reports is written apart from the parser: `CreationOf`
(S3's own record of an object, with its key escaped by `Quote`), `ReportsCreated` and `Gives`.

**NodeEvents, ClientConfig.** The Node handler is written beside the Python one, so the
question is whether they do the same. `NodeSqs`, `NodeParse` and `NodeEventBridge` are its
parser; `PythonMessage` and `NodeMessage` are one turn of the two loops (`Outcome`), which look at a
malformed message and at the clock in opposite order. The parsers do differ: Python drops an
empty or null bucket or key where Node, which tests `=== undefined`, keeps them, and raises on a
null key; a null block raises in Python only; and `decodeURIComponent` raises on a percent sign
that begins no escape, which `unquote_plus` keeps (handler.py:97-108, handler.ts:83-93).
`OddReadApart` and `OddBridged` say that these records, and no others, are read
apart. `RuntimesAgree` compares the libraries for every event without them (`Plainly`; S3
and EventBridge write none), every set of failing objects and every moment the time may run out.
A variable of a deployment is the set of its values and a reading of it the set of its
results, the empty set being a ConfigError. Where numbers are plain decimals, hosts are in
lower case and written as hosts, and secrets hold strings, the libraries agree
(`ConfigsAgree`). They do not where `PlainlySet` and `PlainSecret` say so: `1_0`, `nan` and
`Infinity` are numbers to Python only, `0x10` to Node only, and as integers `5.0` and `1e1`
too; `URL` rewrites a host and takes the first path segment for a missing one; numbers and
booleans in a secret are text to Python and, as tokens, nothing to Node.
`Configure`, `SampleDebug`, `Redact` and `PythonLine` are Python's logging, `ResolveLevel` and
`NodeLine` Node's; without sampling, which Node does not have, and for the levels both know, they
write the same lines but for the traceback of an error (`LogsAgree`).

**S3Delivery.** One Lambda environment (`Worker`) has the locals of one invocation:
`todo` and `failed` are the loop of `process_messages`, `msg`, `obj`, `chunk`, `bad` the
loop over one message (`bad` is the flag `failed`). A *piece* is one batch of one object,
which `ship_object` pushes in one `CLIENT.push`. `left` is what
`get_remaining_time_in_millis` would return; every step takes 1 to `StepMax` units of it
and it is looked at only in `SkipLate`, `FailMalformed` and `StartMessage`, as in the
code. `TimeoutKill` ends an invocation without a response. On the queue side,
`Visibility` is the six function timeouts of the Terraform module, `Elapsed` adds the
batching window, during which the message is already invisible, and `Park` is the
redrive policy (or Lambda discarding an asynchronous event). `Direct` notifications have
no id, so `Report` leaves them out. The order of the messages in a batch is left open.
The object list includes objects that are skipped (`Chunks` = 0) and objects that raise
at any batch, before or after Loki took it. An event on which `parse_event` raises is not
among them: it takes a null block, which S3 does not write. Fields that are neither text nor
null are not modelled.

**LokiPush.** Tokens are numbered in the order the secret held them; `header`, `cached`
and `secret` are the three places one lives. `AskSecret`, `ReadSecret` and
`SecretAnswered` split `resolve()` at its network call because `now` is read before it
and the secret may change meanwhile. `Busy`, `Lost`, `Unauthorised` and `Rejected` are
the branches of `_classify_http_error` and of the transport errors. 401 comes only
for a token that Loki does not take; a wrong scope (a 403 for a live token), static
tokens and `force` are left out. `MaxRetries` is at least 1: the configuration takes positive
numbers only (`config.py:56`, `config.ts:47`).

**NodePush.** The same for any number of pushes of one client. A step goes from one
`await` to the next, so `AskSecret`, `ReadSecret` and `SecretAnswered` of different pushes
interleave, and the answers fill the cache in the order they arrive. A token from the cache
(`UseCache`) or from Secrets Manager is put into the header after one more `await`, in `SetHeader`, when
other pushes may have set or cleared it. `Unauthorised` and
`Judge` are two steps because the body of the 401 is awaited before `classify` clears the
header, which may by then be another push's. `Invalidate` may happen at any time and does
not reach a fetch under way.

**ObjectReader, NodeReader.** `Write` puts items in an object (lines, JSON documents with or
without the brackets of a list, CSV rows whose cells are sequences of text, spaces, times,
delimiters, quotes and line breaks, blank lines) and notes in `meant` the records they stand
for, with their times; then one of the two readers goes through them. `Open`, `GetFails` and
`StreamFails` are the request and what breaks later: the connection, and for a compressed object
what the bucket holds. A request is refused for good, fails with an error that may pass, or has no
answer, which Python leaves unclassified and Node calls permanent. `CellsOf` and `DictRow` are
Python's CSV reader, `TimeIn` the column that `TIMESTAMP_FIELD` names. `Size` is the length of a document in
bytes, some characters taking two, and `Payload` what a read of one byte more than the bound
returns. `Broken` is readline, `Trimmed` the `trim()` of a raw line (spaces, and the tabs of a TSV
row), `Scan` one turn of the loop in `splitDelimited` and `NodeRow` the object made of its cells; a
document with U+2028 and a quoted line break are two lines to it. `NodeStall` is
`raw.pipe(createGunzip())`. `Awkward` lists the content a library is known not to read as its
writer meant, outer spaces of a row among it: it is excluded from the two invariants, not
from the runs. `NodeGivesUp` names the two failures that Node calls permanent although they may
pass. Line terminators, encodings and a byte order mark before a table or a text are left out.

**AemParse.** A line is the form its text has (`request`, `access`, `error`, ..., `text`)
with the groups a regular expression would capture, a stamp and a size. Each parser is an
operator that takes a line of its form and gives an unmatched record for any other, so the
precedence among forms, the aliases, the fallbacks for a stamp, a level and a missing
field are kept and the expressions themselves are not.

**RequestCorrelator.** Lines are numbered; each `OrderedDict` is a function from keys to
line numbers, whose order is the insertion order. One action per path through
`_on_request` and `_on_response`.

**StreamBatcher.** `Add` is `add` with the flush and the push it may cause, `Finish` the
end of `drain`. A push may raise, which ends the object, and so does a label set that
`validate_labels` refuses. Sizes, timestamps and label sets are small values; `Resolve` is the merge
of the static labels, under which two label sets may become one. `NodeDrain`, `NodeGroup`
and `NodePayload` are the Node batcher and payload on the same entries; its comparator never
returns 0, and `NodeSort` inserts each entry where that comparator, called with the later
entry first as V8 calls it, lets it stand. `Gathered` is the loop that fills a Map, which
`groupByLabels` and `buildPayload` share, and `NodeState` the batcher after the entries so far.

**AemObject.** The generator `_entries` sits between correlator and batcher, and here it
does: `ReadLine` parses a line and hands it to a step of `RequestCorrelator`, `Returned` is
what that step gave back, `Yield` builds one entry and adds it to the batch, `EndObject` is
the flush at the end. `Process` constrains `Next` of the correlator by the direction and key
of the parsed record, so the composed system can take the correlator's steps and no others,
which is what `AemObjectProofs` uses. `clock` is the time since `now_ns` was taken.

**AuditIngest.** An event has two times: CloudWatch's timestamp, which windows and pages go by
and which stands for the event, and the ts in its message (`stamp`), which `latest` and
the condition of `record` compare. CloudWatch stamps an event some `Delays` after the cluster
does, so two events of a socket may arrive in the order of the one and not of the other, or carry the same ts.
A page may end at any timestamp of the window; `win.at` is what the page token stands for.
`Record` is one `put_item` with its condition, in any order; `Save` is
`save_checkpoint`. `Fail` is an exception of any AWS call, `Hang` a call that takes the rest
of the time, `Kill` the function timeout. Between runs only the checkpoint and the table
survive.

**ConnectionSnapshot.** The rest of the docdb run. A socket is an (instance, ip:port)
pair, `open` the connections of the cluster, `unread` the newest audit event of each socket
(which events reach `record` is the subject of `AuditIngest`, so here `StartRun` records
any set of them). `List` and `ListFails` are the two outcomes of `open_connections`,
`Lookup` is `STORE.lookup` up to its reads with the names `attribute` gives, one `Refresh`
per stale item is its `update_item`, `Count` is `group_connections`. `Lookup` chooses which
listed connections had a running operation, and for which keys `BatchGetItem` still
returns the item as it was before this run. `Expire` is DynamoDB's TTL deletion, at any
time after the expiry, also between the read and the refresh. `LookupDies` is the KeyError
on an item without a user; `Fail` any other exception, and the function timeout. The
two clock reads of `lookup` are one instant; connections without a client address (never
looked up) are left out. `Tick` lets no instance go without a completed
lookup for longer than `Outage`, at most half the TTL: that is the assumption under which
"each run extends the TTL of every mapping that is still open" can be true. The instances
that a run dying in `LookupDies` never reached do not count as away, so the death of a run
is not assumed away; `KeepsMapping` excludes what follows it.

**DocdbRun.** What a run computes around those steps; each of its actions is an action of
`ConnectionSnapshot` and what the same lines of the handler do besides. `FromEnv` is the
configuration, read as in `ClientConfig`; `DeploymentAssumption` says that the module could be
loaded. `InstanceEndpoints` picks the members of the cluster that are available, `AskRoles` is
the block that reads the users once: usersInfo raises, is refused, or answers for all. `series`
gives each counted socket its `SeriesKey`: the Counter of the code is the number of sockets
per key, so `counts +=` extends the function and `Observations` counts. What `export_snapshot`
and the credential before it may raise is in `ExportSnapshot`, which leaves nothing of the run.

## Runs

Properties are defined, with what they say of the code, at the end of each module
(`MCS3Delivery` and `MCAemObject` check those of the modules they extend).

| Run | Question | Bounds, and why they are enough |
|---|---|---|
| `s3_events` | Does every record mix parse to what was reported created, and where do the two libraries read a record apart? | 3 records, 2 of them notification records, inside bodies or not, with keys of at most one token (a plus, an escape, a stray percent sign): every pair of neighbouring branches, in both orders; every moment of lateness; deployments that differ in two variables from a typical one |
| `s3_events_eventbridge` (violated) | Is an EventBridge event in the queue read? | 2 records |
| `delivery` | What may the queue conclude from a deletion, of a malformed message too? Does the pipeline implement `AtLeastOnce`? How often is a batch stored, and does every notification end? | 2 environments, batches of 2, 2 receives, and 3 notifications: two objects, one of two batches and one empty; a malformed one; and a direct one of unknown shape. Time for two of the three steps that cost any, so each early stop and kill happens. Direct notifications with objects and further kinds are covered by the proofs, which have no bound |
| `loki_push` | Which token does a retry carry, and what does each outcome mean? | 3 attempts, 2 rotations, TTL 2 and 6 ticks of the clock, Retry-After below and above the cap: a token can go stale before, during and between attempts |
| `loki_push_rotation` (violated) | Does a 401 in a rotation recover? | as above |
| `node_push` | Do concurrent pushes harm each other? | 2 pushes, 2 attempts, a rotation, TTL 2, clock 3: one push's answer can overwrite, and its 401 clear, what the other has just set, a TTL late |
| `aem` | Is every line of an AEM object shipped once, under its own number, enriched by its own request and counted as Loki shows it? | 13 pairs of object and deployment over five kinds of log; 3 pods that share a request id and 2 buffered keys; objects of up to 6 lines that carry fields, 5 mixed request lines, 4 error lines, 3 of the others; batches of 3 lines or 4 bytes with sizes 1, 2 and 5; an age limit of 3 with 1 unit passing of the 4 Loki allows. Eviction, wrapped ids and both together happen, every parser and fallback is used, and batches end in both ways |
| `object` | Are records exact and failures honest in both readers? | 3 items, the bracket of a list being one, and documents of 3 bytes at most, wide characters included: header, row and what stands between them; documents that just fit and that are one byte or more too long, a single one, none; `TIMESTAMP_FIELD` and the age limit set; faults before, between and after records |
| `object_stall` (violated) | Is a reset under a decompression retried? | 1 item |
| `audit` | Does the checkpoint ever pass an event? Does the backfill end, and is every event attributed? | 2 sockets and 2 events, clock 3, overlap and lag 1, backfill 2, message times 0 or 2 before CloudWatch's, so that the two orders differ; one failing or hanging call, kills in reading and writing; Timeout 4, Reserve 3 and 2 for a write, so that one write fits into the reserve and two do not |
| `snapshot` | Does an open connection keep its mapping and its own user, does a failing instance hide no other, and are the exported gauges whole? | 2 instances with one client, 2 users with two roles each, 2 connections in a row, TTL 2 and clock 3: a port is used again, an item expires while its successor is open, a refresh falls after each kind of failure, and the roles come from the first instance, the second or none |
| `snapshot_race` (violated) | Does every item of the table name a user? | as above |

Every bound is a CONSTANT of its module. `CHECK_DEADLOCK FALSE` is set because each
system comes to a stop: an event that is full, notifications that are all settled, a
clock at its bound, an object that is read. The pods of `aem` and the users and instances of
`snapshot` are symmetric; no liveness property is checked in those runs.

Fairness is assumed in three places. `S3Delivery!Fairness`: a running invocation goes on
or is killed (Lambda guarantees the timeout); SQS makes messages visible again and moves
them to the dead-letter queue; and a message that is deliverable again and again is
delivered, which is a strong fairness condition because with all environments busy it is
not deliverable all the time. Nothing is assumed about the outcome of a push.
`AuditIngest!Fairness`: the schedule keeps starting runs and a started run goes on, time
passes, and CloudWatch delivers each event. Pages and failures are not fair; the
failures are bounded by `MaxFaults`. `NodeReader!FairSpec`: Lambda's timeout ends a read
that hangs.

### What the violated runs show

- **EventBridge through SQS** (`s3_events_eventbridge`): `parse_event` looks into an SQS
  body for a `Records` list only. The CloudFormation template of `generic-s3` by default
  routes EventBridge events to the queue; such a body resolves to no message and is
  acknowledged without being read.
- **Rotation** (`loki_push_rotation`): `push` drops its header after a 401, but
  `CredentialProvider.token()` answers from its cache within the TTL, so the second
  attempt carries the same token and its 401 is permanent, against "a 401 triggers an
  immediate re-fetch". `GivesUpOnlyDuringRotation` (proved) says how far that goes: it can
  happen only within a TTL of a rotation.
- **Reset under a decompression** (`object_stall`): `raw.pipe(createGunzip())` forwards no
  error of its source. When the connection of a `.gz` object breaks, the gunzip stream gets
  neither an error nor an end, the `for await` over it waits until Lambda kills the
  function, and the branch that answers "a socket reset, a read timeout, a stream that
  ended early" with a RetryableError is never reached. Uncompressed objects reach it.
- **Refresh after expiry** (`snapshot_race`): `lookup` reads an item that has expired and
  is not yet deleted, DynamoDB deletes it, and `update_item` creates it again with nothing
  but an expiry. The next lookup of that socket raises KeyError before anything is exported,
  for every instance, and `record`'s condition is false for the item, so it stays without
  a user until its new expiry. It takes a socket whose mapping nobody refreshed for a TTL
  and that is open again when the item goes.

Smaller disagreements between comments and code that were met while modelling and have
no run of their own: a direct invocation has no message id, so a failed object is logged and
the invocation succeeds, against "the whole invocation succeeds or fails together"
(`aws/handler.py:274` and `:59`); `ingest` looks at the time between pages and not while it
writes, so a backfill whose writes outlast the reserve is killed before its checkpoint and
starts the same window again, against "instead of timing out" (`audit.py:69` and `:111`;
`WritesFit` is the condition under which `EventuallyKnown` and `BackfillProgresses` hold); a warm container keeps its header past the TTL as long as Loki takes
the old token (`loki.py:182`); a throttled Secrets Manager call leaves `push` as a
RetryableError on the first attempt (`loki.py:245`); the time budget is looked at between
messages, so an invocation can still be killed mid-push (`aws/handler.py:247`);
`pending_at_end` is read after `flush()` and always 0 (`adobe_aem/handler.py:319`); a
flushed response may have had its request in the same object, evicted before it
(`correlate.py:196`); an entry above `max_bytes` leaves with what was buffered before it
(`batching.py:49`); a `.gz` object cut short is retryable to the Python reader and
permanent to the Node one, against "a stream that ended early" (`s3.py:191`, `s3.ts:148` and `:155`);
a request without an answer is permanent to the Node reader, because the error has no status, and
goes through the Python one as it is (`s3.ts:299` and `:318`, `s3.py:164`).

## Proofs

The theorems hold for all values of the constants under the named ASSUMEs of the modules.
Each safety theorem has the same shape: an invariant (checked by TLC first), lemmas
that one action or group of actions keeps a part of it, and a last step by PTL.
The type invariants are proved and therefore in no run.

- `S3DeliveryProofs`. `NoRacing` rests on `WindowAssumption` (the batching window is no
  longer than the function timeout, which the description of `timeout_seconds` asks for):
  `Elapsed` never reaches `Visibility` while an invocation lives, so an inflight message
  of a live invocation stays inflight. `NothingLost` needs more than its own statement:
  *Shipping* (the objects of the current message before `obj`, and the batches of the
  current one before `chunk`, are in Loki unless `bad` is set), *Bookkeeping* (what an
  invocation holds, has left and has reported belong together), *Progress* (a message that is neither in
  `todo` nor reported is shipped; a malformed one is reported) and *Acknowledged* (deleted
  messages are). `OnlyTheGuilty`
  adds *Reasons*: `bad` is set only after an object of the message in hand has raised.
  `FewDuplicates` adds *Allowances*: a delivery buys `PushCopies` copies of each piece of its
  message, a piece is *due* to an invocation while the message waits or the loop has yet to
  reach it, and what is due has not been spent; that no two invocations hold the message
  (`NoRacing`) is what makes the spending add up. `Refines`
  maps each step to `Store`, `Acknowledge`, `Park` or a stutter of `AtLeastOnce`.
- `S3DeliveryProofs`, the push. The invariant of `LokiPush` says that whatever is cached was
  the secret at `expiresAt - Ttl` or later, and the same of an answer on its way. `PushContract`
  bounds what a push leaves in Loki, and `PushFitsDelivery` puts it into the terms of `S3Delivery`:
  a push that returns has left between one and `PushCopies` copies.
- `NodeReaderProofs`. Objects have any length. Lemmas about the operators come first: `FlattenSeq`
  of one, two and equally short parts, `Broken`, `Trimmed` and `Scan` token by token. `RowRead` is
  what they are for: `SplitDelimited` gives back the cells that `Tokens` wrote, quotes and
  delimiters included, for the rows of two cells with no space at either end (`TrimmedWhole`). `ReaderInv` has two halves. *Ledger* counts on the writer's side: record
  `Due(items, i)` of `meant` stands for item `i`, and blank lines are nobody's. *Tracks* is the
  reader's: what it has yielded is the first `Due(items, pos)` records (`Faithful`), the
  header it holds is the one written (`HeaderRead`), it has passed no document it must reject
  (`OnlyGood`), and its outcome fits where it stopped (`Ending`). The two invariants of the runs
  speak of an object that was read to its end, and follow from the halves at `pos = Len(items)`.
  *Tracks* is claimed only of `Regular` content, for which a line of the Node reader is an item
  (`LinesAre`); that is the precondition `RecordsExact` has.
- `NodePushProofs`. The same two properties for any number of concurrent pushes. The
  invariant splits into what is *Shared* (the cache never outlives its token by a TTL,
  whichever call filled it last) and what holds of *Each* push; a push's header of a later
  attempt is fresh whoever's answer it was.
- `AemPartsProofs`, the correlator. `Entries` ties each buffer entry to an unpaired line of its
  key and direction; with it `NoLineLost` and `PairsSound` are inductive.
  `PartnersAreNearest` adds *Latest*: no request of its key was read after what a buffer holds.
  `AllArePaired` adds *Alone*: while nothing was evicted, a line that is alone with its
  key and direction is paired with its counterpart or still in its buffer.
  `CountersAddUp` counts: each step moves one response from "read" to "held", "paired" or
  "given up". `Move` describes all reading actions at once, so these three arguments have
  a case per effect and not per action.
- `AemPartsProofs`, the batcher. Lemmas about the operators first: `Ranked` puts a finite set in order,
  each member once (`RankedLists`); sums over the buffer exist and grow by one entry; `GroupBy`
  and `Sorted` put each line of a batch into one place (`Carries`). The invariant, `BatchInv`, says
  where the batches *cut* what was yielded: there is a non-decreasing `cut`, batch `n` is sound and
  holds entries `cut[n - 1] + 1 .. cut[n]`, and the buffer is the rest with its measured size
  below both bounds. `NothingLost` and `Bounded` do not mention the cut and are not inductive
  without it. Induction over the length of a sequence uses the well-foundedness of the
  naturals with a set of numbers in place of a predicate (`NatSetInduction`).
- `AemPartsProofs`, the Node batcher. What Python's operators make is given by an order
  (`Ranked`), what Node's make by a loop, so each loop gets an invariant and the two meet in
  `ListsSame`: a finite set has one list in a strict order. For the Map it is `Gathers`: each
  group holds the runs of its key, in turn, and groups stand in the order of their first
  runs; hence `NodeGroupIs`. For the sort it is `Sorting`: the lines put in so far stand by
  time, and by place where times are equal, since the comparator sends a later line past its
  equals; hence `NodeSortIs`, which says that a comparator that never returns 0 still gives
  Python's stable sort. `BatchesAlike` puts the two together, and `AlikeOf` follows the batcher
  itself: while the object is drained, the Node batcher holds the buffer and the count of the
  Python one, and has shipped what was pushed. It uses `BatchInv`, which says that what is
  buffered has times to sort by.
- `AemObjectProofs`. `AemCorrelates`: each step of the composed pipeline is a step of
  `RequestCorrelator` or leaves it alone. Everything proved of the correlator is thereby
  true of it inside the generator, whatever the lines hold; the theorems beside it say so
  for each property. The rest follows from `AemInv`, an invariant of the whole pipeline.
  `Core` is what the correlator's theorems give; `Source`: the lines read are lines of the
  object; `Queue`: what the correlator returned waits in `out` or has been yielded, once;
  `BatchInv` as above; `Aged`: no stamp is further back than the deployment allows. On this base
  stand `Made` (an entry has the labels and metadata of its own line, and those of its
  partner where the correlator paired it), `Typed` (the correlator saw the direction and key the
  parser found) and `Closing` (after the end only responses come out, and the counter of lines
  that did not parse is their number). `AemLosesNothing`, `AemBatchesAreBounded` and
  `AemPayloadsAreSound` carry `BatchInv` over; `AemShipsWhole` joins the cut to `Made` and
  `PairsSound`; `AemCountersMatch` counts the entries of the batches and of the correlator and shows
  the numbers equal; `AemStreamsAreBounded` goes through the parsers, whose levels are among the
  known words for every line; `AemPushesAreRecent` adds the clock to `Aged`; `AemLibrariesShipAlike` adds
  `Alike`, with `Unopened` for an object that is skipped.
  `AemAssumption` is what the handler's configuration and Lambda give (an age limit leaves room for
  an invocation, stamps and sizes are numbers), `LabelsAssumption` that the static labels
  are valid and leave room for the handler's own, without which every push is refused.
- `NodeEventsProofs`. `ListedHolds`: picking the positions of a finite set in their order loses
  none and repeats none. With it `ObjectsAtFacts` and `BodyFacts` say which objects a list of records
  and an SQS body give, and `ParsedFacts` which messages an event. `EventInv` says what a sender may put in an event: well-formed
  records, numbered bodies. `CreationRead`: what S3 writes of a creation is read, its key unescaped. `InventsNothing` holds of every event; `DropsNothing` has
  the premise that no queued body is an EventBridge event, which `s3_events_eventbridge`
  shows to be needed. `ParsesAgree`: after each record the Node loop holds what Python makes
  of the records so far (`Prefix`). `OutcomesAgree`: turn by turn the two loops over the messages
  have reported and processed the same, and where only Python has noticed that time is up, Node
  will at the next message that is not malformed (`Alike`). `OddIsApart` goes through the forms of a record: the
  libraries read the odd ones apart, and only these. `LibrariesAgree` puts them
  together. Its premise is `ConfigsAgree`, a formula over tables of spellings without
  constants or variables, which the run evaluates in full; the provers do not know `:>` and `@@`.
- `AuditIngestProofs`. The invariant says what a run has walked past (`Walked`): every
  event in the window before `win.at`, the overlap apart, is in the table or in `latest`, or one
  of its socket with a ts as new (`NewestIsNewest` for a page).
  An event not readable when its page was read is younger than `MaxLag`, and
  `LagAssumption` (`MaxLag <= Overlap`) puts it into the overlap. `Saved` and `Begun` say
  that a window starts where the last one committed. From these, `NoneSkipped`,
  `ResumeSkipsNothing`, `StoreTruthful` and the action property `NeverBackwards` follow.
- `ConnectionSnapshotProofs`. `OpenKeepsMapping` needs an invariant that follows an instance
  through a run. `Bounds`: no instance was last visited longer than `Outage` ago. `Order`:
  an event not yet read is not newer than the open connection. `Visiting`: during a lookup
  every mapped connection of the instance is among those listed. `Lagging`: an item that
  differs from what `BatchGetItem` may still return was written by this run, so it has a
  whole TTL before it and needs no refresh. `Refreshing`: the item of a mapped connection is
  left to refresh or has half a TTL before it. `Extended`, the heart: a mapping in use
  expires no earlier than the next visit is due, unless a run died. With
  `OutageAssumption` neither `Expire` nor a later `record` can then take it.
  `Truth`, for what a snapshot shows, relates three tables: the one the run found (`before`,
  which a stale read may still show), the one there is, and the connections. `Own`: an item
  of a connection's own time has its user, and no item is newer than its connection. `Held`:
  what the run found and has not expired is still there, or something newer is. `Shown`:
  what was found mapped and open is counted once its instance is done. `NoneLeftOut` and
  `OwnName` follow. `RunImplements` shows that `DocdbRun` takes only the steps of
  `ConnectionSnapshot`, so that all of this holds of it, and `WholeSnapshot` adds `ExportInv`:
  a connection at hand that the run found mapped is the one that was listed
  (`SameConnection`, because a port is not opened twice at one time), every counted socket has
  a series with its instance and, where known, its user (`Grouped`), and as long as no instance
  gave or refused the roles, each one listed has failed to (`Asked`).

Only model-checked are `EventuallySettled`, `EventuallyKnown` and `BackfillProgresses`,
because liveness under fairness is out of the prover's reach; the last two under
`<>[]WritesFit`, since nothing in the code keeps writes within the reserve.

## Not modelled

- Text itself: regular expressions, calendar arithmetic, character encodings and line terminators,
  the grammar of label names. A form, a stamp or a token stands for them.
- The bytes of a payload and their compression, OTLP encoding, HTTP details.
- The layout of log lines, tracebacks and timestamps in them.
- Static tokens, the Python `invalidate()` (nothing calls it), and the credential of the
  OTLP export, a single call of the provider modelled in `LokiPush`.
- The cached MongoClients of the docdb function, which carry no result from one run to
  the next, and the number of audit events it exports.
- IAM, networks and the other cloud resources: declarations. The settings that govern
  delivery (timeouts, visibility, redrive, batch size and window) are in `S3Delivery`.
- The developer tools, release scripts, load generators and dashboards: programs that run
  once over files and keep nothing.

`PROJECT.json` gives the reason for each component.
