----------------------------- MODULE NodeEvents ------------------------------
(***************************************************************************)
(* The Node library's parseEvent and processMessages beside the Python     *)
(* ones, on every event S3Events builds.  Source: common/nodejs/src/aws/   *)
(* handler.ts, and process_messages in the Python handler.py.  ClientConfig*)
(* has what each library makes of a deployment.                            *)
(***************************************************************************)
EXTENDS S3Events, ClientConfig

\* decodeURIComponent after every plus has become a space.
NodeUnquote(key) ==
  LET spaced == [i \in DOMAIN key |-> IF key[i] = "+" THEN " " ELSE key[i]]
      escape == [t \in {"%2B", "%25"} |-> IF t = "%2B" THEN "+" ELSE "%"]
  IN  [i \in DOMAIN key |-> IF spaced[i] \in DOMAIN escape THEN escape[spaced[i]] ELSE spaced[i]]

\* `=== undefined`: a bucket of '' or null is one.
NodeBucket(form) == IF form = "emptyBucket" THEN "" ELSE "bucket"

\* objectFromS3Record: undefined for a removal or without bucket or key.
NodeObject(r) ==
  IF r.src = "other" \/ r.name = "ObjectRemoved" \/ r.form \notin KeyedForms THEN NoObject
  ELSE [bucket |-> NodeBucket(r.form), key |-> NodeUnquote(r.key)]

\* It raises: null has no `replace`, and a percent sign must begin an escape.
NodeRaises(r) ==
  /\ r.name # "ObjectRemoved"
  /\ \/ r.form = "nullKey"
     \/ r.form \in KeyedForms /\ \E i \in DOMAIN r.key : r.key[i] = "%"

\* The objects of a body: records that name none are filtered out.
NodeObjects(body) ==
  IF body.shape # "notification" THEN <<>>
  ELSE LET object == [i \in DOMAIN body.records |-> NodeObject(body.records[i])]
       IN  Listed(object, {i \in DOMAIN object : object[i] # NoObject})

\* Mutant: a body that is not an object is passed over with `continue`.
SqsOrContinue(messages, r) ==
  IF r.body.shape \in {"notString", "notJson"} \/ NodeObjects(r.body) # <<>>
  THEN Append(messages, [objects |-> NodeObjects(r.body), id |-> r.id]) ELSE messages

\* The body of the loop for an SQS record.
NodeSqs(messages, r) ==
  IF r.body.shape \in {"notString", "notJson", "notObject"} \/ NodeObjects(r.body) # <<>>
  THEN Append(messages, [objects |-> NodeObjects(r.body), id |-> r.id]) ELSE messages

NodeRecord(acc, r) ==
  IF r.src = "sqs" THEN [acc EXCEPT !.messages = NodeSqs(@, r)]
  ELSE IF NodeObject(r) = NoObject THEN acc
  ELSE [acc EXCEPT !.direct = Append(@, NodeObject(r))]

\* parseEvent: one pass, the direct objects last.
NodeParse(records) ==
  LET after[n \in 0 .. Len(records)] ==
        IF n = 0 THEN [messages |-> <<>>, direct |-> <<>>] ELSE NodeRecord(after[n - 1], records[n])
      end == after[Len(records)]
  IN  IF end.direct = <<>> THEN end.messages
      ELSE Append(end.messages, [objects |-> end.direct, id |-> NoId])

\* The same for an event EventBridge sends to the function itself: only a
\* creation is read, any other "Object ..." event is ignored.  A key of null is one.
NodeEventBridge(detailType, block) ==
  LET object == [bucket |-> NodeBucket(block.form),
                 key |-> IF block.form = "nullKey" THEN <<"null">> ELSE block.key]
  IN  IF detailType = "Object Created" /\ block.form \in KeyedForms \cup {"nullKey"}
      THEN <<[objects |-> <<object>>, id |-> NoId]>> ELSE <<>>

NodeParseRaises(records) ==
  \E i \in DOMAIN records : \E r \in S3RecordsOf(records[i]) : NodeRaises(r)

-----------------------------------------------------------------------------
\* process_messages when the objects `failing` fail and the time budget is
\* reached after `late` messages.  An id is reported when there is one.
Report(acc, m) == IF m.id = NoId THEN acc ELSE [acc EXCEPT !.failed = Append(@, m.id)]

Work(acc, m, failing) ==
  LET bad  == {i \in DOMAIN m.objects : m.objects[i] \in failing}
      done == [acc EXCEPT !.processed = @ + Len(m.objects) - Cardinality(bad)]
  IN  IF bad = {} THEN done ELSE Report(done, m)

IsMalformed(m) == m.id # NoId /\ m.objects = <<>>

\* One message, and the next: the clock is read before the message is looked at.
PythonMessage(acc, m, late, failing) ==
  IF acc.late \/ acc.checked >= late THEN [Report(acc, m) EXCEPT !.late = TRUE]
  ELSE IF IsMalformed(m) THEN [Report(acc, m) EXCEPT !.checked = @ + 1]
  ELSE [Work(acc, m, failing) EXCEPT !.checked = @ + 1]

\* A malformed message is reported before the clock is read.
NodeMessage(acc, m, late, failing) ==
  IF acc.late THEN Report(acc, m)
  ELSE IF IsMalformed(m) THEN [Report(acc, m) EXCEPT !.checked = @ + 1]
  ELSE IF acc.checked >= late THEN [Report(acc, m) EXCEPT !.late = TRUE]
  ELSE [Work(acc, m, failing) EXCEPT !.checked = @ + 1]

Message(library, acc, m, late, failing) ==
  IF library = "python" THEN PythonMessage(acc, m, late, failing) ELSE NodeMessage(acc, m, late, failing)

Start == [failed |-> <<>>, processed |-> 0, late |-> FALSE, checked |-> 0]

\* What is reported, and how many objects went through.
Outcome(library, messages, late, failing) ==
  LET after[n \in 0 .. Len(messages)] ==
        IF n = 0 THEN Start ELSE Message(library, after[n - 1], messages[n], late, failing)
  IN  <<after[Len(messages)].failed, after[Len(messages)].processed>>

-----------------------------------------------------------------------------
(* Neither S3 nor EventBridge writes a bucket or key of '' or null, a null  *)
(* block, or a percent sign that begins no escape; the libraries read each *)
(* of these apart, and only these.                                         *)

OddBlock(b) ==
  \/ b.form \in {"emptyBucket", "nullKey", "nullBlock"}
  \/ b.form = "given" /\ b.key = <<>>

Odd(r) ==
  /\ r.name # "ObjectRemoved"
  /\ \/ OddBlock(r)
     \/ r.form = "given" /\ \E i \in DOMAIN r.key : r.key[i] = "%"

\* One raises where the other does not, or they make other objects of it.
ReadApart(r) ==
  \/ Raises(r) # NodeRaises(r)
  \/ ~ Raises(r) /\ ObjectFromS3Record(r) # NodeObject(r)

OddReadApart == \A r \in S3Record : Odd(r) <=> ReadApart(r)

\* The same of events EventBridge sends to the function itself.
OddBridged ==
  \A r \in S3Record :
    OddBlock(r) <=> \/ r.form = "nullBlock"
                    \/ ParseEventBridge("Object Created", r) # NodeEventBridge("Object Created", r)

Plainly(records) == \A i \in DOMAIN records : \A r \in S3RecordsOf(records[i]) : ~ Odd(r)

\* The two libraries make the same work of every event without the odd records
\* above, raise on none, and report the same messages for it whichever objects
\* fail and whenever the time runs out; and they take the same deployments, as far
\* as those are plainly spelled: a handler may be ported without changing what SQS
\* redelivers.
RuntimesAgree ==
  LET messages == Parsed
  IN  /\ ConfigsAgree /\ OddReadApart /\ OddBridged
      /\ Plainly(event) =>
           /\ ~ ParseRaises(event) /\ ~ NodeParseRaises(event)
           /\ NodeParse(event) = messages
           /\ \A late \in 0 .. Len(messages) :
                \A failing \in SUBSET UNION {Range(messages[j].objects) : j \in DOMAIN messages} :
                  Outcome("node", messages, late, failing) = Outcome("python", messages, late, failing)
=============================================================================
