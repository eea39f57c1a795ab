------------------------------ MODULE S3Events -------------------------------
(***************************************************************************)
(* parse_event: any supported Lambda event becomes a sequence of source    *)
(* messages.  Source: common/python/src/grafana_cloud_common/aws/          *)
(* handler.py and its counterpart common/nodejs/src/aws/handler.ts.        *)
(*                                                                         *)
(* A record of an event is                                                 *)
(*   [src |-> "sqs", id, body]          an SQS record, what its body holds *)
(*   [src |-> "s3", name, form, key]    an S3 notification record          *)
(*   [src |-> "other"]                  something that is not an object    *)
(* name is the event name as far as it is told apart: "Unlisted" stands    *)
(* for every other name, LifecycleExpiration:Delete say, and for none.     *)
(* form is the s3 block: "given" has a bucket and a key; "emptyBucket" a   *)
(* key and a bucket of '' or null; "nullKey" a bucket and a key of null;   *)
(* "incomplete" has no bucket, no key or is missing; in "nullBlock" the    *)
(* bucket or the object is null.  A key is a sequence of tokens, each a    *)
(* character or the escape of one; "%" is a percent sign that begins no    *)
(* escape.                                                                 *)
(* The state machine is the sender: it puts records in the event one by    *)
(* one, so that the runs enumerate every event within the bounds.          *)
(***************************************************************************)
EXTENDS Naturals, Sequences, SequencesExt, FiniteSets

CONSTANTS
  NoObject,     \* a record that names nothing to read
  NoId,         \* message_id of a direct invocation
  Tokens,       \* what keys are written with
  MaxKey,       \* bound on the length of a key
  BodyShapes,   \* the shapes of SQS bodies the sender uses
  MaxRecords,   \* bound on the records of one event
  MaxNamed      \* bound on its notification records, those in bodies included

AllTokens == {"x", "+", "%2B", "%25", "%"}
AllCharacters == {"x", " ", "+", "%"}

AllBodyShapes == {"notString", "notJson", "notObject", "testEvent",
                  "notification", "eventBridge"}

\* unquote_plus, token by token: a stray percent sign is kept.
Unquoted(t) ==
  CASE t = "+"   -> " "
    [] t = "%2B" -> "+"
    [] t = "%25" -> "%"
    [] OTHER     -> t

UnquotePlus(key) == [i \in DOMAIN key |-> Unquoted(key[i])]

\* How S3 writes a key in a notification.
Quoted(c) ==
  CASE c = " " -> "+"
    [] c = "+" -> "%2B"
    [] c = "%" -> "%25"
    [] OTHER   -> c

Quote(key) == [i \in DOMAIN key |-> Quoted(key[i])]

Characters == {Unquoted(t) : t \in Tokens}

S3Objects == [bucket : {"bucket"}, key : SeqOf(Characters, MaxKey) \ {<<>>}]

ASSUME S3EventsAssumption ==
  /\ Tokens \subseteq AllTokens /\ BodyShapes \subseteq AllBodyShapes
  /\ NoObject \notin [bucket : {"bucket", ""}, key : Seq(AllCharacters)]
  /\ NoId \notin Nat
  /\ MaxKey \in Nat /\ MaxRecords \in Nat /\ MaxNamed \in Nat

EventNames == {"ObjectCreated", "ObjectRemoved", "Unlisted"}

\* The forms of an s3 block that have a key.
KeyedForms == {"given", "emptyBucket"}

S3Record ==
  [src : {"s3"}, name : EventNames, form : KeyedForms, key : SeqOf(Tokens, MaxKey)]
    \cup [src : {"s3"}, name : EventNames, form : {"nullKey", "nullBlock", "incomplete"}]

\* _object_from_s3_record raises: None has no `get`.
Raises(r) == r.name # "ObjectRemoved" /\ r.form = "nullBlock"

\* Mutant: removals are not told from the others.
ObjectFromAnyRecord(r) ==
  IF r.form = "given" /\ r.key # <<>>
  THEN [bucket |-> "bucket", key |-> UnquotePlus(r.key)] ELSE NoObject

\* _object_from_s3_record: a removal, or a record without bucket or key, names
\* nothing to read; any other name will do.
ObjectFromS3Record(r) ==
  IF r.name # "ObjectRemoved" /\ r.form = "given" /\ r.key # <<>>
  THEN [bucket |-> "bucket", key |-> UnquotePlus(r.key)] ELSE NoObject

\* What f holds at the positions `at`, in their order.
Listed(f, at) ==
  [n \in 1 .. Cardinality(at) |-> f[CHOOSE i \in at : Cardinality({j \in at : j <= i}) = n]]

\* The objects of the records at the positions `among`.
ObjectsAt(records, among) ==
  LET object == [i \in DOMAIN records |-> IF i \in among THEN ObjectFromS3Record(records[i]) ELSE NoObject]
  IN  Listed(object, {i \in DOMAIN records : object[i] # NoObject})

Malformed(body) == body.shape \in {"notString", "notJson", "notObject"}

\* The objects of a well-formed body: only a "Records" list is looked at, so an
\* EventBridge event inside the body names none.
ObjectsOfBody(body) ==
  IF body.shape = "notification" THEN ObjectsAt(body.records, DOMAIN body.records) ELSE <<>>

\* Mutant: only the first object of a notification is taken.
FirstObjectOfSqs(r) ==
  [objects |-> IF ObjectsOfBody(r.body) = <<>> THEN <<>> ELSE <<Head(ObjectsOfBody(r.body))>>,
   id |-> r.id]

\* The message of an SQS record; a malformed one has no objects.
MessageOfSqs(r) == [objects |-> ObjectsOfBody(r.body), id |-> r.id]

\* A well-formed body without objects makes no message.
MakesMessage(r) == r.src = "sqs" /\ (Malformed(r.body) \/ ObjectsOfBody(r.body) # <<>>)

ParseRecords(records) ==
  LET direct  == ObjectsAt(records, {i \in DOMAIN records : records[i].src = "s3"})
      message == [i \in {k \in DOMAIN records : MakesMessage(records[k])} |-> MessageOfSqs(records[i])]
  IN  Listed(message, DOMAIN message)
        \o (IF direct = <<>> THEN <<>> ELSE <<[objects |-> direct, id |-> NoId]>>)

\* An EventBridge event sent to the function itself; its key is not escaped.
ParseEventBridge(detailType, block) ==
  IF detailType = "Object Created" /\ block.form = "given" /\ block.key # <<>>
  THEN <<[objects |-> <<[bucket |-> "bucket", key |-> block.key]>>, id |-> NoId]>>
  ELSE <<>>

\* The S3 records of an SQS body or any other record.
S3RecordsOf(r) ==
  CASE r.src = "s3"                                     -> {r}
    [] r.src = "sqs" /\ r.body.shape = "notification" -> Range(r.body.records)
    [] OTHER                                            -> {}

\* parse_event raises: the whole event fails, and what SQS sent it sends again.
ParseRaises(records) == \E i \in DOMAIN records : \E r \in S3RecordsOf(records[i]) : Raises(r)

\* The kind of a notification, as the delivery model sees it.
KindOfSqs(body) ==
  IF Malformed(body) THEN "malformed"
  ELSE IF ObjectsOfBody(body) = <<>> THEN "skip" ELSE "work"

-----------------------------------------------------------------------------
VARIABLE event    \* the records put in the event so far

\* The record S3 writes when o is created.
CreationOf(o) ==
  [src |-> "s3", name |-> "ObjectCreated", form |-> "given", key |-> Quote(o.key)]

\* A record reports that o was created, whatever wraps the report.
ReportsCreated(r, o) ==
  \/ CreationOf(o) \in S3RecordsOf(r)
  \/ r.src = "sqs" /\ r.body.shape = "eventBridge" /\ r.body.object = o

\* An S3 record gives the bucket and the key of o, each character of it escaped or
\* as it is.
Gives(r, o) ==
  /\ r.form = "given" /\ o.bucket = "bucket"
  /\ DOMAIN o.key = DOMAIN r.key
  /\ \A i \in DOMAIN r.key : r.key[i] \in {o.key[i], Quoted(o.key[i])}

Inner == SeqOf(S3Record, MaxNamed)

Bodies ==
  [shape : BodyShapes \ {"notification", "eventBridge"}]
    \cup [shape : BodyShapes \cap {"notification"}, records : Inner]
    \cup [shape : BodyShapes \cap {"eventBridge"}, object : S3Objects]

NamedBy(r) ==
  IF r.src = "s3" THEN 1
  ELSE IF r.src = "sqs" /\ r.body.shape = "notification" THEN Len(r.body.records) ELSE 0

Put(r) ==
  /\ FoldLeft(LAMBDA n, q : n + NamedBy(q), NamedBy(r), event) <= MaxNamed
  /\ event' = Append(event, r)

\* SQS numbers its messages; the id is the position.
PutSqs(body) == Put([src |-> "sqs", id |-> Len(event) + 1, body |-> body])

PutOther == Put([src |-> "other"])

Init == event = <<>>

Next ==
  /\ Len(event) < MaxRecords
  /\ \/ \E body \in Bodies : PutSqs(body)
     \/ \E r \in S3Record : Put(r)
     \/ PutOther

Spec == Init /\ [][Next]_event

-----------------------------------------------------------------------------
Parsed == ParseRecords(event)

IdOf(r) == IF r.src = "sqs" THEN r.id ELSE NoId

\* Unless parse_event raises, and the event comes again, every object a record of
\* it reports created is an object of some message, by its own key and under the
\* id of the record that carried it, and every malformed SQS record a message
\* without objects: nothing is dropped on the way from the event to the work.
NothingDropped ==
  ~ ParseRaises(event) =>
    \A i \in DOMAIN event :
      /\ \A o \in S3Objects : ReportsCreated(event[i], o) =>
           \E j \in DOMAIN Parsed : o \in Range(Parsed[j].objects) /\ Parsed[j].id = IdOf(event[i])
      /\ event[i].src = "sqs" /\ Malformed(event[i].body) =>
           \E j \in DOMAIN Parsed : Parsed[j] = [objects |-> <<>>, id |-> event[i].id]

\* Nothing is invented: each object of a message is one whose bucket and key a
\* record under that id gives, without reporting it removed, and a message without
\* objects is a malformed SQS record.  An expiration is not told from a creation
\* and is read: _IGNORED_EVENT_PREFIXES has removals only.
NothingInvented ==
  \A j \in DOMAIN Parsed :
    IF Parsed[j].objects = <<>>
    THEN \E i \in DOMAIN event : event[i].src = "sqs" /\ event[i].id = Parsed[j].id
                                 /\ Malformed(event[i].body)
    ELSE \A o \in Range(Parsed[j].objects) :
           \E i \in DOMAIN event :
             /\ Parsed[j].id = IdOf(event[i])
             /\ \E r \in S3RecordsOf(event[i]) : r.name # "ObjectRemoved" /\ Gives(r, o)
=============================================================================
