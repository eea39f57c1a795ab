----------------------------- MODULE S3Delivery ------------------------------
(***************************************************************************)
(* The S3-to-Loki pipeline: an SQS queue (or an asynchronous invocation)   *)
(* delivers notifications to Lambda environments; lambda_handler parses    *)
(* the event, process_messages walks the messages, ship_object reads each  *)
(* object and pushes it batch by batch, and the response tells SQS which   *)
(* messages to deliver again.  Source: common/python/src/                  *)
(* grafana_cloud_common/aws/handler.py and examples/generic-s3/src/        *)
(* generic_s3/handler.py; the queue is modelled from the settings in       *)
(* common/terraform/modules/s3-event-source/main.tf.                       *)
(*                                                                         *)
(* Time is a budget per invocation.  Every read-and-push step takes 1 to   *)
(* StepMax units; what is left is looked at only where the code looks.     *)
(***************************************************************************)
EXTENDS Naturals, Sequences, FiniteSets

CONSTANTS
  Messages,    \* notifications sent by the bucket
  Direct,      \* those delivered by invoking the function, with no SQS id
  Workers,     \* Lambda execution environments
  Objects,     \* S3 objects
  Kind,        \* what parse_event makes of a notification, see Kinds
  ObjectsOf,   \* the objects a notification names, in order
  Chunks,      \* batches drain() cuts each object into; 0 when it is skipped
  BatchSize,   \* batch_size of the event source mapping
  MaxReceives, \* deliveries before a notification is parked
  Timeout,     \* the function timeout
  BatchWindow, \* maximum_batching_window_in_seconds of the event source mapping
  TimeBudget,  \* time_budget_ms of process_messages
  StepMax,     \* the longest read-and-push step, retries included
  PushCopies,  \* how many times one push may be accepted (retries after a lost answer)
  NoMessage

\* "work": objects to ship; "skip": parsed to no message at all (test event,
\* removal); "malformed": an SQS body that is not a JSON object; "unknown": an
\* event parse_event raises on.  No notification S3 writes is one, so a direct
\* invocation carries it.
Kinds == {"work", "skip", "malformed", "unknown"}

ASSUME DeliveryAssumption ==
  /\ IsFiniteSet(Messages) /\ NoMessage \notin Messages
  /\ Direct \subseteq Messages
  /\ Kind \in [Messages -> Kinds]
  /\ ObjectsOf \in [Messages -> Seq(Objects)]
  /\ \A m \in Messages : Kind[m] = "malformed" => m \notin Direct
  /\ \A m \in Messages : Kind[m] = "unknown" => m \in Direct
  /\ Chunks \in [Objects -> Nat]
  /\ BatchSize \in Nat \ {0} /\ MaxReceives \in Nat \ {0}
  /\ Timeout \in Nat \ {0} /\ TimeBudget \in Nat
  /\ StepMax \in Nat \ {0} /\ PushCopies \in Nat \ {0}

\* "Must be at least the source queue's batch window plus headroom"
\* (lambda-function/variables.tf, timeout_seconds).
ASSUME WindowAssumption == BatchWindow \in Nat /\ BatchWindow <= Timeout

\* Mutant: the queue hides a message for one function timeout only.
VisibilityBare == Timeout

\* visibility_timeout_seconds of the queue.
Visibility == 6 * Timeout

\* A piece is one batch of one object.
Pieces == UNION {{<<o, c>> : c \in 1 .. Chunks[o]} : o \in Objects}

\* The pieces notification m names.
PiecesOf(m) ==
  UNION {{<<ObjectsOf[m][i], c>> : c \in 1 .. Chunks[ObjectsOf[m][i]]} :
            i \in DOMAIN ObjectsOf[m]}

VARIABLES
  status,    \* queue state of each notification
  receives,  \* ApproximateReceiveCount
  pc,        \* of each worker: "idle", "scan" (between messages) or "ship"
  batch,     \* the messages of the invocation
  todo,      \* the parsed messages process_messages has not reached
  late,      \* out_of_time
  left,      \* what get_remaining_time_in_millis would return
  msg,       \* the message being processed
  obj,       \* index of its object being shipped
  chunk,     \* next batch of that object to push
  bad,       \* the local flag `failed`
  failed,    \* outcome.failed_message_ids
  faulted,   \* history: messages one of whose objects raised in this invocation
  copies     \* how often Loki accepted each piece

queueVars == <<status, receives>>
workVars  == <<msg, obj, chunk, bad>>                           \* of one message
runVars   == <<pc, batch, todo, late, left, failed, faulted>>   \* of one invocation
vars == <<queueVars, workVars, runVars, copies>>

Settled(m) == status[m] \in {"deleted", "dead"}

Init ==
  /\ status   = [m \in Messages |-> "visible"]
  /\ receives = [m \in Messages |-> 0]
  /\ pc       = [w \in Workers |-> "idle"]
  /\ batch    = [w \in Workers |-> {}]
  /\ todo     = [w \in Workers |-> {}]
  /\ late     = [w \in Workers |-> FALSE]
  /\ left     = [w \in Workers |-> 0]
  /\ msg      = [w \in Workers |-> NoMessage]
  /\ obj      = [w \in Workers |-> 1]
  /\ chunk    = [w \in Workers |-> 1]
  /\ bad      = [w \in Workers |-> FALSE]
  /\ failed   = [w \in Workers |-> {}]
  /\ faulted  = [w \in Workers |-> {}]
  /\ copies   = [p \in Pieces |-> 0]

-----------------------------------------------------------------------------
(* The queue and the invocation service.                                   *)

\* A delivery is a batch of SQS messages, or one asynchronous invocation.
Deliverable(B) ==
  /\ B # {}
  /\ \A m \in B : status[m] = "visible" /\ receives[m] < MaxReceives
  /\ \/ B \cap Direct = {} /\ Cardinality(B) <= BatchSize
     \/ \E m \in Direct : B = {m}

\* An invocation starts: parse_event runs over the whole batch at once and
\* drops the records that resolve to no message.
Receive(w, B) ==
  /\ pc[w] = "idle"
  /\ Deliverable(B)
  /\ status'   = [m \in Messages |-> IF m \in B THEN "inflight" ELSE status[m]]
  /\ receives' = [m \in Messages |-> IF m \in B THEN receives[m] + 1 ELSE receives[m]]
  /\ pc'       = [pc EXCEPT ![w] = "scan"]
  /\ batch'    = [batch EXCEPT ![w] = B]
  /\ todo'     = [todo EXCEPT ![w] = {m \in B : Kind[m] # "skip"}]
  /\ left'     = [left EXCEPT ![w] = Timeout]
  /\ UNCHANGED <<workVars, late, failed, faulted, copies>>

\* The locals of an invocation and of its message go with it.
EndInvocation(w) ==
  /\ pc'      = [pc EXCEPT ![w] = "idle"]
  /\ batch'   = [batch EXCEPT ![w] = {}]
  /\ todo'    = [todo EXCEPT ![w] = {}]
  /\ late'    = [late EXCEPT ![w] = FALSE]
  /\ left'    = [left EXCEPT ![w] = 0]
  /\ failed'  = [failed EXCEPT ![w] = {}]
  /\ faulted' = [faulted EXCEPT ![w] = {}]

EndMessage(w) ==
  /\ msg'   = [msg EXCEPT ![w] = NoMessage]
  /\ obj'   = [obj EXCEPT ![w] = 1]
  /\ chunk' = [chunk EXCEPT ![w] = 1]
  /\ bad'   = [bad EXCEPT ![w] = FALSE]

\* How long ago SQS handed over the messages of the invocation, at most: they
\* wait for the batching window before it starts.
Elapsed(w) == BatchWindow + Timeout - left[w]

\* The visibility timeout runs whether or not an invocation still holds the
\* message; one that is over may have ended any time ago.
VisibilityTimeout(m) ==
  /\ status[m] = "inflight"
  /\ \A w \in Workers : m \in batch[w] => Elapsed(w) >= Visibility
  /\ status' = [status EXCEPT ![m] = "visible"]
  /\ UNCHANGED <<receives, workVars, runVars, copies>>

\* Mutant: an off-by-one in the redrive policy.
ParkAfter(m) ==
  /\ status[m] = "visible"
  /\ receives[m] > MaxReceives
  /\ status' = [status EXCEPT ![m] = "dead"]
  /\ UNCHANGED <<receives, workVars, runVars, copies>>

\* The redrive policy: the next receive would exceed maxReceiveCount.  An
\* asynchronous event whose retries are spent is discarded in the same way.
Park(m) ==
  /\ status[m] = "visible"
  /\ receives[m] = MaxReceives
  /\ status' = [status EXCEPT ![m] = "dead"]
  /\ UNCHANGED <<receives, workVars, runVars, copies>>

-----------------------------------------------------------------------------
(* process_messages.                                                       *)

\* Only a message with an id can be reported.
Report(w, m) == failed[w] \cup ({m} \ Direct)

\* parse_event raises on an event of unknown shape: the invocation errors.
RejectEvent(w) ==
  /\ pc[w] = "scan"
  /\ \E m \in todo[w] : Kind[m] = "unknown"
  /\ EndInvocation(w)
  /\ UNCHANGED <<queueVars, workVars, copies>>

\* Out of time, noticed now or for an earlier message: report it unprocessed.
SkipLate(w, m) ==
  /\ pc[w] = "scan" /\ m \in todo[w] /\ Kind[m] # "unknown"
  /\ late[w] \/ left[w] < TimeBudget
  /\ late'   = [late EXCEPT ![w] = TRUE]
  /\ failed' = [failed EXCEPT ![w] = Report(w, m)]
  /\ todo'   = [todo EXCEPT ![w] = @ \ {m}]
  /\ UNCHANGED <<queueVars, workVars, pc, batch, left, faulted, copies>>

\* Mutant: a malformed record is passed over, not reported.
FailMalformedSilently(w, m) ==
  /\ pc[w] = "scan" /\ m \in todo[w] /\ Kind[m] = "malformed"
  /\ ~late[w] /\ left[w] >= TimeBudget
  /\ todo' = [todo EXCEPT ![w] = @ \ {m}]
  /\ UNCHANGED <<queueVars, workVars, pc, batch, late, left, failed, faulted, copies>>

\* Mutant: a malformed record ends the loop and fails what is left of the batch.
FailMalformedAndRest(w, m) ==
  /\ pc[w] = "scan" /\ m \in todo[w] /\ Kind[m] = "malformed"
  /\ ~late[w] /\ left[w] >= TimeBudget
  /\ failed' = [failed EXCEPT ![w] = @ \cup (todo[w] \ Direct)]
  /\ todo'   = [todo EXCEPT ![w] = {}]
  /\ UNCHANGED <<queueVars, workVars, pc, batch, late, left, faulted, copies>>

\* An id and no objects: a malformed record, never acknowledged.
FailMalformed(w, m) ==
  /\ pc[w] = "scan" /\ m \in todo[w] /\ Kind[m] = "malformed"
  /\ ~late[w] /\ left[w] >= TimeBudget
  /\ failed' = [failed EXCEPT ![w] = Report(w, m)]
  /\ todo'   = [todo EXCEPT ![w] = @ \ {m}]
  /\ UNCHANGED <<queueVars, workVars, pc, batch, late, left, faulted, copies>>

StartMessage(w, m) ==
  /\ pc[w] = "scan" /\ m \in todo[w] /\ Kind[m] = "work"
  /\ ~late[w] /\ left[w] >= TimeBudget
  /\ pc'  = [pc EXCEPT ![w] = "ship"]
  /\ msg' = [msg EXCEPT ![w] = m]
  /\ UNCHANGED <<queueVars, obj, chunk, bad, batch, todo, late, left, failed, faulted, copies>>

InObjects(w) == pc[w] = "ship" /\ obj[w] <= Len(ObjectsOf[msg[w]])
Object(w)    == ObjectsOf[msg[w]][obj[w]]
Piece(w)     == <<Object(w), chunk[w]>>

\* Loki accepts the piece in hand n times.
Accept(w, n) ==
  copies' = IF n = 0 THEN copies ELSE [copies EXCEPT ![Piece(w)] = @ + n]

\* push() returns: the batch was accepted, perhaps more than once.
ShipChunk(w) ==
  /\ InObjects(w) /\ chunk[w] <= Chunks[Object(w)]
  /\ \E n \in 1 .. PushCopies : Accept(w, n)
  /\ \E d \in 1 .. StepMax : d <= left[w] /\ left' = [left EXCEPT ![w] = @ - d]
  /\ chunk' = [chunk EXCEPT ![w] = @ + 1]
  /\ UNCHANGED <<queueVars, msg, obj, bad, pc, batch, todo, late, failed, faulted>>

\* Mutant: the object is tried again from its start within the invocation.
FailObjectRestarts(w) ==
  /\ InObjects(w) /\ Chunks[Object(w)] > 0 /\ chunk[w] <= Chunks[Object(w)] + 1
  /\ \E n \in 0 .. (IF chunk[w] <= Chunks[Object(w)] THEN PushCopies ELSE 0) : Accept(w, n)
  /\ \E d \in 1 .. StepMax : d <= left[w] /\ left' = [left EXCEPT ![w] = @ - d]
  /\ bad'     = [bad EXCEPT ![w] = TRUE]
  /\ faulted' = [faulted EXCEPT ![w] = @ \cup {msg[w]}]
  /\ chunk'   = [chunk EXCEPT ![w] = 1]
  /\ UNCHANGED <<queueVars, msg, obj, pc, batch, todo, late, failed>>

\* The read or the push raises: the object is abandoned where it stands and the
\* loop goes on with the next one.  A push that gave up may still have been
\* accepted; a read can fail after the last full batch went out.
FailObject(w) ==
  /\ InObjects(w) /\ Chunks[Object(w)] > 0 /\ chunk[w] <= Chunks[Object(w)] + 1
  /\ \E n \in 0 .. (IF chunk[w] <= Chunks[Object(w)] THEN PushCopies ELSE 0) : Accept(w, n)
  /\ \E d \in 1 .. StepMax : d <= left[w] /\ left' = [left EXCEPT ![w] = @ - d]
  /\ bad'     = [bad EXCEPT ![w] = TRUE]
  /\ faulted' = [faulted EXCEPT ![w] = @ \cup {msg[w]}]
  /\ obj'     = [obj EXCEPT ![w] = @ + 1]
  /\ chunk'   = [chunk EXCEPT ![w] = 1]
  /\ UNCHANGED <<queueVars, msg, pc, batch, todo, late, failed>>

\* Mutant: `failed` is reset for each object instead of each message.
FinishObjectForgets(w) ==
  /\ InObjects(w) /\ chunk[w] > Chunks[Object(w)]
  /\ obj'   = [obj EXCEPT ![w] = @ + 1]
  /\ chunk' = [chunk EXCEPT ![w] = 1]
  /\ bad'   = [bad EXCEPT ![w] = FALSE]
  /\ UNCHANGED <<queueVars, msg, runVars, copies>>

FinishObject(w) ==
  /\ InObjects(w) /\ chunk[w] > Chunks[Object(w)]
  /\ obj'   = [obj EXCEPT ![w] = @ + 1]
  /\ chunk' = [chunk EXCEPT ![w] = 1]
  /\ UNCHANGED <<queueVars, msg, bad, runVars, copies>>

FinishMessage(w) ==
  /\ pc[w] = "ship" /\ obj[w] > Len(ObjectsOf[msg[w]])
  /\ failed' = [failed EXCEPT ![w] = IF bad[w] THEN Report(w, msg[w]) ELSE @]
  /\ todo'   = [todo EXCEPT ![w] = @ \ {msg[w]}]
  /\ pc'     = [pc EXCEPT ![w] = "scan"]
  /\ EndMessage(w)
  /\ UNCHANGED <<queueVars, batch, late, left, faulted, copies>>

\* Mutant: the event source mapping ignores the partial batch response.
ReturnWhole(w) ==
  /\ pc[w] = "scan" /\ todo[w] = {}
  /\ status' = [m \in Messages |-> IF m \in batch[w] THEN "deleted" ELSE status[m]]
  /\ EndInvocation(w)
  /\ UNCHANGED <<receives, workVars, copies>>

\* The response: SQS deletes what was not reported and lets the rest become
\* visible again.  A direct invocation that returns is a success.
Return(w) ==
  /\ pc[w] = "scan" /\ todo[w] = {}
  /\ status' = [m \in Messages |->
                  IF m \in batch[w] \ failed[w] THEN "deleted" ELSE status[m]]
  /\ EndInvocation(w)
  /\ UNCHANGED <<receives, workVars, copies>>

\* The function timeout strikes during a step that outlasts what is left (the
\* push in hand may already have been accepted), or between steps when nothing
\* is left.  There is no response.
TimeoutKill(w) ==
  /\ \/ /\ InObjects(w) /\ chunk[w] <= Chunks[Object(w)] /\ left[w] < StepMax
        /\ \E n \in 0 .. PushCopies : Accept(w, n)
     \/ /\ pc[w] # "idle" /\ left[w] = 0
        /\ UNCHANGED copies
  /\ EndInvocation(w)
  /\ EndMessage(w)
  /\ UNCHANGED queueVars

Work(w) ==
  \/ RejectEvent(w)
  \/ \E m \in Messages : SkipLate(w, m) \/ FailMalformed(w, m) \/ StartMessage(w, m)
  \/ ShipChunk(w) \/ FailObject(w) \/ FinishObject(w) \/ FinishMessage(w)
  \/ Return(w)

Next ==
  \/ \E w \in Workers, B \in SUBSET Messages : Receive(w, B)
  \/ \E m \in Messages : VisibilityTimeout(m) \/ Park(m)
  \/ \E w \in Workers : Work(w) \/ TimeoutKill(w)

\* A running invocation goes on or is killed; SQS returns, parks and delivers
\* messages eventually, a message being deliverable only now and then because
\* the environments are busy with others.
Fairness ==
  /\ \A w \in Workers : WF_vars(Work(w) \/ TimeoutKill(w))
  /\ \A m \in Messages :
       /\ WF_vars(VisibilityTimeout(m))
       /\ WF_vars(Park(m))
       /\ SF_vars(\E w \in Workers, B \in SUBSET Messages : m \in B /\ Receive(w, B))

Spec == Init /\ [][Next]_vars
FairSpec == Spec /\ Fairness

-----------------------------------------------------------------------------
(* Properties.                                                             *)

\* Every variable has its type.
TypeOK ==
  /\ status \in [Messages -> {"visible", "inflight", "deleted", "dead"}]
  /\ receives \in [Messages -> 0 .. MaxReceives]
  /\ pc \in [Workers -> {"idle", "scan", "ship"}]
  /\ batch \in [Workers -> SUBSET Messages]
  /\ todo \in [Workers -> SUBSET Messages]
  /\ late \in [Workers -> BOOLEAN]
  /\ left \in [Workers -> 0 .. Timeout]
  /\ msg \in [Workers -> Messages \cup {NoMessage}]
  /\ obj \in [Workers -> Nat \ {0}]
  /\ chunk \in [Workers -> Nat \ {0}]
  /\ bad \in [Workers -> BOOLEAN]
  /\ failed \in [Workers -> SUBSET Messages]
  /\ faulted \in [Workers -> SUBSET Messages]
  /\ copies \in [Pieces -> Nat]

\* A queue message is deleted only once Loki has accepted every batch of every
\* object it names, whatever failed, was skipped for time or was killed around
\* it (process_messages reports every other message as failed); and a malformed
\* one never, on any path through the loop: it can only end in the dead-letter
\* queue.
DeletedMeansShipped ==
  \A m \in Messages \ Direct :
    status[m] = "deleted" =>
      /\ Kind[m] # "malformed"
      /\ Kind[m] = "work" => \A p \in PiecesOf(m) : copies[p] > 0

\* No two invocations ever hold the same message, so a retried invocation does
\* not race a redelivery (the visibility timeout outlasts the function).
NoRacingRedelivery ==
  \A w1, w2 \in Workers : w1 # w2 => batch[w1] \cap batch[w2] = {}

\* One bad object does not fail the rest of the batch: every reported message
\* is malformed, had an object of its own raise, or was reported for time.
FailureIsolated ==
  \A w \in Workers : \A m \in failed[w] :
    late[w] \/ Kind[m] = "malformed" \/ m \in faulted[w]

\* What one delivery can store: a piece is pushed at most once per delivery of
\* a message that names it, whichever way the earlier deliveries ended.
Naming(p) == {m \in Messages : p \in PiecesOf(m)}
NamesOnce(m) == \A i, j \in DOMAIN ObjectsOf[m] : ObjectsOf[m][i] = ObjectsOf[m][j] => i = j
DuplicatesBounded ==
  \A p \in Pieces : \A m \in Messages :
    Naming(p) = {m} /\ NamesOnce(m) => copies[p] <= PushCopies * receives[m]

\* Every notification is eventually deleted or parked, however often its
\* deliveries fail or are killed.
EventuallySettled == \A m \in Messages : <>Settled(m)

\* The pipeline keeps the at-least-once promise for every queue message.
Promise == INSTANCE AtLeastOnce WITH
  Owes       <- [m \in Messages |-> IF m \in Direct \/ Kind[m] # "work" THEN {} ELSE PiecesOf(m)],
  Unreadable <- {m \in Messages : Kind[m] = "malformed"},
  outcome    <- [m \in Messages |->
                   CASE status[m] = "deleted" -> "acknowledged"
                     [] status[m] = "dead"    -> "parked"
                     [] OTHER                 -> "pending"],
  stored     <- {p \in Pieces : copies[p] > 0}

\* The refinement as a property of the pipeline.
KeepsPromise == Promise!Spec
=============================================================================
