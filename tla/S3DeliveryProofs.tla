-------------------------- MODULE S3DeliveryProofs ---------------------------
(***************************************************************************)
(* Proofs about S3Delivery for every value of its constants: the types, no *)
(* racing redelivery, and the at-least-once promise, for which the         *)
(* inductive invariant relates what each invocation has walked past to     *)
(* what Loki has accepted.                                                 *)
(***************************************************************************)
EXTENDS S3Delivery, LokiPush, TLAPS

\* The object and the piece a shipping worker has in hand are of their types.
LEMMA PieceType ==
  ASSUME NEW w \in Workers, TypeOK, InObjects(w), msg[w] \in Messages
  PROVE  /\ Object(w) \in Objects
         /\ Chunks[Object(w)] \in Nat
         /\ chunk[w] <= Chunks[Object(w)] => Piece(w) \in Pieces
  <1>1. Object(w) \in Objects
    BY DeliveryAssumption DEF TypeOK, InObjects, Object
  <1>2. Chunks[Object(w)] \in Nat
    BY <1>1, DeliveryAssumption
  <1>3. ASSUME chunk[w] <= Chunks[Object(w)]
        PROVE  Piece(w) \in Pieces
    <2>1. chunk[w] \in 1 .. Chunks[Object(w)]
      BY <1>2, <1>3 DEF TypeOK
    <2>2. Piece(w) \in {<<Object(w), c>> : c \in 1 .. Chunks[Object(w)]}
      BY <2>1 DEF Piece
    <2> QED BY <1>1, <2>2 DEF Pieces
  <1> QED BY <1>1, <1>2, <1>3

\* Accepting a piece keeps the type of copies and never lowers a count.
LEMMA AcceptMonotone ==
  ASSUME NEW w \in Workers, NEW n \in Nat, copies \in [Pieces -> Nat],
         n # 0 => Piece(w) \in Pieces, Accept(w, n)
  PROVE  /\ copies' \in [Pieces -> Nat]
         /\ \A p \in Pieces : copies[p] <= copies'[p]
         /\ n # 0 => copies'[Piece(w)] > 0
  BY DEF Accept

\* While a worker ships, it has a message in hand.
Shipping == \A w \in Workers : pc[w] = "ship" => msg[w] \in Messages

\* What the steps that push do to copies.
LEMMA PushSteps ==
  ASSUME NEW w \in Workers, TypeOK, Shipping,
         ShipChunk(w) \/ FailObject(w) \/ TimeoutKill(w)
  PROVE  /\ copies' \in [Pieces -> Nat]
         /\ \A p \in Pieces : copies[p] <= copies'[p]
         /\ ShipChunk(w) => copies'[Piece(w)] > 0
  <1> USE DeliveryAssumption
  <1>1. CASE ShipChunk(w)
    <2>1. InObjects(w) /\ msg[w] \in Messages /\ chunk[w] <= Chunks[Object(w)]
      BY <1>1 DEF ShipChunk, InObjects, Shipping
    <2>2. PICK n \in 1 .. PushCopies : Accept(w, n)
      BY <1>1 DEF ShipChunk
    <2>3. n \in Nat /\ n # 0
      BY <2>2
    <2>4. Piece(w) \in Pieces
      BY <2>1, PieceType
    <2>5. copies \in [Pieces -> Nat]
      BY DEF TypeOK
    <2> QED BY <2>2, <2>3, <2>4, <2>5, AcceptMonotone
  <1>2. CASE FailObject(w)
    <2>1. InObjects(w) /\ msg[w] \in Messages
      BY <1>2 DEF FailObject, InObjects, Shipping
    <2>2. PICK n \in 0 .. (IF chunk[w] <= Chunks[Object(w)] THEN PushCopies ELSE 0) : Accept(w, n)
      BY <1>2 DEF FailObject
    <2>3. n \in Nat /\ (n # 0 => chunk[w] <= Chunks[Object(w)])
      BY <2>2
    <2>4. copies' \in [Pieces -> Nat] /\ \A p \in Pieces : copies[p] <= copies'[p]
      BY <2>1, <2>2, <2>3, PieceType, AcceptMonotone DEF TypeOK
    <2>5. ShipChunk(w) => FALSE
      <3>1. obj' # obj
        BY <1>2 DEF FailObject, TypeOK
      <3> QED BY <3>1 DEF ShipChunk
    <2> QED BY <2>4, <2>5
  <1>3. CASE TimeoutKill(w)
    <2>0. ~ShipChunk(w)
      BY <1>3 DEF ShipChunk, TimeoutKill, EndInvocation, InObjects, TypeOK
    <2>1. CASE UNCHANGED copies
      BY <2>1, <2>0 DEF TypeOK
    <2>2. CASE /\ InObjects(w) /\ chunk[w] <= Chunks[Object(w)]
               /\ \E n \in 0 .. PushCopies : Accept(w, n)
      <3>1. msg[w] \in Messages
        BY <2>2 DEF InObjects, Shipping
      <3>2. PICK n \in 0 .. PushCopies : Accept(w, n)
        BY <2>2
      <3>3. copies' \in [Pieces -> Nat] /\ \A p \in Pieces : copies[p] <= copies'[p]
        <4>1. n \in Nat /\ Piece(w) \in Pieces
          BY <2>2, <3>1, <3>2, PieceType
        <4> QED BY <3>2, <4>1, AcceptMonotone DEF TypeOK
      <3> QED BY <2>0, <3>3
    <2> QED BY <1>3, <2>1, <2>2 DEF TimeoutKill
  <1> QED BY <1>1, <1>2, <1>3

-----------------------------------------------------------------------------
(* Types.                                                                  *)

LEMMA TypeStep ==
  ASSUME TypeOK, Shipping, [Next]_vars
  PROVE  TypeOK' /\ Shipping'
  <1> USE DeliveryAssumption
  <1>1. ASSUME NEW w \in Workers, NEW B \in SUBSET Messages, Receive(w, B)
        PROVE  TypeOK' /\ Shipping'
    BY <1>1 DEF TypeOK, Shipping, Receive, Deliverable, workVars
  <1>2. ASSUME NEW m \in Messages, VisibilityTimeout(m)
        PROVE  TypeOK' /\ Shipping'
    BY <1>2 DEF TypeOK, Shipping, VisibilityTimeout, workVars, runVars
  <1>3. ASSUME NEW m \in Messages, Park(m)
        PROVE  TypeOK' /\ Shipping'
    BY <1>3 DEF TypeOK, Shipping, Park, workVars, runVars
  <1>4. ASSUME NEW w \in Workers, RejectEvent(w)
        PROVE  TypeOK' /\ Shipping'
    BY <1>4 DEF TypeOK, Shipping, RejectEvent, EndInvocation, workVars, queueVars
  <1>5. ASSUME NEW w \in Workers, NEW m \in Messages, SkipLate(w, m)
        PROVE  TypeOK' /\ Shipping'
    BY <1>5 DEF TypeOK, Shipping, SkipLate, Report, workVars, queueVars
  <1>6. ASSUME NEW w \in Workers, NEW m \in Messages, FailMalformed(w, m)
        PROVE  TypeOK' /\ Shipping'
    BY <1>6 DEF TypeOK, Shipping, FailMalformed, Report, workVars, queueVars
  <1>7. ASSUME NEW w \in Workers, NEW m \in Messages, StartMessage(w, m)
        PROVE  TypeOK' /\ Shipping'
    BY <1>7 DEF TypeOK, Shipping, StartMessage, queueVars
  <1>8. ASSUME NEW w \in Workers, ShipChunk(w)
        PROVE  TypeOK' /\ Shipping'
    <2>1. copies' \in [Pieces -> Nat]
      BY <1>8, PushSteps
    <2>2. left' \in [Workers -> 0 .. Timeout] /\ chunk' \in [Workers -> Nat \ {0}]
      BY <1>8 DEF ShipChunk, TypeOK
    <2> QED BY <1>8, <2>1, <2>2 DEF TypeOK, Shipping, ShipChunk, queueVars
  <1>9. ASSUME NEW w \in Workers, FailObject(w)
        PROVE  TypeOK' /\ Shipping'
    <2>1. copies' \in [Pieces -> Nat]
      BY <1>9, PushSteps
    <2>2. left' \in [Workers -> 0 .. Timeout]
      BY <1>9 DEF FailObject, TypeOK
    <2>3. msg[w] \in Messages
      BY <1>9 DEF FailObject, InObjects, Shipping
    <2>4. /\ bad' \in [Workers -> BOOLEAN] /\ faulted' \in [Workers -> SUBSET Messages]
          /\ obj' \in [Workers -> Nat \ {0}] /\ chunk' \in [Workers -> Nat \ {0}]
      BY <1>9, <2>3 DEF FailObject, TypeOK
    <2> QED BY <1>9, <2>1, <2>2, <2>4 DEF TypeOK, Shipping, FailObject, queueVars
  <1>10. ASSUME NEW w \in Workers, FinishObject(w)
         PROVE  TypeOK' /\ Shipping'
    BY <1>10 DEF TypeOK, Shipping, FinishObject, queueVars, runVars
  <1>11. ASSUME NEW w \in Workers, FinishMessage(w)
         PROVE  TypeOK' /\ Shipping'
    <2>1. msg[w] \in Messages
      BY <1>11 DEF FinishMessage, Shipping
    <2>2. failed' \in [Workers -> SUBSET Messages] /\ todo' \in [Workers -> SUBSET Messages]
      BY <1>11, <2>1 DEF FinishMessage, Report, TypeOK
    <2> QED BY <1>11, <2>2 DEF TypeOK, Shipping, FinishMessage, EndMessage, queueVars
  <1>12. ASSUME NEW w \in Workers, Return(w)
         PROVE  TypeOK' /\ Shipping'
    BY <1>12 DEF TypeOK, Shipping, Return, EndInvocation, workVars
  <1>13. ASSUME NEW w \in Workers, TimeoutKill(w)
         PROVE  TypeOK' /\ Shipping'
    <2>1. copies' \in [Pieces -> Nat]
      BY <1>13, PushSteps
    <2>2. EndInvocation(w) /\ EndMessage(w) /\ UNCHANGED queueVars
      BY <1>13 DEF TimeoutKill
    <2> QED BY <2>1, <2>2 DEF TypeOK, Shipping, EndInvocation, EndMessage, queueVars
  <1>14. CASE UNCHANGED vars
    BY <1>14 DEF TypeOK, Shipping, vars, queueVars, workVars, runVars
  <1> QED
    BY <1>1, <1>2, <1>3, <1>4, <1>5, <1>6, <1>7, <1>8, <1>9, <1>10, <1>11, <1>12, <1>13, <1>14
       DEF Next, Work

\* Every reachable state is well typed: TypeOK of S3Delivery.
THEOREM TypeCorrect == Spec => [](TypeOK /\ Shipping)
  <1>1. Init => TypeOK /\ Shipping
    BY DeliveryAssumption DEF Init, TypeOK, Shipping
  <1> QED BY <1>1, TypeStep, PTL DEF Spec

-----------------------------------------------------------------------------
(* Who holds what.                                                         *)

\* An invocation works on messages of its batch only, and while it holds them
\* they are in flight: neither visible nor settled.
Books(w) ==
  /\ todo[w] \subseteq batch[w]
  /\ pc[w] = "idle" => batch[w] = {}
  /\ pc[w] = "ship" => msg[w] \in todo[w] /\ Kind[msg[w]] = "work"
  /\ \A m \in batch[w] : status[m] = "inflight"

Bookkeeping == (\A w \in Workers : Books(w)) /\ NoRacingRedelivery

\* A step that leaves the batches and the queue alone and touches worker w only.
LEMMA LocalStep ==
  ASSUME TypeOK, Bookkeeping, NEW w \in Workers,
         UNCHANGED <<status, batch>>,
         \A v \in Workers \ {w} : /\ todo'[v] = todo[v]
                                  /\ pc'[v] = pc[v]
                                  /\ msg'[v] = msg[v],
         todo'[w] \subseteq batch[w], pc'[w] # "idle",
         pc'[w] = "ship" => msg'[w] \in todo'[w] /\ Kind[msg'[w]] = "work"
  PROVE  Bookkeeping'
  <1>1. NoRacingRedelivery'
    BY DEF Bookkeeping, NoRacingRedelivery
  <1>2. ASSUME NEW v \in Workers PROVE Books(v)'
    <2>1. CASE v = w
      BY <2>1 DEF Books, Bookkeeping
    <2>2. CASE v # w
      BY <2>2 DEF Books, Bookkeeping
    <2> QED BY <2>1, <2>2
  <1> QED BY <1>1, <1>2 DEF Bookkeeping

\* An invocation that ends releases its batch; the messages it does not delete
\* stay in flight, and the other batches are untouched.
LEMMA EndStep ==
  ASSUME TypeOK, Bookkeeping, NEW w \in Workers, EndInvocation(w),
         \A v \in Workers \ {w} : msg'[v] = msg[v],
         \A m \in Messages \ batch[w] : status'[m] = status[m]
  PROVE  Bookkeeping'
  <1>1. /\ batch'[w] = {} /\ todo'[w] = {} /\ pc'[w] = "idle"
        /\ \A v \in Workers \ {w} : batch'[v] = batch[v] /\ todo'[v] = todo[v] /\ pc'[v] = pc[v]
    BY DEF EndInvocation, TypeOK
  <1>2. NoRacingRedelivery'
    BY <1>1 DEF Bookkeeping, NoRacingRedelivery
  <1>3. ASSUME NEW v \in Workers PROVE Books(v)'
    <2>1. CASE v = w
      BY <1>1, <2>1 DEF Books
    <2>2. CASE v # w
      <3>1. \A m \in batch[v] : m \in Messages /\ m \notin batch[w]
        BY <2>2 DEF Bookkeeping, NoRacingRedelivery, TypeOK
      <3> QED BY <1>1, <2>2, <3>1 DEF Books, Bookkeeping
    <2> QED BY <2>1, <2>2
  <1> QED BY <1>2, <1>3 DEF Bookkeeping

LEMMA BookStep ==
  ASSUME TypeOK, Shipping, Bookkeeping, [Next]_vars
  PROVE  Bookkeeping'
  <1> USE DeliveryAssumption
  <1>1. ASSUME NEW w \in Workers, NEW B \in SUBSET Messages, Receive(w, B)
        PROVE  Bookkeeping'
    <2>1. \A v \in Workers : batch[v] \cap B = {}
      <3>1. \A n \in B : status[n] = "visible"
        BY <1>1 DEF Receive, Deliverable
      <3>2. \A v \in Workers : \A n \in batch[v] : status[n] = "inflight"
        BY DEF Bookkeeping, Books
      <3> QED BY <3>1, <3>2
    <2>2. /\ batch'[w] = B /\ todo'[w] \subseteq B /\ pc'[w] = "scan"
          /\ \A v \in Workers \ {w} : batch'[v] = batch[v] /\ todo'[v] = todo[v] /\ pc'[v] = pc[v]
          /\ UNCHANGED msg
      BY <1>1 DEF Receive, TypeOK, workVars
    <2>3. NoRacingRedelivery'
      BY <2>1, <2>2 DEF Bookkeeping, NoRacingRedelivery
    <2>4. \A m \in Messages : status'[m] = IF m \in B THEN "inflight" ELSE status[m]
      BY <1>1 DEF Receive
    <2>5. ASSUME NEW v \in Workers PROVE Books(v)'
      <3>1. CASE v = w
        BY <2>2, <2>4, <3>1 DEF Books
      <3>2. CASE v # w
        <4>1. batch[v] \subseteq Messages
          BY DEF TypeOK
        <4> QED BY <2>1, <2>2, <2>4, <3>2, <4>1 DEF Books, Bookkeeping
      <3> QED BY <3>1, <3>2
    <2> QED BY <2>3, <2>5 DEF Bookkeeping
  <1>2. ASSUME NEW m \in Messages, VisibilityTimeout(m)
        PROVE  Bookkeeping'
    <2>1. \A v \in Workers : m \notin batch[v]
      <3> SUFFICES ASSUME NEW v \in Workers, Elapsed(v) >= Visibility
                   PROVE  FALSE
        BY <1>2 DEF VisibilityTimeout
      <3>1. left[v] \in 0 .. Timeout
        BY DEF TypeOK
      <3> QED BY <3>1, WindowAssumption DEF Elapsed, Visibility
    <2>2. UNCHANGED <<batch, todo, pc, msg>> /\ \A n \in Messages \ {m} : status'[n] = status[n]
      BY <1>2 DEF VisibilityTimeout, TypeOK, workVars, runVars
    <2>3. \A v \in Workers : batch[v] \subseteq Messages
      BY DEF TypeOK
    <2> QED BY <2>1, <2>2, <2>3 DEF Bookkeeping, Books, NoRacingRedelivery
  <1>3. ASSUME NEW m \in Messages, Park(m)
        PROVE  Bookkeeping'
    BY <1>3 DEF Park, Bookkeeping, Books, NoRacingRedelivery, TypeOK, workVars, runVars
  <1>4. ASSUME NEW w \in Workers, RejectEvent(w)
        PROVE  Bookkeeping'
    BY <1>4, EndStep DEF RejectEvent, workVars, queueVars
  <1>5. ASSUME NEW w \in Workers, NEW m \in Messages, SkipLate(w, m)
        PROVE  Bookkeeping'
    <2>1. /\ UNCHANGED <<status, batch, pc, msg>> /\ pc[w] = "scan"
          /\ todo' = [todo EXCEPT ![w] = @ \ {m}]
      BY <1>5 DEF SkipLate, queueVars, workVars
    <2>2. /\ todo'[w] \subseteq batch[w] /\ pc'[w] = "scan"
          /\ \A v \in Workers \ {w} : todo'[v] = todo[v]
      BY <2>1 DEF TypeOK, Bookkeeping, Books
    <2> QED BY <2>1, <2>2, LocalStep
  <1>6. ASSUME NEW w \in Workers, NEW m \in Messages, FailMalformed(w, m)
        PROVE  Bookkeeping'
    <2>1. /\ UNCHANGED <<status, batch, pc, msg>> /\ pc[w] = "scan"
          /\ todo' = [todo EXCEPT ![w] = @ \ {m}]
      BY <1>6 DEF FailMalformed, queueVars, workVars
    <2>2. /\ todo'[w] \subseteq batch[w] /\ pc'[w] = "scan"
          /\ \A v \in Workers \ {w} : todo'[v] = todo[v]
      BY <2>1 DEF TypeOK, Bookkeeping, Books
    <2> QED BY <2>1, <2>2, LocalStep
  <1>7. ASSUME NEW w \in Workers, NEW m \in Messages, StartMessage(w, m)
        PROVE  Bookkeeping'
    BY <1>7, LocalStep DEF StartMessage, queueVars, TypeOK, Bookkeeping, Books
  <1>8. ASSUME NEW w \in Workers, ShipChunk(w) \/ FailObject(w) \/ FinishObject(w)
        PROVE  Bookkeeping'
    <2>1. UNCHANGED <<status, batch, todo, pc, msg>> /\ pc[w] = "ship"
      BY <1>8 DEF ShipChunk, FailObject, FinishObject, InObjects, queueVars, runVars
    <2> QED BY <2>1, LocalStep DEF Bookkeeping, Books
  <1>9. ASSUME NEW w \in Workers, FinishMessage(w)
        PROVE  Bookkeeping'
    <2>1. /\ UNCHANGED <<status, batch>>
          /\ todo' = [todo EXCEPT ![w] = @ \ {msg[w]}]
          /\ pc' = [pc EXCEPT ![w] = "scan"]
          /\ msg' = [msg EXCEPT ![w] = NoMessage]
      BY <1>9 DEF FinishMessage, EndMessage, queueVars
    <2> QED BY <2>1, LocalStep DEF TypeOK, Bookkeeping, Books
  <1>10. ASSUME NEW w \in Workers, Return(w)
         PROVE  Bookkeeping'
    BY <1>10, EndStep DEF Return, workVars
  <1>11. ASSUME NEW w \in Workers, TimeoutKill(w)
         PROVE  Bookkeeping'
    <2>1. EndInvocation(w) /\ UNCHANGED status /\ \A v \in Workers \ {w} : msg'[v] = msg[v]
      BY <1>11 DEF TimeoutKill, EndMessage, queueVars, TypeOK
    <2> QED BY <2>1, EndStep
  <1>12. CASE UNCHANGED vars
    BY <1>12 DEF Bookkeeping, Books, NoRacingRedelivery, vars, queueVars, workVars, runVars
  <1> QED
    BY <1>1, <1>2, <1>3, <1>4, <1>5, <1>6, <1>7, <1>8, <1>9, <1>10, <1>11, <1>12 DEF Next, Work

\* No message is ever held by two invocations: a redelivery waits for the
\* invocation that holds it to end (the six-fold visibility timeout).
THEOREM NoRacing == Spec => []NoRacingRedelivery
  <1>1. Init => Bookkeeping
    BY DEF Init, Bookkeeping, Books, NoRacingRedelivery
  <1>2. Bookkeeping => NoRacingRedelivery
    BY DEF Bookkeeping
  <1> QED BY <1>1, <1>2, TypeCorrect, BookStep, PTL DEF Spec

-----------------------------------------------------------------------------
(* What has been shipped.                                                  *)

Stored(o, c) == copies[<<o, c>>] > 0

\* Everything m names has been accepted at least once.
Shipped(m) ==
  \A i \in DOMAIN ObjectsOf[m] : \A c \in 1 .. Chunks[ObjectsOf[m][i]] : Stored(ObjectsOf[m][i], c)

\* Nothing is owed for m, or all of it has been accepted.
Honoured(m) == Kind[m] = "skip" \/ (Kind[m] = "work" /\ Shipped(m))

\* How far a shipping worker has come: the objects behind it are stored unless
\* one raised, and so are the batches of the object in hand that it pushed.
Position(w) ==
  /\ obj[w] <= Len(ObjectsOf[msg[w]]) + 1
  /\ ~bad[w] => \A i \in DOMAIN ObjectsOf[msg[w]] : i < obj[w] =>
       \A c \in 1 .. Chunks[ObjectsOf[msg[w]][i]] : Stored(ObjectsOf[msg[w]][i], c)
  /\ obj[w] <= Len(ObjectsOf[msg[w]]) =>
       \A c \in 1 .. Chunks[Object(w)] : c < chunk[w] => Stored(Object(w), c)

\* A message an invocation has walked past is honoured, or will be reported, or
\* has no id to report it by.
Passed(w) == \A m \in batch[w] \ (todo[w] \cup failed[w] \cup Direct) : Honoured(m)

\* Between messages a worker is back at the first object.
Place(w) == IF pc[w] = "ship" THEN Position(w) ELSE obj[w] = 1 /\ chunk[w] = 1

Progress == \A w \in Workers : Passed(w) /\ Place(w)

Acknowledged == \A m \in Messages \ Direct : status[m] = "deleted" => Honoured(m)

\* Loki never forgets a piece, so what has been stored stays stored.
Grows == \A o \in Objects : \A c \in 1 .. Chunks[o] : Stored(o, c) => Stored(o, c)'

LEMMA HonouredStays ==
  ASSUME Grows, NEW m \in Messages, Honoured(m)
  PROVE  Honoured(m)'
  <1>1. \A i \in DOMAIN ObjectsOf[m] : ObjectsOf[m][i] \in Objects
    BY DeliveryAssumption
  <1> QED BY <1>1 DEF Grows, Honoured, Shipped

\* A step that leaves worker w's own state alone keeps what is known of it.
LEMMA WorkerUntouched ==
  ASSUME TypeOK, Bookkeeping, Progress, Grows, NEW w \in Workers,
         pc'[w] = pc[w], batch'[w] = batch[w], todo'[w] = todo[w], failed'[w] = failed[w],
         msg'[w] = msg[w], obj'[w] = obj[w], chunk'[w] = chunk[w], bad'[w] = bad[w]
  PROVE  Passed(w)' /\ Place(w)'
  <1>1. Passed(w)'
    <2>1. \A m \in batch[w] : m \in Messages
      BY DEF TypeOK
    <2> QED BY <2>1, HonouredStays DEF Passed, Progress
  <1>2. ASSUME pc[w] = "ship" PROVE Position(w)'
    <2>1. Position(w) /\ msg[w] \in Messages
      BY <1>2 DEF Progress, Place, Bookkeeping, Books, TypeOK
    <2>2. \A i \in DOMAIN ObjectsOf[msg[w]] : ObjectsOf[msg[w]][i] \in Objects
      BY <2>1, DeliveryAssumption
    <2>3. obj[w] <= Len(ObjectsOf[msg[w]]) => obj[w] \in DOMAIN ObjectsOf[msg[w]]
      BY <2>1, DeliveryAssumption DEF TypeOK
    <2> QED BY <2>1, <2>2, <2>3 DEF Position, Grows, Object
  <1> QED BY <1>1, <1>2 DEF Progress, Place

LEMMA StoredGrows ==
  ASSUME TypeOK, Shipping, [Next]_vars
  PROVE  Grows
  <1>1. ASSUME \A p \in Pieces : copies[p] <= copies'[p], copies' \in [Pieces -> Nat]
        PROVE  Grows
    <2> SUFFICES ASSUME NEW o \in Objects, NEW c \in 1 .. Chunks[o], Stored(o, c)
                 PROVE  Stored(o, c)'
      BY DEF Grows
    <2>1. <<o, c>> \in Pieces
      BY DEF Pieces
    <2> QED BY <1>1, <2>1 DEF Stored, TypeOK
  <1>2. CASE UNCHANGED copies
    BY <1>2, <1>1 DEF TypeOK
  <1>3. CASE \E w \in Workers : ShipChunk(w) \/ FailObject(w) \/ TimeoutKill(w)
    BY <1>1, <1>3, PushSteps
  <1>4. (\E w \in Workers : ShipChunk(w) \/ FailObject(w) \/ TimeoutKill(w)) \/ UNCHANGED copies
    BY DEF Next, Work, Receive, VisibilityTimeout, Park, RejectEvent, SkipLate, FailMalformed,
           StartMessage, FinishObject, FinishMessage, Return, vars
  <1> QED BY <1>2, <1>3, <1>4

\* A worker's step leaves the other workers alone.
Others(w) ==
  \A v \in Workers \ {w} :
    /\ pc'[v] = pc[v] /\ batch'[v] = batch[v] /\ todo'[v] = todo[v] /\ failed'[v] = failed[v]
    /\ msg'[v] = msg[v] /\ obj'[v] = obj[v] /\ chunk'[v] = chunk[v] /\ bad'[v] = bad[v]

LEMMA Frame ==
  ASSUME TypeOK, NEW w \in Workers,
         (\E B \in SUBSET Messages : Receive(w, B)) \/ Work(w) \/ TimeoutKill(w)
  PROVE  Others(w)
  <1> USE DEF TypeOK, Others
  <1>1. ASSUME NEW B \in SUBSET Messages, Receive(w, B) PROVE Others(w)
    BY <1>1 DEF Receive, workVars
  <1>2. CASE RejectEvent(w)
    BY <1>2 DEF RejectEvent, EndInvocation, workVars
  <1>3. ASSUME NEW m \in Messages, SkipLate(w, m) PROVE Others(w)
    BY <1>3 DEF SkipLate, workVars
  <1>4. ASSUME NEW m \in Messages, FailMalformed(w, m) PROVE Others(w)
    BY <1>4 DEF FailMalformed, workVars
  <1>5. ASSUME NEW m \in Messages, StartMessage(w, m) PROVE Others(w)
    BY <1>5 DEF StartMessage
  <1>6. CASE ShipChunk(w)
    BY <1>6 DEF ShipChunk
  <1>7. CASE FailObject(w)
    BY <1>7 DEF FailObject
  <1>8. CASE FinishObject(w)
    BY <1>8 DEF FinishObject, runVars
  <1>9. CASE FinishMessage(w)
    BY <1>9 DEF FinishMessage, EndMessage
  <1>10. CASE Return(w)
    BY <1>10 DEF Return, EndInvocation, workVars
  <1>11. CASE TimeoutKill(w)
    BY <1>11 DEF TimeoutKill, EndInvocation, EndMessage
  <1> QED BY <1>1, <1>2, <1>3, <1>4, <1>5, <1>6, <1>7, <1>8, <1>9, <1>10, <1>11 DEF Work

\* So only the worker that steps has to be looked at.
LEMMA OnlyStepper ==
  ASSUME TypeOK, Bookkeeping, Progress, Grows, NEW w \in Workers, Others(w),
         Passed(w)', Place(w)'
  PROVE  Progress'
  <1>1. ASSUME NEW v \in Workers \ {w}
        PROVE  Passed(v)' /\ Place(v)'
    BY WorkerUntouched DEF Others
  <1> QED BY <1>1 DEF Progress

\* After one more pushed batch, or one more finished object, the position holds.
LEMMA ChunkStep ==
  ASSUME TypeOK, Shipping, Bookkeeping, Progress, Grows, NEW w \in Workers,
         ShipChunk(w) \/ FailObject(w) \/ FinishObject(w)
  PROVE  Position(w)'
  <1>1. Position(w) /\ msg[w] \in Messages /\ InObjects(w) /\ UNCHANGED msg
    BY DEF ShipChunk, FailObject, FinishObject, InObjects, Progress, Place, Shipping, runVars
  <1>2. PICK os \in Seq(Objects) : os = ObjectsOf[msg[w]] /\ os = ObjectsOf[msg'[w]]
    BY <1>1, DeliveryAssumption
  <1>3. obj[w] \in 1 .. Len(os) /\ chunk[w] \in Nat \ {0} /\ DOMAIN os = 1 .. Len(os)
    BY <1>1, <1>2 DEF InObjects, TypeOK
  <1>4. \A i \in DOMAIN os : os[i] \in Objects /\ Chunks[os[i]] \in Nat
    BY <1>2, DeliveryAssumption
  <1>5. \A i \in DOMAIN os : \A c \in 1 .. Chunks[os[i]] :
          copies[<<os[i], c>>] > 0 => copies'[<<os[i], c>>] > 0
    BY <1>4 DEF Grows, Stored
  <1>6. ASSUME ~bad[w], NEW i \in DOMAIN os, i < obj[w], NEW c \in 1 .. Chunks[os[i]]
        PROVE  copies'[<<os[i], c>>] > 0
    <2>1. copies[<<os[i], c>>] > 0
      BY <1>1, <1>2, <1>6 DEF Position, Stored
    <2> QED BY <1>5, <2>1
  <1>7. ASSUME NEW c \in 1 .. Chunks[os[obj[w]]], c < chunk[w]
        PROVE  copies'[<<os[obj[w]], c>>] > 0
    <2>1. copies[<<os[obj[w]], c>>] > 0
      BY <1>1, <1>2, <1>3, <1>7 DEF Position, Stored, Object
    <2> QED BY <1>3, <1>5, <2>1
  <1>8. CASE ShipChunk(w)
    <2>1. copies'[<<os[obj[w]], chunk[w]>>] > 0
      BY <1>2, <1>8, PushSteps DEF Piece, Object
    <2>2. chunk'[w] = chunk[w] + 1 /\ UNCHANGED <<obj, bad>>
      BY <1>8 DEF ShipChunk, TypeOK
    <2>3. ASSUME NEW c \in 1 .. Chunks[os[obj[w]]], c < chunk[w] + 1
          PROVE  copies'[<<os[obj[w]], c>>] > 0
      <3>1. c = chunk[w] \/ c < chunk[w]
        BY <1>3, <2>3
      <3> QED BY <1>7, <2>1, <3>1
    <2>4. obj[w] <= Len(os) + 1
      BY <1>2, <1>3
    <2> QED BY <1>2, <1>6, <2>2, <2>3, <2>4 DEF Position, Object, Stored
  <1>9. CASE FailObject(w)
    <2>1. obj'[w] = obj[w] + 1 /\ chunk'[w] = 1 /\ bad'[w] = TRUE
      BY <1>9 DEF FailObject, TypeOK
    <2>2. (obj[w] + 1) <= Len(os) + 1
      BY <1>2, <1>3
    <2>3. ASSUME obj[w] + 1 <= Len(os), NEW c \in 1 .. Chunks[os[obj[w] + 1]]
          PROVE  ~(c < 1)
      OBVIOUS
    <2> QED BY <1>2, <2>1, <2>2, <2>3 DEF Position, Object
  <1>10. CASE FinishObject(w)
    <2>1. obj'[w] = obj[w] + 1 /\ chunk'[w] = 1 /\ UNCHANGED bad /\ chunk[w] > Chunks[os[obj[w]]]
      BY <1>2, <1>10 DEF FinishObject, TypeOK, Object
    <2>2. (obj[w] + 1) <= Len(os) + 1
      BY <1>2, <1>3
    <2>3. ASSUME ~bad[w], NEW i \in DOMAIN os, i < obj[w] + 1, NEW c \in 1 .. Chunks[os[i]]
          PROVE  copies'[<<os[i], c>>] > 0
      <3>1. CASE i < obj[w]
        BY <1>6, <2>3, <3>1
      <3>2. CASE i = obj[w]
        <4>1. c < chunk[w]
          BY <1>3, <1>4, <2>1, <3>2
        <4> QED BY <1>7, <3>2, <4>1
      <3> QED BY <3>1, <3>2, <2>3, <1>2, <1>3
    <2>4. ASSUME obj[w] + 1 <= Len(os), NEW c \in 1 .. Chunks[os[obj[w] + 1]]
          PROVE  ~(c < 1)
      OBVIOUS
    <2> QED BY <1>2, <2>1, <2>2, <2>3, <2>4 DEF Position, Object, Stored
  <1> QED BY <1>8, <1>9, <1>10

LEMMA ProgressStep ==
  ASSUME TypeOK, Shipping, Bookkeeping, Progress, [Next]_vars
  PROVE  Progress'
  <1> USE DeliveryAssumption
  <1>0. Grows
    BY StoredGrows
  <1>1. ASSUME NEW w \in Workers, NEW B \in SUBSET Messages, Receive(w, B)
        PROVE  Progress'
    <2>1. Others(w)
      BY <1>1, Frame
    <2>2. batch'[w] = B /\ todo'[w] = {m \in B : Kind[m] # "skip"} /\ pc'[w] = "scan"
      BY <1>1 DEF Receive, TypeOK
    <2>3. Passed(w)'
      BY <2>2 DEF Passed, Honoured
    <2>4. Place(w)'
      BY <1>1, <2>2 DEF Receive, Place, Progress, workVars
    <2> QED BY <1>0, <2>1, <2>3, <2>4, OnlyStepper
  <1>2. ASSUME NEW m \in Messages, VisibilityTimeout(m) \/ Park(m)
        PROVE  Progress'
    <2>1. UNCHANGED <<workVars, runVars>>
      BY <1>2 DEF VisibilityTimeout, Park
    <2> QED BY <1>0, <2>1, WorkerUntouched DEF Progress, workVars, runVars
  <1>3. ASSUME NEW w \in Workers, RejectEvent(w) \/ Return(w) \/ TimeoutKill(w)
        PROVE  Progress'
    <2>1. Others(w)
      BY <1>3, Frame DEF Work
    <2>2. batch'[w] = {} /\ pc'[w] = "idle"
      BY <1>3 DEF RejectEvent, Return, TimeoutKill, EndInvocation, TypeOK
    <2>3. Passed(w)'
      BY <2>2 DEF Passed
    <2>4. CASE RejectEvent(w) \/ Return(w)
      <3>1. pc[w] # "ship" /\ UNCHANGED <<obj, chunk>>
        BY <2>4 DEF RejectEvent, Return, workVars
      <3>2. Place(w)'
        BY <2>2, <3>1 DEF Place, Progress
      <3> QED BY <1>0, <2>1, <2>3, <3>2, OnlyStepper
    <2>5. CASE TimeoutKill(w)
      <3>1. Place(w)'
        BY <2>2, <2>5 DEF TimeoutKill, EndMessage, Place, TypeOK
      <3> QED BY <1>0, <2>1, <2>3, <3>1, OnlyStepper
    <2> QED BY <1>3, <2>4, <2>5
  <1>4. ASSUME NEW w \in Workers, NEW m \in Messages, SkipLate(w, m)
        PROVE  Progress'
    <2>1. Others(w)
      BY <1>4, Frame DEF Work
    <2>2. /\ pc'[w] = "scan" /\ batch'[w] = batch[w]
          /\ todo'[w] = todo[w] \ {m} /\ failed'[w] = failed[w] \cup ({m} \ Direct)
      BY <1>4 DEF SkipLate, Report, TypeOK
    <2>3. Passed(w)'
      BY <1>0, <2>2, HonouredStays DEF Passed, Progress, TypeOK
    <2>4. Place(w)'
      BY <1>4, <2>2 DEF SkipLate, Place, Progress, workVars
    <2> QED BY <1>0, <2>1, <2>3, <2>4, OnlyStepper
  <1>5. ASSUME NEW w \in Workers, NEW m \in Messages, FailMalformed(w, m)
        PROVE  Progress'
    <2>1. Others(w)
      BY <1>5, Frame DEF Work
    <2>2. /\ pc'[w] = "scan" /\ batch'[w] = batch[w]
          /\ todo'[w] = todo[w] \ {m} /\ failed'[w] = failed[w] \cup ({m} \ Direct)
      BY <1>5 DEF FailMalformed, Report, TypeOK
    <2>3. Passed(w)'
      BY <1>0, <2>2, HonouredStays DEF Passed, Progress, TypeOK
    <2>4. Place(w)'
      BY <1>5, <2>2 DEF FailMalformed, Place, Progress, workVars
    <2> QED BY <1>0, <2>1, <2>3, <2>4, OnlyStepper
  <1>6. ASSUME NEW w \in Workers, NEW m \in Messages, StartMessage(w, m)
        PROVE  Progress'
    <2>1. Others(w)
      BY <1>6, Frame DEF Work
    <2>2. UNCHANGED <<batch, todo, failed>> /\ msg'[w] = m
      BY <1>6 DEF StartMessage, TypeOK
    <2>3. Passed(w)'
      BY <1>0, <2>2, HonouredStays DEF Passed, Progress, TypeOK
    <2>4. obj'[w] = 1 /\ chunk'[w] = 1 /\ pc'[w] = "ship"
      BY <1>6 DEF StartMessage, Progress, Place, TypeOK
    <2>5. Len(ObjectsOf[m]) \in Nat /\ DOMAIN ObjectsOf[m] = 1 .. Len(ObjectsOf[m])
      OBVIOUS
    <2>6. Position(w)'
      <3>1. 1 <= Len(ObjectsOf[m]) + 1 /\ \A i \in DOMAIN ObjectsOf[m] : ~(i < 1)
        BY <2>5
      <3>2. 1 <= Len(ObjectsOf[m]) =>
              \A c \in 1 .. Chunks[ObjectsOf[m][1]] : ~(c < 1)
        BY <2>5
      <3> QED BY <2>2, <2>4, <3>1, <3>2 DEF Position, Object
    <2> QED BY <1>0, <2>1, <2>3, <2>4, <2>6, OnlyStepper DEF Place
  <1>7. ASSUME NEW w \in Workers, ShipChunk(w) \/ FailObject(w) \/ FinishObject(w)
        PROVE  Progress'
    <2>1. Others(w)
      BY <1>7, Frame DEF Work
    <2>2. UNCHANGED <<batch, todo, failed>>
      BY <1>7 DEF ShipChunk, FailObject, FinishObject, runVars
    <2>3. Passed(w)'
      BY <1>0, <2>2, HonouredStays DEF Passed, Progress, TypeOK
    <2>4. pc'[w] = "ship"
      BY <1>7 DEF ShipChunk, FailObject, FinishObject, InObjects, runVars
    <2> QED BY <1>0, <1>7, <2>1, <2>3, <2>4, ChunkStep, OnlyStepper DEF Place
  <1>8. ASSUME NEW w \in Workers, FinishMessage(w)
        PROVE  Progress'
    <2>1. Others(w)
      BY <1>8, Frame DEF Work
    <2>2. Position(w) /\ msg[w] \in Messages /\ Kind[msg[w]] = "work"
      BY <1>8 DEF FinishMessage, Progress, Place, Bookkeeping, Books, TypeOK
    <2>3. /\ pc'[w] = "scan" /\ batch'[w] = batch[w] /\ todo'[w] = todo[w] \ {msg[w]}
          /\ failed'[w] = IF bad[w] THEN failed[w] \cup ({msg[w]} \ Direct) ELSE failed[w]
          /\ UNCHANGED copies
      BY <1>8 DEF FinishMessage, Report, TypeOK
    <2>4. ~bad[w] => Honoured(msg[w])
      <3>1. obj[w] > Len(ObjectsOf[msg[w]]) /\ ObjectsOf[msg[w]] \in Seq(Objects) /\ obj[w] \in Nat
        BY <1>8, <2>2 DEF FinishMessage, TypeOK
      <3>2. \A i \in DOMAIN ObjectsOf[msg[w]] : i < obj[w]
        BY <3>1
      <3> QED BY <2>2, <3>2 DEF Position, Honoured, Shipped
    <2>5. ASSUME NEW m \in batch[w] \ (todo'[w] \cup failed'[w] \cup Direct)
          PROVE  Honoured(m)
      <3>1. CASE m = msg[w]
        BY <2>3, <2>4, <2>5, <3>1
      <3>2. CASE m # msg[w]
        BY <2>3, <2>5, <3>2 DEF Progress, Passed
      <3> QED BY <3>1, <3>2
    <2>6. Passed(w)'
      BY <1>0, <2>3, <2>5, HonouredStays DEF Passed, TypeOK
    <2>7. Place(w)'
      BY <1>8, <2>3 DEF FinishMessage, EndMessage, Place, TypeOK
    <2> QED BY <1>0, <2>1, <2>6, <2>7, OnlyStepper
  <1>9. CASE UNCHANGED vars
    BY <1>0, <1>9, WorkerUntouched DEF Progress, vars, workVars, runVars
  <1> QED
    BY <1>1, <1>2, <1>3, <1>4, <1>5, <1>6, <1>7, <1>8, <1>9 DEF Next, Work

-----------------------------------------------------------------------------
(* What a response acknowledges.                                           *)

\* When an invocation returns, whatever it does not report is honoured.
LEMMA ReturnHonours ==
  ASSUME TypeOK, Progress, NEW w \in Workers, Return(w),
         NEW m \in batch[w] \ failed[w], m \notin Direct
  PROVE  Honoured(m)
  BY DEF Return, Progress, Passed

LEMMA AcknowledgedStep ==
  ASSUME TypeOK, Shipping, Bookkeeping, Progress, Acknowledged, [Next]_vars
  PROVE  Acknowledged'
  <1>1. Grows
    BY StoredGrows
  <1>2. SUFFICES ASSUME NEW m \in Messages \ Direct, status'[m] = "deleted"
                 PROVE  Honoured(m)'
    BY DEF Acknowledged
  <1>3. Honoured(m) => Honoured(m)'
    BY <1>1, HonouredStays
  <1>4. CASE status[m] = "deleted"
    BY <1>3, <1>4 DEF Acknowledged
  <1>5. CASE \E w \in Workers : Return(w)
    <2>1. PICK w \in Workers : Return(w)
      BY <1>5
    <2>2. CASE m \in batch[w] \ failed[w]
      BY <1>3, <2>1, <2>2, ReturnHonours
    <2>3. CASE m \notin batch[w] \ failed[w]
      BY <1>2, <1>4, <2>1, <2>3 DEF Return
    <2> QED BY <2>2, <2>3
  <1>6. CASE ~ \E w \in Workers : Return(w)
    <2>1. status'[m] \in {status[m], "inflight", "visible", "dead"}
      BY <1>6 DEF Next, Work, Receive, VisibilityTimeout, Park, RejectEvent, SkipLate,
                  FailMalformed, StartMessage, ShipChunk, FailObject, FinishObject,
                  FinishMessage, TimeoutKill, vars, queueVars, TypeOK
    <2> QED BY <1>2, <1>4, <2>1
  <1> QED BY <1>4, <1>5, <1>6

\* The inductive invariant of the pipeline.
Inv == TypeOK /\ Shipping /\ Bookkeeping /\ Progress /\ Acknowledged

THEOREM InvHolds == Spec => []Inv
  <1>1. Init => Inv
    BY DeliveryAssumption DEF Init, Inv, TypeOK, Shipping, Bookkeeping, Books, NoRacingRedelivery,
                              Progress, Passed, Place, Acknowledged
  <1>2. Inv /\ [Next]_vars => Inv'
    BY TypeStep, BookStep, ProgressStep, AcknowledgedStep DEF Inv
  <1> QED BY <1>1, <1>2, PTL DEF Spec

\* A queue message is deleted only when every batch of every object it names
\* has been accepted, and never if it is malformed: DeletedMeansShipped, for any
\* number of environments, messages, deliveries and faults.
THEOREM NothingLost == Spec => []DeletedMeansShipped
  <1>1. Inv => DeletedMeansShipped
    <2>1. SUFFICES ASSUME Inv, NEW m \in Messages \ Direct, status[m] = "deleted"
                   PROVE  /\ Kind[m] # "malformed"
                          /\ Kind[m] = "work" => \A p \in PiecesOf(m) : copies[p] > 0
      BY DEF DeletedMeansShipped
    <2>2. Honoured(m)
      BY <2>1 DEF Inv, Acknowledged
    <2> QED BY <2>2, DeliveryAssumption DEF Honoured, Shipped, Stored, PiecesOf
  <1> QED BY <1>1, InvHolds, PTL

-----------------------------------------------------------------------------
(* What is reported, and why.                                              *)

\* Whatever is reported has its reason, and the flag of the message in hand is
\* raised only after one of its own objects failed.
Blamed(w) ==
  /\ \A m \in failed[w] : late[w] \/ Kind[m] = "malformed" \/ m \in faulted[w]
  /\ bad[w] => pc[w] = "ship" /\ msg[w] \in faulted[w]

Reasons == \A w \in Workers : Blamed(w)

LEMMA ReasonStep ==
  ASSUME TypeOK, Reasons, [Next]_vars
  PROVE  Reasons'
  <1> SUFFICES ASSUME NEW v \in Workers PROVE Blamed(v)'
    BY DEF Reasons
  <1>0. Blamed(v)
    BY DEF Reasons
  <1>1. ASSUME NEW w \in Workers, NEW B \in SUBSET Messages, Receive(w, B) PROVE Blamed(v)'
    BY <1>0, <1>1 DEF Blamed, Receive, workVars, TypeOK
  <1>2. ASSUME NEW m \in Messages, VisibilityTimeout(m) \/ Park(m) PROVE Blamed(v)'
    BY <1>0, <1>2 DEF Blamed, VisibilityTimeout, Park, workVars, runVars
  <1>3. ASSUME NEW w \in Workers, EndInvocation(w), pc[w] # "ship", UNCHANGED workVars
        PROVE  Blamed(v)'
    BY <1>0, <1>3 DEF Blamed, EndInvocation, workVars, TypeOK
  <1>4. ASSUME NEW w \in Workers, TimeoutKill(w) PROVE Blamed(v)'
    BY <1>0, <1>4 DEF Blamed, TimeoutKill, EndInvocation, EndMessage, TypeOK
  <1>5. ASSUME NEW w \in Workers, NEW m \in Messages, SkipLate(w, m) PROVE Blamed(v)'
    <2>1. /\ UNCHANGED <<workVars, pc, faulted>>
          /\ late' = [late EXCEPT ![w] = TRUE]
          /\ \A u \in Workers \ {w} : failed'[u] = failed[u]
      BY <1>5 DEF SkipLate, TypeOK
    <2> QED BY <1>0, <2>1 DEF Blamed, workVars, TypeOK
  <1>6. ASSUME NEW w \in Workers, NEW m \in Messages, FailMalformed(w, m) PROVE Blamed(v)'
    BY <1>0, <1>6 DEF Blamed, FailMalformed, Report, workVars, TypeOK
  <1>7. ASSUME NEW w \in Workers, NEW m \in Messages, StartMessage(w, m) PROVE Blamed(v)'
    BY <1>0, <1>7 DEF Blamed, StartMessage, TypeOK
  <1>8. ASSUME NEW w \in Workers, ShipChunk(w) \/ FinishObject(w) PROVE Blamed(v)'
    BY <1>0, <1>8 DEF Blamed, ShipChunk, FinishObject, runVars
  <1>9. ASSUME NEW w \in Workers, FailObject(w) PROVE Blamed(v)'
    <2>1. /\ UNCHANGED <<msg, pc, late, failed>> /\ pc[w] = "ship"
          /\ faulted' = [faulted EXCEPT ![w] = @ \cup {msg[w]}]
          /\ \A u \in Workers \ {w} : bad'[u] = bad[u]
      BY <1>9 DEF FailObject, InObjects, TypeOK
    <2>2. msg[w] \in faulted'[w] /\ \A u \in Workers : faulted[u] \subseteq faulted'[u]
      BY <2>1 DEF TypeOK
    <2> QED BY <1>0, <2>1, <2>2 DEF Blamed
  <1>10. ASSUME NEW w \in Workers, FinishMessage(w) PROVE Blamed(v)'
    <2>1. /\ UNCHANGED <<late, faulted>>
          /\ pc' = [pc EXCEPT ![w] = "scan"] /\ bad' = [bad EXCEPT ![w] = FALSE]
          /\ msg' = [msg EXCEPT ![w] = NoMessage]
          /\ failed' = [failed EXCEPT ![w] = IF bad[w] THEN failed[w] \cup ({msg[w]} \ Direct)
                                                      ELSE failed[w]]
      BY <1>10 DEF FinishMessage, EndMessage, Report
    <2>2. CASE v = w
      BY <1>0, <2>1, <2>2 DEF Blamed, TypeOK
    <2>3. CASE v # w
      BY <1>0, <2>1, <2>3 DEF Blamed, TypeOK
    <2> QED BY <2>2, <2>3
  <1>11. CASE UNCHANGED vars
    BY <1>0, <1>11 DEF Blamed, vars, workVars, runVars
  <1>12. ASSUME NEW w \in Workers, RejectEvent(w) \/ Return(w) PROVE Blamed(v)'
    <2>1. EndInvocation(w) /\ pc[w] # "ship" /\ UNCHANGED workVars
      BY <1>12 DEF RejectEvent, Return
    <2> QED BY <1>3, <2>1
  <1> QED
    BY <1>1, <1>2, <1>4, <1>5, <1>6, <1>7, <1>8, <1>9, <1>10, <1>11, <1>12 DEF Next, Work

\* One bad object does not fail the rest of the batch: FailureIsolated, for any
\* batch, any number of objects and any interleaving of environments.
THEOREM OnlyTheGuilty == Spec => []FailureIsolated
  <1>1. Init => Reasons
    BY DEF Init, Reasons, Blamed
  <1>2. Reasons => FailureIsolated
    BY DEF Reasons, Blamed, FailureIsolated
  <1> QED BY <1>1, <1>2, TypeCorrect, ReasonStep, PTL DEF Spec

-----------------------------------------------------------------------------
(* How often a piece is stored.                                            *)

\* p is one of the batches the worker has still to push of the message in hand.
Ahead(w, p) ==
  \E i \in DOMAIN ObjectsOf[msg[w]] :
    /\ p[1] = ObjectsOf[msg[w]][i]
    /\ i > obj[w] \/ (i = obj[w] /\ p[2] >= chunk[w])

\* Worker w may yet push p for the delivery of m it holds.
Due(w, m, p) == m \in todo[w] /\ (pc[w] = "ship" /\ msg[w] = m => Ahead(w, p))

Allowed(m) == PushCopies * receives[m]

\* A delivery that may yet push p has spent nothing of its own allowance.
Spent(m, p) ==
  /\ copies[p] <= Allowed(m)
  /\ \A w \in Workers : Due(w, m, p) => copies[p] + PushCopies <= Allowed(m)

Owner(m, p) == Naming(p) = {m} /\ NamesOnce(m)

Allowances == \A p \in Pieces : \A m \in Messages : Owner(m, p) => Spent(m, p)

\* A step that stores nothing, delivers nothing and makes nothing due.
LEMMA NothingDue ==
  ASSUME Allowances, UNCHANGED <<copies, receives>>,
         \A w \in Workers : \A m \in Messages : \A p \in Pieces : Due(w, m, p)' => Due(w, m, p)
  PROVE  Allowances'
  BY DEF Allowances, Spent, Allowed, Owner, Naming, NamesOnce, PiecesOf

\* What w pushes is due to it, for the message in hand.
LEMMA PushedIsDue ==
  ASSUME TypeOK, Bookkeeping, NEW w \in Workers, InObjects(w), chunk[w] <= Chunks[Object(w)]
  PROVE  /\ Piece(w) \in PiecesOf(msg[w]) /\ Piece(w) \in Pieces /\ msg[w] \in Messages
         /\ Due(w, msg[w], Piece(w))
  <1>1. msg[w] \in todo[w] /\ msg[w] \in Messages
    BY DEF InObjects, Bookkeeping, Books, TypeOK
  <1>2. PICK os \in Seq(Objects) : os = ObjectsOf[msg[w]]
    BY <1>1, DeliveryAssumption
  <1>3. obj[w] \in DOMAIN os /\ Object(w) = os[obj[w]] /\ os[obj[w]] \in Objects
    BY <1>2 DEF InObjects, TypeOK, Object
  <1>4. chunk[w] \in 1 .. Chunks[os[obj[w]]] /\ Piece(w) = <<os[obj[w]], chunk[w]>>
    <2>1. Chunks[os[obj[w]]] \in Nat /\ chunk[w] \in Nat \ {0}
      BY <1>3, DeliveryAssumption DEF TypeOK
    <2> QED BY <1>3, <2>1 DEF Piece
  <1>5. Piece(w) \in {<<os[obj[w]], c>> : c \in 1 .. Chunks[os[obj[w]]]}
    BY <1>4
  <1>6. Piece(w) \in PiecesOf(msg[w]) /\ Piece(w) \in Pieces
    BY <1>2, <1>3, <1>5 DEF PiecesOf, Pieces
  <1>7. Ahead(w, Piece(w))
    BY <1>2, <1>3, <1>4 DEF Ahead
  <1> QED BY <1>1, <1>6, <1>7 DEF Due

\* Loki takes the piece in hand n times, after which it is no longer due.
LEMMA PushSpends ==
  ASSUME TypeOK, Bookkeeping, Allowances, NEW w \in Workers, InObjects(w),
         UNCHANGED receives, NEW n \in 0 .. PushCopies, Accept(w, n),
         n # 0 => chunk[w] <= Chunks[Object(w)],
         \A v \in Workers : \A m \in Messages : \A p \in Pieces : Due(v, m, p)' => Due(v, m, p),
         n # 0 => \A q \in Pieces : \A m \in Messages :
                    q = Piece(w) /\ Owner(m, q) => ~Due(w, m, q)'
  PROVE  Allowances'
  <1> USE DeliveryAssumption
  <1>1. CASE n = 0
    BY <1>1, NothingDue DEF Accept
  <1>2. CASE n # 0
    <2>1. /\ Piece(w) \in PiecesOf(msg[w]) /\ Piece(w) \in Pieces /\ msg[w] \in Messages
          /\ Due(w, msg[w], Piece(w))
      BY <1>2, PushedIsDue
    <2>2. PICK q \in Pieces : q = Piece(w)
      BY <2>1
    <2>3. /\ copies' = [copies EXCEPT ![q] = copies[q] + n]
          /\ copies \in [Pieces -> Nat] /\ n \in Nat /\ n <= PushCopies /\ PushCopies \in Nat
      BY <1>2, <2>2 DEF Accept, TypeOK
    <2> SUFFICES ASSUME NEW p \in Pieces, NEW m \in Messages, Owner(m, p)
                 PROVE  Spent(m, p)'
      BY DEF Allowances, Owner, Naming, NamesOnce, PiecesOf
    <2>4. Spent(m, p) /\ Allowed(m)' = Allowed(m) /\ Allowed(m) \in Nat
      <3>1. receives[m] \in Nat
        BY DEF TypeOK
      <3> QED BY <3>1 DEF Allowances, Allowed
    <2>5. CASE p # q
      <3>1. copies'[p] = copies[p]
        BY <2>3, <2>5
      <3> QED BY <2>4, <3>1 DEF Spent
    <2>6. CASE p = q
      <3>1. m = msg[w]
        BY <2>1, <2>2, <2>6 DEF Owner, Naming
      <3>2. copies[p] + PushCopies <= Allowed(m)
        BY <2>1, <2>2, <2>4, <2>6, <3>1 DEF Spent
      <3>3. copies'[p] <= Allowed(m)
        BY <2>3, <2>4, <2>6, <3>2
      <3>4. ASSUME NEW v \in Workers, Due(v, m, p)' PROVE FALSE
        <4>1. v # w
          BY <1>2, <2>2, <2>6, <3>4
        <4>2. m \in todo[v] /\ m \in todo[w]
          BY <2>1, <3>1, <3>4 DEF Due
        <4> QED BY <4>1, <4>2 DEF Bookkeeping, Books, NoRacingRedelivery
      <3> QED BY <2>4, <3>3, <3>4 DEF Spent
    <2> QED BY <2>5, <2>6
  <1> QED BY <1>1, <1>2

\* What a worker that pushes, gives up on or finishes an object has before it.
LEMMA AheadShrinks ==
  ASSUME TypeOK, Bookkeeping, NEW w \in Workers,
         ShipChunk(w) \/ FailObject(w) \/ FinishObject(w)
  PROVE  /\ \A v \in Workers : \A m \in Messages : \A p \in Pieces : Due(v, m, p)' => Due(v, m, p)
         /\ chunk[w] <= Chunks[Object(w)] =>
              \A q \in Pieces : \A m \in Messages :
                q = Piece(w) /\ Owner(m, q) => ~Due(w, m, q)'
  <1>1. /\ UNCHANGED <<todo, pc, msg>> /\ InObjects(w)
        /\ \A v \in Workers \ {w} : obj'[v] = obj[v] /\ chunk'[v] = chunk[v]
    BY DEF ShipChunk, FailObject, FinishObject, InObjects, TypeOK, runVars
  <1>2. \/ obj'[w] = obj[w] /\ chunk'[w] = chunk[w] + 1
        \/ obj'[w] = obj[w] + 1 /\ chunk'[w] = 1
    BY DEF ShipChunk, FailObject, FinishObject, TypeOK
  <1>3. obj[w] \in Nat /\ chunk[w] \in Nat /\ msg[w] \in todo[w] /\ msg[w] \in Messages /\ pc[w] = "ship"
    BY <1>1 DEF TypeOK, InObjects, Bookkeeping, Books
  <1>4. PICK os \in Seq(Objects) : os = ObjectsOf[msg[w]] /\ os = ObjectsOf[msg'[w]]
    BY <1>1, <1>3, DeliveryAssumption
  <1>5. obj[w] \in DOMAIN os /\ DOMAIN os \subseteq Nat /\ Object(w) = os[obj[w]]
    BY <1>1, <1>3, <1>4 DEF InObjects, Object, TypeOK
  <1>6. ASSUME NEW p \in Pieces, Ahead(w, p)' PROVE Ahead(w, p)
    <2>1. PICK i \in DOMAIN os : /\ p[1] = os[i]
                                 /\ i > obj'[w] \/ (i = obj'[w] /\ p[2] >= chunk'[w])
      BY <1>4, <1>6 DEF Ahead
    <2>2. p[2] \in Nat
      BY DeliveryAssumption DEF Pieces
    <2>3. i > obj[w] \/ (i = obj[w] /\ p[2] >= chunk[w])
      BY <1>2, <1>3, <1>5, <2>1, <2>2
    <2> QED BY <1>4, <2>1, <2>3 DEF Ahead
  <1>7. \A v \in Workers : \A m \in Messages : \A p \in Pieces : Due(v, m, p)' => Due(v, m, p)
    BY <1>1, <1>6 DEF Due, Ahead
  <1>8. ASSUME chunk[w] <= Chunks[Object(w)], NEW q \in Pieces, NEW m \in Messages,
               q = Piece(w), Owner(m, q), Due(w, m, q)'
        PROVE  FALSE
    <2>1. m = msg[w]
      BY <1>1, <1>8, PushedIsDue DEF Owner, Naming
    <2>2. Ahead(w, q)'
      BY <1>1, <1>3, <1>8, <2>1 DEF Due
    <2>3. PICK i \in DOMAIN os : /\ q[1] = os[i]
                                 /\ i > obj'[w] \/ (i = obj'[w] /\ q[2] >= chunk'[w])
      BY <1>4, <2>2 DEF Ahead
    <2>4. q[1] = os[obj[w]] /\ q[2] = chunk[w]
      BY <1>5, <1>8 DEF Piece
    <2>5. i = obj[w]
      <3>1. \A j, k \in DOMAIN os : os[j] = os[k] => j = k
        BY <1>4, <1>8, <2>1 DEF Owner, NamesOnce
      <3> QED BY <1>5, <2>3, <2>4, <3>1
    <2> QED BY <1>2, <1>3, <2>3, <2>4, <2>5
  <1> QED BY <1>7, <1>8

\* One more delivery allows one more push.
LEMMA OneMore ==
  ASSUME NEW k \in Nat, NEW r \in Nat
  PROVE  k * (r + 1) = k * r + k
  OBVIOUS

LEMMA AllowanceStep ==
  ASSUME TypeOK, Shipping, Bookkeeping, Allowances, [Next]_vars
  PROVE  Allowances'
  <1> USE DeliveryAssumption
  <1>1. ASSUME NEW w \in Workers, NEW B \in SUBSET Messages, Receive(w, B)
        PROVE  Allowances'
    <2>1. /\ UNCHANGED <<copies, msg, obj, chunk>> /\ pc'[w] = "scan" /\ todo'[w] \subseteq B
          /\ \A v \in Workers \ {w} : todo'[v] = todo[v] /\ pc'[v] = pc[v]
          /\ \A m \in Messages : receives'[m] = IF m \in B THEN receives[m] + 1 ELSE receives[m]
      BY <1>1 DEF Receive, TypeOK, workVars
    <2>2. \A v \in Workers : B \cap todo[v] = {}
      <3>1. \A n \in B : status[n] = "visible"
        BY <1>1 DEF Receive, Deliverable
      <3>2. \A v \in Workers : \A n \in todo[v] : status[n] = "inflight"
        BY DEF Bookkeeping, Books
      <3> QED BY <3>1, <3>2
    <2> SUFFICES ASSUME NEW p \in Pieces, NEW m \in Messages, Owner(m, p)
                 PROVE  Spent(m, p)'
      BY DEF Allowances, Owner, Naming, NamesOnce, PiecesOf
    <2>3. Spent(m, p) /\ copies[p] \in Nat /\ PushCopies \in Nat /\ receives[m] \in Nat
          /\ Allowed(m) \in Nat
      BY DEF Allowances, TypeOK, Allowed
    <2>4. \A v \in Workers \ {w} : Due(v, m, p)' => Due(v, m, p)
      BY <2>1 DEF Due, Ahead
    <2>5. CASE m \in B
      <3>1. Allowed(m)' = Allowed(m) + PushCopies
        <4>1. receives'[m] = receives[m] + 1
          BY <2>1, <2>5
        <4>2. PushCopies * (receives[m] + 1) = PushCopies * receives[m] + PushCopies
          BY <2>3, OneMore
        <4> QED BY <4>1, <4>2 DEF Allowed
      <3>2. copies'[p] = copies[p] /\ copies[p] <= Allowed(m)
        BY <2>1, <2>3 DEF Spent
      <3>3. copies'[p] <= Allowed(m)' /\ copies'[p] + PushCopies <= Allowed(m)'
        BY <2>3, <3>1, <3>2
      <3> QED BY <3>3 DEF Spent
    <2>6. CASE m \notin B
      <3>1. Allowed(m)' = Allowed(m) /\ ~Due(w, m, p)'
        BY <2>1, <2>6 DEF Allowed, Due
      <3> QED BY <2>1, <2>3, <2>4, <3>1 DEF Spent
    <2> QED BY <2>5, <2>6
  <1>2. ASSUME NEW m \in Messages, VisibilityTimeout(m) \/ Park(m)
        PROVE  Allowances'
    <2>1. UNCHANGED <<copies, receives, workVars, runVars>>
      BY <1>2 DEF VisibilityTimeout, Park
    <2> QED BY <2>1, NothingDue DEF Due, Ahead, workVars, runVars
  <1>3. ASSUME NEW w \in Workers, RejectEvent(w) \/ Return(w)
        PROVE  Allowances'
    <2>1. UNCHANGED <<copies, receives, msg, obj, chunk>> /\ EndInvocation(w)
      BY <1>3 DEF RejectEvent, Return, queueVars, workVars
    <2>2. todo'[w] = {} /\ \A v \in Workers \ {w} : todo'[v] = todo[v] /\ pc'[v] = pc[v]
      BY <2>1 DEF EndInvocation, TypeOK
    <2> QED BY <2>1, <2>2, NothingDue DEF Due, Ahead
  <1>4. ASSUME NEW w \in Workers, NEW m \in Messages, SkipLate(w, m) \/ FailMalformed(w, m)
        PROVE  Allowances'
    <2>1. /\ UNCHANGED <<copies, receives, pc, msg, obj, chunk>>
          /\ todo' = [todo EXCEPT ![w] = @ \ {m}]
      BY <1>4 DEF SkipLate, FailMalformed, queueVars, workVars
    <2>2. \A v \in Workers : todo'[v] \subseteq todo[v]
      BY <2>1 DEF TypeOK
    <2> QED BY <2>1, <2>2, NothingDue DEF Due, Ahead
  <1>5. ASSUME NEW w \in Workers, NEW m \in Messages, StartMessage(w, m)
        PROVE  Allowances'
    <2>1. /\ UNCHANGED <<copies, receives, todo, obj, chunk>> /\ pc[w] = "scan"
          /\ \A v \in Workers \ {w} : pc'[v] = pc[v] /\ msg'[v] = msg[v]
      BY <1>5 DEF StartMessage, queueVars, TypeOK
    <2> QED BY <2>1, NothingDue DEF Due, Ahead
  <1>6. ASSUME NEW w \in Workers, ShipChunk(w)
        PROVE  Allowances'
    <2>1. InObjects(w) /\ chunk[w] <= Chunks[Object(w)] /\ UNCHANGED receives
      BY <1>6 DEF ShipChunk, queueVars
    <2>2. PICK n \in 1 .. PushCopies : Accept(w, n)
      BY <1>6 DEF ShipChunk
    <2>3. n \in 0 .. PushCopies
      BY <2>2
    <2> QED BY <1>6, <2>1, <2>2, <2>3, AheadShrinks, PushSpends
  <1>7. ASSUME NEW w \in Workers, FailObject(w)
        PROVE  Allowances'
    <2>1. InObjects(w) /\ UNCHANGED receives
      BY <1>7 DEF FailObject, queueVars
    <2>2. PICK n \in 0 .. (IF chunk[w] <= Chunks[Object(w)] THEN PushCopies ELSE 0) : Accept(w, n)
      BY <1>7 DEF FailObject
    <2>3. n \in 0 .. PushCopies /\ (n # 0 => chunk[w] <= Chunks[Object(w)])
      BY <2>2
    <2> QED BY <1>7, <2>1, <2>2, <2>3, AheadShrinks, PushSpends
  <1>8. ASSUME NEW w \in Workers, FinishObject(w)
        PROVE  Allowances'
    <2>1. UNCHANGED <<copies, receives>>
      BY <1>8 DEF FinishObject, queueVars
    <2> QED BY <1>8, <2>1, AheadShrinks, NothingDue
  <1>9. ASSUME NEW w \in Workers, FinishMessage(w)
        PROVE  Allowances'
    <2>1. /\ UNCHANGED <<copies, receives>>
          /\ todo' = [todo EXCEPT ![w] = @ \ {msg[w]}] /\ pc[w] = "ship"
          /\ \A v \in Workers \ {w} : /\ pc'[v] = pc[v] /\ msg'[v] = msg[v]
                                      /\ obj'[v] = obj[v] /\ chunk'[v] = chunk[v]
      BY <1>9 DEF FinishMessage, EndMessage, queueVars, TypeOK
    <2>2. /\ todo'[w] \subseteq todo[w] /\ msg[w] \notin todo'[w]
          /\ \A v \in Workers \ {w} : todo'[v] = todo[v]
      BY <2>1 DEF TypeOK
    <2>3. ASSUME NEW v \in Workers, NEW m \in Messages, NEW p \in Pieces, Due(v, m, p)'
          PROVE  Due(v, m, p)
      <3>1. CASE v = w
        BY <2>2, <2>3, <3>1 DEF Due
      <3>2. CASE v # w
        BY <2>1, <2>2, <2>3, <3>2 DEF Due, Ahead
      <3> QED BY <3>1, <3>2
    <2> QED BY <2>1, <2>3, NothingDue
  <1>10. ASSUME NEW w \in Workers, TimeoutKill(w)
         PROVE  Allowances'
    <2>1. UNCHANGED receives /\ EndInvocation(w) /\ EndMessage(w)
      BY <1>10 DEF TimeoutKill, queueVars
    <2>2. /\ todo'[w] = {}
          /\ \A v \in Workers \ {w} : /\ todo'[v] = todo[v] /\ pc'[v] = pc[v] /\ msg'[v] = msg[v]
                                      /\ obj'[v] = obj[v] /\ chunk'[v] = chunk[v]
      BY <2>1 DEF EndInvocation, EndMessage, TypeOK
    <2>3. \A v \in Workers : \A m \in Messages : \A p \in Pieces : Due(v, m, p)' => Due(v, m, p)
      BY <2>2 DEF Due, Ahead
    <2>4. \A q \in Pieces : \A m \in Messages : ~Due(w, m, q)'
      BY <2>2 DEF Due
    <2>5. CASE UNCHANGED copies
      BY <2>1, <2>3, <2>5, NothingDue
    <2>6. CASE /\ InObjects(w) /\ chunk[w] <= Chunks[Object(w)]
               /\ \E n \in 0 .. PushCopies : Accept(w, n)
      <3>1. PICK n \in 0 .. PushCopies : Accept(w, n)
        BY <2>6
      <3> QED BY <2>1, <2>3, <2>4, <2>6, <3>1, PushSpends
    <2> QED BY <1>10, <2>5, <2>6 DEF TimeoutKill
  <1>11. CASE UNCHANGED vars
    BY <1>11, NothingDue DEF Due, Ahead, vars, queueVars, workVars, runVars
  <1> QED
    BY <1>1, <1>2, <1>3, <1>4, <1>5, <1>6, <1>7, <1>8, <1>9, <1>10, <1>11 DEF Next, Work

\* A piece is stored at most once per delivery of the one message that names it,
\* times what one push may store: DuplicatesBounded, for any retries and kills.
THEOREM FewDuplicates == Spec => []DuplicatesBounded
  <1>1. Init => Allowances
    <2> SUFFICES ASSUME Init, NEW p \in Pieces, NEW m \in Messages PROVE Spent(m, p)
      BY DEF Allowances
    <2>1. copies[p] = 0 /\ Allowed(m) = 0 /\ \A w \in Workers : todo[w] = {}
      BY DeliveryAssumption DEF Init, Allowed
    <2> QED BY <2>1 DEF Spent, Due
  <1>2. Allowances => DuplicatesBounded
    BY DEF Allowances, Spent, Allowed, Owner, DuplicatesBounded
  <1>3. Inv /\ Allowances /\ [Next]_vars => Allowances'
    BY AllowanceStep DEF Inv
  <1> QED BY <1>1, <1>2, <1>3, InvHolds, PTL DEF Spec

-----------------------------------------------------------------------------
(* The refinement of AtLeastOnce.                                          *)

LEMMA PromiseStep ==
  ASSUME Inv, [Next]_vars
  PROVE  [Promise!Next]_(Promise!vars)
  <1> DEFINE outcome == [m \in Messages |->
                           CASE status[m] = "deleted" -> "acknowledged"
                             [] status[m] = "dead"    -> "parked"
                             [] OTHER                 -> "pending"]
             stored  == {p \in Pieces : copies[p] > 0}
  <1>1. ASSUME UNCHANGED status, \A p \in Pieces : copies[p] <= copies'[p],
               copies' \in [Pieces -> Nat]
        PROVE  Promise!Store
    BY <1>1 DEF Promise!Store, Inv, TypeOK
  <1>2. ASSUME outcome' = outcome, UNCHANGED copies
        PROVE  UNCHANGED Promise!vars
    BY <1>2 DEF Promise!vars
  <1>3. ASSUME NEW w \in Workers, NEW B \in SUBSET Messages, Receive(w, B)
        PROVE  UNCHANGED Promise!vars
    <2>1. \A m \in Messages : status'[m] = status[m]
                              \/ (status[m] = "visible" /\ status'[m] = "inflight")
      BY <1>3 DEF Receive, Deliverable
    <2>2. outcome' = outcome
      <3>1. \A n \in Messages : /\ (status'[n] = "deleted") <=> (status[n] = "deleted")
                                /\ (status'[n] = "dead") <=> (status[n] = "dead")
        BY <2>1
      <3>2. \A n \in Messages : outcome'[n] = outcome[n]
        BY <3>1
      <3> QED BY <3>2
    <2>3. UNCHANGED copies
      BY <1>3 DEF Receive
    <2> QED BY <1>2, <2>2, <2>3
  <1>4. ASSUME NEW m \in Messages, VisibilityTimeout(m)
        PROVE  UNCHANGED Promise!vars
    <2>1. \A n \in Messages : status'[n] = status[n]
                              \/ (status[n] = "inflight" /\ status'[n] = "visible")
      BY <1>4 DEF VisibilityTimeout, Inv, TypeOK
    <2>2. outcome' = outcome
      <3>1. \A n \in Messages : /\ (status'[n] = "deleted") <=> (status[n] = "deleted")
                                /\ (status'[n] = "dead") <=> (status[n] = "dead")
        BY <2>1
      <3>2. \A n \in Messages : outcome'[n] = outcome[n]
        BY <3>1
      <3> QED BY <3>2
    <2>3. UNCHANGED copies
      BY <1>4 DEF VisibilityTimeout
    <2> QED BY <1>2, <2>2, <2>3
  <1>5. ASSUME NEW m \in Messages, Park(m)
        PROVE  Promise!Park(m)
    <2>1. outcome[m] = "pending"
      BY <1>5 DEF Park
    <2>2. outcome' = [outcome EXCEPT ![m] = "parked"]
      BY <1>5 DEF Park, Inv, TypeOK
    <2>3. stored' = stored
      BY <1>5 DEF Park
    <2> QED BY <2>1, <2>2, <2>3 DEF Promise!Park
  <1>6. ASSUME NEW w \in Workers, Return(w)
        PROVE  \E A \in SUBSET Messages : Promise!Acknowledge(A)
    <2>0. PICK A \in SUBSET Messages : A = batch[w] \ failed[w]
      BY DEF Inv, TypeOK
    <2>1. \A m \in A : m \in Messages /\ status[m] = "inflight"
      BY <2>0 DEF Inv, Bookkeeping, Books
    <2>2. \A m \in A : outcome[m] = "pending"
      BY <2>1
    <2>3. \A m \in A : m \notin Direct => Honoured(m)
      BY <1>6, <2>0, ReturnHonours DEF Inv
    <2>4. \A m \in A : m \notin {n \in Messages : Kind[n] = "malformed"}
      BY <2>1, <2>3, DeliveryAssumption DEF Honoured
    <2>5. ASSUME NEW m \in A, m \notin Direct, Kind[m] = "work"
          PROVE  PiecesOf(m) \subseteq stored
      <3>1. m \in Messages /\ \A i \in DOMAIN ObjectsOf[m] : ObjectsOf[m][i] \in Objects
        BY <2>1, DeliveryAssumption
      <3> QED BY <2>3, <2>5, <3>1 DEF Honoured, Shipped, Stored, PiecesOf, Pieces
    <2>6. outcome' = [m \in Messages |-> IF m \in A THEN "acknowledged" ELSE outcome[m]]
      BY <1>6, <2>0 DEF Return
    <2>7. stored' = stored
      BY <1>6 DEF Return
    <2>8. \A m \in A : [n \in Messages |-> IF n \in Direct \/ Kind[n] # "work"
                                          THEN {} ELSE PiecesOf(n)][m] \subseteq stored
      BY <2>1, <2>5
    <2>9. Promise!Acknowledge(A)
      BY <2>2, <2>4, <2>6, <2>7, <2>8 DEF Promise!Acknowledge
    <2> QED BY <2>9
  <1>7. ASSUME NEW w \in Workers, ShipChunk(w) \/ FailObject(w) \/ TimeoutKill(w)
        PROVE  Promise!Store
    <2>1. UNCHANGED status
      BY <1>7 DEF ShipChunk, FailObject, TimeoutKill, queueVars
    <2> QED BY <1>1, <1>7, <2>1, PushSteps DEF Inv
  <1>8. ASSUME UNCHANGED <<status, copies>>
        PROVE  UNCHANGED Promise!vars
    BY <1>2, <1>8
  <1>9. ASSUME NEW w \in Workers, NEW m \in Messages,
               SkipLate(w, m) \/ FailMalformed(w, m) \/ StartMessage(w, m)
        PROVE  UNCHANGED Promise!vars
    BY <1>8, <1>9 DEF SkipLate, FailMalformed, StartMessage, queueVars
  <1>10. ASSUME NEW w \in Workers, RejectEvent(w) \/ FinishObject(w) \/ FinishMessage(w)
         PROVE  UNCHANGED Promise!vars
    BY <1>8, <1>10 DEF RejectEvent, FinishObject, FinishMessage, queueVars
  <1>11. ASSUME UNCHANGED vars
         PROVE  UNCHANGED Promise!vars
    BY <1>8, <1>11 DEF vars, queueVars
  <1> HIDE DEF outcome, stored
  <1> QED
    BY <1>3, <1>4, <1>5, <1>6, <1>7, <1>9, <1>10, <1>11 DEF Next, Work, Promise!Next

\* The pipeline implements AtLeastOnce (KeepsPromise): every step stores
\* pieces, acknowledges notifications that are owed nothing any more, parks
\* one, or changes neither.
THEOREM Refines == Spec => KeepsPromise
  <1>1. Init => Promise!Init
    BY DEF Init, Promise!Init
  <1> QED BY <1>1, PromiseStep, InvHolds, PTL DEF Spec, KeepsPromise, Promise!Spec

-----------------------------------------------------------------------------
(* The push that S3Delivery has in one step, as LokiPush has it in many:   *)
(* for every retry limit, TTL, backoff cap and number of rotations.        *)

\* Where a push stands: how many copies the attempts so far can have left, and
\* that an outcome is only there between pushes.
Counting ==
  /\ phase # "idle" => attempt >= 1 /\ result = "none"
  /\ phase \in {"auth", "fetch", "send"} => accepted < attempt
  /\ phase = "wait" => attempt < MaxRetries
  /\ accepted <= attempt
  /\ result = "ok" => accepted >= 1

\* The clock has reached every recorded time, and no cache entry outlives its
\* token by a TTL: it expires one TTL after the question, and the token was
\* still the secret when the question was answered.
Times ==
  /\ authAt <= clock
  /\ expiresAt <= clock + Ttl
  /\ cached # NoToken => cached = secret \/ expiresAt <= replacedAt[cached] + Ttl
  /\ phase = "fetch" /\ reading # NoToken => reading = secret \/ authAt <= replacedAt[reading]

Sound == RetryTokenFresh /\ GivesUpOnlyDuringRotation

PushInv == PushTypeOK /\ Counting /\ Times /\ Sound

LEMMA RetryAfterTypes ==
  ASSUME NEW ra \in RetryAfterHeaders, attempt \in Nat
  PROVE  Waits(ra) \subseteq Nat
  BY PushAssumption DEF RetryAfterHeaders, Waits, Lesser

\* What one decision to retry or to give up leaves behind.
LEMMA RetryStep ==
  ASSUME PushInv, NEW ra \in RetryAfterHeaders, phase = "send", Retry(ra)
  PROVE  /\ phase' \in {"wait", "idle"} /\ wakeAt' \in Nat
         /\ phase' = "wait" => result' = "none" /\ attempt < MaxRetries
         /\ result' \in {"none", "retryable"}
  <1>1. Waits(ra) \subseteq Nat
    BY RetryAfterTypes, PushAssumption DEF PushInv, PushTypeOK
  <1>2. \A s \in Waits(ra) : clock + s \in Nat
    BY <1>1 DEF PushInv, PushTypeOK
  <1>3. result = "none"
    BY DEF PushInv, Counting
  <1> QED BY <1>2, <1>3 DEF Retry, Finish, PushInv, PushTypeOK

\* Every step keeps the invariant.
LEMMA PushInvStep ==
  ASSUME PushInv, [PushNext]_pushVars
  PROVE  PushInv'
  <1> USE PushAssumption DEF PushInv, Sound, RetryTokenFresh, GivesUpOnlyDuringRotation, FreshAt
  <1>1. CASE Tick
    BY <1>1 DEF Tick, PushTypeOK, Counting, Times, envVars, credVars
  <1>2. CASE Rotate
    <2>1. /\ secret \in Nat /\ secret' = secret + 1 /\ secret' \in Tokens
          /\ replacedAt' \in [Tokens -> Nat] /\ replacedAt'[secret] = clock
          /\ \A t \in Tokens \ {secret} : replacedAt'[t] = replacedAt[t]
          /\ live' \subseteq Tokens
      BY <1>2 DEF Rotate, PushTypeOK, Tokens
    <2> QED BY <1>2, <2>1 DEF Rotate, PushTypeOK, Counting, Times, credVars
  <1>3. ASSUME NEW t \in Tokens, Revoke(t) PROVE PushInv'
    BY <1>3 DEF Revoke, PushTypeOK, Counting, Times, credVars
  <1>4. CASE StartPush
    BY <1>4 DEF StartPush, PushTypeOK, Counting, Times, envVars, credVars
  <1>5. CASE UseHeader
    BY <1>5 DEF UseHeader, PushTypeOK, Counting, Times, envVars, credVars
  <1>6. CASE UseCache
    BY <1>6 DEF UseCache, CacheHit, PushTypeOK, Counting, Times, envVars, credVars
  <1>7. CASE AskSecret
    BY <1>7 DEF AskSecret, PushTypeOK, Counting, Times, envVars, credVars
  <1>8. CASE ReadSecret
    BY <1>8 DEF ReadSecret, PushTypeOK, Counting, Times, envVars, credVars
  <1>9. CASE SecretAnswered
    BY <1>9 DEF SecretAnswered, PushTypeOK, Counting, Times, envVars
  <1>10. ASSUME NEW r \in {"secretRetryable", "permanent"}, SecretFails(r) PROVE PushInv'
    BY <1>10 DEF SecretFails, Finish, PushTypeOK, Counting, Times, envVars, credVars
  <1>11. CASE Accepted
    BY <1>11 DEF Accepted, Finish, PushTypeOK, Counting, Times, envVars, credVars
  <1>12. ASSUME NEW ra \in RetryAfterHeaders, Busy(ra) \/ (Lost /\ ra = {}) PROVE PushInv'
    <2>1. /\ phase = "send" /\ MaybeAccepted /\ Retry(ra)
          /\ UNCHANGED <<clock, envVars, credVars, header, attempt, authAt, reading>>
      BY <1>12 DEF Busy, Lost
    <2>2. accepted' \in 0 .. attempt
      BY <2>1 DEF MaybeAccepted, PushTypeOK, Counting
    <2> QED BY <2>1, <2>2, RetryStep DEF PushTypeOK, Counting, Times, envVars, credVars
  <1>13. CASE Unauthorised
    <2>1. CASE attempt = 1
      <3>1. /\ phase = "send" /\ Retry({}) /\ header' = NoToken
            /\ UNCHANGED <<clock, envVars, credVars, attempt, authAt, reading, accepted>>
        BY <1>13, <2>1 DEF Unauthorised
      <3>2. {} \in RetryAfterHeaders
        BY DEF RetryAfterHeaders
      <3> QED BY <3>1, <3>2, RetryStep DEF PushTypeOK, Counting, Times, envVars, credVars
    <2>2. CASE attempt # 1
      BY <1>13, <2>2 DEF Unauthorised, Finish, PushTypeOK, Counting, Times, envVars, credVars
    <2> QED BY <2>1, <2>2
  <1>14. CASE Rejected
    BY <1>14 DEF Rejected, Finish, PushTypeOK, Counting, Times, envVars, credVars
  <1>15. CASE Wake
    <2>1. attempt < MaxRetries
      BY <1>15 DEF Wake, Counting
    <2> QED BY <1>15, <2>1 DEF Wake, PushTypeOK, Counting, Times, envVars, credVars
  <1>16. CASE UNCHANGED pushVars
    BY <1>16 DEF pushVars, PushTypeOK, Counting, Times, envVars, credVars
  <1> QED
    <2>1. {} \in RetryAfterHeaders
      BY DEF RetryAfterHeaders
    <2> QED
      BY <2>1, <1>1, <1>2, <1>3, <1>4, <1>5, <1>6, <1>7, <1>8, <1>9, <1>10, <1>11, <1>12,
         <1>13, <1>14, <1>15, <1>16 DEF PushNext

LEMMA PushInvAlways == PushSpec => []PushInv
  <1>1. PushInit => PushInv
    BY PushAssumption DEF PushInit, PushInv, PushTypeOK, Counting, Times, Sound, RetryTokenFresh,
                          GivesUpOnlyDuringRotation, Tokens
  <1> QED BY <1>1, PushInvStep, PTL DEF PushSpec

\* Every retry carries a token that was current less than one TTL before it
\* asked: RetryTokenFresh.
THEOREM RetriesAreFresh == PushSpec => []RetryTokenFresh
  <1>1. PushInv => RetryTokenFresh
    BY DEF PushInv, Sound
  <1> QED BY <1>1, PushInvAlways, PTL

\* A push gives up on 401 only within one TTL of a rotation:
\* GivesUpOnlyDuringRotation.
THEOREM OldRotationsRecover == PushSpec => []GivesUpOnlyDuringRotation
  <1>1. PushInv => GivesUpOnlyDuringRotation
    BY DEF PushInv, Sound
  <1> QED BY <1>1, PushInvAlways, PTL

\* "ok" means at least one copy and every outcome at most one per attempt:
\* PushContract, which the ShipChunk and FailObject steps of S3Delivery assume.
THEOREM Contract == PushSpec => []PushContract
  <1>1. PushInv => PushContract
    BY PushAssumption DEF PushInv, PushTypeOK, Counting, PushContract
  <1> QED BY <1>1, PushInvAlways, PTL

\* A push that returns has left at least one copy and at most one per attempt:
\* the step of S3Delivery that ships a piece has all of its outcomes.
THEOREM PushFitsDelivery ==
  ASSUME PushCopies = MaxRetries
  PROVE  PushSpec => [](result = "ok" => accepted \in 1 .. PushCopies)
  <1>1. PushInv => (result = "ok" => accepted \in 1 .. PushCopies)
    BY PushAssumption DEF PushInv, PushTypeOK, Counting
  <1> QED  BY <1>1, PushInvAlways, PTL
=============================================================================
