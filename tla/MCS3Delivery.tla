---------------------------- MODULE MCS3Delivery -----------------------------
(***************************************************************************)
(* The delivery model on small event streams: the kind and the objects of  *)
(* each notification come from parse_event (S3Events) applied to its body. *)
(***************************************************************************)
EXTENDS S3Delivery

CONSTANTS
  pair, poison, stray,    \* notifications
  NoObject, NoId

large  == [bucket |-> "bucket", key |-> <<"x">>]
empty  == [bucket |-> "bucket", key |-> <<" ">>]
second == [bucket |-> "bucket", key |-> <<"+">>]

MCObjects == {large, empty, second}

\* `large` needs two pushes, `empty` is skipped by ship_object.
MCChunks == [o \in MCObjects |-> IF o = large THEN 2 ELSE IF o = empty THEN 0 ELSE 1]

E == INSTANCE S3Events WITH
  Tokens <- {"x", "+", "%2B"}, MaxKey <- 1, BodyShapes <- {"notJson", "notification"},
  MaxRecords <- 1, MaxNamed <- 3, event <- <<>>

Removed(o) == [E!CreationOf(o) EXCEPT !.name = "ObjectRemoved"]

MCBody ==
  [m \in {pair, poison} |->
     IF m = poison THEN [shape |-> "notJson"]
     ELSE [shape   |-> "notification",
           records |-> <<E!CreationOf(large), Removed(second), E!CreationOf(empty)>>]]

\* `stray` is a direct event of unknown shape.
MCKind == [m \in Messages |-> IF m = stray THEN "unknown" ELSE E!KindOfSqs(MCBody[m])]

MCObjectsOf == [m \in Messages |-> IF m = pair THEN E!ObjectsOfBody(MCBody[m]) ELSE <<>>]
=============================================================================
