----------------------------- MODULE AtLeastOnce -----------------------------
(***************************************************************************)
(* What the S3-to-Loki pipeline promises, without queues, invocations or   *)
(* retries.  A notification owes Loki a set of pieces (the batches of the  *)
(* objects it names).  Pieces may arrive at any time and more than once; a *)
(* notification may be acknowledged only when everything it owes has       *)
(* arrived, and may otherwise be parked for an operator to redrive.        *)
(***************************************************************************)
CONSTANTS
  Messages,   \* the notifications
  Pieces,     \* the batches of all objects
  Owes,       \* the pieces each notification must see stored
  Unreadable  \* notifications that must never be acknowledged

VARIABLES
  outcome,    \* per notification: "pending", "acknowledged" or "parked"
  stored      \* pieces Loki has accepted at least once

vars == <<outcome, stored>>

Init ==
  /\ outcome = [m \in Messages |-> "pending"]
  /\ stored = {}

\* Loki accepts some pieces, new or already stored.
Store ==
  /\ stored' \in SUBSET Pieces
  /\ stored \subseteq stored'
  /\ UNCHANGED outcome

\* One response acknowledges every notification in A.
Acknowledge(A) ==
  /\ \A m \in A : /\ outcome[m] = "pending"
                  /\ m \notin Unreadable
                  /\ Owes[m] \subseteq stored
  /\ outcome' = [m \in Messages |-> IF m \in A THEN "acknowledged" ELSE outcome[m]]
  /\ UNCHANGED stored

Park(m) ==
  /\ outcome[m] = "pending"
  /\ outcome' = [outcome EXCEPT ![m] = "parked"]
  /\ UNCHANGED stored

Next ==
  \/ Store
  \/ \E A \in SUBSET Messages : Acknowledge(A)
  \/ \E m \in Messages : Park(m)

Spec == Init /\ [][Next]_vars
=============================================================================
