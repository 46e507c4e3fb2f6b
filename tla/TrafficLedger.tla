--------------------------- MODULE TrafficLedger ---------------------------
(***************************************************************************)
(* What traffic accounting promises the operator of a node: every byte a   *)
(* user moves is charged to that user at most once, at the tunnel's rate.  *)
(* Bytes may go unbilled; a byte billed twice, or billed to somebody who   *)
(* did not move it, is what must not happen.                               *)
(***************************************************************************)
EXTENDS Naturals

CONSTANT Ids

VARIABLES
  used,    \* bytes each user owes: those moved, times the tunnel's rate
  open,    \* bytes on their way to the bill
  billed   \* bytes the endpoint has been told of

vars == <<used, open, billed>>

Init ==
  /\ used = [i \in Ids |-> 0]
  /\ open = [i \in Ids |-> 0]
  /\ billed = [i \in Ids |-> 0]

\* Users move bytes, some of which will be on the bill.
Use ==
  /\ billed' = billed
  /\ used' \in [Ids -> Nat] /\ open' \in [Ids -> Nat]
  /\ \A i \in Ids :
       /\ used'[i] >= used[i]
       /\ open'[i] <= open[i] + (used'[i] - used[i])

\* Open bytes are billed, or dropped.
Settle ==
  /\ used' = used
  /\ open' \in [Ids -> Nat] /\ billed' \in [Ids -> Nat]
  /\ \A i \in Ids :
       /\ billed'[i] >= billed[i]
       /\ billed'[i] + open'[i] <= billed[i] + open[i]

Next == Use \/ Settle

Spec == Init /\ [][Next]_vars

\* Nobody is billed for more than they owe.
AtMostOnce == \A i \in Ids : billed[i] + open[i] <= used[i]
=============================================================================
