------------------------------ MODULE Exposure ------------------------------
(***************************************************************************)
(* What the execution layer promises the layers above it, and nothing of   *)
(* how: an order may trade only out of room that was opened for it, every  *)
(* fill that is reported uses up that room, and room that is withdrawn     *)
(* is gone: nothing is reported against it until room is opened again.     *)
(***************************************************************************)
EXTENDS Integers

CONSTANTS
  Order,  \* client order ids
  Qty     \* the largest quantity opened at once

VARIABLES
  room,   \* quantity each order may still trade
  booked  \* quantity reported for each order

vars == <<room, booked>>

Init ==
  /\ room = [c \in Order |-> 0]
  /\ booked = [c \in Order |-> 0]

Open(c, q) ==
  /\ room[c] = 0
  /\ room' = [room EXCEPT ![c] = q]
  /\ UNCHANGED booked

Book(c, q) ==
  /\ q <= room[c]
  /\ room' = [room EXCEPT ![c] = @ - q]
  /\ booked' = [booked EXCEPT ![c] = @ + q]

Withdraw(c, left) ==
  /\ left <= room[c]
  /\ room' = [room EXCEPT ![c] = left]
  /\ UNCHANGED booked

Next ==
  \E c \in Order : \/ \E q \in 1..Qty : Open(c, q) \/ Book(c, q)
                   \/ \E left \in 0..Qty : Withdraw(c, left)

Spec == Init /\ [][Next]_vars
=============================================================================
