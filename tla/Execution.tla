------------------------------ MODULE Execution ------------------------------
(***************************************************************************)
(* Layer 6: the order machines of fsm.py, the Executor that drives them,   *)
(* the venue that holds the orders, and the fills on their way back.       *)
(*                                                                         *)
(* Every adapter call blocks the event loop, so one handler of the         *)
(* executor is one action, the venue's answer included.  What interleaves  *)
(* is the venue itself (it fills and expires orders at any moment) and the *)
(* delivery of the fills, which arrive on another channel than the answers.*)
(***************************************************************************)
EXTENDS Integers

CONSTANTS
  Order,      \* client order ids
  Qty,        \* the quantity an intent asks for
  \* What the venues of some orders do, and those of the others do not:
  Overtakes,  \* a REST answer may overtake a fill that is still in transit
  Lossy,      \* fills in transit may be lost with the user stream
  Instant     \* a crossing order trades inside place itself

ASSUME ExecutionAssumption ==
  /\ Qty \in Nat \ {0}
  /\ Overtakes \subseteq Order /\ Lossy \subseteq Order /\ Instant \subseteq Order

VARIABLES
  machine,  \* Executor.machines, one record per client order id
  venue,    \* the venue's own record of the order
  transit   \* quantity the venue executed and has not reported yet

vars == <<machine, venue, transit>>

-----------------------------------------------------------------------------
(* fsm.py: the order machine                                               *)

Terminal == {"FILLED", "CANCELLED", "REJECTED"}
Status == {"INTENT", "PENDING", "ACKED", "PARTIAL", "QUERY"} \cup Terminal

TRANSITIONS ==
  [s \in Status |->
     CASE s = "INTENT"  -> {"PENDING", "REJECTED"}
       [] s = "PENDING" -> {"ACKED", "REJECTED", "QUERY", "FILLED", "PARTIAL"}
       [] s = "ACKED"   -> {"PARTIAL", "FILLED", "CANCELLED", "QUERY"}
       [] s = "PARTIAL" -> {"FILLED", "CANCELLED", "QUERY"}
       [] s = "QUERY"   -> {"ACKED", "PARTIAL"} \cup Terminal
       [] OTHER         -> {}]

\* "NONE" is a client order id the executor holds no machine for; raised
\* records that a handler ended in IllegalTransition.
NoMachine == [status |-> "NONE", quantity |-> Qty, filled |-> 0, raised |-> FALSE]
NewMachine(q) == [NoMachine EXCEPT !.status = "INTENT", !.quantity = q]

IsTerminal(m) == m.status \in Terminal
Remaining(m) == m.quantity - m.filled
MayPlaceFromQuery(m) == m.status \notin {"PENDING", "ACKED", "PARTIAL"}
MayPlaceNewOrder(m) == m.status \notin {"QUERY", "PENDING", "ACKED", "PARTIAL"}

Transition(m, to) ==
  IF to \in TRANSITIONS[m.status] THEN [m EXCEPT !.status = to]
                                  ELSE [m EXCEPT !.raised = TRUE]

OnSent(m) == Transition(m, "PENDING")
OnAck(m) == IF m.status = "ACKED" THEN m ELSE Transition(m, "ACKED")
OnReject(m) == Transition(m, "REJECTED")
OnNotFound(m) == Transition(m, "REJECTED")
OnCancelAck(m) == Transition(m, "CANCELLED")

OnUnknownAsRejected(m) == Transition(m, "REJECTED")
OnUnknown(m) == IF m.status = "QUERY" THEN m ELSE Transition(m, "QUERY")

\* The quantity is added before the transition is tried, so an illegal one
\* leaves it added.
OnFill(m, q) ==
  LET f == [m EXCEPT !.filled = @ + q]
  IN IF f.filled >= f.quantity THEN Transition(f, "FILLED")
     ELSE IF f.status = "PARTIAL" THEN f
     ELSE Transition(f, "PARTIAL")

OnQueryResultAdding(m, status, filled) ==
  LET f == [m EXCEPT !.filled = @ + filled]
  IN IF status \in {"QUERY", f.status} THEN f ELSE Transition(f, status)

OnQueryResult(m, status, filled) ==
  LET f == [m EXCEPT !.filled = filled]
  IN IF status \in {"QUERY", f.status} THEN f ELSE Transition(f, status)

-----------------------------------------------------------------------------
(* The venue, as the adapters report it                                    *)

NoOrder == [status |-> "NONE", quantity |-> 0, filled |-> 0]

\* The venue's answer to a query: its own status in the executor's words, or
\* a status string outside _STATUS_MAP, which the adapter turns into QUERY.
Answers(v) ==
  {CASE v.status = "LIVE" /\ v.filled = 0 -> "ACKED"
     [] v.status = "LIVE" /\ v.filled > 0 -> "PARTIAL"
     [] OTHER -> v.status,
   "QUERY"}

\* A REST call happens with fills in transit only where it may overtake them.
InOrder(c) == c \in Overtakes \/ transit[c] = 0

\* How the venue takes an order: it rests, or, in the simulator with no order
\* latency, a crossing one trades at once and step() never hands the fill over.
Arrivals(c, q) ==
  {[status |-> "LIVE", quantity |-> q, filled |-> 0]}
    \cup IF c \in Instant THEN {[status |-> "FILLED", quantity |-> q, filled |-> q]} ELSE {}

-----------------------------------------------------------------------------
Init ==
  /\ machine = [c \in Order |-> NoMachine]
  /\ venue = [c \in Order |-> NoOrder]
  /\ transit = [c \in Order |-> 0]

\* Executor.submit against an approval for q; an id submitted again is the same
\* order retried.  The venue takes the order unless it has seen the id before;
\* the answer is an acknowledgement, a definite refusal, or nothing that can be
\* relied on.
Submit(c, q) ==
  /\ \/ machine[c].status = "NONE"
     \/ MayPlaceNewOrder(machine[c]) /\ q = machine[c].quantity
  /\ LET sent == OnSent(NewMachine(q))
         taken == venue[c] = NoOrder
         Accept == \E v \in Arrivals(c, q) : venue' = [venue EXCEPT ![c] = v]
         Becomes(m) == machine' = [machine EXCEPT ![c] = m]
     IN \/ taken /\ Accept /\ Becomes(OnAck(sent))
        \/ taken /\ Accept /\ Becomes(OnUnknown(sent))
        \/ Becomes(OnUnknown(sent)) /\ UNCHANGED venue
        \/ Becomes(OnReject(sent)) /\ UNCHANGED venue
  /\ UNCHANGED transit

\* What resolve_unknown leaves behind: a failed query changes nothing.
Resolved(m, v) ==
  {m} \cup IF v.status = "NONE" THEN {OnNotFound(m)}
                                ELSE {OnQueryResult(m, s, v.filled) : s \in Answers(v)}

ResolveUnknown(c) ==
  /\ machine[c].status = "QUERY"
  /\ InOrder(c)
  /\ \E m \in Resolved(machine[c], venue[c]) : machine' = [machine EXCEPT ![c] = m]
  /\ UNCHANGED <<venue, transit>>

CancelFailedAsCancelled(c) ==
  /\ venue[c].status = "LIVE"
  /\ machine' = [machine EXCEPT ![c] = OnCancelAck(@)]
  /\ venue' = [venue EXCEPT ![c].status = "CANCELLED"] \/ UNCHANGED venue

\* Executor.cancel while the venue still works the order: acknowledged, or
\* the request failed before or after the venue acted and the error escapes
\* with the machine as it was.
CancelWorking(c) ==
  /\ venue[c].status = "LIVE"
  /\ \/ /\ venue' = [venue EXCEPT ![c].status = "CANCELLED"]
        /\ machine' = [machine EXCEPT ![c] = OnCancelAck(@)]
     \/ /\ venue' = [venue EXCEPT ![c].status = "CANCELLED"]
        /\ UNCHANGED machine
     \/ UNCHANGED <<venue, machine>>

\* The venue has nothing to cancel: CancelRejected makes the executor ask,
\* OrderNotFound (only where it holds no such id) closes the order.
CancelRefused(c) ==
  /\ venue[c].status # "LIVE"
  /\ \/ \E m \in Resolved(OnUnknown(machine[c]), venue[c]) :
          machine' = [machine EXCEPT ![c] = m]
     \/ /\ venue[c].status = "NONE"
        /\ machine' = [machine EXCEPT ![c] = OnNotFound(@)]
  /\ UNCHANGED venue

Cancel(c) ==
  /\ machine[c].status # "NONE" /\ ~IsTerminal(machine[c])
  /\ InOrder(c)
  /\ CancelWorking(c) \/ CancelRefused(c)
  /\ UNCHANGED transit

\* Executor.on_fill for one report of the user stream; a fill of an order it
\* holds no machine for touches none.
DeliverFill(c, q) ==
  /\ q <= transit[c]
  /\ machine' = [machine EXCEPT ![c] = IF @.status = "NONE" THEN @ ELSE OnFill(@, q)]
  /\ transit' = [transit EXCEPT ![c] = @ - q]
  /\ UNCHANGED venue

VenueOverfill(c, q) ==
  /\ venue[c].status = "LIVE"
  /\ venue' = [venue EXCEPT ![c].filled = @ + q]
  /\ transit' = [transit EXCEPT ![c] = @ + q]
  /\ UNCHANGED machine

\* The venue trades q of a working order.
VenueFill(c, q) ==
  /\ venue[c].status = "LIVE"
  /\ q <= venue[c].quantity - venue[c].filled
  /\ venue' = [venue EXCEPT ![c].filled = @ + q,
                            ![c].status = IF venue[c].filled + q = venue[c].quantity
                                            THEN "FILLED" ELSE @]
  /\ transit' = [transit EXCEPT ![c] = @ + q]
  /\ UNCHANGED machine

\* The venue closes the remainder itself (an IOC order, a post-only order that
\* would cross, a late order the simulated book cannot take); decode_fill and
\* step ignore it, so nobody here learns.
VenueExpire(c) ==
  /\ venue[c].status = "LIVE"
  /\ \E s \in {"CANCELLED"} \cup IF venue[c].filled = 0 THEN {"REJECTED"} ELSE {} :
       venue' = [venue EXCEPT ![c].status = s]
  /\ UNCHANGED <<machine, transit>>

\* The user stream drops and the reconnect fetches nothing it missed.
StreamDrop ==
  /\ Lossy # {}
  /\ transit' = [c \in Order |-> IF c \in Lossy THEN 0 ELSE transit[c]]
  /\ UNCHANGED <<machine, venue>>

Next ==
  \/ \E c \in Order, q \in 1..Qty : Submit(c, q)
  \/ \E c \in Order : ResolveUnknown(c)
  \/ \E c \in Order : Cancel(c)
  \/ \E c \in Order, q \in 1..Qty : DeliverFill(c, q)
  \/ \E c \in Order, q \in 1..Qty : VenueFill(c, q)
  \/ \E c \in Order : VenueExpire(c)
  \/ StreamDrop

Spec == Init /\ [][Next]_vars

-----------------------------------------------------------------------------
(* Properties                                                              *)

\* The machines, the venue's records and the fills in transit keep their
\* shape, and the venue never executes more than it was sent.
TypeOK ==
  /\ machine \in [Order -> [status: Status \cup {"NONE"}, quantity: 1..Qty,
                            filled: Nat, raised: BOOLEAN]]
  /\ venue \in [Order -> [status: {"NONE", "LIVE"} \cup Terminal,
                          quantity: 0..Qty, filled: 0..Qty]]
  /\ transit \in [Order -> Nat]

\* The orders of venues that do none of this: paper trading, and a backtest with
\* an order latency.
Reliable == Order \ (Overtakes \cup Lossy \cup Instant)

Working(c) ==
  transit[c] + IF venue[c].status = "LIVE" THEN venue[c].quantity - venue[c].filled ELSE 0

InFlightOfKnown(c) ==
  IF machine[c].status \in {"NONE", "QUERY"} \/ IsTerminal(machine[c])
    THEN 0 ELSE Remaining(machine[c])

\* One order's part of Executor.in_flight.
InFlight(c) ==
  IF machine[c].status = "NONE" \/ IsTerminal(machine[c]) THEN 0 ELSE Remaining(machine[c])

\* No handler ever asks a machine for a transition the table does not have:
\* fsm.py calls that "always a defect, never a market event".
NoIllegalTransition == \A c \in Reliable : ~machine[c].raised

\* What may still trade at the venue, or has traded unreported, is covered by
\* what Executor.in_flight subtracts from the next order: the pipeline cannot
\* order the same quantity twice, whatever timed out on the way.
InFlightCovers == \A c \in Reliable : Working(c) <= InFlight(c)

\* Local and venue account of an order agree up to the fills in transit, through
\* every timeout, refused cancel and query.
Acknowledged == {"ACKED", "PARTIAL", "FILLED", "CANCELLED"}
FilledAgrees ==
  \A c \in Reliable : machine[c].status \in Acknowledged =>
                      machine[c].filled + transit[c] = venue[c].filled

\* An order reported CANCELLED works nowhere: a failed or refused cancel is
\* never taken for a cancelled order.
CancelledIsClosed ==
  \A c \in Order : machine[c].status = "CANCELLED" => venue[c].status # "LIVE"

\* An order whose fate is unknown is written off only when the venue never
\* took it or refused it whole: nothing of it traded or can still trade.
WrittenOff(c) == machine[c].status = "QUERY" /\ machine'[c].status = "REJECTED"
WrittenOffOnlyIfAbsent ==
  [][\A c \in Order : WrittenOff(c) => venue[c].status # "LIVE" /\ venue[c].filled = 0]_vars

\* The inductive strengthening of the three invariants above, order by order:
\* whatever can still trade belongs to an open machine that agrees with it.
Consistent(m, v, t) ==
  /\ ~m.raised /\ m.status \notin {"INTENT", "PENDING"}
  /\ m.status = "NONE" => v = NoOrder
  /\ v.status = "NONE" => v = NoOrder
  /\ v.status = "LIVE" => v.filled < v.quantity
  /\ v.filled <= v.quantity /\ m.filled + t <= v.filled
  /\ m.status # "NONE" /\ v.status # "NONE" => m.quantity = v.quantity
  /\ m.status \in Acknowledged => v.status # "NONE" /\ m.filled + t = v.filled
  /\ v.status = "LIVE" \/ t > 0 => ~IsTerminal(m) /\ m.filled + t = v.filled
AccountsConsistent == \A c \in Reliable : Consistent(machine[c], venue[c], transit[c])

\* The executor's account as the abstract exposure ledger: what an order may
\* still trade, and what has been reported of it.
Ledger == INSTANCE Exposure WITH
            Order <- Reliable,
            room <- [c \in Reliable |-> InFlight(c)],
            booked <- [c \in Reliable |-> venue[c].filled - transit[c]]
RefinesExposure == Ledger!Spec
=============================================================================
