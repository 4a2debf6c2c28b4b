--------------------------- MODULE ExecutionProofs ---------------------------
(***************************************************************************)
(* What holds of the execution layer for every set of orders and every     *)
(* quantity.                                                               *)
(***************************************************************************)
EXTENDS Execution, TLAPS

Machines == [status: Status \cup {"NONE"}, quantity: 1..Qty, filled: Nat, raised: BOOLEAN]
Venues == [status: {"NONE", "LIVE"} \cup Terminal, quantity: 0..Qty, filled: 0..Qty]

USE ExecutionAssumption

\* A transition keeps everything of a machine but its status and the mark of an
\* illegal request.
LEMMA TransitionType ==
  ASSUME NEW m \in Machines, m.status # "NONE", NEW to \in Status
  PROVE  /\ Transition(m, to) \in Machines
         /\ Transition(m, to).status # "NONE"
         /\ Transition(m, to).quantity = m.quantity
         /\ Transition(m, to).filled = m.filled
BY DEF Transition, Machines, Status, Terminal

\* The handlers of the machine return machines: the input of every step below.
LEMMA HandlerTypes ==
  ASSUME NEW m \in Machines, m.status # "NONE", NEW q \in Nat
  PROVE  /\ OnSent(m) \in Machines /\ OnAck(m) \in Machines /\ OnReject(m) \in Machines
         /\ OnNotFound(m) \in Machines /\ OnCancelAck(m) \in Machines
         /\ OnUnknown(m) \in Machines /\ OnUnknown(m).status # "NONE"
         /\ OnSent(m).status # "NONE"
         /\ OnFill(m, q) \in Machines
         /\ \A s \in Status : OnQueryResult(m, s, q) \in Machines
<1>1. /\ [m EXCEPT !.filled = @ + q] \in Machines
      /\ [m EXCEPT !.filled = @ + q].status # "NONE"
  BY DEF Machines
<1>2. /\ [m EXCEPT !.filled = q] \in Machines
      /\ [m EXCEPT !.filled = q].status # "NONE"
  BY DEF Machines
<1>3. OnFill(m, q) \in Machines
  BY <1>1, TransitionType DEF OnFill, Status, Terminal, Machines
<1>4. \A s \in Status : OnQueryResult(m, s, q) \in Machines
  BY <1>2, TransitionType DEF OnQueryResult
<1>5. QED
  BY <1>3, <1>4, TransitionType
  DEF OnSent, OnAck, OnReject, OnNotFound, OnCancelAck, OnUnknown, Status, Terminal

\* What resolve_unknown leaves behind is a machine again.
LEMMA ResolvedType ==
  ASSUME NEW m \in Machines, m.status # "NONE", NEW v \in Venues
  PROVE  Resolved(m, v) \subseteq Machines
<1>1. v.filled \in Nat /\ v.status \in {"NONE", "LIVE"} \cup Terminal
  BY DEF Venues
<1>2. v.status # "NONE" => Answers(v) \subseteq Status
  BY <1>1 DEF Answers, Status, Terminal
<1>3. QED
  BY <1>1, <1>2, HandlerTypes DEF Resolved

\* A new machine has the shape of one, and waits to be sent (fsm.py).
LEMMA NewMachineType ==
  ASSUME NEW q \in 1..Qty
  PROVE  NewMachine(q) \in Machines /\ NewMachine(q).status = "INTENT"
BY DEF NewMachine, NoMachine, Machines, Status, Terminal

\* Every handler, every venue event and every loss keeps machines, venue records
\* and transit well-formed, and the venue never executes more than it was sent.
LEMMA TypeKept ==
  ASSUME TypeOK, [Next]_vars
  PROVE  TypeOK'
<1> USE DEF TypeOK
<1>0. /\ machine \in [Order -> Machines]
      /\ venue \in [Order -> Venues]
  BY DEF Machines, Venues
<1>1. ASSUME NEW c \in Order, NEW q \in 1..Qty, Submit(c, q)
      PROVE  TypeOK'
  <2> DEFINE sent == OnSent(NewMachine(q))
  <2>1. sent \in Machines /\ sent.status # "NONE"
    BY NewMachineType, HandlerTypes
  <2>2. OnAck(sent) \in Machines /\ OnUnknown(sent) \in Machines /\ OnReject(sent) \in Machines
    BY <2>1, HandlerTypes
  <2>3. machine' \in [Order -> Machines]
    BY <1>0, <1>1, <2>2 DEF Submit
  <2>4. Arrivals(c, q) \subseteq Venues
    BY DEF Arrivals, Venues, Terminal
  <2>5. venue' \in [Order -> Venues] /\ transit' = transit
    BY <1>0, <1>1, <2>4 DEF Submit
  <2>6. QED
    BY <2>3, <2>5 DEF Machines, Venues
<1>2. ASSUME NEW c \in Order, ResolveUnknown(c)
      PROVE  TypeOK'
  <2>1. Resolved(machine[c], venue[c]) \subseteq Machines
    BY <1>0, <1>2, ResolvedType DEF ResolveUnknown
  <2>2. QED
    BY <1>0, <1>2, <2>1 DEF ResolveUnknown, Machines
<1>3. ASSUME NEW c \in Order, Cancel(c)
      PROVE  TypeOK'
  <2>1. machine[c] \in Machines /\ machine[c].status # "NONE" /\ venue[c] \in Venues
    BY <1>0, <1>3 DEF Cancel
  <2>2. /\ OnCancelAck(machine[c]) \in Machines /\ OnNotFound(machine[c]) \in Machines
        /\ Resolved(OnUnknown(machine[c]), venue[c]) \subseteq Machines
    BY <2>1, HandlerTypes, ResolvedType
  <2>3. machine' \in [Order -> Machines]
    BY <1>0, <1>3, <2>2 DEF Cancel, CancelWorking, CancelRefused
  <2>4. [venue[c] EXCEPT !.status = "CANCELLED"] \in Venues
    BY <2>1 DEF Venues, Terminal
  <2>5. \/ venue' = [venue EXCEPT ![c].status = "CANCELLED"]
        \/ venue' = venue
    BY <1>3 DEF Cancel, CancelWorking, CancelRefused
  <2>6. venue' \in [Order -> Venues]
    BY <1>0, <2>4, <2>5 DEF Venues
  <2>7. transit' = transit
    BY <1>3 DEF Cancel
  <2>8. QED
    BY <2>3, <2>6, <2>7 DEF Machines, Venues
<1>4. ASSUME NEW c \in Order, NEW q \in 1..Qty, DeliverFill(c, q)
      PROVE  TypeOK'
  <2>0. machine[c] \in Machines /\ q \in Nat
    BY <1>0
  <2>1. ASSUME machine[c].status # "NONE" PROVE OnFill(machine[c], q) \in Machines
    BY <2>0, <2>1, HandlerTypes
  <2>2. machine' \in [Order -> Machines]
    BY <1>0, <1>4, <2>1 DEF DeliverFill
  <2>3. transit[c] \in Nat /\ transit[c] - q \in Nat
    BY <1>4 DEF DeliverFill
  <2>4. transit' \in [Order -> Nat] /\ venue' = venue
    BY <1>4, <2>3 DEF DeliverFill
  <2>5. QED
    BY <2>2, <2>4 DEF Machines
<1>5. ASSUME NEW c \in Order, NEW q \in 1..Qty, VenueFill(c, q)
      PROVE  TypeOK'
  <2> DEFINE status == IF venue[c].filled + q = venue[c].quantity
                         THEN "FILLED" ELSE venue[c].status
  <2> DEFINE filled == [venue[c] EXCEPT !.filled = @ + q, !.status = status]
  <2>1. venue[c] \in Venues /\ venue[c].filled + q \in 0..Qty
    BY <1>0, <1>5 DEF VenueFill, Venues
  <2>2. filled \in Venues
    BY <2>1 DEF Venues, Terminal
  <2>3. venue' = [venue EXCEPT ![c] = filled]
    BY <1>0, <1>5 DEF VenueFill, Venues
  <2>4. venue' \in [Order -> Venues] /\ machine' = machine
    BY <1>0, <1>5, <2>2, <2>3 DEF VenueFill
  <2>5. transit' \in [Order -> Nat]
    BY <1>5 DEF VenueFill
  <2>6. QED
    BY <2>4, <2>5 DEF Venues
<1>6. ASSUME NEW c \in Order, VenueExpire(c)
      PROVE  TypeOK'
  <2>1. PICK s \in {"CANCELLED", "REJECTED"} :
          venue' = [venue EXCEPT ![c].status = s]
    BY <1>6 DEF VenueExpire
  <2>2. venue[c] \in Venues /\ [venue[c] EXCEPT !.status = s] \in Venues
    BY <1>0 DEF Venues, Terminal
  <2>3. venue' \in [Order -> Venues]
    BY <1>0, <2>1, <2>2
  <2>4. QED
    BY <1>6, <2>3 DEF VenueExpire, Venues
<1>7. CASE StreamDrop
  BY <1>7 DEF StreamDrop
<1>8. CASE UNCHANGED vars
  BY <1>8 DEF vars
<1>9. QED
  BY <1>1, <1>2, <1>3, <1>4, <1>5, <1>6, <1>7, <1>8 DEF Next

\* The types hold at the start.
LEMMA TypeStart == Init => TypeOK
BY DEF Init, TypeOK, NoMachine, NoOrder, Status, Terminal

\* The types hold throughout.
THEOREM TypeCorrect == Spec => []TypeOK
<1>1. Init => TypeOK
  BY TypeStart
<1>2. TypeOK /\ [Next]_vars => TypeOK'
  BY TypeKept
<1>3. QED
  BY <1>1, <1>2, PTL DEF Spec

-----------------------------------------------------------------------------
(* The reliable orders: every fill is handed over before the next event,   *)
(* and none is lost.                                                       *)

\* The rows of the transition table the handlers look up: an order that is
\* waiting, unknown or working may reach every status the venue reports.
LEMMA Rows ==
  /\ TRANSITIONS["INTENT"] = {"PENDING", "REJECTED"}
  /\ TRANSITIONS["PENDING"] = {"ACKED", "REJECTED", "QUERY", "FILLED", "PARTIAL"}
  /\ TRANSITIONS["ACKED"] = {"PARTIAL", "FILLED", "CANCELLED", "QUERY"}
  /\ TRANSITIONS["PARTIAL"] = {"FILLED", "CANCELLED", "QUERY"}
  /\ TRANSITIONS["QUERY"] = {"ACKED", "PARTIAL", "FILLED", "CANCELLED", "REJECTED"}
BY DEF TRANSITIONS, Status, Terminal

\* r is m with its status moved to the one named, legally.
Moved(r, m, to) ==
  /\ r \in Machines
  /\ r.status = to
  /\ r.quantity = m.quantity /\ r.filled = m.filled /\ r.raised = m.raised

\* A transition the table has moves the status and touches nothing else.
LEMMA Legal ==
  ASSUME NEW m \in Machines, NEW to \in Status,
         to \in TRANSITIONS[m.status], m.status # "NONE"
  PROVE  Moved(Transition(m, to), m, to)
<1>1. Transition(m, to) = [m EXCEPT !.status = to]
  BY DEF Transition
<1>2. QED
  BY <1>1, TransitionType DEF Moved, Machines

\* A submission leaves behind a fresh order that is acknowledged, unknown or
\* refused.
LEMMA Submitted ==
  ASSUME NEW q \in 1..Qty
  PROVE  /\ Moved(OnAck(OnSent(NewMachine(q))), NewMachine(q), "ACKED")
         /\ Moved(OnUnknown(OnSent(NewMachine(q))), NewMachine(q), "QUERY")
         /\ Moved(OnReject(OnSent(NewMachine(q))), NewMachine(q), "REJECTED")
<1> DEFINE sent == OnSent(NewMachine(q))
<1>1. NewMachine(q) \in Machines /\ NewMachine(q).status = "INTENT"
  BY NewMachineType
<1>2. "PENDING" \in TRANSITIONS[NewMachine(q).status]
  BY <1>1, Rows
<1>3. Moved(sent, NewMachine(q), "PENDING")
  BY <1>1, <1>2, Legal DEF OnSent, Status
<1>4. sent \in Machines /\ sent.status = "PENDING"
  BY <1>3 DEF Moved
<1>5. \A s \in {"ACKED", "QUERY", "REJECTED"} : Moved(Transition(sent, s), sent, s)
  BY <1>4, Rows, Legal DEF Status, Terminal
<1>6. QED
  BY <1>3, <1>4, <1>5 DEF Moved, OnAck, OnUnknown, OnReject

\* A fill the venue has executed lands on an open machine, and legally.
LEMMA FillConsistent ==
  ASSUME NEW m \in Machines, NEW v \in Venues, NEW t \in Nat, NEW q \in 1..Qty,
         Consistent(m, v, t), q <= t
  PROVE  /\ m.status # "NONE" /\ ~IsTerminal(m)
         /\ Consistent(OnFill(m, q), v, t - q)
         /\ Remaining(m) >= q /\ Remaining(OnFill(m, q)) = Remaining(m) - q
         /\ OnFill(m, q).status = IF Remaining(m) = q THEN "FILLED" ELSE "PARTIAL"
<1> DEFINE f == [m EXCEPT !.filled = @ + q]
<1>1. /\ m.status \in {"ACKED", "PARTIAL", "QUERY"} /\ m.filled + t = v.filled
      /\ v.status # "NONE" /\ m.quantity = v.quantity /\ v.filled <= v.quantity
  BY DEF Consistent, IsTerminal, Machines, Venues, Status, Terminal, NoOrder
<1>2. /\ f \in Machines /\ f.filled = m.filled + q /\ f.status = m.status
      /\ f.quantity = m.quantity /\ f.raised = m.raised
  BY DEF Machines
<1>3. CASE f.filled >= f.quantity
  <2>1. Moved(OnFill(m, q), f, "FILLED")
    BY <1>1, <1>2, <1>3, Legal, Rows DEF OnFill, Status, Terminal
  <2>2. t = q /\ v.filled = v.quantity
    BY <1>1, <1>2, <1>3 DEF Machines, Venues
  <2>3. QED
    BY <1>1, <1>2, <2>1, <2>2
    DEF Moved, Remaining, Consistent, IsTerminal, Acknowledged, Machines, Venues, Terminal
<1>4. CASE f.filled < f.quantity
  <2>1. Moved(OnFill(m, q), f, "PARTIAL")
    <3>1. ~(f.filled >= f.quantity)
      BY <1>2, <1>4 DEF Machines
    <3>2. CASE f.status = "PARTIAL"
      BY <1>2, <3>1, <3>2 DEF OnFill, Moved
    <3>3. CASE f.status # "PARTIAL"
      <4>1. OnFill(m, q) = Transition(f, "PARTIAL")
        BY <3>1, <3>3 DEF OnFill
      <4>2. "PARTIAL" \in TRANSITIONS[f.status]
        BY <1>1, <1>2, <3>3, Rows
      <4>3. QED
        BY <1>1, <1>2, <4>1, <4>2, Legal DEF Status
    <3>4. QED
      BY <3>2, <3>3
  <2>2. Remaining(m) > q /\ Remaining(OnFill(m, q)) = Remaining(m) - q
    BY <1>1, <1>2, <1>4, <2>1 DEF Moved, Remaining, Machines
  <2>3. Consistent(OnFill(m, q), v, t - q)
    BY <1>1, <1>2, <2>1
    DEF Moved, Consistent, IsTerminal, Acknowledged, Machines, Venues, Terminal
  <2>4. OnFill(m, q).status = "PARTIAL" /\ ~IsTerminal(m)
    BY <1>1, <2>1 DEF Moved, IsTerminal, Terminal
  <2>5. QED
    BY <1>1, <2>2, <2>3, <2>4 DEF Remaining, Machines
<1>5. QED
  BY <1>1, <1>2, <1>3, <1>4 DEF Machines

\* Asking the venue about an unknown order, with every fill delivered, brings the
\* machine into agreement with it or leaves it unknown.
LEMMA ResolvedConsistent ==
  ASSUME NEW m \in Machines, NEW v \in Venues, Consistent(m, v, 0), m.status = "QUERY",
         NEW r \in Resolved(m, v)
  PROVE  Consistent(r, v, 0)
<1>1. CASE r = m
  BY <1>1
<1>2. CASE v.status = "NONE" /\ r = OnNotFound(m)
  <2>1. Moved(r, m, "REJECTED")
    BY <1>2, Legal, Rows DEF OnNotFound, Status, Terminal
  <2>2. QED
    BY <1>2, <2>1 DEF Moved, Consistent, IsTerminal, Acknowledged, Machines, Venues, Terminal
<1>3. CASE v.status # "NONE" /\ \E s \in Answers(v) : r = OnQueryResult(m, s, v.filled)
  <2>1. PICK s \in Answers(v) : r = OnQueryResult(m, s, v.filled)
    BY <1>3
  <2> DEFINE f == [m EXCEPT !.filled = v.filled]
  <2>2. /\ f \in Machines /\ f.status = "QUERY" /\ f.filled = v.filled
        /\ f.quantity = m.quantity /\ ~f.raised
    BY DEF Machines, Venues, Consistent
  <2>3. /\ v.status = "LIVE" => s \in {"ACKED", "PARTIAL", "QUERY"}
        /\ v.status # "LIVE" => s \in Terminal \cup {"QUERY"}
    BY <1>3 DEF Answers, Venues
  <2>4. CASE s = "QUERY"
    <3>1. r = f
      BY <2>1, <2>4 DEF OnQueryResult
    <3>2. QED
      BY <1>3, <2>2, <3>1
      DEF Moved, Consistent, IsTerminal, Acknowledged, Machines, Venues, Terminal
  <2>5. CASE s # "QUERY"
    <3>1. s \in TRANSITIONS[f.status] /\ s \in Status
      BY <1>3, <2>2, <2>3, <2>5, Rows DEF Venues, Status, Terminal
    <3>2. s # f.status /\ Moved(Transition(f, s), f, s)
      BY <2>2, <2>5, <3>1, Legal
    <3>3. Moved(r, f, s)
      BY <2>1, <2>5, <3>2 DEF OnQueryResult
    <3>4. QED
      BY <1>3, <2>2, <2>3, <2>5, <3>3
      DEF Moved, Consistent, IsTerminal, Acknowledged, Machines, Venues, Terminal
  <2>6. QED
    BY <2>4, <2>5
<1>4. QED
  BY <1>1, <1>2, <1>3 DEF Resolved

\* A query leaves an order's quantity alone, and takes the venue's word for what
\* was filled unless it writes the order off or learns nothing.
ResolvedKeeps(m, v, r) ==
  /\ r.quantity = m.quantity
  /\ r = m \/ r.status = "REJECTED" \/ r.filled = v.filled
  /\ r.filled = m.filled \/ r.filled = v.filled
  /\ r.status # "NONE"

\* What resolve_unknown may leave keeps that.
LEMMA ResolvedFilled ==
  ASSUME NEW m \in Machines, NEW v \in Venues, m.status = "QUERY", NEW r \in Resolved(m, v)
  PROVE  ResolvedKeeps(m, v, r)
<1>1. CASE r = m
  BY <1>1 DEF ResolvedKeeps
<1>2. CASE r = OnNotFound(m)
  <2>1. Moved(r, m, "REJECTED")
    BY <1>2, Legal, Rows DEF OnNotFound, Status, Terminal
  <2>2. QED
    BY <2>1 DEF Moved, ResolvedKeeps
<1>3. CASE v.status # "NONE" /\ \E s \in Answers(v) : r = OnQueryResult(m, s, v.filled)
  <2>1. PICK s \in Answers(v) : r = OnQueryResult(m, s, v.filled)
    BY <1>3
  <2> DEFINE f == [m EXCEPT !.filled = v.filled]
  <2>2. f \in Machines /\ f.status = "QUERY" /\ f.filled = v.filled /\ f.quantity = m.quantity
    BY DEF Machines, Venues
  <2>3. s \in Status
    BY <1>3 DEF Answers, Venues, Status, Terminal
  <2>4. /\ Transition(f, s).quantity = f.quantity /\ Transition(f, s).filled = f.filled
        /\ Transition(f, s).status # "NONE"
    BY <2>2, <2>3, TransitionType
  <2>5. r = f \/ r = Transition(f, s)
    BY <2>1 DEF OnQueryResult
  <2> HIDE DEF f
  <2>6. QED
    BY <2>2, <2>4, <2>5 DEF ResolvedKeeps
<1>4. QED
  BY <1>1, <1>2, <1>3 DEF Resolved

\* Where nothing trades inside place, an order the venue takes rests.
LEMMA Alive ==
  ASSUME NEW c \in Order \ Instant
  PROVE  \A q : Arrivals(c, q) = {[status |-> "LIVE", quantity |-> q, filled |-> 0]}
BY DEF Arrivals

\* A handler and a venue event touch one order's account.
LEMMA Local ==
  ASSUME TypeOK, NEW c \in Order, NEW q \in 1..Qty,
         \/ Submit(c, q) \/ ResolveUnknown(c) \/ Cancel(c)
         \/ DeliverFill(c, q) \/ VenueFill(c, q) \/ VenueExpire(c)
  PROVE  \A d \in Order \ {c} :
           machine'[d] = machine[d] /\ venue'[d] = venue[d] /\ transit'[d] = transit[d]
<1>1. CASE Submit(c, q) BY <1>1 DEF TypeOK, Submit
<1>2. CASE ResolveUnknown(c) BY <1>2 DEF TypeOK, ResolveUnknown
<1>3. CASE Cancel(c) BY <1>3 DEF TypeOK, Cancel, CancelWorking, CancelRefused
<1>4. CASE DeliverFill(c, q) BY <1>4 DEF TypeOK, DeliverFill
<1>5. CASE VenueFill(c, q) BY <1>5 DEF TypeOK, VenueFill
<1>6. CASE VenueExpire(c) BY <1>6 DEF TypeOK, VenueExpire
<1>7. QED
  BY <1>1, <1>2, <1>3, <1>4, <1>5, <1>6

\* One order's machine, the venue's record of it and what is on the way, and
\* whether they agree.
Agrees(c) == Consistent(machine[c], venue[c], transit[c])

\* The parts of one order have their types.
LEMMA Kinds ==
  ASSUME TypeOK, NEW c \in Order
  PROVE  machine[c] \in Machines /\ venue[c] \in Venues /\ transit[c] \in Nat
BY DEF TypeOK, Machines, Venues

\* A first order, a retry of one that is over: whatever the answer, the accounts
\* agree, and nothing is in flight of an order that was refused.
LEMMA SubmitAgrees ==
  ASSUME TypeOK, NEW c \in Order \ Instant, NEW q \in 1..Qty, Submit(c, q), Agrees(c)
  PROVE  /\ Agrees(c)' /\ transit' = transit /\ venue'[c].filled = venue[c].filled
         /\ machine'[c].filled = 0 /\ machine'[c].quantity = q
         /\ machine'[c].status \in {"ACKED", "QUERY", "REJECTED"}
<1> DEFINE new == NewMachine(q)
<1>0. /\ machine \in [Order -> Machines] /\ venue \in [Order -> Venues]
      /\ transit \in [Order -> Nat]
  BY DEF TypeOK, Machines, Venues
<1>1. transit' = transit /\ transit'[c] = transit[c]
  BY DEF Submit
<1>2. /\ venue[c] \in Venues /\ machine[c] \in Machines /\ transit[c] \in Nat
      /\ Consistent(machine[c], venue[c], transit[c])
  BY Kinds DEF Agrees
<1>3. /\ \/ machine[c].status = "NONE"
         \/ IsTerminal(machine[c]) /\ machine[c].quantity = q
      /\ venue[c].status # "LIVE" /\ transit[c] = 0
      /\ venue[c] = NoOrder \/ venue[c].quantity = q
  <2>1. \/ machine[c].status = "NONE"
        \/ IsTerminal(machine[c]) /\ machine[c].quantity = q
    <3>1. \/ machine[c].status = "NONE"
          \/ MayPlaceNewOrder(machine[c]) /\ q = machine[c].quantity
      BY DEF Submit
    <3>2. machine[c].status \in (Status \ {"INTENT", "PENDING"}) \cup {"NONE"}
      BY <1>2 DEF Consistent, Machines
    <3>3. QED
      BY <3>1, <3>2 DEF MayPlaceNewOrder, IsTerminal, Status, Terminal
  <2> HIDE DEF new
  <2>2. venue[c].status # "LIVE" /\ transit[c] = 0
    BY <1>2, <2>1 DEF Consistent, IsTerminal, Machines, Venues, Terminal, NoOrder
  <2>3. venue[c] = NoOrder \/ venue[c].quantity = q
    BY <1>2, <2>1 DEF Consistent, IsTerminal, Terminal
  <2>4. QED
    BY <2>1, <2>2, <2>3
<1>4. \/ Moved(machine'[c], new, "ACKED") /\ venue'[c].status = "LIVE"
      \/ Moved(machine'[c], new, "QUERY")
      \/ Moved(machine'[c], new, "REJECTED") /\ venue'[c] = venue[c]
  <2>1. /\ Moved(OnAck(OnSent(new)), new, "ACKED")
        /\ Moved(OnUnknown(OnSent(new)), new, "QUERY")
        /\ Moved(OnReject(OnSent(new)), new, "REJECTED")
    BY Submitted
  <2> HIDE DEF new
  <2>2. /\ \/ machine'[c] = OnAck(OnSent(new)) /\ venue'[c].status = "LIVE"
           \/ machine'[c] = OnUnknown(OnSent(new))
           \/ machine'[c] = OnReject(OnSent(new)) /\ venue'[c] = venue[c]
    BY <1>0, Alive DEF Submit, new
  <2>3. QED
    BY <2>1, <2>2
<1>5. \/ venue'[c] = [status |-> "LIVE", quantity |-> q, filled |-> 0] /\ venue[c] = NoOrder
      \/ venue'[c] = venue[c]
  BY <1>0, Alive DEF Submit
<1>6. new.filled = 0 /\ new.quantity = q /\ ~new.raised
  BY DEF NewMachine, NoMachine
<1>7. Consistent(machine'[c], venue'[c], transit'[c])
  <2> HIDE DEF new
  <2>1. CASE venue'[c] = [status |-> "LIVE", quantity |-> q, filled |-> 0]
    BY <1>1, <1>2, <1>3, <1>4, <1>6, <2>1
    DEF Moved, Consistent, IsTerminal, NoOrder, Acknowledged, Machines, Venues, Terminal, NoOrder
  <2>2. CASE venue'[c] = venue[c]
    BY <1>1, <1>2, <1>3, <1>4, <1>6, <2>2
    DEF Moved, Consistent, IsTerminal, NoOrder, Acknowledged, Machines, Venues, Terminal, NoOrder
  <2>3. QED
    BY <1>5, <2>1, <2>2
<1>8. venue'[c].filled = venue[c].filled
  BY <1>5 DEF NoOrder
<1>9. QED
  BY <1>1, <1>4, <1>6, <1>7, <1>8 DEF Agrees, Moved

\* A query of an unknown order that has no fill on the way.
LEMMA ResolveAgrees ==
  ASSUME TypeOK, NEW c \in Order, ResolveUnknown(c), Agrees(c), transit[c] = 0
  PROVE  /\ Agrees(c)' /\ venue' = venue /\ transit' = transit
<1>1. /\ machine[c].status = "QUERY" /\ venue' = venue /\ transit' = transit
      /\ machine'[c] \in Resolved(machine[c], venue[c])
  BY DEF TypeOK, ResolveUnknown
<1>2. Consistent(machine'[c], venue[c], 0)
  BY <1>1, Kinds, ResolvedConsistent DEF Agrees
<1>3. QED
  BY <1>1, <1>2 DEF Agrees

\* A cancel, acknowledged, failed or refused, of an order that has no fill on the
\* way.
LEMMA CancelAgrees ==
  ASSUME TypeOK, NEW c \in Order, Cancel(c), Agrees(c), transit[c] = 0
  PROVE  /\ Agrees(c)' /\ transit' = transit /\ venue'[c].filled = venue[c].filled
         /\ machine'[c].quantity = machine[c].quantity
         /\ \/ machine'[c].filled = machine[c].filled \/ machine'[c].filled = venue[c].filled
         /\ machine'[c].status # "NONE"
<1>0. machine \in [Order -> Machines] /\ venue \in [Order -> Venues]
  BY DEF TypeOK, Machines, Venues
<1>1. machine[c].status # "NONE" /\ ~IsTerminal(machine[c]) /\ transit' = transit
  BY DEF Cancel
<1>2. /\ venue[c] \in Venues /\ machine[c] \in Machines
      /\ Consistent(machine[c], venue[c], 0)
  BY Kinds DEF Agrees
<1>3. machine[c].status \in {"ACKED", "PARTIAL", "QUERY"}
  BY <1>1, <1>2 DEF Consistent, IsTerminal, Machines, Status
<1> DEFINE Done == /\ Consistent(machine'[c], venue'[c], 0)
                   /\ venue'[c].filled = venue[c].filled
                   /\ machine'[c].quantity = machine[c].quantity
                   /\ \/ machine'[c].filled = machine[c].filled
                      \/ machine'[c].filled = venue[c].filled
                   /\ machine'[c].status # "NONE"
<1>4. ASSUME CancelWorking(c) PROVE Done
  <2>1. Moved(OnCancelAck(machine[c]), machine[c], "CANCELLED")
    BY <1>2, <1>3, Legal, Rows DEF OnCancelAck, Status, Terminal
  <2>2. /\ venue[c].status = "LIVE"
        /\ machine'[c] = machine[c] \/ machine'[c] = OnCancelAck(machine[c])
        /\ \/ venue'[c] = venue[c] /\ machine'[c] = machine[c]
           \/ venue'[c] = [venue[c] EXCEPT !.status = "CANCELLED"]
    BY <1>0, <1>4 DEF CancelWorking
  <2>3. /\ venue'[c].filled = venue[c].filled /\ venue'[c].quantity = venue[c].quantity
        /\ \/ venue'[c] = venue[c] /\ machine'[c] = machine[c]
           \/ venue'[c].status = "CANCELLED"
    BY <1>2, <2>2 DEF Venues
  <2>4. /\ machine'[c].quantity = machine[c].quantity
        /\ machine'[c].filled = machine[c].filled
        /\ machine'[c].raised = machine[c].raised
        /\ \/ machine'[c].status = machine[c].status
           \/ machine'[c].status = "CANCELLED" /\ venue'[c].status = "CANCELLED"
    BY <2>1, <2>2, <2>3 DEF Moved
  <2>5. Consistent(machine'[c], venue'[c], 0)
    BY <1>2, <1>3, <2>2, <2>3, <2>4
    DEF Consistent, IsTerminal, Acknowledged, Machines, Venues, Terminal
  <2>6. QED
    BY <1>1, <2>3, <2>4, <2>5
<1>5. ASSUME CancelRefused(c) PROVE Done
  <2>1. venue' = venue /\ venue[c].status # "LIVE"
    BY <1>5 DEF CancelRefused
  <2>2. CASE machine'[c] \in Resolved(OnUnknown(machine[c]), venue[c])
    <3> DEFINE m == OnUnknown(machine[c])
    <3>1. Moved(m, machine[c], "QUERY")
      BY <1>2, <1>3, Legal, Rows DEF OnUnknown, Moved, Status, Terminal
    <3>2. /\ m \in Machines /\ m.status = "QUERY" /\ Consistent(m, venue[c], 0)
          /\ m.quantity = machine[c].quantity /\ m.filled = machine[c].filled
      BY <1>2, <1>3, <2>1, <3>1
      DEF Moved, Consistent, IsTerminal, Acknowledged, Machines, Venues, Terminal
    <3> HIDE DEF m
    <3>3. Consistent(machine'[c], venue[c], 0)
      BY <1>2, <2>2, <3>2, ResolvedConsistent DEF m
    <3>4. ResolvedKeeps(m, venue[c], machine'[c])
      BY <1>2, <2>2, <3>2, ResolvedFilled DEF m
    <3>5. venue'[c] = venue[c]
      BY <2>1
    <3>6. QED
      BY <3>2, <3>3, <3>4, <3>5 DEF ResolvedKeeps
  <2>3. CASE venue[c].status = "NONE" /\ machine'[c] = OnNotFound(machine[c])
    <3>1. machine[c].status = "QUERY"
      BY <1>2, <1>3, <2>3 DEF Consistent, Acknowledged
    <3>2. Moved(machine'[c], machine[c], "REJECTED")
      BY <1>2, <2>3, <3>1, Legal, Rows DEF OnNotFound, Status, Terminal
    <3>3. venue'[c] = venue[c]
      BY <2>1
    <3>4. Consistent(machine'[c], venue[c], 0)
      BY <1>2, <2>3, <3>1, <3>2
      DEF Moved, Consistent, IsTerminal, Acknowledged, Machines, Venues, Terminal
    <3>5. QED
      BY <3>2, <3>3, <3>4 DEF Moved
  <2>4. QED
    BY <1>0, <1>5, <2>2, <2>3 DEF CancelRefused
<1>6. Done
  BY <1>4, <1>5 DEF Cancel
<1>7. transit'[c] = 0
  BY <1>1
<1> HIDE DEF Done
<1>8. QED
  BY <1>1, <1>6, <1>7 DEF Agrees, Done

\* A fill handed over lands legally and is counted once.
LEMMA DeliverAgrees ==
  ASSUME TypeOK, NEW c \in Order, NEW q \in 1..Qty, DeliverFill(c, q), Agrees(c)
  PROVE  /\ Agrees(c)' /\ venue' = venue /\ transit'[c] = transit[c] - q
         /\ machine'[c] = OnFill(machine[c], q)
         /\ machine[c].status # "NONE" /\ ~IsTerminal(machine[c])
         /\ Remaining(machine[c]) >= q
         /\ Remaining(machine'[c]) = Remaining(machine[c]) - q
         /\ machine'[c].status = IF Remaining(machine[c]) = q THEN "FILLED" ELSE "PARTIAL"
<1>1. q <= transit[c]
  BY DEF DeliverFill
<1>2. /\ machine[c].status # "NONE" /\ ~IsTerminal(machine[c])
      /\ Consistent(OnFill(machine[c], q), venue[c], transit[c] - q)
      /\ Remaining(machine[c]) >= q
      /\ Remaining(OnFill(machine[c], q)) = Remaining(machine[c]) - q
      /\ OnFill(machine[c], q).status = IF Remaining(machine[c]) = q THEN "FILLED" ELSE "PARTIAL"
  BY <1>1, Kinds, FillConsistent DEF Agrees
<1>3. /\ machine'[c] = OnFill(machine[c], q) /\ venue' = venue
      /\ transit'[c] = transit[c] - q
  BY <1>2 DEF DeliverFill, TypeOK
<1>4. QED
  BY <1>2, <1>3 DEF Agrees

\* The venue trades, or closes what is left of an order.
LEMMA VenueAgrees ==
  ASSUME TypeOK, NEW c \in Order, NEW q \in 1..Qty, VenueFill(c, q) \/ VenueExpire(c), Agrees(c)
  PROVE  /\ Agrees(c)' /\ machine' = machine
         /\ venue'[c].filled - transit'[c] = venue[c].filled - transit[c]
         /\ venue'[c].quantity = venue[c].quantity
<1>0. /\ machine \in [Order -> Machines] /\ venue \in [Order -> Venues]
      /\ transit \in [Order -> Nat]
  BY DEF TypeOK, Machines, Venues
<1>1. /\ venue[c] \in Venues /\ machine[c] \in Machines /\ transit[c] \in Nat
      /\ Consistent(machine[c], venue[c], transit[c])
  BY Kinds DEF Agrees
<1>2. CASE VenueFill(c, q)
  <2>1. /\ machine' = machine /\ transit'[c] = transit[c] + q
        /\ venue[c].status = "LIVE" /\ q <= venue[c].quantity - venue[c].filled
    BY <1>0, <1>2 DEF VenueFill
  <2>2. /\ venue'[c].filled = venue[c].filled + q
        /\ venue'[c].quantity = venue[c].quantity
        /\ venue'[c].status = IF venue[c].filled + q = venue[c].quantity
                                THEN "FILLED" ELSE "LIVE"
    BY <1>0, <1>2 DEF VenueFill, Venues
  <2>3. Consistent(machine'[c], venue'[c], transit'[c])
    BY <1>1, <2>1, <2>2 DEF Consistent, IsTerminal, Acknowledged, Machines, Venues, Terminal, NoOrder
  <2>4. QED
    BY <1>1, <2>1, <2>2, <2>3 DEF Agrees, Venues
<1>3. CASE VenueExpire(c)
  <2>1. /\ machine' = machine /\ transit' = transit /\ venue[c].status = "LIVE"
        /\ \E s \in {"CANCELLED", "REJECTED"} : venue'[c] = [venue[c] EXCEPT !.status = s]
    BY <1>0, <1>3 DEF VenueExpire
  <2>2. /\ venue'[c].filled = venue[c].filled /\ venue'[c].quantity = venue[c].quantity
        /\ venue'[c].status \in {"CANCELLED", "REJECTED"}
    BY <1>1, <2>1 DEF Venues
  <2>3. Consistent(machine'[c], venue'[c], transit'[c])
    BY <1>1, <2>1, <2>2 DEF Consistent, Venues, NoOrder, Acknowledged
  <2>4. QED
    BY <2>1, <2>2, <2>3 DEF Agrees
<1>4. QED
  BY <1>2, <1>3

\* No order agrees with what was never sent.
LEMMA NothingSent == Consistent(NoMachine, NoOrder, 0)
<1>1. NoMachine.filled = 0 /\ NoMachine.status = "NONE" /\ ~NoMachine.raised
  BY DEF NoMachine
<1>2. NoOrder.filled = 0 /\ NoOrder.quantity = 0 /\ NoOrder.status = "NONE"
  BY DEF NoOrder
<1>3. QED
  BY <1>1, <1>2 DEF Consistent, IsTerminal, Acknowledged, Terminal

\* Without overtaking answers and without losses, every local account agrees with
\* the venue's up to the fills in transit, through every timeout, refused cancel,
\* query and retry.
THEOREM ReliableConsistent == Spec => []AccountsConsistent
<1>1. Init => AccountsConsistent
  BY NothingSent DEF Init, AccountsConsistent, Reliable
<1>2. TypeOK /\ AccountsConsistent /\ [Next]_vars => AccountsConsistent'
  <2> SUFFICES ASSUME TypeOK, AccountsConsistent, [Next]_vars
               PROVE  AccountsConsistent'
    OBVIOUS
  <2>1. \A c \in Reliable : Agrees(c) /\ c \in Order \ Instant
    BY DEF AccountsConsistent, Agrees, Reliable
  <2>2. ASSUME NEW c \in Order, NEW q \in 1..Qty,
               \/ Submit(c, q) \/ ResolveUnknown(c) \/ Cancel(c)
               \/ DeliverFill(c, q) \/ VenueFill(c, q) \/ VenueExpire(c)
        PROVE  AccountsConsistent'
    <3>1. \A d \in Reliable \ {c} : Agrees(d)'
      BY <2>1, <2>2, Local DEF Agrees
    <3>2. CASE c \in Reliable
      <4>1. (ResolveUnknown(c) \/ Cancel(c)) => transit[c] = 0
        BY <3>2 DEF ResolveUnknown, Cancel, InOrder, Reliable
      <4>2. Agrees(c)'
        BY <2>1, <2>2, <3>2, <4>1, SubmitAgrees, ResolveAgrees, CancelAgrees, DeliverAgrees, VenueAgrees
      <4>3. QED
        BY <3>1, <4>2 DEF AccountsConsistent, Agrees
    <3>3. CASE c \notin Reliable
      BY <3>1, <3>3 DEF AccountsConsistent, Agrees
    <3>4. QED
      BY <3>2, <3>3
  <2>3. CASE StreamDrop
    BY <2>1, <2>3 DEF StreamDrop, AccountsConsistent, Agrees, Reliable
  <2>4. CASE UNCHANGED vars
    BY <2>1, <2>4 DEF vars, AccountsConsistent, Agrees
  <2>5. 1 \in 1..Qty
    OBVIOUS
  <2>6. QED
    BY <2>2, <2>3, <2>4, <2>5 DEF Next
<1>3. QED
  BY <1>1, <1>2, TypeCorrect, PTL DEF Spec

\* What agreement says of one order: it is legal, covered and accounted for, and
\* its part of in_flight is a quantity.
LEMMA Covered ==
  ASSUME TypeOK, NEW c \in Order, Agrees(c)
  PROVE  /\ ~machine[c].raised
         /\ Working(c) \in Nat /\ Working(c) <= InFlight(c)
         /\ machine[c].status \in Acknowledged =>
              machine[c].filled + transit[c] = venue[c].filled
         /\ InFlight(c) \in 0..Qty
<1> DEFINE m == machine[c]
           v == venue[c]
           t == transit[c]
<1>1. m \in Machines /\ v \in Venues /\ t \in Nat /\ Consistent(m, v, t)
  BY Kinds DEF Agrees
<1>2. /\ Working(c) = t + IF v.status = "LIVE" THEN v.quantity - v.filled ELSE 0
      /\ InFlight(c) = IF m.status = "NONE" \/ IsTerminal(m) THEN 0 ELSE m.quantity - m.filled
  BY DEF Working, InFlight, Remaining
<1> HIDE DEF m, v, t
<1>3. InFlight(c) \in 0..Qty
  BY <1>1, <1>2 DEF Consistent, Machines, Venues, NoOrder
<1>4. Working(c) \in Nat /\ Working(c) <= InFlight(c)
  BY <1>1, <1>2 DEF Consistent, Machines, Venues, NoOrder, IsTerminal
<1>5. ~m.raised /\ (m.status \in Acknowledged => m.filled + t = v.filled)
  BY <1>1 DEF Consistent
<1>6. QED
  BY <1>3, <1>4, <1>5 DEF m, v, t

\* The invariant is agreement of every reliable order.
LEMMA ReliableAgree ==
  ASSUME AccountsConsistent
  PROVE  \A c \in Reliable : c \in Order /\ Agrees(c)
BY DEF AccountsConsistent, Agrees, Reliable

\* For a reliable order no handler asks for an illegal transition, what may trade
\* is covered by Executor.in_flight, and every settled account agrees.
THEOREM ReliableSafe == Spec => [](NoIllegalTransition /\ InFlightCovers /\ FilledAgrees)
<1>1. TypeOK /\ AccountsConsistent => NoIllegalTransition /\ InFlightCovers /\ FilledAgrees
  BY Covered, ReliableAgree DEF NoIllegalTransition, InFlightCovers, FilledAgrees
<1>2. QED
  BY <1>1, TypeCorrect, ReliableConsistent, PTL

-----------------------------------------------------------------------------
(* Reliable orders implement the exposure ledger.                          *)

Booked(c) == venue[c].filled - transit[c]

\* A step that touches one order's account is a step of the ledger, or none.
LEMMA LedgerStep ==
  ASSUME NEW c \in Reliable, NEW q \in 1..Qty, InFlight(c) \in 0..Qty, InFlight(c)' \in 0..Qty,
         \A d \in Reliable \ {c} : InFlight(d)' = InFlight(d) /\ Booked(d)' = Booked(d),
         \/ InFlight(c) = 0 /\ InFlight(c)' = q /\ Booked(c)' = Booked(c)
         \/ /\ InFlight(c) >= q /\ InFlight(c)' = InFlight(c) - q
            /\ Booked(c)' = Booked(c) + q
         \/ InFlight(c)' <= InFlight(c) /\ Booked(c)' = Booked(c)
  PROVE  Ledger!Next
<1> DEFINE room == [d \in Reliable |-> InFlight(d)]
           booked == [d \in Reliable |-> venue[d].filled - transit[d]]
<1>1. CASE InFlight(c) = 0 /\ InFlight(c)' = q /\ Booked(c)' = Booked(c)
  <2>1. room' = [room EXCEPT ![c] = q] /\ booked' = booked
    BY <1>1 DEF Booked
  <2>2. QED
    BY <1>1, <2>1 DEF Ledger!Next, Ledger!Open
<1>2. CASE /\ InFlight(c) >= q /\ InFlight(c)' = InFlight(c) - q
           /\ Booked(c)' = Booked(c) + q
  <2>1. room' = [room EXCEPT ![c] = @ - q] /\ booked' = [booked EXCEPT ![c] = @ + q]
    BY <1>2 DEF Booked
  <2>2. QED
    BY <1>2, <2>1 DEF Ledger!Next, Ledger!Book
<1>3. CASE InFlight(c)' <= InFlight(c) /\ Booked(c)' = Booked(c)
  <2>1. room' = [room EXCEPT ![c] = InFlight(c)'] /\ booked' = booked
    BY <1>3 DEF Booked
  <2>2. QED
    BY <1>3, <2>1 DEF Ledger!Next, Ledger!Withdraw
<1>4. QED
  BY <1>1, <1>2, <1>3

\* A query never raises what an unknown order has in flight.
LEMMA ResolvedShrinks ==
  ASSUME NEW m \in Machines, NEW v \in Venues, Consistent(m, v, 0), m.status = "QUERY",
         NEW c \in Reliable, machine'[c] \in Resolved(m, v),
         InFlight(c) = Remaining(m), InFlight(c)' \in 0..Qty, InFlight(c) \in 0..Qty
  PROVE  InFlight(c)' <= InFlight(c)
<1>1. /\ machine'[c].quantity = m.quantity
      /\ \/ machine'[c] = m \/ machine'[c].status = "REJECTED"
         \/ machine'[c].filled = v.filled
  BY ResolvedFilled DEF ResolvedKeeps
<1>2. m.filled <= v.filled
  BY DEF Consistent, Machines, Venues
<1>3. QED
  BY <1>1, <1>2 DEF InFlight, Remaining, IsTerminal, Terminal, Machines, Venues

\* Submitting opens room for one order, a fill books against it, a cancel, a query
\* and an expiry only withdraw it: the executor implements the exposure ledger.
THEOREM ReliableRefines == Spec => RefinesExposure
<1> DEFINE Inv == TypeOK /\ AccountsConsistent
           room == [c \in Reliable |-> InFlight(c)]
           booked == [c \in Reliable |-> venue[c].filled - transit[c]]
<1>1. Init => Ledger!Init
  BY DEF Init, Ledger!Init, InFlight, NoMachine, NoOrder, Reliable
<1>2. Inv' => (\A c \in Reliable : InFlight(c) \in 0..Qty)'
  <2>1. Inv => \A c \in Reliable : InFlight(c) \in 0..Qty
    BY Covered, ReliableAgree
  <2>2. QED
    BY <2>1, PTL
<1>3. Inv /\ Inv' /\ [Next]_vars => [Ledger!Next]_<<room, booked>>
  <2> SUFFICES ASSUME TypeOK, TypeOK', AccountsConsistent, AccountsConsistent', [Next]_vars
               PROVE  Ledger!Next \/ UNCHANGED <<room, booked>>
    OBVIOUS
  <2>1. /\ machine \in [Order -> Machines]
        /\ venue \in [Order -> Venues]
        /\ transit \in [Order -> Nat]
    BY DEF TypeOK, Machines, Venues
  <2>2. \A c \in Reliable : InFlight(c) \in 0..Qty
    BY Covered, ReliableAgree
  <2>3. \A c \in Reliable : InFlight(c)' \in 0..Qty
    BY <1>2
  <2>4. 1 \in 1..Qty
    OBVIOUS
  <2> DEFINE Others(c) == \A d \in Reliable \ {c} :
               InFlight(d)' = InFlight(d) /\ Booked(d)' = Booked(d)
  <2>5. ASSUME NEW c \in Reliable, Others(c),
               InFlight(c)' <= InFlight(c), Booked(c)' = Booked(c)
        PROVE  Ledger!Next
    BY <2>2, <2>3, <2>4, <2>5, LedgerStep
  <2>6. ASSUME NEW c \in Reliable, NEW q \in 1..Qty, Submit(c, q)
        PROVE  Ledger!Next
    <3> c \in Order BY DEF Reliable
    <3>1. Others(c)
      BY <2>1, <2>6, Local DEF Reliable, InFlight, Booked, Remaining, IsTerminal
    <3>2. InFlight(c) = 0
      BY <2>1, <2>6 DEF Submit, InFlight, MayPlaceNewOrder, IsTerminal, Terminal,
                        AccountsConsistent, Consistent, Machines, Status
    <3>3. Booked(c)' = Booked(c)
      BY <2>1, <2>6, Alive DEF Submit, Booked, NoOrder, Reliable
    <3>4. InFlight(c)' = q \/ InFlight(c)' = 0
      <4>1. \/ Moved(machine'[c], NewMachine(q), "ACKED")
            \/ Moved(machine'[c], NewMachine(q), "QUERY")
            \/ Moved(machine'[c], NewMachine(q), "REJECTED")
        BY <2>1, <2>6, Submitted DEF Submit
      <4>2. NewMachine(q).filled = 0 /\ NewMachine(q).quantity = q
        BY DEF NewMachine, NoMachine
      <4>3. QED
        BY <4>1, <4>2 DEF InFlight, Moved, Remaining, IsTerminal, Terminal
    <3>5. QED
      BY <2>2, <2>3, <2>5, <3>1, <3>2, <3>3, <3>4, LedgerStep
  <2>7. ASSUME NEW c \in Reliable, ResolveUnknown(c)
        PROVE  Ledger!Next
    <3> c \in Order BY DEF Reliable
    <3>1. Others(c) /\ Booked(c)' = Booked(c)
      BY <2>1, <2>7 DEF ResolveUnknown, InFlight, Booked, Remaining, IsTerminal
    <3>2. /\ machine[c] \in Machines /\ venue[c] \in Venues /\ transit[c] = 0
          /\ Consistent(machine[c], venue[c], 0) /\ machine[c].status = "QUERY"
      BY <2>1, <2>7 DEF ResolveUnknown, InOrder, AccountsConsistent, Reliable
    <3>3. machine'[c] \in Resolved(machine[c], venue[c])
      BY <2>1, <2>7 DEF ResolveUnknown
    <3>4. InFlight(c)' <= InFlight(c)
      BY <2>2, <2>3, <3>2, <3>3, ResolvedShrinks DEF InFlight, IsTerminal, Terminal
    <3>5. QED
      BY <2>5, <3>1, <3>4
  <2>8. ASSUME NEW c \in Reliable, Cancel(c)
        PROVE  Ledger!Next
    <3> c \in Order BY DEF Reliable
    <3>0. InFlight(c) \in 0..Qty /\ InFlight(c)' \in 0..Qty
      BY <2>2, <2>3
    <3>1. Others(c) /\ Booked(c)' = Booked(c)
      <4>1. transit' = transit /\ venue'[c].filled = venue[c].filled
        BY <2>1, <2>8 DEF Cancel, CancelWorking, CancelRefused, Venues
      <4>2. \A d \in Reliable \ {c} : machine'[d] = machine[d] /\ venue'[d] = venue[d]
        BY <2>8, Local DEF Reliable
      <4>3. QED
        BY <4>1, <4>2 DEF InFlight, Booked, Remaining, IsTerminal
    <3>2. /\ machine[c] \in Machines /\ venue[c] \in Venues /\ transit[c] = 0
          /\ Consistent(machine[c], venue[c], 0)
          /\ machine[c].status \in {"ACKED", "PARTIAL", "QUERY"}
      BY <2>1, <2>8 DEF Cancel, InOrder, AccountsConsistent, Reliable, Consistent, IsTerminal, Machines, Status
    <3>3. InFlight(c)' <= InFlight(c)
      <4>1. CASE machine'[c] \in Resolved(OnUnknown(machine[c]), venue[c]) /\ venue[c].status # "LIVE"
        <5> DEFINE m == OnUnknown(machine[c])
        <5>1. Moved(m, machine[c], "QUERY")
          BY <3>2, Legal, Rows DEF OnUnknown, Moved, Status, Terminal
        <5>2. m \in Machines /\ m.status = "QUERY" /\ Consistent(m, venue[c], 0)
          BY <3>2, <4>1, <5>1
          DEF Moved, Consistent, IsTerminal, Acknowledged, Machines, Venues, Terminal
        <5>3. Remaining(m) = InFlight(c)
          BY <3>2, <5>1 DEF Moved, InFlight, Remaining, IsTerminal, Terminal
        <5>4. QED
          BY <3>0, <3>2, <4>1, <5>2, <5>3, ResolvedShrinks
      <4>2. CASE machine'[c] = OnCancelAck(machine[c]) \/ machine'[c] = OnNotFound(machine[c])
        <5>1. CASE machine'[c] = OnCancelAck(machine[c])
          <6>1. Moved(machine'[c], machine[c], "CANCELLED")
            BY <3>2, <5>1, Legal, Rows DEF OnCancelAck, Status, Terminal
          <6>2. InFlight(c)' = 0
            BY <6>1 DEF Moved, InFlight, IsTerminal, Terminal
          <6>3. QED
            BY <3>0, <6>2
        <5>2. CASE machine'[c] = OnNotFound(machine[c])
          <6>1. /\ machine'[c].filled = machine[c].filled
                /\ machine'[c].quantity = machine[c].quantity
            BY <3>2, <5>2, TransitionType DEF OnNotFound, Status, Terminal
          <6>2. InFlight(c) = machine[c].quantity - machine[c].filled
            BY <3>2 DEF InFlight, Remaining, IsTerminal, Terminal
          <6>3. InFlight(c)' = 0 \/ InFlight(c)' = InFlight(c)
            BY <6>1, <6>2 DEF InFlight, Remaining
          <6>4. QED
            BY <3>0, <6>3
        <5>3. QED
          BY <4>2, <5>1, <5>2
      <4>3. CASE machine'[c] = machine[c]
        <5>1. InFlight(c)' = InFlight(c)
          BY <4>3 DEF InFlight, Remaining, IsTerminal
        <5>2. QED
          BY <3>0, <5>1
      <4>4. QED
        BY <2>1, <2>8, <4>1, <4>2, <4>3 DEF Cancel, CancelWorking, CancelRefused
    <3>4. QED
      BY <2>5, <3>1, <3>3
  <2>9. ASSUME NEW c \in Reliable, NEW q \in 1..Qty, DeliverFill(c, q)
        PROVE  Ledger!Next
    <3> c \in Order BY DEF Reliable
    <3>1. Others(c) /\ Booked(c)' = Booked(c) + q
      BY <2>1, <2>9 DEF DeliverFill, InFlight, Booked, Remaining, IsTerminal, Venues
    <3>2. /\ machine[c] \in Machines /\ venue[c] \in Venues /\ transit[c] \in Nat
          /\ Consistent(machine[c], venue[c], transit[c]) /\ q <= transit[c]
      BY <2>1, <2>9 DEF DeliverFill, AccountsConsistent
    <3>3. machine[c].status # "NONE" /\ machine'[c] = OnFill(machine[c], q)
      BY <2>1, <2>9, <3>2, FillConsistent DEF DeliverFill
    <3>4. InFlight(c) = Remaining(machine[c]) /\ Remaining(machine[c]) >= q
      BY <3>2, <3>3, FillConsistent DEF InFlight
    <3>5. InFlight(c)' = InFlight(c) - q
      BY <2>2, <3>2, <3>3, <3>4, FillConsistent DEF InFlight, IsTerminal, Terminal
    <3>6. QED
      BY <2>2, <2>3, <3>1, <3>4, <3>5, LedgerStep
  <2>10. ASSUME NEW c \in Reliable, NEW q \in 1..Qty, VenueFill(c, q)
         PROVE  Ledger!Next
    <3> c \in Order BY DEF Reliable
    <3>0. Others(c)
      BY <2>1, <2>10, Local DEF Reliable, InFlight, Booked, Remaining, IsTerminal
    <3>1. machine' = machine /\ Others(c) /\ Booked(c)' = Booked(c)
      <4>1. /\ venue'[c].filled = venue[c].filled + q /\ transit'[c] = transit[c] + q
            /\ venue[c].filled \in Nat /\ transit[c] \in Nat /\ machine' = machine
        BY <2>1, <2>10 DEF VenueFill, Venues
      <4>2. QED
        BY <3>0, <4>1 DEF Booked
    <3>2. InFlight(c)' = InFlight(c)
      BY <3>1 DEF InFlight, Remaining, IsTerminal
    <3>3. QED
      BY <2>2, <2>5, <3>1, <3>2
  <2>11. ASSUME NEW c \in Reliable, VenueExpire(c)
         PROVE  Ledger!Next
    <3> c \in Order BY DEF Reliable
    <3>1. machine' = machine /\ Others(c) /\ Booked(c)' = Booked(c)
      BY <2>1, <2>11 DEF VenueExpire, InFlight, Booked, Remaining, IsTerminal, Venues
    <3>2. InFlight(c)' = InFlight(c)
      BY <3>1 DEF InFlight, Remaining, IsTerminal
    <3>3. QED
      BY <2>2, <2>5, <3>1, <3>2
  <2>12. CASE StreamDrop
    BY <2>1, <2>12 DEF StreamDrop, Reliable, InFlight, Remaining, IsTerminal
  <2>13. CASE UNCHANGED vars
    BY <2>13 DEF vars, InFlight, Remaining, IsTerminal
  <2>14. ASSUME NEW c \in Order \ Reliable, NEW q \in 1..Qty,
                \/ Submit(c, q) \/ ResolveUnknown(c) \/ Cancel(c)
                \/ DeliverFill(c, q) \/ VenueFill(c, q) \/ VenueExpire(c)
         PROVE  UNCHANGED <<room, booked>>
    <3>1. \A d \in Reliable :
            machine'[d] = machine[d] /\ venue'[d] = venue[d] /\ transit'[d] = transit[d]
      BY <2>14, Local DEF Reliable
    <3>2. \A d \in Reliable : InFlight(d)' = InFlight(d) /\ Booked(d)' = Booked(d)
      BY <3>1 DEF InFlight, Booked, Remaining, IsTerminal
    <3>3. QED
      BY <3>2 DEF Booked
  <2>15. QED
    BY <2>4, <2>6, <2>7, <2>8, <2>9, <2>10, <2>11, <2>12, <2>13, <2>14 DEF Next
<1>4. QED
  BY <1>1, <1>3, TypeCorrect, ReliableConsistent, PTL DEF Spec, RefinesExposure, Ledger!Spec, Ledger!vars

-----------------------------------------------------------------------------
(* Every order, whatever its venue does: overtaking answers, losses and    *)
(* trades inside place included.                                           *)

\* An answer that names a status of the venue's own is taken over as it is.
LEMMA ResolvedStatus ==
  ASSUME NEW m \in Machines, NEW v \in Venues, m.status = "QUERY", NEW r \in Resolved(m, v)
  PROVE  /\ r.status = "CANCELLED" => v.status = "CANCELLED"
         /\ r.status = "REJECTED" => v.status \in {"NONE", "REJECTED"}
<1>1. CASE r = m
  BY <1>1
<1>2. CASE v.status = "NONE" /\ r = OnNotFound(m)
  <2>1. Moved(r, m, "REJECTED")
    BY <1>2, Legal, Rows DEF OnNotFound, Status, Terminal
  <2>2. QED
    BY <1>2, <2>1 DEF Moved
<1>3. CASE v.status # "NONE" /\ \E s \in Answers(v) : r = OnQueryResult(m, s, v.filled)
  <2>1. PICK s \in Answers(v) : r = OnQueryResult(m, s, v.filled)
    BY <1>3
  <2> DEFINE f == [m EXCEPT !.filled = v.filled]
  <2>2. f \in Machines /\ f.status = "QUERY"
    BY DEF Machines, Venues
  <2>3. s \in {"ACKED", "PARTIAL", "QUERY"} \/ (s = v.status /\ s \in Terminal)
    BY <1>3 DEF Answers, Venues
  <2>4. r = f \/ (s # "QUERY" /\ r = Transition(f, s))
    BY <2>1 DEF OnQueryResult
  <2> HIDE DEF f
  <2>5. CASE r = f
    BY <2>2, <2>5
  <2>6. CASE s # "QUERY" /\ r = Transition(f, s)
    <3>1. s \in TRANSITIONS[f.status] /\ s \in Status
      BY <2>2, <2>3, <2>6, Rows DEF Status, Terminal
    <3>2. Moved(r, f, s)
      BY <2>2, <2>6, <3>1, Legal
    <3>3. QED
      BY <2>3, <3>2 DEF Moved
  <2>7. QED
    BY <2>4, <2>5, <2>6
<1>4. QED
  BY <1>1, <1>2, <1>3 DEF Resolved

\* A cancel that the venue refuses ends in what the query says, or in a write-off
\* of an order the venue does not know.
LEMMA RefusedStatus ==
  ASSUME TypeOK, NEW c \in Order, machine[c].status # "NONE", ~IsTerminal(machine[c]),
         CancelRefused(c)
  PROVE  /\ venue' = venue /\ venue[c].status # "LIVE"
         /\ machine[c].status = "QUERY" /\ machine'[c].status = "REJECTED" =>
              venue[c].status \in {"NONE", "REJECTED"}
<1> DEFINE m == OnUnknown(machine[c])
<1>1. venue' = venue /\ venue[c].status # "LIVE"
  BY DEF CancelRefused
<1>2. \/ machine'[c] \in Resolved(m, venue[c])
      \/ venue[c].status = "NONE"
  BY DEF CancelRefused, TypeOK
<1>3. machine[c].status = "QUERY" => m = machine[c]
  BY DEF OnUnknown
<1>4. machine[c] \in Machines /\ venue[c] \in Venues
  BY Kinds
<1>5. QED
  BY <1>1, <1>2, <1>3, <1>4, ResolvedStatus

\* A fill never cancels and never refuses: it moves an order on or is illegal.
LEMMA FillStatus ==
  ASSUME NEW m \in Machines, NEW q \in Nat
  PROVE  OnFill(m, q).status \in {m.status, "FILLED", "PARTIAL"}
<1> DEFINE f == [m EXCEPT !.filled = @ + q]
<1>1. f.status = m.status /\ f \in Machines
  BY DEF Machines
<1> HIDE DEF f
<1>2. \A to \in Status : Transition(f, to).status \in {f.status, to}
  BY <1>1 DEF Transition, Machines
<1>3. OnFill(m, q) \in {f, Transition(f, "FILLED"), Transition(f, "PARTIAL")}
  BY DEF OnFill, f
<1>4. QED
  BY <1>1, <1>2, <1>3 DEF Status, Terminal

\* A failed or refused cancel is never taken for a cancelled order, on any venue:
\* an order reported CANCELLED works nowhere.
THEOREM CancelledStaysClosed == Spec => []CancelledIsClosed
<1> DEFINE Closed(c) == machine[c].status = "CANCELLED" => venue[c].status # "LIVE"
<1>1. Init => CancelledIsClosed
  BY DEF Init, CancelledIsClosed, NoMachine
<1>2. TypeOK /\ CancelledIsClosed /\ [Next]_vars => CancelledIsClosed'
  <2> SUFFICES ASSUME TypeOK, \A c \in Order : Closed(c), [Next]_vars
               PROVE  \A c \in Order : Closed(c)'
    BY DEF CancelledIsClosed
  <2>0. machine \in [Order -> Machines] /\ venue \in [Order -> Venues]
    BY DEF TypeOK, Machines, Venues
  <2>1. ASSUME NEW c \in Order, NEW q \in 1..Qty, Submit(c, q) PROVE Closed(c)'
    <3>1. \/ Moved(machine'[c], NewMachine(q), "ACKED")
          \/ Moved(machine'[c], NewMachine(q), "QUERY")
          \/ Moved(machine'[c], NewMachine(q), "REJECTED")
      BY <2>0, <2>1, Submitted DEF Submit
    <3>2. QED
      BY <3>1 DEF Moved
  <2>2. ASSUME NEW c \in Order, ResolveUnknown(c) PROVE Closed(c)'
    <3>1. machine'[c] \in Resolved(machine[c], venue[c]) /\ machine[c].status = "QUERY"
          /\ venue' = venue
      BY <2>0, <2>2 DEF ResolveUnknown
    <3>2. QED
      BY <2>0, <3>1, ResolvedStatus
  <2>3. ASSUME NEW c \in Order, Cancel(c) PROVE Closed(c)'
    <3>1. CASE CancelWorking(c)
      <4>1. \/ venue'[c].status = "CANCELLED"
            \/ venue' = venue /\ machine' = machine
        BY <2>0, <3>1 DEF CancelWorking, Venues
      <4>2. QED
        BY <4>1
    <3>2. CASE CancelRefused(c)
      BY <2>3, <3>2, RefusedStatus DEF Cancel
    <3>3. QED
      BY <2>3, <3>1, <3>2 DEF Cancel
  <2>4. ASSUME NEW c \in Order, NEW q \in 1..Qty, DeliverFill(c, q) PROVE Closed(c)'
    <3>1. machine'[c] \in {machine[c], OnFill(machine[c], q)} /\ venue' = venue
      BY <2>0, <2>4 DEF DeliverFill
    <3>2. OnFill(machine[c], q).status \in {machine[c].status, "FILLED", "PARTIAL"}
      BY <2>0, FillStatus
    <3>3. QED
      BY <3>1, <3>2
  <2>5. ASSUME NEW c \in Order, NEW q \in 1..Qty, VenueFill(c, q) \/ VenueExpire(c)
        PROVE  Closed(c)'
    <3>1. machine' = machine /\ venue[c].status = "LIVE"
      BY <2>5 DEF VenueFill, VenueExpire
    <3>2. QED
      BY <3>1
  <2>6. ASSUME NEW c \in Order, NEW q \in 1..Qty,
               \/ Submit(c, q) \/ ResolveUnknown(c) \/ Cancel(c)
               \/ DeliverFill(c, q) \/ VenueFill(c, q) \/ VenueExpire(c)
        PROVE  \A d \in Order : Closed(d)'
    BY <2>1, <2>2, <2>3, <2>4, <2>5, <2>6, Local
  <2>7. CASE StreamDrop \/ UNCHANGED vars
    BY <2>7 DEF StreamDrop, vars
  <2>8. 1 \in 1..Qty
    OBVIOUS
  <2>9. QED
    BY <2>6, <2>7, <2>8 DEF Next
<1>3. QED
  BY <1>1, <1>2, TypeCorrect, PTL DEF Spec

\* What the venue never took, or refused whole, never traded.
AbsentIsUntraded ==
  \A c \in Order : venue[c].status \in {"NONE", "REJECTED"} => venue[c].filled = 0

\* The venue's own record: it refuses only what has not traded.
LEMMA AbsentUntraded == Spec => []AbsentIsUntraded
<1> DEFINE Untraded(c) == venue[c].status \in {"NONE", "REJECTED"} => venue[c].filled = 0
<1>1. Init => AbsentIsUntraded
  BY DEF Init, AbsentIsUntraded, NoOrder
<1>2. TypeOK /\ AbsentIsUntraded /\ [Next]_vars => AbsentIsUntraded'
  <2> SUFFICES ASSUME TypeOK, \A c \in Order : Untraded(c), [Next]_vars
               PROVE  \A c \in Order : Untraded(c)'
    BY DEF AbsentIsUntraded
  <2>0. venue \in [Order -> Venues]
    BY DEF TypeOK, Venues
  <2>1. ASSUME NEW c \in Order, NEW q \in 1..Qty, Submit(c, q) PROVE Untraded(c)'
    <3>1. venue' = venue \/ \E v \in Arrivals(c, q) : venue' = [venue EXCEPT ![c] = v]
      BY <2>1 DEF Submit
    <3>2. \A v \in Arrivals(c, q) : v.status \in {"LIVE", "FILLED"}
      BY DEF Arrivals
    <3>3. QED
      BY <2>0, <3>1, <3>2
  <2>2. ASSUME NEW c \in Order, Cancel(c) PROVE Untraded(c)'
    <3>1. venue' = venue \/ venue' = [venue EXCEPT ![c].status = "CANCELLED"]
      BY <2>2 DEF Cancel, CancelWorking, CancelRefused
    <3>2. QED
      BY <2>0, <3>1 DEF Venues
  <2>3. ASSUME NEW c \in Order, NEW q \in 1..Qty, VenueFill(c, q) PROVE Untraded(c)'
    BY <2>0, <2>3 DEF VenueFill, Venues
  <2>4. ASSUME NEW c \in Order, VenueExpire(c) PROVE Untraded(c)'
    BY <2>0, <2>4 DEF VenueExpire, Venues
  <2>5. ASSUME NEW c \in Order, NEW q \in 1..Qty,
               \/ Submit(c, q) \/ ResolveUnknown(c) \/ Cancel(c)
               \/ DeliverFill(c, q) \/ VenueFill(c, q) \/ VenueExpire(c)
        PROVE  \A d \in Order : Untraded(d)'
    <3>1. ResolveUnknown(c) \/ DeliverFill(c, q) => venue' = venue
      BY DEF ResolveUnknown, DeliverFill
    <3>2. QED
      BY <2>1, <2>2, <2>3, <2>4, <2>5, <3>1, Local
  <2>6. CASE StreamDrop \/ UNCHANGED vars
    BY <2>6 DEF StreamDrop, vars
  <2>7. 1 \in 1..Qty
    OBVIOUS
  <2>8. QED
    BY <2>5, <2>6, <2>7 DEF Next
<1>3. QED
  BY <1>1, <1>2, TypeCorrect, PTL DEF Spec

\* An order whose fate is unknown is written off only when nothing of it traded
\* or can still trade, whatever the venue does meanwhile: the answer that writes
\* it off comes from the venue's record at that very moment.
THEOREM WriteOffsAreAbsent == Spec => WrittenOffOnlyIfAbsent
<1>1. TypeOK /\ AbsentIsUntraded /\ [Next]_vars =>
        [\A c \in Order : WrittenOff(c) => venue[c].status # "LIVE" /\ venue[c].filled = 0]_vars
  <2> SUFFICES ASSUME TypeOK, AbsentIsUntraded, [Next]_vars,
                      NEW c \in Order, WrittenOff(c)
               PROVE  venue[c].status \in {"NONE", "REJECTED"}
    BY DEF AbsentIsUntraded
  <2>0. machine \in [Order -> Machines] /\ venue \in [Order -> Venues]
    BY DEF TypeOK, Machines, Venues
  <2>1. machine[c].status = "QUERY" /\ machine'[c].status = "REJECTED"
    BY DEF WrittenOff
  <2>2. ASSUME NEW q \in 1..Qty, Submit(c, q) PROVE FALSE
    BY <2>1, <2>2 DEF Submit, MayPlaceNewOrder
  <2>3. CASE ResolveUnknown(c)
    <3>1. machine'[c] \in Resolved(machine[c], venue[c])
      BY <2>0, <2>3 DEF ResolveUnknown
    <3>2. QED
      BY <2>0, <2>1, <3>1, ResolvedStatus
  <2>4. CASE Cancel(c)
    <3>1. CASE CancelRefused(c)
      BY <2>1, <2>4, <3>1, RefusedStatus DEF Cancel
    <3>2. CASE CancelWorking(c)
      <4>1. machine'[c] = machine[c] \/ machine'[c] = OnCancelAck(machine[c])
        BY <2>0, <3>2 DEF CancelWorking
      <4>2. OnCancelAck(machine[c]).status \in {machine[c].status, "CANCELLED"}
        BY <2>0 DEF OnCancelAck, Transition, Machines
      <4>3. QED
        BY <2>1, <4>1, <4>2
    <3>3. QED
      BY <2>4, <3>1, <3>2 DEF Cancel
  <2>5. ASSUME NEW q \in 1..Qty, DeliverFill(c, q) PROVE FALSE
    <3>1. machine'[c] \in {machine[c], OnFill(machine[c], q)}
      BY <2>0, <2>5 DEF DeliverFill
    <3>2. QED
      BY <2>0, <2>1, <3>1, FillStatus
  <2>6. ASSUME NEW q \in 1..Qty, VenueFill(c, q) \/ VenueExpire(c) PROVE FALSE
    BY <2>1, <2>6 DEF VenueFill, VenueExpire
  <2>7. ASSUME NEW d \in Order \ {c}, NEW q \in 1..Qty,
               \/ Submit(d, q) \/ ResolveUnknown(d) \/ Cancel(d)
               \/ DeliverFill(d, q) \/ VenueFill(d, q) \/ VenueExpire(d)
        PROVE  FALSE
    BY <2>1, <2>7, Local
  <2>8. CASE StreamDrop \/ UNCHANGED vars
    BY <2>1, <2>8 DEF StreamDrop, vars
  <2>9. 1 \in 1..Qty
    OBVIOUS
  <2>10. QED
    BY <2>2, <2>3, <2>4, <2>5, <2>6, <2>7, <2>8, <2>9 DEF Next
<1>2. QED
  BY <1>1, TypeCorrect, AbsentUntraded, PTL DEF Spec, WrittenOffOnlyIfAbsent
=============================================================================
