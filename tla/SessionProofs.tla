----------------------------- MODULE SessionProofs -----------------------------
(***************************************************************************)
(* What holds of the session for every set of order ids, every quantity    *)
(* and every beat, whatever dies and comes back: the orders it knows of    *)
(* behind any adapter, and the position it knows of where the gate did.    *)
(***************************************************************************)
EXTENDS Session, FiniteProofs

\* What one order adds to the venue's position, and what of it is still to be told.
Traded(c) == side[c] * venue[c].filled
Untold(c) == side[c] * transit[c]

\* What the arguments need of the state's shape: each place of a handler belongs to a
\* state of the session, and an order the venue has not seen has nothing to tell.
Slots == [status: {"NONE", "LIVE"} \cup Terminal, quantity: Int, filled: Int]
Shape ==
  /\ venue \in [Order -> Slots] /\ transit \in [Order -> Nat]
  /\ side \in [Order -> {-1, 0, 1}] /\ book \in Int
InSession ==
  /\ handler.at = "gate" => session = "STARTING"
  /\ handler.at \in {"positions", "orders"} => session \in {"STARTING", "RUNNING", "HALTED"}
  /\ handler.at \in {"tick", "ladder"} => session \in {"RUNNING", "HALTED"}
  /\ handler.at = "cancelling" =>
       session = "HALTED" /\ handler.then \in {"idle", "positions", "ladder"}
BaseInv == Shape /\ InSession /\ \A c \in Order : venue[c] = NoOrder => transit[c] = 0

-----------------------------------------------------------------------------
(* The two sums                                                            *)

\* Sums of numbers are numbers, and nothing in transit is nothing unreported.
LEMMA Sums ==
  ASSUME Shape
  PROVE  /\ Held \in Int /\ Unreported \in Int
         /\ (\A c \in Order : transit[c] = 0) => Unreported = 0
<1> DEFINE f == [c \in Order |-> side[c] * venue[c].filled]
           g == [c \in Order |-> side[c] * transit[c]]
<1>1. \A c \in Order : /\ side[c] \in {-1, 0, 1} /\ venue[c].filled \in Int
                       /\ transit[c] \in Int
  BY DEF Shape, Slots
<1>2. \A c \in Order : /\ f[c] \in Int /\ g[c] \in Int
                       /\ transit[c] = 0 => g[c] = 0
  <2> SUFFICES ASSUME NEW c \in Order
               PROVE  f[c] \in Int /\ g[c] \in Int /\ (transit[c] = 0 => g[c] = 0)
    OBVIOUS
  <2>1. side[c] * venue[c].filled \in Int /\ side[c] * transit[c] \in Int
    BY <1>1
  <2>2. transit[c] = 0 => side[c] * transit[c] = 0
    BY <1>1
  <2>3. QED
    BY <2>1, <2>2
<1>3. Held = SumFunctionOnSet(f, Order) /\ Unreported = SumFunctionOnSet(g, Order)
  BY DEF Held, Unreported, Total
<1> HIDE DEF f, g
<1>4. SumFunctionOnSet(f, Order) \in Int /\ SumFunctionOnSet(g, Order) \in Int
  BY <1>2, SessionAssumption, SumInteger DEF Numbers
<1>5. ASSUME \A c \in Order : transit[c] = 0 PROVE SumFunctionOnSet(g, Order) = 0
  BY <1>2, <1>5, SessionAssumption, SumZero
<1>6. QED
  BY <1>3, <1>4, <1>5

\* A step that leaves what every order traded and has to tell leaves the sums.
LEMMA SumsSame ==
  ASSUME \A c \in Order : Traded(c)' = Traded(c) /\ Untold(c)' = Untold(c)
  PROVE  Held' = Held /\ Unreported' = Unreported
<1>1. /\ [c \in Order |-> side[c] * venue[c].filled]' = [c \in Order |-> side[c] * venue[c].filled]
      /\ [c \in Order |-> side[c] * transit[c]]' = [c \in Order |-> side[c] * transit[c]]
  BY DEF Traded, Untold
<1>2. QED
  BY <1>1 DEF Held, Unreported, Total

\* A step that changes one order's changes the sums by as much.
LEMMA SumsChange ==
  ASSUME Shape, Shape', NEW c \in Order, NEW x \in Int, NEW y \in Int,
         \A d \in Order \ {c} : Traded(d)' = Traded(d) /\ Untold(d)' = Untold(d),
         Traded(c)' = Traded(c) + x, Untold(c)' = Untold(c) + y
  PROVE  Held' = Held + x /\ Unreported' = Unreported + y
<1> DEFINE f == [d \in Order |-> side[d] * venue[d].filled]
           g == [d \in Order |-> side[d] * transit[d]]
           ff == [d \in Order |-> side'[d] * venue'[d].filled]
           gg == [d \in Order |-> side'[d] * transit'[d]]
<1>1. \A d \in Order : /\ side[d] \in {-1, 0, 1} /\ venue[d].filled \in Int
                       /\ transit[d] \in Int
                       /\ side'[d] \in {-1, 0, 1} /\ venue'[d].filled \in Int
                       /\ transit'[d] \in Int
  BY DEF Shape, Slots
<1>2. \A d \in Order : f[d] \in Int /\ g[d] \in Int /\ ff[d] \in Int /\ gg[d] \in Int
  BY <1>1
<1>3. /\ ff[c] = f[c] + x /\ gg[c] = g[c] + y
      /\ \A d \in Order \ {c} : ff[d] = f[d] /\ gg[d] = g[d]
  BY DEF Traded, Untold
<1>4. /\ Held = SumFunctionOnSet(f, Order) /\ Unreported = SumFunctionOnSet(g, Order)
      /\ Held' = SumFunctionOnSet(ff, Order) /\ Unreported' = SumFunctionOnSet(gg, Order)
  BY DEF Held, Unreported, Total
<1> HIDE DEF f, g, ff, gg
<1>5. /\ SumFunctionOnSet(ff, Order) = SumFunctionOnSet(f, Order) - f[c] + ff[c]
      /\ SumFunctionOnSet(gg, Order) = SumFunctionOnSet(g, Order) - g[c] + gg[c]
  BY <1>2, <1>3, SessionAssumption, SumChange DEF Numbers
<1>6. Held \in Int /\ Unreported \in Int
  BY Sums
<1>7. QED
  BY <1>2, <1>3, <1>4, <1>5, <1>6

-----------------------------------------------------------------------------
(* What the steps do to the position                                       *)

\* A new order opens nothing yet, but at a venue that trades inside place itself.
LEMMA PlaceKeeps ==
  ASSUME BaseInv, NEW c \in Fresh, NEW direction \in {-1, 1}, NEW q \in Int,
         Place(c, direction, q)
  PROVE  /\ Shape' /\ book' = book /\ transit' = transit
         /\ \A d \in Order : venue'[d] = NoOrder => venue[d] = NoOrder
         /\ Instant = {} => Held' = Held /\ Unreported' = Unreported
<1>1. /\ c \in Order /\ venue[c] = NoOrder /\ transit[c] = 0 /\ Shape
      /\ book' = book /\ transit' = transit /\ side' = [side EXCEPT ![c] = direction]
      /\ venue' = venue \/ \E v \in Arrivals(c, q) : venue' = [venue EXCEPT ![c] = v]
  BY DEF BaseInv, Fresh, Place, Submit
<1>2. ASSUME NEW v \in Arrivals(c, q)
      PROVE  v \in Slots /\ v # NoOrder /\ (Instant = {} => v.filled = 0)
  BY <1>2 DEF Arrivals, Slots, NoOrder, Terminal
<1>3. /\ Shape' /\ transit'[c] = 0
      /\ Instant = {} => venue'[c].filled = 0
      /\ \A d \in Order \ {c} : venue'[d] = venue[d] /\ side'[d] = side[d]
      /\ \A d \in Order : venue'[d] = NoOrder => venue[d] = NoOrder
  <2>1. CASE venue' = venue
    BY <1>1, <2>1 DEF Shape, NoOrder
  <2>2. ASSUME NEW v \in Arrivals(c, q), venue' = [venue EXCEPT ![c] = v]
        PROVE  /\ Shape' /\ transit'[c] = 0
               /\ Instant = {} => venue'[c].filled = 0
               /\ \A d \in Order \ {c} : venue'[d] = venue[d] /\ side'[d] = side[d]
               /\ \A d \in Order : venue'[d] = NoOrder => venue[d] = NoOrder
    BY <1>1, <1>2, <2>2 DEF Shape
  <2>3. QED
    BY <1>1, <2>1, <2>2
<1>4. ASSUME Instant = {}, NEW d \in Order PROVE Traded(d)' = Traded(d) /\ Untold(d)' = Untold(d)
  <2>1. CASE d = c
    <3>1. side[c] \in Int /\ side'[c] \in Int /\ NoOrder.filled = 0
      BY <1>1, <1>3 DEF Shape, NoOrder
    <3>2. side[c] * 0 = 0 /\ side'[c] * 0 = 0
      BY <3>1
    <3>3. QED
      BY <1>1, <1>3, <1>4, <2>1, <3>1, <3>2 DEF Traded, Untold
  <2>2. CASE d # c
    BY <1>1, <1>3, <2>2 DEF Traded, Untold
  <2>3. QED
    BY <2>1, <2>2
<1>5. QED
  BY <1>1, <1>3, <1>4, SumsSame

\* A fill that the machine takes moves a position from unreported to booked.
LEMMA FillKeeps ==
  ASSUME BaseInv, NEW c \in Order, NEW q \in 1..Qty, Fill(c, q)
  PROVE  /\ Shape' /\ venue' = venue /\ session' = session /\ clean' = clean
         /\ \A d \in Order : transit[d] = 0 => transit'[d] = 0
         /\ handler' \in {Idle, Dead} /\ (handler' = Idle => (Explained <=> Explained'))
<1>1. /\ venue' = venue /\ side' = side /\ session' = session /\ clean' = clean
      /\ transit' = [transit EXCEPT ![c] = @ - q] /\ q <= transit[c]
      /\ Shape /\ handler = Idle
      /\ \/ handler' = Dead /\ book' = book
         \/ handler' = Idle /\ book' = book + side[c] * q
  BY DEF BaseInv, Fill, DeliverFill
<1>2. /\ q \in Int /\ q > 0 /\ side[c] \in {-1, 0, 1} /\ venue[c].filled \in Int
      /\ transit[c] \in Int /\ book \in Int
  BY <1>1, ExecutionAssumption DEF Shape, Slots
<1>3. side[c] * q \in Int /\ side[c] * (transit[c] - q) = side[c] * transit[c] + (-(side[c] * q))
  BY <1>2
<1>4. /\ Shape' /\ transit'[c] = transit[c] - q
      /\ \A d \in Order \ {c} : transit'[d] = transit[d]
      /\ \A d \in Order : transit[d] = 0 => transit'[d] = 0
  BY <1>1, <1>2, <1>3 DEF Shape
<1>5. /\ \A d \in Order \ {c} : Traded(d)' = Traded(d) /\ Untold(d)' = Untold(d)
      /\ Traded(c)' = Traded(c) + 0 /\ Untold(c)' = Untold(c) + (-(side[c] * q))
  <2>1. Traded(c) \in Int
    BY <1>2 DEF Traded
  <2>2. QED
    BY <1>1, <1>3, <1>4, <2>1 DEF Traded, Untold
<1>6. Held' = Held + 0 /\ Unreported' = Unreported + (-(side[c] * q))
  BY <1>1, <1>3, <1>4, <1>5, SumsChange
<1>7. Held \in Int /\ Unreported \in Int
  BY <1>1, Sums
<1>8. handler' = Idle => (Explained <=> Explained')
  <2>1. PICK p \in Int : p = side[c] * q
    BY <1>3
  <2>2. handler' = Idle => book' = book + p
    BY <1>1, <2>1 DEF Idle, Dead, At
  <2>3. Held' = Held /\ Unreported' = Unreported - p
    BY <1>6, <1>7, <2>1
  <2>4. QED
    BY <1>2, <1>7, <2>2, <2>3 DEF Explained
<1>9. QED
  BY <1>1, <1>4, <1>8

\* What the venue trades it has still to tell.
LEMMA VenueKeeps ==
  ASSUME BaseInv, Venue
  PROVE  /\ Shape' /\ (Explained <=> Explained')
         /\ \A d \in Order : venue'[d] = NoOrder => venue[d] = NoOrder /\ transit'[d] = transit[d]
<1>1. PICK c \in Order : /\ c \in Overtakes \/ handler = Idle
                         /\ VenueExpire(c) \/ \E q \in 1..Qty : VenueFill(c, q)
  BY DEF Venue
<1>2. /\ Shape /\ c \in DOMAIN venue /\ c \in DOMAIN transit /\ venue[c] \in Slots
      /\ side' = side /\ book' = book /\ book \in Int
  BY DEF BaseInv, Shape, Venue
<1>3. PICK x \in Int :
        /\ venue'[c].filled = venue[c].filled + x /\ transit'[c] = transit[c] + x
        /\ venue' \in [Order -> Slots] /\ transit' \in [Order -> Nat]
        /\ \A d \in Order \ {c} : venue'[d] = venue[d] /\ transit'[d] = transit[d]
  <2>1. CASE VenueExpire(c)
    <3>1. PICK s \in {"CANCELLED", "REJECTED"} :
            transit' = transit /\ venue' = [venue EXCEPT ![c].status = s]
      BY <2>1 DEF VenueExpire
    <3>2. s \in Terminal
      BY DEF Terminal
    <3>3. /\ venue'[c].filled = venue[c].filled + 0 /\ transit'[c] = transit[c] + 0
          /\ venue' \in [Order -> Slots] /\ transit' \in [Order -> Nat]
          /\ \A d \in Order \ {c} : venue'[d] = venue[d] /\ transit'[d] = transit[d]
      BY <1>2, <3>1, <3>2 DEF Shape, Slots
    <3>4. QED
      BY <3>3
  <2>2. ASSUME NEW q \in 1..Qty, VenueFill(c, q)
        PROVE  /\ venue'[c].filled = venue[c].filled + q /\ transit'[c] = transit[c] + q
               /\ venue' \in [Order -> Slots] /\ transit' \in [Order -> Nat]
               /\ \A d \in Order \ {c} : venue'[d] = venue[d] /\ transit'[d] = transit[d]
    <3> DEFINE status == IF venue[c].filled + q = venue[c].quantity
                           THEN "FILLED" ELSE venue[c].status
               slot == [venue[c] EXCEPT !.filled = @ + q, !.status = status]
    <3>1. status \in {"NONE", "LIVE"} \cup Terminal /\ venue[c].filled + q \in Int
      BY <1>2 DEF Slots, Terminal
    <3>2. slot \in Slots /\ slot.filled = venue[c].filled + q
      <4> HIDE DEF status
      <4>1. QED
        BY <1>2, <3>1 DEF Slots
    <3>3. venue' = [venue EXCEPT ![c] = slot] /\ transit' = [transit EXCEPT ![c] = @ + q]
      BY <1>2, <2>2 DEF VenueFill, Slots
    <3> HIDE DEF slot
    <3>4. QED
      BY <1>2, <3>2, <3>3 DEF Shape
  <2>3. 1 \in 1..Qty /\ 1..Qty \subseteq Int
    BY ExecutionAssumption
  <2>4. QED
    BY <1>1, <2>1, <2>2, <2>3
<1>4. Shape'
  BY <1>2, <1>3 DEF Shape
<1>5. venue[c].status = "LIVE" /\ ~(venue'[c] = NoOrder)
  <2>1. venue[c].status = "LIVE" /\ venue'[c].status \in {"LIVE"} \cup Terminal
    <3>1. CASE VenueExpire(c)
      BY <1>2, <3>1 DEF VenueExpire, Slots, Terminal
    <3>2. ASSUME NEW q \in 1..Qty, VenueFill(c, q)
          PROVE  venue[c].status = "LIVE" /\ venue'[c].status \in {"LIVE"} \cup Terminal
      BY <1>2, <3>2 DEF VenueFill, Slots, Terminal
    <3>3. QED
      BY <1>1, <3>1, <3>2
  <2>2. QED
    BY <2>1 DEF NoOrder, Terminal
<1>6. Explained <=> Explained'
  <2>1. /\ side[c] \in {-1, 0, 1} /\ venue[c].filled \in Int /\ transit[c] \in Int
    BY <1>2 DEF Shape, Slots
  <2>2. /\ side[c] * x \in Int
        /\ side[c] * (venue[c].filled + x) = side[c] * venue[c].filled + side[c] * x
        /\ side[c] * (transit[c] + x) = side[c] * transit[c] + side[c] * x
    BY <2>1
  <2>3. /\ \A d \in Order \ {c} : Traded(d)' = Traded(d) /\ Untold(d)' = Untold(d)
        /\ Traded(c)' = Traded(c) + side[c] * x /\ Untold(c)' = Untold(c) + side[c] * x
    BY <1>2, <1>3, <2>2 DEF Traded, Untold
  <2>4. Held' = Held + side[c] * x /\ Unreported' = Unreported + side[c] * x
    BY <1>2, <1>4, <2>2, <2>3, SumsChange
  <2>5. Held \in Int /\ Unreported \in Int
    BY <1>2, Sums
  <2>6. PICK p \in Int : p = side[c] * x
    BY <2>2
  <2>7. Held' = Held + p /\ Unreported' = Unreported + p /\ book' = book
    BY <1>2, <2>4, <2>6
  <2>8. QED
    BY <1>2, <2>5, <2>6, <2>7 DEF Explained
<1>7. QED
  BY <1>1, <1>3, <1>4, <1>5, <1>6

\* Cancelling an order leaves what it traded and what is to be told of it.
LEMMA CancelKeeps ==
  ASSUME BaseInv, NEW c \in Order, FlattenCancel(c)
  PROVE  /\ Shape' /\ Held' = Held /\ Unreported' = Unreported /\ transit' = transit
         /\ UNCHANGED <<side, book, clean, session>> /\ handler.at = "cancelling"
         /\ handler'.at = handler.at /\ handler'.then = handler.then
         /\ \A d \in Order : venue'[d] = NoOrder => venue[d] = NoOrder
<1>1. /\ handler.at = "cancelling" /\ side' = side /\ book' = book /\ transit' = transit
      /\ clean' = clean /\ session' = session
      /\ handler' = [handler EXCEPT !.left = @ \ {c}]
      /\ venue' = venue \/ venue' = [venue EXCEPT ![c].status = "CANCELLED"]
      /\ venue' = venue \/ venue[c].status = "LIVE"
  BY DEF FlattenCancel, Cancel, CancelWorking, CancelRefused
<1>2. handler'.at = handler.at /\ handler'.then = handler.then
  BY <1>1
<1>3. /\ Shape' /\ \A d \in Order : venue'[d].filled = venue[d].filled
      /\ \A d \in Order : venue'[d] = NoOrder => venue[d] = NoOrder
  <2>1. CASE venue' = venue
    BY <1>1, <2>1 DEF BaseInv, Shape
  <2>2. CASE venue' = [venue EXCEPT ![c].status = "CANCELLED"]
    <3>1. /\ venue \in [Order -> Slots]
          /\ [venue[c] EXCEPT !.status = "CANCELLED"] \in Slots
          /\ [venue[c] EXCEPT !.status = "CANCELLED"].filled = venue[c].filled
          /\ [venue[c] EXCEPT !.status = "CANCELLED"] # NoOrder
      BY DEF BaseInv, Shape, Slots, Terminal, NoOrder
    <3>2. PICK v \in Slots : /\ venue' = [venue EXCEPT ![c] = v]
                             /\ v.filled = venue[c].filled /\ v # NoOrder
      BY <2>2, <3>1
    <3>3. QED
      BY <1>1, <3>1, <3>2 DEF BaseInv, Shape
  <2>3. QED
    BY <1>1, <2>1, <2>2
<1>4. Held' = Held /\ Unreported' = Unreported
  <2>1. \A d \in Order : Traded(d)' = Traded(d) /\ Untold(d)' = Untold(d)
    BY <1>1, <1>3 DEF Traded, Untold
  <2>2. QED
    BY <2>1, SumsSame
<1>5. QED
  BY <1>1, <1>2, <1>3, <1>4

\* A flatten's order is placed by a flatten, and only with a clean reconciliation.
LEMMA FlattenPlaces ==
  ASSUME BaseInv, FlattenPlace, ~UNCHANGED orderVars
  PROVE  /\ clean /\ book # 0
         /\ \E c \in Fresh, direction \in {-1, 1}, q \in Nat \ {0} : Place(c, direction, q)
<1>1. book \in Int
  BY DEF BaseInv, Shape
<1>2. PICK size \in Int : size = IF book > 0 THEN book ELSE -book
  BY <1>1
<1>3. /\ book # 0 /\ Approved(TRUE)
      /\ \E c \in Fresh : Place(c, IF book > 0 THEN -1 ELSE 1, size)
  BY <1>2 DEF FlattenPlace
<1>4. PICK direction \in {-1, 1} : direction = IF book > 0 THEN -1 ELSE 1
  OBVIOUS
<1>5. size \in Nat \ {0}
  BY <1>1, <1>2, <1>3
<1>6. clean
  BY <1>3 DEF Approved
<1>7. \E c \in Fresh : Place(c, direction, size)
  BY <1>3, <1>4
<1>8. QED
  BY <1>3, <1>5, <1>6, <1>7

-----------------------------------------------------------------------------
(* The shape                                                               *)

\* The places of a handler, by name.
LEMMA PlaceNames ==
  /\ \A p : At(p).at = p
  /\ \A t : Cancelling(t).at = "cancelling" /\ Cancelling(t).then = t
  /\ Idle.at = "idle" /\ Dead.at = "dead"
BY DEF At, Cancelling, Idle, Dead

\* Most steps leave the orders and the books as they are, and Start, the reads, the gate
\* and the steps of a tick lead from one place to the next.
Still == UNCHANGED <<machine, venue, transit, side, book>>
Stays == Still /\ UNCHANGED <<session, clean, handler>>
LEMMA Steps ==
  /\ Start => Still /\ clean' = clean /\ session' = "STARTING" /\ handler'.at = "positions"
              /\ handler.at = "idle"
  /\ ReadPositions => /\ Still /\ session' = session /\ handler.at = "positions"
                      /\ \/ clean' = clean /\ handler'.at = "orders"
                            /\ handler'.remote = IF Reports THEN Held ELSE 0
                         \/ clean' = FALSE /\ handler' = AfterReconcile
  /\ ReadOrders => /\ Still /\ session' = session /\ handler.at = "orders"
                   /\ handler' = AfterReconcile
                   /\ (clean' => ~MissingLocal(handler.remote) /\ ~QtyMismatch(handler.remote))
  /\ Timer => Still /\ UNCHANGED <<clean, session>> /\ handler'.at = "tick"
              /\ session \in {"RUNNING", "HALTED"} /\ handler.at = "idle"
  /\ Tick => /\ Still /\ clean' = clean /\ handler.at = "tick"
             /\ \/ session' = "HALTED" /\ \E t \in {"positions", "ladder"} : handler' = Cancelling(t)
                \/ session' = session /\ handler'.at \in {"positions", "ladder"}
  /\ Ladder => /\ Still /\ clean' = clean /\ handler.at = "ladder"
               /\ \/ session' = "HALTED" /\ handler' = Cancelling("idle")
                  \/ session' = session /\ handler'.at = "idle"
  /\ ManualKill => Still /\ clean' = clean /\ session \in {"RUNNING", "HALTED"}
                   /\ session' = "HALTED" /\ handler' = Cancelling("idle") /\ handler.at = "idle"
  /\ Lose \/ Elapse \/ UNCHANGED sessionVars => Stays
<1>1. Begins => handler.at = "idle"
  BY PlaceNames DEF Begins
<1>2. Start => Still /\ clean' = clean /\ session' = "STARTING" /\ handler'.at = "positions"
              /\ handler.at = "idle"
  BY <1>1, PlaceNames DEF Start, Still, orderVars
<1>3. ReadPositions => /\ Still /\ session' = session /\ handler.at = "positions"
                      /\ \/ clean' = clean /\ handler'.at = "orders"
                            /\ handler'.remote = IF Reports THEN Held ELSE 0
                         \/ clean' = FALSE /\ handler' = AfterReconcile
  <2>1. /\ [At("orders") EXCEPT !.remote = IF Reports THEN Held ELSE 0].at = "orders"
        /\ [At("orders") EXCEPT !.remote = IF Reports THEN Held ELSE 0].remote =
             IF Reports THEN Held ELSE 0
    BY DEF At
  <2>2. QED
    BY <2>1 DEF ReadPositions, CycleFails, Still, orderVars
<1>4. ReadOrders => /\ Still /\ session' = session /\ handler.at = "orders"
                   /\ handler' = AfterReconcile
                   /\ (clean' => ~MissingLocal(handler.remote) /\ ~QtyMismatch(handler.remote))
  BY DEF ReadOrders, CycleFails, Still, orderVars
<1>5. Timer => Still /\ UNCHANGED <<clean, session>> /\ handler'.at = "tick"
              /\ session \in {"RUNNING", "HALTED"} /\ handler.at = "idle"
  BY <1>1, PlaceNames DEF Timer, Still, orderVars
<1>6. Tick => /\ Still /\ clean' = clean /\ handler.at = "tick"
             /\ \/ session' = "HALTED" /\ \E t \in {"positions", "ladder"} : handler' = Cancelling(t)
                \/ session' = session /\ handler'.at \in {"positions", "ladder"}
  BY PlaceNames DEF Tick, Still, orderVars
<1>7. Ladder => /\ Still /\ clean' = clean /\ handler.at = "ladder"
               /\ \/ session' = "HALTED" /\ handler' = Cancelling("idle")
                  \/ session' = session /\ handler'.at = "idle"
  BY PlaceNames DEF Ladder, Still, orderVars
<1>8. ManualKill => Still /\ clean' = clean /\ session \in {"RUNNING", "HALTED"}
                   /\ session' = "HALTED" /\ handler' = Cancelling("idle") /\ handler.at = "idle"
  BY <1>1 DEF ManualKill, Still, orderVars
<1>9. (Lose \/ Elapse \/ UNCHANGED sessionVars) => Stays
  BY DEF Lose, Elapse, Still, Stays, orderVars, sessionVars
<1>10. QED
  BY <1>2, <1>3, <1>4, <1>5, <1>6, <1>7, <1>8, <1>9

\* Every behaviour begins in the shape.
LEMMA BaseStart == SessionInit => BaseInv
<1> SUFFICES ASSUME SessionInit PROVE BaseInv
  OBVIOUS
<1>1. Shape /\ \A c \in Order : transit[c] = 0
  BY DEF SessionInit, Init, Shape, Slots, NoOrder
<1>2. handler.at = "idle"
  BY PlaceNames DEF SessionInit
<1>3. QED
  BY <1>1, <1>2 DEF BaseInv, InSession

\* Every step keeps the shape.
LEMMA BaseStep == BaseInv /\ [SessionNext]_sessionVars => BaseInv'
<1> SUFFICES ASSUME BaseInv, [SessionNext]_sessionVars PROVE BaseInv'
  OBVIOUS
<1>0. /\ Shape /\ InSession
      /\ \A c \in Order : venue[c] = NoOrder => transit[c] = 0
  BY DEF BaseInv
<1>1. ASSUME Still, InSession' PROVE BaseInv'
  BY <1>0, <1>1 DEF Still, BaseInv, Shape
<1>2. CASE Start \/ ReadPositions \/ ReadOrders \/ Timer
  BY <1>0, <1>1, <1>2, Steps, PlaceNames DEF InSession, AfterReconcile
<1>3. CASE Tick \/ Ladder \/ ManualKill
  BY <1>0, <1>1, <1>3, Steps, PlaceNames DEF InSession
<1>4. CASE Lose \/ Elapse \/ UNCHANGED sessionVars
  BY <1>0, <1>1, <1>4, Steps DEF InSession, Stays
<1>5. CASE Gate
  <2>1. /\ UNCHANGED <<venue, side, book>> /\ handler'.at = "idle"
        /\ transit' = transit \/ transit' = [c \in Order |-> 0]
    BY <1>5, PlaceNames DEF Gate
  <2>2. QED
    BY <1>0, <2>1 DEF BaseInv, Shape, InSession
<1>6. ASSUME NEW c \in Fresh, NEW direction \in {-1, 1}, NEW q \in Int, Place(c, direction, q),
             InSession'
      PROVE  BaseInv'
  BY <1>0, <1>6, PlaceKeeps DEF BaseInv
<1>7. CASE Event
  <2>1. InSession'
    BY <1>7, PlaceNames DEF Event, InSession
  <2>2. QED
    <3>1. CASE UNCHANGED orderVars
      BY <1>1, <2>1, <3>1 DEF Still, orderVars
    <3>2. ASSUME NEW c \in Fresh, Place(c, 1, 1) PROVE BaseInv'
      BY <1>6, <2>1, <3>2
    <3>3. QED
      BY <1>7, <3>1, <3>2 DEF Event
<1>8. CASE FlattenPlace
  <2>1. InSession'
    BY <1>0, <1>8, PlaceNames DEF FlattenPlace, InSession
  <2>2. QED
    BY <1>1, <1>6, <1>8, <2>1, FlattenPlaces DEF Still, orderVars
<1>9. ASSUME NEW c \in Order, FlattenCancel(c) PROVE BaseInv'
  BY <1>0, <1>9, CancelKeeps DEF BaseInv, InSession
<1>10. ASSUME NEW c \in Order, NEW q \in 1..Qty, Fill(c, q) PROVE BaseInv'
  <2>1. /\ Shape' /\ venue' = venue /\ \A d \in Order : transit[d] = 0 => transit'[d] = 0
        /\ handler' \in {Idle, Dead}
    BY <1>10, FillKeeps
  <2>2. QED
    BY <1>0, <2>1, PlaceNames DEF BaseInv, InSession
<1>11. CASE Venue
  <2>1. /\ Shape'
        /\ \A d \in Order : venue'[d] = NoOrder => venue[d] = NoOrder /\ transit'[d] = transit[d]
        /\ handler' = handler /\ session' = session
    BY <1>11, VenueKeeps DEF Venue
  <2>2. QED
    BY <1>0, <2>1 DEF BaseInv, InSession
<1>12. CASE Drop
  <2>1. /\ UNCHANGED <<venue, side, book, handler, session>>
        /\ transit' \in [Order -> Nat]
        /\ \A d \in Order : transit'[d] \in {0, transit[d]}
    BY <1>0, <1>12 DEF Drop, StreamDrop, Shape
  <2>2. QED
    BY <1>0, <2>1 DEF BaseInv, Shape, InSession
<1>13. CASE Restart
  <2>1. /\ venue' = venue /\ side' = side /\ book' = 0 /\ transit' = [c \in Order |-> 0]
        /\ handler'.at = "idle"
    BY <1>13, PlaceNames DEF Restart
  <2>2. QED
    BY <1>0, <2>1 DEF BaseInv, Shape, InSession
<1>14. QED
  BY <1>2, <1>3, <1>4, <1>5, <1>7, <1>8, <1>9, <1>10, <1>11, <1>12, <1>13 DEF SessionNext

\* And so every state of every behaviour has it.
LEMMA BaseKept == SessionSpec => []BaseInv
BY BaseStart, BaseStep, PTL DEF SessionSpec

-----------------------------------------------------------------------------
(* The position                                                            *)

\* The inductive invariant: a session that is through the gate explains its position,
\* unless a fill that its machine refused killed it.
KnownInv == session \in {"RUNNING", "HALTED"} /\ handler.at # "dead" => Explained

\* Nothing but a lost fill makes a position unexplained: where the stream loses none and
\* no order trades inside place, a session that passed the gate with a position it could
\* explain goes on to explain it, and opens no position it cannot; whatever the adapter
\* reports, whatever overtakes what, however often the process dies.
THEOREM TradesAreInformed ==
  ASSUME Lossy = {}, Instant = {}
  PROVE  SessionSpec /\ GateExplains => TradesInformed
<1> DEFINE Passes == session # "RUNNING" /\ session' = "RUNNING" => Explained'
<1>1. SessionInit => KnownInv
  BY DEF SessionInit, KnownInv
<1>2. BaseInv /\ BaseInv' /\ KnownInv /\ [SessionNext]_sessionVars /\ [Passes]_sessionVars => KnownInv'
  <2> SUFFICES ASSUME BaseInv, BaseInv', KnownInv, [SessionNext]_sessionVars,
                      [Passes]_sessionVars
               PROVE  KnownInv'
    OBVIOUS
  <2>0. InSession
    BY DEF BaseInv
  <2>1. ASSUME Held' = Held, Unreported' = Unreported, book' = book,
               session' \in {"RUNNING", "HALTED"} /\ handler'.at # "dead" =>
                 session \in {"RUNNING", "HALTED"} /\ handler.at # "dead"
        PROVE  KnownInv'
    BY <2>1 DEF KnownInv, Explained
  <2>2. Still => Held' = Held /\ Unreported' = Unreported /\ book' = book
    BY SumsSame DEF Still, Traded, Untold
  <2>3. CASE Start \/ ReadPositions \/ ReadOrders \/ Timer
    BY <2>0, <2>1, <2>2, <2>3, Steps
  <2>4. CASE Tick \/ Ladder \/ ManualKill
    BY <2>0, <2>1, <2>2, <2>4, Steps DEF InSession
  <2>5. CASE Lose \/ Elapse \/ UNCHANGED sessionVars
    BY <2>1, <2>2, <2>5, Steps DEF Stays
  <2>6. CASE Gate
    <3>1. session = "STARTING" /\ session' \in {"RUNNING", "FAILED"}
      BY <2>0, <2>6 DEF Gate, InSession
    <3>2. session' # session
      BY <3>1
    <3>3. session' = "RUNNING" => Explained'
      BY <3>1, <3>2 DEF sessionVars
    <3>4. QED
      BY <3>1, <3>3 DEF KnownInv
  <2>7. ASSUME NEW c \in Fresh, NEW direction \in {-1, 1}, NEW q \in Int, Place(c, direction, q),
               session' \in {"RUNNING", "HALTED"} /\ handler'.at # "dead" =>
                 session \in {"RUNNING", "HALTED"} /\ handler.at # "dead"
        PROVE  KnownInv'
    BY <2>1, <2>7, PlaceKeeps
  <2>8. CASE Event
    <3>1. session \in {"RUNNING", "HALTED"} /\ handler.at # "dead"
      BY <2>8, PlaceNames DEF Event, Begins
    <3>2. QED
      <4>1. CASE UNCHANGED orderVars
        BY <2>1, <2>2, <3>1, <4>1 DEF Still, orderVars
      <4>2. ASSUME NEW c \in Fresh, Place(c, 1, 1) PROVE KnownInv'
        BY <2>7, <3>1, <4>2
      <4>3. QED
        BY <2>8, <4>1, <4>2 DEF Event
  <2>9. CASE FlattenPlace
    <3>1. session \in {"RUNNING", "HALTED"} /\ handler.at # "dead"
      BY <2>0, <2>9 DEF FlattenPlace, InSession
    <3>2. QED
      BY <2>1, <2>2, <2>7, <2>9, <3>1, FlattenPlaces DEF Still, orderVars
  <2>10. ASSUME NEW c \in Order, FlattenCancel(c) PROVE KnownInv'
    BY <2>1, <2>10, CancelKeeps
  <2>11. ASSUME NEW c \in Order, NEW q \in 1..Qty, Fill(c, q) PROVE KnownInv'
    <3>1. /\ handler' \in {Idle, Dead} /\ (handler' = Idle => (Explained <=> Explained'))
          /\ session' = session /\ handler = Idle
      BY <2>11, FillKeeps DEF Fill
    <3>2. QED
      BY <3>1, PlaceNames DEF KnownInv
  <2>12. CASE Venue
    BY <2>12, VenueKeeps DEF Venue, KnownInv
  <2>13. CASE Drop
    BY <2>13 DEF Drop, StreamDrop
  <2>14. CASE Restart
    BY <2>14 DEF Restart, KnownInv
  <2>15. QED
    BY <2>3, <2>4, <2>5, <2>6, <2>8, <2>9, <2>10, <2>11, <2>12, <2>13, <2>14 DEF SessionNext
<1>3. BaseInv /\ KnownInv /\ [SessionNext]_sessionVars =>
        [\A c \in Order : side[c] = 0 /\ side'[c] = 1 => Explained]_sessionVars
  <2> SUFFICES ASSUME BaseInv, KnownInv, SessionNext,
                      NEW c \in Order, side[c] = 0, side'[c] = 1
               PROVE  Explained
    OBVIOUS
  <2>1. side' # side
    OBVIOUS
  <2>2. Event \/ FlattenPlace
    BY <2>1 DEF SessionNext, Start, ReadPositions, ReadOrders, Gate, Timer, Tick, Ladder,
                ManualKill, FlattenCancel, Fill, Venue, Drop, Lose, Elapse, Restart, orderVars
  <2>3. session \in {"RUNNING", "HALTED"} /\ handler.at # "dead"
    <3>1. CASE Event
      BY <3>1, PlaceNames DEF Event, Begins
    <3>2. CASE FlattenPlace
      BY <3>2 DEF FlattenPlace, BaseInv, InSession
    <3>3. QED
      BY <2>2, <3>1, <3>2
  <2>4. QED
    BY <2>3 DEF KnownInv
<1>4. GateExplains => [][Passes]_sessionVars
  BY DEF GateExplains
<1> HIDE DEF Passes
<1>5. QED
  BY <1>1, <1>2, <1>3, <1>4, BaseKept, PTL DEF SessionSpec, TradesInformed

\* The inductive invariant of the gate: what it read of the positions still stands when it
\* compares, and when it lets the session pass.
ReadInv ==
  session = "STARTING" =>
    /\ handler.at = "orders" => handler.remote = Held
    /\ handler.at = "gate" /\ clean => Held = book

\* Where the adapter reports positions and nobody may acknowledge a discrepancy, a venue
\* that does not trade between what the gate reads and what it decides lets it in only
\* with a position it can explain; whatever it does before and after, and with the
\* fills that died with the process before.
THEOREM GateKnowsThePosition ==
  ASSUME Reports, ~Attended
  PROVE  SessionSpec /\ QuietReads => GateExplains
<1> DEFINE Quiet == session = "STARTING" /\ handler.at \in {"orders", "gate"} => Held' = Held
           Passes == session # "RUNNING" /\ session' = "RUNNING" => Explained'
<1>1. SessionInit => ReadInv
  BY DEF SessionInit, ReadInv
<1>2. BaseInv /\ ReadInv /\ [SessionNext]_sessionVars /\ [Quiet]_sessionVars => ReadInv'
  <2> SUFFICES ASSUME BaseInv, ReadInv, [SessionNext]_sessionVars, [Quiet]_sessionVars
               PROVE  ReadInv'
    OBVIOUS
  <2>0. InSession /\ (Still => Held' = Held /\ book' = book)
    BY SumsSame DEF BaseInv, Still, Traded, Untold
  <2>1. ASSUME session' # "STARTING" \/ handler'.at \notin {"orders", "gate"} PROVE ReadInv'
    BY <2>1 DEF ReadInv
  <2>2. CASE Start \/ Timer
    BY <2>1, <2>2, Steps
  <2>3. CASE Tick \/ Ladder \/ ManualKill
    BY <2>0, <2>1, <2>3, Steps DEF InSession
  <2>4. CASE ReadPositions
    <3>1. CASE clean' = FALSE /\ handler' = AfterReconcile
      BY <3>1, PlaceNames DEF AfterReconcile, ReadInv
    <3>2. CASE handler'.at = "orders" /\ handler'.remote = IF Reports THEN Held ELSE 0
      BY <2>0, <2>4, <3>2, Steps DEF ReadInv
    <3>3. QED
      BY <2>4, <3>1, <3>2, Steps
  <2>5. CASE ReadOrders
    <3>1. handler'.at # "orders"
      BY <2>5, Steps, PlaceNames DEF AfterReconcile
    <3>2. ASSUME session = "STARTING", clean' PROVE Held' = book'
      <4>1. ~MissingLocal(Held) /\ ~QtyMismatch(Held)
        BY <2>5, <3>2, Steps DEF ReadInv
      <4>2. Held = book
        BY <4>1 DEF MissingLocal, QtyMismatch
      <4>3. QED
        BY <2>0, <2>5, <4>2, Steps
    <3>3. QED
      BY <2>5, <3>1, <3>2, Steps DEF ReadInv
  <2>6. CASE Gate \/ Event \/ FlattenPlace
    BY <2>0, <2>1, <2>6 DEF Gate, Event, FlattenPlace, InSession
  <2>7. ASSUME NEW c \in Order, FlattenCancel(c) PROVE ReadInv'
    BY <2>0, <2>1, <2>7, CancelKeeps DEF InSession
  <2>8. ASSUME NEW c \in Order, NEW q \in 1..Qty, Fill(c, q) PROVE ReadInv'
    BY <2>1, <2>8 DEF Fill
  <2>9. ASSUME UNCHANGED <<session, handler, clean, book>>,
               session = "STARTING" /\ handler.at \in {"orders", "gate"} => Held' = Held
        PROVE  ReadInv'
    BY <2>9 DEF ReadInv
  <2>10. CASE Venue
    <3>1. UNCHANGED <<session, handler, clean, book>>
      BY <2>10 DEF Venue
    <3>2. UNCHANGED sessionVars => Held' = Held
      BY <2>0 DEF sessionVars, Still
    <3>3. QED
      BY <2>9, <3>1, <3>2
  <2>11. CASE Lose \/ Elapse \/ UNCHANGED sessionVars
    BY <2>0, <2>9, <2>11, Steps DEF Stays, Still
  <2>12. CASE Drop
    <3>1. UNCHANGED <<session, handler, clean, book, venue, side>>
      BY <2>12 DEF Drop, StreamDrop
    <3>2. Held' = Held
      BY <3>1 DEF Held, Total
    <3>3. QED
      BY <2>9, <3>1, <3>2
  <2>13. CASE Restart
    BY <2>1, <2>13 DEF Restart
  <2>14. QED
    BY <2>2, <2>3, <2>4, <2>5, <2>6, <2>7, <2>8, <2>10, <2>11, <2>12, <2>13 DEF SessionNext
<1>3. BaseInv /\ BaseInv' /\ ReadInv /\ [SessionNext]_sessionVars => [Passes]_sessionVars
  <2> SUFFICES ASSUME BaseInv, BaseInv', ReadInv, SessionNext,
                      session # "RUNNING", session' = "RUNNING"
               PROVE  Explained'
    OBVIOUS
  <2>1. CASE Gate
    <3>1. /\ UNCHANGED <<venue, side, book>> /\ transit' = [c \in Order |-> 0]
          /\ handler.at = "gate" /\ clean
      BY <2>1 DEF Gate
    <3>2. Held = book
      BY <3>1 DEF ReadInv, BaseInv, InSession
    <3>3. Held' = Held
      BY <3>1 DEF Held, Total
    <3>4. Shape' /\ \A c \in Order : transit'[c] = 0
      BY <3>1 DEF BaseInv
    <3>5. (Shape => /\ Held \in Int /\ Unreported \in Int
                    /\ (\A c \in Order : transit[c] = 0) => Unreported = 0)'
      BY Sums, PTL
    <3>6. Unreported' = 0 /\ Held' \in Int
      BY <3>4, <3>5
    <3>7. QED
      BY <3>1, <3>2, <3>3, <3>6 DEF Explained
  <2>2. CASE ~Gate
    BY <2>2, Steps DEF SessionNext, Event, FlattenPlace, FlattenCancel, Fill, Venue, Drop,
                       Restart, BaseInv, InSession, Stays
  <2>3. QED
    BY <2>1, <2>2
<1>4. QuietReads => [][Quiet]_sessionVars
  BY DEF QuietReads
<1>5. [][Passes]_sessionVars => GateExplains
  BY DEF GateExplains
<1> HIDE DEF Quiet, Passes
<1>6. QED
  BY <1>1, <1>2, <1>3, <1>4, <1>5, BaseKept, PTL DEF SessionSpec
-----------------------------------------------------------------------------
(* The orders                                                              *)

\* The inductive invariant: an order that works at the venue and has a machine here has
\* an open one, behind the venue by what is on its way at least; and a session whose last
\* reconciliation was clean has a machine for every order that works there.
Entry == [status: Status \cup {"NONE"}, quantity: Int, filled: Int, raised: BOOLEAN]
Owned(c) ==
  /\ machine[c] \in Entry /\ machine[c].status \in {"ACKED", "PARTIAL", "QUERY"}
  /\ machine[c].quantity = venue[c].quantity
  /\ machine[c].filled + transit[c] <= venue[c].filled
  /\ venue[c].filled < venue[c].quantity
OwnedInv ==
  /\ machine = [c \in Order |-> machine[c]]
  /\ \A c \in Order : venue[c].status = "LIVE" /\ machine[c].status # "NONE" => Owned(c)
Stray(c) == venue[c].status = "LIVE" /\ machine[c].status = "NONE"
Trusted == clean /\ (session \in {"RUNNING", "HALTED"} \/ handler.at = "gate")
OrdersInv == OwnedInv /\ (Trusted => \A c \in Order : ~Stray(c))

\* No order that works becomes a stray.
NoNewStray == \A c \in Order : Stray(c)' => Stray(c)

\* A step that moves neither the orders nor what is known of them.
LEMMA StillOwns == ASSUME OwnedInv, Still PROVE OwnedInv' /\ NoNewStray
BY DEF OwnedInv, Owned, Still, Stray, NoNewStray

\* An order that is placed has a machine before the venue has it.
LEMMA PlaceOwns ==
  ASSUME BaseInv, OwnedInv, NEW c \in Fresh, NEW direction, NEW q \in Nat \ {0},
         Place(c, direction, q)
  PROVE  OwnedInv' /\ NoNewStray
<1> DEFINE sent == [status |-> "PENDING", quantity |-> q, filled |-> 0, raised |-> FALSE]
           acked == [status |-> "ACKED", quantity |-> q, filled |-> 0, raised |-> FALSE]
           asked == [status |-> "QUERY", quantity |-> q, filled |-> 0, raised |-> FALSE]
           refused == [status |-> "REJECTED", quantity |-> q, filled |-> 0, raised |-> FALSE]
<1>1. /\ c \in Order /\ venue[c] = NoOrder /\ transit[c] = 0
      /\ venue \in [Order -> Slots] /\ transit' = transit
  BY DEF BaseInv, Shape, Fresh, Place, Submit
<1>2. OnSent(NewMachine(q)) = sent
  BY DEF OnSent, NewMachine, NoMachine, Transition, TRANSITIONS, Status, Terminal
<1>3. OnAck(sent) = acked /\ OnUnknown(sent) = asked /\ OnReject(sent) = refused
  BY DEF OnAck, OnUnknown, OnReject, Transition, TRANSITIONS, Status, Terminal
<1>4. acked \in Entry /\ asked \in Entry /\ refused \in Entry
  BY DEF Entry, Status, Terminal
<1>5. PICK m \in {acked, asked, refused} :
        /\ machine' = [machine EXCEPT ![c] = m]
        /\ \/ venue' = venue
           \/ m # refused /\ \E v \in Arrivals(c, q) : venue' = [venue EXCEPT ![c] = v]
  <2>1. acked # refused /\ asked # refused
    OBVIOUS
  <2> HIDE DEF sent, acked, asked, refused
  <2>2. QED
    BY <1>2, <1>3, <2>1 DEF Place, Submit
<1>6. m \in Entry /\ m.status \in {"ACKED", "QUERY", "REJECTED"} /\ m.quantity = q /\ m.filled = 0
  <2>1. CASE m = acked
    BY <1>4, <2>1
  <2>2. CASE m = asked
    BY <1>4, <2>2
  <2>3. CASE m = refused
    BY <1>4, <2>3
  <2>4. QED
    BY <1>5, <2>1, <2>2, <2>3
<1>7. m # refused => m.status \in {"ACKED", "QUERY"}
  BY <1>5
<1> HIDE DEF sent, acked, asked, refused
<1>8. /\ machine' = [d \in Order |-> machine'[d]] /\ machine'[c] = m
      /\ \A d \in Order \ {c} : machine'[d] = machine[d]
  BY <1>1, <1>5 DEF OwnedInv
<1>9. /\ venue'[c].status = "LIVE" =>
           m # refused /\ venue'[c].quantity = q /\ venue'[c].filled = 0
      /\ \A d \in Order \ {c} : venue'[d] = venue[d]
  <2>1. CASE venue' = venue
    BY <1>1, <2>1 DEF NoOrder
  <2>2. ASSUME NEW v \in Arrivals(c, q), venue' = [venue EXCEPT ![c] = v], m # refused
        PROVE  /\ venue'[c].status = "LIVE" =>
                    m # refused /\ venue'[c].quantity = q /\ venue'[c].filled = 0
               /\ \A d \in Order \ {c} : venue'[d] = venue[d]
    BY <1>1, <2>2 DEF Arrivals
  <2>3. QED
    BY <1>5, <2>1, <2>2
<1>10. (venue[c].status = "LIVE" /\ machine[c].status # "NONE" => Owned(c))' /\ ~Stray(c)'
  BY <1>1, <1>6, <1>7, <1>8, <1>9 DEF Owned, Stray
<1>11. QED
  BY <1>1, <1>8, <1>9, <1>10 DEF OwnedInv, Owned, Stray, NoNewStray

\* A fill that leaves its order working leaves its machine open.
LEMMA FillOwns ==
  ASSUME BaseInv, OwnedInv, NEW c \in Order, NEW q \in 1..Qty, Fill(c, q)
  PROVE  OwnedInv' /\ NoNewStray
<1>1. /\ venue' = venue /\ q <= transit[c] /\ transit \in [Order -> Nat]
      /\ machine' = [machine EXCEPT ![c] = IF @.status = "NONE" THEN @ ELSE OnFill(@, q)]
      /\ transit' = [transit EXCEPT ![c] = @ - q] /\ venue[c] \in Slots
  BY DEF BaseInv, Shape, Fill, DeliverFill
<1>2. q \in Int /\ q > 0
  BY ExecutionAssumption
<1>3. /\ machine' = [d \in Order |-> machine'[d]]
      /\ machine'[c] = IF machine[c].status = "NONE" THEN machine[c] ELSE OnFill(machine[c], q)
      /\ transit'[c] = transit[c] - q
      /\ \A d \in Order \ {c} : machine'[d] = machine[d] /\ transit'[d] = transit[d]
  BY <1>1 DEF OwnedInv
<1>4. ASSUME venue[c].status = "LIVE", machine[c].status # "NONE"
      PROVE  Owned(c)' /\ machine'[c].status # "NONE"
  <2>1. Owned(c)
    BY <1>4 DEF OwnedInv
  <2>2. PICK m \in Entry : m = machine[c]
    BY <2>1 DEF Owned
  <2>3. /\ m.status \in {"ACKED", "PARTIAL", "QUERY"} /\ m.filled + q < m.quantity
        /\ m.filled + transit[c] <= venue[c].filled /\ m.quantity = venue[c].quantity
        /\ venue[c].filled < venue[c].quantity
        /\ venue[c].filled \in Int /\ venue[c].quantity \in Int /\ transit[c] \in Int
        /\ m.filled \in Int
    <3>1. /\ m.status \in {"ACKED", "PARTIAL", "QUERY"}
          /\ m.filled + transit[c] <= venue[c].filled /\ m.quantity = venue[c].quantity
          /\ venue[c].filled < venue[c].quantity
      BY <2>1, <2>2 DEF Owned
    <3>2. /\ venue[c].filled \in Int /\ venue[c].quantity \in Int /\ transit[c] \in Int
          /\ m.filled \in Int
      BY <1>1 DEF Slots, Entry
    <3>3. QED
      BY <1>1, <1>2, <3>1, <3>2
  <2>4. PICK f \in Entry : f = [m EXCEPT !.filled = @ + q]
    <3>1. m.filled + q \in Int
      BY <1>2, <2>3
    <3>2. [m EXCEPT !.filled = @ + q] \in Entry
      BY <3>1 DEF Entry
    <3>3. QED
      BY <3>2
  <2>5. /\ f.filled = m.filled + q /\ f.quantity = m.quantity /\ f.status = m.status
    BY <2>4 DEF Entry
  <2>6. [f EXCEPT !.status = "PARTIAL"] \in Entry
    BY DEF Entry, Status
  <2>7. OnFill(m, q) = [f EXCEPT !.status = "PARTIAL"]
    <3>1. OnFill(m, q) = IF f.filled >= f.quantity THEN Transition(f, "FILLED")
                         ELSE IF f.status = "PARTIAL" THEN f ELSE Transition(f, "PARTIAL")
      BY <2>4 DEF OnFill
    <3>2. ~(f.filled >= f.quantity)
      BY <1>2, <2>3, <2>5 DEF Entry
    <3>3. CASE f.status = "PARTIAL"
      <4>1. [f EXCEPT !.status = "PARTIAL"] = f
        BY <3>3 DEF Entry
      <4>2. QED
        BY <3>1, <3>2, <3>3, <4>1
    <3>4. CASE f.status # "PARTIAL"
      <4>1. f.status \in {"ACKED", "QUERY"}
        BY <2>3, <2>5, <3>4
      <4>2. Transition(f, "PARTIAL") = [f EXCEPT !.status = "PARTIAL"]
        BY <4>1 DEF Transition, TRANSITIONS, Status, Terminal
      <4>3. QED
        BY <3>1, <3>2, <3>4, <4>2
    <3>5. QED
      BY <3>3, <3>4
  <2>8. PICK n \in Entry : n = machine'[c] /\ n.status = "PARTIAL"
                           /\ n.filled = m.filled + q /\ n.quantity = m.quantity
    BY <1>3, <1>4, <2>2, <2>5, <2>6, <2>7 DEF Entry
  <2>9. n.filled + transit'[c] <= venue'[c].filled
    BY <1>1, <1>2, <1>3, <2>3, <2>8
  <2>10. QED
    BY <1>1, <2>3, <2>8, <2>9 DEF Owned
<1>5. \A d \in Order \ {c} : Owned(d) => Owned(d)'
  BY <1>1, <1>3 DEF Owned
<1>6. QED
  BY <1>1, <1>3, <1>4, <1>5 DEF OwnedInv, Stray, NoNewStray

\* A cancel closes the machine of an order that works only with the order itself.
LEMMA CancelOwns ==
  ASSUME BaseInv, OwnedInv, NEW c \in Order, FlattenCancel(c)
  PROVE  OwnedInv' /\ NoNewStray
<1>1. /\ transit' = transit /\ machine[c].status # "NONE" /\ venue \in [Order -> Slots]
      /\ CancelWorking(c) \/ CancelRefused(c)
  BY DEF BaseInv, Shape, FlattenCancel, Cancel
<1>2. /\ machine' = [d \in Order |-> machine'[d]]
      /\ \A d \in Order \ {c} : machine'[d] = machine[d] /\ venue'[d] = venue[d]
      /\ venue'[c].status = "LIVE" => venue[c] = venue'[c] /\ machine'[c] = machine[c]
  <2>1. CASE CancelWorking(c)
    <3>1. \/ venue' = venue /\ machine' = machine
          \/ venue' = [venue EXCEPT ![c].status = "CANCELLED"] /\
             (machine' = machine \/ machine' = [machine EXCEPT ![c] = OnCancelAck(@)])
      BY <2>1 DEF CancelWorking
    <3>2. venue[c] \in Slots
      BY <1>1
    <3>3. venue' = [venue EXCEPT ![c].status = "CANCELLED"] =>
            /\ venue'[c].status = "CANCELLED" /\ \A d \in Order \ {c} : venue'[d] = venue[d]
      BY <1>1, <3>2 DEF Slots
    <3>4. QED
      BY <3>1, <3>3 DEF OwnedInv
  <2>2. CASE CancelRefused(c)
    <3>1. venue' = venue /\ venue[c].status # "LIVE"
          /\ \E m : machine' = [machine EXCEPT ![c] = m]
      BY <2>2 DEF CancelRefused
    <3>2. QED
      BY <3>1 DEF OwnedInv
  <2>3. QED
    BY <1>1, <2>1, <2>2
<1>3. QED
  BY <1>1, <1>2 DEF OwnedInv, Owned, Stray, NoNewStray

\* What the venue trades of an order that goes on working is on its way.
LEMMA VenueOwns ==
  ASSUME BaseInv, OwnedInv, Venue
  PROVE  OwnedInv' /\ NoNewStray
<1>1. PICK c \in Order : VenueExpire(c) \/ \E q \in 1..Qty : VenueFill(c, q)
  BY DEF Venue
<1>2. /\ machine' = machine /\ venue \in [Order -> Slots] /\ transit \in [Order -> Nat]
      /\ venue[c] \in Slots
  BY <1>1 DEF BaseInv, Shape, VenueExpire, VenueFill
<1>3. /\ \A d \in Order \ {c} : venue'[d] = venue[d] /\ transit'[d] = transit[d]
      /\ venue[c].status = "LIVE"
      /\ venue'[c].status = "LIVE" =>
           \E q \in Nat : /\ venue'[c].filled = venue[c].filled + q
                          /\ transit'[c] = transit[c] + q
                          /\ venue'[c].quantity = venue[c].quantity
                          /\ venue'[c].filled < venue'[c].quantity
  <2>1. CASE VenueExpire(c)
    <3>1. PICK s \in {"CANCELLED", "REJECTED"} :
            transit' = transit /\ venue' = [venue EXCEPT ![c].status = s]
      BY <2>1 DEF VenueExpire
    <3>2. /\ venue'[c].status # "LIVE" /\ \A d \in Order \ {c} : venue'[d] = venue[d]
      BY <1>2, <3>1 DEF Slots
    <3>3. QED
      BY <2>1, <3>1, <3>2 DEF VenueExpire
  <2>2. ASSUME NEW q \in 1..Qty, VenueFill(c, q)
        PROVE  /\ \A d \in Order \ {c} : venue'[d] = venue[d] /\ transit'[d] = transit[d]
               /\ venue[c].status = "LIVE"
               /\ venue'[c].status = "LIVE" =>
                    \E p \in Nat : /\ venue'[c].filled = venue[c].filled + p
                                   /\ transit'[c] = transit[c] + p
                                   /\ venue'[c].quantity = venue[c].quantity
                                   /\ venue'[c].filled < venue'[c].quantity
    <3>1. q \in Nat /\ venue[c].filled \in Int /\ venue[c].quantity \in Int
      BY <1>2, ExecutionAssumption DEF Slots
    <3>2. PICK v \in Slots : v = venue[c]
      BY <1>2
    <3> DEFINE status == IF v.filled + q = v.quantity THEN "FILLED" ELSE v.status
               slot == [v EXCEPT !.filled = @ + q, !.status = status]
    <3>3. /\ venue' = [venue EXCEPT ![c] = slot] /\ transit' = [transit EXCEPT ![c] = @ + q]
          /\ v.status = "LIVE" /\ q <= v.quantity - v.filled
      BY <1>2, <2>2, <3>2 DEF VenueFill, Slots
    <3>4. slot.filled = v.filled + q /\ slot.status = status /\ slot.quantity = v.quantity
      <4> HIDE DEF status
      <4>1. QED
        BY DEF Slots
    <3> HIDE DEF slot
    <3>5. venue'[c] = slot /\ transit'[c] = transit[c] + q
          /\ \A d \in Order \ {c} : venue'[d] = venue[d] /\ transit'[d] = transit[d]
      BY <1>2, <3>3
    <3>6. status = "LIVE" => v.filled + q < v.quantity
      BY <3>1, <3>2, <3>3
    <3> HIDE DEF status
    <3>7. QED
      BY <3>1, <3>2, <3>3, <3>4, <3>5, <3>6
  <2>3. QED
    BY <1>1, <2>1, <2>2
<1>4. ASSUME venue'[c].status = "LIVE", machine'[c].status # "NONE" PROVE Owned(c)'
  <2>1. Owned(c)
    BY <1>2, <1>3, <1>4 DEF OwnedInv
  <2>2. PICK q \in Nat : /\ venue'[c].filled = venue[c].filled + q
                         /\ transit'[c] = transit[c] + q
                         /\ venue'[c].quantity = venue[c].quantity
                         /\ venue'[c].filled < venue'[c].quantity
    BY <1>3, <1>4
  <2>3. machine[c].filled \in Int /\ transit[c] \in Int /\ venue[c].filled \in Int
    BY <1>2, <2>1 DEF Owned, Entry, Slots
  <2>4. machine[c].filled + transit'[c] <= venue'[c].filled
    BY <2>1, <2>2, <2>3 DEF Owned
  <2>5. QED
    BY <1>2, <2>1, <2>2, <2>4 DEF Owned
<1>5. QED
  BY <1>2, <1>3, <1>4 DEF OwnedInv, Owned, Stray, NoNewStray

\* A stream that drops, and the one that opens behind the gate, only lose what is on its way.
LEMMA LossOwns ==
  ASSUME BaseInv, OwnedInv, UNCHANGED <<machine, venue>>,
         \A c \in Order : transit'[c] \in {0, transit[c]}
  PROVE  OwnedInv' /\ NoNewStray
<1>1. ASSUME NEW c \in Order, Owned(c) PROVE Owned(c)'
  <2>1. /\ machine[c].filled \in Int /\ transit[c] \in Nat /\ transit'[c] \in {0, transit[c]}
        /\ venue[c].filled \in Int
    BY <1>1 DEF Owned, Entry, BaseInv, Shape, Slots
  <2>2. machine[c].filled + transit'[c] <= venue[c].filled
    BY <1>1, <2>1 DEF Owned
  <2>3. QED
    BY <1>1, <2>2 DEF Owned
<1>2. QED
  BY <1>1 DEF OwnedInv, Stray, NoNewStray

\* Behind any adapter and with anything lost, refused, expired, overtaken or traded inside
\* place, whatever dies and comes back, and whoever acknowledges what at the gate: no order
\* is placed while one works at the venue that this process does not hold as open.
THEOREM OrdersAreKnown == SessionSpec => OpensKnowingOrders
<1>1. SessionInit => OrdersInv
  BY DEF SessionInit, Init, OrdersInv, OwnedInv, Stray, NoMachine, NoOrder
<1>2. BaseInv /\ OrdersInv /\ [SessionNext]_sessionVars => OrdersInv'
  <2> SUFFICES ASSUME BaseInv, OrdersInv, [SessionNext]_sessionVars PROVE OrdersInv'
    OBVIOUS
  <2>0. OwnedInv /\ InSession /\ (Trusted => \A c \in Order : ~Stray(c))
    BY DEF OrdersInv, BaseInv
  <2>1. ASSUME OwnedInv', NoNewStray, Trusted' => Trusted PROVE OrdersInv'
    BY <2>0, <2>1 DEF OrdersInv, NoNewStray
  <2>2. Still => OwnedInv' /\ NoNewStray
    BY <2>0, StillOwns
  <2>3. CASE Start \/ Timer
    BY <2>1, <2>2, <2>3, Steps DEF Trusted
  <2>4. CASE Tick \/ Ladder \/ ManualKill
    BY <2>0, <2>1, <2>2, <2>4, Steps, PlaceNames DEF Trusted, InSession
  <2>5. CASE Lose \/ Elapse \/ UNCHANGED sessionVars
    BY <2>1, <2>2, <2>5, Steps DEF Trusted, Stays
  <2>6. CASE ReadPositions
    BY <2>1, <2>2, <2>6, Steps DEF Trusted
  <2>7. CASE ReadOrders
    <3>1. Still /\ (clean' => LiveAtVenue \subseteq OpenMachines)
      BY <2>7, Steps DEF MissingLocal
    <3>2. clean' => \A c \in Order : ~Stray(c)'
      BY <3>1 DEF LiveAtVenue, OpenMachines, Stray, Still
    <3>3. QED
      BY <2>2, <3>1, <3>2 DEF OrdersInv, Trusted
  <2>8. CASE Gate
    <3>1. /\ UNCHANGED <<machine, venue, clean>> /\ handler.at = "gate"
          /\ transit' = transit \/ transit' = [c \in Order |-> 0]
      BY <2>8 DEF Gate
    <3>2. QED
      BY <2>0, <2>1, <3>1, LossOwns DEF Trusted
  <2>9. CASE Event
    <3>1. /\ session \in {"RUNNING", "HALTED"} /\ UNCHANGED <<session, clean>>
          /\ UNCHANGED orderVars \/ \E c \in Fresh : Place(c, 1, 1)
      BY <2>9 DEF Event
    <3>2. Trusted' => Trusted
      BY <3>1 DEF Trusted
    <3>3. OwnedInv' /\ NoNewStray
      BY <2>0, <2>2, <3>1, PlaceOwns DEF Still, orderVars
    <3>4. QED
      BY <2>1, <3>2, <3>3
  <2>10. CASE FlattenPlace
    <3>1. session = "HALTED" /\ UNCHANGED <<session, clean>>
      BY <2>0, <2>10 DEF FlattenPlace, InSession
    <3>2. Trusted' => Trusted
      BY <3>1 DEF Trusted
    <3>3. OwnedInv' /\ NoNewStray
      BY <2>0, <2>2, <2>10, FlattenPlaces, PlaceOwns DEF Still, orderVars
    <3>4. QED
      BY <2>1, <3>2, <3>3
  <2>11. ASSUME NEW c \in Order, FlattenCancel(c) PROVE OrdersInv'
    <3>1. session = "HALTED" /\ UNCHANGED <<session, clean>>
      BY <2>0, <2>11 DEF FlattenCancel, InSession
    <3>2. QED
      BY <2>0, <2>1, <2>11, <3>1, CancelOwns DEF Trusted
  <2>12. ASSUME NEW c \in Order, NEW q \in 1..Qty, Fill(c, q) PROVE OrdersInv'
    <3>1. session \in {"RUNNING", "HALTED"} /\ UNCHANGED <<session, clean>>
      BY <2>12 DEF Fill
    <3>2. QED
      BY <2>0, <2>1, <2>12, <3>1, FillOwns DEF Trusted
  <2>13. CASE Venue
    BY <2>0, <2>1, <2>13, VenueOwns DEF Venue, Trusted
  <2>14. CASE Drop
    <3>1. /\ UNCHANGED <<machine, venue, session, clean, handler>>
          /\ \A c \in Order : transit'[c] \in {0, transit[c]}
      BY <2>14 DEF Drop, StreamDrop
    <3>2. QED
      BY <2>0, <2>1, <3>1, LossOwns DEF Trusted
  <2>15. CASE Restart
    <3>1. machine' = [c \in Order |-> NoMachine] /\ session' = "NEW" /\ handler'.at = "idle"
      BY <2>15, PlaceNames DEF Restart
    <3>2. machine' = [c \in Order |-> machine'[c]] /\ \A c \in Order : machine'[c].status = "NONE"
      BY <3>1 DEF NoMachine
    <3>3. QED
      BY <3>1, <3>2 DEF OrdersInv, OwnedInv, Trusted
  <2>16. QED
    BY <2>3, <2>4, <2>5, <2>6, <2>7, <2>8, <2>9, <2>10, <2>11, <2>12, <2>13, <2>14, <2>15
       DEF SessionNext
<1>3. BaseInv /\ OrdersInv /\ [SessionNext]_sessionVars =>
        [\A c \in Order : side[c] = 0 /\ side'[c] # 0 => LiveAtVenue \subseteq OpenMachines]_sessionVars
  <2> SUFFICES ASSUME BaseInv, OrdersInv, SessionNext,
                      NEW c \in Order, side[c] = 0, side'[c] # 0
               PROVE  LiveAtVenue \subseteq OpenMachines
    OBVIOUS
  <2>1. side' # side
    OBVIOUS
  <2>2. Event \/ FlattenPlace
    BY <2>1 DEF SessionNext, Start, ReadPositions, ReadOrders, Gate, Timer, Tick, Ladder,
                ManualKill, FlattenCancel, Fill, Venue, Drop, Lose, Elapse, Restart, orderVars
  <2>3. clean /\ session \in {"RUNNING", "HALTED"}
    <3>1. ~UNCHANGED orderVars
      BY <2>1 DEF orderVars
    <3>2. CASE Event
      BY <3>1, <3>2 DEF Event, Approved
    <3>3. CASE FlattenPlace
      BY <3>1, <3>3, FlattenPlaces DEF FlattenPlace, BaseInv, InSession
    <3>4. QED
      BY <2>2, <3>2, <3>3
  <2>4. \A d \in Order : venue[d].status = "LIVE" => machine[d].status # "NONE" /\ Owned(d)
    BY <2>3 DEF OrdersInv, OwnedInv, Trusted, Stray
  <2>5. QED
    BY <2>4 DEF LiveAtVenue, OpenMachines, Owned, IsTerminal, Terminal
<1>4. QED
  BY <1>1, <1>2, <1>3, BaseKept, PTL DEF SessionSpec, OpensKnowingOrders
=============================================================================
