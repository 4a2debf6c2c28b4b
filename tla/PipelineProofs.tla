---------------------------- MODULE PipelineProofs ----------------------------
(***************************************************************************)
(* What holds of the order path for every set of order ids, every quantity *)
(* and every set of targets.                                               *)
(***************************************************************************)
EXTENDS Pipeline, ExecutionProofs, FiniteProofs

\* Client order ids are numbered, and there are finitely many.
LEMMA Ids == IsFiniteSet(Order) /\ \A c \in Order : c \in Int
<1> DEFINE n == Cardinality(Order)
<1>1. Order = 1..n /\ IsFiniteSet(Order)
  BY PipelineAssumption
<1> HIDE DEF n
<1>2. \A c \in 1..n : c \in Int
  OBVIOUS
<1>3. QED
  BY <1>1, <1>2

-----------------------------------------------------------------------------
(* The records                                                             *)

\* What the argument needs of the venue's records: numbers, and nothing at all
\* of the client order ids that no order has used yet.
Records == [status: {"NONE", "LIVE"} \cup Terminal, quantity: Int, filled: Nat]
RecordsOK ==
  /\ venue \in [Order -> Records] /\ transit \in [Order -> Int]
  /\ side \in [Order -> {-1, 0, 1}] /\ position \in Int /\ next \in Int
  /\ \A c \in Order : c >= next => venue[c] = NoOrder /\ transit[c] = 0
  /\ handler.at = "taker" => handler.replaced \in Order

\* And of the executor's: a machine for every id that was used.
Entries == [status: Status \cup {"NONE"}, quantity: Int, filled: Int, raised: BOOLEAN]
MachinesOK ==
  /\ machine \in [Order -> Entries]
  /\ \A c \in Order : c < next => machine[c].status # "NONE"

\* A transition changes the status only, and leaves every machine a machine.
LEMMA TransitionEntry ==
  ASSUME NEW m \in Entries, m.status # "NONE", NEW to \in Status
  PROVE  /\ Transition(m, to) \in Entries /\ Transition(m, to).status # "NONE"
         /\ Transition(m, to).quantity = m.quantity
         /\ Transition(m, to).filled = m.filled
<1>1. to # "NONE"
  BY DEF Status, Terminal
<1>2. QED
  BY <1>1 DEF Transition, Entries

\* A fill adds what it reports; a query puts the venue's number in its place.
LEMMA EntryHandlers ==
  ASSUME NEW m \in Entries, m.status # "NONE", NEW n \in Int, NEW s \in Status
  PROVE  /\ OnFill(m, n) \in Entries /\ OnFill(m, n).status # "NONE"
         /\ OnFill(m, n).filled = m.filled + n
         /\ OnQueryResult(m, s, n) \in Entries /\ OnQueryResult(m, s, n).status # "NONE"
         /\ OnQueryResult(m, s, n).quantity = m.quantity
         /\ OnQueryResult(m, s, n).filled = n
<1>2. "FILLED" \in Status /\ "PARTIAL" \in Status
  BY DEF Status, Terminal
<1>3. ASSUME NEW x \in Int
      PROVE  /\ [m EXCEPT !.filled = x] \in Entries /\ [m EXCEPT !.filled = x].filled = x
             /\ [m EXCEPT !.filled = x].status = m.status
             /\ [m EXCEPT !.filled = x].quantity = m.quantity
  BY DEF Entries
<1>4. m.filled + n \in Int
  BY DEF Entries
<1>5. PICK f \in Entries : f = [m EXCEPT !.filled = m.filled + n]
  BY <1>3, <1>4
<1>6. /\ OnFill(m, n) \in Entries /\ OnFill(m, n).status # "NONE"
      /\ OnFill(m, n).filled = m.filled + n
  <2>1. f.status # "NONE" /\ f.filled = m.filled + n
    BY <1>3, <1>4, <1>5
  <2>2. OnFill(m, n) \in {f, Transition(f, "FILLED"), Transition(f, "PARTIAL")}
    BY <1>5 DEF OnFill
  <2>3. ASSUME NEW to \in {"FILLED", "PARTIAL"}
        PROVE  /\ Transition(f, to) \in Entries /\ Transition(f, to).status # "NONE"
               /\ Transition(f, to).filled = m.filled + n
    BY <1>2, <2>1, TransitionEntry
  <2> HIDE DEF Entries
  <2>4. QED
    BY <2>1, <2>2, <2>3
<1>7. PICK g \in Entries : g = [m EXCEPT !.filled = n]
  BY <1>3
<1>8. /\ OnQueryResult(m, s, n) \in Entries /\ OnQueryResult(m, s, n).status # "NONE"
      /\ OnQueryResult(m, s, n).quantity = m.quantity
      /\ OnQueryResult(m, s, n).filled = n
  <2>1. g.status # "NONE" /\ g.filled = n /\ g.quantity = m.quantity
    BY <1>3, <1>7
  <2>2. OnQueryResult(m, s, n) \in {g, Transition(g, s)}
    BY <1>7 DEF OnQueryResult
  <2>3. QED
    BY <2>1, <2>2, TransitionEntry
<1>9. QED
  BY <1>6, <1>8

\* A cancel changes neither what the order is for nor, in the venue's books, what it
\* traded; the executor goes on as it was or takes the venue's word.
LEMMA CancelEntries ==
  ASSUME RecordsOK, MachinesOK, NEW c \in Order, Cancel(c)
  PROVE  /\ machine' \in [Order -> Entries] /\ transit' = transit
         /\ \A d \in Order : venue'[d].filled = venue[d].filled
         /\ \A d \in Order \ {c} : machine'[d] = machine[d]
         /\ machine'[c].status # "NONE" /\ machine'[c].quantity = machine[c].quantity
         /\ machine'[c].filled \in {machine[c].filled, venue[c].filled}
<1>1. PICK m \in Entries : m = machine[c]
  BY DEF MachinesOK
<1>2. m.status # "NONE" /\ venue[c] \in Records /\ venue[c].filled \in Nat
  BY <1>1 DEF Cancel, RecordsOK, Records
<1> DEFINE Kept(e) == /\ e \in Entries /\ e.status # "NONE" /\ e.quantity = m.quantity
                      /\ e.filled \in {m.filled, venue[c].filled}
<1>3. {"CANCELLED", "REJECTED", "QUERY", "ACKED", "PARTIAL"} \subseteq Status
  BY DEF Status, Terminal
<1>4. Kept(m) /\ Kept(OnCancelAck(m)) /\ Kept(OnNotFound(m))
  BY <1>2, <1>3, TransitionEntry DEF OnCancelAck, OnNotFound
<1>5. PICK u \in Entries : u = OnUnknown(m)
  BY <1>2, <1>3, TransitionEntry DEF OnUnknown
<1>6. u.status # "NONE" /\ u.quantity = m.quantity /\ u.filled = m.filled
  BY <1>2, <1>3, <1>5, TransitionEntry DEF OnUnknown
<1>7. ASSUME NEW e \in Resolved(u, venue[c]) PROVE Kept(e)
  <2>1. CASE e = u
    BY <1>6, <2>1
  <2>2. CASE e = OnNotFound(u)
    BY <1>3, <1>6, <2>2, TransitionEntry DEF OnNotFound
  <2>3. CASE \E s \in Answers(venue[c]) : venue[c].status # "NONE" /\ e = OnQueryResult(u, s, venue[c].filled)
    <3>1. PICK s \in Answers(venue[c]) : venue[c].status # "NONE" /\ e = OnQueryResult(u, s, venue[c].filled)
      BY <2>3
    <3>2. s \in Status
      <4>1. venue[c].status \in {"LIVE"} \cup Terminal
        BY <1>2, <3>1 DEF Records
      <4>2. s \in {"ACKED", "PARTIAL", "QUERY", venue[c].status}
        BY <3>1 DEF Answers
      <4>3. venue[c].status = "LIVE" => s # venue[c].status
        BY <1>2, <3>1 DEF Answers
      <4>4. QED
        BY <1>3, <4>1, <4>2, <4>3 DEF Status
    <3>3. QED
      BY <1>2, <1>6, <3>1, <3>2, EntryHandlers
  <2>4. QED
    BY <2>1, <2>2, <2>3 DEF Resolved
<1>8. PICK e : Kept(e) /\ machine' = [machine EXCEPT ![c] = e]
  <2>1. machine = [machine EXCEPT ![c] = m]
    BY <1>1 DEF MachinesOK
  <2>2. CASE CancelWorking(c)
    BY <1>1, <1>4, <2>1, <2>2 DEF CancelWorking
  <2>3. CASE CancelRefused(c)
    BY <1>1, <1>4, <1>5, <1>7, <2>3 DEF CancelRefused
  <2>4. QED
    BY <2>2, <2>3 DEF Cancel
<1>9. transit' = transit /\ \A d \in Order : venue'[d].filled = venue[d].filled
  <2>1. venue' = venue \/ venue' = [venue EXCEPT ![c].status = "CANCELLED"]
    BY DEF Cancel, CancelWorking, CancelRefused
  <2>2. transit' = transit
    BY DEF Cancel
  <2>3. QED
    BY <2>1, <2>2 DEF RecordsOK, Records
<1>10. QED
  BY <1>1, <1>8, <1>9 DEF MachinesOK

\* An order goes out with a machine of its own, that has filled nothing.
LEMMA PlacedEntry ==
  ASSUME MachinesOK, NEW direction, NEW quantity, PlaceNext(direction, quantity)
  PROVE  \E e \in Entries : /\ e.status # "NONE" /\ e.filled = 0
                            /\ machine' = [machine EXCEPT ![next] = e]
<1>1. PICK q \in 1..quantity : Submit(next, q)
  BY DEF PlaceNext
<1> DEFINE sent == OnSent(NewMachine(q))
<1>2. sent \in Entries /\ sent.status # "NONE" /\ sent.filled = 0
  <2>1. PICK m \in Entries : m = NewMachine(q)
    <3>1. q \in Int /\ Qty \in Int
      BY ExecutionAssumption
    <3>2. NoMachine \in Entries /\ "INTENT" \in Status
      BY <3>1 DEF NoMachine, Entries, Status
    <3>3. NewMachine(q) \in Entries
      BY <3>1, <3>2 DEF NewMachine, Entries
    <3>4. QED
      BY <3>3
  <2>2. m.status # "NONE" /\ m.filled = 0 /\ "PENDING" \in Status
    BY <2>1 DEF NewMachine, NoMachine, Status
  <2>3. QED
    BY <2>1, <2>2, TransitionEntry DEF OnSent
<1>3. {"ACKED", "QUERY", "REJECTED"} \subseteq Status
  BY DEF Status, Terminal
<1>4. ASSUME NEW e \in {OnAck(sent), OnUnknown(sent), OnReject(sent)}
      PROVE  e \in Entries /\ e.status # "NONE" /\ e.filled = 0
  <2>1. e = sent \/ \E to \in Status : e = Transition(sent, to)
    BY <1>3, <1>4 DEF OnAck, OnUnknown, OnReject
  <2> HIDE DEF sent
  <2>2. QED
    BY <1>2, <2>1, TransitionEntry
<1>5. \E e \in {OnAck(sent), OnUnknown(sent), OnReject(sent)} :
        machine' = [machine EXCEPT ![next] = e]
  BY <1>1 DEF Submit
<1>6. QED
  BY <1>4, <1>5

\* A delivered fill is added to the machine of its order, and one that is illegal
\* leaves it marked.
LEMMA FilledEntry ==
  ASSUME RecordsOK, MachinesOK, NEW c \in Order, NEW q \in 1..Qty, Fill(c, q)
  PROVE  /\ machine' \in [Order -> Entries] /\ machine'[c].status # "NONE"
         /\ machine'[c].filled = machine[c].filled + q
         /\ \A d \in Order \ {c} : machine'[d] = machine[d]
         /\ Illegal(c, q) => machine'[c].raised
<1>1. /\ q <= transit[c]
      /\ machine' = [machine EXCEPT ![c] = IF @.status = "NONE" THEN @ ELSE OnFill(@, q)]
  BY DEF Fill, DeliverFill
<1>2. q \in Int /\ q > 0 /\ c \in Int /\ "FILLED" \in Status
  BY Ids, ExecutionAssumption DEF Status, Terminal
<1>3. PICK m \in Entries : m = machine[c]
  BY DEF MachinesOK
<1>4. m.status # "NONE"
  <2>1. c < next
    BY <1>1, <1>2 DEF RecordsOK
  <2>2. QED
    BY <1>3, <2>1 DEF MachinesOK
<1>5. /\ OnFill(m, q) \in Entries /\ OnFill(m, q).status # "NONE"
      /\ OnFill(m, q).filled = m.filled + q
  BY <1>2, <1>4, EntryHandlers
<1>6. machine' = [machine EXCEPT ![c] = OnFill(m, q)]
  BY <1>1, <1>3, <1>4
<1>7. ASSUME Illegal(c, q) PROVE OnFill(m, q).raised
  <2> DEFINE unmarked == [m EXCEPT !.raised = FALSE]
  <2>0. /\ m.filled + q \in Int /\ unmarked \in Entries /\ unmarked.filled = m.filled
        /\ unmarked.status = m.status /\ unmarked.quantity = m.quantity /\ ~unmarked.raised
    <3>1. m.filled + q \in Int
      BY <1>2 DEF Entries
    <3>2. unmarked \in Entries
      BY DEF Entries
    <3>3. /\ unmarked.filled = m.filled /\ unmarked.status = m.status
          /\ unmarked.quantity = m.quantity /\ ~unmarked.raised
      BY DEF Entries
    <3>4. QED
      BY <3>1, <3>2, <3>3
  <2>1. PICK f \in Entries : f = [m EXCEPT !.filled = m.filled + q]
    <3>1. [m EXCEPT !.filled = m.filled + q] \in Entries
      BY <2>0 DEF Entries
    <3>2. QED
      BY <3>1
  <2>2. PICK g \in Entries : g = [unmarked EXCEPT !.filled = m.filled + q]
    <3>1. \A e \in Entries, x \in Int : [e EXCEPT !.filled = x] \in Entries
      BY DEF Entries
    <3> HIDE DEF unmarked
    <3>2. QED
      BY <2>0, <3>1
  <2>3. /\ g.status = f.status /\ g.filled = f.filled /\ g.quantity = f.quantity
        /\ ~g.raised
    BY <2>0, <2>1, <2>2 DEF Entries
  <2>4. OnFill(unmarked, q).raised
    BY <1>3, <1>7 DEF Illegal
  <2>5. ASSUME NEW to, Transition(g, to).raised PROVE Transition(f, to).raised
    BY <2>3, <2>5 DEF Transition, Entries
  <2>6. QED
    <3>1. /\ OnFill(m, q) = (IF f.filled >= f.quantity THEN Transition(f, "FILLED")
                            ELSE IF f.status = "PARTIAL" THEN f ELSE Transition(f, "PARTIAL"))
          /\ OnFill(unmarked, q) =
               (IF g.filled >= g.quantity THEN Transition(g, "FILLED")
                ELSE IF g.status = "PARTIAL" THEN g ELSE Transition(g, "PARTIAL"))
      BY <2>0, <2>1, <2>2 DEF OnFill
    <3> HIDE DEF unmarked
    <3>2. QED
      BY <2>3, <2>4, <2>5, <3>1
<1>8. QED
  BY <1>3, <1>5, <1>6, <1>7 DEF MachinesOK

\* Every step keeps a machine for every id that was used.
LEMMA MachinesKept == RecordsOK /\ MachinesOK /\ [PipelineNext]_pipelineVars => MachinesOK'
<1> SUFFICES ASSUME RecordsOK, MachinesOK, [PipelineNext]_pipelineVars
             PROVE  MachinesOK'
  OBVIOUS
<1>0. next \in Int /\ (\A c \in Order : c \in Int) /\ machine \in [Order -> Entries]
  BY Ids DEF RecordsOK, MachinesOK
<1>1. ASSUME UNCHANGED <<machine, next>> PROVE MachinesOK'
  BY <1>1 DEF MachinesOK
<1>2. ASSUME NEW c \in Order, Replace(c) PROVE MachinesOK'
  <2>1. next' = next
    BY <1>2 DEF Replace, ReplaceBy
  <2>2. CASE Cancel(c)
    BY <1>0, <2>1, <2>2, CancelEntries DEF MachinesOK
  <2>3. CASE ~Cancel(c)
    BY <1>1, <1>2, <2>1, <2>3 DEF Replace, ReplaceBy
  <2>4. QED
    BY <2>2, <2>3
<1>3. ASSUME NEW direction, NEW quantity, PlaceNext(direction, quantity)
      PROVE  MachinesOK'
  <2>1. PICK n \in Order : n = next /\ next' = n + 1
    BY <1>3 DEF PlaceNext
  <2>2. PICK e \in Entries : e.status # "NONE" /\ machine' = [machine EXCEPT ![n] = e]
    BY <1>3, <2>1, PlacedEntry
  <2>3. \A d \in Order : d < next' => d = n \/ d < next
    BY <1>0, <2>1
  <2>4. QED
    BY <1>0, <2>2, <2>3 DEF MachinesOK
<1>4. CASE Cross \/ Trade
  BY <1>1, <1>3, <1>4 DEF Cross, Trade, TradeFor, Refused
<1>5. ASSUME NEW c \in Order, NEW q \in 1..Qty, Fill(c, q) PROVE MachinesOK'
  <2>1. next' = next
    BY <1>5 DEF Fill
  <2>2. QED
    BY <1>0, <1>5, <2>1, FilledEntry DEF MachinesOK
<1>6. CASE Begin \/ Venue \/ UNCHANGED pipelineVars
  BY <1>1, <1>6 DEF Begin, Venue, VenueExpire, VenueFill, pipelineVars
<1>7. QED
  BY <1>2, <1>4, <1>5, <1>6 DEF PipelineNext

-----------------------------------------------------------------------------
(* The books                                                               *)

BooksInv == RecordsOK /\ MachinesOK /\ BooksMatchVenue

\* A step that leaves every order's booked amount alone leaves their sum alone, and
\* one that changes a single order's changes it by as much.
LEMMA TradedChange ==
  ASSUME RecordsOK, RecordsOK', NEW c \in Order, NEW x \in Int,
         \A d \in Order \ {c} : Traded(d)' = Traded(d), Traded(c)' = Traded(c) + x
  PROVE  Sum([d \in Order |-> Traded(d)])' = Sum([d \in Order |-> Traded(d)]) + x
<1> DEFINE f == [d \in Order |-> Traded(d)]
           g == [d \in Order |-> Traded(d)']
<1>1. /\ \A d \in Order : /\ side[d] \in {-1, 0, 1} /\ venue[d].filled \in Int
                          /\ transit[d] \in Int
      /\ \A d \in Order : /\ side'[d] \in {-1, 0, 1} /\ venue'[d].filled \in Int
                          /\ transit'[d] \in Int
  BY DEF RecordsOK, Records
<1>2. \A d \in Order : f[d] \in Int /\ g[d] \in Int
  BY <1>1 DEF Traded
<1>3. f[c] = Traded(c) /\ g[c] = f[c] + x /\ \A d \in Order \ {c} : g[d] = f[d]
  OBVIOUS
<1> HIDE DEF f, g
<1>4. SumFunctionOnSet(g, Order) = SumFunctionOnSet(f, Order) - f[c] + g[c]
  BY <1>2, <1>3, Ids, SumChange DEF Numbers
<1>5. SumFunctionOnSet(f, Order) \in Int
  BY <1>2, Ids, SumInteger DEF Numbers
<1>6. SumFunctionOnSet(g, Order) = SumFunctionOnSet(f, Order) + x
  BY <1>2, <1>3, <1>4, <1>5
<1>7. QED
  BY <1>6 DEF Sum, f, g

\* The records keep their shape and the books their agreement, in every step.
LEMMA BooksKept ==
  ASSUME Instant = {}
  PROVE  PipelineSpec => []BooksInv
<1>1. PipelineInit => BooksInv
  <2> SUFFICES ASSUME PipelineInit PROVE BooksInv
    OBVIOUS
  <2>1. RecordsOK
    BY DEF PipelineInit, Init, RecordsOK, Records, NoOrder, Terminal, Idle
  <2>m. MachinesOK
    <3>1. NoMachine \in Entries
      BY ExecutionAssumption DEF NoMachine, Entries
    <3> DEFINE n == Cardinality(Order)
    <3>2. Order = 1..n
      BY PipelineAssumption
    <3> HIDE DEF n
    <3>3. \A c \in Order : ~(c < 1)
      BY <3>2
    <3>4. QED
      BY <3>1, <3>3 DEF PipelineInit, Init, MachinesOK
  <2> DEFINE f == [c \in Order |-> Traded(c)]
  <2>2. \A c \in Order : f[c] = 0
    <3>1. \A c \in Order : side[c] = 0 /\ venue[c].filled = 0 /\ transit[c] = 0
      BY DEF PipelineInit, Init, NoOrder
    <3>2. 0 * (0 - 0) = 0
      OBVIOUS
    <3>3. QED
      BY <3>1, <3>2 DEF Traded
  <2> HIDE DEF f
  <2>3. SumFunctionOnSet(f, Order) = 0
    BY <2>2, Ids, SumZero
  <2>4. QED
    <3>1. Unbooked = 0 /\ handler # Dead
      BY <2>3 DEF PipelineInit, Idle, Dead, Unbooked, Sum, f
    <3>2. QED
      BY <2>1, <2>m, <3>1 DEF BooksInv, BooksMatchVenue
<1>2. BooksInv /\ [PipelineNext]_pipelineVars => BooksInv'
  <2> SUFFICES ASSUME RecordsOK, MachinesOK, BooksMatchVenue, [PipelineNext]_pipelineVars
               PROVE  RecordsOK' /\ BooksMatchVenue'
    BY MachinesKept DEF BooksInv
  <2>0. \A c \in Order : c \in Int
    BY Ids
  <2> DEFINE total == Sum([c \in Order |-> Traded(c)])
             Same == \A c \in Order : Traded(c)' = Traded(c)
  <2>1. ASSUME RecordsOK', Same PROVE total' = total
    <3>1. [c \in Order |-> Traded(c)]' = [c \in Order |-> Traded(c)]
      BY <2>1
    <3>2. QED
      BY <3>1 DEF Sum
  <2>2. total \in Int /\ position \in Int
    <3> DEFINE f == [c \in Order |-> Traded(c)]
    <3>1. \A c \in Order : /\ side[c] \in {-1, 0, 1} /\ venue[c].filled \in Int
                            /\ transit[c] \in Int
      BY DEF RecordsOK, Records
    <3>2. \A c \in Order : f[c] \in Int
      BY <3>1 DEF Traded
    <3> HIDE DEF f
    <3>3. SumFunctionOnSet(f, Order) \in Int
      BY <3>2, Ids, SumInteger DEF Numbers
    <3>4. QED
      BY <3>3 DEF Sum, f, RecordsOK
  <2>a. ASSUME RecordsOK', Same, position' = position, handler # Dead, handler' # Dead
        PROVE  BooksMatchVenue'
    <3>1. total' = total
      BY <2>1, <2>a
    <3>2. total - position = 0
      BY <2>a DEF BooksMatchVenue, Unbooked
    <3>3. QED
      BY <2>a, <3>1, <3>2 DEF BooksMatchVenue, Unbooked
  <2>b. ASSUME RecordsOK', Same, UNCHANGED <<machine, side, position, handler>>
        PROVE  BooksMatchVenue'
    <3>1. Unbooked' = Unbooked
      BY <2>1, <2>b DEF Unbooked
    <3>2. QED
      BY <2>b, <3>1 DEF BooksMatchVenue, Dead
  <2>3. /\ \A c \in Order : venue[c] \in Records /\ transit[c] \in Int /\ side[c] \in {-1, 0, 1}
        /\ \A c \in Order : venue[c].filled \in Int
    BY DEF RecordsOK, Records
  <2>4. CASE Begin
    <3>1. RecordsOK' /\ Same /\ position' = position /\ handler # Dead /\ handler' # Dead
      BY <2>4 DEF Begin, RecordsOK, Traded, Idle, Dead, Fallbacks
    <3>2. QED
      BY <2>a, <3>1
  <2>5. ASSUME NEW c \in Order, Replace(c)
        PROVE  RecordsOK' /\ BooksMatchVenue'
    <3>1. /\ position' = position /\ side' = side /\ next' = next
          /\ handler # Dead /\ handler' # Dead
          /\ handler'.at = "taker" => handler'.replaced \in Order
      BY <2>5 DEF Replace, ReplaceBy, Dead, Fallbacks, Taker
    <3>2. /\ transit' = transit
          /\ venue' = venue \/ ( /\ venue' = [venue EXCEPT ![c].status = "CANCELLED"]
                                 /\ venue[c].status = "LIVE")
      BY <2>5 DEF Replace, ReplaceBy, Cancel, CancelWorking, CancelRefused
    <3>3. /\ \A d \in Order : venue'[d].filled = venue[d].filled
          /\ venue' \in [Order -> Records]
      <4>1. CASE venue' = venue
        BY <4>1 DEF RecordsOK
      <4>2. CASE venue' = [venue EXCEPT ![c].status = "CANCELLED"]
        <5>1. [venue[c] EXCEPT !.status = "CANCELLED"] \in Records
          BY <2>3 DEF Records, Terminal
        <5>2. venue' = [venue EXCEPT ![c] = [venue[c] EXCEPT !.status = "CANCELLED"]]
          BY <4>2 DEF RecordsOK
        <5>3. [venue[c] EXCEPT !.status = "CANCELLED"].filled = venue[c].filled
          BY <2>3 DEF Records
        <5>4. venue \in [Order -> Records]
          BY DEF RecordsOK
        <5>5. QED
          BY <5>1, <5>2, <5>3, <5>4
      <4>3. QED
        BY <3>2, <4>1, <4>2
    <3>4. \A d \in Order : d >= next => venue'[d] = NoOrder
      BY <2>3, <3>2 DEF RecordsOK, NoOrder
    <3>5. RecordsOK' /\ Same
      BY <3>1, <3>2, <3>3, <3>4 DEF RecordsOK, Traded
    <3>6. QED
      BY <2>a, <3>1, <3>5
  <2>6. ASSUME Cross \/ Trade
        PROVE  RecordsOK' /\ BooksMatchVenue'
    <3>1. /\ position' = position /\ handler # Dead /\ handler' # Dead
          /\ handler'.at # "taker"
          /\ \/ Refused
             \/ \E d \in {-1, 0, 1} : \E quantity : PlaceNext(d, quantity)
      <4>1. CASE Cross
        <5>1. side[handler.replaced] \in {-1, 0, 1}
          BY <2>3, <4>1 DEF Cross, RecordsOK
        <5>2. QED
          BY <4>1, <5>1 DEF Cross, Dead, Fallbacks
      <4>2. CASE Trade
        BY <4>2 DEF Trade, TradeFor, Dead, Fallbacks, Idle
      <4>3. QED
        BY <2>6, <4>1, <4>2
    <3>2. CASE Refused
      <4>1. RecordsOK' /\ Same
        BY <3>1, <3>2 DEF Refused, RecordsOK, Traded
      <4>2. QED
        BY <2>a, <3>1, <4>1
    <3>3. ASSUME NEW d \in {-1, 0, 1}, NEW quantity, PlaceNext(d, quantity)
          PROVE  RecordsOK' /\ Same
      <4>1. PICK q \in 1..quantity : Submit(next, q)
        BY <3>3 DEF PlaceNext
      <4> DEFINE taken == [status |-> "LIVE", quantity |-> q, filled |-> 0]
      <4>2. transit' = transit /\ q \in Int
        BY <4>1 DEF Submit
      <4>3. venue' = venue \/ venue' = [venue EXCEPT ![next] = taken]
        BY <4>1 DEF Submit, Arrivals
      <4>4. next \in Order /\ venue[next] = NoOrder /\ transit[next] = 0
        BY <2>0, <3>3 DEF RecordsOK, PlaceNext
      <4>5. side' = [side EXCEPT ![next] = d] /\ next' = next + 1
        BY <3>3 DEF PlaceNext
      <4>6. /\ venue' \in [Order -> Records] /\ side' \in [Order -> {-1, 0, 1}]
            /\ next' \in Int /\ transit' \in [Order -> Int]
            /\ venue'[next].filled = 0 /\ transit'[next] = 0
            /\ \A e \in Order \ {next} : venue'[e] = venue[e] /\ side'[e] = side[e]
        <5>1. taken \in Records /\ NoOrder.filled = 0
          BY <4>2 DEF Records, NoOrder
        <5>2. QED
          BY <4>2, <4>3, <4>4, <4>5, <5>1 DEF RecordsOK
      <4>7. Same
        <5>1. ASSUME NEW e \in Order \ {next} PROVE Traded(e)' = Traded(e)
          BY <4>2, <4>6 DEF Traded
        <5>2. ASSUME NEW e \in Order, e = next PROVE Traded(e)' = Traded(e)
          <6>1. side[e] \in Int /\ side'[e] \in Int /\ venue[e].filled = 0
            BY <2>3, <4>4, <4>6, <5>2 DEF NoOrder
          <6>2. side[e] * (0 - 0) = 0 /\ side'[e] * (0 - 0) = 0
            BY <6>1
          <6>3. QED
            BY <4>4, <4>6, <5>2, <6>1, <6>2 DEF Traded
        <5>3. QED
          BY <5>1, <5>2
      <4>8. ASSUME NEW e \in Order, e >= next'
            PROVE  venue'[e] = NoOrder /\ transit'[e] = 0
        <5>1. next \in Int /\ e \in Int /\ e # next /\ e >= next
          BY <2>0, <4>5, <4>8 DEF RecordsOK
        <5>2. QED
          BY <4>2, <4>6, <5>1 DEF RecordsOK
      <4>9. QED
        BY <3>1, <4>6, <4>7, <4>8 DEF RecordsOK
    <3>4. QED
      BY <2>a, <3>1, <3>2, <3>3
  <2>7. ASSUME NEW c \in Order, NEW q \in 1..Qty, Fill(c, q)
        PROVE  RecordsOK' /\ BooksMatchVenue'
    <3>1. /\ venue' = venue /\ transit' = [transit EXCEPT ![c] = @ - q]
          /\ side' = side /\ next' = next /\ q <= transit[c] /\ handler = Idle
      BY <2>7 DEF Fill, DeliverFill
    <3>2. /\ q \in Int /\ handler # Dead /\ handler'.at # "taker"
          /\ \/ Illegal(c, q) /\ handler' = Dead /\ position' = position
             \/ handler' = handler /\ position' = position + side[c] * q
      BY <2>7, <3>1 DEF Fill, Idle, Dead
    <3>3. ~(c >= next)
      BY <2>3, <3>1 DEF RecordsOK
    <3>4. position' \in Int
      <4>1. side[c] * q \in Int
        BY <2>3, <3>2
      <4>2. QED
        BY <3>2, <4>1 DEF RecordsOK
    <3>5. transit' \in [Order -> Int] /\ \A d \in Order \ {c} : transit'[d] = transit[d]
      BY <2>3, <3>1, <3>2 DEF RecordsOK
    <3>6. RecordsOK'
      BY <3>1, <3>2, <3>3, <3>4, <3>5 DEF RecordsOK
    <3>7. Traded(c)' = Traded(c) + side[c] * q /\ side[c] * q \in Int
      <4>1. transit'[c] = transit[c] - q
        BY <3>1 DEF RecordsOK
      <4>2. side[c] * (venue[c].filled - (transit[c] - q)) =
              side[c] * (venue[c].filled - transit[c]) + side[c] * q
        BY <2>3, <3>2
      <4>3. QED
        BY <2>3, <3>1, <3>2, <4>1, <4>2 DEF Traded
    <3>8. \A d \in Order \ {c} : Traded(d)' = Traded(d)
      BY <3>1, <3>5 DEF Traded
    <3>9. total' = total + side[c] * q
      BY <3>6, <3>7, <3>8, TradedChange
    <3>10. QED
      <4>1. total - position = 0 /\ side[c] * q \in Int
        BY <3>2, <3>7 DEF BooksMatchVenue, Unbooked
      <4>2. CASE Illegal(c, q) /\ handler' = Dead /\ position' = position
        <5>1. machine'[c].raised
          BY <2>7, <4>2, FilledEntry
        <5>2. total' - position' = side'[c] * q
          BY <2>2, <3>1, <3>9, <4>1, <4>2
        <5>3. QED
          BY <3>6, <4>2, <5>1, <5>2 DEF BooksMatchVenue, Unbooked, Dead
      <4>3. CASE handler' = handler /\ position' = position + side[c] * q
        <5>1. total' - position' = 0
          BY <2>2, <3>9, <4>1, <4>3
        <5>2. QED
          BY <3>2, <3>6, <4>3, <5>1 DEF BooksMatchVenue, Unbooked, Dead
      <4>4. QED
        BY <3>2, <3>6, <4>2, <4>3
  <2>8. CASE Venue
    <3>1. PICK c \in Order : VenueExpire(c) \/ \E q \in 1..Qty : VenueFill(c, q)
      BY <2>8 DEF Venue
    <3>2. /\ venue[c].status = "LIVE" /\ ~(c >= next)
          /\ side' = side /\ next' = next /\ position' = position /\ handler' = handler
          /\ machine' = machine
      <4>1. venue[c].status = "LIVE"
        BY <3>1 DEF VenueExpire, VenueFill
      <4>2. venue[c] # NoOrder
        BY <4>1 DEF NoOrder
      <4>3. QED
        BY <2>8, <3>1, <4>1, <4>2 DEF Venue, VenueExpire, VenueFill, RecordsOK
    <3>3. PICK x \in Int : /\ venue'[c].filled = venue[c].filled + x
                           /\ transit'[c] = transit[c] + x
                           /\ venue' \in [Order -> Records]
                           /\ transit' \in [Order -> Int]
                           /\ \A d \in Order \ {c} :
                                venue'[d] = venue[d] /\ transit'[d] = transit[d]
      <4>1. CASE VenueExpire(c)
        <5>1. /\ transit' = transit
              /\ \E s \in {"CANCELLED", "REJECTED"} : venue' = [venue EXCEPT ![c].status = s]
          BY <4>1 DEF VenueExpire
        <5>2. /\ venue'[c].filled = venue[c].filled + 0 /\ venue' \in [Order -> Records]
              /\ transit'[c] = transit[c] + 0 /\ transit' \in [Order -> Int]
              /\ \A d \in Order \ {c} : venue'[d] = venue[d] /\ transit'[d] = transit[d]
          BY <2>3, <5>1 DEF RecordsOK, Records, Terminal
        <5>3. QED
          BY <5>2
      <4>2. ASSUME NEW q \in 1..Qty, VenueFill(c, q)
            PROVE  /\ venue'[c].filled = venue[c].filled + q
                   /\ transit'[c] = transit[c] + q
                   /\ venue' \in [Order -> Records]
                   /\ transit' \in [Order -> Int]
                   /\ \A d \in Order \ {c} :
                        venue'[d] = venue[d] /\ transit'[d] = transit[d]
        <5> DEFINE status == IF venue[c].filled + q = venue[c].quantity
                               THEN "FILLED" ELSE venue[c].status
                   filled == [venue[c] EXCEPT !.filled = @ + q, !.status = status]
        <5>1. filled \in Records /\ filled.filled = venue[c].filled + q
          <6>1. venue[c] \in Records /\ q \in Int
            BY <2>3
          <6>2. status \in {"NONE", "LIVE"} \cup Terminal /\ venue[c].filled + q \in Nat
            BY <6>1 DEF Records, Terminal
          <6> HIDE DEF status
          <6>3. QED
            BY <6>1, <6>2 DEF Records
        <5>2. venue' = [venue EXCEPT ![c] = filled] /\ transit' = [transit EXCEPT ![c] = @ + q]
          BY <2>3, <4>2 DEF VenueFill, RecordsOK, Records
        <5> HIDE DEF filled
        <5>3. QED
          BY <5>1, <5>2 DEF RecordsOK
      <4>3. QED
        BY <3>1, <4>1, <4>2
    <3>4. RecordsOK'
      BY <3>2, <3>3 DEF RecordsOK
    <3>5. Same
      <4>1. Traded(c)' = Traded(c)
        <5>1. venue'[c].filled - transit'[c] = venue[c].filled - transit[c]
          BY <2>3, <3>3
        <5>2. QED
          BY <3>2, <5>1 DEF Traded
      <4>2. QED
        BY <3>2, <3>3, <4>1 DEF Traded
    <3>6. QED
      BY <2>b, <3>2, <3>4, <3>5
  <2>9. CASE UNCHANGED pipelineVars
    <3>1. RecordsOK' /\ Same /\ UNCHANGED <<machine, side, position, handler>>
      BY <2>9 DEF pipelineVars, RecordsOK, Traded
    <3>2. QED
      BY <2>b, <3>1
  <2>10. QED
    BY <2>4, <2>5, <2>6, <2>7, <2>8, <2>9 DEF PipelineNext
<1>3. QED
  BY <1>1, <1>2, PTL DEF PipelineSpec

\* The booked position is the venue's up to the fills still in transit, and after the
\* fill that ends the loop it lacks that one fill, whatever overtakes what, whatever
\* fails, for any strategy: only a venue that trades inside place itself is left out.
THEOREM BooksFollowVenue ==
  ASSUME Instant = {}
  PROVE  PipelineSpec => []BooksMatchVenue
<1>1. BooksInv => BooksMatchVenue
  BY DEF BooksInv
<1>2. QED
  BY <1>1, BooksKept, PTL

-----------------------------------------------------------------------------
(* The order that crosses                                                  *)

\* The executor never knows of less than the venue has reported: what a query
\* answers cannot lower what the executor already counted as traded.
Accounted(c) == 0 <= venue[c].filled /\ venue[c].filled <= machine[c].filled + transit[c]
FitsInv == (\A c \in Order : Accounted(c)) /\ TakerFits

\* For every strategy, however its target moves, on paper and in a backtest with an
\* order latency: the order that crosses never asks for more than the order it
\* replaces had left, as the executor knows it after the cancel.
THEOREM TakersReplaceOnce ==
  ASSUME Instant = {}, Overtakes = {}
  PROVE  PipelineSpec => []TakerFits
<1>1. PipelineInit => FitsInv
  <2> SUFFICES ASSUME PipelineInit PROVE FitsInv
    OBVIOUS
  <2>2. TakerFits
    BY DEF PipelineInit, TakerFits, Idle
  <2>3. \A c \in Order : Accounted(c)
    <3> SUFFICES ASSUME NEW c \in Order PROVE Accounted(c)
      OBVIOUS
    <3>1. machine[c].filled = 0 /\ venue[c].filled = 0 /\ transit[c] = 0
      BY DEF PipelineInit, Init, NoMachine, NoOrder
    <3>2. QED
      BY <3>1 DEF Accounted
  <2>4. QED
    BY <2>2, <2>3 DEF FitsInv
<1>2. RecordsOK /\ MachinesOK /\ RecordsOK' /\ MachinesOK' /\ FitsInv
        /\ [PipelineNext]_pipelineVars => FitsInv'
  <2> SUFFICES ASSUME RecordsOK, MachinesOK, RecordsOK', MachinesOK', FitsInv,
                      [PipelineNext]_pipelineVars
               PROVE  FitsInv'
    OBVIOUS
  <2>0. /\ machine \in [Order -> Entries] /\ \A c \in Order : Accounted(c)
        /\ \A c \in Order : /\ venue[c].filled \in Int /\ transit[c] \in Int
                           /\ machine[c].filled \in Int /\ machine[c].quantity \in Int
                           /\ venue'[c].filled \in Int /\ transit'[c] \in Int
                           /\ c \in Int
        /\ next \in Int
    BY Ids DEF FitsInv, MachinesOK, RecordsOK, Records, Entries
  <2>1. ASSUME UNCHANGED <<machine, venue, transit, next>>, handler'.at # "taker"
        PROVE  FitsInv'
    BY <2>0, <2>1 DEF FitsInv, Accounted, TakerFits
  <2>2. CASE Begin
    BY <2>1, <2>2 DEF Begin, Fallbacks
  <2>3. ASSUME NEW c \in Order, Replace(c) PROVE FitsInv'
    <3> DEFINE left == Remaining(machine[c])
    <3>1. next' = next
      BY <2>3 DEF Replace, ReplaceBy
    <3>2. CASE IsTerminal(machine[c]) \/ Remaining(machine[c]) <= 0
      BY <2>1, <2>3, <3>1, <3>2 DEF Replace, ReplaceBy, Fallbacks
    <3>3. CASE ~(IsTerminal(machine[c]) \/ Remaining(machine[c]) <= 0)
      <4>1. /\ Cancel(c)
            /\ handler' \in {Taker(handler.due \ {c}, c, left), Fallbacks(handler.due \ {c})}
        BY <2>3, <3>3 DEF Replace, ReplaceBy
      <4>2. /\ machine' \in [Order -> Entries] /\ transit' = transit
            /\ \A d \in Order : venue'[d].filled = venue[d].filled
            /\ \A d \in Order \ {c} : machine'[d] = machine[d]
            /\ machine'[c].status # "NONE" /\ machine'[c].quantity = machine[c].quantity
            /\ machine'[c].filled \in {machine[c].filled, venue[c].filled}
        BY <4>1, CancelEntries
      <4>3. transit[c] = 0
        BY <4>1 DEF Cancel, InOrder
      <4>4. machine'[c].filled <= machine[c].filled /\ venue[c].filled <= machine'[c].filled
        BY <2>0, <4>2, <4>3 DEF Accounted
      <4>5. \A d \in Order : Accounted(d)'
        BY <2>0, <3>1, <4>2, <4>3, <4>4 DEF Accounted
      <4>6. TakerFits'
        <5>1. left <= Remaining(machine'[c])
          BY <2>0, <4>2, <4>4 DEF Remaining, Entries
        <5> HIDE DEF left
        <5>2. QED
          BY <4>1, <5>1 DEF TakerFits, Taker, Fallbacks
      <4>7. QED
        BY <4>5, <4>6 DEF FitsInv
    <3>4. QED
      BY <3>2, <3>3
  <2>4. ASSUME Cross \/ Trade PROVE FitsInv'
    <3>1. handler'.at # "taker"
      BY <2>4 DEF Cross, Trade, TradeFor, Fallbacks, Idle
    <3>2. CASE Refused
      BY <2>1, <3>1, <3>2 DEF Refused
    <3>3. ASSUME NEW direction, NEW quantity, PlaceNext(direction, quantity)
          PROVE  FitsInv'
      <4>1. PICK n \in Order : n = next
        BY <3>3 DEF PlaceNext
      <4>2. PICK q \in 1..quantity : Submit(n, q)
        BY <3>3, <4>1 DEF PlaceNext
      <4> DEFINE taken == [status |-> "LIVE", quantity |-> q, filled |-> 0]
      <4>4. \E e \in Entries : e.filled = 0 /\ machine' = [machine EXCEPT ![n] = e]
        BY <3>3, <4>1, PlacedEntry
      <4>5. transit' = transit /\ (venue' = venue \/ venue' = [venue EXCEPT ![n] = taken])
        BY <4>2 DEF Submit, Arrivals
      <4>6. venue[n] = NoOrder /\ transit[n] = 0 /\ next' = next + 1
        BY <2>0, <3>3, <4>1 DEF RecordsOK, PlaceNext
      <4>7. /\ venue'[n].filled = 0 /\ transit'[n] = 0
            /\ \A d \in Order \ {n} : venue'[d] = venue[d] /\ transit'[d] = transit[d]
        BY <4>5, <4>6 DEF RecordsOK, NoOrder
      <4>8. machine'[n].filled = 0 /\ \A d \in Order \ {n} : machine'[d] = machine[d]
        BY <2>0, <4>4
      <4>9. \A d \in Order : Accounted(d)'
        BY <2>0, <4>7, <4>8 DEF Accounted
      <4>10. QED
        BY <3>1, <4>9 DEF FitsInv, TakerFits
    <3>4. QED
      BY <2>4, <3>2, <3>3 DEF Cross, Trade, TradeFor
  <2>5. ASSUME NEW c \in Order, NEW q \in 1..Qty, Fill(c, q) PROVE FitsInv'
    <3>1. /\ venue' = venue /\ handler'.at # "taker"
          /\ transit' = [transit EXCEPT ![c] = @ - q]
      BY <2>5 DEF Fill, DeliverFill, Idle, Dead
    <3>2. q \in Int /\ transit \in [Order -> Int]
      BY DEF RecordsOK
    <3>3. /\ machine'[c].filled = machine[c].filled + q /\ transit'[c] = transit[c] - q
          /\ \A d \in Order \ {c} : machine'[d] = machine[d] /\ transit'[d] = transit[d]
      BY <2>5, <3>1, <3>2, FilledEntry
    <3>4. \A d \in Order : Accounted(d)'
      BY <2>0, <3>1, <3>2, <3>3 DEF Accounted
    <3>5. QED
      BY <3>1, <3>4 DEF FitsInv, TakerFits
  <2>6. CASE Venue
    <3>1. PICK c \in Order : /\ c \in Overtakes \/ handler = Idle
                             /\ VenueExpire(c) \/ \E q \in 1..Qty : VenueFill(c, q)
      BY <2>6 DEF Venue
    <3>2. machine' = machine /\ handler' = handler /\ next' = next /\ handler = Idle
      BY <2>6, <3>1 DEF Venue, VenueExpire, VenueFill
    <3>3. \E x \in Nat : /\ venue'[c].filled = venue[c].filled + x
                        /\ transit'[c] = transit[c] + x
                        /\ \A d \in Order \ {c} : venue'[d] = venue[d] /\ transit'[d] = transit[d]
      <4>0. c \in DOMAIN venue /\ c \in DOMAIN transit /\ venue[c] \in Records
        BY DEF RecordsOK
      <4>1. CASE VenueExpire(c)
        <5>1. /\ venue'[c].filled = venue[c].filled + 0 /\ transit'[c] = transit[c] + 0
              /\ \A d \in Order \ {c} : venue'[d] = venue[d] /\ transit'[d] = transit[d]
          BY <2>0, <4>0, <4>1 DEF VenueExpire, Records
        <5>2. QED
          BY <5>1
      <4>2. ASSUME NEW q \in 1..Qty, VenueFill(c, q)
            PROVE  /\ venue'[c].filled = venue[c].filled + q
                   /\ transit'[c] = transit[c] + q
                   /\ \A d \in Order \ {c} : venue'[d] = venue[d] /\ transit'[d] = transit[d]
        <5> DEFINE status == IF venue[c].filled + q = venue[c].quantity
                               THEN "FILLED" ELSE venue[c].status
                   filled == [venue[c] EXCEPT !.filled = @ + q, !.status = status]
        <5>1. filled.filled = venue[c].filled + q
          BY <4>0 DEF Records
        <5>2. venue' = [venue EXCEPT ![c] = filled] /\ transit' = [transit EXCEPT ![c] = @ + q]
          BY <4>0, <4>2 DEF VenueFill, Records
        <5> HIDE DEF filled
        <5>3. QED
          BY <4>0, <5>1, <5>2
      <4>3. QED
        BY <3>1, <4>1, <4>2, ExecutionAssumption
    <3>4. \A d \in Order : Accounted(d)'
      BY <2>0, <3>2, <3>3 DEF Accounted
    <3>5. QED
      BY <3>2, <3>4 DEF FitsInv, TakerFits, Idle
  <2>7. CASE UNCHANGED pipelineVars
    BY <2>0, <2>7 DEF pipelineVars, FitsInv, Accounted, TakerFits
  <2>8. QED
    BY <2>2, <2>3, <2>4, <2>5, <2>6, <2>7 DEF PipelineNext
<1>3. FitsInv => TakerFits
  BY DEF FitsInv
<1>4. BooksInv => RecordsOK /\ MachinesOK
  BY DEF BooksInv
<1>5. QED
  BY <1>1, <1>2, <1>3, <1>4, BooksKept, PTL DEF PipelineSpec

-----------------------------------------------------------------------------
(* What is in flight                                                       *)

\* Every order's accounts agree exactly, and the ids to come are untouched.
Sound ==
  /\ TypeOK
  /\ side \in [Order -> {-1, 0, 1}] /\ position \in Int /\ next \in Int /\ target \in Targets
  /\ \A c \in Order : /\ Agrees(c) /\ machine[c].filled + transit[c] = venue[c].filled
                      /\ c >= next => machine[c].status = "NONE"

Share(c) == side[c] * InFlight(c)
Shares == \A c \in Order : side[c] \in {-1, 0, 1} /\ InFlight(c) \in 0..Qty

\* One order's share of in_flight changes the total by as much.
LEMMA ShareChange ==
  ASSUME Shares, Shares', NEW c \in Order, NEW x \in Int,
         \A d \in Order \ {c} : Share(d)' = Share(d), Share(c)' = Share(c) + x
  PROVE  /\ InFlightTotal' = InFlightTotal + x
         /\ InFlightTotal \in Int
<1> DEFINE f == [d \in Order |-> side[d] * InFlight(d)]
           g == [d \in Order |-> side'[d] * InFlight(d)']
<1>1. \A d \in Order : f[d] \in Int /\ g[d] \in Int
  BY DEF Shares
<1>2. g[c] = f[c] + x /\ \A d \in Order \ {c} : g[d] = f[d]
  BY DEF Share
<1> HIDE DEF f, g
<1>3. SumFunctionOnSet(g, Order) = SumFunctionOnSet(f, Order) - f[c] + g[c]
  BY <1>1, <1>2, Ids, SumChange DEF Numbers
<1>4. SumFunctionOnSet(f, Order) \in Int
  BY <1>1, Ids, SumInteger DEF Numbers
<1>5. SumFunctionOnSet(g, Order) = SumFunctionOnSet(f, Order) + x
  BY <1>1, <1>2, <1>3, <1>4
<1>6. QED
  BY <1>4, <1>5 DEF Sum, InFlightTotal, f, g

\* No share changes, and neither does the total.
LEMMA ShareSame ==
  ASSUME \A d \in Order : Share(d)' = Share(d)
  PROVE  InFlightTotal' = InFlightTotal
<1>1. [d \in Order |-> Share(d)]' = [d \in Order |-> Share(d)]
  OBVIOUS
<1>2. QED
  BY <1>1 DEF InFlightTotal, Sum, Share

\* What is in flight of each order is a quantity, and so the total a number.
LEMMA SoundShares == ASSUME Sound PROVE Shares /\ InFlightTotal \in Int
<1>1. Shares
  BY Covered DEF Sound, Shares
<1> DEFINE f == [d \in Order |-> side[d] * InFlight(d)]
<1>2. \A d \in Order : f[d] \in Int
  BY <1>1 DEF Shares
<1> HIDE DEF f
<1>3. SumFunctionOnSet(f, Order) \in Int
  BY <1>2, Ids, SumInteger DEF Numbers
<1>4. QED
  BY <1>1, <1>3 DEF InFlightTotal, Sum, f

\* It holds of the next state when its premise does.
LEMMA SoundSharesNext == Sound' => Shares'
<1>1. Sound => Shares
  BY SoundShares
<1>2. QED
  BY <1>1, PTL

-----------------------------------------------------------------------------
(* The steps of the order path                                             *)

\* At the start nothing is in flight and nothing is held.
LEMMA SoundStart ==
  ASSUME PipelineInit
  PROVE  Sound /\ position + InFlightTotal = 0
<1>1. TypeOK
  BY TypeStart DEF PipelineInit
<1>2. \A c \in Order : /\ Agrees(c) /\ machine[c].filled + transit[c] = venue[c].filled
                      /\ machine[c].status = "NONE" /\ side[c] = 0
  <2>1. \A c \in Order : /\ machine[c] = NoMachine /\ venue[c] = NoOrder /\ transit[c] = 0
                         /\ side[c] = 0
    BY DEF PipelineInit, Init
  <2>2. /\ NoMachine.filled = 0 /\ NoMachine.status = "NONE" /\ NoOrder.filled = 0
    BY DEF NoMachine, NoOrder
  <2>3. \A c \in Order : Consistent(machine[c], venue[c], transit[c])
    <3>1. ASSUME NEW c \in Order PROVE Consistent(machine[c], venue[c], transit[c])
      <4>1. machine[c] = NoMachine /\ venue[c] = NoOrder /\ transit[c] = 0
        BY <2>1
      <4>2. QED
        BY <4>1, NothingSent, Zenon
    <3>2. QED
      BY <3>1
  <2>4. \A c \in Order : machine[c].filled + transit[c] = venue[c].filled
    <3>1. \A c \in Order : machine[c].filled = 0 /\ venue[c].filled = 0 /\ transit[c] = 0
      BY <2>1, <2>2
    <3>2. 0 + 0 = 0
      OBVIOUS
    <3>3. QED
      BY <3>1, <3>2
  <2>5. QED
    BY <2>1, <2>2, <2>3, <2>4 DEF Agrees
<1>3. Sound
  BY <1>1, <1>2 DEF PipelineInit, Sound
<1> DEFINE f == [d \in Order |-> side[d] * InFlight(d)]
<1>4. \A d \in Order : f[d] = 0
  BY <1>2, <1>3, SoundShares DEF Shares
<1> HIDE DEF f
<1>5. SumFunctionOnSet(f, Order) = 0
  BY <1>4, Ids, SumZero
<1>6. QED
  BY <1>3, <1>5 DEF PipelineInit, InFlightTotal, Sum, f

\* A new order puts at most the quantity asked in flight, in its direction.
LEMMA Placed ==
  ASSUME Sound, Instant = {}, NEW direction \in {-1, 0, 1}, NEW quantity \in Int,
         quantity <= Qty, PlaceNext(direction, quantity),
         position' = position, target' = target
  PROVE  /\ Sound' /\ quantity > 0
         /\ \A c \in Order : side'[c] \in {side[c], direction}
         /\ \E q \in 0..quantity : InFlightTotal' = InFlightTotal + direction * q
<1>1. PICK n \in Order : n = next
  BY DEF PlaceNext
<1>2. PICK q \in 1..Qty : q <= quantity /\ Submit(n, q)
  <2>1. PICK q \in 1..quantity : Submit(next, q)
    BY DEF PlaceNext
  <2>2. Submit(n, q)
    BY <1>1, <2>1 DEF Submit
  <2>3. q \in 1..Qty /\ q <= quantity
    BY ExecutionAssumption
  <2>4. QED
    BY <2>2, <2>3
<1>3. /\ side' = [side EXCEPT ![n] = direction] /\ next' = next + 1
      /\ machine[n].status = "NONE" /\ Agrees(n) /\ TypeOK /\ n \in Order \ Instant
      /\ n \in Int /\ next \in Int
  BY <1>1, Ids DEF PlaceNext, Sound
<1>4. /\ Agrees(n)' /\ transit' = transit /\ venue'[n].filled = venue[n].filled
      /\ machine'[n].filled = 0 /\ machine'[n].quantity = q
      /\ machine'[n].status \in {"ACKED", "QUERY", "REJECTED"}
  BY <1>2, <1>3, SubmitAgrees
<1>5. /\ \A d \in Order \ {n} :
           machine'[d] = machine[d] /\ venue'[d] = venue[d] /\ transit'[d] = transit[d]
      /\ TypeOK'
  <2>1. [Next]_vars
    BY <1>2 DEF Next
  <2>2. TypeOK'
    BY <1>3, <2>1, TypeKept
  <2>3. QED
    BY <1>2, <1>3, <2>2, Local
<1>6. \A d \in Order \ {n} : Agrees(d)' /\ Share(d)' = Share(d)
  BY <1>3, <1>5 DEF Sound, Agrees, Share, InFlight, Remaining, IsTerminal
<1>7. machine[n].filled = 0 /\ transit[n] = 0 /\ venue[n].filled = 0
  BY <1>3, Kinds DEF Agrees, Consistent, NoOrder, Machines
<1>8. Sound'
  <2>1. side' \in [Order -> {-1, 0, 1}] /\ next' \in Int
    BY <1>3 DEF Sound
  <2>2. \A d \in Order : machine'[d].filled + transit'[d] = venue'[d].filled
    BY <1>4, <1>5, <1>7 DEF Sound
  <2>3. ASSUME NEW d \in Order, d >= next' PROVE machine'[d].status = "NONE"
    <3>1. d \in Int /\ d # n /\ d >= next
      BY <1>1, <1>3, <2>3, Ids
    <3>2. QED
      BY <1>5, <3>1 DEF Sound
  <2>4. QED
    BY <1>4, <1>5, <1>6, <2>1, <2>2, <2>3 DEF Sound
<1>9. Share(n) = 0 /\ \E r \in {0, q} : Share(n)' = direction * r
  <2>1. InFlight(n) = 0 /\ side[n] \in Int
    BY <1>3 DEF InFlight, Sound
  <2>2. InFlight(n)' = q \/ InFlight(n)' = 0
    BY <1>4 DEF InFlight, Remaining, IsTerminal, Terminal
  <2>3. side'[n] = direction
    BY <1>3 DEF Sound
  <2>4. QED
    BY <2>1, <2>2, <2>3 DEF Share
<1>10. PICK r \in {0, q} : Share(n)' = direction * r
  BY <1>9
<1>11. direction * r \in Int /\ Share(n)' = Share(n) + direction * r
  BY <1>9, <1>10
<1>12. InFlightTotal' = InFlightTotal + direction * r
  <2>1. Shares /\ Shares'
    BY <1>8, SoundShares, SoundSharesNext
  <2> HIDE DEF Share
  <2>2. QED
    BY <1>6, <1>11, <2>1, ShareChange
<1>13. \A c \in Order : side'[c] \in {side[c], direction}
  BY <1>3 DEF Sound
<1>14. r \in 0..quantity /\ quantity > 0
  BY <1>2
<1>15. QED
  BY <1>8, <1>12, <1>13, <1>14

\* A fill lands legally and moves its quantity from what is in flight to the
\* position.
LEMMA Filled ==
  ASSUME Sound, NEW c \in Order, NEW q \in 1..Qty, Fill(c, q)
  PROVE  /\ Sound' /\ handler' = handler /\ handler = Idle
         /\ side' = side /\ target' = target
         /\ resting' \in {resting, resting \ {c}}
         /\ position' = position + side[c] * q
         /\ InFlightTotal' = InFlightTotal - side[c] * q
<1>1. /\ DeliverFill(c, q) /\ handler = Idle
      /\ side' = side /\ target' = target /\ next' = next
  BY DEF Fill
<1>2. TypeOK /\ Agrees(c) /\ machine[c] \in Machines
  BY Kinds DEF Sound
<1>3. /\ Agrees(c)' /\ venue' = venue /\ transit'[c] = transit[c] - q
      /\ machine'[c] = OnFill(machine[c], q)
      /\ machine[c].status # "NONE" /\ ~IsTerminal(machine[c])
      /\ Remaining(machine[c]) >= q
      /\ Remaining(machine'[c]) = Remaining(machine[c]) - q
      /\ machine'[c].status = IF Remaining(machine[c]) = q THEN "FILLED" ELSE "PARTIAL"
  BY <1>1, <1>2, DeliverAgrees
<1>4. ~Illegal(c, q)
  <2>1. [machine[c] EXCEPT !.raised = FALSE] = machine[c]
    BY <1>2 DEF Agrees, Consistent, Machines
  <2>2. ~machine'[c].raised
    BY <1>3 DEF Agrees, Consistent
  <2>3. QED
    BY <1>3, <2>1, <2>2 DEF Illegal
<1>5. /\ handler' = handler /\ position' = position + side[c] * q
      /\ resting' \in {resting, resting \ {c}}
  BY <1>4 DEF Fill
<1>6. TypeOK' /\ \A d \in Order \ {c} :
         machine'[d] = machine[d] /\ venue'[d] = venue[d] /\ transit'[d] = transit[d]
  <2>1. [Next]_vars
    BY <1>1 DEF Next
  <2>2. QED
    BY <1>1, <1>2, <2>1, TypeKept, Local
<1>7. machine'[c].filled = machine[c].filled + q
  <2>1. /\ machine'[c].quantity = machine[c].quantity
        /\ machine[c].quantity \in Int /\ machine[c].filled \in Int
        /\ machine'[c].filled \in Int
    <3>1. machine'[c] \in Machines
      BY <1>2, <1>3, HandlerTypes
    <3>2. OnFill(machine[c], q).quantity = machine[c].quantity
      <4> DEFINE f == [machine[c] EXCEPT !.filled = @ + q]
      <4>1. f \in Machines /\ f.quantity = machine[c].quantity /\ f.status # "NONE"
        BY <1>2, <1>3 DEF Machines
      <4>2. OnFill(machine[c], q) \in {f, Transition(f, "FILLED"), Transition(f, "PARTIAL")}
        BY DEF OnFill
      <4> HIDE DEF f
      <4>3. QED
        BY <4>1, <4>2, TransitionType DEF Status, Terminal
    <3>3. QED
      BY <1>2, <1>3, <3>1, <3>2 DEF Machines
  <2>2. QED
    BY <1>3, <2>1 DEF Remaining
<1>8. Sound'
  <2>1. \A d \in Order : Agrees(d)' /\ machine'[d].filled + transit'[d] = venue'[d].filled
    <3>1. machine'[c].filled + transit'[c] = venue'[c].filled
      BY <1>2, <1>3, <1>7, Kinds DEF Sound, Machines
    <3>2. QED
      BY <1>3, <1>6, <3>1 DEF Sound, Agrees
  <2>2. position' \in Int
    <3>1. side[c] * q \in Int
      BY DEF Sound
    <3>2. QED
      BY <1>5, <3>1 DEF Sound
  <2>3. ASSUME NEW d \in Order, d >= next PROVE machine'[d].status = "NONE"
    BY <1>3, <1>6, <2>3 DEF Sound
  <2>4. QED
    BY <1>1, <1>6, <2>1, <2>2, <2>3 DEF Sound
<1>9. Share(c)' = Share(c) + (-(side[c] * q)) /\ side[c] * q \in Int
  <2>1. InFlight(c) = Remaining(machine[c]) /\ InFlight(c)' = Remaining(machine[c]) - q
    BY <1>2, <1>3 DEF InFlight, IsTerminal, Terminal, Remaining, Machines
  <2>2. side[c] \in {-1, 0, 1} /\ Remaining(machine[c]) \in Int
    BY <1>2 DEF Sound, Remaining, Machines
  <2>3. QED
    BY <1>1, <2>1, <2>2 DEF Share
<1>10. \A d \in Order \ {c} : Share(d)' = Share(d)
  BY <1>1, <1>6 DEF Share, InFlight, Remaining, IsTerminal
<1>11. InFlightTotal' = InFlightTotal + (-(side[c] * q))
  BY <1>8, <1>9, <1>10, SoundShares, SoundSharesNext, ShareChange
<1>12. InFlightTotal' = InFlightTotal - side[c] * q
  BY <1>9, <1>11, SoundShares
<1>13. QED
  BY <1>1, <1>5, <1>8, <1>12

\* What the venue does changes nothing the pipeline reads.
LEMMA VenueMoved ==
  ASSUME Sound, Venue
  PROVE  /\ Sound' /\ handler' = handler /\ side' = side /\ target' = target
         /\ position' = position /\ resting' = resting /\ next' = next
         /\ machine' = machine /\ InFlightTotal' = InFlightTotal
         /\ Overtakes = {} => handler = Idle
<1>1. /\ handler' = handler /\ side' = side /\ target' = target
      /\ position' = position /\ resting' = resting /\ next' = next
  BY DEF Venue
<1>2. PICK c \in Order : /\ c \in Overtakes \/ handler = Idle
                         /\ VenueExpire(c) \/ \E q \in 1..Qty : VenueFill(c, q)
  BY DEF Venue
<1>3. PICK q \in 1..Qty : VenueFill(c, q) \/ VenueExpire(c)
  <2>1. 1 \in 1..Qty
    BY ExecutionAssumption
  <2>2. QED
    BY <1>2, <2>1
<1>4. TypeOK /\ Agrees(c)
  BY DEF Sound
<1>5. /\ Agrees(c)' /\ machine' = machine
      /\ venue'[c].filled - transit'[c] = venue[c].filled - transit[c]
  BY <1>3, <1>4, VenueAgrees
<1>6. TypeOK' /\ \A d \in Order \ {c} : venue'[d] = venue[d] /\ transit'[d] = transit[d]
  <2>1. [Next]_vars
    BY <1>3 DEF Next
  <2>2. QED
    BY <1>3, <1>4, <2>1, TypeKept, Local
<1>7. machine'[c].filled + transit'[c] = venue'[c].filled
  <2>1. /\ venue[c].filled \in Int /\ transit[c] \in Int /\ machine[c].filled \in Int
        /\ venue'[c].filled \in Int /\ transit'[c] \in Int
    BY <1>4, <1>6 DEF TypeOK
  <2>2. QED
    BY <1>5, <2>1 DEF Sound
<1>8. Sound'
  BY <1>1, <1>5, <1>6, <1>7 DEF Sound, Agrees
<1>9. InFlightTotal' = InFlightTotal
  <2>1. \A d \in Order : Share(d)' = Share(d)
    BY <1>1, <1>5 DEF Share, InFlight, Remaining, IsTerminal
  <2>2. QED
    BY <2>1, ShareSame
<1>10. QED
  BY <1>1, <1>2, <1>5, <1>8, <1>9

\* A cancel that answers takes what was left of the order out of flight, exactly,
\* and one that does not leaves it in.
LEMMA Withdrawn ==
  ASSUME Sound, NEW c \in Order, Cancel(c), transit[c] = 0,
         UNCHANGED <<target, position, side, next>>
  PROVE  /\ Sound'
         /\ Remaining(machine'[c]) = Remaining(machine[c])
         /\ InFlightTotal' = IF IsTerminal(machine'[c])
                               THEN InFlightTotal - side[c] * Remaining(machine[c])
                               ELSE InFlightTotal
<1>1. /\ TypeOK /\ Agrees(c) /\ machine[c] \in Machines /\ venue[c] \in Venues
      /\ machine[c].status # "NONE" /\ ~IsTerminal(machine[c])
  BY Kinds DEF Sound, Cancel
<1>2. /\ Agrees(c)' /\ transit' = transit /\ venue'[c].filled = venue[c].filled
      /\ machine'[c].quantity = machine[c].quantity
      /\ machine'[c].filled \in {machine[c].filled, venue[c].filled}
      /\ machine'[c].status # "NONE"
  BY <1>1, CancelAgrees
<1>3. TypeOK' /\ \A d \in Order \ {c} : machine'[d] = machine[d] /\ venue'[d] = venue[d]
  <2>1. [Next]_vars /\ 1 \in 1..Qty
    BY ExecutionAssumption DEF Next
  <2>2. QED
    BY <1>1, <2>1, TypeKept, Local
<1>4. machine[c].filled = venue[c].filled /\ machine'[c].filled = machine[c].filled
  BY <1>1, <1>2 DEF Sound, Machines, Venues
<1>5. Sound'
  <2>1. \A d \in Order : machine'[d].filled + transit'[d] = venue'[d].filled
    BY <1>2, <1>3, <1>4 DEF Sound
  <2>2. \A d \in Order : d >= next => machine'[d].status = "NONE"
    BY <1>1, <1>3 DEF Sound
  <2>3. QED
    BY <1>2, <1>3, <2>1, <2>2 DEF Sound, Agrees
<1>6. /\ InFlight(c) = Remaining(machine[c])
      /\ InFlight(c)' = IF IsTerminal(machine'[c]) THEN 0 ELSE Remaining(machine[c])
  BY <1>1, <1>2, <1>4 DEF InFlight, Remaining
<1>7. \A d \in Order \ {c} : Share(d)' = Share(d)
  BY <1>3 DEF Share, InFlight, Remaining, IsTerminal
<1>8. side[c] \in {-1, 0, 1} /\ Remaining(machine[c]) \in Int /\ side' = side
  BY <1>1 DEF Sound, Remaining, Machines
<1>9. CASE IsTerminal(machine'[c])
  <2>1. /\ Share(c)' = Share(c) + (-(side[c] * Remaining(machine[c])))
        /\ side[c] * Remaining(machine[c]) \in Int
    BY <1>6, <1>8, <1>9 DEF Share
  <2>2. InFlightTotal' = InFlightTotal + (-(side[c] * Remaining(machine[c])))
    BY <1>5, <1>7, <2>1, SoundShares, SoundSharesNext, ShareChange
  <2>3. QED
    BY <1>2, <1>4, <1>5, <1>9, <2>1, <2>2, SoundShares DEF Remaining
<1>10. CASE ~IsTerminal(machine'[c])
  <2>1. \A d \in Order : Share(d)' = Share(d)
    BY <1>6, <1>7, <1>8, <1>10 DEF Share
  <2>2. InFlightTotal' = InFlightTotal
    BY <2>1, ShareSame
  <2>3. QED
    BY <1>2, <1>4, <1>5, <1>10, <2>2 DEF Remaining
<1>11. QED
  BY <1>9, <1>10

\* A step that touches no order changes nothing that is in flight.
LEMMA Untouched ==
  ASSUME Sound, UNCHANGED <<machine, venue, transit, side, next, position>>, target' \in Targets
  PROVE  Sound' /\ InFlightTotal' = InFlightTotal
<1>1. InFlightTotal' = InFlightTotal
  <2>1. \A d \in Order : Share(d)' = Share(d)
    BY DEF Share, InFlight, Remaining, IsTerminal
  <2>2. QED
    BY <2>1, ShareSame
<1>2. QED
  BY <1>1 DEF Sound, TypeOK, Agrees

-----------------------------------------------------------------------------
(* A strategy whose target moves                                           *)

Lowest == Min(Targets \cup {0})
Highest == Max(Targets \cup {0})

\* The targets span an interval of integers no longer than an order can be.
LEMMA Span ==
  /\ Lowest \in Int /\ Highest \in Int /\ Highest - Lowest <= Qty
  /\ \A t \in Targets \cup {0} : t \in Int /\ Lowest <= t /\ t <= Highest
<1> DEFINE T == Targets \cup {0}
<1>1. T \subseteq Int /\ T # {}
  BY PipelineAssumption
<1>2. IsFiniteSet(T)
  BY PipelineAssumption, FS_Singleton, FS_Union
<1>3. /\ Lowest \in T /\ \A y \in T : Lowest <= y
      /\ Highest \in T /\ \A y \in T : y <= Highest
  <2> HIDE DEF T
  <2>1. QED
    BY <1>1, <1>2, Extremes DEF Lowest, Highest, T
<1>4. QED
  BY <1>1, <1>3, PipelineAssumption

\* Without maker orders nothing rests and nothing is replaced, so every order is
\* the difference between the target and what is already committed.
TakerInv ==
  /\ Sound /\ resting = {} /\ handler \in {Idle, Fallbacks({})}
  /\ Lowest <= position + InFlightTotal /\ position + InFlightTotal <= Highest


\* Each step keeps what is committed within the span of the targets.
LEMMA TakersKept ==
  ASSUME Instant = {}, Maker = FALSE
  PROVE  PipelineSpec => []TakerInv
<1>1. PipelineInit => TakerInv
  BY SoundStart, Span DEF PipelineInit, TakerInv
<1>2. TakerInv /\ [PipelineNext]_pipelineVars => TakerInv'
  <2> SUFFICES ASSUME TakerInv, [PipelineNext]_pipelineVars
               PROVE  TakerInv'
    OBVIOUS
  <2>0. /\ Sound /\ position \in Int /\ InFlightTotal \in Int /\ Lowest \in Int /\ Highest \in Int
        /\ target \in Targets /\ target \in Int
    BY SoundShares, Span DEF TakerInv, Sound
  <2>1. CASE Begin
    <3>1. /\ UNCHANGED <<machine, venue, transit, side, next, position>> /\ target' \in Targets
          /\ resting' = resting /\ handler' = Fallbacks({})
      BY <2>0, <2>1 DEF Begin, TakerInv
    <3>2. QED
      BY <2>0, <3>1, Untouched DEF TakerInv
  <2>2. ASSUME NEW c \in Order, Replace(c) PROVE FALSE
    BY <2>2 DEF Replace, ReplaceBy, TakerInv, Idle, Fallbacks
  <2>3. CASE Cross
    BY <2>3 DEF Cross, TakerInv, Idle, Fallbacks
  <2>4. CASE Trade
    <3>1. target' = target /\ position' = position /\ handler' = Idle /\ resting' = resting
      BY <2>4 DEF Trade, TradeFor, TakerInv
    <3>2. CASE Refused
      BY <2>0, <3>1, <3>2, Untouched DEF Refused, TakerInv
    <3>3. CASE ~Refused
      <4> DEFINE direction == IF Delta > 0 THEN 1 ELSE -1
                 quantity == IF Delta > 0 THEN Delta ELSE -Delta
      <4>1. Delta # 0 /\ PlaceNext(direction, quantity)
        BY <2>4, <3>3 DEF Trade, TradeFor
      <4>2. /\ Delta = target - position - InFlightTotal /\ Delta \in Int
            /\ quantity \in Int /\ quantity <= Qty /\ direction \in {-1, 0, 1}
        <5>1. Lowest <= target /\ target <= Highest /\ Highest - Lowest <= Qty
          BY <2>0, Span
        <5>2. Delta = target - position - InFlightTotal /\ Delta \in Int
          BY <2>0 DEF Delta
        <5>3. Delta <= Qty /\ -Delta <= Qty
          BY <2>0, <5>1, <5>2, ExecutionAssumption DEF TakerInv
        <5>4. QED
          BY <5>2, <5>3
      <4>3. PICK q \in 0..quantity : InFlightTotal' = InFlightTotal + direction * q
        <5> HIDE DEF direction, quantity
        <5>1. QED
          BY <2>0, <3>1, <4>1, <4>2, Placed
      <4>4. Sound'
        <5> HIDE DEF direction, quantity
        <5>1. QED
          BY <2>0, <3>1, <4>1, <4>2, Placed
      <4>5. /\ Lowest <= position + InFlightTotal'
            /\ position + InFlightTotal' <= Highest
        BY <2>0, <4>2, <4>3, Span DEF TakerInv
      <4>6. QED
        BY <3>1, <4>4, <4>5 DEF TakerInv
    <3>4. QED
      BY <3>2, <3>3
  <2>5. ASSUME NEW c \in Order, NEW q \in 1..Qty, Fill(c, q) PROVE TakerInv'
    <3>1. /\ Sound' /\ handler' = handler /\ position' = position + side[c] * q
          /\ InFlightTotal' = InFlightTotal - side[c] * q /\ resting' = {}
      BY <2>0, <2>5, Filled DEF TakerInv
    <3>2. side[c] * q \in Int
      BY <2>0 DEF Sound
    <3>3. position' + InFlightTotal' = position + InFlightTotal
      BY <2>0, <3>1, <3>2
    <3>4. QED
      BY <3>1, <3>3 DEF TakerInv
  <2>6. CASE Venue
    BY <2>0, <2>6, VenueMoved DEF TakerInv
  <2>7. CASE UNCHANGED pipelineVars
    <3>1. UNCHANGED <<machine, venue, transit, side, next, position>> /\ target' \in Targets
      BY <2>0, <2>7 DEF pipelineVars
    <3>2. QED
      BY <2>0, <2>7, <3>1, Untouched DEF TakerInv, pipelineVars
  <2>8. QED
    BY <2>1, <2>2, <2>3, <2>4, <2>5, <2>6, <2>7 DEF PipelineNext
<1>3. QED
  BY <1>1, <1>2, PTL DEF PipelineSpec

\* For every strategy that only takes, however its target moves, whatever overtakes
\* and whatever times out: what is booked and what is in flight never add up to a
\* position outside the targets it asked for.
THEOREM TakersStayWithinTargets ==
  ASSUME Instant = {}, Maker = FALSE
  PROVE  PipelineSpec => []CommittedWithinTargets
<1>1. TakerInv => CommittedWithinTargets
  BY SoundShares, Span DEF TakerInv, CommittedWithinTargets, Lowest, Highest, Sound
<1>2. QED
  BY <1>1, TakersKept, PTL

-----------------------------------------------------------------------------
(* A strategy that keeps its target                                        *)

\* The one direction its orders can have, and the positions on the way there.
Direction == IF target >= 0 THEN 1 ELSE -1
Within(x) ==
  /\ target >= 0 => 0 <= x /\ x <= target
  /\ target <= 0 => target <= x /\ x <= 0

\* No order sells what another buys.
OneSided == \A c \in Order : side[c] \in {0, Direction}

\* What is booked, what is in flight and the taker about to be placed stay between
\* nothing and the target; the taker is what the cancelled order had left.
TakerPending ==
  handler.at = "taker" =>
    /\ handler.replaced \in Order /\ handler.quantity \in 0..Qty
    /\ handler.quantity <= Remaining(machine[handler.replaced])
    /\ Within(position + InFlightTotal + side[handler.replaced] * handler.quantity)
SteadyInv ==
  /\ Sound /\ OneSided
  /\ Within(position) /\ Within(position + InFlightTotal) /\ TakerPending

\* What is in flight points one way.
LEMMA OneWay ==
  ASSUME Sound, OneSided
  PROVE  /\ target >= 0 => InFlightTotal >= 0
         /\ target < 0 => InFlightTotal <= 0
<1> DEFINE f == [d \in Order |-> side[d] * InFlight(d)]
           z == [d \in Order |-> 0]
<1>1. \A d \in Order : InFlight(d) \in Nat /\ target \in Int
  BY SoundShares, PipelineAssumption DEF Shares, Sound
<1>2. /\ target >= 0 => \A d \in Order : f[d] \in Int /\ z[d] \in Int /\ z[d] <= f[d]
      /\ target < 0 => \A d \in Order : f[d] \in Int /\ z[d] \in Int /\ f[d] <= z[d]
  BY <1>1 DEF OneSided, Direction
<1>3. \A d \in Order : z[d] = 0
  OBVIOUS
<1>4. InFlightTotal = SumFunctionOnSet(f, Order)
  BY DEF InFlightTotal, Sum
<1> HIDE DEF f, z
<1>5. SumFunctionOnSet(z, Order) = 0
  BY <1>3, Ids, SumZero
<1>6. target >= 0 => SumFunctionOnSet(z, Order) <= SumFunctionOnSet(f, Order)
  BY <1>2, Ids, SumMonotonic DEF Numbers
<1>7. target < 0 => SumFunctionOnSet(f, Order) <= SumFunctionOnSet(z, Order)
  BY <1>2, Ids, SumMonotonic DEF Numbers
<1>8. QED
  BY <1>4, <1>5, <1>6, <1>7, SoundShares

\* The same as a formula, of this state and the next.
OneWayHolds ==
  /\ target >= 0 => InFlightTotal >= 0
  /\ target < 0 => InFlightTotal <= 0

\* It holds of the next state when its premises do.
LEMMA OneWayNext == Sound' /\ OneSided' => OneWayHolds'
<1>1. Sound /\ OneSided => OneWayHolds
  BY OneWay DEF OneWayHolds
<1>2. QED
  BY <1>1, PTL

\* What could still trade is part of what is in flight.
LEMMA Reached ==
  ASSUME Sound, OneSided, target \in Int
  PROVE  /\ target >= 0 => Reach(1) <= InFlightTotal /\ Reach(-1) = 0
         /\ target < 0 => Reach(1) = 0 /\ InFlightTotal + Reach(-1) <= 0
         /\ Reach(-1) \in Int /\ Reach(1) \in Int
<1> DEFINE f == [d \in Order |-> side[d] * InFlight(d)]
           up == [d \in Order |-> IF side[d] = 1 THEN Working(d) ELSE 0]
           down == [d \in Order |-> IF side[d] = -1 THEN Working(d) ELSE 0]
           both == [d \in Order |-> f[d] + down[d]]
           z == [d \in Order |-> 0]
<1>1. \A d \in Order : /\ InFlight(d) \in Nat /\ Working(d) \in Nat /\ Working(d) <= InFlight(d)
                      /\ side[d] \in {-1, 0, 1}
  BY Covered DEF Sound
<1>2. /\ \A d \in Order : f[d] = side[d] * InFlight(d)
      /\ \A d \in Order : up[d] = IF side[d] = 1 THEN Working(d) ELSE 0
      /\ \A d \in Order : down[d] = IF side[d] = -1 THEN Working(d) ELSE 0
      /\ \A d \in Order : z[d] = 0
  OBVIOUS
<1> HIDE DEF f, up, down, z
<1>3. \A d \in Order : both[d] = f[d] + down[d]
  OBVIOUS
<1> HIDE DEF both
<1>4. \A d \in Order : /\ f[d] \in Int /\ up[d] \in Int /\ down[d] \in Int
                      /\ both[d] \in Int /\ both[d] = f[d] + down[d] /\ z[d] = 0
  <2> SUFFICES ASSUME NEW d \in Order
               PROVE  /\ f[d] \in Int /\ up[d] \in Int /\ down[d] \in Int
                      /\ both[d] \in Int /\ both[d] = f[d] + down[d] /\ z[d] = 0
    OBVIOUS
  <2>1. /\ InFlight(d) \in Int /\ Working(d) \in Int /\ side[d] \in {-1, 0, 1}
    BY <1>1
  <2>2. f[d] \in Int /\ up[d] \in Int /\ down[d] \in Int
    BY <1>2, <2>1
  <2>3. QED
    BY <1>2, <1>3, <2>2
<1>5. target >= 0 => \A d \in Order : up[d] <= f[d] /\ down[d] = 0
  <2> SUFFICES ASSUME target >= 0, NEW d \in Order PROVE up[d] <= f[d] /\ down[d] = 0
    OBVIOUS
  <2>1. side[d] \in {0, 1}
    BY DEF OneSided, Direction
  <2>2. QED
    BY <1>1, <1>2, <2>1
<1>6. target < 0 => \A d \in Order : up[d] = 0 /\ both[d] <= z[d]
  <2> SUFFICES ASSUME target < 0, NEW d \in Order PROVE up[d] = 0 /\ both[d] <= z[d]
    OBVIOUS
  <2>1. side[d] \in {0, -1}
    BY DEF OneSided, Direction
  <2>2. up[d] = 0 /\ f[d] + down[d] <= 0
    BY <1>1, <1>2, <2>1
  <2>3. QED
    BY <1>2, <1>3, <2>2
<1>7. /\ InFlightTotal = SumFunctionOnSet(f, Order)
      /\ Reach(1) = SumFunctionOnSet(up, Order)
      /\ Reach(-1) = SumFunctionOnSet(down, Order)
  BY DEF InFlightTotal, Sum, Reach, f, up, down
<1>8. SumFunctionOnSet(both, Order) = SumFunctionOnSet(f, Order) + SumFunctionOnSet(down, Order)
  BY <1>4, Ids, SumAdds DEF Numbers
<1>9. SumFunctionOnSet(z, Order) = 0
  BY <1>4, Ids, SumZero
<1>10. CASE target >= 0
  <2>1. SumFunctionOnSet(up, Order) <= SumFunctionOnSet(f, Order)
    BY <1>4, <1>5, <1>10, Ids, SumMonotonic DEF Numbers
  <2>2. SumFunctionOnSet(down, Order) = 0
    BY <1>5, <1>10, Ids, SumZero
  <2>3. SumFunctionOnSet(up, Order) \in Int
    BY <1>4, Ids, SumInteger DEF Numbers
  <2>4. QED
    BY <1>7, <1>10, <2>1, <2>2, <2>3
<1>11. CASE target < 0
  <2>1. SumFunctionOnSet(both, Order) <= SumFunctionOnSet(z, Order)
    <3>1. Numbers(both, Order) /\ Numbers(z, Order) /\ \A d \in Order : both[d] <= z[d]
      BY <1>4, <1>6, <1>11 DEF Numbers
    <3>2. QED
      BY <3>1, Ids, SumMonotonic
  <2>2. SumFunctionOnSet(up, Order) = 0
    BY <1>6, <1>11, Ids, SumZero
  <2>3. SumFunctionOnSet(down, Order) \in Int
    BY <1>4, Ids, SumInteger DEF Numbers
  <2>4. QED
    BY <1>7, <1>8, <1>9, <1>11, <2>1, <2>2, <2>3
<1>12. QED
  BY <1>10, <1>11

\* Each step keeps the account between nothing and the target.
LEMMA SteadyKept ==
  ASSUME Instant = {}, Overtakes = {}, Steady
  PROVE  PipelineSpec => []SteadyInv
<1>1. PipelineInit => SteadyInv
  <2> SUFFICES ASSUME PipelineInit PROVE SteadyInv
    OBVIOUS
  <2>1. Sound /\ position + InFlightTotal = 0 /\ position = 0 /\ target \in Int
    BY SoundStart, PipelineAssumption DEF PipelineInit
  <2>2. OneSided /\ TakerPending
    BY DEF PipelineInit, OneSided, TakerPending, Idle
  <2>3. Within(0)
    BY <2>1 DEF Within
  <2>4. QED
    BY <2>1, <2>2, <2>3 DEF SteadyInv
<1>2. SteadyInv /\ [PipelineNext]_pipelineVars => SteadyInv'
  <2> SUFFICES ASSUME SteadyInv, [PipelineNext]_pipelineVars
               PROVE  SteadyInv'
    OBVIOUS
  <2>0. /\ Sound /\ OneSided /\ Within(position) /\ Within(position + InFlightTotal)
        /\ TakerPending /\ target \in Targets /\ target \in Int
        /\ position \in Int /\ InFlightTotal \in Int
        /\ \A c \in Order : side[c] \in {-1, 0, 1}
    BY SoundShares, PipelineAssumption DEF SteadyInv, Sound
  <2>1. ASSUME UNCHANGED <<machine, venue, transit, side, next, position, target>>,
               handler'.at # "taker"
        PROVE  SteadyInv'
    <3>1. Sound' /\ InFlightTotal' = InFlightTotal
      BY <2>0, <2>1, Untouched
    <3>2. QED
      BY <2>0, <2>1, <3>1 DEF SteadyInv, OneSided, Direction, Within, TakerPending
  <2>2. ASSUME NEW direction \in {-1, 0, 1}, NEW quantity \in Int, quantity <= Qty,
               PlaceNext(direction, quantity), direction \in {0, Direction},
               Within(position + InFlightTotal + direction * quantity),
               position' = position, target' = target, handler'.at # "taker"
        PROVE  SteadyInv'
    <3>1. PICK q \in 0..quantity : InFlightTotal' = InFlightTotal + direction * q
      BY <2>0, <2>2, Placed
    <3>2. Sound' /\ \A c \in Order : side'[c] \in {side[c], direction}
      BY <2>0, <2>2, Placed
    <3>3. OneSided'
      BY <2>0, <2>2, <3>2 DEF OneSided, Direction
    <3>4. Within(position + InFlightTotal')
      <4>1. direction = 0 \/ direction = 1 \/ direction = -1
        OBVIOUS
      <4>2. QED
        BY <2>0, <2>2, <3>1, <4>1 DEF Within
    <3>5. QED
      BY <2>0, <2>2, <3>2, <3>3, <3>4 DEF SteadyInv, Within, TakerPending
  <2>3. CASE Begin
    <3>1. handler'.at # "taker" /\ target' = target
      BY <2>3 DEF Begin, Fallbacks
    <3>2. QED
      BY <2>1, <2>3, <3>1 DEF Begin
  <2>4. ASSUME NEW c \in Order, Replace(c) PROVE SteadyInv'
    <3> DEFINE left == Remaining(machine[c])
    <3>0. UNCHANGED <<target, position, side, next>> /\ handler.at = "fallbacks"
      BY <2>4 DEF Replace, ReplaceBy
    <3>1. CASE IsTerminal(machine[c]) \/ Remaining(machine[c]) <= 0
      <4>1. UNCHANGED <<machine, venue, transit>> /\ handler' = Fallbacks(handler.due \ {c})
        BY <2>4, <3>1 DEF Replace, ReplaceBy
      <4>2. handler'.at # "taker"
        BY <4>1 DEF Fallbacks
      <4>3. QED
        BY <2>1, <3>0, <4>1, <4>2
    <3>2. CASE ~(IsTerminal(machine[c]) \/ Remaining(machine[c]) <= 0)
      <4>1. /\ Cancel(c)
            /\ handler' = IF IsTerminal(machine'[c])
                            THEN Taker(handler.due \ {c}, c, left)
                            ELSE Fallbacks(handler.due \ {c})
        BY <2>4, <3>2 DEF Replace, ReplaceBy
      <4>2. transit[c] = 0
        BY <4>1 DEF Cancel, InOrder
      <4>3. /\ Sound' /\ Remaining(machine'[c]) = left
            /\ InFlightTotal' = IF IsTerminal(machine'[c])
                                  THEN InFlightTotal - side[c] * left
                                  ELSE InFlightTotal
        BY <2>0, <3>0, <4>1, <4>2, Withdrawn
      <4>4. left \in 0..Qty /\ InFlight(c) = left
        <5>1. machine[c].status # "NONE" /\ InFlight(c) \in 0..Qty
          BY <2>0, <4>1, SoundShares DEF Cancel, Shares
        <5>2. InFlight(c) = left
          BY <3>2, <5>1 DEF InFlight
        <5>3. QED
          BY <5>1, <5>2
      <4> HIDE DEF left
      <4>5. OneSided' /\ target' = target /\ position' = position /\ side' = side
        BY <2>0, <3>0 DEF OneSided, Direction
      <4>6. CASE ~IsTerminal(machine'[c])
        <5>1. handler'.at # "taker"
          BY <4>1, <4>6 DEF Fallbacks
        <5>2. QED
          BY <2>0, <4>3, <4>5, <4>6, <5>1 DEF SteadyInv, Within, TakerPending
      <4>7. CASE IsTerminal(machine'[c])
        <5>1. /\ handler'.at = "taker" /\ handler'.replaced = c /\ handler'.quantity = left
          BY <4>1, <4>7 DEF Taker
        <5>2. InFlightTotal' = InFlightTotal - side[c] * left /\ side[c] \in {0, Direction}
          BY <2>0, <4>3, <4>7 DEF OneSided
        <5>3. position + InFlightTotal' + side[c] * left = position + InFlightTotal
          BY <2>0, <4>4, <5>2
        <5>4. Within(position + InFlightTotal')
          <6>1. (target >= 0 => InFlightTotal' >= 0) /\ (target < 0 => InFlightTotal' <= 0)
            <7>1. OneWayHolds'
              BY <4>3, <4>5, OneWayNext
            <7>2. QED
              BY <4>5, <7>1 DEF OneWayHolds
          <6>2. CASE target >= 0
            <7>1. side[c] \in {0, 1}
              BY <5>2, <6>2 DEF Direction
            <7>2. QED
              BY <2>0, <4>4, <5>2, <6>1, <6>2, <7>1 DEF Within
          <6>3. CASE target < 0
            <7>1. side[c] \in {0, -1}
              BY <2>0, <5>2, <6>3 DEF Direction
            <7>2. QED
              BY <2>0, <4>4, <5>2, <6>1, <6>3, <7>1 DEF Within
          <6>4. QED
            BY <2>0, <6>2, <6>3
        <5>5. TakerPending'
          BY <2>0, <4>3, <4>4, <4>5, <5>1, <5>3 DEF TakerPending, Within
        <5>6. QED
          BY <2>0, <4>3, <4>5, <5>4, <5>5 DEF SteadyInv, Within
      <4>8. QED
        BY <4>6, <4>7
    <3>3. QED
      BY <3>1, <3>2
  <2>5. CASE Cross
    <3>1. /\ handler.at = "taker" /\ handler'.at # "taker" /\ target' = target
          /\ position' = position
      BY <2>5 DEF Cross, Fallbacks
    <3>2. /\ handler.replaced \in Order /\ handler.quantity \in 0..Qty
          /\ Within(position + InFlightTotal + side[handler.replaced] * handler.quantity)
      BY <2>0, <3>1 DEF TakerPending
    <3>3. CASE Refused
      BY <2>1, <3>1, <3>3 DEF Refused
    <3>4. CASE PlaceNext(side[handler.replaced], handler.quantity)
      <4>1. /\ side[handler.replaced] \in {-1, 0, 1}
            /\ side[handler.replaced] \in {0, Direction}
            /\ handler.quantity \in Int /\ handler.quantity <= Qty
        BY <2>0, <3>2, ExecutionAssumption DEF OneSided
      <4>2. PICK direction \in {-1, 0, 1}, quantity \in Int :
              direction = side[handler.replaced] /\ quantity = handler.quantity
        BY <4>1
      <4>3. PlaceNext(direction, quantity)
        BY <3>4, <4>2 DEF PlaceNext
      <4>4. QED
        BY <2>2, <3>1, <3>2, <4>1, <4>2, <4>3
    <3>5. QED
      BY <2>5, <3>3, <3>4 DEF Cross
  <2>6. CASE Trade
    <3>1. target' = target /\ position' = position /\ handler'.at # "taker"
      BY <2>6 DEF Trade, TradeFor, Idle
    <3>2. CASE Refused
      BY <2>1, <3>1, <3>2 DEF Refused
    <3>3. CASE ~Refused
      <4>1. PICK direction \in {-1, 1}, quantity \in Int :
              /\ Delta # 0 /\ PlaceNext(direction, quantity)
              /\ direction = IF Delta > 0 THEN 1 ELSE -1
              /\ quantity = IF Delta > 0 THEN Delta ELSE -Delta
        BY <2>0, <2>6, <3>3 DEF Trade, TradeFor, Delta
      <4>2. Delta = target - position - InFlightTotal /\ Delta \in Int
        BY <2>0 DEF Delta
      <4>3. direction * quantity = Delta
        BY <4>1, <4>2
      <4>4. position + InFlightTotal + direction * quantity = target
        BY <2>0, <4>2, <4>3
      <4>5. Within(target)
        BY <2>0 DEF Within
      <4>6. direction = Direction
        BY <2>0, <4>1, <4>2 DEF Within, Direction
      <4>7. quantity <= Qty
        <5>1. target - 0 <= Qty /\ 0 - target <= Qty
          BY <2>0, PipelineAssumption
        <5>2. QED
          BY <2>0, <4>1, <4>2, <5>1, ExecutionAssumption DEF Within
      <4>8. QED
        BY <2>2, <3>1, <4>1, <4>4, <4>5, <4>6, <4>7
    <3>4. QED
      BY <3>2, <3>3
  <2>7. ASSUME NEW c \in Order, NEW q \in 1..Qty, Fill(c, q) PROVE SteadyInv'
    <3>1. /\ Sound' /\ handler' = Idle /\ position' = position + side[c] * q
          /\ InFlightTotal' = InFlightTotal - side[c] * q
          /\ side' = side /\ target' = target
      BY <2>0, <2>7, Filled
    <3>2. OneSided' /\ TakerPending'
      BY <2>0, <3>1 DEF OneSided, Direction, TakerPending, Idle
    <3>3. side[c] \in {0, Direction} /\ side[c] \in {-1, 0, 1}
      BY <2>0 DEF OneSided
    <3>4. position' + InFlightTotal' = position + InFlightTotal /\ position' \in Int
      BY <2>0, <3>1, <3>3
    <3>5. /\ target >= 0 => InFlightTotal' >= 0 /\ InFlightTotal' \in Int
          /\ target < 0 => InFlightTotal' <= 0
      <4>1. OneWayHolds'
        BY <3>1, <3>2, OneWayNext
      <4>2. QED
        BY <2>0, <3>1, <3>3, <4>1 DEF OneWayHolds
    <3>6. Within(position')
      <4>1. CASE target >= 0
        <5>1. side[c] \in {0, 1}
          BY <3>3, <4>1 DEF Direction
        <5>2. QED
          BY <2>0, <3>1, <3>4, <3>5, <4>1, <5>1 DEF Within
      <4>2. CASE target < 0
        <5>1. side[c] \in {0, -1}
          BY <2>0, <3>3, <4>2 DEF Direction
        <5>2. InFlightTotal' \in Int
          BY <2>0, <3>1, <5>1
        <5>3. QED
          BY <2>0, <3>1, <3>4, <3>5, <4>2, <5>1, <5>2 DEF Within
      <4>3. QED
        BY <2>0, <4>1, <4>2
    <3>7. QED
      BY <2>0, <3>1, <3>2, <3>4, <3>6 DEF SteadyInv, Within
  <2>8. CASE Venue
    <3>1. /\ Sound' /\ handler = Idle /\ handler' = handler /\ side' = side /\ target' = target
          /\ position' = position /\ InFlightTotal' = InFlightTotal
      BY <2>0, <2>8, VenueMoved
    <3>2. QED
      BY <2>0, <3>1 DEF SteadyInv, OneSided, Direction, Within, TakerPending, Idle
  <2>9. CASE UNCHANGED pipelineVars
    <3>1. /\ UNCHANGED <<machine, venue, transit, side, next, position, target, handler>>
      BY <2>9 DEF pipelineVars
    <3>2. Sound' /\ InFlightTotal' = InFlightTotal
      BY <2>0, <3>1, Untouched
    <3>3. QED
      BY <2>0, <3>1, <3>2 DEF SteadyInv, OneSided, Direction, Within, TakerPending
  <2>10. QED
    BY <2>3, <2>4, <2>5, <2>6, <2>7, <2>8, <2>9 DEF PipelineNext
<1>3. QED
  BY <1>1, <1>2, PTL DEF PipelineSpec

\* For every strategy that keeps its target, on paper and in a backtest, with maker
\* orders or without: whatever fills, expires, is refused or times out, it never
\* gets more than it asked for, the taker never asks for more than the order it
\* replaces had left, and what is committed stays between nothing and the target.
THEOREM SteadyNeverOvershoots ==
  ASSUME Instant = {}, Overtakes = {}, Steady
  PROVE  PipelineSpec => [](NoOvershoot /\ TakerFits /\ CommittedWithinTargets)
<1>1. SteadyInv => NoOvershoot /\ TakerFits /\ CommittedWithinTargets
  <2> SUFFICES ASSUME SteadyInv PROVE NoOvershoot /\ TakerFits /\ CommittedWithinTargets
    OBVIOUS
  <2>1. /\ Sound /\ OneSided /\ Within(position) /\ Within(position + InFlightTotal)
        /\ target \in Targets /\ target \in Int
        /\ position \in Int /\ InFlightTotal \in Int
    BY SoundShares, PipelineAssumption DEF SteadyInv, Sound
  <2>2. Max({0, target}) = IF target >= 0 THEN target ELSE 0
    BY <2>1 DEF Max
  <2>3. Min({0, target}) = IF target >= 0 THEN 0 ELSE target
    BY <2>1 DEF Min
  <2>4. NoOvershoot
    BY <2>1, <2>2, <2>3, Reached DEF NoOvershoot, Within
  <2>5. TakerFits
    BY DEF SteadyInv, TakerPending, TakerFits
  <2>6. CommittedWithinTargets
    <3>1. Lowest <= 0 /\ 0 <= Highest /\ Lowest <= target /\ target <= Highest
          /\ Lowest \in Int /\ Highest \in Int
      BY <2>1, Span
    <3>2. Lowest <= position + InFlightTotal /\ position + InFlightTotal <= Highest
      BY <2>1, <3>1 DEF Within
    <3>3. QED
      BY <2>1, <3>1, <3>2 DEF CommittedWithinTargets, Lowest, Highest
  <2>7. QED
    BY <2>4, <2>5, <2>6
<1>2. QED
  BY <1>1, SteadyKept, PTL

-----------------------------------------------------------------------------
(* What the pipeline asks of the executor                                  *)

\* No order it is about to ask for is larger than an order can be.
AsksFit ==
  /\ Delta \in Int /\ Delta <= Qty /\ -Delta <= Qty
  /\ handler.at = "taker" => handler.quantity \in Int /\ handler.quantity <= Qty

\* A placement is the executor's submission of the next id.
LEMMA PlacesOne ==
  ASSUME NEW direction, NEW quantity \in Int, quantity <= Qty, PlaceNext(direction, quantity)
  PROVE  Next
<1>1. PICK q \in 1..quantity : next \in Order /\ Submit(next, q)
  BY DEF PlaceNext
<1>2. q \in 1..Qty
  BY <1>1, ExecutionAssumption
<1>3. QED
  BY <1>1, <1>2 DEF Next

\* Whatever an event, a fill or the venue does is one operation of the executor, or
\* none.
LEMMA PipelineDrives == AsksFit /\ [PipelineNext]_pipelineVars => [Next]_vars
<1> SUFFICES ASSUME AsksFit, [PipelineNext]_pipelineVars PROVE [Next]_vars
  OBVIOUS
<1>1. CASE Begin
  BY <1>1 DEF Begin, vars
<1>2. ASSUME NEW c \in Order, Replace(c) PROVE [Next]_vars
  <2>1. Cancel(c) \/ UNCHANGED <<machine, venue, transit>>
    BY <1>2 DEF Replace, ReplaceBy
  <2>2. QED
    BY <2>1 DEF Next, vars
<1>3. CASE Cross
  <2>1. CASE Refused
    BY <2>1 DEF Refused, vars
  <2>2. CASE PlaceNext(side[handler.replaced], handler.quantity)
    <3>1. PICK direction : direction = side[handler.replaced]
      OBVIOUS
    <3>2. PICK quantity \in Int : quantity = handler.quantity /\ quantity <= Qty
      BY <1>3 DEF Cross, AsksFit
    <3>3. PlaceNext(direction, quantity)
      BY <2>2, <3>1, <3>2
    <3>4. QED
      BY <3>2, <3>3, PlacesOne
  <2>3. QED
    BY <1>3, <2>1, <2>2 DEF Cross
<1>4. CASE Trade
  <2>1. CASE Refused
    BY <2>1 DEF Refused, vars
  <2>2. CASE ~Refused
    <3>1. PICK direction \in {-1, 1}, quantity \in Int :
            /\ PlaceNext(direction, quantity)
            /\ quantity = IF Delta > 0 THEN Delta ELSE -Delta
      BY <1>4, <2>2 DEF Trade, TradeFor, AsksFit
    <3>2. quantity <= Qty
      BY <3>1 DEF AsksFit
    <3>3. QED
      BY <3>1, <3>2, PlacesOne
  <2>3. QED
    BY <2>1, <2>2
<1>5. ASSUME NEW c \in Order, NEW q \in 1..Qty, Fill(c, q) PROVE [Next]_vars
  BY <1>5 DEF Fill, Next
<1>6. CASE Venue
  <2>1. PICK c \in Order : VenueExpire(c) \/ \E q \in 1..Qty : VenueFill(c, q)
    BY <1>6 DEF Venue
  <2>2. QED
    BY <2>1 DEF Next
<1>7. CASE UNCHANGED pipelineVars
  BY <1>7 DEF pipelineVars, vars
<1>8. QED
  BY <1>1, <1>2, <1>3, <1>4, <1>5, <1>6, <1>7 DEF PipelineNext

\* The pipeline drives the executor by its own operations only, whether its strategy
\* takes, on any venue, or keeps its target, on paper and in a backtest: all that is
\* proved of single orders holds of the orders an event places, replaces and crosses.
THEOREM PipelineExecutes ==
  ASSUME Instant = {}, Maker = FALSE \/ (Steady /\ Overtakes = {})
  PROVE  PipelineSpec => Spec
<1>1. PipelineInit => Init
  BY DEF PipelineInit
<1>2. CASE Maker = FALSE
  <2>1. TakerInv => AsksFit
    <3> SUFFICES ASSUME TakerInv PROVE AsksFit
      OBVIOUS
    <3>1. /\ position \in Int /\ InFlightTotal \in Int /\ target \in Int
          /\ Lowest \in Int /\ Highest \in Int /\ Highest - Lowest <= Qty
          /\ Lowest <= target /\ target <= Highest
      BY SoundShares, Span DEF TakerInv, Sound
    <3>2. Delta \in Int /\ Delta <= Qty /\ -Delta <= Qty
      BY <3>1, ExecutionAssumption DEF TakerInv, Delta
    <3>3. handler.at # "taker"
      BY DEF TakerInv, Idle, Fallbacks
    <3>4. QED
      BY <3>2, <3>3 DEF AsksFit
  <2>2. QED
    BY <1>1, <1>2, <2>1, TakersKept, PipelineDrives, PTL DEF PipelineSpec, Spec
<1>3. CASE Steady /\ Overtakes = {}
  <2>1. SteadyInv => AsksFit
    <3> SUFFICES ASSUME SteadyInv PROVE AsksFit
      OBVIOUS
    <3>1. /\ position \in Int /\ InFlightTotal \in Int /\ target \in Int
          /\ target - 0 <= Qty /\ 0 - target <= Qty
          /\ Within(position + InFlightTotal)
      BY SoundShares, PipelineAssumption DEF SteadyInv, Sound
    <3>2. Delta \in Int /\ Delta <= Qty /\ -Delta <= Qty
      BY <3>1, ExecutionAssumption DEF Within, Delta
    <3>3. handler.at = "taker" => handler.quantity \in Int /\ handler.quantity <= Qty
      BY ExecutionAssumption DEF SteadyInv, TakerPending
    <3>4. QED
      BY <3>2, <3>3 DEF AsksFit
  <2>2. QED
    BY <1>1, <1>3, <2>1, SteadyKept, PipelineDrives, PTL DEF PipelineSpec, Spec
<1>4. QED
  BY <1>2, <1>3
=============================================================================
