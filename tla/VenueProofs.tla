----------------------------- MODULE VenueProofs -----------------------------
(***************************************************************************)
(* The venue's side of an order, for every venue, order and clock: what is  *)
(* made of the venue's errors, when the simulated venue fills, and what the *)
(* account's stream loses.                                                 *)
(***************************************************************************)
EXTENDS VenueErrors, Matching, UserStream, FiniteProofs

-----------------------------------------------------------------------------
(* The venue's answers (VenueErrors).                                      *)

\* A code of Binance comes with status 400, one of Bybit with 200, and each is looked
\* up in its table.
LEMMA BinanceCode ==
  ASSUME NEW method, NEW c
  PROVE  Outcome("binance", method, Reply(400, c)) = BinanceClass(c)
<1> DEFINE a == Reply(400, c)
<1>1. a # Lost /\ a.status = 400 /\ a.code = c
  BY DEF Reply, Lost
<1> HIDE DEF a
<1>2. ~Succeeds("binance", a)
  BY <1>1 DEF Succeeds, BinanceSucceeds
<1>3. Outcome("binance", method, a) = ErrorOf("binance", a.status, a.code)
  BY <1>1, <1>2, Zenon DEF Outcome
<1>4. ErrorOf("binance", 400, c) = BinanceClass(c)
  BY SMT DEF ErrorOf, Banned
<1>5. QED
  BY <1>1, <1>3, <1>4 DEF a

\* The same of Bybit, whose errors come with status 200.
LEMMA BybitCode ==
  ASSUME NEW method, NEW c, c # 0
  PROVE  Outcome("bybit", method, Reply(200, c)) = BybitClass(c)
<1> DEFINE a == Reply(200, c)
<1>1. a # Lost /\ a.status = 200 /\ a.code = c
  BY DEF Reply, Lost
<1> HIDE DEF a
<1>2. ~Succeeds("bybit", a)
  BY <1>1 DEF Succeeds, BybitSucceeds
<1>3. Outcome("bybit", method, a) = ErrorOf("bybit", a.status, a.code)
  BY <1>1, <1>2, Zenon DEF Outcome
<1>4. ErrorOf("bybit", 200, c) = BybitClass(c)
  BY SMT DEF ErrorOf, Banned
<1>5. QED
  BY <1>1, <1>3, <1>4 DEF a

\* A status alone: success, or a class of its own.
LEMMA Statuses ==
  ASSUME NEW venue \in {"binance", "bybit"}, NEW method
  PROVE  /\ Outcome(venue, method, Reply(200, 0)) = "done"
         /\ Outcome(venue, method, Reply(429, 0)) = "RateLimited"
         /\ Outcome(venue, method, Reply(503, 0)) = "VenueDown"
         /\ Outcome(venue, method, Reply(Banned(venue), 0)) = "IpBanned"
         /\ Outcome(venue, method, Lost) \in {"VenueDown", "UnknownState"}
         /\ method # "GET" => Outcome(venue, method, Lost) = "UnknownState"
<1>1. ASSUME NEW n \in {200, 429, 503, Banned(venue)}
      PROVE  /\ n = 200 => Outcome(venue, method, Reply(n, 0)) = "done"
             /\ n # 200 => Outcome(venue, method, Reply(n, 0)) = ErrorOf(venue, n, 0)
  <2> DEFINE a == Reply(n, 0)
  <2>1. a # Lost /\ a.status = n /\ a.code = 0
    BY <1>1 DEF Reply, Lost, Banned
  <2> HIDE DEF a
  <2>2. Succeeds(venue, a) <=> n = 200
    BY <2>1 DEF Succeeds, BinanceSucceeds, BybitSucceeds
  <2>3. CASE n = 200
    <3>1. Outcome(venue, method, a) = "done"
      BY <2>1, <2>2, <2>3, Zenon DEF Outcome
    <3>2. QED
      BY <2>3, <3>1 DEF a
  <2>4. CASE n # 200
    <3>1. ~Succeeds(venue, a)
      BY <2>2, <2>4
    <3>2. Outcome(venue, method, a) = ErrorOf(venue, a.status, a.code)
      BY <2>1, <3>1, Zenon DEF Outcome
    <3>3. QED
      BY <2>1, <2>4, <3>2 DEF a
  <2>5. QED
    BY <2>3, <2>4
<1>2. /\ ErrorOf(venue, 429, 0) = "RateLimited" /\ ErrorOf(venue, 503, 0) = "VenueDown"
      /\ ErrorOf(venue, Banned(venue), 0) = "IpBanned" /\ Banned(venue) # 200
  BY SMT DEF ErrorOf, Banned
<1>3. Outcome(venue, method, Lost) = IF method = "GET" THEN "VenueDown" ELSE "UnknownState"
  BY Zenon DEF Outcome
<1>4. QED
  BY <1>1, <1>2, <1>3

\* A venue that acted says so or leaves it open; what one says that did not act is no
\* success, nor that there is no such order.
Denials == {"UnknownState", "VenueDown", "VenueError", "RateLimited", "IpBanned", "AuthFailed",
            "FilterViolation", "InsufficientBalance"}

\* So classified, an error of either adapter says of the venue no more than is true.
LEMMA OutcomeTruth ==
  ASSUME NEW venue \in {"binance", "bybit"}, NEW method \in {"POST", "DELETE"}
  PROVE  /\ \A a \in Acted(venue) :
              Outcome(venue, method, a) \in {"done", "UnknownState", "VenueDown", "VenueError"}
         /\ \A a \in NotActed(venue) : Outcome(venue, method, a) \in Denials
<1>1. ASSUME venue = "binance"
      PROVE  /\ Coded(venue, {-1006, -1007}) = {Reply(400, -1006), Reply(400, -1007)}
             /\ \A a \in Coded(venue, Codes(venue)) : \E c \in Codes(venue) : a = Reply(400, c)
  BY <1>1 DEF Coded
<1>2. ASSUME venue = "bybit"
      PROVE  /\ Coded(venue, {10016, 10000}) = {Reply(200, 10016), Reply(200, 10000)}
             /\ \A a \in Coded(venue, Codes(venue)) : \E c \in Codes(venue) : a = Reply(200, c)
  BY <1>2 DEF Coded
<1>3. ASSUME NEW a \in Unsure(venue)
      PROVE  Outcome(venue, method, a) \in {"UnknownState", "VenueDown", "VenueError"}
  <2>1. CASE a = Lost \/ a = Reply(503, 0)
    BY <2>1, Statuses
  <2>2. ASSUME venue = "binance", a = Reply(400, -1006) \/ a = Reply(400, -1007)
        PROVE  Outcome(venue, method, a) \in {"UnknownState", "VenueDown", "VenueError"}
    <3>1. BinanceClass(-1006) = "VenueError" /\ BinanceClass(-1007) = "UnknownState"
      BY SMT DEF BinanceClass
    <3>2. QED
      BY <2>2, <3>1, BinanceCode
  <2>3. ASSUME venue = "bybit", a = Reply(200, 10016) \/ a = Reply(200, 10000)
        PROVE  Outcome(venue, method, a) \in {"UnknownState", "VenueDown", "VenueError"}
    <3>1. BybitClass(10016) = "VenueDown" /\ BybitClass(10000) = "VenueError"
      BY SMT DEF BybitClass
    <3>2. QED
      BY <2>3, <3>1, BybitCode
  <2>4. QED
    BY <1>1, <1>2, <1>3, <2>1, <2>2, <2>3 DEF Unsure
<1>4. ASSUME NEW a \in Coded(venue, Codes(venue))
      PROVE  Outcome(venue, method, a) \in Denials
  <2>1. CASE venue = "binance"
    <3>1. PICK c \in Codes("binance") : a = Reply(400, c)
      BY <1>1, <1>4, <2>1
    <3>2. BinanceClass(c) \in Denials
      BY SMT DEF BinanceClass, Denials, Codes
    <3>3. QED
      BY <2>1, <3>1, <3>2, BinanceCode
  <2>2. CASE venue = "bybit"
    <3>1. PICK c \in Codes("bybit") : a = Reply(200, c)
      BY <1>2, <1>4, <2>2
    <3>2. BybitClass(c) \in Denials /\ c # 0
      BY SMT DEF BybitClass, Denials, Codes
    <3>3. QED
      BY <2>2, <3>1, <3>2, BybitCode
  <2>3. QED
    BY <2>1, <2>2
<1>5. QED
  BY <1>3, <1>4, Statuses DEF Acted, NotActed, Denials

\* Where the executor puts an order on the answer: never into a state that is over,
\* once the venue may have acted.
LEMMA Landings ==
  ASSUME NEW outcome
  PROVE  /\ Lands(outcome) \in {"ACKED", "QUERY", "REJECTED"}
         /\ outcome \in {"done", "UnknownState", "VenueDown", "VenueError"} =>
              Lands(outcome) \in {"ACKED", "QUERY"}
<1>1. CASE outcome = "done"
  BY <1>1 DEF Lands
<1>2. CASE outcome \in {"FilterViolation", "InsufficientBalance", "OrderNotFound", "RateLimited"}
  BY <1>2 DEF Lands
<1>3. ASSUME outcome # "done",
             outcome \notin {"FilterViolation", "InsufficientBalance", "OrderNotFound", "RateLimited"}
      PROVE  Lands(outcome) = "QUERY"
  BY <1>3, Zenon DEF Lands
<1>4. QED
  BY <1>1, <1>2, <1>3

\* What is found of an order is never over while the order works, whatever the venue's
\* list has forgotten, and FILLED only if it is filled.
LEMMA Finds ==
  ASSUME truth \in Living \cup Finished \cup {"absent"}, NEW known \in BOOLEAN, NEW forgets \in BOOLEAN
  PROVE  /\ Found(known, forgets) \in {"QUERY", "ACKED", "PARTIAL", "FILLED", "CANCELLED", "REJECTED"}
         /\ truth \in Living => Found(known, forgets) \notin BeliefOver
         /\ Found(known, forgets) = "FILLED" => truth = "filled"
<1>1. CASE truth = "absent" \/ (forgets /\ adapter = "bybit" /\ truth \in Finished)
  BY <1>1 DEF Found, Living, Finished
<1>2. CASE ~(truth = "absent" \/ (forgets /\ adapter = "bybit" /\ truth \in Finished))
  <2>1. Found(known, forgets) = Word(known)
    BY <1>2 DEF Found
  <2>2. ASSUME ~known PROVE Word(known) = "QUERY"
    BY <2>2, Zenon DEF Word
  <2>3. ASSUME known, truth = "working" PROVE Word(known) = "ACKED"
    BY <2>3 DEF Word
  <2>4. ASSUME known, truth = "part filled" PROVE Word(known) = "PARTIAL"
    BY <2>4 DEF Word
  <2>5. ASSUME known, truth = "filled" PROVE Word(known) = "FILLED"
    BY <2>5 DEF Word
  <2>6. ASSUME known, truth = "cancelled" PROVE Word(known) = "CANCELLED"
    BY <2>6 DEF Word
  <2>7. truth \in {"working", "part filled", "filled", "cancelled"}
    BY <1>2 DEF Living, Finished
  <2>8. QED
    BY <2>1, <2>2, <2>3, <2>4, <2>5, <2>6, <2>7 DEF BeliefOver, Living
<1>3. QED
  BY <1>1, <1>2

\* The order is something at the venue, and it goes through one adapter.
VenueInv ==
  /\ adapter \in Adapter
  /\ truth \in Living \cup Finished \cup {"absent"}
  /\ NeverWrittenOffAlive

\* What a reader of the venue's answers believes stays true of the venue: one step of
\* a call, of the order's life or of a query.
LEMMA VenueStep ==
  ASSUME VenueInv, [VenueErrorsNext]_venueVars
  PROVE  VenueInv'
<1>0. adapter \in {"binance", "bybit", "shadow"}
  BY VenueErrorsAssumption DEF VenueInv
<1>1. ASSUME NEW acts \in BOOLEAN, NEW a \in Acted(adapter) \cup NotActed(adapter), PlaceCall(acts, a)
      PROVE  VenueInv'
  <2>1. PICK venue \in {"binance", "bybit"} : venue = adapter
    BY <1>0, <1>1 DEF PlaceCall
  <2>2. /\ believed' = Lands(Outcome(adapter, "POST", a)) /\ adapter' = adapter
        /\ truth' = IF acts THEN "working" ELSE "absent"
        /\ a \in IF acts THEN Acted(adapter) ELSE NotActed(adapter)
    BY <1>1 DEF PlaceCall
  <2>3. acts => Outcome(adapter, "POST", a) \in {"done", "UnknownState", "VenueDown", "VenueError"}
    BY <2>1, <2>2, OutcomeTruth
  <2>4. believed' \in {"ACKED", "QUERY", "REJECTED"} /\ (acts => believed' \in {"ACKED", "QUERY"})
    BY <2>2, <2>3, Landings
  <2>5. QED
    BY <2>1, <2>2, <2>4 DEF VenueInv, NeverWrittenOffAlive, Living, BeliefOver
<1>2. CASE PlaceShadow \/ CancelShadow
  BY <1>2 DEF PlaceShadow, CancelShadow, VenueInv, NeverWrittenOffAlive, Living, BeliefOver
<1>3. ASSUME NEW a, NEW known \in BOOLEAN, NEW forgets \in BOOLEAN, QueryCall(a, known, forgets)
      PROVE  VenueInv'
  <2>1. /\ believed' = IF Outcome(adapter, "GET", a) = "done" THEN Found(known, forgets) ELSE "QUERY"
        /\ UNCHANGED <<adapter, truth>>
    BY <1>3 DEF QueryCall
  <2>2. QED
    BY <2>1, Finds DEF VenueInv, NeverWrittenOffAlive, BeliefOver
<1>4. ASSUME NEW acts \in BOOLEAN, NEW a, CancelCall(acts, a)
      PROVE  VenueInv'
  <2>1. PICK venue \in {"binance", "bybit"} : venue = adapter
    BY <1>0, <1>4 DEF CancelCall
  <2>2. PICK method \in {"POST", "DELETE"} : method = IF adapter = "binance" THEN "DELETE" ELSE "POST"
    OBVIOUS
  <2>3. PICK outcome : outcome = Outcome(adapter, method, a)
    OBVIOUS
  <2>4. /\ believed \in {"ACKED", "PARTIAL", "QUERY"} /\ adapter' = adapter
        /\ believed' \in Cancelled(outcome) /\ (acts => truth \in Living)
        /\ truth' = IF acts THEN "cancelled" ELSE truth
    BY <1>4, <2>2, <2>3 DEF CancelCall
  <2>5. ASSUME ~acts, truth \in Living PROVE outcome \in Denials
    <3>1. a \in NotActed(adapter)
      BY <1>4, <2>5 DEF CancelCall
    <3>2. QED
      BY <2>1, <2>3, <3>1, OutcomeTruth
  <2>6. ASSUME NEW b \in Asked
        PROVE  (truth \in Living => b \notin BeliefOver) /\ (b = "FILLED" => truth = "filled")
    <3>1. CASE b = "QUERY"
      BY <3>1 DEF BeliefOver
    <3>2. CASE b # "QUERY"
      <4>1. PICK known \in BOOLEAN : \E forgets \in BOOLEAN : b = Found(known, forgets)
        BY <2>6, <3>2 DEF Asked
      <4>2. PICK forgets \in BOOLEAN : b = Found(known, forgets)
        BY <4>1
      <4>3. QED
        BY <4>2, Finds DEF VenueInv
    <3>3. QED
      BY <3>1, <3>2
  <2>7. ASSUME outcome = "done" PROVE Cancelled(outcome) = {"CANCELLED"}
    BY <2>7, Zenon DEF Cancelled
  <2>8. ASSUME outcome = "CancelRejected" PROVE Cancelled(outcome) = Asked
    BY <2>8, Zenon DEF Cancelled
  <2>9. ASSUME outcome = "OrderNotFound", believed = "QUERY" PROVE Cancelled(outcome) = {"REJECTED"}
    BY <2>9, Zenon DEF Cancelled
  <2>10. ASSUME outcome # "done", outcome # "CancelRejected", ~(outcome = "OrderNotFound" /\ believed = "QUERY")
         PROVE  Cancelled(outcome) = {believed}
    BY <2>10, Zenon DEF Cancelled
  <2>11. believed' = "FILLED" => truth = "filled"
    BY <2>4, <2>6, <2>7, <2>8, <2>9, <2>10
  <2>12. truth' \in Living => believed' \notin BeliefOver
    <3>1. ASSUME truth' \in Living PROVE ~acts /\ truth \in Living /\ outcome \in Denials
      BY <2>4, <2>5, <3>1 DEF Living
    <3>2. ASSUME truth' \in Living PROVE outcome # "done" /\ outcome # "OrderNotFound"
      BY <3>1, <3>2 DEF Denials
    <3>3. QED
      BY <2>4, <2>6, <2>8, <2>10, <3>1, <3>2 DEF BeliefOver
  <2>13. truth' = truth \/ (truth' = "cancelled" /\ truth \in Living)
    BY <2>4
  <2>14. QED
    BY <2>1, <2>4, <2>11, <2>12, <2>13 DEF VenueInv, NeverWrittenOffAlive, Living, Finished
<1>5. CASE Executed
  BY <1>5 DEF Executed, VenueInv, NeverWrittenOffAlive, Living, Finished, BeliefOver
<1>6. CASE UNCHANGED venueVars
  BY <1>6 DEF venueVars, VenueInv, NeverWrittenOffAlive
<1>7. QED
  BY <1>1, <1>2, <1>3, <1>4, <1>5, <1>6 DEF VenueErrorsNext

\* An order that works at the venue is never written off.
THEOREM LivingNeverWrittenOff == VenueErrorsSpec => []NeverWrittenOffAlive
<1>1. VenueErrorsInit => VenueInv
  BY DEF VenueErrorsInit, VenueInv, NeverWrittenOffAlive, Living, Finished
<1>2. VenueInv /\ [VenueErrorsNext]_venueVars => VenueInv'
  BY VenueStep
<1>3. VenueInv => NeverWrittenOffAlive
  BY DEF VenueInv
<1>4. QED
  BY <1>1, <1>2, <1>3, PTL DEF VenueErrorsSpec

-----------------------------------------------------------------------------
(* The simulated venue (Matching).                                         *)

\* An order the venue knows, and the venue's own promises of it.
Orders == [status: {"ACKED", "PARTIAL", "FILLED", "CANCELLED", "REJECTED"}, side: Sides,
           kind: {"market", "limit"}, price: Quoted \cup {0}, post: BOOLEAN, filled: 0..Lots,
           queue: Int, volume: Nat, arrives: Int, taker: BOOLEAN, joined: Int, waited: Int]

\* What came by waiting moved the queue up, never beyond the volume traded; a taker
\* that has not arrived, and an order refused, have nothing.
Earned(o) ==
  /\ o \in Orders
  /\ o.queue = o.joined + o.waited /\ (o.waited = 0 \/ o.queue <= o.volume)
  /\ o.status = "REJECTED" => o.filled = 0
  /\ o.taker => o.filled = 0

InTime(o) == clock < o.arrives => o.filled = 0

MatchingInv ==
  /\ clock \in Int /\ delay \in Nat /\ net \in Int
  /\ depths \in [buy: [Quoted -> Nat], sell: [Quoted -> Nat], known: BOOLEAN]
  /\ DOMAIN resting = Ticket
  /\ \A i \in Ticket : resting[i] = Unplaced \/ (Earned(resting[i]) /\ InTime(resting[i]))
  /\ net = SumFunctionOnSet([i \in Ticket |-> TradedBy(resting[i])], Ticket)

\* What is filled of an order.
LEMMA FilledIs ==
  ASSUME NEW o \in Orders, NEW q \in Nat, o.filled + q <= Lots
  PROVE  /\ Filled(o, q) \in Orders /\ Filled(o, q).filled = o.filled + q
         /\ Filled(o, q).status \in {"FILLED", "PARTIAL"}
         /\ Filled(o, q).queue = o.queue /\ Filled(o, q).volume = o.volume
         /\ Filled(o, q).arrives = o.arrives /\ Filled(o, q).taker = o.taker
         /\ Filled(o, q).joined = o.joined /\ Filled(o, q).waited = o.waited
         /\ Filled(o, q).side = o.side
<1>1. Lots \in Nat /\ o.filled \in 0..Lots
  BY MatchingAssumption DEF Orders
<1>2. o.filled + q \in 0..Lots
  BY <1>1
<1>3. PICK n \in 0..Lots : n = o.filled + q
  BY <1>2
<1>4. PICK s \in {"FILLED", "PARTIAL"} :
        s = IF o.filled + q >= Lots THEN "FILLED" ELSE "PARTIAL"
  OBVIOUS
<1>5. Filled(o, q) = [o EXCEPT !.filled = n, !.status = s]
  BY <1>3, <1>4 DEF Filled
<1> DEFINE p == [o EXCEPT !.filled = n, !.status = s]
<1>6. /\ p \in Orders /\ p.filled = n /\ p.status = s
      /\ p.queue = o.queue /\ p.volume = o.volume /\ p.arrives = o.arrives /\ p.taker = o.taker
      /\ p.joined = o.joined /\ p.waited = o.waited /\ p.side = o.side
  BY DEF Orders
<1>7. p.status \in {"FILLED", "PARTIAL"}
  BY <1>6
<1> HIDE DEF p
<1>8. Filled(o, q) = p
  BY <1>5 DEF p
<1>9. QED
  BY <1>3, <1>6, <1>7, <1>8, Zenon

\* An order that is filled stays within its promises: by taking it all at once, or, of
\* what it waited for, as much as the volume goes beyond its queue.
LEMMA FilledEarned ==
  ASSUME NEW o, Earned(o), NEW q \in Nat, o.filled + q <= Lots, ~o.taker
  PROVE  Earned(Filled(o, q)) /\ Filled(o, q).filled = o.filled + q /\ Filled(o, q).side = o.side
           /\ Filled(o, q).arrives = o.arrives /\ Filled(o, q).status # "NONE"
<1>1. o \in Orders
  BY DEF Earned
<1>2. QED
  BY <1>1, FilledIs DEF Earned

\* A trade that uses up the queue before an order and fills a share of it leaves the
\* fill earned.
LEMMA WaitedEarned ==
  ASSUME NEW o, Earned(o), NEW q \in Nat \ {0}, o.filled + q <= Lots, q <= o.volume - o.queue, ~o.taker
  PROVE  LET p == Waited(UsesUp(o, q), q) IN
           Earned(p) /\ p.filled = o.filled + q /\ p.side = o.side /\ p.arrives = o.arrives
             /\ p.status # "NONE"
<1> DEFINE u == UsesUp(o, q)
           p == Waited(u, q)
           f == Filled(u, q)
<1>1. o \in Orders /\ o.queue \in Int /\ o.volume \in Nat /\ o.joined \in Int /\ o.waited \in Int
        /\ o.queue = o.joined + o.waited
  BY DEF Earned, Orders
<1>2. PICK n \in Int : n = o.queue + q
  BY <1>1
<1>3. u = [o EXCEPT !.queue = n]
  BY <1>2 DEF UsesUp
<1>4. /\ u \in Orders /\ u.queue = n /\ u.filled = o.filled /\ u.volume = o.volume
      /\ u.arrives = o.arrives /\ u.taker = o.taker /\ u.joined = o.joined /\ u.waited = o.waited
      /\ u.side = o.side
  BY <1>1, <1>3 DEF Orders
<1> HIDE DEF u
<1>5. /\ f \in Orders /\ f.filled = u.filled + q /\ f.status \in {"FILLED", "PARTIAL"}
      /\ f.queue = u.queue /\ f.volume = u.volume
      /\ f.arrives = u.arrives /\ f.taker = u.taker
      /\ f.joined = u.joined /\ f.waited = u.waited /\ f.side = u.side
  BY <1>4, FilledIs
<1> HIDE DEF f
<1>6. PICK m \in Int : m = f.waited + q
  BY <1>1, <1>4, <1>5
<1>7. p = [f EXCEPT !.waited = m]
  BY <1>6 DEF Waited, f
<1>8. /\ p \in Orders /\ p.filled = f.filled /\ p.status = f.status /\ p.queue = f.queue
      /\ p.volume = f.volume /\ p.arrives = f.arrives /\ p.taker = f.taker /\ p.joined = f.joined
      /\ p.waited = m /\ p.side = f.side
  BY <1>5, <1>7 DEF Orders
<1> HIDE DEF p
<1>9. p.queue = p.joined + p.waited
  BY <1>1, <1>2, <1>4, <1>5, <1>6, <1>8
<1>10. p.queue <= p.volume
  BY <1>1, <1>2, <1>4, <1>5, <1>8
<1>11. p.status # "REJECTED" /\ p.status # "NONE" /\ ~p.taker
  BY <1>4, <1>5, <1>8
<1>12. Earned(p)
  BY <1>8, <1>9, <1>10, <1>11 DEF Earned
<1>13. QED
  BY <1>4, <1>5, <1>8, <1>11, <1>12 DEF u, p

\* What the market does to an order, and what it leaves alone.
Moves(o, p) ==
  /\ Earned(p) /\ p.side = o.side /\ p.arrives = o.arrives /\ p.status # "NONE"
  /\ clock < o.arrives => p.filled = o.filled

\* An order that takes on arrival.
LEMMA TakerMoves ==
  ASSUME NEW o, Earned(o), o.taker, ~(clock < o.arrives)
  PROVE  Moves(o, TakesOnArrival(o))
<1> DEFINE u == [o EXCEPT !.taker = FALSE]
           r == [o EXCEPT !.taker = FALSE, !.status = "REJECTED"]
<1>1. o \in Orders /\ o.filled = 0 /\ o.queue = o.joined + o.waited /\ (o.waited = 0 \/ o.queue <= o.volume)
  BY DEF Earned
<1>2. /\ u \in Orders /\ u.queue = o.queue /\ u.filled = o.filled /\ u.volume = o.volume
      /\ u.arrives = o.arrives /\ u.taker = FALSE /\ u.joined = o.joined /\ u.waited = o.waited
      /\ u.side = o.side
  BY <1>1 DEF Orders
<1>3. /\ r \in Orders /\ r.queue = o.queue /\ r.filled = o.filled /\ r.volume = o.volume
      /\ r.arrives = o.arrives /\ r.taker = FALSE /\ r.joined = o.joined /\ r.waited = o.waited
      /\ r.side = o.side /\ r.status = "REJECTED"
  BY <1>1 DEF Orders
<1>4. TakesOnArrival(o) = IF Walks(o.side, Lots - o.filled) THEN Filled(u, Lots - o.filled) ELSE r
  BY DEF TakesOnArrival
<1>5. ~u.taker /\ ~r.taker
  BY <1>2, <1>3, Zenon
<1> HIDE DEF u, r
<1>6. Earned(u)
  <2>1. u.status = "REJECTED" => u.filled = 0
    BY <1>1, <1>2
  <2>2. QED
    BY <1>1, <1>2, <1>5, <2>1 DEF Earned
<1>7. Moves(o, r)
  BY <1>1, <1>3, <1>5 DEF Moves, Earned
<1>8. Lots - o.filled \in Nat /\ u.filled + (Lots - o.filled) <= Lots
  BY <1>1, <1>2, MatchingAssumption
<1>9. Moves(o, Filled(u, Lots - o.filled))
  <2>1. PICK q \in Nat : q = Lots - o.filled
    BY <1>8
  <2>2. Earned(Filled(u, q)) /\ Filled(u, q).side = u.side /\ Filled(u, q).arrives = u.arrives
          /\ Filled(u, q).status # "NONE"
    BY <1>5, <1>6, <1>8, <2>1, FilledEarned
  <2>3. QED
    BY <1>2, <2>1, <2>2 DEF Moves
<1>10. QED
  BY <1>4, <1>7, <1>9, Zenon

\* An order that rests.
LEMMA RestedMoves ==
  ASSUME NEW o, Earned(o), ~o.taker, ~(Lots <= o.filled), ~(clock < o.arrives)
  PROVE  Moves(o, Rested(o))
<1> DEFINE remaining == Lots - o.filled
           reaches == o.volume - o.queue
           fillable == Min({remaining, reaches})
<1>1. o \in Orders /\ o.filled \in 0..Lots /\ o.volume \in Nat /\ o.queue \in Int /\ o.status # "NONE"
        /\ Lots \in Nat
  BY MatchingAssumption DEF Earned, Orders
<1>2. remaining \in Nat \ {0} /\ reaches \in Int /\ o.filled + remaining <= Lots
  BY <1>1
<1>3. Moves(o, o)
  BY <1>1 DEF Moves
<1>4. Moves(o, Filled(o, remaining))
  <2>1. PICK q \in Nat : q = remaining
    BY <1>2
  <2>2. Earned(Filled(o, q)) /\ Filled(o, q).side = o.side /\ Filled(o, q).arrives = o.arrives
          /\ Filled(o, q).status # "NONE"
    BY <1>2, <2>1, FilledEarned
  <2>3. QED
    BY <2>1, <2>2 DEF Moves
<1>5. ASSUME reaches > 0 PROVE Moves(o, Waited(UsesUp(o, fillable), fillable))
  <2>1. IsFiniteSet({remaining, reaches})
    <3>1. IsFiniteSet({reaches}) /\ {remaining, reaches} = {reaches} \cup {remaining}
      BY FS_Singleton
    <3>2. QED
      BY <3>1, FS_AddElement
  <2>2. {remaining, reaches} # {} /\ {remaining, reaches} \subseteq Int
    BY <1>2
  <2>3. fillable \in {remaining, reaches} /\ fillable <= remaining /\ fillable <= reaches
    BY <2>1, <2>2, Extremes
  <2> HIDE DEF remaining, reaches, fillable
  <2>4. fillable \in Nat \ {0}
    BY <1>2, <1>5, <2>3
  <2>5. PICK q \in Nat \ {0} : q = fillable
    BY <2>4
  <2>6. o.filled + q <= Lots /\ q <= o.volume - o.queue
    BY <1>1, <1>2, <2>3, <2>5 DEF reaches
  <2>7. LET p == Waited(UsesUp(o, q), q) IN
           Earned(p) /\ p.side = o.side /\ p.arrives = o.arrives /\ p.status # "NONE"
    BY <2>6, WaitedEarned
  <2>8. QED
    BY <2>5, <2>7 DEF Moves
<1>6. Rested(o) = CASE ~ModelQueue -> IF Crosses(o) THEN Filled(o, remaining) ELSE o
                    [] ModelQueue /\ reaches <= 0 -> IF Swept(o) THEN Filled(o, remaining) ELSE o
                    [] OTHER -> Waited(UsesUp(o, fillable), fillable)
  BY DEF Rested
<1>7. reaches <= 0 \/ reaches > 0
  BY <1>2
<1>8. ASSUME ~(reaches <= 0) PROVE reaches > 0
  BY <1>7, <1>8
<1> HIDE DEF remaining, reaches, fillable
<1>9. CASE ~ModelQueue
  BY <1>3, <1>4, <1>6, <1>9, Zenon
<1>10. CASE ModelQueue /\ reaches <= 0
  BY <1>3, <1>4, <1>6, <1>10, Zenon
<1>11. CASE ModelQueue /\ ~(reaches <= 0)
  <2>1. Rested(o) = Waited(UsesUp(o, fillable), fillable)
    BY <1>6, <1>11, Zenon
  <2>2. QED
    BY <1>5, <1>8, <1>11, <2>1
<1>12. QED
  BY <1>9, <1>10, <1>11

\* A step of the venue moves every order that is at work and has arrived.
LEMMA SteppedMoves ==
  ASSUME NEW o, Earned(o), clock \in Int
  PROVE  Moves(o, Stepped(o))
<1> DEFINE idle == o.status = "NONE" \/ Over(o)
           away == o.status # "NONE" /\ ~Over(o) /\ (clock < o.arrives \/ ~depths.known)
           takes == o.status # "NONE" /\ ~Over(o) /\ clock >= o.arrives /\ depths.known /\ o.taker
<1>1. Stepped(o) = CASE idle -> o [] away -> o [] takes -> TakesOnArrival(o)
                     [] OTHER -> IF o.price = 0 \/ Lots <= o.filled THEN o ELSE Rested(o)
  BY DEF Stepped
<1>2. Moves(o, o)
  BY DEF Moves, Earned, Orders
<1>3. (idle => ~away /\ ~takes) /\ (away => ~takes)
  <2>1. o.arrives \in Int
    BY DEF Earned, Orders
  <2>2. clock < o.arrives => ~(clock >= o.arrives)
    BY <2>1
  <2>3. QED
    BY <2>2
<1>4. o.status # "NONE" /\ o.arrives \in Int
  BY DEF Earned, Orders
<1>5. ~idle /\ ~away => ~(clock < o.arrives)
  BY <1>4
<1>6. ~idle /\ ~away /\ ~takes => ~o.taker
  BY <1>4
<1>7. takes => o.taker /\ ~(clock < o.arrives)
  BY <1>3, <1>4
<1> HIDE DEF idle, away, takes
<1>8. CASE idle
  BY <1>1, <1>2, <1>3, <1>8, Zenon
<1>9. CASE away
  BY <1>1, <1>2, <1>3, <1>9, Zenon
<1>10. CASE takes
  <2>1. Stepped(o) = TakesOnArrival(o)
    BY <1>1, <1>3, <1>10, Zenon
  <2>2. QED
    BY <1>7, <1>10, <2>1, TakerMoves
<1>11. CASE ~idle /\ ~away /\ ~takes
  <2>1. Stepped(o) = IF o.price = 0 \/ Lots <= o.filled THEN o ELSE Rested(o)
    BY <1>1, <1>11, Zenon
  <2>2. ~(Lots <= o.filled) => Moves(o, Rested(o))
    BY <1>5, <1>6, <1>11, RestedMoves
  <2>3. QED
    BY <1>2, <2>1, <2>2, Zenon
<1>12. QED
  BY <1>8, <1>9, <1>10, <1>11

\* A sum over the tickets is of integers.
LEMMA Positions ==
  ASSUME NEW r, \A i \in Ticket : r[i] = Unplaced \/ Earned(r[i])
  PROVE  /\ \A i \in Ticket : TradedBy(r[i]) \in Int
         /\ IsFiniteSet(Ticket) /\ Numbers([i \in Ticket |-> TradedBy(r[i])], Ticket)
         /\ SumFunctionOnSet([i \in Ticket |-> TradedBy(r[i])], Ticket) \in Int
<1>1. IsFiniteSet(Ticket) /\ Lots \in Nat
  BY MatchingAssumption
<1>2. \A i \in Ticket : TradedBy(r[i]) \in Int
  <2>1. SUFFICES ASSUME NEW i \in Ticket PROVE TradedBy(r[i]) \in Int
    OBVIOUS
  <2>2. CASE r[i] = Unplaced
    BY <2>2 DEF TradedBy, Unplaced
  <2>3. CASE Earned(r[i])
    <3>1. r[i].filled \in Int
      BY <1>1, <2>3 DEF Earned, Orders
    <3>2. QED
      BY <3>1 DEF TradedBy, Directed
  <2>4. QED
    BY <2>2, <2>3
<1> DEFINE f == [i \in Ticket |-> TradedBy(r[i])]
<1>3. Numbers(f, Ticket)
  BY <1>2 DEF Numbers
<1> HIDE DEF f
<1>4. SumFunctionOnSet(f, Ticket) \in Int
  BY <1>1, <1>3, SumInteger
<1>5. QED
  BY <1>1, <1>2, <1>3, <1>4 DEF f

\* The position follows an order that changes alone.
LEMMA PositionChange ==
  ASSUME MatchingInv, NEW i \in Ticket, NEW o, o = Unplaced \/ (Earned(o) /\ InTime(o)),
         resting' = [resting EXCEPT ![i] = o], net' = net + (TradedBy(o) - TradedBy(resting[i])),
         clock' = clock, delay' = delay, depths' = depths
  PROVE  MatchingInv'
<1> DEFINE f == [j \in Ticket |-> TradedBy(resting[j])]
           g == [j \in Ticket |-> TradedBy(resting'[j])]
<1>1. DOMAIN resting' = Ticket /\ resting'[i] = o /\ \A j \in Ticket \ {i} : resting'[j] = resting[j]
  BY DEF MatchingInv
<1>2. \A j \in Ticket : resting'[j] = Unplaced \/ (Earned(resting'[j]) /\ InTime(resting'[j]))
  BY <1>1 DEF MatchingInv
<1>3. /\ IsFiniteSet(Ticket) /\ Numbers(f, Ticket) /\ \A j \in Ticket : TradedBy(resting[j]) \in Int
      /\ SumFunctionOnSet(f, Ticket) \in Int
  <2>1. PICK r : r = resting
    OBVIOUS
  <2>2. \A j \in Ticket : r[j] = Unplaced \/ Earned(r[j])
    BY <2>1 DEF MatchingInv
  <2>3. QED
    BY <2>1, <2>2, Positions
<1>4. /\ \A j \in Ticket : TradedBy(resting'[j]) \in Int
  <2>1. PICK r : r = resting'
    OBVIOUS
  <2>2. \A j \in Ticket : r[j] = Unplaced \/ Earned(r[j])
    BY <1>2, <2>1
  <2>3. QED
    BY <2>1, <2>2, Positions
<1>5. f[i] = TradedBy(resting[i]) /\ g[i] = TradedBy(o) /\ g[i] \in Int /\ f[i] \in Int
        /\ \A j \in Ticket \ {i} : g[j] = f[j]
  BY <1>1, <1>3, <1>4
<1> HIDE DEF f, g
<1>6. SumFunctionOnSet(g, Ticket) = SumFunctionOnSet(f, Ticket) - f[i] + g[i]
  <2>1. PICK a : a = f
    OBVIOUS
  <2>2. PICK b : b = g
    OBVIOUS
  <2>3. SumFunctionOnSet(b, Ticket) = SumFunctionOnSet(a, Ticket) - a[i] + b[i]
    BY <1>3, <1>5, <2>1, <2>2, SumChange
  <2>4. QED
    BY <2>1, <2>2, <2>3
<1>7. net = SumFunctionOnSet(f, Ticket)
  BY DEF MatchingInv, f
<1>8. net' = SumFunctionOnSet(g, Ticket) /\ net' \in Int
  BY <1>3, <1>5, <1>6, <1>7
<1>9. QED
  BY <1>1, <1>2, <1>8 DEF MatchingInv, InTime, g

\* A new order has what it takes at once, and nothing before it arrives.
LEMMA ArrivedEarned ==
  ASSUME MatchingInv, NEW side \in Sides, NEW kind \in {"market", "limit"},
         NEW price \in Quoted \cup {0}, NEW post \in BOOLEAN, NEW half \in BOOLEAN
  PROVE  LET o == Arrived(Entering(side, kind, price, post), half) IN
           Earned(o) /\ InTime(o) /\ o.side = side /\ o.status # "NONE"
<1> DEFINE e == Entering(side, kind, price, post)
           o == Arrived(e, half)
           q == IF half THEN Lots \div 2 ELSE Lots
<1> SUFFICES Earned(o) /\ InTime(o) /\ o.side = side /\ o.status # "NONE"
  OBVIOUS
<1>1. clock \in Int /\ delay \in Nat /\ Lots \in Nat /\ Lots # 0
        /\ depths \in [buy: [Quoted -> Nat], sell: [Quoted -> Nat], known: BOOLEAN]
  BY MatchingAssumption DEF MatchingInv
<1>2. QueueAhead(side, price) \in Int
  <2>1. depths.buy \in [Quoted -> Nat] /\ depths.sell \in [Quoted -> Nat]
    BY <1>1
  <2>2. depths[side] \in [Quoted -> Nat]
    BY <2>1 DEF Sides
  <2>3. QED
    BY <2>2 DEF QueueAhead
<1>3. PICK n \in Int : n = QueueAhead(side, price)
  BY <1>2
<1>4. PICK t \in Int : t = clock + delay
  BY <1>1
<1>5. e = [status |-> "ACKED", side |-> side, kind |-> kind, price |-> price, post |-> post,
           filled |-> 0, queue |-> n, volume |-> 0, arrives |-> t, taker |-> FALSE,
           joined |-> n, waited |-> 0]
  BY <1>3, <1>4 DEF Entering
<1>6. /\ e \in Orders /\ e.queue = n /\ e.joined = n /\ e.waited = 0 /\ e.filled = 0
      /\ e.volume = 0 /\ e.arrives = t /\ e.side = side /\ e.status = "ACKED" /\ e.kind = kind
  <2>1. 0 \in 0..Lots
    BY <1>1
  <2>2. QED
    BY <1>5, <2>1 DEF Orders
<1>7. ~e.taker
  <2>1. e.taker = FALSE
    BY <1>5
  <2>2. QED
    BY <2>1, Zenon
<1> HIDE DEF e
<1>8. Earned(e)
  <2>1. n = n + 0 /\ n \in Int
    BY <1>3
  <2>2. QED
    BY <1>6, <1>7, <2>1 DEF Earned
<1>9. q \in Nat /\ q <= Lots
  BY <1>1
<1> HIDE DEF q
<1>10. /\ Earned(Filled(e, q)) /\ Filled(e, q).side = side /\ Filled(e, q).arrives = t
       /\ Filled(e, q).status # "NONE"
  <2>1. e.filled + q <= Lots
    BY <1>6, <1>9, <1>1
  <2>2. PICK x \in Nat : x = q
    BY <1>9
  <2>3. Earned(Filled(e, x)) /\ Filled(e, x).side = e.side /\ Filled(e, x).arrives = e.arrives
          /\ Filled(e, x).status # "NONE"
    BY <1>7, <1>8, <2>1, <2>2, FilledEarned
  <2>4. QED
    BY <1>6, <2>2, <2>3
<1>11. /\ Earned(Filled(e, Lots)) /\ Filled(e, Lots).side = side /\ Filled(e, Lots).arrives = t
       /\ Filled(e, Lots).status # "NONE"
  <2>1. e.filled + Lots <= Lots
    BY <1>1, <1>6
  <2>2. QED
    BY <1>1, <1>6, <1>7, <1>8, <2>1, FilledEarned
<1>12. ASSUME delay = 0, NEW x, x.arrives = t PROVE InTime(x)
  BY <1>1, <1>4, <1>12 DEF InTime
<1>13. ASSUME o = e PROVE Earned(o) /\ InTime(o) /\ o.side = side /\ o.status # "NONE"
  BY <1>6, <1>8, <1>13 DEF InTime
<1>14. CASE delay > 0 /\ depths.known
  <2>1. o = [e EXCEPT !.taker = TakesNow(e)]
    <3>1. ~(delay = 0)
      BY <1>14, <1>1
    <3>2. QED
      BY <1>14, <3>1, Zenon DEF Arrived
  <2>2. PICK b \in BOOLEAN : b = TakesNow(e)
    BY Zenon DEF TakesNow
  <2>3. o = [e EXCEPT !.taker = b]
    BY <2>1, <2>2
  <2>4. /\ o \in Orders /\ o.queue = e.queue /\ o.joined = e.joined /\ o.waited = e.waited
        /\ o.filled = e.filled /\ o.volume = e.volume /\ o.side = e.side /\ o.status = e.status
    BY <1>6, <2>3 DEF Orders
  <2> HIDE DEF o
  <2>5. QED
    BY <1>6, <1>8, <2>4 DEF Earned, InTime
<1>15. CASE delay = 0 /\ depths.known /\ e.kind = "market"
  <2>0. ~(delay > 0)
    BY <1>15
  <2>1. o = IF Walks(e.side, Lots) THEN Filled(e, q) ELSE [e EXCEPT !.status = "REJECTED"]
    BY <1>15, <2>0, Zenon DEF Arrived, q
  <2> DEFINE r == [e EXCEPT !.status = "REJECTED"]
  <2>2. /\ r \in Orders /\ r.queue = e.queue /\ r.joined = e.joined /\ r.waited = e.waited
        /\ r.filled = e.filled /\ r.volume = e.volume /\ r.side = e.side /\ r.status = "REJECTED"
        /\ r.arrives = e.arrives
    BY <1>6 DEF Orders
  <2>3. o = Filled(e, q) \/ o = r
    BY <2>1
  <2> HIDE DEF o, r
  <2>4. Earned(r) /\ InTime(r)
    BY <1>6, <1>8, <1>12, <1>15, <2>2 DEF Earned, InTime
  <2>5. InTime(Filled(e, q))
    BY <1>10, <1>12, <1>15
  <2>6. QED
    BY <1>6, <1>10, <2>2, <2>3, <2>4, <2>5
<1>16. CASE delay = 0 /\ depths.known /\ e.kind = "limit" /\ TakesNow(e) /\ Walks(e.side, Lots)
  <2>0. ~(delay > 0) /\ e.kind # "market"
    BY <1>16
  <2>1. o = Filled(e, Lots)
    BY <1>16, <2>0, Zenon DEF Arrived
  <2>2. InTime(Filled(e, Lots))
    BY <1>11, <1>12, <1>16
  <2> HIDE DEF o
  <2>3. QED
    BY <1>11, <2>1, <2>2
<1>17. CASE /\ ~(delay > 0 /\ depths.known) /\ ~(delay = 0 /\ depths.known /\ e.kind = "market")
            /\ ~(delay = 0 /\ depths.known /\ e.kind = "limit" /\ TakesNow(e) /\ Walks(e.side, Lots))
  <2>1. o = e
    BY <1>17, Zenon DEF Arrived
  <2> HIDE DEF o
  <2>2. QED
    BY <1>13, <2>1
<1>18. QED
  BY <1>14, <1>15, <1>16, <1>17

\* Every step of the venue keeps its promises.
LEMMA MatchingStep ==
  ASSUME MatchingInv, [MatchingNext]_matchingVars
  PROVE  MatchingInv'
<1>0. /\ clock \in Int /\ delay \in Nat /\ net \in Int /\ DOMAIN resting = Ticket
      /\ depths \in [buy: [Quoted -> Nat], sell: [Quoted -> Nat], known: BOOLEAN]
      /\ \A i \in Ticket : resting[i] = Unplaced \/ (Earned(resting[i]) /\ InTime(resting[i]))
      /\ net = SumFunctionOnSet([i \in Ticket |-> TradedBy(resting[i])], Ticket)
  BY DEF MatchingInv
<1>1. /\ \A o : Earned(o) => o.status # "NONE" /\ o \in Orders /\ o.arrives \in Int
      /\ Unplaced.status = "NONE" /\ TradedBy(Unplaced) = 0
  BY DEF Earned, Orders, Unplaced, TradedBy
<1>2. ASSUME NEW i \in Ticket, NEW side \in Sides, NEW kind \in {"market", "limit"},
             NEW price \in Quoted \cup {0}, NEW post \in BOOLEAN, NEW half \in BOOLEAN,
             Place(i, side, kind, price, post, half)
      PROVE  MatchingInv'
  <2> DEFINE p == Arrived(Entering(side, kind, price, post), half)
  <2>1. /\ resting[i].status = "NONE" /\ resting' = [resting EXCEPT ![i] = p]
        /\ net' = net + Directed(side, p.filled) /\ UNCHANGED <<clock, depths, delay>>
    BY <1>2 DEF Place
  <2>2. Earned(p) /\ InTime(p) /\ p.side = side /\ p.status # "NONE"
    BY ArrivedEarned
  <2> HIDE DEF p
  <2>3. resting[i] = Unplaced
    BY <1>0, <1>1, <2>1
  <2>4. TradedBy(p) = Directed(side, p.filled) /\ TradedBy(resting[i]) = 0
    BY <1>1, <2>2, <2>3 DEF TradedBy
  <2>5. TradedBy(p) \in Int
    <3>1. p.filled \in Int
      BY <2>2, MatchingAssumption DEF Earned, Orders
    <3>2. QED
      BY <2>4, <3>1 DEF Directed
  <2>6. net' = net + (TradedBy(p) - TradedBy(resting[i]))
    BY <1>0, <2>1, <2>4, <2>5
  <2>7. PICK o : o = p
    OBVIOUS
  <2>8. QED
    BY <2>1, <2>2, <2>6, <2>7, PositionChange
<1>3. ASSUME NEW i \in Ticket, CancelResting(i) PROVE MatchingInv'
  <2> DEFINE p == [resting[i] EXCEPT !.status = "CANCELLED"]
  <2>1. /\ resting[i].status # "NONE" /\ resting' = [resting EXCEPT ![i] = p]
        /\ net' = net /\ UNCHANGED <<clock, depths, delay>>
    BY <1>3 DEF CancelResting
  <2>2. Earned(resting[i]) /\ InTime(resting[i])
    BY <1>0, <1>1, <2>1
  <2>3. resting[i] \in Orders
    BY <2>2 DEF Earned
  <2>4. /\ p \in Orders /\ p.filled = resting[i].filled /\ p.status = "CANCELLED"
        /\ p.queue = resting[i].queue /\ p.volume = resting[i].volume
        /\ p.arrives = resting[i].arrives /\ p.taker = resting[i].taker
        /\ p.joined = resting[i].joined /\ p.waited = resting[i].waited /\ p.side = resting[i].side
    BY <2>3 DEF Orders
  <2> HIDE DEF p
  <2>5. Earned(p) /\ InTime(p)
    BY <2>2, <2>4 DEF Earned, InTime
  <2>6. TradedBy(p) = TradedBy(resting[i])
    BY <2>1, <2>4 DEF TradedBy
  <2>7. TradedBy(p) \in Int
    <3>1. p.filled \in Int
      BY <2>4, MatchingAssumption DEF Orders
    <3>2. QED
      BY <3>1 DEF TradedBy, Directed
  <2>8. net' = net + (TradedBy(p) - TradedBy(resting[i]))
    BY <1>0, <2>1, <2>6, <2>7
  <2>9. PICK o : o = p
    OBVIOUS
  <2>10. QED
    BY <2>1, <2>5, <2>8, <2>9, PositionChange
<1>4. CASE Match
  <2> DEFINE f == [i \in Ticket |-> TradedBy(resting[i])]
             g == [i \in Ticket |-> Gained(i, Stepped(resting[i]))]
             h == [i \in Ticket |-> TradedBy(resting'[i])]
  <2>1. /\ DOMAIN resting' = Ticket /\ \A i \in Ticket : resting'[i] = Stepped(resting[i])
        /\ net' = net + SumFunctionOnSet(g, Ticket) /\ UNCHANGED <<clock, depths, delay>>
    BY <1>4 DEF Match
  <2>2. \A i \in Ticket :
          \/ resting[i] = Unplaced /\ resting'[i] = Unplaced
          \/ Earned(resting[i]) /\ InTime(resting[i]) /\ Moves(resting[i], resting'[i])
    <3>1. SUFFICES ASSUME NEW i \in Ticket
                   PROVE  \/ resting[i] = Unplaced /\ resting'[i] = Unplaced
                          \/ Earned(resting[i]) /\ InTime(resting[i]) /\ Moves(resting[i], resting'[i])
      OBVIOUS
    <3>2. CASE resting[i] = Unplaced
      <4>1. \A o : o.status = "NONE" => Stepped(o) = o
        <5>1. SUFFICES ASSUME NEW o, o.status = "NONE" PROVE Stepped(o) = o
          OBVIOUS
        <5>2. QED
          BY <5>1, Zenon DEF Stepped
      <4>2. QED
        BY <1>1, <2>1, <3>2, <4>1
    <3>3. CASE Earned(resting[i]) /\ InTime(resting[i])
      <4>1. PICK o : o = resting[i]
        OBVIOUS
      <4>2. Moves(o, Stepped(o))
        BY <1>0, <3>3, <4>1, SteppedMoves
      <4>3. QED
        BY <2>1, <3>3, <4>1, <4>2
    <3>4. QED
      BY <1>0, <3>2, <3>3
  <2>3. \A i \in Ticket : resting'[i] = Unplaced \/ (Earned(resting'[i]) /\ (clock' < resting'[i].arrives => resting'[i].filled = 0))
    BY <2>1, <2>2 DEF Moves, InTime
  <2>4. /\ IsFiniteSet(Ticket) /\ Numbers(f, Ticket) /\ \A i \in Ticket : TradedBy(resting[i]) \in Int
    <3>1. PICK r : r = resting
      OBVIOUS
    <3>2. \A i \in Ticket : r[i] = Unplaced \/ Earned(r[i])
      BY <1>0, <3>1
    <3>3. QED
      BY <3>1, <3>2, Positions
  <2>5. /\ \A i \in Ticket : TradedBy(resting'[i]) \in Int
        /\ SumFunctionOnSet(h, Ticket) \in Int
    <3>1. PICK r : r = resting'
      OBVIOUS
    <3>2. \A i \in Ticket : r[i] = Unplaced \/ Earned(r[i])
      BY <2>3, <3>1
    <3>3. QED
      BY <3>1, <3>2, Positions
  <2>6. \A i \in Ticket : g[i] \in Int /\ h[i] = f[i] + g[i]
    <3>1. SUFFICES ASSUME NEW i \in Ticket PROVE g[i] \in Int /\ h[i] = f[i] + g[i]
      OBVIOUS
    <3>2. g[i] = Gained(i, resting'[i]) /\ h[i] = TradedBy(resting'[i]) /\ f[i] = TradedBy(resting[i])
      BY <2>1
    <3>3. CASE resting[i] = Unplaced /\ resting'[i] = Unplaced
      BY <1>1, <3>2, <3>3 DEF Gained
    <3>4. CASE Earned(resting[i]) /\ Moves(resting[i], resting'[i])
      <4>1. resting[i].filled \in Int /\ resting'[i].filled \in Int
        BY <3>4, MatchingAssumption DEF Moves, Earned, Orders
      <4>2. /\ resting[i].status # "NONE" /\ resting'[i].status # "NONE"
            /\ resting'[i].side = resting[i].side
        BY <1>1, <3>4 DEF Moves
      <4>3. QED
        BY <3>2, <4>1, <4>2 DEF Gained, TradedBy, Directed
    <3>5. QED
      BY <2>2, <3>3, <3>4
  <2> HIDE DEF f, g, h
  <2>7. SumFunctionOnSet(h, Ticket) = SumFunctionOnSet(f, Ticket) + SumFunctionOnSet(g, Ticket)
    <3>1. PICK a : a = f
      OBVIOUS
    <3>2. PICK b : b = g
      OBVIOUS
    <3>3. PICK c : c = h
      OBVIOUS
    <3>4. Numbers(g, Ticket)
      BY <2>6 DEF Numbers
    <3>5. SumFunctionOnSet(c, Ticket) = SumFunctionOnSet(a, Ticket) + SumFunctionOnSet(b, Ticket)
      BY <2>4, <2>6, <3>1, <3>2, <3>3, <3>4, SumAdds
    <3>6. QED
      BY <3>1, <3>2, <3>3, <3>5
  <2>8. net' = SumFunctionOnSet(h, Ticket) /\ net' \in Int
    BY <1>0, <2>1, <2>5, <2>7 DEF f
  <2>9. QED
    <3>1. \A i \in Ticket : resting'[i] = Unplaced \/ (Earned(resting'[i]) /\ InTime(resting[i])')
      BY <2>3 DEF InTime
    <3>2. QED
      BY <1>0, <2>1, <2>8, <3>1 DEF MatchingInv, h

\* the market moves, and no position with it
<1>5. ASSUME DOMAIN resting' = Ticket, net' = net, delay' = delay,
             clock' \in Int, clock <= clock',
             depths' \in [buy: [Quoted -> Nat], sell: [Quoted -> Nat], known: BOOLEAN],
             \A i \in Ticket : \/ resting'[i] = resting[i]
                               \/ /\ Earned(resting[i]) /\ Earned(resting'[i])
                                  /\ resting'[i].filled = resting[i].filled
                                  /\ resting'[i].side = resting[i].side
                                  /\ resting'[i].arrives = resting[i].arrives
      PROVE  MatchingInv'
  <2>1. \A i \in Ticket : resting'[i] = Unplaced \/ (Earned(resting'[i]) /\ (clock' < resting'[i].arrives => resting'[i].filled = 0))
    <3>1. SUFFICES ASSUME NEW i \in Ticket, resting'[i] # Unplaced
                   PROVE  Earned(resting'[i]) /\ (clock' < resting'[i].arrives => resting'[i].filled = 0)
      OBVIOUS
    <3>2. Earned(resting[i]) /\ InTime(resting[i]) /\ Earned(resting'[i])
            /\ resting'[i].filled = resting[i].filled /\ resting'[i].arrives = resting[i].arrives
      BY <1>0, <1>1, <1>5, <3>1
    <3>3. resting[i].arrives \in Int
      BY <1>1, <3>2
    <3>4. QED
      BY <1>0, <1>5, <3>2, <3>3 DEF InTime
  <2>2. \A i \in Ticket : TradedBy(resting'[i]) = TradedBy(resting[i])
    BY <1>1, <1>5 DEF TradedBy
  <2>3. [i \in Ticket |-> TradedBy(resting'[i])] = [i \in Ticket |-> TradedBy(resting[i])]
    BY <2>2
  <2>4. QED
    <3>1. \A i \in Ticket : resting'[i] = Unplaced \/ (Earned(resting'[i]) /\ InTime(resting[i])')
      BY <2>1 DEF InTime
    <3>2. net' = SumFunctionOnSet([i \in Ticket |-> TradedBy(resting'[i])], Ticket)
      BY <1>0, <1>5, <2>3
    <3>3. QED
      BY <1>0, <1>5, <3>1, <3>2 DEF MatchingInv
<1>6. ASSUME NEW side \in Sides, NEW p \in Quoted, NEW n \in 0..Depth, NEW ticks \in 0..1,
             BookMoves(side, p, n, ticks)
      PROVE  MatchingInv'
  <2>1. depths' = Quotation(side, p, n) /\ clock' = clock + ticks /\ UNCHANGED <<resting, net, delay>>
    BY <1>6 DEF BookMoves
  <2>2. n \in Nat
    BY MatchingAssumption
  <2>3. depths' \in [buy: [Quoted -> Nat], sell: [Quoted -> Nat], known: BOOLEAN]
    <3>1. CASE side = "buy"
      BY <1>0, <2>1, <2>2, <3>1 DEF Quotation
    <3>2. CASE side = "sell"
      BY <1>0, <2>1, <2>2, <3>2 DEF Quotation
    <3>3. QED
      BY <3>1, <3>2 DEF Sides
  <2>4. clock' \in Int /\ clock <= clock'
    BY <1>0, <2>1
  <2>5. QED
    BY <1>0, <1>5, <2>1, <2>3, <2>4
<1>7. ASSUME NEW side \in Sides, NEW p \in Quoted, NEW n \in 1..Depth, NEW ticks \in 0..1,
             Trades(side, p, n, ticks)
      PROVE  MatchingInv'
  <2>1. /\ DOMAIN resting' = Ticket
        /\ \A i \in Ticket : resting'[i] =
             IF Hits(resting[i], side, p) THEN [resting[i] EXCEPT !.volume = @ + n] ELSE resting[i]
        /\ clock' = clock + ticks /\ UNCHANGED <<depths, net, delay>>
    BY <1>7 DEF Trades
  <2>2. n \in Nat
    BY MatchingAssumption
  <2>3. ASSUME NEW i \in Ticket, Hits(resting[i], side, p)
        PROVE  /\ Earned(resting[i]) /\ Earned(resting'[i])
               /\ resting'[i].filled = resting[i].filled
               /\ resting'[i].side = resting[i].side
               /\ resting'[i].arrives = resting[i].arrives
    <3>1. Earned(resting[i]) /\ resting[i] \in Orders
      BY <1>0, <1>1, <2>3 DEF Hits
    <3>2. resting[i].volume \in Nat /\ resting[i].queue \in Int
      BY <3>1 DEF Orders
    <3>3. PICK v \in Nat : v = resting[i].volume + n
      BY <2>2, <3>2
    <3>4. resting'[i] = [resting[i] EXCEPT !.volume = v]
      BY <2>1, <2>3, <3>3
    <3>5. /\ resting'[i] \in Orders /\ resting'[i].filled = resting[i].filled
          /\ resting'[i].status = resting[i].status /\ resting'[i].queue = resting[i].queue
          /\ resting'[i].volume = v /\ resting'[i].arrives = resting[i].arrives
          /\ resting'[i].taker = resting[i].taker /\ resting'[i].joined = resting[i].joined
          /\ resting'[i].waited = resting[i].waited /\ resting'[i].side = resting[i].side
      BY <3>1, <3>4 DEF Orders
    <3>6. resting[i].queue <= resting[i].volume => resting'[i].queue <= resting'[i].volume
      BY <2>2, <3>2, <3>3, <3>5
    <3>7. Earned(resting'[i])
      BY <3>1, <3>5, <3>6 DEF Earned
    <3>8. QED
      BY <3>1, <3>5, <3>7
  <2>4. clock' \in Int /\ clock <= clock'
    BY <1>0, <2>1
  <2>5. QED
    BY <1>0, <1>5, <2>1, <2>3, <2>4
<1>8. CASE UNCHANGED matchingVars
  <2>1. clock' \in Int /\ clock <= clock'
    BY <1>0, <1>8 DEF matchingVars
  <2>2. QED
    BY <1>0, <1>5, <1>8, <2>1 DEF matchingVars
<1>9. QED
  BY <1>2, <1>3, <1>4, <1>6, <1>7, <1>8 DEF MatchingNext

\* What an order of the simulated venue gets by waiting it waited for.
THEOREM WaitingEarns == MatchingSpec => []FillsAreEarned
<1>1. MatchingInit => MatchingInv
  <2>1. SUFFICES ASSUME MatchingInit PROVE MatchingInv
    OBVIOUS
  <2>2. /\ clock = 0 /\ net = 0 /\ delay \in Nat /\ resting = [i \in Ticket |-> Unplaced]
        /\ depths = NoBookYet
    BY <2>1, MatchingAssumption DEF MatchingInit
  <2>3. \A i \in Ticket : [j \in Ticket |-> TradedBy(resting[j])][i] = 0
    BY <2>2 DEF TradedBy, Unplaced
  <2>4. SumFunctionOnSet([i \in Ticket |-> TradedBy(resting[i])], Ticket) = 0
    <3> DEFINE f == [i \in Ticket |-> TradedBy(resting[i])]
    <3>1. PICK a : a = f
      OBVIOUS
    <3>2. \A i \in Ticket : a[i] = 0
      BY <2>3, <3>1
    <3>3. SumFunctionOnSet(a, Ticket) = 0
      BY <3>2, SumZero, MatchingAssumption
    <3>4. QED
      BY <3>1, <3>3
  <2>5. depths \in [buy: [Quoted -> Nat], sell: [Quoted -> Nat], known: BOOLEAN]
    BY <2>2 DEF NoBookYet
  <2>6. QED
    BY <2>2, <2>4, <2>5 DEF MatchingInv
<1>2. MatchingInv /\ [MatchingNext]_matchingVars => MatchingInv'
  BY MatchingStep
<1>3. MatchingInv => FillsAreEarned
  <2>1. SUFFICES ASSUME MatchingInv PROVE FillsAreEarned
    OBVIOUS
  <2>2. ASSUME NEW i \in Ticket
        PROVE  LET o == resting[i] IN
               /\ o.status = "REJECTED" => o.filled = 0
               /\ o.status # "NONE" =>
                    /\ o.waited <= Max({0, o.volume - o.joined})
                    /\ o.filled <= Lots
                    /\ clock < o.arrives => o.filled = 0
    <3> DEFINE o == resting[i]
    <3>1. CASE o = Unplaced
      BY <3>1 DEF Unplaced
    <3>2. CASE Earned(o) /\ InTime(o)
      <4>1. /\ o.waited \in Int /\ o.volume \in Nat /\ o.joined \in Int /\ o.queue \in Int
            /\ o.filled \in 0..Lots /\ o.queue = o.joined + o.waited
            /\ o.waited = 0 \/ o.queue <= o.volume
        BY <3>2 DEF Earned, Orders
      <4> DEFINE S == {0, o.volume - o.joined}
      <4>2. IsFiniteSet(S)
        <5>1. IsFiniteSet({0}) /\ S = {0} \cup {o.volume - o.joined}
          BY FS_Singleton
        <5>2. QED
          BY <5>1, FS_AddElement
      <4>3. 0 \in S /\ o.volume - o.joined \in S /\ S # {} /\ S \subseteq Int
        BY <4>1
      <4> HIDE DEF S
      <4>4. 0 <= Max(S) /\ o.volume - o.joined <= Max(S) /\ Max(S) \in Int
        BY <4>2, <4>3, Extremes
      <4>5. o.waited <= Max(S)
        BY <4>1, <4>4
      <4>6. o.filled <= Lots
        BY <4>1, MatchingAssumption
      <4>7. QED
        BY <3>2, <4>5, <4>6 DEF S, Earned, InTime
    <3>3. QED
      BY <2>1, <3>1, <3>2 DEF MatchingInv
  <2>3. QED
    BY <2>1, <2>2 DEF MatchingInv, FillsAreEarned
<1>4. QED
  BY <1>1, <1>2, <1>3, PTL DEF MatchingSpec

-----------------------------------------------------------------------------
(* The account's stream (UserStream).                                      *)

\* While the token is held and no keepalive of it failed, it was extended when the timer
\* last tried or later, and the timer tries again in time.
ClockInv ==
  /\ wall \in Nat /\ extended \in Nat /\ keepclock \in Nat
  /\ keepclock <= wall /\ extended <= wall
  /\ token \in BOOLEAN /\ failed \in BOOLEAN
  /\ (token /\ ~failed) => keepclock <= extended /\ wall - extended < Keepalive

\* Every execution is booked, missed or on its way.
FillsInv ==
  /\ wire \in Seq({"TRADE", "FILLED"})
  /\ fills \in [traded: Nat, booked: Nat, missed: Nat, nameless: Nat]
  /\ fills.traded = fills.booked + fills.missed + Traded(wire)
  /\ order = "open" => fills.nameless = 0

\* How many executions are on their way: none when nothing is, and what is sent adds to
\* them and what is read takes away.
LEMMA OnTheirWay ==
  ASSUME NEW lines \in Seq({"TRADE", "FILLED"})
  PROVE  /\ Traded(lines) \in Nat /\ Traded(<<>>) = 0
         /\ Traded(lines \o <<"TRADE">>) = Traded(lines) + 1
         /\ Traded(lines \o <<"TRADE", "FILLED">>) = Traded(lines) + 1
         /\ lines # <<>> => Traded(lines) = Traded(Tail(lines)) + (IF Head(lines) = "TRADE" THEN 1 ELSE 0)
<1> DEFINE E == {"TRADE", "FILLED"}
           one == Append(lines, "TRADE")
           two == Append(one, "FILLED")
<1>1. \A s : Traded(s) = Cardinality(Places(s, {"TRADE"}))
  BY DEF Traded, Places
<1>2. one \in Seq(E) /\ lines \o <<"TRADE">> = one /\ lines \o <<"TRADE", "FILLED">> = two
  OBVIOUS
<1>3. <<>> \in Seq(E) /\ lines \in Seq(E) /\ "TRADE" \in E /\ "FILLED" \in E
  OBVIOUS
<1> HIDE DEF E, one, two
<1>4. Cardinality(Places(lines, {"TRADE"})) \in Nat /\ Cardinality(Places(<<>>, {"TRADE"})) = 0
  BY <1>3, CountType
<1>a. "TRADE" \in {"TRADE"} /\ "FILLED" \notin {"TRADE"} /\ \A x : x \in {"TRADE"} <=> x = "TRADE"
  OBVIOUS
<1>5. Cardinality(Places(one, {"TRADE"})) = Cardinality(Places(lines, {"TRADE"})) + 1
  BY <1>3, CountAppend DEF one
<1>6. Cardinality(Places(two, {"TRADE"})) = Cardinality(Places(one, {"TRADE"})) + 0
  BY <1>2, <1>3, <1>a, CountAppend DEF two
<1>7. lines # <<>> => Cardinality(Places(lines, {"TRADE"})) =
        Cardinality(Places(Tail(lines), {"TRADE"})) + (IF Head(lines) \in {"TRADE"} THEN 1 ELSE 0)
  BY <1>3, CountTail
<1>8. Traded(lines \o <<"TRADE">>) = Traded(lines) + 1
  BY <1>1, <1>2, <1>5
<1>9. Traded(lines \o <<"TRADE", "FILLED">>) = Traded(lines) + 1
  <2>1. Traded(two) = Cardinality(Places(two, {"TRADE"})) /\ Traded(lines) = Cardinality(Places(lines, {"TRADE"}))
    BY <1>1
  <2>2. Traded(two) = Traded(lines) + 1
    BY <1>4, <1>5, <1>6, <2>1
  <2>3. QED
    BY <1>2, <2>2
<1>10. QED
  BY <1>1, <1>4, <1>7, <1>8, <1>9

\* An extension comes before the token runs out, and a failed one waits for its retry:
\* one step of the clock, of the keepalive or of the socket.
LEMMA ClockStep ==
  ASSUME ClockInv, [StreamNext]_streamVars, Keepalive < Validity
  PROVE  ClockInv'
<1>0. Validity \in Nat \ {0} /\ Keepalive \in Nat \ {0}
  BY UserStreamAssumption
<1>1. ASSUME NEW answers \in BOOLEAN, Issue(answers) PROVE ClockInv'
  <2>1. CASE answers
    BY <1>0, <1>1, <2>1 DEF ClockInv, Issue
  <2>2. CASE ~answers
    BY <1>0, <1>1, <2>2 DEF ClockInv, Issue
  <2>3. QED
    BY <2>1, <2>2
<1>2. ASSUME UNCHANGED <<wall, extended, keepclock, failed>>, token' = token \/ token' = FALSE
      PROVE  ClockInv'
  <2>1. CASE token' = token
    BY <1>2, <2>1 DEF ClockInv
  <2>2. CASE token' = FALSE
    BY <1>2, <2>2 DEF ClockInv
  <2>3. QED
    BY <1>2, <2>1, <2>2
<1>3. ASSUME NEW answers \in BOOLEAN, TimerTick(answers) PROVE ClockInv'
  <2>1. token' = token /\ wall' = wall + 1
    BY <1>3 DEF TimerTick
  <2>2. CASE token /\ Due(wall' - keepclock)
    <3>1. /\ keepclock' = wall'
          /\ extended' = IF answers /\ wall' - extended < Validity THEN wall' ELSE extended
          /\ failed' = IF wall' - extended < Validity THEN ~answers ELSE failed
      BY <1>3, <2>2 DEF TimerTick
    <3>2. ~failed => wall' - extended < Validity
      BY <1>0, <2>1, <2>2 DEF ClockInv
    <3>3. ~failed' => answers /\ wall' - extended < Validity
      BY <3>1, <3>2
    <3>4. /\ wall' \in Nat /\ extended' \in Nat /\ keepclock' \in Nat
          /\ keepclock' <= wall' /\ extended' <= wall'
      BY <2>1, <3>1 DEF ClockInv
    <3>5. ASSUME ~failed' PROVE keepclock' <= extended' /\ wall' - extended' < Keepalive
      <4>1. extended' = wall' /\ keepclock' = wall'
        BY <3>1, <3>3, <3>5
      <4>2. wall' - wall' = 0 /\ 0 < Keepalive /\ wall' <= wall'
        <5>1. \A n \in Nat : n - n = 0 /\ n <= n
          OBVIOUS
        <5>2. 0 < Keepalive
          BY <1>0
        <5>3. QED
          BY <3>4, <5>1, <5>2
      <4>3. QED
        BY <4>1, <4>2
    <3>6. token' \in BOOLEAN /\ failed' \in BOOLEAN
      BY <2>1, <3>1 DEF ClockInv
    <3>7. QED
      BY <3>4, <3>5, <3>6 DEF ClockInv
  <2>3. CASE ~(token /\ Due(wall' - keepclock))
    <3>1. UNCHANGED <<keepclock, extended, failed>>
      BY <1>3, <2>3 DEF TimerTick
    <3>2. token => wall' - keepclock < Keepalive
      BY <1>0, <2>1, <2>3 DEF ClockInv, Due
    <3>3. (token /\ ~failed) => wall' - extended < Keepalive
      BY <1>0, <2>1, <3>2 DEF ClockInv
    <3>4. QED
      BY <2>1, <3>1, <3>3 DEF ClockInv
  <2>4. QED
    BY <2>2, <2>3
<1>4. QED
  BY <1>1, <1>2, <1>3
     DEF StreamNext, Open, DropStream, BackedOff, Message, MessageRaises, Executes, AnswerCloses,
         streamVars

\* A tally stays one with two of its counts changed.
LEMMA Tallies ==
  ASSUME NEW f \in [traded: Nat, booked: Nat, missed: Nat, nameless: Nat], NEW a \in Nat, NEW b \in Nat
  PROVE  /\ [f EXCEPT !.traded = a, !.missed = b] \in [traded: Nat, booked: Nat, missed: Nat, nameless: Nat]
         /\ [f EXCEPT !.booked = a, !.nameless = b] \in [traded: Nat, booked: Nat, missed: Nat, nameless: Nat]
OBVIOUS

\* Every fill is booked, missed or on its way, and a nameless one belongs to an order
\* that has gone: one step of the venue, the socket or the books.
LEMMA FillsStep ==
  ASSUME FillsInv, [StreamNext]_streamVars
  PROVE  FillsInv'
<1>0. Traded(wire) \in Nat /\ wire \in Seq({"TRADE", "FILLED"})
        /\ fills \in [traded: Nat, booked: Nat, missed: Nat, nameless: Nat]
        /\ fills.traded = fills.booked + fills.missed + Traded(wire)
        /\ (order = "open" => fills.nameless = 0)
  BY OnTheirWay DEF FillsInv
<1>a. \A t, b, m, x \in Nat : t = b + m + x =>
        (t + 1) - b - m = x + 1 /\ (t + 1) - b - (m + 1) = x
  OBVIOUS
<1>b. PICK t \in Nat : t = fills.traded
  BY <1>0
<1>c. PICK b \in Nat : b = fills.booked
  BY <1>0
<1>d. PICK m \in Nat : m = fills.missed
  BY <1>0
<1>e. PICK x \in Nat : x = Traded(wire)
  BY <1>0
<1>f. (t + 1) - b - m = x + 1 /\ (t + 1) - b - (m + 1) = x
  <2>1. t = b + m + x
    BY <1>0, <1>b, <1>c, <1>d, <1>e, Zenon
  <2>2. QED
    BY <1>a, <2>1
<1>1. ASSUME UNCHANGED <<wire, fills>>, order' = order \/ order' = "closed" PROVE FillsInv'
  BY <1>0, <1>1 DEF FillsInv, Traded
<1>3. ASSUME NEW w \in Seq({"TRADE", "FILLED"}), wire' = w, order' = order,
             fills' \in [traded: Nat, booked: Nat, missed: Nat, nameless: Nat],
             fills'.traded - fills'.booked - fills'.missed = Traded(w),
             order = "open" => fills'.nameless = fills.nameless
      PROVE  FillsInv'
  <2>1. Traded(wire)' = Traded(w) /\ Traded(w) \in Nat
    BY <1>3, OnTheirWay DEF Traded
  <2>2. fills'.traded = fills'.booked + fills'.missed + Traded(wire)'
    BY <1>3, <2>1
  <2>3. QED
    BY <1>0, <1>3, <2>2 DEF FillsInv
<1>4. CASE DropStream \/ MessageRaises
  <2>1. wire' = <<>> /\ fills' = [fills EXCEPT !.missed = @ + Traded(wire)] /\ order' = order
    BY <1>4 DEF DropStream, MessageRaises
  <2>2. <<>> \in Seq({"TRADE", "FILLED"}) /\ Traded(<<>>) = 0
    BY <1>0, OnTheirWay
  <2>3. /\ fills' \in [traded: Nat, booked: Nat, missed: Nat, nameless: Nat]
        /\ fills'.traded = fills.traded /\ fills'.booked = fills.booked
        /\ fills'.missed = fills.missed + Traded(wire) /\ fills'.nameless = fills.nameless
    <3>1. PICK k \in Nat : k = fills.missed + Traded(wire)
      BY <1>0
    <3>2. fills' = [fills EXCEPT !.missed = k]
      BY <1>0, <2>1, <3>1
    <3>3. /\ fills' \in [traded: Nat, booked: Nat, missed: Nat, nameless: Nat]
          /\ fills'.traded = fills.traded /\ fills'.booked = fills.booked
          /\ fills'.missed = k /\ fills'.nameless = fills.nameless
      BY <1>0, <3>2
    <3>4. QED
      BY <3>1, <3>3, Zenon
  <2>4. fills'.traded - fills'.booked - fills'.missed = 0
    BY <1>0, <2>3
  <2>5. QED
    BY <1>3, <2>1, <2>2, <2>3, <2>4
<1>5. CASE Message
  <2> DEFINE w == Tail(wire)
             booked == IF Head(wire) = "TRADE" THEN 1 ELSE 0
  <2>1. /\ wire # <<>> /\ wire' = w /\ order' = order
        /\ Head(wire) = "TRADE" =>
             fills' = [fills EXCEPT !.booked = @ + 1, !.nameless = @ + (IF order = "open" THEN 0 ELSE 1)]
        /\ Head(wire) # "TRADE" => fills' = fills
    BY <1>5 DEF Message, Decodes
  <2>2. w \in Seq({"TRADE", "FILLED"}) /\ Traded(w) \in Nat /\ Traded(wire) = Traded(w) + booked
    <3>1. w \in Seq({"TRADE", "FILLED"})
      BY <1>0, <2>1
    <3>2. Traded(w) \in Nat
      BY <3>1, OnTheirWay
    <3>3. Traded(wire) = Traded(w) + booked
      BY <1>0, <2>1, OnTheirWay
    <3>4. QED
      BY <3>1, <3>2, <3>3
  <2>4. fills' \in [traded: Nat, booked: Nat, missed: Nat, nameless: Nat]
          /\ fills'.traded = fills.traded /\ fills'.missed = fills.missed
          /\ fills'.booked = fills.booked + booked
          /\ (order = "open" => fills'.nameless = fills.nameless)
    <3>1. CASE Head(wire) = "TRADE"
      <4>1. fills' = [fills EXCEPT !.booked = @ + 1, !.nameless = @ + (IF order = "open" THEN 0 ELSE 1)]
        BY <2>1, <3>1
      <4>2. fills.nameless + (IF order = "open" THEN 0 ELSE 1) \in Nat
        BY <1>0
      <4>3. fills.booked + 1 \in Nat
        BY <1>0
      <4>4. fills' \in [traded: Nat, booked: Nat, missed: Nat, nameless: Nat]
        BY <1>0, <4>1, <4>2, <4>3, Tallies
      <4>5. QED
        BY <1>0, <3>1, <4>1, <4>4
    <3>2. CASE Head(wire) # "TRADE"
      BY <1>0, <2>1, <3>2
    <3>3. QED
      BY <3>1, <3>2
  <2>5. fills'.traded - fills'.booked - fills'.missed = Traded(w)
    <3>1. booked \in Nat
      OBVIOUS
    <3> HIDE DEF booked, w
    <3>2. /\ fills.traded \in Nat /\ fills.booked \in Nat /\ fills.missed \in Nat
          /\ fills.traded = fills.booked + fills.missed + Traded(wire)
      BY <1>0
    <3>3. \A p, c, d, y, k \in Int : p = c + d + (y + k) => p - (c + k) - d = y
      OBVIOUS
    <3>4. fills.traded - (fills.booked + booked) - fills.missed = Traded(w)
      BY <2>2, <3>1, <3>2, <3>3
    <3>5. QED
      BY <2>4, <3>4
  <2> HIDE DEF w, booked
  <2>6. QED
    BY <1>3, <2>1, <2>2, <2>4, <2>5
<1>7. ASSUME NEW last \in BOOLEAN, Executes(last) PROVE FillsInv'
  <2> DEFINE lines == IF last THEN <<"TRADE", "FILLED">> ELSE <<"TRADE">>
             w == wire \o lines
  <2>1. \/ /\ wire' = w /\ order' = order
           /\ fills' = [fills EXCEPT !.traded = @ + 1, !.missed = @]
        \/ /\ wire' = wire /\ order' = order
           /\ fills' = [fills EXCEPT !.traded = @ + 1, !.missed = @ + 1]
    BY <1>7, Zenon DEF Executes
  <2>2. w \in Seq({"TRADE", "FILLED"}) /\ Traded(w) = Traded(wire) + 1
    <3>1. CASE last
      BY <1>0, <3>1, OnTheirWay
    <3>2. CASE ~last
      BY <1>0, <3>2, OnTheirWay
    <3>3. QED
      BY <3>1, <3>2
  <2> HIDE DEF w
  <2>3. CASE wire' = w /\ order' = order /\ fills' = [fills EXCEPT !.traded = @ + 1, !.missed = @]
    <3>1. fills' \in [traded: Nat, booked: Nat, missed: Nat, nameless: Nat]
            /\ fills'.traded = fills.traded + 1 /\ fills'.booked = fills.booked
            /\ fills'.missed = fills.missed /\ fills'.nameless = fills.nameless
      <4>1. fills.traded + 1 \in Nat /\ fills.missed + 1 \in Nat /\ fills.missed \in Nat
        BY <1>0
      <4>2. fills' \in [traded: Nat, booked: Nat, missed: Nat, nameless: Nat]
        BY <1>0, <2>3, <4>1, Tallies
      <4>3. QED
        BY <1>0, <2>3, <4>2
    <3>2. fills'.traded - fills'.booked - fills'.missed = Traded(w)
      BY <1>b, <1>c, <1>d, <1>e, <1>f, <2>2, <3>1, Zenon
    <3>3. QED
      BY <1>3, <2>2, <2>3, <3>1, <3>2
  <2>4. CASE wire' = wire /\ order' = order /\ fills' = [fills EXCEPT !.traded = @ + 1, !.missed = @ + 1]
    <3>1. fills' \in [traded: Nat, booked: Nat, missed: Nat, nameless: Nat]
            /\ fills'.traded = fills.traded + 1 /\ fills'.booked = fills.booked
            /\ fills'.missed = fills.missed + 1 /\ fills'.nameless = fills.nameless
      <4>1. fills.traded + 1 \in Nat /\ fills.missed + 1 \in Nat /\ fills.missed \in Nat
        BY <1>0
      <4>2. fills' \in [traded: Nat, booked: Nat, missed: Nat, nameless: Nat]
        BY <1>0, <2>4, <4>1, Tallies
      <4>3. QED
        BY <1>0, <2>4, <4>2
    <3>2. fills'.traded - fills'.booked - fills'.missed = Traded(wire)
      BY <1>b, <1>c, <1>d, <1>e, <1>f, <3>1, Zenon
    <3>3. QED
      BY <1>0, <1>3, <2>4, <3>1, <3>2
  <2>5. QED
    BY <2>1, <2>3, <2>4
<1>8. CASE UNCHANGED streamVars
  BY <1>1, <1>8 DEF streamVars
<1>9. QED
  BY <1>1, <1>4, <1>5, <1>7, <1>8
     DEF StreamNext, Issue, Open, BackedOff, TimerTick, AnswerCloses

\* With keepalives more often than a token's life, the token of a socket dies only
\* after one of them failed, and no execution is lost unaccounted.
THEOREM TokensOutlive ==
  ASSUME Keepalive < Validity
  PROVE  StreamSpec => []TokenOutlivesSilence
<1>1. StreamInit => ClockInv /\ FillsInv
  <2>1. Traded(<<>>) = 0 /\ <<>> \in Seq({"TRADE", "FILLED"})
    <3>1. <<>> \in Seq({"TRADE", "FILLED"})
      OBVIOUS
    <3>2. QED
      BY <3>1, OnTheirWay
  <2>2. StreamInit => ClockInv
    <3>1. SUFFICES ASSUME StreamInit PROVE ClockInv
      OBVIOUS
    <3>2. /\ token = FALSE /\ failed = FALSE
          /\ wall = 0 /\ extended = 0 /\ keepclock = 0
      BY <3>1 DEF StreamInit
    <3>3. (token /\ ~failed) => keepclock <= extended /\ wall - extended < Keepalive
      BY <3>2, Zenon
    <3>4. token \in BOOLEAN /\ failed \in BOOLEAN
      BY <3>2, Zenon
    <3>5. wall \in Nat /\ extended \in Nat /\ keepclock \in Nat /\ keepclock <= wall /\ extended <= wall
      BY <3>2
    <3>6. QED
      BY <3>3, <3>4, <3>5, Zenon DEF ClockInv
  <2>3. StreamInit => FillsInv
    <3>1. SUFFICES ASSUME StreamInit PROVE FillsInv
      OBVIOUS
    <3>2. wire = <<>> /\ fills = [traded |-> 0, booked |-> 0, missed |-> 0, nameless |-> 0]
      BY <3>1 DEF StreamInit
    <3>3. Traded(wire) = 0
      BY <2>1, <3>2
    <3>4. QED
      BY <2>1, <3>2, <3>3 DEF FillsInv
  <2>4. QED
    BY <2>2, <2>3
<1>2. ClockInv /\ FillsInv /\ [StreamNext]_streamVars => ClockInv' /\ FillsInv'
  BY ClockStep, FillsStep
<1>3. ClockInv /\ FillsInv => TokenOutlivesSilence
  BY UserStreamAssumption DEF ClockInv, FillsInv, TokenOutlivesSilence, Alive
<1>4. QED
  BY <1>1, <1>2, <1>3, PTL DEF StreamSpec
=============================================================================
