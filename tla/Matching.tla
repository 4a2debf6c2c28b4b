------------------------------- MODULE Matching -------------------------------
(***************************************************************************)
(* The simulated venue of adapters/sim.py, which the paper and the shadow  *)
(* session and every backtest trade against: one symbol's book as the      *)
(* market data show it, the orders resting in it behind the queue they     *)
(* joined, the time an order takes to arrive, and the faults a test        *)
(* injects.  The book is never used up by our own trades.                  *)
(***************************************************************************)
EXTENDS Integers, FiniteSets, FiniteSetsExt, Functions

CONSTANTS
  Ticket,      \* the client order ids used
  Quoted,      \* prices
  Depth,       \* the largest quantity at a price
  Lots,        \* the quantity of an order
  MaxNews,     \* the market's events in the model
  OrderDelays, \* order_latency_ns may be any of these, in ticks of the venue's clock
  ModelQueue   \* SimAdapter.model_queue

ASSUME MatchingAssumption ==
  /\ IsFiniteSet(Ticket) /\ Quoted \subseteq Nat \ {0} /\ Depth \in Nat
  /\ Lots \in Nat \ {0} /\ MaxNews \in Nat /\ OrderDelays \subseteq Nat /\ ModelQueue \in BOOLEAN

NoBookYet == [buy |-> [p \in Quoted |-> 0], sell |-> [p \in Quoted |-> 0], known |-> FALSE]
Sides == {"buy", "sell"}
Over(o) == o.status \in {"FILLED", "CANCELLED", "REJECTED"}
Unplaced == [status |-> "NONE", filled |-> 0, waited |-> 0]

VARIABLES
  clock,   \* SimAdapter.now
  depths,  \* SimAdapter.books: what rests to buy and to sell, at each price
  resting, \* SimAdapter._orders
  net,     \* SimAdapter._positions
  delay,   \* SimAdapter.order_latency_ns
  news     \* history: how many market events there were

matchingVars == <<clock, depths, resting, net, delay, news>>

-----------------------------------------------------------------------------
(* SimBook.                                                                *)

Levels(side) == {p \in Quoted : depths[side][p] > 0}
Opposite(side) == IF side = "buy" THEN "sell" ELSE "buy"
\* the other side's best price is at least, or more than, as good as the order's
Reaches(side, offered, price) == IF side = "buy" THEN offered <= price ELSE offered >= price
Beyond(side, offered, price) == IF side = "buy" THEN offered < price ELSE offered > price

Crosses(o) == o.price # 0 /\ \E p \in Levels(Opposite(o.side)) : Reaches(o.side, p, o.price)
Swept(o) == o.price # 0 /\ \E p \in Levels(Opposite(o.side)) : Beyond(o.side, p, o.price)

\* walk: a taker fills whole from all the levels there are, whatever its limit,
\* or not at all
Walks(side, quantity) ==
  MapThenSumSet(LAMBDA p : depths[Opposite(side)][p], Levels(Opposite(side))) >= quantity

QueueAhead(side, price) == IF price = 0 THEN 0 ELSE depths[side][price]

-----------------------------------------------------------------------------
\* _fill
Directed(side, quantity) == IF side = "buy" THEN quantity ELSE -quantity
Filled(o, quantity) ==
  [o EXCEPT !.filled = @ + quantity,
            !.status = IF o.filled + quantity >= Lots THEN "FILLED" ELSE "PARTIAL"]
\* what came to it by waiting, as a history of the order
Waited(o, quantity) == [Filled(o, quantity) EXCEPT !.waited = @ + quantity]

Entering(side, kind, price, post) ==
  [status |-> "ACKED", side |-> side, kind |-> kind, price |-> price, post |-> post,
   filled |-> 0, queue |-> QueueAhead(side, price), volume |-> 0,
   arrives |-> clock + delay, taker |-> FALSE,
   joined |-> QueueAhead(side, price), waited |-> 0]

TakesNow(o) ==
  \/ o.kind = "market"
  \/ o.kind = "limit" /\ ~o.post /\ Crosses(o)

\* what place makes of a new order before it answers; a fault may fill one half
Arrived(o, half) ==
  CASE delay > 0 /\ depths.known -> [o EXCEPT !.taker = TakesNow(o)]
    [] delay = 0 /\ depths.known /\ o.kind = "market" ->
         IF Walks(o.side, Lots) THEN Filled(o, IF half THEN Lots \div 2 ELSE Lots)
                                ELSE [o EXCEPT !.status = "REJECTED"]
    [] delay = 0 /\ depths.known /\ o.kind = "limit" /\ TakesNow(o) /\ Walks(o.side, Lots) ->
         Filled(o, Lots)
    [] OTHER -> o

\* place: whether or not the answer reaches the caller, which is Execution's
Place(i, side, kind, price, post, half) ==
  LET o == Arrived(Entering(side, kind, price, post), half) IN
  /\ resting[i].status = "NONE"
  /\ kind = "market" => price = 0 /\ ~post
  /\ kind = "limit" => price # 0 /\ ~half
  /\ resting' = [resting EXCEPT ![i] = o]
  /\ net' = net + Directed(side, o.filled)
  /\ UNCHANGED <<clock, depths, delay, news>>

CancelResting(i) ==
  /\ resting[i].status # "NONE" /\ ~Over(resting[i])
  /\ resting' = [resting EXCEPT ![i].status = "CANCELLED"]
  /\ UNCHANGED <<clock, depths, net, delay, news>>

-----------------------------------------------------------------------------
(* step: every order that is at work, against the book.                    *)

TakesOnArrival(o) ==
  IF Walks(o.side, Lots - o.filled) THEN Filled([o EXCEPT !.taker = FALSE], Lots - o.filled)
  ELSE [o EXCEPT !.taker = FALSE, !.status = "REJECTED"]

KeepsQueue(o, quantity) == o
\* the volume beyond the queue it joined; what is filled is used up with it
UsesUp(o, quantity) == [o EXCEPT !.queue = @ + quantity]
Rested(o) ==
  LET remaining == Lots - o.filled
      reaches == o.volume - o.queue
      fillable == Min({remaining, reaches})
  IN
  CASE ~ModelQueue -> IF Crosses(o) THEN Filled(o, remaining) ELSE o
    [] ModelQueue /\ reaches <= 0 -> IF Swept(o) THEN Filled(o, remaining) ELSE o
    [] OTHER -> Waited(UsesUp(o, fillable), fillable)

Stepped(o) ==
  CASE o.status = "NONE" \/ Over(o) -> o
    [] o.status # "NONE" /\ ~Over(o) /\ (clock < o.arrives \/ ~depths.known) -> o
    [] o.status # "NONE" /\ ~Over(o) /\ clock >= o.arrives /\ depths.known /\ o.taker ->
         TakesOnArrival(o)
    [] OTHER -> IF o.price = 0 \/ Lots <= o.filled THEN o ELSE Rested(o)

Gained(i, after) ==
  IF after.status = "NONE" THEN 0 ELSE Directed(after.side, after.filled - resting[i].filled)

Match ==
  /\ resting' = [i \in Ticket |-> Stepped(resting[i])]
  /\ net' = net + SumFunctionOnSet([i \in Ticket |-> Gained(i, Stepped(resting[i]))], Ticket)
  /\ UNCHANGED <<clock, depths, delay, news>>

-----------------------------------------------------------------------------
(* apply_market_event: the clock follows the data.                         *)

Uncrossed(b) == \A p, q \in Quoted : b.buy[p] > 0 /\ b.sell[q] > 0 => p < q
Quotation(side, p, quantity) == [depths EXCEPT ![side][p] = quantity, !.known = TRUE]

BookMoves(side, p, quantity, ticks) ==
  /\ news < MaxNews /\ news' = news + 1
  /\ depths[side][p] # quantity /\ Uncrossed(Quotation(side, p, quantity))
  /\ depths' = Quotation(side, p, quantity)
  /\ clock' = clock + ticks
  /\ UNCHANGED <<resting, net, delay>>

\* observe_trade: an aggressor from the other side, at our price or through it
Hits(o, aggressor, price) ==
  /\ o.status # "NONE" /\ ~Over(o)
  /\ o.price # 0 /\ aggressor # o.side /\ Reaches(o.side, price, o.price)

Trades(aggressor, price, quantity, ticks) ==
  /\ news < MaxNews /\ news' = news + 1
  /\ resting' = [i \in Ticket |->
       IF Hits(resting[i], aggressor, price) THEN [resting[i] EXCEPT !.volume = @ + quantity]
                                             ELSE resting[i]]
  /\ clock' = clock + ticks
  /\ UNCHANGED <<depths, net, delay>>

MatchingInit ==
  /\ clock = 0 /\ depths = NoBookYet /\ net = 0 /\ news = 0
  /\ delay \in OrderDelays
  /\ resting = [i \in Ticket |-> Unplaced]

MatchingNext ==
  \/ \E i \in Ticket, side \in Sides, kind \in {"market", "limit"}, price \in Quoted \cup {0},
        post, half \in BOOLEAN : Place(i, side, kind, price, post, half)
  \/ \E i \in Ticket : CancelResting(i)
  \/ Match
  \/ \E side \in Sides, p \in Quoted, n \in 0..Depth, ticks \in 0..1 : BookMoves(side, p, n, ticks)
  \/ \E side \in Sides, p \in Quoted, n \in 1..Depth, ticks \in 0..1 : Trades(side, p, n, ticks)

MatchingSpec == MatchingInit /\ [][MatchingNext]_matchingVars

-----------------------------------------------------------------------------
TradedBy(o) == IF o.status = "NONE" THEN 0 ELSE Directed(o.side, o.filled)

\* What an order gets by waiting is what traded at its price beyond the queue
\* it joined, each lot of it once, over any number of trades, partial fills and
\* moves of the book; an order that was refused, or has not arrived, has
\* traded nothing; and the position is the fills.
FillsAreEarned ==
  /\ \A i \in Ticket :
       LET o == resting[i] IN
       /\ o.status = "REJECTED" => o.filled = 0
       /\ o.status # "NONE" =>
            /\ o.waited <= Max({0, o.volume - o.joined})
            /\ o.filled <= Lots
            /\ clock < o.arrives => o.filled = 0
  /\ net = SumFunctionOnSet([i \in Ticket |-> TradedBy(resting[i])], Ticket)
=============================================================================
