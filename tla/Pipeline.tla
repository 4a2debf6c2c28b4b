------------------------------ MODULE Pipeline ------------------------------
(***************************************************************************)
(* The order path of pipeline.py for one instrument: a strategy's target   *)
(* is compared with the booked position and with what is in flight, the    *)
(* difference becomes an order, an order that rests too long is replaced   *)
(* by one that crosses, and every fill is booked.                          *)
(*                                                                         *)
(* A market event is handled in several calls of the venue.  They block    *)
(* the event loop, so no fill is delivered between them; but a live venue  *)
(* goes on trading meanwhile.  handler is the place the handler has        *)
(* reached.                                                                *)
(***************************************************************************)
EXTENDS Execution, FiniteSetsExt, Functions

CONSTANTS
  Targets,  \* the target positions the strategy may ask for
  Steady,   \* does the strategy keep its first target?
  Maker     \* are its signals maker_preferred, so that orders rest first?

ASSUME PipelineAssumption ==
  /\ IsFiniteSet(Order) /\ Order = 1..Cardinality(Order)
  /\ Targets \subseteq Int /\ Targets # {} /\ IsFiniteSet(Targets)
  /\ \A t, u \in Targets \cup {0} : t - u <= Qty \* no order is larger than Qty
  /\ Steady \in BOOLEAN /\ Maker \in BOOLEAN /\ Lossy = {}

VARIABLES
  target,    \* the netted target of the event in hand
  position,  \* the booked position, as risk.state.position_qty reads it
  side,      \* 1 for a buy, -1 for a sell
  next,      \* the sequence number of the next client order id
  resting,   \* Pipeline._fallbacks: the orders to be replaced if they rest
  handler    \* how far the handler of the event in hand has come

pipelineVars == <<machine, venue, transit, target, position, side, next, resting, handler>>

Idle == [at |-> "idle"]
Fallbacks(due) == [at |-> "fallbacks", due |-> due]
Taker(due, c, quantity) ==
  [at |-> "taker", due |-> due, replaced |-> c, quantity |-> quantity]
Dead == [at |-> "dead"]

Sum(f) == SumFunctionOnSet(f, Order)

\* Executor.in_flight
InFlightTotal == Sum([c \in Order |-> side[c] * InFlight(c)])

PipelineInit ==
  /\ Init
  /\ target \in Targets
  /\ position = 0
  /\ side = [c \in Order |-> 0]
  /\ next = 1
  /\ resting = {}
  /\ handler = Idle

-----------------------------------------------------------------------------
(* on_market_event                                                         *)

\* An event arrives: some of the resting orders are past their deadline, and
\* the strategies name a target.  Paper and backtest hand over every fill
\* before they take the next event.
Begin ==
  /\ handler = Idle
  /\ \A c \in Order : InOrder(c)
  /\ \E due \in SUBSET resting : handler' = Fallbacks(due)
  /\ IF Steady THEN UNCHANGED target ELSE target' \in Targets
  /\ UNCHANGED <<machine, venue, transit, position, side, next, resting>>

ReplaceBy(c, entries, quantity) ==
  /\ handler.at = "fallbacks" /\ c \in handler.due
  /\ resting' = entries
  /\ IF IsTerminal(machine[c]) \/ Remaining(machine[c]) <= 0
       THEN /\ handler' = Fallbacks(handler.due \ {c})
            /\ UNCHANGED <<machine, venue, transit>>
       ELSE /\ Cancel(c)
            /\ handler' = IF IsTerminal(machine'[c])
                            THEN Taker(handler.due \ {c}, c, quantity)
                            ELSE Fallbacks(handler.due \ {c})
  /\ UNCHANGED <<target, position, side, next>>

ReplaceKeepingEntry(c) == ReplaceBy(c, resting, Remaining(machine[c]))
ReplaceWhole(c) == ReplaceBy(c, resting \ {c}, machine[c].quantity)

\* One turn of _process_taker_fallbacks: the entry is dropped whatever
\* happens, and the taker's quantity is what was left before the cancel.
Replace(c) == ReplaceBy(c, resting \ {c}, Remaining(machine[c]))

\* The next client order id goes to the venue for at most the quantity asked:
\* the filters round it down and the risk service may reduce it.
PlaceNext(direction, quantity) ==
  /\ next \in Order
  /\ \E q \in 1..quantity : Submit(next, q)
  /\ side' = [side EXCEPT ![next] = direction]
  /\ next' = next + 1

\* The filters or the risk service refuse the order, or there is no price.
Refused == UNCHANGED <<machine, venue, transit, side, next>>

Cross ==
  /\ handler.at = "taker"
  /\ PlaceNext(side[handler.replaced], handler.quantity) \/ Refused
  /\ handler' = Fallbacks(handler.due)
  /\ UNCHANGED <<target, position, resting>>

\* L4 to L6: the change of position that neither the booked position nor the
\* working orders already account for.
Delta == target - position - InFlightTotal

TradeFor(delta) ==
  /\ handler = Fallbacks({})
  /\ \/ /\ delta # 0
        /\ PlaceNext(IF delta > 0 THEN 1 ELSE -1, IF delta > 0 THEN delta ELSE -delta)
        /\ resting' = IF Maker /\ machine'[next].status = "ACKED"
                        THEN resting \cup {next} ELSE resting
     \/ Refused /\ UNCHANGED resting
  /\ handler' = Idle
  /\ UNCHANGED <<target, position>>

TradeFromPosition == TradeFor(target - position)
Trade == TradeFor(Delta)

-----------------------------------------------------------------------------
(* on_fill, and what happens outside the event loop                        *)

Illegal(c, q) == OnFill([machine[c] EXCEPT !.raised = FALSE], q).raised

FillSwallowed(c, q) ==
  /\ handler = Idle
  /\ DeliverFill(c, q)
  /\ IF Illegal(c, q)
       THEN UNCHANGED <<position, resting>>
       ELSE /\ position' = position + side[c] * q
            /\ resting' = IF IsTerminal(machine'[c]) THEN resting \ {c} ELSE resting
  /\ UNCHANGED <<target, side, next, handler>>

\* Pipeline.on_fill: the executor first, the books after it.  A fill the machine
\* refuses is never booked, and the error ends the loop that delivered it.
Fill(c, q) ==
  /\ handler = Idle
  /\ DeliverFill(c, q)
  /\ IF Illegal(c, q)
       THEN handler' = Dead /\ UNCHANGED <<position, resting>>
       ELSE /\ position' = position + side[c] * q
            /\ resting' = IF IsTerminal(machine'[c]) THEN resting \ {c} ELSE resting
            /\ UNCHANGED handler
  /\ UNCHANGED <<target, side, next>>

\* A simulated venue moves between the events, a live one at any time.  The user
\* stream does not drop here: Execution and Session see to that.
Venue ==
  /\ \E c \in Order : /\ c \in Overtakes \/ handler = Idle
                      /\ VenueExpire(c) \/ \E q \in 1..Qty : VenueFill(c, q)
  /\ UNCHANGED <<target, position, side, next, resting, handler>>

PipelineNext ==
  \/ Begin
  \/ \E c \in Order : Replace(c)
  \/ Cross
  \/ Trade
  \/ \E c \in Order, q \in 1..Qty : Fill(c, q)
  \/ Venue

PipelineSpec == PipelineInit /\ [][PipelineNext]_pipelineVars

\* Events keep coming and the clock with them, so a deadline passes some time;
\* the event loop finishes what it started and reads the stream of fills.
BeginLate == Begin /\ handler'.due = resting
PipelineFairness ==
  /\ SF_pipelineVars(BeginLate)
  /\ WF_pipelineVars(Cross) /\ WF_pipelineVars(Trade)
  /\ \A c \in Order : /\ WF_pipelineVars(Replace(c))
                      /\ WF_pipelineVars(\E q \in 1..Qty : Fill(c, q))
PipelineFairSpec == PipelineSpec /\ PipelineFairness

-----------------------------------------------------------------------------
(* Properties                                                              *)

\* What could still trade in one direction.
Reach(direction) == Sum([c \in Order |-> IF side[c] = direction THEN Working(c) ELSE 0])

\* A strategy that keeps its target never gets more than it asked for, whichever
\* of the working orders fill and whichever requests time out: the pipeline
\* does not order the same position twice.
NoOvershoot ==
  /\ position + Reach(1) <= Max({0, target})
  /\ position - Reach(-1) >= Min({0, target})

\* However the target moves, what is booked and what is in flight never add up to
\* a position outside the targets asked for.
CommittedWithinTargets ==
  position + InFlightTotal \in Min(Targets \cup {0})..Max(Targets \cup {0})

\* The booked position is the venue's up to the fills still in transit: no fill is
\* booked twice, and the only one ever left out is the fill that ended the loop, of
\* an order whose machine refused it.
Traded(c) == side[c] * (venue[c].filled - transit[c])
Unbooked == Sum([c \in Order |-> Traded(c)]) - position
BooksMatchVenue ==
  IF handler # Dead THEN Unbooked = 0
  ELSE \E c \in Order, q \in 1..Qty : machine[c].raised /\ Unbooked = side[c] * q

\* The order that crosses replaces at most what the order it replaces left open,
\* as the executor knows it after the cancel: "placing the taker anyway would
\* double the position".
TakerFits ==
  handler.at = "taker" => handler.quantity <= Remaining(machine[handler.replaced])

\* Every order that was left resting is looked at again once its deadline passed,
\* and then never a second time.
FallbackFires == \A c \in Order : c \in resting ~> [](c \notin resting)

=============================================================================
