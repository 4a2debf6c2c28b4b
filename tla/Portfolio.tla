------------------------------ MODULE Portfolio ------------------------------
(***************************************************************************)
(* From what the strategies ask for to what the account holds: the         *)
(* allocator's weights, the netting of one event's signals, and the        *)
(* pipeline's order for the difference (layers/l4_portfolio and            *)
(* Pipeline.on_market_event).  An order fills at once or not at all; what   *)
(* may happen in between is in Pipeline.                                   *)
(*                                                                         *)
(* Weights are in eighths and the multiplier in halves, so a position of   *)
(* one unit at full weight is Full * Twice.  How urgent a signal is decides *)
(* how its order is placed, which is Pipeline's Maker, and is left out.     *)
(***************************************************************************)
EXTENDS Integers, Sequences, FiniteSets, FiniteSetsExt, SequencesExt

CONSTANTS
  Trader,     \* the strategies, in the order the pipeline asks them
  Symbol,     \* the instruments, two for a trade of two legs
  MaxEvents,  \* the model handles this many events that had a signal
  Estimates,  \* is there ever the history to size by risk?
  SharedLegs, \* may the two legs of a trade be on one instrument?
  Refusals    \* may the risk service refuse, and halve the multiplier?

ASSUME PortfolioAssumption ==
  /\ Trader \in Seq(ToSet(Trader)) /\ Len(Trader) >= 1
  /\ Cardinality(ToSet(Trader)) = Len(Trader)
  /\ IsFiniteSet(Symbol) /\ MaxEvents \in Nat
  /\ Estimates \in BOOLEAN /\ SharedLegs \in BOOLEAN /\ Refusals \in BOOLEAN

Traders == ToSet(Trader)
Full == 8
Twice == 2                        \* a multiplier of one
NoWeights == [s \in {} |-> 0]     \* Allocator.weights before the first solve
Distance(n, m) == IF n < m THEN m - n ELSE n - m

VARIABLES
  wants,    \* what each strategy last asked for, per instrument
  holds,    \* the account's positions
  weights,  \* Allocator.weights
  solveDue, \* has rebalance_ns passed since the last solve?
  events,   \* how many events had a signal
  unmet     \* history: the instruments whose latest target was refused

portfolioVars == <<wants, holds, weights, solveDue, events, unmet>>

-----------------------------------------------------------------------------
(* Allocator.                                                              *)

Equal == [s \in Traders |-> Full \div Len(Trader)]
SumOf(w) == SumFunctionOnSet(w, DOMAIN w)
\* risk_parity_weights: MIN_WEIGHT and MAX_WEIGHT, the cap relaxed to equal
\* shares when there are too few strategies for it.  solve rounds each weight to
\* its last unit, six decimals there and an eighth here, so that a book of weights
\* is off the whole by up to half a unit for each.
Cap == Max({(2 * Full) \div 5, Full \div Len(Trader)})
Solutions == IF Len(Trader) = 1 THEN {[s \in Traders |-> Full]}
             ELSE {w \in [Traders -> 1..Cap] : 2 * Distance(SumOf(w), Full) <= Len(Trader)}

\* _apply_correlation_cuts: pair by pair, in the order of the strategies
CutBy(w, cut) ==
  CASE cut.action = "halve" -> [w EXCEPT ![cut.a] = @ \div 2, ![cut.b] = @ \div 2]
    [] cut.action = "disable" -> [w EXCEPT ![cut.worse] = 0]
    [] OTHER -> w
Pairs2 == {p \in (1..Len(Trader)) \X (1..Len(Trader)) : p[1] < p[2]}
Breaches ==
  {[a |-> Trader[p[1]], b |-> Trader[p[2]], action |-> act, worse |-> w] :
     p \in Pairs2, act \in {"none", "halve", "disable"}, w \in Traders}
Judged(cut) == cut.worse \in {cut.a, cut.b}

\* solve: when it is due, once there are signals; shares are equal until every
\* strategy has a history
Outcomes == {CutBy(x, cut) : x \in Solutions, cut \in {c \in Breaches : Judged(c)}}
Solved(w) ==
  IF ~solveDue THEN {w} ELSE {Equal} \cup IF Estimates THEN Outcomes ELSE {}

-----------------------------------------------------------------------------
(* net_targets.                                                            *)

Weight(w, s) == IF w = NoWeights THEN Full ELSE IF s \in DOMAIN w THEN w[s] ELSE 0

\* one pass over the signals: a strategy's later word replaces its earlier one
On(k, signals) == {i \in DOMAIN signals : signals[i].symbol = k}
LastWord(signals, on, s) == signals[Max({i \in on : signals[i].strategy = s})]

NetFor(k, signals, w, m) ==
  LET on == On(k, signals)
  IN [s \in {signals[i].strategy : i \in on} |->
        LastWord(signals, on, s).target * m * Weight(w, s)]
KeysThatWant(signals) ==
  {signals[i].symbol : i \in {j \in DOMAIN signals : signals[j].target # 0}}
\* every instrument somebody spoke of has a target, a target of zero too
Keys(signals) == {signals[i].symbol : i \in DOMAIN signals}
Total(by) == SumFunctionOnSet(by, DOMAIN by)
NetTargets(signals, w, m) == [k \in Keys(signals) |-> Total(NetFor(k, signals, w, m))]

-----------------------------------------------------------------------------
\* what one strategy may say on one event: nothing, a target, or two legs.  The
\* live wiring gives the legs of the carry trade one venue and one symbol
\* (live/wiring.py: spot_venue is the perpetual's venue).
Opinions(s) ==
  LET At(k, t) == [strategy |-> s, symbol |-> k, target |-> t] IN
  {<<>>}
    \cup {<<At(k, t)>> : k \in Symbol, t \in -1..1}
    \cup {<<At(k, t), At(l, -t)>> : k \in Symbol, l \in Symbol, t \in -1..1}
Sound(signals) == SharedLegs \/ \A i, j \in DOMAIN signals : i # j => signals[i].symbol # signals[j].symbol

Chorus == {f \in [Traders -> UNION {Opinions(s) : s \in Traders}] :
             \A s \in Traders : f[s] \in Opinions(s) /\ Sound(f[s])}

\* the pipeline asks them in their order
Said(spoken) == FlattenSeq([i \in 1..Len(Trader) |-> spoken[Trader[i]]])

Wanted(s, k, spoken) ==
  LET on == On(k, spoken[s])
  IN IF on = {} THEN wants[s][k]
     ELSE SumFunctionOnSet([i \in on |-> spoken[s][i].target], on)

\* on_market_event, from the strategies to the fills
MarketEvent ==
  /\ events < MaxEvents
  /\ \E spoken \in Chorus,
        m \in IF Refusals THEN {1, Twice} ELSE {Twice} :
       LET signals == Said(spoken) IN
       /\ signals # <<>>
       /\ wants' = [s \in Traders |-> [k \in Symbol |-> Wanted(s, k, spoken)]]
       /\ weights' \in Solved(weights)
       /\ solveDue' = FALSE
       /\ LET targets == NetTargets(signals, weights', m) IN
          \E refused \in IF Refusals THEN SUBSET DOMAIN targets ELSE {{}} :
            LET met == DOMAIN targets \ refused IN
            /\ holds' = [k \in Symbol |-> IF k \in met THEN targets[k] ELSE holds[k]]
            /\ unmet' = (unmet \ met) \cup refused
       /\ events' = events + 1

DayPasses ==
  /\ ~solveDue
  /\ solveDue' = TRUE
  /\ UNCHANGED <<wants, holds, weights, events, unmet>>

PortfolioInit ==
  /\ wants = [s \in Traders |-> [k \in Symbol |-> 0]]
  /\ holds = [k \in Symbol |-> 0]
  /\ weights = NoWeights /\ solveDue = TRUE
  /\ events = 0 /\ unmet = {}

PortfolioNext == MarketEvent \/ DayPasses
PortfolioSpec == PortfolioInit /\ [][PortfolioNext]_portfolioVars

-----------------------------------------------------------------------------
(* Properties.                                                             *)

\* The account is never on a side of an instrument that no strategy is on, and is
\* flat where none wants anything: over events of which some strategies said nothing,
\* weights solved again and cut, a halved multiplier, and targets refused.  Only
\* where the latest target itself was refused may the older position stand.
NeverAgainst ==
  \A k \in Symbol \ unmet :
    /\ (\A s \in Traders : wants[s][k] >= 0) => holds[k] >= 0
    /\ (\A s \in Traders : wants[s][k] <= 0) => holds[k] <= 0

\* netting.py:47, "Net offsetting desired exposures across strategies": while no
\* order is refused the account holds what the strategies want together.
DesiresStand ==
  (weights # NoWeights /\ unmet = {}) => \A k \in Symbol :
    holds[k] = SumFunctionOnSet([s \in Traders |-> wants[s][k] * Twice * weights[s]], Traders)
=============================================================================
