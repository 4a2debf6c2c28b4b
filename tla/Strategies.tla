----------------------------- MODULE Strategies -----------------------------
(***************************************************************************)
(* The five strategies of layers/l3_strategy, as what each remembers       *)
(* between two snapshots and what it asks of the portfolio.  Features are  *)
(* inputs on small scales; a feature that is missing is Absent and one     *)
(* behaviour is of one strategy.                                           *)
(*                                                                         *)
(* A target is the sign of the position asked for: sizes are set once, at  *)
(* the entry, and never again.                                             *)
(***************************************************************************)
EXTENDS Integers, Sequences, FiniteSets, FiniteSetsExt

CONSTANTS
  Quote,     \* the prices a snapshot may show
  LastTick   \* the model's clock stops here

ASSUME StrategiesAssumption ==
  /\ Quote \subseteq Nat \ {0} /\ LastTick \in Nat

Absent == -9
NoPosition == [sign |-> 0]   \* no position
Kind == {"trend", "cascade", "carry", "dispersion", "pairs"}
Entry == 2        \* TrendParams, FundingCarryParams, StatArbParams, DispersionParams
Exit == 1
PairStop == 3     \* StatArbParams.stop_z
\* z-scores, trend estimates and rates, on and off each threshold
Reading == {-Entry, 0, Exit, Entry, PairStop}
MaxHold == 2      \* ticks a position of cascade or dispersion is held
Interval == 1     \* DispersionParams' funding interval, in ticks

VARIABLES
  kind,    \* the strategy of this behaviour
  memory,  \* what it remembers
  asked,   \* the targets of its last signals, one per leg
  tick     \* the clock

strategyVars == <<kind, memory, asked, tick>>

Abs(n) == IF n < 0 THEN -n ELSE n
SignOf(n) == IF n > 0 THEN 1 ELSE -1
Optional(S) == S \cup {Absent}

Flat1 == <<0>>
Flat2 == <<0, 0>>
Step(m, targets) == [memory |-> m, asked |-> targets]
Silent(m) == Step(m, asked)          \* an empty sequence: no opinion

-----------------------------------------------------------------------------
(* trend.py: long strength, short weakness, one leg.                       *)

TrendFeatures ==
  [price: Optional(Quote), signal: Optional(Reading), breakout: Optional({-1, 1}),
   sized: BOOLEAN, gap: {1, 2}]

StopHit(position, price) == (price - position.stop) * position.sign <= 0

TrendManaged(m, f) ==
  IF StopHit(m, f.price) \/ f.signal * m.sign < Exit THEN Step(NoPosition, Flat1) ELSE Silent(m)

Trend(m, f) ==
  CASE f.price = Absent \/ f.signal = Absent -> Silent(m)
    [] f.price # Absent /\ f.signal # Absent /\ m.sign # 0 -> TrendManaged(m, f)
    [] OTHER ->
       LET sign == SignOf(f.signal) IN
       IF /\ f.sized /\ Abs(f.signal) >= Entry
          /\ f.breakout # Absent => f.breakout * sign >= 0
       THEN Step([sign |-> sign, stop |-> f.price - f.gap * sign], <<sign>>)
       ELSE Silent(m)

-----------------------------------------------------------------------------
(* cascade.py: an episode of forced flow, and the position that fades it.  *)
(* A flow of 2 is a cascade, 1 has decayed to half of it, 0 is quiet.      *)

CascadeFeatures == [price: Optional(Quote), pressure: Optional(-2..2)]
Pressure == 2

NoEpisode == [peak |-> 0, sign |-> -1, extreme |-> 0, origin |-> 0, last |-> Absent]
\* quiet_price survives the episode
CascadeFresh == [open |-> NoPosition, episode |-> NoEpisode, quiet |-> Absent]

Worse(e, price) == IF e.sign < 0 THEN Min({e.extreme, price}) ELSE Max({e.extreme, price})
WithExtreme(e, price) ==
  IF e.peak = 0 THEN e
  ELSE [e EXCEPT !.extreme = IF @ = 0 THEN price ELSE Worse(e, price)]

\* _track_episode
Tracked(m, pressure, price) ==
  LET quiet == IF m.episode.peak = 0 THEN price ELSE m.quiet
      started == IF m.episode.peak = 0 THEN [m.episode EXCEPT !.origin = quiet] ELSE m.episode
      stronger == Abs(pressure) >= started.peak
      over == m.episode.last = Absent \/ tick - m.episode.last > MaxHold
      forcedTo == [started EXCEPT
        !.last = tick,
        !.peak = IF stronger THEN Abs(pressure) ELSE @,
        !.sign = IF stronger THEN SignOf(pressure) ELSE @]
      episode == CASE pressure # 0 -> forcedTo
                   [] pressure = 0 /\ over -> NoEpisode
                   [] OTHER -> m.episode
  IN [m EXCEPT !.quiet = quiet, !.episode = WithExtreme(episode, price)]
\* what an episode that has decayed and turned is worth entering for; prices are
\* in units in which the thirds and halves of a depth are whole
Fades(m, pressure, price) ==
  LET e == m.episode
      sign == IF e.sign < 0 THEN 1 ELSE -1
      depth == Abs(e.origin - e.extreme)
  IN /\ e.peak >= Pressure /\ 2 * Abs(pressure) <= e.peak
     /\ depth > 0
     /\ 8 * (price - e.extreme) * sign >= depth
     /\ (2 * e.extreme + depth * sign - 2 * price) * sign > 0
Faded(m, price) ==
  LET e == m.episode
      sign == IF e.sign < 0 THEN 1 ELSE -1
      depth == Abs(e.origin - e.extreme)
  IN [sign |-> sign, at |-> price, opened |-> tick,
      twiceStop |-> 2 * e.extreme - depth * sign,
      twiceTarget |-> 2 * e.extreme + depth * sign]

\* _manage: the stop, then the target, then the time
CascadeEnds(p, price) ==
  \/ (2 * price - p.twiceStop) * p.sign <= 0
  \/ (2 * price - p.twiceTarget) * p.sign >= 0
  \/ tick - p.opened >= MaxHold
\* a position that ends and tells nobody
CascadeGivesUp(m) == Silent([m EXCEPT !.open = NoPosition])
CascadeClosed(m) == Step([m EXCEPT !.open = NoPosition], Flat1)

Cascade(m, f) ==
  LET next == Tracked(m, f.pressure, f.price) IN
  CASE f.price = Absent -> Silent(m)
    [] f.price # Absent /\ m.open.sign # 0 ->
         IF CascadeEnds(m.open, f.price) THEN CascadeClosed(m) ELSE Silent(m)
    [] f.price # Absent /\ m.open.sign = 0 /\ f.pressure = Absent -> Silent(m)
    [] OTHER ->
         IF Fades(next, f.pressure, f.price)
           THEN Step([next EXCEPT !.open = Faded(next, f.price), !.episode = NoEpisode],
                     <<Faded(next, f.price).sign>>)
           ELSE Silent(next)

-----------------------------------------------------------------------------
(* funding_carry.py: short the perpetual and long the spot while funding is *)
(* unusually high; without a spot venue the one leg is for research only.  *)

CarryFeatures ==
  [price: Optional(Quote), z: Optional(Reading), annual: {-1, 1}, covers: BOOLEAN,
   research: BOOLEAN]

CarryFresh(hedged) == [hedged |-> hedged, sign |-> 0]
CarryTargets(m, perp) == IF m.hedged THEN <<perp, -perp>> ELSE <<perp, 0>>

Carry(m, f) ==
  CASE (~m.hedged /\ ~f.research) \/ f.z = Absent \/ f.price = Absent -> Silent(m)
    [] (m.hedged \/ f.research) /\ f.z # Absent /\ f.price # Absent /\ m.sign # 0 ->
         IF f.z <= Exit THEN Step(CarryFresh(m.hedged), CarryTargets(m, 0)) ELSE Silent(m)
    [] OTHER ->
         IF f.z >= Entry /\ f.annual > 0 /\ f.covers
           THEN Step([m EXCEPT !.sign = -1], CarryTargets(m, -1))
           ELSE Silent(m)

-----------------------------------------------------------------------------
(* funding_dispersion.py: two perpetuals of one symbol, short the one whose *)
(* funding is higher.  It acts when the second venue reports.               *)

Venues == {"a", "b"}
DispersionFeatures ==
  [venue: Venues, price: Optional({1}), rate: Optional(Reading), covers: BOOLEAN]

DispersionFresh ==
  [funding |-> [v \in Venues |-> Absent], priced |-> {},
   seen |-> [v \in Venues |-> 0], open |-> NoPosition]

Reported(m, f) ==
  [m EXCEPT !.priced = IF f.price # Absent THEN @ \cup {f.venue} ELSE @,
            !.funding[f.venue] = IF f.rate # Absent THEN f.rate ELSE @,
            !.seen[f.venue] = IF f.rate # Absent THEN tick ELSE @]

Comparable(m) ==
  /\ \A v \in Venues : m.funding[v] # Absent
  /\ m.priced = Venues
  /\ Abs(m.seen["a"] - m.seen["b"]) <= Interval

DispersionManaged(m, spread) ==
  IF tick - m.open.opened >= MaxHold * Interval \/ spread * m.open.sign < Exit
    THEN Step([m EXCEPT !.open = NoPosition], Flat2)
    ELSE Silent(m)

Dispersion(m, f) ==
  LET now == Reported(m, f)
      spread == now.funding["a"] - now.funding["b"]
  IN
  CASE f.venue # "b" \/ ~Comparable(now) -> Silent(now)
    [] f.venue = "b" /\ Comparable(now) /\ now.open.sign # 0 -> DispersionManaged(now, spread)
    [] OTHER ->
         IF Abs(spread) >= Entry /\ f.covers
           THEN Step([now EXCEPT !.open = [sign |-> SignOf(spread), opened |-> tick]],
                     <<-SignOf(spread), SignOf(spread)>>)
           ELSE Silent(now)

-----------------------------------------------------------------------------
(* stat_arb.py: the spread of two instruments, over the prices of each.    *)
(* A price is the tick it was seen at.  It acts when the second reports.   *)
(* The second leg is the first at the hedge ratio, the other way round; of *)
(* the ratio, a regression slope that nothing bounds, the sign is kept.    *)

Window == 3
History == 2      \* thirty observations
PairsFeatures ==
  [symbol: Venues, price: Optional({1}), z: Optional(Reading), reverts: BOOLEAN,
   beta: {-1, 0, 1}]

PairsFresh == [prices |-> [v \in Venues |-> <<>>], sign |-> 0]

\* a deque of bounded length
Kept(series) == IF Len(series) > Window THEN Tail(series) ELSE series

Pairs(m, f) ==
  LET now == [m EXCEPT !.prices[f.symbol] = Kept(Append(@, tick))]
      enough == \A v \in Venues : Len(now.prices[v]) >= History
      At(sign, targets) == Step([now EXCEPT !.sign = sign], targets)
  IN
  CASE f.price = Absent -> Silent(m)
    [] f.price # Absent /\ (f.symbol # "b" \/ ~enough \/ f.z = Absent) -> Silent(now)
    [] f.price # Absent /\ f.symbol = "b" /\ enough /\ f.z # Absent /\ m.sign # 0 ->
         IF Abs(f.z) >= PairStop \/ Abs(f.z) <= Exit THEN At(0, Flat2) ELSE Silent(now)
    [] OTHER ->
         IF f.reverts /\ Abs(f.z) >= Entry /\ Abs(f.z) < PairStop
           THEN At(-SignOf(f.z), <<-SignOf(f.z), SignOf(f.z) * f.beta>>)
           ELSE Silent(now)

-----------------------------------------------------------------------------
\* on_features, of the strategy of this behaviour
Answered(k, done) ==
  /\ kind = k
  /\ memory' = done.memory /\ asked' = done.asked
  /\ UNCHANGED <<kind, tick>>

OnTrend == \E f \in TrendFeatures : Answered("trend", Trend(memory, f))
OnCascade == \E f \in CascadeFeatures : Answered("cascade", Cascade(memory, f))
OnCarry == \E f \in CarryFeatures : Answered("carry", Carry(memory, f))
OnDispersion == \E f \in DispersionFeatures : Answered("dispersion", Dispersion(memory, f))
OnPairs == \E f \in PairsFeatures : Answered("pairs", Pairs(memory, f))

Tick == tick < LastTick /\ tick' = tick + 1 /\ UNCHANGED <<kind, memory, asked>>

StrategiesInit ==
  /\ tick = 0
  /\ \/ kind = "trend" /\ memory = NoPosition /\ asked = Flat1
     \/ kind = "cascade" /\ memory = CascadeFresh /\ asked = Flat1
     \/ kind = "carry" /\ memory \in {CarryFresh(h) : h \in BOOLEAN} /\ asked = Flat2
     \/ kind = "dispersion" /\ memory = DispersionFresh /\ asked = Flat2
     \/ kind = "pairs" /\ memory = PairsFresh /\ asked = Flat2

StrategiesNext == OnTrend \/ OnCascade \/ OnCarry \/ OnDispersion \/ OnPairs \/ Tick
StrategiesSpec == StrategiesInit /\ [][StrategiesNext]_strategyVars

-----------------------------------------------------------------------------
(* Properties.                                                             *)

\* the side of the position a strategy believes it has
Held == IF kind \in {"cascade", "dispersion"} THEN memory.open.sign ELSE memory.sign
\* and the side it asked for: of the leg that is bought when the sign is positive
AskedSide == IF kind = "dispersion" THEN asked[2] ELSE asked[1]

\* A position a strategy remembers is the one it last asked for, and one it
\* forgot it asked to be closed: through stops, time limits, missing features,
\* readings that come late or in pairs, and episodes that overlap.  The legs of a
\* dispersion and of a hedged carry are opposite, a pair is closed on both legs,
\* and a stop is where the position loses.
MemoryIsAsked ==
  /\ AskedSide = Held
  /\ kind = "dispersion" => asked[1] = -asked[2]
  /\ kind = "pairs" => (Held = 0 => asked[2] = 0)
  /\ kind = "carry" => asked[2] = IF memory.hedged THEN -asked[1] ELSE 0
  /\ (kind = "cascade" /\ Held # 0) =>
       (2 * memory.open.at - memory.open.twiceStop) * Held > 0
         /\ (memory.open.twiceTarget - 2 * memory.open.at) * Held > 0
=============================================================================
