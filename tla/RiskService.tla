---------------------------- MODULE RiskService ----------------------------
(***************************************************************************)
(* Layer 5: service.py with the portfolio state it reads (state.py).  Every *)
(* order passes its thirteen checks, in order, before the executor may     *)
(* place it: it is approved, approved for less, or refused.                *)
(*                                                                         *)
(* Prices are 1, so that a quantity is its notional, and quantities are    *)
(* whole lots.  Limits are percentages of equity.                          *)
(***************************************************************************)
EXTENDS Integers, FiniteSets, Functions

CONSTANTS
  Strategy, Instrument,
  Flattener,      \* the pseudo-strategy that a flatten's orders belong to
  RiskShare,      \* per strategy: per_trade_risk over its stop, 1 without one
  SingleOrder,    \* single_order_equity_frac
  Usual,          \* single_order_median_mult times the median order
  Concentration,  \* asset_concentration
  Gross,          \* gross_exposure
  DailyLoss, WeeklyLoss, SoftDrawdown, HardDrawdown,
  Rejects,        \* consecutive_rejects
  Equities,       \* the values the account's equity may take
  Largest,        \* bound: the largest order a strategy asks for
  Serial,         \* instruments whose orders trade within submit (the backtest's
                  \* venue): there is never an order on the way when one is judged
  Working         \* bound: what may be on the way at once of the others

ASSUME RiskAssumption ==
  /\ Flattener \in Strategy /\ IsFiniteSet(Instrument)
  /\ RiskShare \in [Strategy -> Nat]
  /\ {SingleOrder, Usual, Concentration, Gross} \subseteq Nat
  /\ {DailyLoss, WeeklyLoss, SoftDrawdown, HardDrawdown, Rejects, Largest} \subseteq Nat \ {0}
  /\ Equities \subseteq Int /\ Serial \subseteq Instrument /\ Working \in Nat

VARIABLES
  equity, peak, day, week,  \* the account's equity now, at its peak, when the
                            \* UTC day and the week began
  position,  \* what is held of each instrument
  working,   \* per instrument and direction: approved and not traded yet
  rejects,   \* consecutive_rejects of each strategy
  disabled,  \* the disabled strategies
  switch     \* the kill switch

riskVars == <<equity, peak, day, week, position, working, rejects, disabled, switch>>
account == <<equity, peak, day, week>>

Trigger == {"daily_loss", "weekly_loss", "drawdown_soft", "drawdown_hard", "manual"}
INSTANCE KillSwitch

Abs(n) == IF n < 0 THEN -n ELSE n
Directions == {1, -1}

RiskInit ==
  /\ equity \in Equities /\ equity > 0
  /\ peak = equity /\ day = equity /\ week = equity
  /\ position = [i \in Instrument |-> 0]
  /\ working = [i \in Instrument |-> [d \in Directions |-> 0]]
  /\ rejects = [s \in Strategy |-> 0] /\ disabled = {}
  /\ switch = AllReleased

-----------------------------------------------------------------------------
(* The checks.  An order x names its strategy, instrument, direction,      *)
(* quantity and whether it is reduce-only; the caller says whether the     *)
(* executor is reconciled and the instrument's feed fresh.                 *)

Order ==
  [strategy: Strategy \ {Flattener}, instrument: Instrument, direction: Directions,
   quantity: 1..Largest, reduces: {FALSE}]
    \cup {[strategy |-> Flattener, instrument |-> i, quantity |-> Abs(position[i]),
           direction |-> IF position[i] > 0 THEN -1 ELSE 1, reduces |-> TRUE] :
          i \in {j \in Instrument : position[j] # 0}}

SwitchLetsAll(x) == ~IsEngaged(switch) \/ SwitchState(switch) = "FLATTENING"
SwitchLets(x) ==
  ~IsEngaged(switch) \/ (x.reduces /\ SwitchState(switch) = "FLATTENING")

\* per_trade_risk bounds the order (check 7) and the position (check 8).
CapAt(e, s) == (e * RiskShare[s]) \div 100
Cap(s) == CapAt(equity, s)

\* Checks 1 to 7.  Check 5 asks for a positive price here, and the equity is
\* looked at before check 6.
Entitled(x, ready) ==
  /\ SwitchLets(x)
  /\ x.strategy \notin disabled
  /\ ready
  /\ equity > 0
  /\ 100 * x.quantity <= SingleOrder * equity \/ x.quantity <= Usual
  /\ x.quantity <= Cap(x.strategy)

\* Check 8: the position the order would lead to, and what fits instead.
After(x) == position[x.instrument] + x.direction * x.quantity
OverCap(x) == Abs(After(x)) > Cap(x.strategy)
RoomFromZero(x) == Cap(x.strategy)
RoomOfLong(x) == Cap(x.strategy) - position[x.instrument]
Room(x) == Cap(x.strategy) - Abs(position[x.instrument])

Grows(x) == Abs(After(x)) > Abs(position[x.instrument])
GrossAfter(x) ==
  FoldFunction(LAMBDA n, sum : Abs(n) + sum, 0, [position EXCEPT ![x.instrument] = After(x)])

\* Checks 9 and 10.  Check 11 only throttles, and nobody supplies the distance
\* to liquidation that check 12 asks for.
Concentrated(x) ==
  LET base == IF GrossAfter(x) > equity THEN GrossAfter(x) ELSE equity
  IN 100 * Abs(After(x)) > Concentration * base
OverGross(x) == 100 * GrossAfter(x) > Gross * equity /\ Grows(x)

\* Check 13.
Lost(start, limit) == start > 0 /\ 100 * (start - equity) >= limit * start
Losing == IF Lost(day, DailyLoss) THEN {"daily_loss"}
          ELSE IF Lost(week, WeeklyLoss) THEN {"weekly_loss"} ELSE {}

\* An order that is cut to the room left is approved without checks 9 to 13.
Cut(x, ready) == Entitled(x, ready) /\ OverCap(x) /\ Room(x) > 0
ReachesLossState(x, ready) ==
  Entitled(x, ready) /\ ~OverCap(x) /\ ~Concentrated(x) /\ ~OverGross(x)
Full(x, ready) == ReachesLossState(x, ready) /\ Losing = {}

\* The quantity approved, 0 if the order is refused.
Granted(x, ready) == IF Cut(x, ready) THEN Room(x) ELSE IF Full(x, ready) THEN x.quantity ELSE 0

-----------------------------------------------------------------------------
(* The actions: the evaluation of an order, and what changes between two.  *)

\* consecutive_rejects, which stops mattering at its limit.
Up(n) == IF n < Rejects THEN n + 1 ELSE n

TooManyByOne(n) == n > Rejects
TooMany(n) == n >= Rejects

Refuse(x, ready) ==
  /\ Granted(x, ready) = 0
  /\ rejects' = [rejects EXCEPT ![x.strategy] = Up(@)]
  /\ disabled' = IF TooMany(rejects[x.strategy] + 1) THEN disabled \cup {x.strategy}
                                                     ELSE disabled
  /\ switch' = IF ReachesLossState(x, ready) /\ "daily_loss" \in Losing
               THEN Engage(switch, "daily_loss")
               ELSE IF ReachesLossState(x, ready) /\ "weekly_loss" \in Losing
                    THEN Engage(switch, "weekly_loss") ELSE switch
  /\ UNCHANGED <<account, position, working>>

\* An order that was cut leaves the count of refusals where it is.
Permit(x, ready) ==
  /\ Granted(x, ready) > 0
  /\ x.instrument \in Serial => \A d \in Directions : working[x.instrument][d] = 0
  /\ x.instrument \notin Serial =>
        working[x.instrument][x.direction] + Granted(x, ready) <= Working
  /\ working' = [working EXCEPT ![x.instrument][x.direction] = @ + Granted(x, ready)]
  /\ rejects' = IF Cut(x, ready) THEN rejects ELSE [rejects EXCEPT ![x.strategy] = 0]
  /\ UNCHANGED <<account, position, disabled, switch>>

Traded(i, d, q) ==
  /\ q <= working[i][d]
  /\ position' = [position EXCEPT ![i] = @ + d * q]
  /\ working' = [working EXCEPT ![i][d] = @ - q]
  /\ UNCHANGED <<account, rejects, disabled, switch>>

Withdrawn(i, d) ==
  /\ working[i][d] > 0
  /\ working' = [working EXCEPT ![i][d] = 0]
  /\ UNCHANGED <<account, position, rejects, disabled, switch>>

PeakUnmarked(e) == peak
Peak(e) == IF e > peak THEN e ELSE peak

Start(first, e) == IF first = 0 THEN e ELSE first

Mark(e) ==
  /\ equity' = e /\ peak' = Peak(e)
  /\ day' = Start(day, e) /\ week' = Start(week, e)
  /\ UNCHANGED <<position, working, rejects, disabled, switch>>

\* roll_week has no caller: the week never ends.
RollDay ==
  /\ day' = equity
  /\ UNCHANGED <<equity, peak, week, position, working, rejects, disabled, switch>>

CheckDrawdownLadder ==
  /\ Lost(peak, SoftDrawdown)
  /\ switch' = Engage(switch, IF Lost(peak, HardDrawdown) THEN "drawdown_hard"
                                                         ELSE "drawdown_soft")
  /\ UNCHANGED <<account, position, working, rejects, disabled>>

ManualKill ==
  /\ switch' = Engage(switch, "manual")
  /\ UNCHANGED <<account, position, working, rejects, disabled>>

RiskNext ==
  \/ \E x \in Order, ready \in BOOLEAN : Refuse(x, ready) \/ Permit(x, ready)
  \/ \E i \in Instrument, d \in Directions :
        Withdrawn(i, d) \/ \E q \in 1..working[i][d] : Traded(i, d, q)
  \/ \E e \in Equities : Mark(e)
  \/ RollDay \/ CheckDrawdownLadder \/ ManualKill

RiskSpec == RiskInit /\ [][RiskNext]_riskVars

-----------------------------------------------------------------------------
(* Properties                                                              *)

\* The state keeps its shape, and the peak (state.py, mark) is one: no equity the
\* account had since, the day's and the week's first among them, lies above it.
RiskTypeOK ==
  /\ {equity, peak, day, week} \subseteq Equities
  /\ equity <= peak /\ day <= peak /\ week <= peak
  /\ position \in [Instrument -> Int]
  /\ working \in [Instrument -> [Directions -> Nat]]
  /\ rejects \in [Strategy -> 0..Rejects]
  /\ disabled \subseteq Strategy
  /\ switch \in [Trigger -> [engaged: BOOLEAN, cleared: {Never}, approvals: {{}}]]

\* What _approve asserts of every decision (service.py:241): the service reduces or
\* refuses, it never enlarges, from whatever position, over or under its cap.
NeverEnlarged ==
  \A x \in Order, ready \in BOOLEAN : Granted(x, ready) \in 0..x.quantity

\* The cap of a position that check 8 keeps, however orders that were granted in
\* full or cut trade, in part or not at all: an instrument whose orders trade within
\* submit never holds, and cannot come to hold, more than some strategy's cap at the
\* account's best equity.  (Check 8 counts no order on the way, so it cannot promise
\* this where orders overlap.)
WithinCap(n) == \E s \in Strategy : n <= CapAt(peak, s)
PositionWithinCap ==
  \A i \in Serial :
    /\ WithinCap(Abs(position[i]))
    /\ \A d \in Directions : WithinCap(Abs(position[i] + d * working[i][d]))

\* The disabled strategies are those whose count stands at the limit: a strategy is
\* disabled by the refusal that reaches it, and its count never falls again, because
\* nothing of a disabled strategy is granted in full (service.py, reject; state.py
\* keeps and saves the count and the set apart).
DisabledByCount == \A s \in Strategy : s \in disabled <=> rejects[s] = Rejects

\* From the moment a trigger is engaged, by a loss, the ladder or a person, nothing
\* is put on the way but what works against a position, whichever order comes in.
OnlyReducesOnceEngaged ==
  [][IsEngaged(switch) =>
       \A i \in Instrument, d \in Directions :
         working'[i][d] > working[i][d] => d * position[i] < 0]_riskVars

\* What the cap rests on: of an instrument whose orders trade within submit, one order
\* at most is being traded.
OneAtATime ==
  \A i \in Serial : working[i][1] = 0 \/ working[i][-1] = 0
=============================================================================
