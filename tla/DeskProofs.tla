------------------------------ MODULE DeskProofs ------------------------------
(***************************************************************************)
(* The other parts that share no state, for every value of their           *)
(* constants: the switch and its releases, the strategies, the books, the  *)
(* portfolio, the approved limits, the book feed, the archive, the audit   *)
(* log, the alerts and the research registry.  What is proved of a part is *)
(* proved of its own specification, whose behaviours Desk puts side by     *)
(* side for TLC.                                                           *)
(***************************************************************************)
EXTENDS Recovery, Strategies, Books, Portfolio, Approvals, MarketData, Capture,
        AuditLog, Alerts, Research, FiniteProofs

-----------------------------------------------------------------------------
(* The switch (Recovery).                                                  *)

\* The inductive invariant: the shape, and that the approvals a switch holds are
\* those of the outage in hand.
RecoveryInv == KillTypeOK /\ ApprovalsAreOfThisOutage

\* A row of the matrix is what the code reads of it.
LEMMA Rows ==
  ASSUME NEW t \in Trigger
  PROVE  /\ RECOVERY[t].automatic \in BOOLEAN /\ RECOVERY[t].flatten \in BOOLEAN
         /\ RECOVERY[t].approvals \in 0..2 /\ RECOVERY[t].settle \in Nat
         /\ RECOVERY[t].flatten => ~RECOVERY[t].automatic
<1>1. DOMAIN RECOVERY =
        {"feed_staleness", "latency_spike", "order_rate", "connectivity_loss",
         "rejection_rate_spike", "reconciliation_mismatch", "missing_local_position",
         "liquidation_distance", "daily_loss", "weekly_loss", "drawdown_soft",
         "drawdown_hard", "deadman", "audit_buffer_full", "clock_drift", "manual"}
  BY DEF RECOVERY
<1> DEFINE Reads(r) ==
             /\ r.automatic \in BOOLEAN /\ r.flatten \in BOOLEAN
             /\ r.approvals \in 0..2 /\ r.settle \in Nat
             /\ r.flatten => ~r.automatic
<1>2. /\ RECOVERY["feed_staleness"] = Row(FALSE, TRUE, 0, 5)
      /\ RECOVERY["latency_spike"] = Row(FALSE, TRUE, 0, 5)
      /\ RECOVERY["order_rate"] = Row(FALSE, TRUE, 0, 1)
      /\ RECOVERY["connectivity_loss"] = Row(TRUE, FALSE, 1, 0)
      /\ RECOVERY["rejection_rate_spike"] = Row(FALSE, FALSE, 1, 0)
      /\ RECOVERY["reconciliation_mismatch"] = Row(FALSE, FALSE, 1, 0)
      /\ RECOVERY["missing_local_position"] = Row(FALSE, FALSE, 1, 0)
      /\ RECOVERY["liquidation_distance"] = Row(FALSE, TRUE, 0, 0)
      /\ RECOVERY["daily_loss"] = Row(TRUE, FALSE, 1, 0)
      /\ RECOVERY["weekly_loss"] = Row(TRUE, FALSE, 2, 0)
      /\ RECOVERY["drawdown_soft"] = Row(FALSE, FALSE, 1, 0)
      /\ RECOVERY["drawdown_hard"] = Row(TRUE, FALSE, 2, 0)
      /\ RECOVERY["deadman"] = Row(TRUE, FALSE, 1, 0)
      /\ RECOVERY["audit_buffer_full"] = Row(FALSE, FALSE, 1, 0)
      /\ RECOVERY["clock_drift"] = Row(FALSE, TRUE, 0, 5)
      /\ RECOVERY["manual"] = Row(TRUE, FALSE, 1, 0)
  BY DEF RECOVERY
<1>3. t \in DOMAIN RECOVERY BY TriggerAssumption
<1>4. /\ Reads(Row(FALSE, TRUE, 0, 5)) /\ Reads(Row(FALSE, TRUE, 0, 1))
      /\ Reads(Row(FALSE, TRUE, 0, 0)) /\ Reads(Row(TRUE, FALSE, 1, 0))
      /\ Reads(Row(FALSE, FALSE, 1, 0)) /\ Reads(Row(TRUE, FALSE, 2, 0))
  BY DEF Row
<1> HIDE DEF Reads
<1>5. Reads(RECOVERY[t]) BY <1>1, <1>2, <1>3, <1>4
<1> QED BY <1>5 DEF Reads

\* The first state has no trigger engaged and no approval.
LEMMA RecoveryStarts == KillInit => RecoveryInv
  BY RecoveryAssumption
  DEF KillInit, RecoveryInv, KillTypeOK, ApprovalsAreOfThisOutage, AllReleased, Released, Never, Records

\* Clearing a trigger leaves every other one alone, and leaves a released one
\* with nothing.
LEMMA Clearing ==
  ASSUME RecoveryInv, NEW t \in Trigger, NEW u \in Trigger
  PROVE  /\ TryClear(switch, t, now)[u] \in {switch[u], Released}
         /\ u # t => TryClear(switch, t, now)[u] = switch[u]
         /\ TryClear(switch, t, now)[t] # switch[t] => MayClear(switch, t, now)
         /\ DOMAIN TryClear(switch, t, now) = Trigger
  BY DEF TryClear, RecoveryInv, KillTypeOK

\* What a retry leaves behind, trigger by trigger.
LEMMA Retried ==
  ASSUME RecoveryInv, Retry
  PROVE  /\ switch' = [t \in Trigger |-> switch'[t]]
         /\ \A u \in Trigger : \/ switch'[u] = switch[u]
                               \/ switch'[u] = Released /\ MayClear(switch, u, now)
<1>1. CASE \E t \in Trigger : switch' = TryClear(switch, t, now)
  BY <1>1, Clearing DEF TryClear, RecoveryInv, KillTypeOK
<1>2. CASE switch' = TryClearAll(switch, now)
  BY <1>2, Clearing DEF TryClearAll
<1> QED BY <1>1, <1>2 DEF Retry

\* The values a step gives a trigger's record are records.
LEMMA RecordUpdates ==
  ASSUME NEW r \in Records
  PROVE  /\ [Released EXCEPT !.engaged = TRUE] \in Records
         /\ \A at \in Nat \cup {Never} : [r EXCEPT !.cleared = at] \in Records
         /\ \A o \in Operator : [r EXCEPT !.approvals = @ \cup {o}] \in Records
         /\ Released \in Records
  BY DEF Records, Released, Never

\* Records with the same fields are the same.
LEMMA SameRecord ==
  ASSUME NEW r \in Records, NEW s \in Records,
         r.engaged = s.engaged, r.cleared = s.cleared, r.approvals = s.approvals
  PROVE  r = s
  BY DEF Records

\* Every step keeps the invariant.
LEMMA RecoveryStep == RecoveryInv /\ [KillNext]_killVars => RecoveryInv'
<1> SUFFICES ASSUME RecoveryInv, [KillNext]_killVars PROVE RecoveryInv' OBVIOUS
<1> USE DEF RecoveryInv, KillTypeOK, ApprovalsAreOfThisOutage
<1>1. ASSUME NEW t \in Trigger, Report(t) PROVE RecoveryInv'
  <2>1. switch' \in [Trigger -> Records]
    BY <1>1, RecordUpdates DEF Report, Engage
  <2>2. now' \in Nat BY <1>1 DEF Report
  <2>3. signed' \in [Trigger -> SUBSET Operator] BY <1>1 DEF Report
  <2>4. ASSUME NEW u \in Trigger PROVE /\ ~switch'[u].engaged => switch'[u] = Released
                                       /\ switch'[u].engaged => switch'[u].approvals = signed'[u]
    BY <1>1 DEF Report, Engage, Released
  <2> QED BY <2>1, <2>2, <2>3, <2>4
<1>2. ASSUME NEW t \in Trigger, Clears(t) PROVE RecoveryInv'
  <2>1. switch' \in [Trigger -> Records]
    BY <1>2, RecordUpdates DEF Clears, ConditionCleared
  <2>2. ASSUME NEW u \in Trigger PROVE /\ ~switch'[u].engaged => switch'[u] = Released
                                       /\ switch'[u].engaged => switch'[u].approvals = signed[u]
    BY <1>2 DEF Clears, ConditionCleared, Records
  <2> QED BY <1>2, <2>1, <2>2 DEF Clears
<1>3. ASSUME NEW t \in Trigger, Returns(t) PROVE RecoveryInv'
  <2>1. switch' \in [Trigger -> Records]
    BY <1>3, RecordUpdates DEF Returns, ConditionReturned
  <2>2. ASSUME NEW u \in Trigger PROVE /\ ~switch'[u].engaged => switch'[u] = Released
                                       /\ switch'[u].engaged => switch'[u].approvals = signed[u]
    <3>1. u # t => switch'[u] = switch[u] BY <1>3 DEF Returns, ConditionReturned
    <3>2. switch'[t] = [switch[t] EXCEPT !.cleared = Never]
      BY <1>3 DEF Returns, ConditionReturned
    <3>3. /\ switch'[t].engaged = switch[t].engaged
          /\ switch'[t].approvals = switch[t].approvals
          /\ switch'[t].cleared = Never
      BY <3>2 DEF Records
    <3>4. ~switch[t].engaged => switch'[t] = Released
      BY <2>1, <3>3, SameRecord, RecordUpdates DEF Released
    <3> QED BY <3>1, <3>3, <3>4
  <2> QED BY <1>3, <2>1, <2>2 DEF Returns
<1>4. ASSUME NEW t \in Trigger, NEW operator \in Operator, SignOff(t, operator) PROVE RecoveryInv'
  <2>1. switch' \in [Trigger -> Records]
    BY <1>4, RecordUpdates DEF SignOff, Approve
  <2>2. signed' \in [Trigger -> SUBSET Operator] BY <1>4 DEF SignOff
  <2>3. ASSUME NEW u \in Trigger PROVE /\ ~switch'[u].engaged => switch'[u] = Released
                                       /\ switch'[u].engaged => switch'[u].approvals = signed'[u]
    BY <1>4 DEF SignOff, Approve, Records
  <2> QED BY <1>4, <2>1, <2>2, <2>3 DEF SignOff
<1>5. CASE Retry
  <2>1. switch' \in [Trigger -> Records] BY <1>5, Retried, RecordUpdates
  <2>2. ASSUME NEW u \in Trigger PROVE /\ ~switch'[u].engaged => switch'[u] = Released
                                       /\ switch'[u].engaged => switch'[u].approvals = signed[u]
    <3>1. switch'[u] = switch[u] \/ switch'[u] = Released BY <1>5, Retried
    <3>2. ~Released.engaged BY DEF Released
    <3> QED BY <3>1, <3>2
  <2> QED BY <1>5, <2>1, <2>2 DEF Retry
<1>6. CASE Pass
  BY <1>6, RecoveryAssumption DEF Pass
<1>7. CASE UNCHANGED killVars
  BY <1>7 DEF killVars
<1> QED BY <1>1, <1>2, <1>3, <1>4, <1>5, <1>6, <1>7 DEF KillNext

\* The switch keeps its shape, and nothing of an outage outlives it.
THEOREM SwitchTypeCorrect == KillSpec => []KillTypeOK
<1>1. RecoveryInv => KillTypeOK BY DEF RecoveryInv
<1> QED BY RecoveryStarts, RecoveryStep, <1>1, PTL DEF KillSpec

\* A trigger that a step releases was allowed to be: it had its approvals.
LEMMA Releases ==
  ASSUME RecoveryInv, [KillNext]_killVars, NEW t \in Trigger, Lets(t)
  PROVE  MayClear(switch, t, now)
<1> USE DEF RecoveryInv, KillTypeOK, Lets
<1>1. ASSUME NEW u \in Trigger, Report(u) PROVE FALSE BY <1>1 DEF Report, Engage, Released
<1>2. ASSUME NEW u \in Trigger, Clears(u) PROVE FALSE BY <1>2 DEF Clears, ConditionCleared
<1>3. ASSUME NEW u \in Trigger, Returns(u) PROVE FALSE BY <1>3 DEF Returns, ConditionReturned
<1>4. ASSUME NEW u \in Trigger, NEW operator \in Operator, SignOff(u, operator) PROVE FALSE
  BY <1>4 DEF SignOff, Approve
<1>5. CASE Retry BY <1>5, Retried
<1>6. CASE Pass BY <1>6 DEF Pass
<1>7. CASE UNCHANGED killVars BY <1>7 DEF killVars
<1> QED BY <1>1, <1>2, <1>3, <1>4, <1>5, <1>6, <1>7 DEF KillNext

\* What MayClear asks of a trigger that needs people, in terms of who signed.
LEMMA Authorised ==
  ASSUME RecoveryInv, NEW t \in Trigger, MayClear(switch, t, now), ~RECOVERY[t].automatic
  PROVE  Cardinality(signed[t]) >= RECOVERY[t].approvals /\ signed[t] # {}
<1>1. switch[t].approvals = signed[t] BY DEF RecoveryInv, ApprovalsAreOfThisOutage, MayClear
<1>2. Cardinality(signed[t]) >= Required(t) BY <1>1 DEF MayClear
<1>3. signed[t] \in SUBSET Operator BY DEF RecoveryInv, KillTypeOK
<1>4. Cardinality(signed[t]) \in Nat
  BY <1>3, RecoveryAssumption, FS_Subset, FS_CardinalityType
<1>5. Required(t) >= 1 /\ Required(t) >= RECOVERY[t].approvals /\ Required(t) \in Nat
  BY Rows DEF Required
<1>6. signed[t] # {} BY <1>2, <1>4, <1>5, FS_EmptySet
<1> QED BY <1>2, <1>4, <1>5, <1>6, Rows

\* The two-person rule, for every matrix row that needs people.
THEOREM TwoPeople == KillSpec => ReleasedByPeople
<1>1. RecoveryInv /\ [KillNext]_killVars =>
        [\A t \in Trigger :
           Lets(t) /\ ~RECOVERY[t].automatic =>
           Cardinality(signed[t]) >= RECOVERY[t].approvals /\ signed[t] # {}]_killVars
  BY Releases, Authorised
<1> QED BY RecoveryStarts, RecoveryStep, <1>1, PTL DEF KillSpec, ReleasedByPeople

\* Two triggers never leave the system in the milder of their two states.
THEOREM FlattenHolds == KillSpec => FlattenOutlasts
<1>1. ASSUME RecoveryInv, [KillNext]_killVars,
             SwitchState(switch) = "FLATTENING", SwitchState(switch)' # "FLATTENING",
             NEW t \in Trigger, switch[t].engaged, RECOVERY[t].flatten
      PROVE  Cardinality(signed[t]) >= RECOVERY[t].approvals
  <2>1. ~switch'[t].engaged
    BY <1>1 DEF SwitchState, IsEngaged, MustFlatten, EngagedIn
  <2> QED BY <1>1, <2>1, Releases, Authorised, Rows DEF Lets
<1>2. RecoveryInv /\ [KillNext]_killVars =>
        [SwitchState(switch) = "FLATTENING" /\ SwitchState(switch)' # "FLATTENING" =>
           \A t \in Trigger : switch[t].engaged /\ RECOVERY[t].flatten =>
              Cardinality(signed[t]) >= RECOVERY[t].approvals]_killVars
  BY <1>1
<1> QED BY RecoveryStarts, RecoveryStep, <1>2, PTL DEF KillSpec, FlattenOutlasts

-----------------------------------------------------------------------------
(* The strategies (Strategies).                                            *)

\* Zero has no sign.
LEMMA NoSign == -0 = 0
<1>1. PICK z \in Int : z = 0
  OBVIOUS
<1>2. z <= 0 /\ z >= 0
  BY <1>1
<1>3. -z = z
  BY <1>2
<1>4. QED
  BY <1>1, <1>3, Zenon

\* What a strategy may answer: what it asks for is what it then remembers.
LEMMA TrendAnswers ==
  ASSUME NEW m, NEW f
  PROVE  \/ Trend(m, f) = Silent(m)
         \/ Trend(m, f) = Step(NoPosition, Flat1)
         \/ \E sign \in {-1, 1} : \E stop : Trend(m, f) = Step([sign |-> sign, stop |-> stop], <<sign>>)
<1>1. CASE f.price = Absent \/ f.signal = Absent
  <2>1. ~(f.price # Absent /\ f.signal # Absent /\ m.sign # 0)
    BY <1>1
  <2>2. QED
    BY <1>1, <2>1, Zenon DEF Trend
<1>2. CASE f.price # Absent /\ f.signal # Absent /\ m.sign # 0
  <2>1. ~(f.price = Absent \/ f.signal = Absent)
    BY <1>2
  <2>2. Trend(m, f) = TrendManaged(m, f)
    BY <1>2, <2>1, Zenon DEF Trend
  <2>3. QED
    BY <2>2, Zenon DEF TrendManaged
<1>3. CASE ~(f.price = Absent \/ f.signal = Absent) /\ ~(m.sign # 0)
  <2> DEFINE sign == SignOf(f.signal)
             entered == /\ f.sized /\ Abs(f.signal) >= Entry
                        /\ f.breakout # Absent => f.breakout * sign >= 0
  <2>1. ~(f.price # Absent /\ f.signal # Absent /\ m.sign # 0)
    BY <1>3
  <2>2. Trend(m, f) = IF entered THEN Step([sign |-> sign, stop |-> f.price - f.gap * sign], <<sign>>)
                                 ELSE Silent(m)
    BY <1>3, <2>1, Zenon DEF Trend
  <2>3. sign \in {-1, 1}
    BY DEF SignOf
  <2> HIDE DEF entered, sign
  <2>4. QED
    BY <2>2, <2>3, Zenon
<1>4. QED
  BY <1>1, <1>2, <1>3

\* The same of carry.
LEMMA CarryAnswers ==
  ASSUME NEW m, NEW f
  PROVE  \/ Carry(m, f) = Silent(m)
         \/ Carry(m, f) = Step(CarryFresh(m.hedged), CarryTargets(m, 0))
         \/ Carry(m, f) = Step([m EXCEPT !.sign = -1], CarryTargets(m, -1))
<1> DEFINE mute == (~m.hedged /\ ~f.research) \/ f.z = Absent \/ f.price = Absent
           managed == (m.hedged \/ f.research) /\ f.z # Absent /\ f.price # Absent /\ m.sign # 0
<1>1. mute => ~managed
  OBVIOUS
<1>2. Carry(m, f) =
        CASE mute -> Silent(m)
          [] managed -> IF f.z <= Exit THEN Step(CarryFresh(m.hedged), CarryTargets(m, 0)) ELSE Silent(m)
          [] OTHER -> IF f.z >= Entry /\ f.annual > 0 /\ f.covers
                        THEN Step([m EXCEPT !.sign = -1], CarryTargets(m, -1)) ELSE Silent(m)
  BY DEF Carry
<1> HIDE DEF mute, managed
<1>3. CASE mute
  BY <1>1, <1>2, <1>3, Zenon
<1>4. CASE managed
  BY <1>1, <1>2, <1>4, Zenon
<1>5. CASE ~mute /\ ~managed
  BY <1>2, <1>5, Zenon
<1>6. QED
  BY <1>3, <1>4, <1>5

\* The same of dispersion.
LEMMA DispersionAnswers ==
  ASSUME NEW m, NEW f
  PROVE  LET noted == Reported(m, f) IN
         \/ Dispersion(m, f) = Silent(noted)
         \/ Dispersion(m, f) = Step([noted EXCEPT !.open = NoPosition], Flat2)
         \/ \E sign \in {-1, 1} :
              Dispersion(m, f) = Step([noted EXCEPT !.open = [sign |-> sign, opened |-> tick]], <<-sign, sign>>)
<1> DEFINE noted == Reported(m, f)
           spread == noted.funding["a"] - noted.funding["b"]
           mute == f.venue # "b" \/ ~Comparable(noted)
           managed == f.venue = "b" /\ Comparable(noted) /\ noted.open.sign # 0
           enters == Abs(spread) >= Entry /\ f.covers
           entered == Step([noted EXCEPT !.open = [sign |-> SignOf(spread), opened |-> tick]],
                           <<-SignOf(spread), SignOf(spread)>>)
<1>1. mute => ~managed
  OBVIOUS
<1>2. Dispersion(m, f) =
        CASE mute -> Silent(noted)
          [] managed -> DispersionManaged(noted, spread)
          [] OTHER -> IF enters THEN entered ELSE Silent(noted)
  BY DEF Dispersion
<1>3. \/ DispersionManaged(noted, spread) = Silent(noted)
      \/ DispersionManaged(noted, spread) = Step([noted EXCEPT !.open = NoPosition], Flat2)
  BY Zenon DEF DispersionManaged
<1>4. SignOf(spread) \in {-1, 1}
  BY DEF SignOf
<1> HIDE DEF mute, managed, enters, spread, noted
<1>5. CASE mute
  BY <1>1, <1>2, <1>5, Zenon DEF noted
<1>6. CASE managed
  BY <1>1, <1>2, <1>3, <1>6, Zenon DEF noted
<1>7. CASE ~mute /\ ~managed
  <2>1. Dispersion(m, f) = IF enters THEN entered ELSE Silent(noted)
    BY <1>2, <1>7, Zenon
  <2>2. QED
    BY <1>4, <2>1, Zenon DEF noted
<1>8. QED
  BY <1>5, <1>6, <1>7

\* The same of pairs.
LEMMA PairsAnswers ==
  ASSUME NEW m, NEW f \in PairsFeatures
  PROVE  LET noted == [m EXCEPT !.prices[f.symbol] = Kept(Append(@, tick))] IN
         \/ Pairs(m, f) = Silent(m)
         \/ Pairs(m, f) = Silent(noted)
         \/ Pairs(m, f) = Step([noted EXCEPT !.sign = 0], Flat2)
         \/ \E sign \in {-1, 1} : \E other \in Int :
              Pairs(m, f) = Step([noted EXCEPT !.sign = -sign], <<-sign, other>>)
<1> DEFINE noted == [m EXCEPT !.prices[f.symbol] = Kept(Append(@, tick))]
           enough == \A v \in Venues : Len(noted.prices[v]) >= History
           blind == f.price = Absent
           early == f.price # Absent /\ (f.symbol # "b" \/ ~enough \/ f.z = Absent)
           managed == f.price # Absent /\ f.symbol = "b" /\ enough /\ f.z # Absent /\ m.sign # 0
           ends == Abs(f.z) >= PairStop \/ Abs(f.z) <= Exit
           enters == f.reverts /\ Abs(f.z) >= Entry /\ Abs(f.z) < PairStop
           ended == Step([noted EXCEPT !.sign = 0], Flat2)
           entered == Step([noted EXCEPT !.sign = -SignOf(f.z)],
                           <<-SignOf(f.z), SignOf(f.z) * f.beta>>)
<1>1. (blind => ~early /\ ~managed) /\ (early => ~managed)
  OBVIOUS
<1>2. Pairs(m, f) =
        CASE blind -> Silent(m)
          [] early -> Silent(noted)
          [] managed -> IF ends THEN ended ELSE Silent(noted)
          [] OTHER -> IF enters THEN entered ELSE Silent(noted)
  BY DEF Pairs
<1>3. SignOf(f.z) \in {-1, 1} /\ SignOf(f.z) * f.beta \in Int
  BY DEF SignOf, PairsFeatures
<1> HIDE DEF enough, blind, early, managed, ends, enters, noted
<1>4. CASE blind
  BY <1>1, <1>2, <1>4, Zenon
<1>5. CASE early
  BY <1>1, <1>2, <1>5, Zenon DEF noted
<1>6. CASE managed
  <2>1. Pairs(m, f) = IF ends THEN ended ELSE Silent(noted)
    BY <1>1, <1>2, <1>6, Zenon
  <2>2. QED
    BY <2>1, Zenon DEF noted
<1>7. CASE ~blind /\ ~early /\ ~managed
  <2>1. Pairs(m, f) = IF enters THEN entered ELSE Silent(noted)
    BY <1>2, <1>7, Zenon
  <2>2. QED
    BY <1>3, <2>1, Zenon DEF noted
<1>8. QED
  BY <1>4, <1>5, <1>6, <1>7

Episodes == [peak: Nat, sign: {-1, 1}, extreme: Int, origin: Int, last: Int]

\* A position of the cascade strategy loses at its stop and gains at its target.
Fading == {NoPosition} \cup
  {p \in [sign: {-1, 1}, at: Int, opened: Nat, twiceStop: Int, twiceTarget: Int] :
     (2 * p.at - p.twiceStop) * p.sign > 0 /\ (p.twiceTarget - 2 * p.at) * p.sign > 0}

CascadeMemory == [open: Fading, episode: Episodes, quiet: Int]

\* What the strategy keeps track of is an episode, and its position is left alone.
LEMMA TrackedType ==
  ASSUME NEW m \in CascadeMemory, NEW pressure \in Int, NEW price \in Int, tick \in Nat
  PROVE  Tracked(m, pressure, price) \in CascadeMemory /\ Tracked(m, pressure, price).open = m.open
<1> DEFINE quiet == IF m.episode.peak = 0 THEN price ELSE m.quiet
           started == IF m.episode.peak = 0 THEN [m.episode EXCEPT !.origin = quiet] ELSE m.episode
           stronger == Abs(pressure) >= started.peak
           over == m.episode.last = Absent \/ tick - m.episode.last > MaxHold
           forcedTo == [started EXCEPT
             !.last = tick,
             !.peak = IF stronger THEN Abs(pressure) ELSE @,
             !.sign = IF stronger THEN SignOf(pressure) ELSE @]
           episode == CASE pressure # 0 -> forcedTo
                        [] pressure = 0 /\ over -> NoEpisode
                        [] OTHER -> m.episode
<1>1. Tracked(m, pressure, price) = [m EXCEPT !.quiet = quiet, !.episode = WithExtreme(episode, price)]
  BY DEF Tracked
<1>2. m.episode \in Episodes /\ m.quiet \in Int /\ quiet \in Int
  BY DEF CascadeMemory
<1>3. started \in Episodes
  BY <1>2 DEF Episodes
<1>4. Abs(pressure) \in Nat /\ SignOf(pressure) \in {-1, 1}
  BY DEF Abs, SignOf
<1> HIDE DEF quiet, started, stronger
<1>5. forcedTo \in Episodes
  <2>1. \A t \in Int, p \in Nat, s \in {-1, 1} :
          [started EXCEPT !.last = t, !.peak = p, !.sign = s] \in Episodes
    BY <1>3 DEF Episodes
  <2>t. tick \in Int
    OBVIOUS
  <2>2. started.peak \in Nat /\ started.sign \in {-1, 1}
    BY <1>3 DEF Episodes
  <2>3. /\ (IF stronger THEN Abs(pressure) ELSE started.peak) \in Nat
        /\ (IF stronger THEN SignOf(pressure) ELSE started.sign) \in {-1, 1}
    BY <1>4, <2>2
  <2>4. QED
    BY <2>1, <2>t, <2>3 DEF forcedTo
<1>6. NoEpisode \in Episodes
  BY DEF NoEpisode, Episodes, Absent
<1> HIDE DEF over, forcedTo
<1>7. episode \in Episodes
  <2>1. CASE pressure # 0
    <3>1. ~(pressure = 0 /\ over)
      BY <2>1
    <3>2. episode = forcedTo
      BY <2>1, <3>1, Zenon
    <3>3. QED
      BY <1>5, <3>2
  <2>2. CASE pressure = 0 /\ over
    <3>1. episode = NoEpisode
      BY <2>2, Zenon
    <3>2. QED
      BY <1>6, <3>1
  <2>3. CASE ~(pressure # 0) /\ ~(pressure = 0 /\ over)
    <3>1. episode = m.episode
      BY <2>3, Zenon
    <3>2. QED
      BY <1>2, <3>1
  <2>4. QED
    BY <2>1, <2>2, <2>3
<1> HIDE DEF episode
<1>8. WithExtreme(episode, price) \in Episodes
  <2>1. episode.extreme \in Int
    BY <1>7 DEF Episodes
  <2>2. Worse(episode, price) \in Int
    <3>1. IsFiniteSet({episode.extreme, price})
      <4>1. IsFiniteSet({price}) /\ {episode.extreme, price} = {price} \cup {episode.extreme}
        BY FS_Singleton
      <4>2. QED
        BY <4>1, FS_AddElement
    <3>2. {episode.extreme, price} # {} /\ {episode.extreme, price} \subseteq Int
      BY <2>1
    <3>3. Min({episode.extreme, price}) \in Int /\ Max({episode.extreme, price}) \in Int
      BY <3>1, <3>2, Extremes
    <3>4. QED
      BY <3>3 DEF Worse
  <2>3. (IF episode.extreme = 0 THEN price ELSE Worse(episode, price)) \in Int
    BY <2>2
  <2>4. \A x \in Int : [episode EXCEPT !.extreme = x] \in Episodes
    BY <1>7 DEF Episodes
  <2>5. QED
    BY <1>7, <2>3, <2>4 DEF WithExtreme
<1>9. \A q \in Int, e \in Episodes : /\ [m EXCEPT !.quiet = q, !.episode = e] \in CascadeMemory
                                     /\ [m EXCEPT !.quiet = q, !.episode = e].open = m.open
  BY DEF CascadeMemory
<1>10. PICK q \in Int : q = quiet
  BY <1>2
<1>11. PICK e \in Episodes : e = WithExtreme(episode, price)
  BY <1>8
<1>12. Tracked(m, pressure, price) = [m EXCEPT !.quiet = q, !.episode = e]
  BY <1>1, <1>10, <1>11, Zenon
<1>13. /\ [m EXCEPT !.quiet = q, !.episode = e] \in CascadeMemory
       /\ [m EXCEPT !.quiet = q, !.episode = e].open = m.open
  BY <1>9
<1>14. QED
  BY <1>12, <1>13, Zenon

\* What it enters has its stop on the side where it loses and its target on the other.
LEMMA FadedWell ==
  ASSUME NEW m \in CascadeMemory, NEW pressure \in Int, NEW price \in Int, tick \in Nat,
         Fades(m, pressure, price)
  PROVE  Faded(m, price) \in Fading /\ Faded(m, price).sign \in {-1, 1}
<1> DEFINE e == m.episode
           sign == IF e.sign < 0 THEN 1 ELSE -1
           depth == Abs(e.origin - e.extreme)
           stop == 2 * e.extreme - depth * sign
           target == 2 * e.extreme + depth * sign
<1>1. /\ depth > 0 /\ 8 * (price - e.extreme) * sign >= depth
      /\ (2 * e.extreme + depth * sign - 2 * price) * sign > 0
  BY DEF Fades
<1>2. e.extreme \in Int /\ e.origin \in Int
  BY DEF CascadeMemory, Episodes
<1>3. depth \in Nat
  BY <1>2 DEF Abs
<1>4. sign \in {-1, 1}
  OBVIOUS
<1>5. Faded(m, price) = [sign |-> sign, at |-> price, opened |-> tick, twiceStop |-> stop, twiceTarget |-> target]
  BY DEF Faded
<1> DEFINE x == e.extreme
<1>a. x = e.extreme
  OBVIOUS
<1> HIDE DEF e, sign, depth, x
<1>6. stop \in Int /\ target \in Int /\ (2 * price - stop) * sign > 0 /\ (target - 2 * price) * sign > 0
  <2>1. CASE sign = 1
    BY <1>1, <1>2, <1>3, <1>a, <2>1
  <2>2. CASE sign = -1
    BY <1>1, <1>2, <1>3, <1>a, <2>2
  <2>3. QED
    BY <1>4, <2>1, <2>2
<1> HIDE DEF stop, target
<1>7. QED
  BY <1>4, <1>5, <1>6 DEF Fading

\* What the cascade strategy may answer.
LEMMA CascadeAnswers ==
  ASSUME NEW m \in CascadeMemory, NEW f, f.price \in Int, f.pressure \in Int, tick \in Nat
  PROVE  \/ Cascade(m, f) = Silent(m)
         \/ Cascade(m, f) = CascadeClosed(m)
         \/ \E next \in CascadeMemory : next.open = m.open /\ Cascade(m, f) = Silent(next)
         \/ \E next \in CascadeMemory, p \in Fading :
              /\ p.sign \in {-1, 1}
              /\ Cascade(m, f) = Step([next EXCEPT !.open = p, !.episode = NoEpisode], <<p.sign>>)
<1> DEFINE next == Tracked(m, f.pressure, f.price)
           blind == f.price = Absent
           managed == f.price # Absent /\ m.open.sign # 0
           calm == f.price # Absent /\ m.open.sign = 0 /\ f.pressure = Absent
           entered == Step([next EXCEPT !.open = Faded(next, f.price), !.episode = NoEpisode],
                           <<Faded(next, f.price).sign>>)
<1>1. (blind => ~managed /\ ~calm) /\ (managed => ~calm)
  OBVIOUS
<1>2. Cascade(m, f) =
        CASE blind -> Silent(m)
          [] managed -> IF CascadeEnds(m.open, f.price) THEN CascadeClosed(m) ELSE Silent(m)
          [] calm -> Silent(m)
          [] OTHER -> IF Fades(next, f.pressure, f.price) THEN entered ELSE Silent(next)
  BY DEF Cascade
<1>3. next \in CascadeMemory /\ next.open = m.open
  BY TrackedType
<1> HIDE DEF blind, managed, calm, next
<1>4. CASE blind
  BY <1>1, <1>2, <1>4, Zenon
<1>5. CASE managed
  BY <1>1, <1>2, <1>5, Zenon
<1>6. CASE calm
  BY <1>1, <1>2, <1>6, Zenon
<1>7. CASE ~blind /\ ~managed /\ ~calm
  <2>1. Cascade(m, f) = IF Fades(next, f.pressure, f.price) THEN entered ELSE Silent(next)
    BY <1>2, <1>7, Zenon
  <2>2. CASE Fades(next, f.pressure, f.price)
    <3>1. Faded(next, f.price) \in Fading /\ Faded(next, f.price).sign \in {-1, 1}
      BY <1>3, <2>2, FadedWell
    <3>2. Cascade(m, f) = entered
      BY <2>1, <2>2
    <3>3. QED
      BY <1>3, <3>1, <3>2, Zenon
  <2>3. CASE ~Fades(next, f.pressure, f.price)
    BY <1>3, <2>1, <2>3, Zenon
  <2>4. QED
    BY <2>2, <2>3
<1>8. QED
  BY <1>4, <1>5, <1>6, <1>7

-----------------------------------------------------------------------------

\* What each strategy remembers.
StrategyInv ==
  /\ tick \in Nat
  /\ kind \in Kind
  /\ kind = "trend" => asked[1] = memory.sign
  /\ kind = "cascade" => memory \in CascadeMemory /\ asked[1] = memory.open.sign
  /\ kind = "carry" => /\ memory \in [hedged: BOOLEAN, sign: {-1, 0}]
                       /\ asked[1] = memory.sign /\ asked[1] \in Int
                       /\ asked[2] = IF memory.hedged THEN -asked[1] ELSE 0
  /\ kind = "dispersion" =>
       /\ DOMAIN memory = {"funding", "priced", "seen", "open"}
       /\ asked[2] = memory.open.sign /\ asked[1] = -asked[2]
  /\ kind = "pairs" =>
       /\ DOMAIN memory = {"prices", "sign"}
       /\ asked[1] = memory.sign /\ (memory.sign = 0 => asked[2] = 0)

\* It holds of the answers.
LEMMA StrategyStep ==
  ASSUME StrategyInv, [StrategiesNext]_strategyVars
  PROVE  StrategyInv'
<1>0. tick \in Nat /\ kind \in Kind
  BY DEF StrategyInv
<1>1. \A m, t : Step(m, t).memory = m /\ Step(m, t).asked = t
  BY DEF Step
<1>2. \A m : Silent(m).memory = m /\ Silent(m).asked = asked
  BY <1>1 DEF Silent
<1>3. Flat1[1] = 0 /\ Flat2[1] = 0 /\ Flat2[2] = 0 /\ -0 = 0
  <2>1. Flat1[1] = 0 /\ Flat2[1] = 0 /\ Flat2[2] = 0
    BY DEF Flat1, Flat2
  <2>2. QED
    BY <2>1, NoSign, Zenon
<1>4. ASSUME NEW f \in TrendFeatures, Answered("trend", Trend(memory, f)) PROVE StrategyInv'
  <2>1. kind = "trend" /\ memory' = Trend(memory, f).memory /\ asked' = Trend(memory, f).asked
          /\ kind' = kind /\ tick' = tick
    BY <1>4 DEF Answered
  <2>2. asked[1] = memory.sign
    BY <2>1 DEF StrategyInv
  <2>3. asked'[1] = memory'.sign
    <3>1. CASE Trend(memory, f) = Silent(memory)
      BY <1>2, <2>1, <2>2, <3>1
    <3>2. CASE Trend(memory, f) = Step(NoPosition, Flat1)
      BY <1>1, <1>3, <2>1, <3>2 DEF NoPosition
    <3>3. ASSUME NEW sign \in {-1, 1}, NEW stop,
                 Trend(memory, f) = Step([sign |-> sign, stop |-> stop], <<sign>>)
          PROVE  asked'[1] = memory'.sign
      BY <1>1, <2>1, <3>3
    <3>4. QED
      BY <3>1, <3>2, <3>3, TrendAnswers
  <2>4. QED
    BY <1>0, <2>1, <2>3 DEF StrategyInv
<1>5. ASSUME NEW f \in CascadeFeatures, Answered("cascade", Cascade(memory, f)) PROVE StrategyInv'
  <2>1. kind = "cascade" /\ memory' = Cascade(memory, f).memory /\ asked' = Cascade(memory, f).asked
          /\ kind' = kind /\ tick' = tick
    BY <1>5 DEF Answered
  <2>2. asked[1] = memory.open.sign /\ memory \in CascadeMemory
    BY <2>1 DEF StrategyInv
  <2>3. f.price \in Int /\ f.pressure \in Int
    <3>1. f.price \in Quote \cup {Absent} /\ f.pressure \in (-2..2) \cup {Absent}
      BY DEF CascadeFeatures, Optional
    <3>2. Absent \in Int /\ Quote \subseteq Int /\ -2..2 \subseteq Int
      BY StrategiesAssumption DEF Absent
    <3>3. QED
      BY <3>1, <3>2
  <2>4. NoEpisode \in Episodes /\ NoPosition \in Fading /\ NoPosition.sign = 0
    BY DEF NoEpisode, Episodes, Absent, NoPosition, Fading
  <2>5. asked'[1] = memory'.open.sign /\ memory' \in CascadeMemory
    <3>1. CASE Cascade(memory, f) = Silent(memory)
      BY <1>2, <2>1, <2>2, <3>1
    <3>2. CASE Cascade(memory, f) = CascadeClosed(memory)
      <4>1. memory' = [memory EXCEPT !.open = NoPosition] /\ asked' = Flat1
        BY <1>1, <2>1, <3>2 DEF CascadeClosed
      <4>2. QED
        BY <1>3, <2>2, <2>4, <4>1 DEF CascadeMemory
    <3>3. ASSUME NEW next \in CascadeMemory, next.open = memory.open, Cascade(memory, f) = Silent(next)
          PROVE  asked'[1] = memory'.open.sign /\ memory' \in CascadeMemory
      BY <1>2, <2>1, <2>2, <3>3
    <3>4. ASSUME NEW next \in CascadeMemory, NEW p \in Fading, p.sign \in {-1, 1},
                 Cascade(memory, f) = Step([next EXCEPT !.open = p, !.episode = NoEpisode], <<p.sign>>)
          PROVE  asked'[1] = memory'.open.sign /\ memory' \in CascadeMemory
      <4>1. memory' = [next EXCEPT !.open = p, !.episode = NoEpisode] /\ asked' = <<p.sign>>
        BY <1>1, <2>1, <3>4
      <4>2. memory' \in CascadeMemory /\ memory'.open = p
        BY <2>4, <4>1 DEF CascadeMemory
      <4>3. QED
        BY <4>1, <4>2
    <3>5. PICK m \in CascadeMemory : m = memory
      BY <2>2
    <3>a. \/ Cascade(m, f) = Silent(m)
          \/ Cascade(m, f) = CascadeClosed(m)
          \/ \E next \in CascadeMemory : next.open = m.open /\ Cascade(m, f) = Silent(next)
          \/ \E next \in CascadeMemory, p \in Fading :
               /\ p.sign \in {-1, 1}
               /\ Cascade(m, f) = Step([next EXCEPT !.open = p, !.episode = NoEpisode], <<p.sign>>)
      BY <1>0, <2>3, CascadeAnswers
    <3>6. \/ Cascade(memory, f) = Silent(memory)
          \/ Cascade(memory, f) = CascadeClosed(memory)
          \/ \E next \in CascadeMemory : next.open = memory.open /\ Cascade(memory, f) = Silent(next)
          \/ \E next \in CascadeMemory, p \in Fading :
               /\ p.sign \in {-1, 1}
               /\ Cascade(memory, f) = Step([next EXCEPT !.open = p, !.episode = NoEpisode], <<p.sign>>)
      BY <3>5, <3>a, Zenon
    <3>7. QED
      BY <3>1, <3>2, <3>3, <3>4, <3>6
  <2>6. QED
    BY <1>0, <2>1, <2>5 DEF StrategyInv
<1>6. ASSUME NEW f \in CarryFeatures, Answered("carry", Carry(memory, f)) PROVE StrategyInv'
  <2>1. kind = "carry" /\ memory' = Carry(memory, f).memory /\ asked' = Carry(memory, f).asked
          /\ kind' = kind /\ tick' = tick
    BY <1>6 DEF Answered
  <2>2. memory \in [hedged: BOOLEAN, sign: {-1, 0}]
    BY <2>1 DEF StrategyInv
  <2>3. CASE Carry(memory, f) = Silent(memory)
    <3>1. memory' = memory /\ asked' = asked
      BY <1>2, <2>1, <2>3
    <3>2. QED
      BY <2>1, <3>1 DEF StrategyInv
  <2>4. ASSUME NEW sign \in {-1, 0}, asked' = CarryTargets(memory, sign),
               memory'.sign = sign, memory'.hedged = memory.hedged,
               memory' \in [hedged: BOOLEAN, sign: {-1, 0}]
        PROVE  StrategyInv'
    <3>1. CASE memory.hedged = TRUE
      <4>1. asked' = <<sign, -sign>>
        BY <2>4, <3>1, Zenon DEF CarryTargets
      <4>2. asked'[1] = sign /\ asked'[2] = -sign /\ memory'.hedged = TRUE
        BY <2>4, <3>1, <4>1
      <4>3. asked'[2] = IF memory'.hedged THEN -asked'[1] ELSE 0
        BY <4>2
      <4>4. QED
        BY <1>0, <2>1, <2>4, <4>2, <4>3 DEF StrategyInv
    <3>2. CASE memory.hedged = FALSE
      <4>1. asked' = <<sign, 0>>
        BY <2>4, <3>2, Zenon DEF CarryTargets
      <4>2. asked'[1] = sign /\ asked'[2] = 0 /\ memory'.hedged = FALSE
        BY <2>4, <3>2, <4>1
      <4>3. asked'[2] = IF memory'.hedged THEN -asked'[1] ELSE 0
        BY <4>2
      <4>4. QED
        BY <1>0, <2>1, <2>4, <4>2, <4>3 DEF StrategyInv
    <3>3. QED
      BY <2>2, <3>1, <3>2
  <2>5. CASE Carry(memory, f) = Step(CarryFresh(memory.hedged), CarryTargets(memory, 0))
    <3>1. memory' = CarryFresh(memory.hedged) /\ asked' = CarryTargets(memory, 0)
      BY <1>1, <2>1, <2>5
    <3>2. memory'.sign = 0 /\ memory'.hedged = memory.hedged /\ memory' \in [hedged: BOOLEAN, sign: {-1, 0}]
      BY <2>2, <3>1 DEF CarryFresh
    <3>3. QED
      BY <2>4, <3>1, <3>2
  <2>6. CASE Carry(memory, f) = Step([memory EXCEPT !.sign = -1], CarryTargets(memory, -1))
    <3>1. memory' = [memory EXCEPT !.sign = -1] /\ asked' = CarryTargets(memory, -1)
      BY <1>1, <2>1, <2>6
    <3>2. memory'.sign = -1 /\ memory'.hedged = memory.hedged /\ memory' \in [hedged: BOOLEAN, sign: {-1, 0}]
      BY <2>2, <3>1
    <3>3. QED
      BY <2>4, <3>1, <3>2
  <2>7. QED
    BY <2>3, <2>5, <2>6, CarryAnswers
<1>7. ASSUME NEW f \in DispersionFeatures, Answered("dispersion", Dispersion(memory, f)) PROVE StrategyInv'
  <2> DEFINE noted == Reported(memory, f)
  <2>1. kind = "dispersion" /\ memory' = Dispersion(memory, f).memory /\ asked' = Dispersion(memory, f).asked
          /\ kind' = kind /\ tick' = tick
    BY <1>7 DEF Answered
  <2>2. /\ DOMAIN memory = {"funding", "priced", "seen", "open"}
        /\ asked[2] = memory.open.sign /\ asked[1] = -asked[2]
    BY <2>1 DEF StrategyInv
  <2>3. DOMAIN noted = {"funding", "priced", "seen", "open"} /\ noted.open = memory.open
    BY <2>2 DEF Reported
  <2> HIDE DEF noted
  <2>4. ASSUME DOMAIN memory' = {"funding", "priced", "seen", "open"},
               asked'[2] = memory'.open.sign, asked'[1] = -asked'[2]
        PROVE  StrategyInv'
    BY <1>0, <2>1, <2>4 DEF StrategyInv
  <2>5. CASE Dispersion(memory, f) = Silent(noted)
    BY <1>2, <2>1, <2>2, <2>3, <2>4, <2>5
  <2>6. CASE Dispersion(memory, f) = Step([noted EXCEPT !.open = NoPosition], Flat2)
    <3>1. memory' = [noted EXCEPT !.open = NoPosition] /\ asked' = Flat2
      BY <1>1, <2>1, <2>6
    <3>2. QED
      BY <1>3, <2>3, <2>4, <3>1 DEF NoPosition
  <2>7. ASSUME NEW sign \in {-1, 1},
               Dispersion(memory, f) = Step([noted EXCEPT !.open = [sign |-> sign, opened |-> tick]], <<-sign, sign>>)
        PROVE  StrategyInv'
    <3>1. memory' = [noted EXCEPT !.open = [sign |-> sign, opened |-> tick]] /\ asked' = <<-sign, sign>>
      BY <1>1, <2>1, <2>7
    <3>2. QED
      BY <2>3, <2>4, <3>1
  <2>8. QED
    BY <2>5, <2>6, <2>7, DispersionAnswers DEF noted
<1>8. ASSUME NEW f \in PairsFeatures, Answered("pairs", Pairs(memory, f)) PROVE StrategyInv'
  <2> DEFINE noted == [memory EXCEPT !.prices[f.symbol] = Kept(Append(@, tick))]
  <2>1. kind = "pairs" /\ memory' = Pairs(memory, f).memory /\ asked' = Pairs(memory, f).asked
          /\ kind' = kind /\ tick' = tick
    BY <1>8 DEF Answered
  <2>2. DOMAIN memory = {"prices", "sign"} /\ asked[1] = memory.sign
        /\ (memory.sign = 0 => asked[2] = 0)
    BY <2>1 DEF StrategyInv
  <2>3. DOMAIN noted = {"prices", "sign"} /\ noted.sign = memory.sign
    BY <2>2
  <2> HIDE DEF noted
  <2>4. ASSUME DOMAIN memory' = {"prices", "sign"}, asked'[1] = memory'.sign,
               memory'.sign = 0 => asked'[2] = 0
        PROVE  StrategyInv'
    BY <1>0, <2>1, <2>4 DEF StrategyInv
  <2>5. CASE Pairs(memory, f) = Silent(memory)
    BY <1>2, <2>1, <2>2, <2>4, <2>5
  <2>6. CASE Pairs(memory, f) = Silent(noted)
    BY <1>2, <2>1, <2>2, <2>3, <2>4, <2>6
  <2>7. CASE Pairs(memory, f) = Step([noted EXCEPT !.sign = 0], Flat2)
    <3>1. memory' = [noted EXCEPT !.sign = 0] /\ asked' = Flat2
      BY <1>1, <2>1, <2>7
    <3>2. QED
      BY <1>3, <2>3, <2>4, <3>1
  <2>8. ASSUME NEW sign \in {-1, 1}, NEW other \in Int,
               Pairs(memory, f) = Step([noted EXCEPT !.sign = -sign], <<-sign, other>>)
        PROVE  StrategyInv'
    <3>1. memory' = [noted EXCEPT !.sign = -sign] /\ asked' = <<-sign, other>>
      BY <1>1, <2>1, <2>8
    <3>2. memory'.sign # 0
      BY <2>3, <3>1
    <3>3. QED
      BY <2>3, <2>4, <3>1, <3>2
  <2>9. QED
    BY <2>5, <2>6, <2>7, <2>8, PairsAnswers DEF noted
<1>9. CASE Tick
  <2>1. tick' = tick + 1 /\ kind' = kind /\ memory' = memory /\ asked' = asked
    BY <1>9 DEF Tick
  <2>2. tick' \in Nat
    BY <1>0, <2>1
  <2>3. QED
    BY <2>1, <2>2 DEF StrategyInv
<1>10. CASE UNCHANGED strategyVars
  BY <1>10 DEF strategyVars, StrategyInv
<1>11. QED
  BY <1>4, <1>5, <1>6, <1>7, <1>8, <1>9, <1>10
     DEF StrategiesNext, OnTrend, OnCascade, OnCarry, OnDispersion, OnPairs

\* A strategy's memory and what it asked for agree.
THEOREM MemoryMatches == StrategiesSpec => []MemoryIsAsked
<1>1. StrategiesInit => StrategyInv
  <2>1. SUFFICES ASSUME StrategiesInit PROVE StrategyInv
    OBVIOUS
  <2>2. tick = 0 /\ tick \in Nat /\ kind \in Kind
    BY <2>1 DEF StrategiesInit, Kind
  <2>3. CASE kind = "trend"
    BY <2>1, <2>2, <2>3 DEF StrategiesInit, StrategyInv, NoPosition, Flat1
  <2>4. CASE kind = "cascade"
    <3>1. memory = CascadeFresh /\ asked = Flat1
      BY <2>1, <2>4 DEF StrategiesInit
    <3>2. CascadeFresh \in CascadeMemory /\ CascadeFresh.open.sign = 0
      BY DEF CascadeFresh, CascadeMemory, NoEpisode, Episodes, Absent, NoPosition, Fading
    <3>3. QED
      BY <2>2, <2>4, <3>1, <3>2 DEF StrategyInv, Flat1
  <2>5. CASE kind = "carry"
    <3>1. PICK h \in BOOLEAN : memory = CarryFresh(h)
      BY <2>1, <2>5 DEF StrategiesInit
    <3>a. asked = Flat2
      BY <2>1, <2>5 DEF StrategiesInit
    <3>2. asked[1] = 0 /\ asked[2] = 0
      BY <3>a DEF Flat2
    <3>3. memory \in [hedged: BOOLEAN, sign: {-1, 0}] /\ memory.sign = 0
      BY <3>1 DEF CarryFresh
    <3>4. asked[2] = IF memory.hedged THEN -asked[1] ELSE 0
      BY <3>2, NoSign, Zenon
    <3>5. asked[1] = memory.sign /\ asked[1] \in Int
      BY <3>2, <3>3
    <3>6. kind # "trend" /\ kind # "cascade" /\ kind # "dispersion" /\ kind # "pairs"
      BY <2>5
    <3>7. QED
      BY <2>2, <2>5, <3>3, <3>4, <3>5, <3>6, Zenon DEF StrategyInv
  <2>6. CASE kind = "dispersion"
    BY <2>1, <2>2, <2>6 DEF StrategiesInit, StrategyInv, DispersionFresh, NoPosition, Flat2
  <2>7. CASE kind = "pairs"
    BY <2>1, <2>2, <2>7 DEF StrategiesInit, StrategyInv, PairsFresh, Flat2
  <2>8. QED
    BY <2>2, <2>3, <2>4, <2>5, <2>6, <2>7 DEF Kind
<1>2. StrategyInv /\ [StrategiesNext]_strategyVars => StrategyInv'
  BY StrategyStep
<1>3. StrategyInv => MemoryIsAsked
  <2>1. SUFFICES ASSUME StrategyInv PROVE MemoryIsAsked
    OBVIOUS
  <2>2. AskedSide = Held
    BY <2>1 DEF StrategyInv, AskedSide, Held, Kind
  <2>3. /\ kind = "dispersion" => asked[1] = -asked[2]
        /\ kind = "pairs" => (Held = 0 => asked[2] = 0)
    BY <2>1 DEF StrategyInv, Held
  <2>4. kind = "carry" => asked[2] = IF memory.hedged THEN -asked[1] ELSE 0
    BY <2>1 DEF StrategyInv
  <2>5. (kind = "cascade" /\ Held # 0) =>
          (2 * memory.open.at - memory.open.twiceStop) * Held > 0
            /\ (memory.open.twiceTarget - 2 * memory.open.at) * Held > 0
    <3>1. SUFFICES ASSUME kind = "cascade", Held # 0
                   PROVE  /\ (2 * memory.open.at - memory.open.twiceStop) * Held > 0
                          /\ (memory.open.twiceTarget - 2 * memory.open.at) * Held > 0
      OBVIOUS
    <3>2. Held = memory.open.sign /\ memory.open \in Fading
      BY <2>1, <3>1 DEF StrategyInv, Held, CascadeMemory
    <3>3. memory.open # NoPosition
      BY <3>1, <3>2 DEF NoPosition
    <3>4. QED
      BY <3>2, <3>3 DEF Fading
  <2>6. QED
    BY <2>2, <2>3, <2>4, <2>5, Zenon DEF MemoryIsAsked
<1>4. QED
  BY <1>1, <1>2, <1>3, PTL DEF StrategiesSpec

-----------------------------------------------------------------------------
(* The books (Books).                                                      *)

Position == [qty: Int, avg: Int]
Account == [cash: Int, realised: Int, funding: Int, borrow: Int, settled: Int, fees: Int,
            slippage: Int, pos: [Instrument -> Position], mark: [Instrument -> Int],
            accrual: [Instrument -> Int]]

Flows == [entries: Nat, paid: Int, costs: Int, funding: Int, told: BOOLEAN]

\* What the account's positions cost, and what each strategy holds of an instrument.
Cost(pos) == [k \in Instrument |-> pos[k].qty * pos[k].avg]
Shares(views, k) == [s \in Strategy |-> views[s].pos[k].qty]

\* The cash is what was started with less what was paid for what is held, and every
\* entry of it is one the books can name; no funding waits.
Balanced(b, f) ==
  /\ b.cash - b.borrow = StartCash - f.paid + OverKeys(Cost(b.pos)) - f.costs + f.funding
  /\ b.cash = ExpectedCash(b) /\ b.funding = 0 /\ \A k \in Instrument : b.accrual[k] = 0

\* A product with a sum.
LEMMA Spread ==
  ASSUME NEW x \in Int, NEW y \in Int, NEW z \in Int
  PROVE  /\ (x + y) * z = x * z + y * z /\ (x - y) * z = x * z - y * z
         /\ z * (x + y) = z * x + z * y /\ z * (x - y) = z * x - z * y
         /\ x * (-y) = -(x * y) /\ (-x) * y = -(x * y) /\ x * y = y * x /\ x * y \in Int
OBVIOUS

\* A fill changes the quantity by its own, and what the position costs by what it paid
\* and what it realised: averaging makes no money.
LEMMA AveragingIsFair ==
  ASSUME NEW held \in Position, NEW amount \in Int, amount # 0, NEW price \in Int,
         WholeAverage(held, amount, price)
  PROVE  LET done == Applied(held, amount, price) IN
         /\ done.pos \in Position /\ done.realised \in Int
         /\ done.pos.qty = held.qty + amount
         /\ done.pos.qty * done.pos.avg = held.qty * held.avg + amount * price + done.realised
<1> DEFINE done == Applied(held, amount, price)
           q == held.qty
           a == held.avg
           new == q + amount
           At(avg, realised) == [pos |-> IF new = 0 THEN Flat ELSE [qty |-> new, avg |-> avg],
                                 realised |-> realised]
           whole == (price - a) * q
<1> SUFFICES /\ done.pos \in Position /\ done.realised \in Int
             /\ done.pos.qty = new
             /\ done.pos.qty * done.pos.avg = q * a + amount * price + done.realised
  OBVIOUS
<1>0. q \in Int /\ a \in Int /\ new \in Int
  BY DEF Position
<1>1. ASSUME NEW avg \in Int, NEW realised \in Int, done = At(avg, realised),
             new * avg = q * a + amount * price + realised
      PROVE  /\ done.pos \in Position /\ done.realised \in Int
             /\ done.pos.qty = new
             /\ done.pos.qty * done.pos.avg = q * a + amount * price + done.realised
  <2>1. done.realised = realised /\ done.pos = IF new = 0 THEN Flat ELSE [qty |-> new, avg |-> avg]
    BY <1>1
  <2>2. CASE new = 0
    <3>1. done.pos = Flat /\ Flat.qty = 0 /\ Flat.avg = 0 /\ Flat \in Position
      BY <2>1, <2>2 DEF Flat, Position
    <3>2. new * avg = 0
      BY <2>2
    <3>3. QED
      BY <1>1, <2>1, <2>2, <3>1, <3>2
  <2>3. CASE new # 0
    <3>1. done.pos = [qty |-> new, avg |-> avg]
      BY <2>1, <2>3
    <3>2. done.pos.qty = new /\ done.pos.avg = avg /\ done.pos \in Position
      BY <1>0, <3>1 DEF Position
    <3>3. QED
      BY <1>1, <2>1, <3>2
  <2>4. QED
    BY <2>2, <2>3
<1> DEFINE opening == q = 0
           adding == q # 0 /\ SameWay(q, amount)
           closing == q # 0 /\ new = 0
           reducing == q # 0 /\ ~SameWay(q, amount) /\ new # 0 /\ SameWay(q, new)
<1>2. done = CASE opening -> At(price, 0)
               [] adding -> At(Average(held, amount, price), 0)
               [] closing -> At(0, whole)
               [] reducing -> At(a, (price - a) * (-amount))
               [] OTHER -> At(price, whole)
  BY DEF Applied
<1>3. whole \in Int /\ (price - a) * (-amount) \in Int /\ whole = price * q - a * q
  BY <1>0, Spread
<1>4. ~(opening /\ adding) /\ ~(opening /\ closing) /\ ~(opening /\ reducing) /\ ~(adding /\ reducing)
        /\ ~(closing /\ reducing) /\ ~(adding /\ closing)
  BY <1>0 DEF SameWay
<1> HIDE DEF opening, adding, closing, reducing, done, At, whole
<1>5. CASE opening
  <2>1. done = At(price, 0)
    BY <1>2, <1>4, <1>5, Zenon
  <2>2. new * price = q * a + amount * price + 0
    BY <1>0, <1>5 DEF opening
  <2>3. QED
    BY <1>1, <2>1, <2>2
<1>6. CASE adding
  <2>1. done = At(Average(held, amount, price), 0)
    BY <1>2, <1>4, <1>6, Zenon
  <2>2. Average(held, amount, price) \in Int
          /\ new * Average(held, amount, price) = q * a + amount * price + 0
    <3> DEFINE n == Magnitude(q) * a + Magnitude(amount) * price
               d == Magnitude(new)
    <3>1. n \in Int /\ d \in Nat /\ d # 0
      BY <1>0, <1>6 DEF adding, SameWay, Magnitude
    <3>2. n % d = 0
      BY <1>6 DEF WholeAverage, adding
    <3>3. Average(held, amount, price) = n \div d
      BY DEF Average
    <3> HIDE DEF n, d
    <3>4. n \div d \in Int /\ n = d * (n \div d)
      BY <3>1, <3>2
    <3>5. PICK avg \in Int : avg = Average(held, amount, price)
      BY <3>3, <3>4
    <3>6. d * avg = n
      BY <3>3, <3>4, <3>5
    <3>7. CASE q > 0
      <4>1. d = new /\ n = q * a + amount * price
        BY <1>0, <1>6, <3>7 DEF d, n, adding, SameWay, Magnitude
      <4>2. QED
        BY <3>5, <3>6, <4>1, <1>0
    <3>8. CASE ~(q > 0)
      <4>1. d = -new /\ n = (-q) * a + (-amount) * price
        BY <1>0, <1>6, <3>8 DEF d, n, adding, SameWay, Magnitude
      <4>2. (-new) * avg = -(new * avg) /\ (-q) * a = -(q * a) /\ (-amount) * price = -(amount * price)
              /\ new * avg \in Int /\ q * a \in Int /\ amount * price \in Int
        BY <1>0, Spread
      <4>3. (-new) * avg = (-q) * a + (-amount) * price
        BY <3>6, <4>1, Zenon
      <4> HIDE DEF new
      <4>x. PICK x \in Int : x = new * avg
        BY <4>2
      <4>y. PICK y \in Int : y = q * a
        BY <4>2
      <4>z. PICK z \in Int : z = amount * price
        BY <4>2
      <4>n. -x = -y + -z
        BY <4>2, <4>3, <4>x, <4>y, <4>z, Zenon
      <4>s. x = y + z + 0
        BY <4>n
      <4>4. new * avg = q * a + amount * price + 0
        BY <4>x, <4>y, <4>z, <4>s, Zenon
      <4>5. QED
        BY <3>5, <4>4, Zenon DEF new
    <3>9. QED
      BY <3>7, <3>8
  <2>3. QED
    BY <1>1, <2>1, <2>2
<1>7. CASE closing
  <2>1. done = At(0, whole)
    BY <1>2, <1>4, <1>7, Zenon
  <2>2. amount = -q
    BY <1>0, <1>7 DEF closing
  <2>3. amount * price = -(price * q) /\ q * a = a * q /\ price * q \in Int /\ a * q \in Int
    BY <1>0, <2>2, Spread
  <2>4. new * 0 = q * a + amount * price + whole
    BY <1>0, <1>3, <2>3
  <2>5. QED
    BY <1>1, <1>3, <2>1, <2>4
<1>8. CASE reducing
  <2>1. done = At(a, (price - a) * (-amount))
    BY <1>2, <1>4, <1>8, Zenon
  <2>2. (price - a) * (-amount) = -(amount * price) + amount * a
    BY <1>0, Spread
  <2>3. new * a = q * a + amount * a /\ q * a \in Int /\ amount * a \in Int /\ amount * price \in Int
    BY <1>0, Spread
  <2>4. new * a = q * a + amount * price + (price - a) * (-amount)
    BY <2>2, <2>3
  <2>5. QED
    BY <1>0, <1>1, <1>3, <2>1, <2>4
<1>9. CASE ~opening /\ ~adding /\ ~closing /\ ~reducing
  <2>1. done = At(price, whole)
    BY <1>2, <1>9, Zenon
  <2>2. new * price = q * price + amount * price /\ q * price = price * q /\ q * a = a * q
          /\ amount * price \in Int /\ price * q \in Int /\ a * q \in Int
    BY <1>0, Spread
  <2>3. new * price = q * a + amount * price + whole
    BY <1>3, <2>2
  <2>4. QED
    BY <1>1, <1>3, <2>1, <2>3
<1>10. QED
  BY <1>5, <1>6, <1>7, <1>8, <1>9

\* A strategy's own view takes the whole quantity too.
LEMMA MirrorIsFair ==
  ASSUME NEW held, held.qty \in Int, NEW amount \in Int, NEW price
  PROVE  Mirrored(held, amount, price).qty = held.qty + amount
<1> DEFINE q == held.qty
           new == q + amount
           closing == new = 0
           opening == new # 0 /\ q = 0
           adding == new # 0 /\ q # 0 /\ SameWay(q, amount)
<1>1. Mirrored(held, amount, price) =
        CASE closing -> Flat
          [] opening -> [qty |-> new, avg |-> price]
          [] adding -> [qty |-> new, avg |-> Average(held, amount, price)]
          [] OTHER -> [qty |-> new, avg |-> held.avg]
  BY DEF Mirrored
<1>2. ~(closing /\ opening) /\ ~(closing /\ adding) /\ ~(opening /\ adding)
  OBVIOUS
<1>3. closing => new = 0
  OBVIOUS
<1> HIDE DEF new, closing, opening, adding
<1>4. CASE closing
  <2>1. Mirrored(held, amount, price) = Flat
    BY <1>1, <1>2, <1>4, Zenon
  <2>2. QED
    BY <1>3, <1>4, <2>1 DEF Flat, new
<1>5. CASE opening
  <2>1. Mirrored(held, amount, price) = [qty |-> new, avg |-> price]
    BY <1>1, <1>2, <1>5, Zenon
  <2>2. QED
    BY <2>1 DEF new
<1>6. CASE adding
  <2>1. Mirrored(held, amount, price) = [qty |-> new, avg |-> Average(held, amount, price)]
    BY <1>1, <1>2, <1>6, Zenon
  <2>2. QED
    BY <2>1 DEF new
<1>7. CASE ~closing /\ ~opening /\ ~adding
  <2>1. Mirrored(held, amount, price) = [qty |-> new, avg |-> held.avg]
    BY <1>1, <1>7, Zenon
  <2>2. QED
    BY <2>1 DEF new
<1>8. QED
  BY <1>4, <1>5, <1>6, <1>7

\* What the positions cost is an integer, and changes with one of them.
LEMMA CostChange ==
  ASSUME NEW p \in [Instrument -> Position], NEW r \in [Instrument -> Position], NEW k \in Instrument,
         \A j \in Instrument \ {k} : r[j] = p[j]
  PROVE  /\ OverKeys(Cost(p)) \in Int
         /\ OverKeys(Cost(r)) = OverKeys(Cost(p)) - p[k].qty * p[k].avg + r[k].qty * r[k].avg
<1>1. \A j \in Instrument : /\ Cost(p)[j] = p[j].qty * p[j].avg /\ Cost(r)[j] = r[j].qty * r[j].avg
                            /\ Cost(p)[j] \in Int /\ Cost(r)[j] \in Int
  <2> SUFFICES ASSUME NEW j \in Instrument
               PROVE  /\ Cost(p)[j] = p[j].qty * p[j].avg /\ Cost(r)[j] = r[j].qty * r[j].avg
                      /\ Cost(p)[j] \in Int /\ Cost(r)[j] \in Int
    OBVIOUS
  <2>1. p[j] \in Position /\ r[j] \in Position
    OBVIOUS
  <2>2. p[j].qty * p[j].avg \in Int /\ r[j].qty * r[j].avg \in Int
    BY <2>1, Spread DEF Position
  <2>3. QED
    BY <2>2 DEF Cost
<1>2. \A j \in Instrument \ {k} : Cost(r)[j] = Cost(p)[j]
  BY <1>1
<1>3. IsFiniteSet(Instrument) /\ Numbers(Cost(p), Instrument)
  BY <1>1, BooksAssumption DEF Numbers
<1>4. SumFunctionOnSet(Cost(r), Instrument) =
        SumFunctionOnSet(Cost(p), Instrument) - Cost(p)[k] + Cost(r)[k]
  BY <1>1, <1>2, <1>3, SumChange
<1>5. SumFunctionOnSet(Cost(p), Instrument) \in Int
  BY <1>3, SumInteger
<1>6. QED
  BY <1>1, <1>4, <1>5 DEF OverKeys

\* So the cost of any positions is one.
LEMMA CostType ==
  ASSUME NEW p \in [Instrument -> Position]
  PROVE  OverKeys(Cost(p)) \in Int
<1>1. CASE Instrument = {}
  <2>1. IsFiniteSet(Instrument) /\ Numbers(Cost(p), Instrument)
    BY <1>1, BooksAssumption DEF Numbers
  <2>2. QED
    BY <2>1, SumInteger DEF OverKeys
<1>2. CASE Instrument # {}
  BY <1>2, CostChange
<1>3. QED
  BY <1>1, <1>2

\* A fill in the account's books.
LEMMA FillBooks ==
  ASSUME NEW b \in Account, NEW k \in Instrument, NEW amount \in Int, amount # 0, NEW price \in Int,
         WholeAverage(b.pos[k], amount, price)
  PROVE  LET c == BookFill(b, k, amount, price, 0) IN
         /\ c \in Account
         /\ c.pos[k].qty = b.pos[k].qty + amount /\ \A j \in Instrument \ {k} : c.pos[j] = b.pos[j]
         /\ OverKeys(Cost(c.pos)) =
              OverKeys(Cost(b.pos)) + amount * price + (c.realised - b.realised)
         /\ c.cash = b.cash + (c.realised - b.realised) - FillFee
         /\ c.fees = b.fees + FillFee /\ c.slippage = b.slippage
         /\ c.funding = b.funding /\ c.borrow = b.borrow /\ c.settled = b.settled
         /\ c.accrual = b.accrual /\ c.mark = b.mark
<1> DEFINE c == BookFill(b, k, amount, price, 0)
           done == Applied(b.pos[k], amount, price)
<1>1. b.pos \in [Instrument -> Position] /\ b.pos[k] \in Position
  BY DEF Account
<1>2. /\ done.pos \in Position /\ done.realised \in Int
      /\ done.pos.qty = b.pos[k].qty + amount
      /\ done.pos.qty * done.pos.avg = b.pos[k].qty * b.pos[k].avg + amount * price + done.realised
  BY <1>1, AveragingIsFair
<1>3. PICK n \in Position : n = done.pos
  BY <1>2
<1>4. PICK gain \in Int : gain = done.realised
  BY <1>2
<1>5. c = [b EXCEPT !.pos[k] = n, !.realised = @ + gain, !.cash = @ + gain - FillFee - 0,
                    !.fees = @ + FillFee, !.slippage = @ + 0]
  BY <1>3, <1>4 DEF BookFill
<1>6. PICK pos \in [Instrument -> Position] : pos = [b.pos EXCEPT ![k] = n]
  BY <1>1
<1>7. pos[k] = n /\ \A j \in Instrument \ {k} : pos[j] = b.pos[j]
  BY <1>1, <1>6
<1>8. /\ b.realised + gain \in Int /\ b.cash + gain - FillFee - 0 \in Int
      /\ b.fees + FillFee \in Int /\ b.slippage + 0 \in Int /\ b.slippage + 0 = b.slippage
  BY DEF Account, FillFee
<1>9. /\ c \in Account /\ c.pos = pos /\ c.realised = b.realised + gain
      /\ c.cash = b.cash + gain - FillFee - 0 /\ c.fees = b.fees + FillFee /\ c.slippage = b.slippage
      /\ c.funding = b.funding /\ c.borrow = b.borrow /\ c.settled = b.settled
      /\ c.accrual = b.accrual /\ c.mark = b.mark
  <2>1. c = [b EXCEPT !.pos = pos, !.realised = b.realised + gain, !.cash = b.cash + gain - FillFee - 0,
                      !.fees = b.fees + FillFee, !.slippage = b.slippage]
    BY <1>5, <1>6, <1>8 DEF Account
  <2> HIDE DEF c
  <2>2. QED
    BY <1>8, <2>1 DEF Account
<1> HIDE DEF c, done
<1>10. OverKeys(Cost(pos)) =
         OverKeys(Cost(b.pos)) - b.pos[k].qty * b.pos[k].avg + n.qty * n.avg
         /\ OverKeys(Cost(b.pos)) \in Int
  BY <1>1, <1>7, CostChange
<1>11. n.qty = b.pos[k].qty + amount
         /\ n.qty * n.avg = b.pos[k].qty * b.pos[k].avg + amount * price + gain
  BY <1>2, <1>3, <1>4, Zenon
<1>12. PICK before \in Int : before = b.pos[k].qty * b.pos[k].avg
  BY <1>1, Spread DEF Position
<1>13. PICK paid \in Int : paid = amount * price
  BY Spread
<1>14. OverKeys(Cost(pos)) = OverKeys(Cost(b.pos)) - before + (before + paid + gain)
  BY <1>10, <1>11, <1>12, <1>13, Zenon
<1>15. OverKeys(Cost(pos)) = OverKeys(Cost(b.pos)) + paid + gain
  BY <1>10, <1>14
<1>16. c.realised - b.realised = gain /\ b.cash + gain - FillFee - 0 = b.cash + gain - FillFee
  BY <1>8, <1>9 DEF Account, FillFee
<1>17. QED
  BY <1>7, <1>9, <1>11, <1>13, <1>15, <1>16 DEF c

\* The strategies' views: a position for each instrument.
ViewsOK(l) ==
  DOMAIN l = Strategy /\ \A s \in Strategy :
    /\ "pos" \in DOMAIN l[s] /\ DOMAIN l[s].pos = Instrument
    /\ \A k \in Instrument : l[s].pos[k].qty \in Int

HeldBy(l, k) == SumFunctionOnSet(Shares(l, k), Strategy)
SameViews(m, l) == \A s \in Strategy, k \in Instrument : m[s].pos[k].qty = l[s].pos[k].qty

\* Views that hold the same add up to the same.
LEMMA SameHeld ==
  ASSUME NEW l, NEW m, ViewsOK(l), SameViews(m, l)
  PROVE  \A k \in Instrument : HeldBy(m, k) = HeldBy(l, k) /\ HeldBy(l, k) \in Int
<1> SUFFICES ASSUME NEW k \in Instrument PROVE HeldBy(m, k) = HeldBy(l, k) /\ HeldBy(l, k) \in Int
  OBVIOUS
<1>1. Shares(m, k) = Shares(l, k)
  BY DEF Shares, SameViews
<1>2. IsFiniteSet(Strategy) /\ Numbers(Shares(l, k), Strategy)
  BY BooksAssumption DEF Numbers, Shares, ViewsOK
<1>3. QED
  BY <1>1, <1>2, SumInteger DEF HeldBy

\* One strategy's quantity of one instrument is one term of what all hold of it.
LEMMA ViewMoves ==
  ASSUME NEW l, ViewsOK(l), NEW m, NEW s \in Strategy, NEW k \in Instrument, NEW amount \in Int,
         m[s].pos[k].qty = l[s].pos[k].qty + amount,
         \A t \in Strategy, j \in Instrument : t # s \/ j # k => m[t].pos[j].qty = l[t].pos[j].qty
  PROVE  /\ HeldBy(m, k) = HeldBy(l, k) + amount
         /\ \A j \in Instrument \ {k} : HeldBy(m, j) = HeldBy(l, j)
         /\ \A j \in Instrument : HeldBy(l, j) \in Int
<1>1. \A j \in Instrument : Numbers(Shares(l, j), Strategy)
  BY DEF Numbers, Shares, ViewsOK
<1>2. IsFiniteSet(Strategy)
  BY BooksAssumption
<1>3. \A j \in Instrument : HeldBy(l, j) \in Int
  BY <1>1, <1>2, SumInteger DEF HeldBy
<1>4. HeldBy(m, k) = HeldBy(l, k) + amount
  <2>1. /\ Shares(m, k)[s] = Shares(l, k)[s] + amount /\ Shares(l, k)[s] \in Int
        /\ \A t \in Strategy \ {s} : Shares(m, k)[t] = Shares(l, k)[t]
    BY DEF Shares, ViewsOK
  <2>2. Shares(m, k)[s] \in Int
    BY <2>1
  <2>3. HeldBy(m, k) = HeldBy(l, k) - Shares(l, k)[s] + Shares(m, k)[s]
    BY <1>1, <1>2, <2>1, <2>2, SumChange DEF HeldBy
  <2>4. QED
    BY <1>3, <2>1, <2>3
<1>5. \A j \in Instrument \ {k} : Shares(m, j) = Shares(l, j)
  BY DEF Shares
<1>6. QED
  BY <1>3, <1>4, <1>5 DEF HeldBy

\* Marking the views to the books leaves what they hold.
LEMMA RefreshHolds ==
  ASSUME NEW b, NEW l, ViewsOK(l)
  PROVE  ViewsOK(Refreshed(b, l)) /\ SameViews(Refreshed(b, l), l)
<1>1. DOMAIN Refreshed(b, l) = Strategy
        /\ \A s \in Strategy : Refreshed(b, l)[s] = [l[s] EXCEPT !.unrealised = Paper(b, l[s])]
  BY DEF Refreshed
<1>2. \A s \in Strategy : /\ DOMAIN Refreshed(b, l)[s] = DOMAIN l[s]
                          /\ Refreshed(b, l)[s].pos = l[s].pos
  <2> SUFFICES ASSUME NEW s \in Strategy
               PROVE  DOMAIN Refreshed(b, l)[s] = DOMAIN l[s] /\ Refreshed(b, l)[s].pos = l[s].pos
    OBVIOUS
  <2>1. PICK u : u = Paper(b, l[s])
    OBVIOUS
  <2>2. Refreshed(b, l)[s] = [l[s] EXCEPT !.unrealised = u]
    BY <1>1, <2>1
  <2>3. "pos" \in DOMAIN l[s]
    BY DEF ViewsOK
  <2>4. QED
    BY <2>2, <2>3
<1>3. QED
  BY <1>1, <1>2 DEF ViewsOK, SameViews

\* A fill, or one side of a crossing, in the positions of its strategy.
LEMMA PositionTakes ==
  ASSUME NEW p, DOMAIN p = Instrument, \A j \in Instrument : p[j].qty \in Int,
         NEW k \in Instrument, NEW amount \in Int, NEW price
  PROVE  LET r == [p EXCEPT ![k] = Mirrored(p[k], amount, price)] IN
         /\ DOMAIN r = Instrument /\ \A j \in Instrument : r[j].qty \in Int
         /\ r[k].qty = p[k].qty + amount /\ \A j \in Instrument \ {k} : r[j] = p[j]
<1>1. Mirrored(p[k], amount, price).qty = p[k].qty + amount
  BY MirrorIsFair
<1>2. PICK n : n = Mirrored(p[k], amount, price)
  OBVIOUS
<1>3. QED
  BY <1>1, <1>2

\* The strategies that have entered the books.
Names(kn) == {kn[i] : i \in DOMAIN kn}
Enters(kn, s) == IF \E i \in DOMAIN kn : kn[i] = s THEN kn ELSE Append(kn, s)
AllKnown(l, kn) ==
  /\ kn \in Seq(Strategy)
  /\ \A s \in Strategy, k \in Instrument : l[s].pos[k].qty # 0 => s \in Names(kn)

\* A strategy that enters is named from then on.
LEMMA Entered ==
  ASSUME NEW kn \in Seq(Strategy), NEW s \in Strategy
  PROVE  Enters(kn, s) \in Seq(Strategy) /\ Names(Enters(kn, s)) = Names(kn) \cup {s}
<1>1. CASE \E i \in DOMAIN kn : kn[i] = s
  BY <1>1 DEF Enters, Names
<1>2. CASE ~\E i \in DOMAIN kn : kn[i] = s
  <2>1. Enters(kn, s) = Append(kn, s)
    BY <1>2 DEF Enters
  <2>2. PICK a : a = Append(kn, s)
    OBVIOUS
  <2>3. /\ a \in Seq(Strategy) /\ DOMAIN a = DOMAIN kn \cup {Len(kn) + 1} /\ a[Len(kn) + 1] = s
        /\ \A i \in DOMAIN kn : a[i] = kn[i]
    BY <2>2
  <2>4. Names(a) = Names(kn) \cup {s}
    BY <2>3 DEF Names
  <2>5. QED
    BY <2>1, <2>2, <2>3, <2>4
<1>3. QED
  BY <1>1, <1>2

\* A fill keeps the balance.
LEMMA FillBalances ==
  ASSUME NEW b \in Account, NEW f \in Flows, Balanced(b, f),
         NEW k \in Instrument, NEW amount \in Int, amount # 0, NEW price \in Int,
         WholeAverage(b.pos[k], amount, price)
  PROVE  LET c == BookFill(b, k, amount, price, 0)
             g == [f EXCEPT !.entries = @ + 1, !.paid = @ + amount * price,
                            !.costs = @ + FillFee + 0, !.told = TRUE]
         IN  g \in Flows /\ Balanced(c, g)
<1> DEFINE c == BookFill(b, k, amount, price, 0)
           g == [f EXCEPT !.entries = @ + 1, !.paid = @ + amount * price,
                          !.costs = @ + FillFee + 0, !.told = TRUE]
<1>1. /\ c \in Account
      /\ OverKeys(Cost(c.pos)) = OverKeys(Cost(b.pos)) + amount * price + (c.realised - b.realised)
      /\ c.cash = b.cash + (c.realised - b.realised) - FillFee
      /\ c.fees = b.fees + FillFee /\ c.slippage = b.slippage
      /\ c.funding = b.funding /\ c.borrow = b.borrow /\ c.settled = b.settled
      /\ c.accrual = b.accrual
  BY FillBooks
<1>2. PICK paid \in Int : paid = amount * price
  BY Spread
<1>3. PICK n \in Nat : n = f.entries + 1
  BY DEF Flows
<1>p. PICK p \in Int : p = f.paid + paid
  BY DEF Flows
<1>o. PICK o \in Int : o = f.costs + FillFee + 0
  BY DEF Flows, FillFee
<1>4. g = [f EXCEPT !.entries = n, !.paid = p, !.costs = o, !.told = TRUE]
  BY <1>2, <1>3, <1>p, <1>o DEF Flows
<1> HIDE DEF c, g
<1>5. /\ g \in Flows /\ g.paid = f.paid + paid /\ g.costs = f.costs + FillFee /\ g.funding = f.funding
  <2>1. g \in Flows /\ g.paid = p /\ g.costs = o /\ g.funding = f.funding
    BY <1>4 DEF Flows
  <2>2. o = f.costs + FillFee
    BY <1>o DEF Flows, FillFee
  <2>3. QED
    BY <1>p, <2>1, <2>2, Zenon
<1>6. OverKeys(Cost(b.pos)) \in Int
  BY CostType DEF Account
<1>7. OverKeys(Cost(c.pos)) = OverKeys(Cost(b.pos)) + paid + (c.realised - b.realised)
  BY <1>1, <1>2, Zenon
<1>8. c.cash - c.borrow = StartCash - g.paid + OverKeys(Cost(c.pos)) - g.costs + g.funding
  <2>1. b.cash - b.borrow = StartCash - f.paid + OverKeys(Cost(b.pos)) - f.costs + f.funding
    BY DEF Balanced
  <2>2. c.realised \in Int /\ b.realised \in Int /\ b.cash \in Int /\ b.borrow \in Int
          /\ f.paid \in Int /\ f.costs \in Int /\ f.funding \in Int /\ StartCash \in Int /\ FillFee \in Int
    BY <1>1 DEF Account, Flows, StartCash, FillFee
  <2>3. PICK gain \in Int : gain = c.realised - b.realised
    BY <2>2
  <2>4. PICK cost \in Int : cost = OverKeys(Cost(b.pos))
    BY <1>6
  <2>5. OverKeys(Cost(c.pos)) = cost + paid + gain
    BY <1>7, <2>3, <2>4, Zenon
  <2>6. c.cash = b.cash + gain - FillFee /\ c.borrow = b.borrow
    BY <1>1, <2>3, Zenon
  <2>7. b.cash - b.borrow = StartCash - f.paid + cost - f.costs + f.funding
    BY <2>1, <2>4, Zenon
  <2>8. b.cash + gain - FillFee - b.borrow =
          StartCash - (f.paid + paid) + (cost + paid + gain) - (f.costs + FillFee) + f.funding
    BY <2>2, <2>7
  <2>9. c.cash - c.borrow = b.cash + gain - FillFee - b.borrow
    <3>1. c.cash \in Int /\ c.borrow \in Int
      BY <1>1 DEF Account
    <3>2. QED
      BY <2>2, <2>6, <3>1
  <2>10. StartCash - g.paid + OverKeys(Cost(c.pos)) - g.costs + g.funding =
           StartCash - (f.paid + paid) + (cost + paid + gain) - (f.costs + FillFee) + f.funding
    BY <1>5, <2>5, Zenon
  <2>11. QED
    BY <2>8, <2>9, <2>10, Zenon
<1>9. c.cash = ExpectedCash(c)
  <2>1. b.cash = StartCash + b.realised - b.fees - b.slippage + b.settled
    BY DEF Balanced, ExpectedCash
  <2>2. c.realised \in Int /\ b.realised \in Int /\ b.fees \in Int /\ b.slippage \in Int /\ b.settled \in Int
    BY <1>1 DEF Account
  <2>3. QED
    BY <1>1, <2>1, <2>2 DEF ExpectedCash, StartCash, FillFee
<1>10. c.funding = 0 /\ \A j \in Instrument : c.accrual[j] = 0
  BY <1>1 DEF Balanced
<1>11. QED
  BY <1>5, <1>8, <1>9, <1>10 DEF Balanced, c, g

\* A funding payment accrued and settled reaches the cash and nothing else.
LEMMA FundingBalances ==
  ASSUME NEW b \in Account, NEW f \in Flows, Balanced(b, f), NEW k \in Instrument, NEW rate \in Int
  PROVE  LET c == SettleFunding(AccrueFunding(b, k, rate), k)
             g == [f EXCEPT !.entries = @ + 1, !.funding = @ + Received(b, k, rate), !.told = TRUE]
         IN  c \in Account /\ c.pos = b.pos /\ g \in Flows /\ Balanced(c, g)
<1> DEFINE d == AccrueFunding(b, k, rate)
           c == SettleFunding(d, k)
           g == [f EXCEPT !.entries = @ + 1, !.funding = @ + Received(b, k, rate), !.told = TRUE]
<1>1. PICK r \in Int : r = Received(b, k, rate)
  <2>1. b.pos[k].qty \in Int /\ MarkOr(b, k, b.pos[k].avg) \in Int
    BY DEF Account, Position, MarkOr
  <2>2. b.pos[k].qty * MarkOr(b, k, b.pos[k].avg) \in Int
    BY <2>1, Spread
  <2>3. (b.pos[k].qty * MarkOr(b, k, b.pos[k].avg)) * rate \in Int
    BY <2>2, Spread
  <2>4. Received(b, k, rate) \in Int
    BY <2>3 DEF Received
  <2>5. QED
    BY <2>4
<1>2. b.accrual \in [Instrument -> Int] /\ b.accrual[k] = 0 /\ b.funding = 0
  BY DEF Account, Balanced
<1>3. PICK waiting \in [Instrument -> Int] : waiting = [b.accrual EXCEPT ![k] = r]
  BY <1>2
<1>4. d = [b EXCEPT !.funding = r, !.accrual = waiting]
  <2>1. d = [b EXCEPT !.funding = @ + r, !.accrual[k] = @ + r]
    BY <1>1 DEF AccrueFunding
  <2>2. b.funding + r = r /\ b.accrual[k] + r = r
    BY <1>2
  <2>3. d = [b EXCEPT !.funding = r, !.accrual = [b.accrual EXCEPT ![k] = r]]
    BY <2>1, <2>2
  <2>4. QED
    BY <1>3, <2>3
<1> HIDE DEF d
<1>5. d \in Account /\ d.funding = r /\ d.accrual = waiting /\ waiting[k] = r
        /\ d.cash = b.cash /\ d.settled = b.settled
        /\ \A j \in Instrument \ {k} : waiting[j] = b.accrual[j]
  BY <1>2, <1>3, <1>4 DEF Account
<1>6. PICK paid \in [Instrument -> Int] : paid = [waiting EXCEPT ![k] = 0]
  <2>1. [waiting EXCEPT ![k] = 0] \in [Instrument -> Int]
    OBVIOUS
  <2>2. QED
    BY <2>1, Zenon
<1>7. \A j \in Instrument : paid[j] = 0
  BY <1>3, <1>5, <1>6 DEF Balanced
<1>8. PICK cash \in Int : cash = b.cash + r
  BY DEF Account
<1>s. PICK settled \in Int : settled = b.settled + r
  BY DEF Account
<1>9. c = [d EXCEPT !.funding = 0, !.cash = cash, !.settled = settled, !.accrual = paid]
  <2>1. r - r = 0
    OBVIOUS
  <2>2. d.accrual[k] = r /\ d.funding = r
    BY <1>5
  <2>3. c = [d EXCEPT !.funding = r - r, !.cash = @ + r, !.settled = @ + r, !.accrual[k] = 0]
    BY <2>2 DEF SettleFunding
  <2>4. c = [d EXCEPT !.funding = 0, !.cash = cash, !.settled = settled, !.accrual = [d.accrual EXCEPT ![k] = 0]]
    BY <1>5, <1>8, <1>s, <2>1, <2>3
  <2>5. QED
    BY <1>5, <1>6, <2>4
<1> HIDE DEF c
<1>10. /\ c \in Account /\ c.funding = 0 /\ c.cash = b.cash + r /\ c.settled = b.settled + r
       /\ c.accrual = paid /\ c.pos = d.pos /\ c.realised = d.realised /\ c.fees = d.fees
       /\ c.slippage = d.slippage /\ c.borrow = d.borrow
  <2>1. /\ c \in Account /\ c.funding = 0 /\ c.cash = cash /\ c.settled = settled
        /\ c.accrual = paid /\ c.pos = d.pos /\ c.realised = d.realised /\ c.fees = d.fees
        /\ c.slippage = d.slippage /\ c.borrow = d.borrow
    <3>1. d \in Account
      BY <1>5, Zenon
    <3>2. PICK e \in Account : e = d
      BY <3>1, Zenon
    <3>3. PICK none \in Int : none = 0
      OBVIOUS
    <3>4. c = [e EXCEPT !.funding = none, !.cash = cash, !.settled = settled, !.accrual = paid]
      BY <1>9, <3>2, <3>3, Zenon
    <3>5. QED
      <4>0. PICK y : y = c
        OBVIOUS
      <4>e. y = [e EXCEPT !.funding = none, !.cash = cash, !.settled = settled, !.accrual = paid]
        BY <3>4, <4>0, Zenon
      <4>1. /\ y \in Account /\ y.funding = none /\ y.cash = cash /\ y.settled = settled
            /\ y.accrual = paid /\ y.pos = e.pos /\ y.realised = e.realised /\ y.fees = e.fees
            /\ y.slippage = e.slippage /\ y.borrow = e.borrow
        BY <4>e DEF Account
      <4>2. QED
        BY <3>2, <3>3, <4>0, <4>1, Zenon
  <2>2. QED
    BY <1>8, <1>s, <2>1, Zenon
<1>11. d.pos = b.pos /\ d.realised = b.realised /\ d.fees = b.fees /\ d.slippage = b.slippage
         /\ d.borrow = b.borrow
  BY <1>4 DEF Account
<1>12. /\ g \in Flows /\ g.paid = f.paid /\ g.costs = f.costs /\ g.funding = f.funding + r
  <2>1. f.entries + 1 \in Nat /\ f.funding + r \in Int
    BY DEF Flows
  <2>2. g = [f EXCEPT !.entries = f.entries + 1, !.funding = f.funding + r, !.told = TRUE]
    BY <1>1 DEF Flows
  <2> HIDE DEF g
  <2>3. QED
    BY <2>1, <2>2 DEF Flows
<1> HIDE DEF g
<1>13. OverKeys(Cost(b.pos)) \in Int
  BY CostType DEF Account
<1>14. c.cash - c.borrow = StartCash - g.paid + OverKeys(Cost(c.pos)) - g.costs + g.funding
  <2>1. b.cash - b.borrow = StartCash - f.paid + OverKeys(Cost(b.pos)) - f.costs + f.funding
    BY DEF Balanced
  <2>2. b.cash \in Int /\ b.borrow \in Int /\ f.paid \in Int /\ f.costs \in Int /\ f.funding \in Int
          /\ StartCash \in Int
    BY DEF Account, Flows, StartCash
  <2>3. OverKeys(Cost(c.pos)) = OverKeys(Cost(b.pos))
    BY <1>10, <1>11
  <2>4. PICK cost \in Int : cost = OverKeys(Cost(b.pos))
    BY <1>13
  <2>5. b.cash - b.borrow = StartCash - f.paid + cost - f.costs + f.funding
    BY <2>1, <2>4, Zenon
  <2>6. b.cash + r - b.borrow = StartCash - f.paid + cost - f.costs + (f.funding + r)
    BY <2>2, <2>5
  <2>7. c.cash - c.borrow = b.cash + r - b.borrow
    <3>1. c.cash = b.cash + r /\ c.borrow = b.borrow
      BY <1>10, <1>11, Zenon
    <3>2. QED
      BY <2>2, <3>1
  <2>8. StartCash - g.paid + OverKeys(Cost(c.pos)) - g.costs + g.funding =
          StartCash - f.paid + cost - f.costs + (f.funding + r)
    BY <1>12, <2>3, <2>4, Zenon
  <2>9. QED
    BY <2>6, <2>7, <2>8, Zenon
<1>15. c.cash = ExpectedCash(c)
  <2>1. b.cash = StartCash + b.realised - b.fees - b.slippage + b.settled
    BY DEF Balanced, ExpectedCash
  <2>2. b.realised \in Int /\ b.fees \in Int /\ b.slippage \in Int /\ b.settled \in Int
    BY DEF Account
  <2>3. QED
    BY <1>10, <1>11, <2>1, <2>2 DEF ExpectedCash, StartCash
<1>16. QED
  BY <1>7, <1>10, <1>11, <1>12, <1>14, <1>15 DEF Balanced, c, g, d

\* Borrow is owed and no more: one number of the books changes.
LEMMA BorrowBalances ==
  ASSUME NEW b \in Account, NEW f \in Flows, Balanced(b, f), NEW cost \in Int
  PROVE  LET c == [b EXCEPT !.borrow = @ + cost]
             g == [f EXCEPT !.entries = @ + 1, !.costs = @ + cost, !.told = FALSE]
         IN  c \in Account /\ c.pos = b.pos /\ g \in Flows /\ Balanced(c, g)
<1> DEFINE c == [b EXCEPT !.borrow = @ + cost]
           g == [f EXCEPT !.entries = @ + 1, !.costs = @ + cost, !.told = FALSE]
<1>1. PICK owed \in Int : owed = b.borrow + cost
  BY DEF Account
<1>2. PICK n \in Nat : n = f.entries + 1
  BY DEF Flows
<1>3. PICK o \in Int : o = f.costs + cost
  BY DEF Flows
<1>4. c = [b EXCEPT !.borrow = owed] /\ g = [f EXCEPT !.entries = n, !.costs = o, !.told = FALSE]
  BY <1>1, <1>2, <1>3
<1> HIDE DEF c, g
<1>5. /\ c \in Account /\ c.borrow = owed /\ c.pos = b.pos /\ c.cash = b.cash
      /\ c.realised = b.realised /\ c.fees = b.fees /\ c.slippage = b.slippage
      /\ c.settled = b.settled /\ c.funding = b.funding /\ c.accrual = b.accrual
  BY <1>4 DEF Account
<1>6. g \in Flows /\ g.costs = o /\ g.paid = f.paid /\ g.funding = f.funding
  BY <1>4 DEF Flows
<1>7. PICK held \in Int : held = OverKeys(Cost(b.pos))
  BY CostType DEF Account
<1>8. b.cash - b.borrow = StartCash - f.paid + held - f.costs + f.funding
  BY <1>7 DEF Balanced
<1>9. b.cash \in Int /\ b.borrow \in Int /\ f.paid \in Int /\ f.costs \in Int /\ f.funding \in Int
        /\ StartCash \in Int
  BY DEF Account, Flows, StartCash
<1>10. b.cash - owed = StartCash - f.paid + held - o + f.funding
  BY <1>1, <1>3, <1>8, <1>9
<1>11. c.cash - c.borrow = StartCash - g.paid + OverKeys(Cost(c.pos)) - g.costs + g.funding
  BY <1>5, <1>6, <1>7, <1>10, Zenon
<1>12. c.cash = ExpectedCash(c)
  BY <1>5 DEF Balanced, ExpectedCash
<1>13. QED
  BY <1>5, <1>6, <1>11, <1>12 DEF Balanced, c, g

\* What is held at its mark is worth what it cost and what it gained.
LEMMA WorthSplits ==
  ASSUME NEW b \in Account
  PROVE  /\ Unrealised(b) \in Int
         /\ OverKeys([k \in Instrument |-> b.pos[k].qty * MarkOr(b, k, b.pos[k].avg)]) =
              Unrealised(b) + OverKeys(Cost(b.pos))
<1> DEFINE gain == [k \in Instrument |-> (MarkOr(b, k, b.pos[k].avg) - b.pos[k].avg) * b.pos[k].qty]
           worth == [k \in Instrument |-> b.pos[k].qty * MarkOr(b, k, b.pos[k].avg)]
           cost == Cost(b.pos)
<1>1. ASSUME NEW k \in Instrument
      PROVE  gain[k] \in Int /\ cost[k] \in Int /\ worth[k] = gain[k] + cost[k]
  <2>1. PICK q \in Int : q = b.pos[k].qty
    BY DEF Account, Position
  <2>2. PICK a \in Int : a = b.pos[k].avg
    BY DEF Account, Position
  <2>3. PICK m \in Int : m = MarkOr(b, k, b.pos[k].avg)
    BY DEF Account, Position, MarkOr
  <2>4. gain[k] = (m - a) * q /\ worth[k] = q * m /\ cost[k] = q * a
    BY <2>1, <2>2, <2>3 DEF Cost
  <2> HIDE DEF gain, worth, cost
  <2>5. (m - a) * q = m * q - a * q /\ m * q = q * m /\ a * q = q * a /\ q * m \in Int /\ q * a \in Int
    BY Spread
  <2>6. (m - a) * q \in Int /\ q * m = (m - a) * q + q * a
    BY <2>5
  <2>7. QED
    BY <2>4, <2>5, <2>6, Zenon
<1> HIDE DEF gain, worth, cost
<1>2. IsFiniteSet(Instrument) /\ Numbers(gain, Instrument) /\ Numbers(cost, Instrument)
  BY <1>1, BooksAssumption DEF Numbers
<1>3. SumFunctionOnSet(worth, Instrument) =
        SumFunctionOnSet(gain, Instrument) + SumFunctionOnSet(cost, Instrument)
  BY <1>1, <1>2, SumAdds
<1>4. SumFunctionOnSet(gain, Instrument) \in Int
  BY <1>2, SumInteger
<1>5. QED
  BY <1>3, <1>4 DEF Unrealised, OverKeys, gain, worth, cost

\* The inductive invariant: the shape, that the views add up to the account's positions
\* and their owners have entered the books, and the balance.
LedgerInv ==
  /\ book \in Account /\ flow \in Flows /\ ViewsOK(ledger)
  /\ \A k \in Instrument : HeldBy(ledger, k) = book.pos[k].qty
  /\ AllKnown(ledger, known)
  /\ Balanced(book, flow)
  /\ flow.told => account.equity = Equity(book)

\* Equity is what trading made of the starting cash.
LEMMA BalanceIsTrading == LedgerInv => EquityIsTrading
<1> SUFFICES ASSUME LedgerInv PROVE EquityIsTrading
  OBVIOUS
<1>1. PICK b \in Account : b = book
  BY DEF LedgerInv
<1>2. PICK f \in Flows : f = flow
  BY DEF LedgerInv
<1>3. Balanced(b, f)
  BY <1>1, <1>2 DEF LedgerInv
<1> DEFINE worth == [k \in Instrument |-> b.pos[k].qty * MarkOr(b, k, b.pos[k].avg)]
<1>4. OverKeys(worth) = Unrealised(b) + OverKeys(Cost(b.pos)) /\ Unrealised(b) \in Int
  BY WorthSplits
<1>5. PICK held \in Int : held = OverKeys(Cost(b.pos))
  BY CostType DEF Account
<1>6. PICK gained \in Int : gained = Unrealised(b)
  BY <1>4
<1>7. b.cash - b.borrow = StartCash - f.paid + held - f.costs + f.funding /\ b.funding = 0
  BY <1>3, <1>5 DEF Balanced
<1>8. b.cash \in Int /\ b.borrow \in Int /\ f.paid \in Int /\ f.costs \in Int /\ f.funding \in Int
        /\ StartCash \in Int
  BY DEF Account, Flows, StartCash
<1>9. b.cash + gained + 0 - b.borrow = StartCash - f.paid + (gained + held) - f.costs + f.funding
  BY <1>7, <1>8
<1>10. Equity(b) = b.cash + gained + 0 - b.borrow
  BY <1>6, <1>7, Zenon DEF Equity
<1>11. OverKeys(worth) = gained + held
  BY <1>4, <1>5, <1>6, Zenon
<1>12. Equity(b) = StartCash - f.paid + OverKeys(worth) - f.costs + f.funding
  BY <1>9, <1>10, <1>11, Zenon
<1>13. b.cash = ExpectedCash(b) /\ b.funding = 0 /\ (f.told => account.equity = Equity(b))
  BY <1>1, <1>2, <1>3 DEF LedgerInv, Balanced
<1>14. QED
  BY <1>1, <1>2, <1>12, <1>13, Zenon DEF EquityIsTrading

\* A position has an owner among the strategies that entered.
LEMMA HeldIsOwned == LedgerInv => AttributedWhole
<1> SUFFICES ASSUME LedgerInv, NEW k \in Instrument
             PROVE  /\ SumFunctionOnSet([s \in Strategy |-> ledger[s].pos[k].qty], Strategy) = book.pos[k].qty
                    /\ book.pos[k].qty # 0 => Holders(k) # {}
  BY DEF AttributedWhole
<1>1. PICK l : l = ledger
  OBVIOUS
<1>2. ViewsOK(l) /\ HeldBy(l, k) = book.pos[k].qty /\ AllKnown(l, known)
  BY <1>1 DEF LedgerInv
<1>3. HeldBy(ledger, k) = SumFunctionOnSet([s \in Strategy |-> ledger[s].pos[k].qty], Strategy)
  BY DEF HeldBy, Shares
<1>4. ASSUME book.pos[k].qty # 0 PROVE Holders(k) # {}
  <2>1. IsFiniteSet(Strategy)
    BY BooksAssumption
  <2>2. \E s \in Strategy : Shares(l, k)[s] # 0
    BY <1>2, <1>4, <2>1, SumZero DEF HeldBy
  <2>3. PICK s \in Strategy : l[s].pos[k].qty # 0
    BY <2>2 DEF Shares
  <2>4. PICK i \in DOMAIN known : known[i] = s
    BY <1>2, <2>3 DEF AllKnown, Names
  <2>5. i \in Holders(k)
    BY <1>1, <2>3, <2>4 DEF Holders
  <2>6. QED
    BY <2>5
<1>5. QED
  BY <1>1, <1>2, <1>3, <1>4

\* Who holds anything has entered, also after one strategy's view moved.
LEMMA KnownGrows ==
  ASSUME NEW l, NEW kn, AllKnown(l, kn), NEW s \in Strategy, NEW m,
         \A t \in Strategy \ {s}, j \in Instrument : m[t].pos[j].qty = l[t].pos[j].qty
  PROVE  AllKnown(m, Enters(kn, s))
<1>1. Enters(kn, s) \in Seq(Strategy) /\ Names(Enters(kn, s)) = Names(kn) \cup {s}
  BY Entered DEF AllKnown
<1>2. QED
  BY <1>1 DEF AllKnown

\* The books start balanced: nothing is held.
LEMMA LedgerStarts == BooksInit => LedgerInv
<1> SUFFICES ASSUME BooksInit PROVE LedgerInv
  OBVIOUS
<1> DEFINE none == [k \in Instrument |-> Flat]
           zero == [k \in Instrument |-> 0]
<1>0. none \in [Instrument -> Position] /\ zero \in [Instrument -> Int]
  BY DEF Flat, Position
<1>1. /\ book.pos = none /\ book.cash = StartCash /\ book.funding = 0 /\ book.borrow = 0
      /\ book.realised = 0 /\ book.fees = 0 /\ book.slippage = 0 /\ book.settled = 0
      /\ book.accrual = zero
  BY DEF BooksInit
<1>2. book \in Account
  <2> HIDE DEF none, zero
  <2>1. book = [cash |-> StartCash, realised |-> 0, funding |-> 0, borrow |-> 0,
                settled |-> 0, fees |-> 0, slippage |-> 0, pos |-> none, mark |-> zero, accrual |-> zero]
    BY DEF BooksInit, NoPrice, none, zero
  <2>2. StartCash \in Int
    BY DEF StartCash
  <2>3. QED
    BY <1>0, <2>1, <2>2 DEF Account
<1>3. flow = [entries |-> 0, paid |-> 0, costs |-> 0, funding |-> 0, told |-> TRUE] /\ flow \in Flows
  BY DEF BooksInit, Flows
<1>4. ViewsOK(ledger) /\ \A s \in Strategy, k \in Instrument : ledger[s].pos[k].qty = 0
  BY DEF BooksInit, ViewsOK, Flat
<1>5. IsFiniteSet(Instrument) /\ IsFiniteSet(Strategy)
  BY BooksAssumption
<1>6. \A k \in Instrument : HeldBy(ledger, k) = book.pos[k].qty
  <2> SUFFICES ASSUME NEW k \in Instrument PROVE HeldBy(ledger, k) = book.pos[k].qty
    OBVIOUS
  <2>1. PICK shares : shares = Shares(ledger, k)
    OBVIOUS
  <2>2. \A s \in Strategy : shares[s] = 0
    BY <1>4, <2>1 DEF Shares
  <2>3. SumFunctionOnSet(shares, Strategy) = 0
    BY <1>5, <2>2, SumZero
  <2>4. QED
    BY <1>1, <2>1, <2>3 DEF HeldBy, Flat
<1>7. AllKnown(ledger, known)
  BY <1>4 DEF AllKnown, BooksInit
<1>8. OverKeys(Cost(none)) = 0
  <2>1. \A k \in Instrument : Cost(none)[k] = 0
    BY DEF Cost, Flat
  <2>2. QED
    BY <1>5, <2>1, SumZero DEF OverKeys
<1>9. Balanced(book, flow)
  <2>1. OverKeys(Cost(book.pos)) = 0
    BY <1>1, <1>8
  <2>2. \A k \in Instrument : book.accrual[k] = 0
    BY <1>1
  <2> HIDE DEF none, zero
  <2>3. QED
    BY <1>1, <1>3, <2>1, <2>2 DEF Balanced, ExpectedCash, StartCash
<1>10. account.equity = Equity(book)
  <2>1. PICK b : b = book
    OBVIOUS
  <2> DEFINE gain == [k \in Instrument |-> (MarkOr(b, k, b.pos[k].avg) - b.pos[k].avg) * b.pos[k].qty]
  <2>2. \A k \in Instrument : gain[k] = 0
    <3> SUFFICES ASSUME NEW k \in Instrument PROVE gain[k] = 0
      OBVIOUS
    <3>1. b.pos[k].qty = 0 /\ b.pos[k].avg = 0 /\ b.mark[k] = 0
      BY <2>1 DEF BooksInit, Flat, NoPrice
    <3>2. QED
      BY <3>1 DEF MarkOr
  <2> HIDE DEF gain
  <2>3. SumFunctionOnSet(gain, Instrument) = 0
    BY <1>5, <2>2, SumZero
  <2>4. Unrealised(b) = 0
    BY <2>3 DEF Unrealised, OverKeys, gain
  <2>5. account.equity = StartCash
    BY DEF BooksInit
  <2>6. QED
    BY <1>1, <2>1, <2>4, <2>5 DEF Equity, StartCash
<1>11. QED
  BY <1>2, <1>3, <1>4, <1>6, <1>7, <1>9, <1>10 DEF LedgerInv

\* A fill.
LEMMA FillStep ==
  ASSUME LedgerInv, NEW s \in Strategy, NEW k \in Instrument, NEW amount \in Signed,
         NEW price \in Price, Fill(s, k, amount, price, 0)
  PROVE  LedgerInv'
<1>0. PICK b \in Account : b = book
  BY DEF LedgerInv
<1>1. PICK f \in Flows : f = flow
  BY DEF LedgerInv
<1>2. PICK l : l = ledger
  OBVIOUS
<1>3. amount \in Int /\ amount # 0 /\ price \in Int
  BY BooksAssumption DEF Signed, Size
<1>4. /\ WholeAverage(b.pos[k], amount, price) /\ Balanced(b, f) /\ ViewsOK(l) /\ AllKnown(l, known)
      /\ \A j \in Instrument : HeldBy(l, j) = b.pos[j].qty
  BY <1>0, <1>1, <1>2 DEF LedgerInv, Fill, Fits
<1>5. PICK c : c = BookFill(b, k, amount, price, 0)
  OBVIOUS
<1>6. PICK g : g = [f EXCEPT !.entries = @ + 1, !.paid = @ + amount * price,
                             !.costs = @ + FillFee + 0, !.told = TRUE]
  OBVIOUS
<1>7. c \in Account /\ c.pos[k].qty = b.pos[k].qty + amount
        /\ \A j \in Instrument \ {k} : c.pos[j] = b.pos[j]
  BY <1>3, <1>4, <1>5, FillBooks
<1>8. g \in Flows /\ Balanced(c, g)
  BY <1>3, <1>4, <1>5, <1>6, FillBalances
<1>9. book' = c /\ flow' = g /\ account'.equity = Equity(c)
  BY <1>0, <1>1, <1>5, <1>6 DEF Fill, ApplyTo
<1>10. PICK led : led = LedgerFill(l[s], k, amount, price, 0, c.realised - b.realised)
  OBVIOUS
<1>11. PICK m : m = [l EXCEPT ![s] = led]
  OBVIOUS
<1>12. ledger' = Refreshed(c, m)
  <2>1. ledger' = Refreshed(c, [ledger EXCEPT ![s] =
                    LedgerFill(@, k, amount, price, 0, c.realised - book.realised)])
    BY <1>0, <1>5 DEF Fill
  <2>2. [l EXCEPT ![s] = LedgerFill(@, k, amount, price, 0, c.realised - b.realised)] = m
    BY <1>10, <1>11
  <2>3. QED
    BY <1>0, <1>2, <2>1, <2>2
<1>13. DOMAIN led = DOMAIN l[s] /\ led.pos = [l[s].pos EXCEPT ![k] = Mirrored(l[s].pos[k], amount, price)]
  <2>1. PICK gained : gained = c.realised - b.realised
    OBVIOUS
  <2>2. PICK r : r = l[s]
    OBVIOUS
  <2>3. PICK n : n = Mirrored(r.pos[k], amount, price)
    OBVIOUS
  <2>4. "pos" \in DOMAIN r /\ DOMAIN r.pos = Instrument
    BY <1>4, <2>2 DEF ViewsOK
  <2>5. led = [r EXCEPT !.realised = @ + gained, !.fees = @ + FillFee,
                        !.slippage = @ + 0, !.fills = @ + 1, !.pos[k] = n]
    BY <1>10, <2>1, <2>2, <2>3, <2>4 DEF LedgerFill
  <2>6. DOMAIN led = DOMAIN r /\ led.pos = [r.pos EXCEPT ![k] = n]
    BY <2>4, <2>5
  <2>7. QED
    BY <2>2, <2>3, <2>6
<1>14. /\ ViewsOK(m) /\ m[s].pos[k].qty = l[s].pos[k].qty + amount
       /\ \A t \in Strategy, j \in Instrument : t # s \/ j # k => m[t].pos[j].qty = l[t].pos[j].qty
  <2>1. PICK p : p = l[s].pos
    OBVIOUS
  <2>2. DOMAIN p = Instrument /\ \A j \in Instrument : p[j].qty \in Int
    BY <1>4, <2>1 DEF ViewsOK
  <2>3. PICK r : r = [p EXCEPT ![k] = Mirrored(p[k], amount, price)]
    OBVIOUS
  <2>4. /\ DOMAIN r = Instrument /\ \A j \in Instrument : r[j].qty \in Int
        /\ r[k].qty = p[k].qty + amount /\ \A j \in Instrument \ {k} : r[j] = p[j]
    BY <1>3, <2>2, <2>3, PositionTakes
  <2>5. led.pos = r
    BY <1>13, <2>1, <2>3, Zenon
  <2>6. m[s] = led /\ (\A t \in Strategy \ {s} : m[t] = l[t]) /\ DOMAIN m = Strategy
    BY <1>4, <1>11 DEF ViewsOK
  <2>7. ViewsOK(m)
    BY <1>4, <1>13, <2>4, <2>5, <2>6 DEF ViewsOK
  <2>8. QED
    BY <2>1, <2>4, <2>5, <2>6, <2>7
<1>15. /\ HeldBy(m, k) = HeldBy(l, k) + amount
       /\ \A j \in Instrument \ {k} : HeldBy(m, j) = HeldBy(l, j)
  BY <1>3, <1>4, <1>14, ViewMoves
<1>16. \A j \in Instrument : HeldBy(m, j) = c.pos[j].qty
  BY <1>4, <1>7, <1>15
<1>17. PICK after : after = Refreshed(c, m)
  OBVIOUS
<1>18. ViewsOK(after) /\ SameViews(after, m)
  BY <1>14, <1>17, RefreshHolds
<1>19. \A j \in Instrument : HeldBy(after, j) = c.pos[j].qty
  BY <1>14, <1>16, <1>18, SameHeld
<1>20. AllKnown(after, known')
  <2>1. PICK kn : kn = known
    OBVIOUS
  <2>2. known' = Enters(kn, s)
    BY <2>1 DEF Fill, Meet, Enters
  <2>3. \A t \in Strategy \ {s}, j \in Instrument : after[t].pos[j].qty = l[t].pos[j].qty
    BY <1>14, <1>18 DEF SameViews
  <2>4. AllKnown(l, kn)
    BY <1>4, <2>1
  <2>5. AllKnown(after, Enters(kn, s))
    BY <2>3, <2>4, KnownGrows
  <2>6. QED
    BY <2>2, <2>5
<1>21. QED
  BY <1>7, <1>8, <1>9, <1>12, <1>17, <1>18, <1>19, <1>20 DEF LedgerInv

\* A mark moves what is held in value only.
LEMMA MarkStep ==
  ASSUME LedgerInv, NEW k \in Instrument, NEW price \in Price, Mark(k, price)
  PROVE  LedgerInv'
<1>0. PICK b \in Account : b = book
  BY DEF LedgerInv
<1>1. PICK f \in Flows : f = flow
  BY DEF LedgerInv
<1>2. PICK l : l = ledger
  OBVIOUS
<1>3. /\ Balanced(b, f) /\ ViewsOK(l) /\ AllKnown(l, known)
      /\ \A j \in Instrument : HeldBy(l, j) = b.pos[j].qty
  BY <1>0, <1>1, <1>2 DEF LedgerInv
<1>4. PICK marks \in [Instrument -> Int] : marks = [b.mark EXCEPT ![k] = price]
  <2>1. price \in Int /\ b.mark \in [Instrument -> Int]
    BY BooksAssumption DEF Account
  <2>2. [b.mark EXCEPT ![k] = price] \in [Instrument -> Int]
    BY <2>1
  <2>3. QED
    BY <2>2, Zenon
<1>5. PICK c : c = [b EXCEPT !.mark = marks]
  OBVIOUS
<1>6. /\ c \in Account /\ c.pos = b.pos /\ c.cash = b.cash /\ c.borrow = b.borrow
      /\ c.realised = b.realised /\ c.fees = b.fees /\ c.slippage = b.slippage
      /\ c.settled = b.settled /\ c.funding = b.funding /\ c.accrual = b.accrual
  BY <1>5 DEF Account
<1>7. PICK g : g = [f EXCEPT !.told = FALSE]
  OBVIOUS
<1>8. g \in Flows /\ g.paid = f.paid /\ g.costs = f.costs /\ g.funding = f.funding /\ g.told = FALSE
  BY <1>7 DEF Flows
<1>9. Balanced(c, g)
  BY <1>3, <1>6, <1>8 DEF Balanced, ExpectedCash
<1>10. book' = c /\ flow' = g /\ known' = known
  BY <1>0, <1>1, <1>4, <1>5, <1>7 DEF Mark
<1>11. PICK after : after = Refreshed(c, l)
  OBVIOUS
<1>12. ledger' = after
  BY <1>2, <1>10, <1>11 DEF Mark
<1>13. ViewsOK(after) /\ SameViews(after, l)
  BY <1>3, <1>11, RefreshHolds
<1>14. \A j \in Instrument : HeldBy(after, j) = c.pos[j].qty
  BY <1>3, <1>6, <1>13, SameHeld
<1>15. AllKnown(after, known)
  BY <1>3, <1>13 DEF AllKnown, SameViews
<1>16. ~flow'.told
  <2>1. flow'.told = FALSE
    BY <1>8, <1>10
  <2>2. QED
    BY <2>1, Zenon
<1>17. QED
  BY <1>6, <1>8, <1>9, <1>10, <1>12, <1>13, <1>14, <1>15, <1>16 DEF LedgerInv

\* A funding event: its clock alone, or a payment to whoever holds the position.
LEMMA FundingStep ==
  ASSUME LedgerInv, NEW k \in Instrument, NEW rate \in Rate, NEW intervals \in 0..2,
         Funding(k, rate, intervals)
  PROVE  LedgerInv'
<1>0. PICK b \in Account : b = book
  BY DEF LedgerInv
<1>1. PICK f \in Flows : f = flow
  BY DEF LedgerInv
<1>2. PICK l : l = ledger
  OBVIOUS
<1>3. /\ Balanced(b, f) /\ ViewsOK(l) /\ AllKnown(l, known)
      /\ \A j \in Instrument : HeldBy(l, j) = b.pos[j].qty
  BY <1>0, <1>1, <1>2 DEF LedgerInv
<1>4. PICK charged \in Int : charged = IF intervals > 1 THEN rate ELSE rate * intervals
  <2>1. rate \in Int /\ intervals \in Int
    BY BooksAssumption
  <2>2. rate * intervals \in Int
    BY <2>1, Spread
  <2>3. QED
    BY <2>1, <2>2
<1>5. CASE UNCHANGED <<book, ledger, account, flow, known>>
  <2>1. b = book' /\ f = flow' /\ l = ledger' /\ known' = known /\ account' = account
    BY <1>0, <1>1, <1>2, <1>5
  <2>2. flow'.told => account'.equity = Equity(book')
    BY <1>0, <1>1, <2>1 DEF LedgerInv
  <2>3. QED
    BY <1>3, <2>1, <2>2 DEF LedgerInv
<1>6. CASE ~(UNCHANGED <<book, ledger, account, flow, known>>)
  <2>1. PICK c : c = SettleFunding(AccrueFunding(b, k, charged), k)
    OBVIOUS
  <2>2. PICK g : g = [f EXCEPT !.entries = @ + 1, !.funding = @ + Received(b, k, charged), !.told = TRUE]
    OBVIOUS
  <2>3. c \in Account /\ c.pos = b.pos /\ g \in Flows /\ Balanced(c, g)
    BY <1>3, <2>1, <2>2, FundingBalances
  <2>4. PICK m : m = [l EXCEPT ![PositionOwner(k)].funding = @ + Received(b, k, charged)]
    OBVIOUS
  <2>5. book' = c /\ flow' = g /\ ledger' = m /\ known' = known /\ account'.equity = Equity(c)
    <3>1. /\ book' = SettleFunding(AccrueFunding(book, k, charged), k)
          /\ ledger' = [ledger EXCEPT ![PositionOwner(k)].funding = @ + Received(book, k, charged)]
          /\ account' = ApplyTo(SettleFunding(AccrueFunding(book, k, charged), k), account)
          /\ flow' = [flow EXCEPT !.entries = @ + 1, !.funding = @ + Received(book, k, charged), !.told = TRUE]
          /\ known' = known
      BY <1>4, <1>6 DEF Funding
    <3>2. account' = ApplyTo(c, account)
      BY <1>0, <2>1, <3>1, Zenon
    <3>3. account'.equity = Equity(c)
      BY <3>2 DEF ApplyTo
    <3>4. QED
      BY <1>0, <1>1, <1>2, <2>1, <2>2, <2>4, <3>1, <3>3, Zenon
  <2>6. ViewsOK(m) /\ SameViews(m, l)
    <3>1. PICK owner : owner = PositionOwner(k)
      OBVIOUS
    <3>2. PICK paid : paid = [l[owner] EXCEPT !.funding = @ + Received(b, k, charged)]
      OBVIOUS
    <3>3. m = [l EXCEPT ![owner] = paid]
      BY <2>4, <3>1, <3>2
    <3>4. DOMAIN paid = DOMAIN l[owner] /\ ("pos" \in DOMAIN l[owner] => paid.pos = l[owner].pos)
      BY <3>2
    <3>5. \A s \in Strategy : /\ DOMAIN m[s] = DOMAIN l[s]
                              /\ "pos" \in DOMAIN l[s] => m[s].pos = l[s].pos
      BY <1>3, <3>3, <3>4 DEF ViewsOK
    <3>6. DOMAIN m = Strategy
      BY <1>3, <3>3 DEF ViewsOK
    <3>7. QED
      BY <1>3, <3>5, <3>6 DEF ViewsOK, SameViews
  <2>7. \A j \in Instrument : HeldBy(m, j) = c.pos[j].qty
    BY <1>3, <2>3, <2>6, SameHeld
  <2>8. AllKnown(m, known)
    BY <1>3, <2>6 DEF AllKnown, SameViews
  <2>9. QED
    BY <2>3, <2>5, <2>6, <2>7, <2>8 DEF LedgerInv
<1>7. QED
  BY <1>5, <1>6

\* An internal crossing: what one strategy takes the other gives.
LEMMA CrossStep ==
  ASSUME LedgerInv, NEW buyer \in Strategy, NEW seller \in Strategy, NEW k \in Instrument,
         NEW quantity \in Size, NEW mid \in Price, InternalCross(buyer, seller, k, quantity, mid)
  PROVE  LedgerInv'
<1>0. PICK b \in Account : b = book
  BY DEF LedgerInv
<1>1. PICK f \in Flows : f = flow
  BY DEF LedgerInv
<1>2. PICK l : l = ledger
  OBVIOUS
<1>3. /\ Balanced(b, f) /\ ViewsOK(l) /\ AllKnown(l, known)
      /\ \A j \in Instrument : HeldBy(l, j) = b.pos[j].qty
  BY <1>0, <1>1, <1>2 DEF LedgerInv
<1>4. quantity \in Int /\ -quantity \in Int /\ buyer # seller
  BY DEF Size, InternalCross
<1>5. \A r, n : "pos" \in DOMAIN r /\ DOMAIN r.pos = Instrument =>
        /\ DOMAIN Crossed(r, k, n, mid) = DOMAIN r
        /\ Crossed(r, k, n, mid).pos = [r.pos EXCEPT ![k] = Mirrored(r.pos[k], n, mid)]
  <2> SUFFICES ASSUME NEW r, NEW n, "pos" \in DOMAIN r, DOMAIN r.pos = Instrument
               PROVE  /\ DOMAIN Crossed(r, k, n, mid) = DOMAIN r
                      /\ Crossed(r, k, n, mid).pos = [r.pos EXCEPT ![k] = Mirrored(r.pos[k], n, mid)]
    OBVIOUS
  <2>1. PICK v : v = Mirrored(r.pos[k], n, mid)
    OBVIOUS
  <2>2. PICK gain : gain = IF r.pos[k].qty # 0 /\ ~SameWay(r.pos[k].qty, n)
                             THEN (mid - r.pos[k].avg) * (-n) ELSE 0
    OBVIOUS
  <2>3. Crossed(r, k, n, mid) = [r EXCEPT !.pos[k] = v, !.realised = @ + gain]
    BY <2>1, <2>2 DEF Crossed
  <2>4. QED
    BY <2>1, <2>3
<1>6. PICK taker : taker = Crossed(l[buyer], k, quantity, mid)
  OBVIOUS
<1>7. PICK m : m = [l EXCEPT ![buyer] = taker]
  OBVIOUS
<1>8. DOMAIN taker = DOMAIN l[buyer]
        /\ taker.pos = [l[buyer].pos EXCEPT ![k] = Mirrored(l[buyer].pos[k], quantity, mid)]
  BY <1>3, <1>5, <1>6 DEF ViewsOK
<1>9. /\ ViewsOK(m) /\ m[buyer].pos[k].qty = l[buyer].pos[k].qty + quantity
      /\ \A t \in Strategy, j \in Instrument : t # buyer \/ j # k => m[t].pos[j].qty = l[t].pos[j].qty
  <2>1. PICK p : p = l[buyer].pos
    OBVIOUS
  <2>2. DOMAIN p = Instrument /\ \A j \in Instrument : p[j].qty \in Int
    BY <1>3, <2>1 DEF ViewsOK
  <2>3. PICK r : r = [p EXCEPT ![k] = Mirrored(p[k], quantity, mid)]
    OBVIOUS
  <2>4. /\ DOMAIN r = Instrument /\ \A j \in Instrument : r[j].qty \in Int
        /\ r[k].qty = p[k].qty + quantity /\ \A j \in Instrument \ {k} : r[j] = p[j]
    BY <1>4, <2>2, <2>3, PositionTakes
  <2>5. taker.pos = r
    BY <1>8, <2>1, <2>3, Zenon
  <2>6. m[buyer] = taker /\ (\A t \in Strategy \ {buyer} : m[t] = l[t]) /\ DOMAIN m = Strategy
    BY <1>3, <1>7 DEF ViewsOK
  <2>7. ViewsOK(m)
    BY <1>3, <1>8, <2>4, <2>5, <2>6 DEF ViewsOK
  <2>8. QED
    BY <2>1, <2>4, <2>5, <2>6, <2>7
<1>10. /\ HeldBy(m, k) = HeldBy(l, k) + quantity /\ HeldBy(l, k) \in Int
       /\ \A j \in Instrument \ {k} : HeldBy(m, j) = HeldBy(l, j)
  BY <1>3, <1>4, <1>9, ViewMoves
<1>11. PICK giver : giver = Crossed(m[seller], k, -quantity, mid)
  OBVIOUS
<1>12. PICK n : n = [m EXCEPT ![seller] = giver]
  OBVIOUS
<1>13. DOMAIN giver = DOMAIN m[seller]
         /\ giver.pos = [m[seller].pos EXCEPT ![k] = Mirrored(m[seller].pos[k], -quantity, mid)]
  BY <1>5, <1>9, <1>11 DEF ViewsOK
<1>14. /\ ViewsOK(n) /\ n[seller].pos[k].qty = m[seller].pos[k].qty + (-quantity)
       /\ \A t \in Strategy, j \in Instrument : t # seller \/ j # k => n[t].pos[j].qty = m[t].pos[j].qty
  <2>1. PICK p : p = m[seller].pos
    OBVIOUS
  <2>2. DOMAIN p = Instrument /\ \A j \in Instrument : p[j].qty \in Int
    BY <1>9, <2>1 DEF ViewsOK
  <2>3. PICK r : r = [p EXCEPT ![k] = Mirrored(p[k], (-quantity), mid)]
    OBVIOUS
  <2>4. /\ DOMAIN r = Instrument /\ \A j \in Instrument : r[j].qty \in Int
        /\ r[k].qty = p[k].qty + (-quantity) /\ \A j \in Instrument \ {k} : r[j] = p[j]
    BY <1>4, <2>2, <2>3, PositionTakes
  <2>5. giver.pos = r
    BY <1>13, <2>1, <2>3, Zenon
  <2>6. n[seller] = giver /\ (\A t \in Strategy \ {seller} : n[t] = m[t]) /\ DOMAIN n = Strategy
    BY <1>9, <1>12 DEF ViewsOK
  <2>7. ViewsOK(n)
    BY <1>9, <1>13, <2>4, <2>5, <2>6 DEF ViewsOK
  <2>8. QED
    BY <2>1, <2>4, <2>5, <2>6, <2>7
<1>15. /\ HeldBy(n, k) = HeldBy(m, k) + (-quantity)
       /\ \A j \in Instrument \ {k} : HeldBy(n, j) = HeldBy(m, j)
  BY <1>4, <1>9, <1>14, ViewMoves
<1>16. \A j \in Instrument : HeldBy(n, j) = HeldBy(l, j)
  <2>1. HeldBy(n, k) = HeldBy(l, k)
    BY <1>4, <1>10, <1>15
  <2>2. QED
    BY <1>10, <1>15, <2>1
<1>17. PICK after : after = Refreshed(b, n)
  OBVIOUS
<1>18. ledger' = after
  <2>1. [ledger EXCEPT ![buyer] = Crossed(@, k, quantity, mid)] = m
    BY <1>2, <1>6, <1>7
  <2>2. [m EXCEPT ![seller] = Crossed(@, k, -quantity, mid)] = n
    BY <1>11, <1>12
  <2>3. ledger' = Refreshed(book, [[ledger EXCEPT ![buyer] = Crossed(@, k, quantity, mid)]
                                     EXCEPT ![seller] = Crossed(@, k, -quantity, mid)])
    BY DEF InternalCross
  <2>4. QED
    BY <1>0, <1>17, <2>1, <2>2, <2>3, Zenon
<1>19. ViewsOK(after) /\ SameViews(after, n)
  BY <1>14, <1>17, RefreshHolds
<1>20. \A j \in Instrument : HeldBy(after, j) = b.pos[j].qty
  BY <1>3, <1>14, <1>16, <1>19, SameHeld
<1>21. AllKnown(after, known')
  <2>1. PICK kn : kn = known
    OBVIOUS
  <2>2. known' = Enters(Enters(kn, buyer), seller)
    BY <2>1 DEF InternalCross, Meet, Enters
  <2>3. AllKnown(m, Enters(kn, buyer))
    <3>1. \A t \in Strategy \ {buyer}, j \in Instrument : m[t].pos[j].qty = l[t].pos[j].qty
      BY <1>9
    <3>2. AllKnown(l, kn)
      BY <1>3, <2>1
    <3>3. QED
      BY <3>1, <3>2, KnownGrows
  <2>4. \A t \in Strategy \ {seller}, j \in Instrument : after[t].pos[j].qty = m[t].pos[j].qty
    BY <1>14, <1>19 DEF SameViews
  <2>5. PICK met : met = Enters(kn, buyer)
    OBVIOUS
  <2>6. AllKnown(after, Enters(met, seller))
    BY <2>3, <2>4, <2>5, KnownGrows
  <2>7. QED
    BY <2>2, <2>5, <2>6
<1>22. PICK g : g = [f EXCEPT !.entries = @ + 1]
  OBVIOUS
<1>23. g \in Flows /\ g.paid = f.paid /\ g.costs = f.costs /\ g.funding = f.funding /\ g.told = f.told
  <2>1. PICK e \in Nat : e = f.entries + 1
    BY DEF Flows
  <2>2. g = [f EXCEPT !.entries = e]
    BY <1>22, <2>1
  <2>3. QED
    BY <2>2 DEF Flows
<1>24. book' = b /\ flow' = g /\ account' = account
  BY <1>0, <1>1, <1>22 DEF InternalCross
<1>25. Balanced(b, g)
  BY <1>3, <1>23 DEF Balanced
<1>26. flow'.told => account'.equity = Equity(book')
  <2>1. f.told => account.equity = Equity(b)
    BY <1>0, <1>1 DEF LedgerInv
  <2>2. QED
    BY <1>23, <1>24, <2>1, Zenon
<1>27. QED
  BY <1>18, <1>19, <1>20, <1>21, <1>23, <1>24, <1>25, <1>26 DEF LedgerInv

\* Borrow accrued to a strategy.
LEMMA BorrowStep ==
  ASSUME LedgerInv, NEW s \in Strategy, NEW k \in Instrument, AccrueBorrow(s, k)
  PROVE  LedgerInv'
<1>0. PICK b \in Account : b = book
  BY DEF LedgerInv
<1>1. PICK f \in Flows : f = flow
  BY DEF LedgerInv
<1>2. PICK l : l = ledger
  OBVIOUS
<1>3. /\ Balanced(b, f) /\ ViewsOK(l) /\ AllKnown(l, known)
      /\ \A j \in Instrument : HeldBy(l, j) = b.pos[j].qty
  BY <1>0, <1>1, <1>2 DEF LedgerInv
<1>4. PICK cost \in Int : cost = -(b.pos[k].qty * MarkOr(b, k, b.pos[k].avg))
  <2>1. b.pos[k].qty \in Int /\ MarkOr(b, k, b.pos[k].avg) \in Int
    BY DEF Account, Position, MarkOr
  <2>2. b.pos[k].qty * MarkOr(b, k, b.pos[k].avg) \in Int
    BY <2>1, Spread
  <2>3. QED
    BY <2>2
<1>5. PICK c : c = [b EXCEPT !.borrow = @ + cost]
  OBVIOUS
<1>6. PICK g : g = [f EXCEPT !.entries = @ + 1, !.costs = @ + cost, !.told = FALSE]
  OBVIOUS
<1>7. c \in Account /\ c.pos = b.pos /\ g \in Flows /\ Balanced(c, g)
  BY <1>3, <1>5, <1>6, BorrowBalances
<1>8. PICK m : m = [l EXCEPT ![s].borrow = @ + cost]
  OBVIOUS
<1>9. book' = c /\ flow' = g /\ ledger' = m
  BY <1>0, <1>1, <1>2, <1>4, <1>5, <1>6, <1>8, Zenon DEF AccrueBorrow
<1>10. ViewsOK(m) /\ SameViews(m, l)
  <2>1. PICK owing : owing = [l[s] EXCEPT !.borrow = @ + cost]
    OBVIOUS
  <2>2. m = [l EXCEPT ![s] = owing]
    BY <1>8, <2>1
  <2>3. DOMAIN owing = DOMAIN l[s] /\ owing.pos = l[s].pos
    BY <1>3, <2>1 DEF ViewsOK
  <2>4. m[s] = owing /\ (\A t \in Strategy \ {s} : m[t] = l[t]) /\ DOMAIN m = Strategy
    BY <1>3, <2>2 DEF ViewsOK
  <2>5. QED
    BY <1>3, <2>3, <2>4 DEF ViewsOK, SameViews
<1>11. \A j \in Instrument : HeldBy(m, j) = c.pos[j].qty
  BY <1>3, <1>7, <1>10, SameHeld
<1>12. AllKnown(m, known')
  <2>1. PICK kn : kn = known
    OBVIOUS
  <2>2. known' = Enters(kn, s)
    BY <2>1 DEF AccrueBorrow, Meet, Enters
  <2>3. \A t \in Strategy \ {s}, j \in Instrument : m[t].pos[j].qty = l[t].pos[j].qty
    BY <1>10 DEF SameViews
  <2>4. AllKnown(l, kn)
    BY <1>3, <2>1
  <2>5. QED
    BY <2>2, <2>3, <2>4, KnownGrows
<1>13. ~flow'.told
  <2>1. g.told = FALSE
    BY <1>6 DEF Flows
  <2>2. flow'.told = FALSE
    BY <1>9, <2>1
  <2>3. QED
    BY <2>2, Zenon
<1>14. QED
  BY <1>7, <1>9, <1>10, <1>11, <1>12, <1>13 DEF LedgerInv

\* Every step of the books keeps the invariant.
LEMMA LedgerStep == LedgerInv /\ [BooksNext]_booksVars => LedgerInv'
<1> SUFFICES ASSUME LedgerInv, [BooksNext]_booksVars PROVE LedgerInv'
  OBVIOUS
<1>1. ASSUME NEW s \in Strategy, NEW k \in Instrument, NEW amount \in Signed, NEW price \in Price,
             Fill(s, k, amount, price, 0)
      PROVE  LedgerInv'
  BY <1>1, FillStep
<1>2. ASSUME NEW k \in Instrument, NEW price \in Price, Mark(k, price) PROVE LedgerInv'
  BY <1>2, MarkStep
<1>3. ASSUME NEW k \in Instrument, NEW rate \in Rate, NEW intervals \in 0..2,
             Funding(k, rate, intervals)
      PROVE  LedgerInv'
  BY <1>3, FundingStep
<1>4. ASSUME NEW buyer \in Strategy, NEW seller \in Strategy, NEW k \in Instrument,
             NEW n \in Size, NEW mid \in Price, InternalCross(buyer, seller, k, n, mid)
      PROVE  LedgerInv'
  BY <1>4, CrossStep
<1>5. ASSUME NEW s \in Strategy, NEW k \in Instrument, AccrueBorrow(s, k) PROVE LedgerInv'
  BY <1>5, BorrowStep
<1>6. CASE UNCHANGED booksVars
  <2>1. /\ book' = book /\ flow' = flow /\ ledger' = ledger /\ known' = known /\ account' = account
    BY <1>6 DEF booksVars
  <2>2. PICK b : b = book
    OBVIOUS
  <2>3. Equity(book') = Equity(b) /\ Equity(book) = Equity(b)
    BY <2>1, <2>2
  <2>4. QED
    BY <2>1, <2>3 DEF LedgerInv
<1>7. QED
  BY <1>1, <1>2, <1>3, <1>4, <1>5, <1>6 DEF BooksNext

\* However positions are added to, reduced, closed, turned over, marked, funded and
\* crossed, equity is what trading made of the starting cash, the cash reconciles and the
\* risk state was told: Books.EquityIsTrading, accounting.py's averaging and booking.
THEOREM EquityConserved == BooksSpec => []EquityIsTrading
<1>1. QED
  BY LedgerStarts, LedgerStep, BalanceIsTrading, PTL DEF BooksSpec

\* The strategies' views add up to the account's positions, and a position always has an
\* owner to receive its funding: Books.AttributedWhole, pipeline.py's _position_owner.
THEOREM PositionsHaveOwners == BooksSpec => []AttributedWhole
<1>1. QED
  BY LedgerStarts, LedgerStep, HeldIsOwned, PTL DEF BooksSpec

-----------------------------------------------------------------------------
(* The portfolio (Portfolio).                                              *)

\* The strategies are those of the list, and finitely many.
LEMMA TradersAre == IsFiniteSet(Traders) /\ Traders = {Trader[i] : i \in 1..Len(Trader)}
<1> DEFINE I == 1..Len(Trader)
<1>1. /\ Trader \in Seq(Traders) /\ Len(Trader) \in Nat
      /\ Traders = {Trader[i] : i \in I}
  BY PortfolioAssumption DEF Traders, ToSet
<1>2. Trader \in [I -> Traders]
  <2>1. \A q \in Seq(Traders) : q \in [1..Len(q) -> Traders]
    OBVIOUS
  <2>2. QED
    BY <1>1, <2>1
<1>3. Trader \in Surjection(I, Traders)
  BY <1>1, <1>2 DEF Surjection
<1>4. IsFiniteSet(I)
  <2>1. PICK n \in Nat : n = Len(Trader)
    BY <1>1
  <2>2. QED
    BY <2>1, FS_Interval
<1>5. QED
  BY <1>1, <1>3, <1>4, FS_Surjection

\* A word of a strategy.
Words == [strategy: Traders, symbol: Symbol, target: -1..1]

\* What one strategy says on one event are its own words, of an instrument each.
LEMMA OpinionsAreWords ==
  ASSUME NEW spoken \in Chorus, NEW s \in Traders
  PROVE  /\ spoken[s] \in Seq(Words) /\ Sound(spoken[s])
         /\ \A i \in DOMAIN spoken[s] : spoken[s][i].strategy = s
<1>1. PICK words : words = spoken[s]
  OBVIOUS
<1>2. words \in Opinions(s) /\ Sound(words)
  BY <1>1 DEF Chorus
<1>3. words \in Seq(Words) /\ \A i \in DOMAIN words : words[i].strategy = s
  <2>1. CASE words = <<>>
    BY <2>1
  <2>2. ASSUME NEW k \in Symbol, NEW t \in -1..1,
               words = <<[strategy |-> s, symbol |-> k, target |-> t]>>
        PROVE  words \in Seq(Words) /\ \A i \in DOMAIN words : words[i].strategy = s
    BY <2>2 DEF Words
  <2>3. ASSUME NEW k \in Symbol, NEW l \in Symbol, NEW t \in -1..1,
               words = <<[strategy |-> s, symbol |-> k, target |-> t],
                         [strategy |-> s, symbol |-> l, target |-> -t]>>
        PROVE  words \in Seq(Words) /\ \A i \in DOMAIN words : words[i].strategy = s
    <3>1. -t \in -1..1
      OBVIOUS
    <3>2. QED
      BY <2>3, <3>1 DEF Words
  <2>4. QED
    BY <1>2, <2>1, <2>2, <2>3 DEF Opinions
<1>4. QED
  BY <1>1, <1>2, <1>3

\* f joins the first of the lists one after the other.
Joins(f, lists, n) ==
  f = [i \in 1..n |-> IF i = 1 THEN lists[1] ELSE f[i - 1] \o lists[i]]

\* The join of sequences is the last of such a list.
LEMMA FlattenJoins ==
  ASSUME NEW n \in Nat \ {0}, NEW lists, lists = [i \in 1..n |-> lists[i]]
  PROVE  \E f : Joins(f, lists, n) /\ FlattenSeq(lists) = f[n]
<1> DEFINE Bad == {m \in 1..n : ~\E f : Joins(f, lists, m)}
<1>1. Bad = {}
  <2>1. SUFFICES ASSUME Bad # {} PROVE FALSE
    OBVIOUS
  <2>2. PICK m \in Bad : \A l \in Bad : m <= l
    <3>1. Bad \subseteq 1..n /\ 1..n \subseteq Int
      OBVIOUS
    <3> HIDE DEF Bad
    <3>2. IsFiniteSet(1..n)
      BY FS_Interval
    <3>3. IsFiniteSet(Bad) /\ Bad \subseteq Int
      BY <3>1, <3>2, FS_Subset
    <3>4. QED
      BY <2>1, <3>3, Extremes
  <2>3. CASE m = 1
    <3>1. Joins([i \in 1..1 |-> lists[1]], lists, 1)
      BY DEF Joins
    <3>2. QED
      BY <2>3, <3>1
  <2>4. CASE m # 1
    <3>0. m \in 1..n
      BY <2>2
    <3>1. m - 1 \in 1..n /\ m - 1 \notin Bad
      <4>1. m - 1 \in 1..n /\ m - 1 \in Int /\ ~(m <= m - 1)
        BY <2>4, <3>0
      <4> HIDE DEF Bad
      <4>2. QED
        BY <2>2, <4>1
    <3>2. PICK f : Joins(f, lists, m - 1)
      BY <3>1
    <3> DEFINE g == [i \in 1..m |-> IF i = m THEN f[m - 1] \o lists[m] ELSE f[i]]
    <3>3. \A i \in 1..m : g[i] = IF i = 1 THEN lists[1] ELSE g[i - 1] \o lists[i]
      <4>1. \A i \in 1..m - 1 : f[i] = IF i = 1 THEN lists[1] ELSE f[i - 1] \o lists[i]
        BY <3>2 DEF Joins
      <4>2. \A i \in 1..m - 1 : g[i] = f[i]
        BY <3>1
      <4>3. g[m] = f[m - 1] \o lists[m] /\ g[m - 1] = f[m - 1]
        BY <2>4, <3>1
      <4> HIDE DEF g
      <4>4. \A i \in 1..m - 1 : i # 1 => g[i - 1] = f[i - 1]
        BY <3>1, <4>2
      <4>5. \A i \in 1..m : i = m \/ i \in 1..m - 1
        BY <3>1
      <4>6. QED
        BY <2>4, <4>1, <4>2, <4>3, <4>4, <4>5
    <3>4. Joins(g, lists, m)
      BY <3>3 DEF Joins
    <3>5. QED
      BY <2>2, <3>4
  <2>5. QED
    BY <2>3, <2>4
<1> DEFINE f == CHOOSE f : Joins(f, lists, n)
<1>2. Joins(f, lists, n)
  BY <1>1
<1>3. Len(lists) = n
  OBVIOUS
<1>4. FlattenSeq(lists) = (CHOOSE g : g = [i \in 1..n |-> IF i = 1 THEN lists[i] ELSE g[i - 1] \o lists[i]])[n]
  BY <1>3 DEF FlattenSeq
<1>5. \A g : (g = [i \in 1..n |-> IF i = 1 THEN lists[i] ELSE g[i - 1] \o lists[i]]) <=> Joins(g, lists, n)
  BY DEF Joins
<1>6. QED
  BY <1>2, <1>4, <1>5

\* The words of signals are what the strategies said, all of it and nothing else.
SameWords(signals, spoken) ==
  /\ signals \in Seq(Words)
  /\ \A j \in DOMAIN signals : \E s \in Traders :
       \E l \in DOMAIN spoken[s] : signals[j] = spoken[s][l]
  /\ \A s \in Traders : \A l \in DOMAIN spoken[s] :
       \E j \in DOMAIN signals : signals[j] = spoken[s][l]

\* Asking the strategies in their order collects their words.
LEMMA SaidAll ==
  ASSUME NEW spoken \in Chorus
  PROVE  SameWords(Said(spoken), spoken)
<1> DEFINE lists == [i \in 1..Len(Trader) |-> spoken[Trader[i]]]
<1>1. PICK n \in Nat \ {0} : n = Len(Trader)
  BY PortfolioAssumption
<1>2. PICK f : Joins(f, lists, n) /\ FlattenSeq(lists) = f[n]
  BY <1>1, FlattenJoins
<1>3. \A i \in 1..n : lists[i] \in Seq(Words) /\ lists[i] = spoken[Trader[i]]
  BY <1>1, TradersAre, OpinionsAreWords
<1>4. \A i \in 1..n : f[i] = IF i = 1 THEN lists[1] ELSE f[i - 1] \o lists[i]
  BY <1>2 DEF Joins
<1>5. Traders = {Trader[i] : i \in 1..n}
  BY <1>1, TradersAre
<1>9. Said(spoken) = f[n]
  BY <1>2 DEF Said
<1> HIDE DEF lists
<1> DEFINE Fine(m) ==
             /\ f[m] \in Seq(Words)
             /\ \A j \in DOMAIN f[m] : \E i \in 1..m : \E l \in DOMAIN lists[i] :
                  f[m][j] = lists[i][l]
             /\ \A i \in 1..m : \A l \in DOMAIN lists[i] : \E j \in DOMAIN f[m] :
                  f[m][j] = lists[i][l]
           Bad == {m \in 1..n : ~Fine(m)}
<1>6. Bad = {}
  <2>1. SUFFICES ASSUME Bad # {} PROVE FALSE
    OBVIOUS
  <2>2. PICK m \in Bad : \A l \in Bad : m <= l
    <3> HIDE DEF Fine
    <3>1. Bad \subseteq 1..n /\ 1..n \subseteq Int
      OBVIOUS
    <3> HIDE DEF Bad
    <3>2. IsFiniteSet(1..n)
      BY FS_Interval
    <3>3. IsFiniteSet(Bad) /\ Bad \subseteq Int
      BY <3>1, <3>2, FS_Subset
    <3>4. QED
      BY <2>1, <3>3, Extremes
  <2>3. CASE m = 1
    <3>1. f[1] = lists[1] /\ 1 \in 1..n
      BY <1>4, <2>3
    <3>2. Fine(1)
      BY <1>3, <3>1
    <3>3. QED
      BY <2>2, <2>3, <3>2
  <2>4. CASE m # 1
    <3>0. m \in 1..n
      BY <2>2
    <3>1. m \in 1..n /\ m - 1 \in 1..n /\ m - 1 \notin Bad
      <4>1. m - 1 \in 1..n /\ m - 1 \in Int /\ ~(m <= m - 1)
        BY <2>4, <3>0
      <4> HIDE DEF Bad
      <4>2. QED
        BY <2>2, <3>0, <4>1
    <3>2. Fine(m - 1)
      <4> HIDE DEF Fine
      <4>1. QED
        BY <3>1
    <3>3. f[m] = f[m - 1] \o lists[m]
      BY <1>4, <2>4, <3>1
    <3>4. PICK a \in Seq(Words) : a = f[m - 1]
      BY <3>2
    <3>5. PICK b \in Seq(Words) : b = lists[m]
      BY <1>3, <3>1
    <3>6. PICK c \in Seq(Words) : c = a \o b
      <4>1. PICK w : w = Words
        OBVIOUS
      <4>2. a \in Seq(w) /\ b \in Seq(w)
        BY <4>1
      <4>3. a \o b \in Seq(w)
        BY <4>2
      <4>4. QED
        BY <4>1, <4>3
    <3>7. /\ DOMAIN a = 1..Len(a) /\ DOMAIN b = 1..Len(b) /\ DOMAIN c = 1..Len(a) + Len(b)
          /\ Len(a) \in Nat /\ Len(b) \in Nat
          /\ \A j \in 1..Len(a) : c[j] = a[j]
          /\ \A j \in 1..Len(b) : c[Len(a) + j] = b[j] /\ Len(a) + j \in DOMAIN c
          /\ \A j \in DOMAIN c : j \in DOMAIN a \/ (j - Len(a) \in DOMAIN b /\ c[j] = b[j - Len(a)])
      <4>1. Len(c) = Len(a) + Len(b) /\ Len(a) \in Nat /\ Len(b) \in Nat
        BY <3>6
      <4>2. \A j \in 1..Len(a) + Len(b) : c[j] = IF j <= Len(a) THEN a[j] ELSE b[j - Len(a)]
        BY <3>6
      <4>3. DOMAIN a = 1..Len(a) /\ DOMAIN b = 1..Len(b) /\ DOMAIN c = 1..Len(c)
        OBVIOUS
      <4>4. \A j \in 1..Len(b) : /\ Len(a) + j \in 1..Len(a) + Len(b)
                                 /\ ~(Len(a) + j <= Len(a)) /\ Len(a) + j - Len(a) = j
        BY <4>1
      <4>5. \A j \in 1..Len(a) + Len(b) : j \in 1..Len(a) \/ (~(j <= Len(a)) /\ j - Len(a) \in 1..Len(b))
        BY <4>1
      <4>6. \A j \in 1..Len(a) : j \in 1..Len(a) + Len(b) /\ j <= Len(a)
        BY <4>1
      <4>7. QED
        <5>1. \A j \in 1..Len(a) : c[j] = a[j]
          BY <4>2, <4>6
        <5>2. \A j \in 1..Len(b) : c[Len(a) + j] = b[j] /\ Len(a) + j \in DOMAIN c
          BY <4>1, <4>2, <4>3, <4>4
        <5>3. \A j \in DOMAIN c : j \in DOMAIN a \/ (j - Len(a) \in DOMAIN b /\ c[j] = b[j - Len(a)])
          BY <4>1, <4>2, <4>3, <4>5
        <5>4. QED
          BY <4>1, <4>3, <5>1, <5>2, <5>3
    <3>8. c = f[m] /\ \A i \in 1..m : i = m \/ i \in 1..m - 1
      BY <3>1, <3>3, <3>4, <3>5, <3>6
    <3>9. /\ \A j \in DOMAIN a : \E i \in 1..m - 1 : \E l \in DOMAIN lists[i] : a[j] = lists[i][l]
          /\ \A i \in 1..m - 1 : \A l \in DOMAIN lists[i] : \E j \in DOMAIN a : a[j] = lists[i][l]
      BY <3>2, <3>4
    <3>10. m \in 1..m /\ \A i \in 1..m - 1 : i \in 1..m
      BY <3>1
    <3>11. \A j \in DOMAIN c : \E i \in 1..m : \E l \in DOMAIN lists[i] : c[j] = lists[i][l]
      <4>1. ASSUME NEW j \in DOMAIN c, j \in DOMAIN a
            PROVE  \E i \in 1..m : \E l \in DOMAIN lists[i] : c[j] = lists[i][l]
        <5>1. PICK i \in 1..m - 1 : \E l \in DOMAIN lists[i] : a[j] = lists[i][l]
          BY <3>9, <4>1
        <5>2. c[j] = a[j] /\ i \in 1..m
          BY <3>7, <3>10, <4>1
        <5>3. QED
          BY <5>1, <5>2
      <4>2. ASSUME NEW j \in DOMAIN c, j - Len(a) \in DOMAIN b, c[j] = b[j - Len(a)]
            PROVE  \E i \in 1..m : \E l \in DOMAIN lists[i] : c[j] = lists[i][l]
        BY <3>5, <3>10, <4>2
      <4>3. QED
        BY <3>7, <4>1, <4>2
    <3>12. \A i \in 1..m : \A l \in DOMAIN lists[i] : \E j \in DOMAIN c : c[j] = lists[i][l]
      <4>1. ASSUME NEW i \in 1..m - 1, NEW l \in DOMAIN lists[i]
            PROVE  \E j \in DOMAIN c : c[j] = lists[i][l]
        <5>1. PICK j \in DOMAIN a : a[j] = lists[i][l]
          BY <3>9
        <5>2. j \in DOMAIN c /\ c[j] = a[j]
          BY <3>7
        <5>3. QED
          BY <5>1, <5>2
      <4>2. ASSUME NEW l \in DOMAIN lists[m]
            PROVE  \E j \in DOMAIN c : c[j] = lists[m][l]
        BY <3>5, <3>7
      <4>3. QED
        BY <3>8, <4>1, <4>2
    <3>13. Fine(m)
      BY <3>8, <3>11, <3>12
    <3>14. QED
      BY <2>2, <3>13
  <2>5. QED
    BY <2>3, <2>4
<1> HIDE DEF Fine
<1>7. Fine(n)
  <2>1. n \in 1..n
    OBVIOUS
  <2>2. QED
    BY <1>6, <2>1
<1>8. /\ f[n] \in Seq(Words)
      /\ \A j \in DOMAIN f[n] : \E i \in 1..n : \E l \in DOMAIN lists[i] : f[n][j] = lists[i][l]
      /\ \A i \in 1..n : \A l \in DOMAIN lists[i] : \E j \in DOMAIN f[n] : f[n][j] = lists[i][l]
  BY <1>7 DEF Fine
<1>10. PICK said \in Seq(Words) : said = f[n] /\ said = Said(spoken)
  BY <1>8, <1>9
<1>11. \A j \in DOMAIN said : \E s \in Traders : \E l \in DOMAIN spoken[s] : said[j] = spoken[s][l]
  BY <1>3, <1>5, <1>8, <1>10
<1>12. \A s \in Traders : \A l \in DOMAIN spoken[s] : \E j \in DOMAIN said : said[j] = spoken[s][l]
  <2> SUFFICES ASSUME NEW s \in Traders, NEW l \in DOMAIN spoken[s]
               PROVE  \E j \in DOMAIN said : said[j] = spoken[s][l]
    OBVIOUS
  <2>1. PICK i \in 1..n : s = Trader[i]
    BY <1>5
  <2>2. l \in DOMAIN lists[i] /\ lists[i][l] = spoken[s][l]
    BY <1>3, <2>1
  <2>3. QED
    BY <1>8, <1>10, <2>2
<1>13. QED
  BY <1>10, <1>11, <1>12 DEF SameWords

-----------------------------------------------------------------------------
\* Weights before the first solve, or a share for each strategy.
Weighted(w) == w = NoWeights \/ w \in [Traders -> Nat]

\* Whatever the optimiser answers and the cuts leave, a share is never negative.
LEMMA SolvedWeights ==
  ASSUME NEW w0, Weighted(w0), NEW w \in Solved(w0)
  PROVE  Weighted(w)
<1>1. Equal \in [Traders -> Nat]
  <2>1. PICK n \in Nat : n = Len(Trader) /\ n >= 1
    BY PortfolioAssumption
  <2>2. 8 \div n \in Nat
    BY <2>1
  <2>3. QED
    BY <2>1, <2>2 DEF Equal, Full
<1>2. ASSUME NEW x \in Solutions PROVE x \in [Traders -> Nat]
  BY DEF Solutions, Full
<1>3. ASSUME NEW x \in Solutions, NEW cut \in Breaches PROVE CutBy(x, cut) \in [Traders -> Nat]
  <2>1. x \in [Traders -> Nat] /\ \A n \in Nat : n \div 2 \in Nat
    BY <1>2
  <2>2. \A a \in DOMAIN x : [x EXCEPT ![a] = @ \div 2] \in [Traders -> Nat]
    BY <2>1
  <2>3. \A y \in [Traders -> Nat] : \A a, b :
          [y EXCEPT ![a] = @ \div 2, ![b] = @ \div 2] \in [Traders -> Nat]
    BY <2>1
  <2>4. \A y \in [Traders -> Nat] : \A a : [y EXCEPT ![a] = 0] \in [Traders -> Nat]
    OBVIOUS
  <2>5. QED
    BY <2>1, <2>3, <2>4 DEF CutBy
<1>4. QED
  BY <1>1, <1>3 DEF Solved, Outcomes, Weighted

\* A strategy wants what its one word of an instrument says.
LEMMA OneWord ==
  ASSUME ~SharedLegs, NEW spoken \in Chorus, NEW s \in Traders, NEW l \in DOMAIN spoken[s]
  PROVE  Wanted(s, spoken[s][l].symbol, spoken) = spoken[s][l].target
<1> DEFINE k == spoken[s][l].symbol
           f == [i \in {l} |-> spoken[s][i].target]
<1>1. spoken[s] \in Seq(Words) /\ Sound(spoken[s])
  BY OpinionsAreWords
<1>2. On(k, spoken[s]) = {l}
  BY <1>1 DEF On, Sound
<1>3. spoken[s][l].target \in Int
  <2>1. \A q \in Seq(Words) : \A i \in DOMAIN q : q[i] \in Words
    OBVIOUS
  <2>2. spoken[s][l] \in Words
    BY <1>1, <2>1
  <2>3. QED
    BY <2>2 DEF Words
<1>4. SumFunctionOnSet(f, {l}) = spoken[s][l].target
  <2>1. IsFiniteSet({l}) /\ Numbers(f, {l}) /\ f[l] = spoken[s][l].target
    BY <1>3, FS_Singleton DEF Numbers
  <2> HIDE DEF f
  <2>2. SumFunctionOnSet(f, {l}) = f[l] + SumFunctionOnSet(f, {l} \ {l})
    BY <2>1, SumTakeOut
  <2>3. {l} \ {l} = {} /\ SumFunctionOnSet(f, {}) = 0
    BY SumNothing
  <2>4. PICK x \in Int : x = spoken[s][l].target
    BY <1>3
  <2>5. SumFunctionOnSet(f, {l}) = x + 0
    BY <2>1, <2>2, <2>3, <2>4
  <2>6. QED
    BY <2>4, <2>5
<1>5. QED
  BY <1>2, <1>4 DEF Wanted

\* A target is on the side of the words it is made of.
LEMMA TargetsSided ==
  ASSUME NEW signals \in Seq(Words), NEW w, Weighted(w), NEW m \in {1, Twice},
         NEW k \in Keys(signals)
  PROVE  /\ (\A i \in On(k, signals) : signals[i].target >= 0) => NetTargets(signals, w, m)[k] >= 0
         /\ (\A i \in On(k, signals) : signals[i].target <= 0) => NetTargets(signals, w, m)[k] <= 0
<1> DEFINE on == On(k, signals)
           by == NetFor(k, signals, w, m)
           speakers == {signals[i].strategy : i \in on}
           none == [s \in speakers |-> 0]
<1>1. /\ \A i \in DOMAIN signals : signals[i] \in Words
      /\ on \subseteq DOMAIN signals /\ on \subseteq Int /\ IsFiniteSet(on)
  <2>1. DOMAIN signals = 1..Len(signals) /\ Len(signals) \in Nat
    OBVIOUS
  <2>2. IsFiniteSet(DOMAIN signals) /\ DOMAIN signals \subseteq Int
    BY <2>1, FS_Interval
  <2>3. on \subseteq DOMAIN signals
    BY DEF On
  <2> HIDE DEF on
  <2>4. QED
    BY <2>2, <2>3, FS_Subset
<1>2. speakers \subseteq Traders /\ IsFiniteSet(speakers)
  BY <1>1, TradersAre, FS_Subset DEF Words
<1>3. \A s \in speakers : \E i \in on : LastWord(signals, on, s) = signals[i]
  <2> SUFFICES ASSUME NEW s \in speakers PROVE \E i \in on : LastWord(signals, on, s) = signals[i]
    OBVIOUS
  <2> DEFINE its == {i \in on : signals[i].strategy = s}
  <2>1. its # {} /\ its \subseteq on
    OBVIOUS
  <2> HIDE DEF on
  <2>2. IsFiniteSet(its) /\ its \subseteq Int
    BY <1>1, <2>1, FS_Subset
  <2> HIDE DEF its
  <2>3. Max(its) \in its
    BY <2>1, <2>2, Extremes
  <2>4. QED
    BY <2>1, <2>3 DEF LastWord, its
<1>4. DOMAIN by = speakers /\ \A s \in speakers : by[s] = LastWord(signals, on, s).target * m * Weight(w, s)
  BY DEF NetFor
<1>5. \A s \in Traders : Weight(w, s) \in Nat
  BY DEF Weighted, Weight, Full
<1>6. \A t \in -1..1, n \in Nat : /\ t * m * n \in Int
                                  /\ t >= 0 => t * m * n >= 0
                                  /\ t <= 0 => t * m * n <= 0
  <2> SUFFICES ASSUME NEW t \in {-1, 0, 1}, NEW n \in Nat
               PROVE  /\ t * m * n \in Int
                      /\ t >= 0 => t * m * n >= 0
                      /\ t <= 0 => t * m * n <= 0
    OBVIOUS
  <2>1. t * m \in {-2, -1, 0, 1, 2} /\ (t >= 0 => t * m >= 0) /\ (t <= 0 => t * m <= 0)
    BY DEF Twice
  <2>2. PICK c \in {-2, -1, 0, 1, 2} : c = t * m
    BY <2>1
  <2>3. c * n \in Int /\ (c >= 0 => c * n >= 0) /\ (c <= 0 => c * n <= 0)
    OBVIOUS
  <2>4. QED
    BY <2>1, <2>2, <2>3
<1>7. Numbers(by, speakers)
  <2> SUFFICES ASSUME NEW s \in speakers PROVE by[s] \in Int
    BY DEF Numbers
  <2>1. PICK i \in on : LastWord(signals, on, s) = signals[i]
    BY <1>3
  <2>2. signals[i].target \in -1..1
    BY <1>1 DEF Words
  <2> HIDE DEF on, by, speakers
  <2>3. QED
    BY <1>2, <1>4, <1>5, <1>6, <2>1, <2>2
<1>8. Numbers(none, speakers) /\ SumFunctionOnSet(none, speakers) = 0
  BY <1>2, SumZero DEF Numbers
<1>9. NetTargets(signals, w, m)[k] = SumFunctionOnSet(by, speakers)
  BY <1>4 DEF NetTargets, Total
<1>10. ASSUME \A i \in on : signals[i].target >= 0 PROVE SumFunctionOnSet(by, speakers) >= 0
  <2>1. \A s \in speakers : none[s] <= by[s]
    <3> SUFFICES ASSUME NEW s \in speakers PROVE by[s] >= 0
      BY <1>7 DEF Numbers
    <3>1. PICK i \in on : LastWord(signals, on, s) = signals[i]
      BY <1>3
    <3>2. signals[i].target \in -1..1 /\ signals[i].target >= 0
      BY <1>1, <1>10 DEF Words
    <3> HIDE DEF on, by, speakers
    <3>3. QED
      BY <1>2, <1>4, <1>5, <1>6, <3>1, <3>2
  <2> HIDE DEF none, by, speakers, on
  <2>2. QED
    BY <1>2, <1>7, <1>8, <2>1, SumMonotonic
<1>11. ASSUME \A i \in on : signals[i].target <= 0 PROVE SumFunctionOnSet(by, speakers) <= 0
  <2>1. \A s \in speakers : by[s] <= none[s]
    <3> SUFFICES ASSUME NEW s \in speakers PROVE by[s] <= 0
      BY <1>7 DEF Numbers
    <3>1. PICK i \in on : LastWord(signals, on, s) = signals[i]
      BY <1>3
    <3>2. signals[i].target \in -1..1 /\ signals[i].target <= 0
      BY <1>1, <1>11 DEF Words
    <3> HIDE DEF on, by, speakers
    <3>3. QED
      BY <1>2, <1>4, <1>5, <1>6, <3>1, <3>2
  <2> HIDE DEF none, by, speakers, on
  <2>2. QED
    BY <1>2, <1>7, <1>8, <2>1, SumMonotonic
<1>12. QED
  BY <1>9, <1>10, <1>11

\* The weights are none, or shares; and the account is against nobody.
PortfolioInv == Weighted(weights) /\ NeverAgainst

\* The account is never on a side no strategy is on.
THEOREM NoSideOfItsOwn ==
  ASSUME ~SharedLegs
  PROVE  PortfolioSpec => []NeverAgainst
<1>1. PortfolioInit => PortfolioInv
  BY DEF PortfolioInit, PortfolioInv, NeverAgainst, Weighted
<1>2. PortfolioInv /\ [PortfolioNext]_portfolioVars => PortfolioInv'
  <2> SUFFICES ASSUME PortfolioInv, [PortfolioNext]_portfolioVars PROVE PortfolioInv'
    OBVIOUS
  <2>1. CASE MarketEvent
    <3>1. PICK spoken \in Chorus, m \in {1, Twice} :
            /\ wants' = [s \in Traders |-> [k \in Symbol |-> Wanted(s, k, spoken)]]
            /\ weights' \in Solved(weights)
            /\ LET targets == NetTargets(Said(spoken), weights', m) IN
               \E refused \in SUBSET DOMAIN targets :
                 LET met == DOMAIN targets \ refused IN
                 /\ holds' = [k \in Symbol |-> IF k \in met THEN targets[k] ELSE holds[k]]
                 /\ unmet' = (unmet \ met) \cup refused
      BY <2>1, Zenon DEF MarketEvent
    <3>2. PICK signals \in Seq(Words) : signals = Said(spoken) /\ SameWords(signals, spoken)
      BY SaidAll DEF SameWords
    <3>3. PICK w : w = weights' /\ Weighted(w)
      BY <3>1, SolvedWeights DEF PortfolioInv
    <3>4. PICK refused \in SUBSET Keys(signals) :
            /\ holds' = [k \in Symbol |-> IF k \in Keys(signals) \ refused
                                          THEN NetTargets(signals, w, m)[k] ELSE holds[k]]
            /\ unmet' = (unmet \ (Keys(signals) \ refused)) \cup refused
      BY <3>1, <3>2, <3>3 DEF NetTargets
    <3>5. ASSUME NEW k \in Symbol, k \notin unmet'
          PROVE  /\ (\A s \in Traders : wants'[s][k] >= 0) => holds'[k] >= 0
                 /\ (\A s \in Traders : wants'[s][k] <= 0) => holds'[k] <= 0
      <4>1. CASE k \in Keys(signals)
        <5>1. k \notin refused /\ holds'[k] = NetTargets(signals, w, m)[k]
          BY <3>4, <3>5, <4>1
        <5>2. \A j \in On(k, signals) : \E s \in Traders : wants'[s][k] = signals[j].target
          <6> SUFFICES ASSUME NEW j \in DOMAIN signals, signals[j].symbol = k
                       PROVE  \E s \in Traders : wants'[s][k] = signals[j].target
            BY DEF On
          <6>1. PICK s \in Traders : \E l \in DOMAIN spoken[s] : signals[j] = spoken[s][l]
            BY <3>2 DEF SameWords
          <6>2. PICK l \in DOMAIN spoken[s] : signals[j] = spoken[s][l]
            BY <6>1
          <6>3. Wanted(s, k, spoken) = signals[j].target
            BY <6>2, OneWord
          <6>4. QED
            BY <3>1, <6>3
        <5>3. QED
          BY <3>3, <4>1, <5>1, <5>2, TargetsSided
      <4>2. CASE k \notin Keys(signals)
        <5>1. k \notin unmet /\ holds'[k] = holds[k]
          BY <3>4, <3>5, <4>2
        <5>2. \A s \in Traders : wants'[s][k] = wants[s][k]
          <6> SUFFICES ASSUME NEW s \in Traders PROVE wants'[s][k] = wants[s][k]
            OBVIOUS
          <6>1. \A l \in DOMAIN spoken[s] : spoken[s][l].symbol # k
            BY <3>2, <4>2 DEF SameWords, Keys
          <6>2. On(k, spoken[s]) = {}
            BY <6>1 DEF On
          <6>3. QED
            BY <3>1, <6>2 DEF Wanted
        <5>3. QED
          BY <5>1, <5>2 DEF PortfolioInv, NeverAgainst
      <4>3. QED
        BY <4>1, <4>2
    <3>6. NeverAgainst'
      BY <3>5 DEF NeverAgainst
    <3>7. QED
      BY <3>3, <3>6 DEF PortfolioInv, Weighted
  <2>2. CASE DayPasses
    BY <2>2 DEF DayPasses, PortfolioInv, NeverAgainst, Weighted
  <2>3. CASE UNCHANGED portfolioVars
    BY <2>3 DEF PortfolioInv, NeverAgainst, Weighted, portfolioVars
  <2>4. QED
    BY <2>1, <2>2, <2>3 DEF PortfolioNext
<1>3. PortfolioInv => NeverAgainst
  BY DEF PortfolioInv
<1>4. QED
  BY <1>1, <1>2, <1>3, PTL DEF PortfolioSpec

-----------------------------------------------------------------------------
(* The limits (Approvals).                                                 *)

\* A set of two or more has two.
LEMMA TwoOf ==
  ASSUME NEW S, IsFiniteSet(S), Cardinality(S) >= 2
  PROVE  \E x, y \in S : x # y
<1>1. SUFFICES ASSUME \A x, y \in S : x = y PROVE FALSE
  OBVIOUS
<1>2. S # {}
  BY FS_EmptySet
<1>3. PICK x \in S : TRUE
  BY <1>2
<1>4. S = {x}
  BY <1>1
<1>5. Cardinality(S) = 1
  BY <1>4, FS_Singleton
<1>6. QED
  BY <1>5

\* What was signed was signed by then.
SignedInv ==
  /\ day \in Nat
  /\ \A a \in approvals : a.who \in Approver /\ a.at \in 0..day
  /\ LoadedByApproval

\* What the chain asks for is what the property says of the limits it lets through.
LEMMA ChainAsks ==
  ASSUME SignedInv, NEW doc, Checked(doc)
  PROVE  /\ rule = "two_person" =>
              \E a, b \in approvals : a.who # b.who /\ a.doc = doc /\ b.doc = doc
         /\ rule = "delayed_single_person" =>
              \E a \in approvals : a.doc = doc /\ day - a.at >= Wait
<1>1. ASSUME rule = "two_person"
      PROVE  \E a, b \in approvals : a.who # b.who /\ a.doc = doc /\ b.doc = doc
  <2>1. DistinctSigners(doc) \subseteq Approver
    BY DEF DistinctSigners, ApprovalsFor, SignedInv
  <2>2. IsFiniteSet(DistinctSigners(doc))
    BY <2>1, ApprovalsAssumption, FS_Subset
  <2>3. Cardinality(DistinctSigners(doc)) >= 2
    BY <1>1 DEF Checked
  <2>4. PICK x \in DistinctSigners(doc) : \E y \in DistinctSigners(doc) : x # y
    BY <2>2, <2>3, TwoOf
  <2>5. PICK y \in DistinctSigners(doc) : x # y
    BY <2>4
  <2>6. PICK a \in ApprovalsFor(doc) : a.who = x
    BY DEF DistinctSigners
  <2>7. PICK b \in ApprovalsFor(doc) : b.who = y
    BY DEF DistinctSigners
  <2>8. QED
    BY <2>5, <2>6, <2>7 DEF ApprovalsFor
<1>2. ASSUME rule = "delayed_single_person"
      PROVE  \E a \in approvals : a.doc = doc /\ day - a.at >= Wait
  <2> DEFINE times == {a.at : a \in ApprovalsFor(doc)}
  <2>1. times \subseteq 0..day /\ times # {}
    BY DEF ApprovalsFor, SignedInv, Checked
  <2>2. IsFiniteSet(0..day)
    BY FS_Interval DEF SignedInv
  <2>3. Min(times) \in times
    <3>1. IsFiniteSet(times)
      BY <2>1, <2>2, FS_Subset, Zenon
    <3>2. times \subseteq Int
      BY <2>1 DEF SignedInv
    <3>3. QED
      BY <2>1, <3>1, <3>2, Extremes
  <2>4. PICK a \in ApprovalsFor(doc) : a.at = Min(times)
    BY <2>3
  <2>5. day - a.at >= Wait
    BY <1>2, <2>4 DEF Checked, Earliest
  <2>6. QED
    BY <2>4, <2>5 DEF ApprovalsFor
<1>3. QED
  BY <1>1, <1>2

\* A document that builds has its ladder in order.
LEMMA LadderHolds ==
  ASSUME NEW doc, Builds(doc)
  PROVE  doc["daily_loss"] < doc["drawdown_hard"] /\ doc["drawdown_amber"] < doc["drawdown_hard"]
<1>1. \A rung \in Rungs : doc[rung] \in Int
  BY ApprovalsAssumption DEF Builds
<1>2. doc["drawdown_amber"] \in Int /\ doc["drawdown_soft"] \in Int /\ doc["drawdown_hard"] \in Int
  BY <1>1 DEF Rungs
<1>3. /\ doc["drawdown_amber"] < doc["drawdown_soft"] /\ doc["drawdown_soft"] < doc["drawdown_hard"]
      /\ doc["daily_loss"] < doc["drawdown_hard"]
  BY DEF Builds, Ordered
<1>4. QED
  BY <1>2, <1>3

\* One step of an approver, of the calendar or of a load keeps it so.
LEMMA SignedStep ==
  ASSUME SignedInv, [ApprovalsNext]_approvalVars
  PROVE  SignedInv'
<1>1. ASSUME NEW who \in Approver, NEW doc \in Document, SignDocument(who, doc) PROVE SignedInv'
  <2>1. /\ approvals' = approvals \cup {[who |-> who, doc |-> doc, at |-> day]}
        /\ UNCHANGED <<rule, registered, inForce, day>>
    BY <1>1 DEF SignDocument
  <2>2. \A a \in approvals' : a.who \in Approver /\ a.at \in 0..day'
    BY <2>1 DEF SignedInv
  <2>3. approvals \subseteq approvals'
    BY <2>1
  <2>4. LoadedByApproval'
    BY <2>1, <2>3 DEF SignedInv, LoadedByApproval
  <2>5. QED
    BY <2>1, <2>2, <2>4 DEF SignedInv
<1>2. ASSUME NEW doc \in Document, FromMapping(doc) PROVE SignedInv'
  <2>1. /\ Checked(doc) /\ Builds(doc) /\ inForce' = {[doc |-> doc, chained |-> TRUE]}
        /\ UNCHANGED <<rule, registered, approvals, day>>
    BY <1>2 DEF FromMapping
  <2>2. LoadedByApproval'
    BY <2>1, ChainAsks, LadderHolds DEF LoadedByApproval
  <2>3. QED
    BY <2>1, <2>2 DEF SignedInv
<1>3. ASSUME NEW doc \in Document, LoadLimits(doc) PROVE SignedInv'
  <2>1. /\ Builds(doc) /\ inForce' = {[doc |-> doc, chained |-> FALSE]}
        /\ UNCHANGED <<rule, registered, approvals, day>>
    BY <1>3 DEF LoadLimits
  <2>2. LoadedByApproval'
    BY <2>1, LadderHolds DEF LoadedByApproval
  <2>3. QED
    BY <2>1, <2>2 DEF SignedInv
<1>4. ASSUME NEW names \in SUBSET Approver, ChainAgain(names) PROVE SignedInv'
  BY <1>4 DEF ChainAgain, SignedInv, LoadedByApproval
<1>5. CASE NextDay
  <2>1. day' = day + 1 /\ UNCHANGED <<rule, registered, approvals, inForce>>
    BY <1>5 DEF NextDay
  <2>2. \A a \in approvals : day - a.at >= Wait => day' - a.at >= Wait
    BY <2>1, ApprovalsAssumption DEF SignedInv
  <2>3. LoadedByApproval'
    BY <2>1, <2>2 DEF SignedInv, LoadedByApproval
  <2>4. QED
    BY <2>1, <2>3 DEF SignedInv
<1>6. CASE UNCHANGED approvalVars
  BY <1>6 DEF approvalVars, SignedInv, LoadedByApproval
<1>7. QED
  BY <1>1, <1>2, <1>3, <1>4, <1>5, <1>6 DEF ApprovalsNext

\* Limits come into force by the approvals they need.
THEOREM LimitsAreApproved == ApprovalsSpec => []LoadedByApproval
<1>1. ApprovalsInit => SignedInv
  BY DEF ApprovalsInit, SignedInv, LoadedByApproval
<1>2. SignedInv /\ [ApprovalsNext]_approvalVars => SignedInv'
  BY SignedStep
<1>3. SignedInv => LoadedByApproval
  BY DEF SignedInv
<1>4. QED
  BY <1>1, <1>2, <1>3, PTL DEF ApprovalsSpec

-----------------------------------------------------------------------------
(* The book of a symbol (MarketData).                                      *)

Requests == [first: Nat, final: Nat, id: {None} \cup Nat]
Sequencers == [last: {None} \cup Nat, resync: BOOLEAN]
Messages == [kind: {"depth"}, first: Nat, final: Nat] \cup {[kind |-> "trade"]}
Covers(m) == m.kind = "depth" => m.first \in 1..m.final /\ m.final <= Len(log)

MarketTypeOK ==
  /\ log \in Seq([level: Level, gone: BOOLEAN])
  /\ queue \in Seq(Messages) /\ \A i \in 1..Len(queue) : Covers(queue[i])
  /\ sent \in 0..Len(log)
  /\ seq \in Sequencers /\ seq.last <= Len(log)
  /\ feed \in [book: [Level -> Nat], synced: BOOLEAN]
  /\ resync \in Requests

\* A sequencer that asks for a snapshot counts no update, and one that counts has
\* had its snapshot, of that update or an earlier one.
InSequence ==
  /\ seq.resync => seq.last = None
  /\ seq.last # None => feed.synced /\ resync.id \in 0..seq.last

MarketInv == MarketTypeOK /\ InSequence /\ BookIsVenues /\ EngineAgrees /\ CatchesUp

\* The changes of a level among the first n of a log, and 0; the book they make.
Changes(lg, n, l) == {0} \cup {i \in 1..n : lg[i].level = l}
Latest(lg, n, l) == Max(Changes(lg, n, l))
Quantity(lg, n, l) ==
  IF Latest(lg, n, l) = 0 \/ lg[Latest(lg, n, l)].gone THEN 0 ELSE Latest(lg, n, l)

BookOf(lg, n) == [l \in Level |-> Quantity(lg, n, l)]

\* The levels the updates from first to final of a log touched, those a snapshot of
\* its book reaches, and what the snapshot shows.
TouchedIn(lg, first, final) == {lg[i].level : i \in first..final}
TopIn(lg, n) ==
  {l \in Level : /\ BookOf(lg, n)[l] # 0
                 /\ Cardinality({k \in Level : k < l /\ BookOf(lg, n)[k] # 0}) < SnapshotLevels}
SnapshotIn(lg, n) == [l \in Level |-> IF l \in TopIn(lg, n) THEN BookOf(lg, n)[l] ELSE 0]

\* A book is what the snapshot taken at update id and the updates since make of it.
Reflects(lg, b, id, n) ==
  \A l \in Level :
    /\ b[l] \in {0, BookOf(lg, n)[l]}
    /\ l \in TopIn(lg, id) \cup TouchedIn(lg, id + 1, n) => b[l] = BookOf(lg, n)[l]

\* So does a feed that counts updates; one that is not synced has an empty book.
Mirrors(lg, f, id, n) ==
  /\ n # None => Reflects(lg, f.book, id, n)
  /\ ~f.synced => f.book = NoBook

\* The venue's book is the book its log makes, before a step and after it.
LEMMA BookIs ==
  /\ \A n : /\ BookAt(n) = BookOf(log, n) /\ TopOf(n) = TopIn(log, n)
           /\ Snapshot(n) = SnapshotIn(log, n)
  /\ \A m, n : Touched(m, n) = TouchedIn(log, m, n)
  /\ BookIsVenues <=> Mirrors(log, feed, resync.id, seq.last)
  /\ BookIsVenues' <=> Mirrors(log', feed', resync'.id, seq'.last)
<1>1. \A n : BookAt(n) = BookOf(log, n)
  BY DEF BookAt, BookOf, Quantity, Latest, Changes
<1>2. \A n : TopOf(n) = TopIn(log, n) /\ Snapshot(n) = SnapshotIn(log, n)
  BY <1>1 DEF TopOf, TopIn, Snapshot, SnapshotIn
<1>3. \A m, n : Touched(m, n) = TouchedIn(log, m, n)
  BY DEF Touched, TouchedIn
<1>4. BookIsVenues <=> Mirrors(log, feed, resync.id, seq.last)
  <2>1. BookAt(seq.last) = BookOf(log, seq.last)
    BY <1>1
  <2>2. TopOf(resync.id) = TopIn(log, resync.id)
    BY <1>2
  <2>3. Touched(resync.id + 1, seq.last) = TouchedIn(log, resync.id + 1, seq.last)
    BY <1>3
  <2>4. (seq.last # None => Reflects(log, feed.book, resync.id, seq.last)) <=>
          (seq.last # None => \A l \in Level :
             /\ feed.book[l] \in {0, BookAt(seq.last)[l]}
             /\ l \in TopOf(resync.id) \cup Touched(resync.id + 1, seq.last) =>
                  feed.book[l] = BookAt(seq.last)[l])
    BY <2>1, <2>2, <2>3 DEF Reflects
  <2>5. QED
    BY <2>4 DEF BookIsVenues, Mirrors
<1>5. (BookIsVenues <=> Mirrors(log, feed, resync.id, seq.last))'
  BY <1>4, PTL
<1>6. Mirrors(log, feed, resync.id, seq.last)' <=> Mirrors(log', feed', resync'.id, seq'.last)
  BY DEF Mirrors, Reflects, BookOf, Quantity, Latest, Changes, TopIn, TouchedIn, None, NoBook
<1>7. BookIsVenues' <=> Mirrors(log', feed', resync'.id, seq'.last)
  BY <1>5, <1>6
<1>8. QED
  BY <1>1, <1>2, <1>3, <1>4, <1>7

\* The latest change of a level is 0 or one of the first n.
LEMMA LatestChange ==
  ASSUME NEW lg, NEW n \in Nat, NEW l
  PROVE  Latest(lg, n, l) \in 0..n
<1>1. Changes(lg, n, l) \subseteq 0..n /\ Changes(lg, n, l) # {}
  BY DEF Changes
<1>2. IsFiniteSet(Changes(lg, n, l))
  <2>1. IsFiniteSet(0..n)
    BY FS_Interval
  <2>2. QED
    BY <1>1, <2>1, FS_Subset
<1>3. Max(Changes(lg, n, l)) \in Changes(lg, n, l)
  BY <1>1, <1>2, Extremes
<1>4. QED
  BY <1>1, <1>3 DEF Latest

\* A book is a quantity, named by its update, for each level.
LEMMA BookType ==
  ASSUME NEW lg, NEW n \in Nat
  PROVE  BookOf(lg, n) \in [Level -> Nat]
<1>1. \A l \in Level : Quantity(lg, n, l) \in Nat
  BY LatestChange DEF Quantity
<1>2. QED
  BY <1>1 DEF BookOf

\* What a snapshot shows is such a book, and reflects the venue's.
LEMMA SnapshotType ==
  ASSUME NEW lg, NEW n \in Nat
  PROVE  SnapshotIn(lg, n) \in [Level -> Nat] /\ Reflects(lg, SnapshotIn(lg, n), n, n)
<1>1. BookOf(lg, n) \in [Level -> Nat]
  BY BookType
<1>2. SnapshotIn(lg, n) \in [Level -> Nat]
  BY <1>1 DEF SnapshotIn
<1>3. TouchedIn(lg, n + 1, n) = {}
  BY DEF TouchedIn
<1>4. Reflects(lg, SnapshotIn(lg, n), n, n)
  BY <1>3 DEF Reflects, SnapshotIn
<1>5. QED
  BY <1>2, <1>4

\* The venue's book of the past stays what it was.
LEMMA PastBooks ==
  ASSUME NEW E, NEW lg \in Seq(E), NEW u, NEW n \in 0..Len(lg)
  PROVE  BookOf(Append(lg, u), n) = BookOf(lg, n)
<1> DEFINE more == Append(lg, u)
<1>1. \A i \in 1..n : more[i] = lg[i]
  OBVIOUS
<1>2. \A l : Changes(more, n, l) = Changes(lg, n, l)
  BY <1>1 DEF Changes
<1>3. \A l : Latest(more, n, l) = Latest(lg, n, l) /\ Latest(lg, n, l) \in 0..n
  BY <1>2, LatestChange DEF Latest
<1>4. \A l : Latest(lg, n, l) # 0 => more[Latest(lg, n, l)] = lg[Latest(lg, n, l)]
  BY <1>1, <1>3
<1> HIDE DEF more
<1>5. \A l : Quantity(more, n, l) = Quantity(lg, n, l)
  BY <1>3, <1>4 DEF Quantity
<1>6. QED
  BY <1>5 DEF BookOf, more

\* And so a book reflects it.
LEMMA PastReflected ==
  ASSUME NEW E, NEW lg \in Seq(E), NEW u, NEW n \in 0..Len(lg), NEW id \in 0..Len(lg), NEW levels,
         Reflects(lg, levels, id, n)
  PROVE  Reflects(Append(lg, u), levels, id, n)
<1> DEFINE more == Append(lg, u)
<1>1. BookOf(more, n) = BookOf(lg, n) /\ BookOf(more, id) = BookOf(lg, id)
  BY PastBooks
<1>2. \A i \in id + 1 .. n : more[i] = lg[i]
  OBVIOUS
<1> HIDE DEF more
<1>3. TopIn(more, id) = TopIn(lg, id) /\ TouchedIn(more, id + 1, n) = TouchedIn(lg, id + 1, n)
  BY <1>1, <1>2 DEF TopIn, TouchedIn
<1>4. Reflects(more, levels, id, n)
  BY <1>1, <1>3 DEF Reflects
<1>5. QED
  BY <1>4 DEF more

\* Applying a message that follows on a book, or overlaps it, brings it to the message.
LEMMA LevelApplied ==
  ASSUME NEW levels \in [Level -> Nat], NEW id \in Nat, NEW last \in Nat, NEW first \in Nat,
         NEW final \in Nat, first <= last + 1, last < final, Reflects(log, levels, id, last)
  PROVE  /\ ApplyDelta(levels, first, final) \in [Level -> Nat]
         /\ Reflects(log, ApplyDelta(levels, first, final), id, final)
<1> DEFINE after == ApplyDelta(levels, first, final)
<1>1. ASSUME NEW l \in Level, l \notin TouchedIn(log, first, final)
      PROVE  Quantity(log, last, l) = Quantity(log, final, l)
  <2>1. \A i \in first..final : log[i].level # l
    BY <1>1 DEF TouchedIn
  <2>2. Changes(log, last, l) = Changes(log, final, l)
    BY <2>1 DEF Changes
  <2>3. QED
    BY <2>2 DEF Quantity, Latest
<1>2. after = [l \in Level |-> IF l \in TouchedIn(log, first, final) THEN BookOf(log, final)[l]
                                                                   ELSE levels[l]]
  BY BookIs DEF ApplyDelta
<1>3. BookOf(log, final) \in [Level -> Nat]
  BY BookType
<1>4. after \in [Level -> Nat]
  BY <1>2, <1>3
<1> HIDE DEF after
<1>5. ASSUME NEW l \in Level
      PROVE  /\ after[l] \in {0, BookOf(log, final)[l]}
             /\ l \in TopIn(log, id) \cup TouchedIn(log, id + 1, final) => after[l] = BookOf(log, final)[l]
  <2>1. CASE l \in TouchedIn(log, first, final)
    BY <1>2, <2>1
  <2>2. CASE l \notin TouchedIn(log, first, final)
    <3>1. after[l] = levels[l] /\ BookOf(log, last)[l] = BookOf(log, final)[l]
      BY <1>1, <1>2, <2>2 DEF BookOf
    <3>2. l \in TouchedIn(log, id + 1, final) => l \in TouchedIn(log, id + 1, last)
      <4>1. \A i \in id + 1 .. final : i \in first..final \/ i \in id + 1 .. last
        OBVIOUS
      <4>2. QED
        BY <2>2, <4>1 DEF TouchedIn
    <3>3. QED
      BY <3>1, <3>2 DEF Reflects
  <2>3. QED
    BY <2>1, <2>2
<1>6. QED
  BY <1>4, <1>5 DEF Reflects, after

\* What one event leaves of the engine's copy, after what came before it.
AbsorbedTo(g, seen, n) ==
  g = [i \in 0..n |-> IF i = 0 THEN engine ELSE Absorb(g[i - 1], seen[i])]

\* What the engine makes of a message is a recursive function on its events.
LEMMA EngineUnfolds ==
  ASSUME NEW seen, NEW n
  PROVE  EngineAfter(seen, n) = (CHOOSE g : AbsorbedTo(g, seen, n))[n]
BY DEF EngineAfter, AbsorbedTo

\* The engine takes the events of a message in their order, one or two of them.
LEMMA EngineTakes ==
  ASSUME NEW seen
  PROVE  /\ EngineAfter(seen, 0) = engine
         /\ EngineAfter(seen, 1) = Absorb(engine, seen[1])
         /\ EngineAfter(seen, 2) = Absorb(Absorb(engine, seen[1]), seen[2])
<1> DEFINE one == Absorb(engine, seen[1])
           two == Absorb(one, seen[2])
           h == [i \in 0..2 |-> IF i = 0 THEN engine ELSE IF i = 1 THEN one ELSE two]
           Made(n) == CHOOSE g : AbsorbedTo(g, seen, n)
<1>1. ASSUME NEW n \in 0..2 PROVE \E g : AbsorbedTo(g, seen, n)
  <2> DEFINE g == [i \in 0..n |-> h[i]]
  <2>1. \A i \in 0..n : g[i] = IF i = 0 THEN engine ELSE Absorb(g[i - 1], seen[i])
    <3>1. ASSUME NEW i \in 0..n, i # 0, i # 1 PROVE i = 2 /\ g[2] = two /\ g[1] = one
      BY <3>1
    <3>2. ASSUME 1 \in 0..n PROVE g[1] = one /\ g[0] = engine
      BY <3>2
    <3>3. QED
      BY <3>1, <3>2
  <2>2. AbsorbedTo(g, seen, n)
    <3>1. g = [i \in 0..n |-> g[i]]
      OBVIOUS
    <3> HIDE DEF g
    <3>2. QED
      BY <2>1, <3>1 DEF AbsorbedTo
  <2>3. QED
    BY <2>2
<1>2. \A n \in 0..2 : AbsorbedTo(Made(n), seen, n)
  BY <1>1
<1> HIDE DEF Made
<1>3. /\ Made(0)[0] = engine
      /\ Made(1)[0] = engine /\ Made(1)[1] = Absorb(Made(1)[0], seen[1])
      /\ Made(2)[0] = engine /\ Made(2)[1] = Absorb(Made(2)[0], seen[1])
      /\ Made(2)[2] = Absorb(Made(2)[1], seen[2])
  <2>1. /\ AbsorbedTo(Made(0), seen, 0) /\ AbsorbedTo(Made(1), seen, 1)
        /\ AbsorbedTo(Made(2), seen, 2)
    BY <1>2
  <2>2. QED
    BY <2>1 DEF AbsorbedTo
<1>4. QED
  BY <1>3, EngineUnfolds DEF Made

-----------------------------------------------------------------------------
(* A message.                                                              *)

\* The sequencer takes a message, leaves it, or asks for a snapshot.
Takes(s, first, final) == s.last # None /\ first <= s.last + 1 /\ s.last < final
Leaves(s, first, final) == s.last # None /\ final <= s.last
Asks(s, first, final) == s.last = None \/ (first > s.last + 1 /\ s.last < final)

ThreeWays(s, first, final, offer) ==
  /\ Takes(s, first, final) \/ Leaves(s, first, final) \/ Asks(s, first, final)
  /\ Takes(s, first, final) =>
       offer.applied = TRUE /\ offer.seq \in Sequencers
         /\ offer.seq.last = final /\ offer.seq.resync = FALSE
  /\ Leaves(s, first, final) => offer.applied = FALSE /\ offer.seq = s /\ s.resync = FALSE
  /\ Asks(s, first, final) =>
       offer.applied = FALSE /\ offer.seq \in Sequencers
         /\ offer.seq.last = None /\ offer.seq.resync = TRUE

\* The sequencer gives one of those answers.
LEMMA ThreeAnswers ==
  ASSUME NEW s \in Sequencers, s.resync => s.last = None,
         NEW first \in Nat, NEW final \in Nat, first <= final
  PROVE  ThreeWays(s, first, final, Accept(s, first, final))
<1> DEFINE offer == Accept(s, first, final)
<1>0. s.last = None \/ s.last \in Nat
  BY DEF Sequencers
<1>1. ASSUME Takes(s, first, final)
      PROVE  offer.applied = TRUE /\ offer.seq \in Sequencers
                /\ offer.seq.last = final /\ offer.seq.resync = FALSE
  <2>1. ~(final <= s.last) /\ ~(first > s.last + 1) /\ s.last # None
    BY <1>0, <1>1 DEF Takes
  <2>2. offer = Answer([s EXCEPT !.last = final], TRUE)
    BY <2>1, Zenon DEF Accept
  <2>3. s.resync = FALSE
    BY <2>1 DEF Sequencers
  <2>4. [s EXCEPT !.last = final] \in Sequencers
    BY DEF Sequencers
  <2>5. [s EXCEPT !.last = final].last = final /\ [s EXCEPT !.last = final].resync = s.resync
    BY DEF Sequencers
  <2>6. offer.applied = TRUE /\ offer.seq = [s EXCEPT !.last = final]
    BY <2>2 DEF Answer
  <2>7. QED
    BY <2>3, <2>4, <2>5, <2>6, Zenon
<1>2. ASSUME Leaves(s, first, final)
      PROVE  offer.applied = FALSE /\ offer.seq = s /\ s.resync = FALSE
  <2>1. ~(first > s.last + 1) /\ final <= s.last /\ s.last # None
    BY <1>0, <1>2 DEF Leaves
  <2>2. offer = Answer(s, FALSE)
    BY <2>1, Zenon DEF Accept
  <2>3. s.resync = FALSE
    BY <2>1 DEF Sequencers
  <2>4. QED
    BY <2>2, <2>3 DEF Answer
<1>3. ASSUME Asks(s, first, final)
      PROVE  offer.applied = FALSE /\ offer.seq \in Sequencers
                /\ offer.seq.last = None /\ offer.seq.resync = TRUE
  <2>1. ASSUME s.last = None
        PROVE  offer = Answer([s EXCEPT !.resync = TRUE], FALSE)
    BY <2>1, Zenon DEF Accept
  <2>2. [s EXCEPT !.resync = TRUE] \in Sequencers
    BY DEF Sequencers
  <2>3. [s EXCEPT !.resync = TRUE].last = s.last /\ [s EXCEPT !.resync = TRUE].resync = TRUE
    BY DEF Sequencers
  <2>4. ASSUME s.last # None
        PROVE  offer = Answer([last |-> None, resync |-> TRUE], FALSE)
    <3>1. first > s.last + 1 /\ ~(final <= s.last)
      BY <1>0, <1>3, <2>4 DEF Asks
    <3>2. QED
      BY <2>4, <3>1, Zenon DEF Accept
  <2>5. CASE s.last = None
    <3>1. offer.applied = FALSE /\ offer.seq = [s EXCEPT !.resync = TRUE]
      BY <2>1, <2>5 DEF Answer
    <3>2. QED
      BY <2>2, <2>3, <2>5, <3>1, Zenon
  <2>6. CASE s.last # None
    <3> DEFINE asking == [last |-> None, resync |-> TRUE]
    <3>1. asking \in Sequencers /\ asking.last = None /\ asking.resync = TRUE
      BY DEF Sequencers
    <3>2. offer = Answer(asking, FALSE)
      BY <2>4, <2>6
    <3> HIDE DEF asking
    <3>3. offer.applied = FALSE /\ offer.seq = asking
      BY <3>2 DEF Answer
    <3>4. QED
      BY <3>1, <3>3
  <2>7. QED
    BY <2>5, <2>6
<1>4. Takes(s, first, final) \/ Leaves(s, first, final) \/ Asks(s, first, final)
  BY <1>0 DEF Takes, Leaves, Asks
<1> HIDE DEF offer
<1>5. ThreeWays(s, first, final, offer)
  BY <1>1, <1>2, <1>3, <1>4 DEF ThreeWays
<1>6. QED
  BY <1>5 DEF offer

\* What the engine makes of one event.
LEMMA Absorbs ==
  ASSUME NEW b
  PROVE  /\ Absorb(b, TradeEvent) = b
         /\ \A id : Absorb(b, SnapshotEvent(id)) = SnapshotIn(log, id)
         /\ \A m : Absorb(b, DeltaEvent(m)) = ApplyDelta(b, m.first, m.final)
<1>1. Absorb(b, TradeEvent) = b
  BY DEF Absorb, TradeEvent
<1>2. ASSUME NEW id PROVE Absorb(b, SnapshotEvent(id)) = SnapshotIn(log, id)
  <2>1. SnapshotEvent(id).kind = "snapshot" /\ SnapshotEvent(id).id = id
    BY DEF SnapshotEvent
  <2>2. Absorb(b, SnapshotEvent(id)) = Snapshot(id)
    BY <2>1 DEF Absorb
  <2>3. QED
    BY <2>2, BookIs
<1>3. ASSUME NEW m PROVE Absorb(b, DeltaEvent(m)) = ApplyDelta(b, m.first, m.final)
  <2>1. DeltaEvent(m).kind = "delta" /\ DeltaEvent(m).first = m.first /\ DeltaEvent(m).final = m.final
    BY DEF DeltaEvent
  <2>2. QED
    BY <2>1 DEF Absorb
<1>4. QED
  BY <1>1, <1>2, <1>3

\* The copy after a message: nothing handed on, one event, or a snapshot and a change.
LEMMA EngineAfterMessage ==
  ASSUME NEW m, NEW id
  PROVE  /\ EngineAfter(<<>>, Len(<<>>)) = engine
         /\ EngineAfter(<<TradeEvent>>, Len(<<TradeEvent>>)) = engine
         /\ EngineAfter(<<DeltaEvent(m)>>, Len(<<DeltaEvent(m)>>)) = ApplyDelta(engine, m.first, m.final)
         /\ EngineAfter(<<SnapshotEvent(id)>>, Len(<<SnapshotEvent(id)>>)) = SnapshotIn(log, id)
         /\ EngineAfter(<<SnapshotEvent(id), DeltaEvent(m)>>, Len(<<SnapshotEvent(id), DeltaEvent(m)>>)) =
              ApplyDelta(SnapshotIn(log, id), m.first, m.final)
<1>1. EngineAfter(<<>>, Len(<<>>)) = engine
  BY EngineTakes
<1>2. \A e : EngineAfter(<<e>>, Len(<<e>>)) = Absorb(engine, e)
  <2>1. ASSUME NEW e PROVE EngineAfter(<<e>>, Len(<<e>>)) = Absorb(engine, e)
    <3>1. EngineAfter(<<e>>, 1) = Absorb(engine, <<e>>[1])
      BY EngineTakes
    <3>2. Len(<<e>>) = 1 /\ <<e>>[1] = e
      OBVIOUS
    <3>3. QED
      BY <3>1, <3>2
  <2>2. QED
    BY <2>1
<1>3. \A e, f : EngineAfter(<<e, f>>, Len(<<e, f>>)) = Absorb(Absorb(engine, e), f)
  <2>1. ASSUME NEW e, NEW f PROVE EngineAfter(<<e, f>>, Len(<<e, f>>)) = Absorb(Absorb(engine, e), f)
    <3>1. EngineAfter(<<e, f>>, 2) = Absorb(Absorb(engine, <<e, f>>[1]), <<e, f>>[2])
      BY EngineTakes
    <3>2. Len(<<e, f>>) = 2 /\ <<e, f>>[1] = e /\ <<e, f>>[2] = f
      OBVIOUS
    <3>3. QED
      BY <3>1, <3>2
  <2>2. QED
    BY <2>1
<1>4. EngineAfter(<<TradeEvent>>, Len(<<TradeEvent>>)) = engine
  BY <1>2, Absorbs, Zenon
<1>5. EngineAfter(<<DeltaEvent(m)>>, Len(<<DeltaEvent(m)>>)) = ApplyDelta(engine, m.first, m.final)
  BY <1>2, Absorbs, Zenon
<1>6. EngineAfter(<<SnapshotEvent(id)>>, Len(<<SnapshotEvent(id)>>)) = SnapshotIn(log, id)
  BY <1>2, Absorbs, Zenon
<1>7. EngineAfter(<<SnapshotEvent(id), DeltaEvent(m)>>, Len(<<SnapshotEvent(id), DeltaEvent(m)>>)) =
        ApplyDelta(SnapshotIn(log, id), m.first, m.final)
  <2>1. EngineAfter(<<SnapshotEvent(id), DeltaEvent(m)>>, Len(<<SnapshotEvent(id), DeltaEvent(m)>>)) =
          Absorb(Absorb(engine, SnapshotEvent(id)), DeltaEvent(m))
    BY <1>3, Zenon
  <2>2. Absorb(engine, SnapshotEvent(id)) = SnapshotIn(log, id)
    BY Absorbs, Zenon
  <2>3. Absorb(SnapshotIn(log, id), DeltaEvent(m)) = ApplyDelta(SnapshotIn(log, id), m.first, m.final)
    BY Absorbs, Zenon
  <2>4. QED
    BY <2>1, <2>2, <2>3, Zenon
<1>8. QED
  BY <1>1, <1>4, <1>5, <1>6, <1>7

\* A message leaves the books right: the message a trade, a change that is taken or
\* left, or one that asks for a snapshot and is offered again after it.
Settled(q, f, e, r) ==
  /\ q \in Sequencers /\ q.last <= Len(log) /\ (q.resync => q.last = None)
  /\ f \in [book: [Level -> Nat], synced: BOOLEAN]
  /\ r \in Requests
  /\ q.last # None => /\ f.synced /\ e = f.book /\ r.id \in 0..q.last
                      /\ Reflects(log, f.book, r.id, q.last)
  /\ ~f.synced => f.book = NoBook
  /\ (r # NoResync /\ r.id >= r.first - 1) => q.last >= r.final

\* The invariant is that of the sequencer, the feed and the engine, and of the queue.
LEMMA InvSettled ==
  /\ MarketInv => Settled(seq, feed, engine, resync)
  /\ MarketInv /\ UNCHANGED log /\ (Settled(seq, feed, engine, resync))' /\ queue' \in Seq(Messages)
       /\ (\A i \in 1..Len(queue') : Covers(queue'[i])) /\ sent' \in 0..Len(log) => MarketInv'
<1>1. MarketInv => Settled(seq, feed, engine, resync)
  BY BookIs DEF MarketInv, MarketTypeOK, InSequence, Mirrors, EngineAgrees, CatchesUp, Settled
<1>2. ASSUME MarketInv, UNCHANGED log, (Settled(seq, feed, engine, resync))', queue' \in Seq(Messages),
             \A i \in 1..Len(queue') : Covers(queue'[i]), sent' \in 0..Len(log)
      PROVE  MarketInv'
  <2>1. MarketTypeOK'
    BY <1>2 DEF MarketInv, MarketTypeOK, Settled, Covers
  <2>2. BookIsVenues'
    BY <1>2, BookIs DEF Settled, Mirrors
  <2>3. (InSequence /\ EngineAgrees /\ CatchesUp)'
    BY <1>2 DEF InSequence, EngineAgrees, CatchesUp, Settled
  <2>4. QED
    BY <2>1, <2>2, <2>3 DEF MarketInv
<1>3. QED
  BY <1>1, <1>2

\* A message taken from the queue keeps it so: passed over, applied, or answered with a
\* snapshot and offered once more.
LEMMA MessageSettles ==
  ASSUME MarketInv, NEW m \in Messages, Covers(m), NEW id \in 0..Len(log),
         UNCHANGED log, Handle(m, id)
  PROVE  (Settled(seq, feed, engine, resync))'
<1> DEFINE done == Decoded(m, id)
           offer == Accept(seq, m.first, m.final)
           again == OfferAgain(m, id)
<1>1. Settled(seq, feed, engine, resync) /\ Len(log) \in Nat
  BY InvSettled DEF MarketInv, MarketTypeOK
<1>2. /\ seq' = done.seq /\ feed' = done.feed
      /\ engine' = EngineAfter(done.events, Len(done.events))
      /\ resync' = IF AsksFor(m) THEN [first |-> m.first, final |-> m.final, id |-> id] ELSE resync
  BY DEF Handle
<1>3. CASE m.kind = "trade"
  <2>1. done = Handled(seq, feed, <<TradeEvent>>)
    BY <1>3 DEF Decoded
  <2>2. done.seq = seq /\ done.feed = feed /\ done.events = <<TradeEvent>>
    BY <2>1 DEF Handled
  <2>3. engine' = engine
    BY <1>2, <2>2, EngineAfterMessage
  <2>4. resync' = resync
    BY <1>2, <1>3 DEF AsksFor
  <2>5. QED
    BY <1>1, <1>2, <2>2, <2>3, <2>4 DEF Settled
<1>4. CASE m.kind = "depth"
  <2>0. m.first \in 1..m.final /\ m.final \in 1..Len(log) /\ m.first \in Nat /\ m.final \in Nat
         /\ m.first <= m.final
    BY <1>1, <1>4 DEF Covers, Messages
  <2>1. done = OnDepth(m, id)
    BY <1>4 DEF Decoded
  <2>2. seq \in Sequencers /\ (seq.resync => seq.last = None)
    BY <1>1 DEF Settled
  <2>a. ThreeWays(seq, m.first, m.final, offer)
    BY <2>0, <2>2, ThreeAnswers
  <2>3. CASE Takes(seq, m.first, m.final)
    <3>1. offer.applied = TRUE /\ offer.seq \in Sequencers /\ offer.seq.last = m.final
            /\ offer.seq.resync = FALSE
      BY <2>a, <2>3 DEF ThreeWays
    <3>2. done = Handled(offer.seq, Updated(feed, m), <<DeltaEvent(m)>>)
      BY <2>1, <3>1, Zenon DEF OnDepth
    <3>3. done.seq = offer.seq /\ done.feed = Updated(feed, m) /\ done.events = <<DeltaEvent(m)>>
      BY <3>2 DEF Handled
    <3>4. /\ seq.last \in Nat /\ feed.synced = TRUE /\ engine = feed.book
          /\ feed \in [book: [Level -> Nat], synced: BOOLEAN]
          /\ resync.id \in 0..seq.last /\ Reflects(log, feed.book, resync.id, seq.last)
      BY <1>1, <2>2, <2>3 DEF Takes, Settled, Sequencers
    <3>5. PICK b : b = ApplyDelta(feed.book, m.first, m.final)
      OBVIOUS
    <3>6. b \in [Level -> Nat] /\ Reflects(log, b, resync.id, m.final) /\ resync.id \in 0..m.final
      <4>1. PICK last \in Nat : last = seq.last
        BY <3>4
      <4>2. PICK r \in 0..last : r = resync.id
        BY <3>4, <4>1
      <4>3. PICK levels \in [Level -> Nat] : levels = feed.book
        BY <3>4
      <4>4. m.first <= last + 1 /\ last < m.final /\ r \in Nat /\ r \in 0..m.final
        BY <2>0, <2>3, <4>1, <4>2 DEF Takes
      <4>5. Reflects(log, levels, r, last)
        BY <3>4, <4>1, <4>2, <4>3
      <4>6. /\ ApplyDelta(levels, m.first, m.final) \in [Level -> Nat]
            /\ Reflects(log, ApplyDelta(levels, m.first, m.final), r, m.final)
        BY <2>0, <4>4, <4>5, LevelApplied
      <4>7. QED
        BY <3>5, <4>2, <4>3, <4>4, <4>6
    <3>7. engine' = b
      BY <1>2, <3>3, <3>4, <3>5, EngineAfterMessage
    <3>8. feed'.book = b /\ feed'.synced = TRUE /\ feed' \in [book: [Level -> Nat], synced: BOOLEAN]
      <4>1. feed' = [feed EXCEPT !.book = b]
        BY <1>2, <3>3, <3>5 DEF Updated
      <4>2. QED
        BY <3>4, <3>6, <4>1
    <3>9. resync' = resync /\ resync \in Requests
      BY <1>1, <1>2, <3>1, Zenon DEF AsksFor, Settled
    <3>10. seq' \in Sequencers /\ seq'.last = m.final /\ seq'.resync = FALSE
      BY <1>2, <3>1, <3>3
    <3>11. (resync' # NoResync /\ resync'.id >= resync'.first - 1) => seq'.last >= resync'.final
      <4>1. (resync # NoResync /\ resync.id >= resync.first - 1) => seq.last >= resync.final
        BY <1>1 DEF Settled
      <4>2. seq.last < m.final
        BY <2>3 DEF Takes
      <4>3. QED
        BY <2>0, <3>4, <3>9, <3>10, <4>1, <4>2 DEF Requests
    <3>12. QED
      BY <2>0, <3>6, <3>7, <3>8, <3>9, <3>10, <3>11 DEF Settled
  <2>4. CASE Leaves(seq, m.first, m.final)
    <3>1. offer.applied = FALSE /\ offer.seq = seq /\ seq.resync = FALSE
      BY <2>a, <2>4 DEF ThreeWays
    <3>2. done = Handled(offer.seq, feed, <<>>)
      BY <2>1, <3>1, Zenon DEF OnDepth
    <3>3. done.seq = seq /\ done.feed = feed /\ done.events = <<>>
      BY <3>1, <3>2 DEF Handled
    <3>4. engine' = engine
      BY <1>2, <3>3, EngineAfterMessage
    <3>5. resync' = resync
      BY <1>2, <3>1, Zenon DEF AsksFor
    <3>6. QED
      BY <1>1, <1>2, <3>3, <3>4, <3>5 DEF Settled
  <2>5. CASE Asks(seq, m.first, m.final)
    <3>1. offer.applied = FALSE /\ offer.seq.resync = TRUE
      BY <2>a, <2>5 DEF ThreeWays
    <3>2. AsksFor(m)
      BY <1>4, <3>1, Zenon DEF AsksFor
    <3>3. resync' = [first |-> m.first, final |-> m.final, id |-> id]
      BY <1>2, <3>2, Zenon
    <3>4. /\ Reset(id) \in Sequencers /\ Reset(id).last = id /\ Reset(id).resync = FALSE
          /\ again = Accept(Reset(id), m.first, m.final) /\ id # None /\ id \in Nat
      BY <1>1 DEF Reset, Sequencers, OfferAgain, None
    <3>a. ThreeWays(Reset(id), m.first, m.final, again)
      BY <2>0, <3>4, ThreeAnswers
    <3>5. PICK top \in [Level -> Nat] : top = SnapshotIn(log, id) /\ Reflects(log, top, id, id)
      BY <3>4, SnapshotType
    <3>b. Resynced(feed, id) = [book |-> top, synced |-> TRUE]
      BY <3>5, BookIs DEF Resynced
    <3>c. resync' \in Requests /\ resync'.id = id
      BY <2>0, <3>3, <3>4 DEF Requests
    <3>6. CASE Takes(Reset(id), m.first, m.final)
      <4>1. again.applied = TRUE /\ again.seq \in Sequencers /\ again.seq.last = m.final
              /\ again.seq.resync = FALSE
        BY <3>a, <3>6 DEF ThreeWays
      <4>2. done = Handled(again.seq, Updated(Resynced(feed, id), m), <<SnapshotEvent(id), DeltaEvent(m)>>)
        BY <2>1, <3>1, <4>1, Zenon DEF OnDepth
      <4>3. /\ done.seq = again.seq /\ done.feed = Updated(Resynced(feed, id), m)
            /\ done.events = <<SnapshotEvent(id), DeltaEvent(m)>>
        BY <4>2 DEF Handled
      <4>4. PICK b : b = ApplyDelta(top, m.first, m.final)
        OBVIOUS
      <4>5. b \in [Level -> Nat] /\ Reflects(log, b, id, m.final) /\ id \in 0..m.final
        <5>1. m.first <= id + 1 /\ id < m.final
          BY <3>4, <3>6 DEF Takes
        <5>2. /\ ApplyDelta(top, m.first, m.final) \in [Level -> Nat]
              /\ Reflects(log, ApplyDelta(top, m.first, m.final), id, m.final)
          BY <2>0, <3>4, <3>5, <5>1, LevelApplied
        <5>3. QED
          BY <2>0, <3>4, <4>4, <5>1, <5>2
      <4>6. engine' = b
        BY <1>2, <3>5, <4>3, <4>4, EngineAfterMessage
      <4>7. feed' = [book |-> b, synced |-> TRUE]
        <5>1. PICK f \in [book: [Level -> Nat], synced: BOOLEAN] :
                f = Resynced(feed, id) /\ f.book = top /\ f.synced = TRUE
          <6>1. [book |-> top, synced |-> TRUE] \in [book: [Level -> Nat], synced: BOOLEAN]
            BY <3>5
          <6>2. QED
            BY <6>1, <3>b
        <5>2. feed' = [f EXCEPT !.book = b]
          BY <1>2, <4>3, <4>4, <5>1, Zenon DEF Updated
        <5>3. QED
          BY <4>5, <5>1, <5>2
      <4>8. seq' \in Sequencers /\ seq'.last = m.final /\ seq'.resync = FALSE
        BY <1>2, <4>1, <4>3
      <4>9. (resync' # NoResync /\ resync'.id >= resync'.first - 1) => seq'.last >= resync'.final
        BY <2>0, <3>3, <4>8
      <4>10. QED
        BY <2>0, <3>c, <4>5, <4>6, <4>7, <4>8, <4>9 DEF Settled
    <3>7. ASSUME ~Takes(Reset(id), m.first, m.final), NEW q,
                 again.applied = FALSE, again.seq = q
          PROVE  seq' = q /\ feed' = Resynced(feed, id) /\ engine' = top
      <4>1. done = Handled(q, Resynced(feed, id), <<SnapshotEvent(id)>>)
        BY <2>1, <3>1, <3>7, Zenon DEF OnDepth
      <4>2. /\ done.seq = q /\ done.feed = Resynced(feed, id)
            /\ done.events = <<SnapshotEvent(id)>>
        BY <4>1 DEF Handled
      <4>3. QED
        BY <1>2, <3>5, <4>2, EngineAfterMessage
    <3>8. CASE Leaves(Reset(id), m.first, m.final)
      <4>1. again.applied = FALSE /\ again.seq = Reset(id)
        BY <3>a, <3>8 DEF ThreeWays
      <4>2. seq' = Reset(id) /\ feed' = Resynced(feed, id) /\ engine' = top
        <5>1. ~Takes(Reset(id), m.first, m.final)
          BY <2>0, <3>4, <3>8 DEF Takes, Leaves
        <5>2. QED
          BY <3>7, <4>1, <5>1
      <4>3. id >= m.final
        BY <3>4, <3>8 DEF Leaves
      <4>4. (resync' # NoResync /\ resync'.id >= resync'.first - 1) => seq'.last >= resync'.final
        BY <2>0, <3>3, <3>4, <4>2, <4>3
      <4>5. QED
        BY <1>1, <3>4, <3>5, <3>b, <3>c, <4>2, <4>4 DEF Settled
    <3>9. CASE Asks(Reset(id), m.first, m.final)
      <4>1. again.applied = FALSE /\ again.seq \in Sequencers /\ again.seq.last = None
              /\ again.seq.resync = TRUE
        BY <3>a, <3>9 DEF ThreeWays
      <4>2. seq' = again.seq /\ feed' = Resynced(feed, id) /\ engine' = top
        <5>1. ~Takes(Reset(id), m.first, m.final)
          BY <2>0, <3>4, <3>9 DEF Takes, Asks
        <5>2. QED
          BY <3>7, <4>1, <5>1
      <4>3. m.first > id + 1
        BY <3>4, <3>9 DEF Asks
      <4>4. ~(resync'.id >= resync'.first - 1)
        BY <2>0, <3>3, <3>4, <4>3
      <4>5. QED
        BY <1>1, <3>5, <3>b, <3>c, <4>1, <4>2, <4>4 DEF Settled, None
    <3>10. Takes(Reset(id), m.first, m.final) \/ Leaves(Reset(id), m.first, m.final)
             \/ Asks(Reset(id), m.first, m.final)
      BY <3>a DEF ThreeWays
    <3>11. QED
      BY <3>6, <3>8, <3>9, <3>10
  <2>6. QED
    BY <2>a, <2>3, <2>4, <2>5 DEF ThreeWays
<1>5. QED
  BY <1>3, <1>4 DEF Messages
-----------------------------------------------------------------------------
(* The steps.                                                              *)

\* A queue loses its head, or gains a message of the venue.
LEMMA Queues ==
  ASSUME MarketInv
  PROVE  /\ queue # <<>> => /\ Head(queue) \in Messages /\ Covers(Head(queue))
                            /\ Tail(queue) \in Seq(Messages)
                            /\ \A i \in 1..Len(Tail(queue)) : Covers(Tail(queue)[i])
         /\ \A m \in Messages : Covers(m) =>
              /\ Append(queue, m) \in Seq(Messages)
              /\ \A i \in 1..Len(Append(queue, m)) : Covers(Append(queue, m)[i])
         /\ <<>> \in Seq(Messages) /\ \A i \in 1..Len(<<>>) : Covers(<<>>[i])
<1>1. queue \in Seq(Messages) /\ \A i \in 1..Len(queue) : Covers(queue[i])
  BY DEF MarketInv, MarketTypeOK
<1> HIDE DEF Messages
<1>2. ASSUME queue # <<>>
      PROVE  /\ Head(queue) \in Messages /\ Covers(Head(queue))
             /\ Tail(queue) \in Seq(Messages)
             /\ \A i \in 1..Len(Tail(queue)) : Covers(Tail(queue)[i])
  BY <1>1, <1>2
<1>3. ASSUME NEW m \in Messages, Covers(m)
      PROVE  /\ Append(queue, m) \in Seq(Messages)
             /\ \A i \in 1..Len(Append(queue, m)) : Covers(Append(queue, m)[i])
  BY <1>1, <1>3
<1>4. <<>> \in Seq(Messages) /\ \A i \in 1..Len(<<>>) : Covers(<<>>[i])
  OBVIOUS
<1>5. QED
  BY <1>2, <1>3, <1>4

\* It holds at the start.
LEMMA MarketStarts == MarketInit => MarketInv
<1> SUFFICES ASSUME MarketInit PROVE MarketInv
  OBVIOUS
<1>1. NoBook \in [Level -> Nat]
  BY DEF NoBook
<1>2. MarketTypeOK
  BY <1>1 DEF MarketInit, MarketTypeOK, NewSequencer, Forgotten, Sequencers, None, Requests, NoResync
<1>3. InSequence /\ BookIsVenues /\ EngineAgrees /\ CatchesUp
  BY DEF MarketInit, NewSequencer, Forgotten, None, NoResync, InSequence, BookIsVenues,
         EngineAgrees, CatchesUp
<1>4. QED
  BY <1>2, <1>3 DEF MarketInv

\* A change at the venue, a message sent, lost or taken, and a new connection keep it so.
LEMMA MarketStep == MarketInv /\ [MarketNext]_marketVars => MarketInv'
<1> SUFFICES ASSUME MarketInv, [MarketNext]_marketVars PROVE MarketInv'
  OBVIOUS
<1>0. Settled(seq, feed, engine, resync) /\ MarketTypeOK /\ Len(log) \in Nat
  BY InvSettled DEF MarketInv, MarketTypeOK
<1>1. ASSUME NEW l \in Level, NEW gone \in BOOLEAN, Publishes(l, gone) PROVE MarketInv'
  <2> DEFINE E == [level: Level, gone: BOOLEAN]
             u == [level |-> l, gone |-> gone]
  <2>1. log \in Seq(E) /\ u \in E /\ log' = Append(log, u)
    BY <1>0, <1>1 DEF Publishes, MarketTypeOK
  <2>2. log' \in Seq(E) /\ Len(log') = Len(log) + 1
    BY <2>1
  <2>3. UNCHANGED <<queue, sent, phase, dials, seq, feed, engine, resync>>
    BY <1>1 DEF Publishes
  <2>4. MarketTypeOK'
    <3>1. log' \in Seq([level: Level, gone: BOOLEAN])
      BY <2>2
    <3>2. sent' \in 0..Len(log') /\ seq' \in Sequencers
            /\ feed' \in [book: [Level -> Nat], synced: BOOLEAN]
      BY <1>0, <2>2, <2>3 DEF MarketTypeOK
    <3>3. seq'.last <= Len(log')
      BY <1>0, <2>2, <2>3 DEF MarketTypeOK, Sequencers, None
    <3>4. queue' \in Seq(Messages)
      BY <1>0, <2>3 DEF MarketTypeOK
    <3>5. (\A i \in 1..Len(queue) : Covers(queue[i]))'
      <4>1. ASSUME NEW i \in 1..Len(queue)
            PROVE  queue[i].kind = "depth" =>
                     queue[i].first \in 1..queue[i].final /\ queue[i].final <= Len(log')
        <5>1. Covers(queue[i]) /\ queue[i] \in Messages
          BY <1>0, <4>1 DEF MarketTypeOK
        <5>2. QED
          BY <1>0, <2>2, <5>1 DEF Covers, Messages
      <4>2. QED
        BY <2>3, <4>1 DEF Covers
    <3>6. resync' \in Requests
      BY <1>0, <2>3 DEF MarketTypeOK
    <3>7. QED
      BY <3>1, <3>2, <3>3, <3>4, <3>5, <3>6 DEF MarketTypeOK
  <2>5. seq.last # None => Reflects(log', feed.book, resync.id, seq.last)
    <3>1. SUFFICES ASSUME seq.last # None PROVE Reflects(log', feed.book, resync.id, seq.last)
      OBVIOUS
    <3>2. /\ seq.last \in 0..Len(log) /\ resync.id \in 0..seq.last
          /\ Reflects(log, feed.book, resync.id, seq.last)
      BY <1>0, <3>1 DEF Settled, Sequencers
    <3>3. PICK n \in 0..Len(log) : n = seq.last
      BY <3>2
    <3>4. PICK id \in 0..Len(log) : id = resync.id
      BY <1>0, <3>2, <3>3
    <3>5. PICK levels : levels = feed.book
      OBVIOUS
    <3>6. PICK lg \in Seq(E) : lg = log
      BY <2>1
    <3>7. Reflects(Append(lg, u), levels, id, n)
      <4>1. n \in 0..Len(lg) /\ id \in 0..Len(lg) /\ Reflects(lg, levels, id, n)
        BY <3>2, <3>3, <3>4, <3>5, <3>6
      <4> HIDE DEF E, u
      <4>2. QED
        BY <4>1, PastReflected
    <3>8. QED
      BY <2>1, <3>3, <3>4, <3>5, <3>6, <3>7
  <2>6. BookIsVenues'
    BY <1>0, <2>3, <2>5, BookIs DEF Settled, Mirrors
  <2>7. (InSequence /\ EngineAgrees /\ CatchesUp)'
    BY <2>3 DEF MarketInv, InSequence, EngineAgrees, CatchesUp
  <2>8. QED
    BY <2>4, <2>6, <2>7 DEF MarketInv
<1>2. ASSUME UNCHANGED <<log, seq, feed, engine, resync>>, queue' \in Seq(Messages),
             \A i \in 1..Len(queue') : Covers(queue'[i]), sent' \in 0..Len(log)
      PROVE  MarketInv'
  <2>1. (Settled(seq, feed, engine, resync))'
    BY <1>0, <1>2 DEF Settled
  <2>2. QED
    BY <1>2, <2>1, InvSettled
<1>3. CASE Sends
  <2>1. PICK first \in sent + 1 .. Len(log) :
          queue' = Append(queue, [kind |-> "depth", first |-> first, final |-> Len(log)])
    BY <1>3 DEF Sends
  <2> DEFINE m == [kind |-> "depth", first |-> first, final |-> Len(log)]
  <2>2. m \in Messages /\ Covers(m) /\ Len(log) \in 0..Len(log)
    BY <1>0, <2>1 DEF Messages, Covers, MarketTypeOK
  <2>3. UNCHANGED <<log, seq, feed, engine, resync>> /\ sent' = Len(log)
    BY <1>3 DEF Sends
  <2> HIDE DEF m
  <2>4. queue' \in Seq(Messages) /\ \A i \in 1..Len(queue') : Covers(queue'[i])
    BY <2>1, <2>2, Queues DEF m
  <2>5. QED
    BY <1>2, <2>2, <2>3, <2>4
<1>4. CASE SendsTrade
  <2> DEFINE m == [kind |-> "trade"]
  <2>1. m \in Messages /\ Covers(m)
    BY DEF Messages, Covers
  <2>2. UNCHANGED <<log, sent, seq, feed, engine, resync>> /\ queue' = Append(queue, m)
    BY <1>4 DEF SendsTrade
  <2> HIDE DEF m
  <2>3. queue' \in Seq(Messages) /\ \A i \in 1..Len(queue') : Covers(queue'[i])
    BY <2>1, <2>2, Queues
  <2>4. QED
    BY <1>0, <1>2, <2>2, <2>3 DEF MarketTypeOK
<1>5. CASE Receive
  <2>1. /\ queue # <<>> /\ queue' = Tail(queue) /\ UNCHANGED log /\ sent' = sent
        /\ \E id \in 0..Len(log) : Handle(Head(queue), id)
    BY <1>5 DEF Receive
  <2>2. PICK m \in Messages : m = Head(queue) /\ Covers(m)
    BY <2>1, Queues
  <2>3. PICK id \in 0..Len(log) : Handle(m, id)
    BY <2>1, <2>2
  <2>4. (Settled(seq, feed, engine, resync))'
    BY <2>1, <2>2, <2>3, MessageSettles
  <2>5. queue' \in Seq(Messages) /\ \A i \in 1..Len(queue') : Covers(queue'[i])
    BY <2>1, Queues
  <2>6. sent' \in 0..Len(log)
    BY <1>0, <2>1 DEF MarketTypeOK
  <2>7. QED
    BY <2>1, <2>4, <2>5, <2>6, InvSettled
<1>6. CASE SnapshotRaises
  <2>1. PICK m \in Messages : m = Head(queue) /\ Covers(m)
    BY <1>6, Queues DEF SnapshotRaises
  <2>2. /\ AsksFor(m) /\ seq' = Accept(seq, m.first, m.final).seq
        /\ feed' = [feed EXCEPT !.book = NoBook] /\ queue' = <<>> /\ resync' = NoResync
        /\ UNCHANGED <<log, sent, engine>>
    BY <1>6, <2>1 DEF SnapshotRaises
  <2>3. m.first \in Nat /\ m.final \in Nat /\ m.first <= m.final
    BY <1>0, <2>1, <2>2 DEF AsksFor, Covers, Messages
  <2>4. seq \in Sequencers /\ (seq.resync => seq.last = None)
    BY <1>0 DEF Settled
  <2>5. ThreeWays(seq, m.first, m.final, Accept(seq, m.first, m.final))
    BY <2>3, <2>4, ThreeAnswers
  <2>6. Accept(seq, m.first, m.final).applied = FALSE /\ Accept(seq, m.first, m.final).seq.resync = TRUE
    BY <2>2, <2>5 DEF AsksFor, ThreeWays
  <2>7. Asks(seq, m.first, m.final)
    BY <2>5, <2>6 DEF ThreeWays
  <2>8. seq' \in Sequencers /\ seq'.last = None /\ seq'.resync = TRUE
    BY <2>2, <2>5, <2>7 DEF ThreeWays
  <2>9. feed' \in [book: [Level -> Nat], synced: BOOLEAN] /\ feed'.book = NoBook
    <3>1. NoBook \in [Level -> Nat] /\ feed \in [book: [Level -> Nat], synced: BOOLEAN]
      BY <1>0 DEF NoBook, Settled
    <3>2. QED
      BY <2>2, <3>1
  <2>10. (Settled(seq, feed, engine, resync))'
    BY <1>0, <2>2, <2>8, <2>9 DEF Settled, None, NoResync, Requests
  <2>11. queue' \in Seq(Messages) /\ \A i \in 1..Len(queue') : Covers(queue'[i])
    BY <2>2, Queues
  <2>12. QED
    BY <1>0, <2>2, <2>10, <2>11, InvSettled DEF MarketTypeOK
<1>7. CASE Connect
  <2>1. /\ feed' = Forgotten /\ seq' = NewSequencer /\ sent' = Len(log) /\ resync' = NoResync
        /\ UNCHANGED <<log, queue, engine>>
    BY <1>7 DEF Connect
  <2>2. NoBook \in [Level -> Nat]
    BY DEF NoBook
  <2>3. (Settled(seq, feed, engine, resync))'
    BY <1>0, <2>1, <2>2 DEF Settled, Forgotten, NewSequencer, Sequencers, None, NoResync, Requests
  <2>4. QED
    BY <1>0, <2>1, <2>3, InvSettled DEF MarketTypeOK
<1>8. CASE ConnectFails \/ Backoff \/ Exhausted \/ UNCHANGED marketVars
  <2>1. UNCHANGED <<log, queue, sent, seq, feed, engine, resync>>
    BY <1>8 DEF ConnectFails, Backoff, Exhausted, marketVars
  <2>2. QED
    BY <1>0, <1>2, <2>1 DEF MarketTypeOK
<1>9. CASE Drop \/ Rotate \/ Stop
  <2>1. UNCHANGED <<log, sent, seq, feed, engine, resync>> /\ queue' = <<>>
    BY <1>9 DEF Drop, Rotate, Stop
  <2>2. QED
    BY <1>0, <1>2, <2>1, Queues DEF MarketTypeOK
<1>10. QED
  BY <1>1, <1>3, <1>4, <1>5, <1>6, <1>7, <1>8, <1>9 DEF MarketNext

\* The feed's book is what the latest snapshot and the updates since make of it.
THEOREM BookFollowsVenue == MarketSpec => []BookIsVenues
<1>1. MarketInv => BookIsVenues
  BY DEF MarketInv
<1>2. QED
  BY <1>1, MarketStarts, MarketStep, PTL DEF MarketSpec

\* The engine's copy of a book is the feed's whenever it follows it: MarketData.EngineAgrees,
\* feed.py and engine.py each keeping one.
THEOREM CopiesAgree == MarketSpec => []EngineAgrees
<1>1. MarketInv => EngineAgrees
  BY DEF MarketInv
<1>2. QED
  BY <1>1, MarketStarts, MarketStep, PTL DEF MarketSpec

\* A snapshot that was not too old closes the gap it was taken for: MarketData.CatchesUp.
THEOREM SnapshotCloses == MarketSpec => []CatchesUp
<1>1. MarketInv => CatchesUp
  BY DEF MarketInv
<1>2. QED
  BY <1>1, MarketStarts, MarketStep, PTL DEF MarketSpec

-----------------------------------------------------------------------------
(* The audit log (AuditLog).                                               *)

Lines == [seq: Nat, prev: Nat, id: Nat]

\* Whose record is in a sequence.
LEMMA IdsMember ==
  /\ \A s, x : x \in Ids(s) <=> \E i \in DOMAIN s : s[i].id = x
  /\ Ids(<<>>) = {} /\ \A r : Ids(<<r>>) = {r.id}
<1>1. \A s, x : x \in Ids(s) <=> \E i \in DOMAIN s : s[i].id = x
  BY DEF Ids
<1>2. Ids(<<>>) = {} /\ \A r : Ids(<<r>>) = {r.id}
  BY <1>1
<1>3. QED
  BY <1>1, <1>2

\* The records of a sequence that is put together, and of one that is cut in two.
LEMMA IdsJoined ==
  ASSUME NEW s \in Seq(Lines), NEW t \in Seq(Lines)
  PROVE  Ids(s \o t) = Ids(s) \cup Ids(t)
<1>1. s \o t \in Seq(Lines) /\ Len(s \o t) = Len(s) + Len(t) /\ Len(s) \in Nat /\ Len(t) \in Nat
  OBVIOUS
<1>2. \A i \in 1..Len(s) : (s \o t)[i] = s[i]
  OBVIOUS
<1>3. \A i \in 1..Len(t) : (s \o t)[Len(s) + i] = t[i] /\ Len(s) + i \in 1..Len(s \o t)
  OBVIOUS
<1>4. \A i \in 1..Len(s \o t) : i \in 1..Len(s) \/ (i - Len(s) \in 1..Len(t) /\ Len(s) + (i - Len(s)) = i)
  BY <1>1
<1> DEFINE u == s \o t
<1>5. DOMAIN s = 1..Len(s) /\ DOMAIN t = 1..Len(t) /\ DOMAIN u = 1..Len(u)
  BY <1>1
<1> HIDE DEF u
<1>6. ASSUME NEW i \in DOMAIN u PROVE u[i].id \in Ids(s) \cup Ids(t)
  <2>1. CASE i \in 1..Len(s)
    BY <1>2, <1>5, <2>1 DEF Ids, u
  <2>2. CASE i - Len(s) \in 1..Len(t) /\ Len(s) + (i - Len(s)) = i
    BY <1>3, <1>5, <2>2 DEF Ids, u
  <2>3. QED
    BY <1>4, <1>5, <1>6, <2>1, <2>2 DEF u
<1>7. ASSUME NEW i \in DOMAIN s PROVE i \in DOMAIN u /\ u[i] = s[i]
  BY <1>1, <1>2, <1>5, <1>7 DEF u
<1>8. ASSUME NEW i \in DOMAIN t PROVE Len(s) + i \in DOMAIN u /\ u[Len(s) + i] = t[i]
  BY <1>1, <1>3, <1>5, <1>8 DEF u
<1>9. \A x : x \in Ids(u) <=> x \in Ids(s) \cup Ids(t)
  <2>1. \A x \in Ids(u) : x \in Ids(s) \cup Ids(t)
    BY <1>6, IdsMember
  <2>2. (\A x \in Ids(s) : x \in Ids(u)) /\ \A x \in Ids(t) : x \in Ids(u)
    BY <1>7, <1>8, IdsMember
  <2>3. QED
    BY <2>1, <2>2
<1>10. QED
  BY <1>9 DEF u

\* A log cut in two has the ids of its two parts.
LEMMA IdsCut ==
  ASSUME NEW s \in Seq(Lines), NEW k \in 1..Len(s)
  PROVE  Ids(SubSeq(s, 1, k - 1)) \cup Ids(SubSeq(s, k, Len(s))) = Ids(s)
<1> DEFINE a == SubSeq(s, 1, k - 1)
           b == SubSeq(s, k, Len(s))
<1>1. Len(a) = k - 1 /\ Len(b) = Len(s) - k + 1 /\ a \in Seq(Lines) /\ b \in Seq(Lines) /\ Len(s) \in Nat
  OBVIOUS
<1>2. /\ \A i \in 1..k - 1 : a[i] = s[i]
      /\ \A i \in 1..Len(s) - k + 1 : b[i] = s[k + i - 1]
  OBVIOUS
<1>3. DOMAIN a = 1..k - 1 /\ DOMAIN b = 1..Len(s) - k + 1 /\ DOMAIN s = 1..Len(s)
  BY <1>1
<1> HIDE DEF a, b
<1>4. ASSUME NEW i \in DOMAIN s PROVE s[i].id \in Ids(a) \cup Ids(b)
  <2>1. CASE i < k
    <3>1. i \in DOMAIN a /\ a[i] = s[i]
      BY <1>1, <1>2, <1>3, <2>1
    <3>2. QED
      BY <3>1 DEF Ids
  <2>2. CASE i >= k
    <3>1. i - k + 1 \in DOMAIN b /\ k + (i - k + 1) - 1 = i
      BY <1>1, <1>3, <2>2
    <3>2. b[i - k + 1] = s[i]
      BY <1>2, <1>3, <3>1
    <3>3. QED
      BY <3>1, <3>2 DEF Ids
  <2>3. QED
    BY <1>3, <2>1, <2>2
<1>5. ASSUME NEW i \in DOMAIN a PROVE i \in DOMAIN s /\ a[i] = s[i]
  BY <1>1, <1>2, <1>3
<1>6. ASSUME NEW i \in DOMAIN b PROVE k + i - 1 \in DOMAIN s /\ b[i] = s[k + i - 1]
  BY <1>1, <1>2, <1>3
<1>7. \A x : x \in Ids(s) <=> x \in Ids(a) \cup Ids(b)
  <2>1. \A x \in Ids(s) : x \in Ids(a) \cup Ids(b)
    BY <1>4, IdsMember
  <2>2. (\A x \in Ids(a) : x \in Ids(s)) /\ \A x \in Ids(b) : x \in Ids(s)
    BY <1>5, <1>6, IdsMember
  <2>3. QED
    BY <2>1, <2>2
<1>8. QED
  BY <1>7 DEF a, b

\* What is written out of a record and the backlog before it, and what stays: nothing
\* is lost between the two, and the new line goes first.
Splits(b, line, written, out, buffer) ==
  /\ out \in Seq(Lines) /\ buffer \in Seq(Lines)
  /\ Ids(out) \cup Ids(buffer) = Ids(b) \cup {line.id}
  /\ written = 0 => out = <<>> /\ Len(buffer) = Len(b) + 1
  /\ written # 0 /\ b = <<>> => Len(out) = 1
  /\ buffer = <<>> <=> written = Len(b) + 1
  /\ written # 0 => out # <<>> /\ out[1] = line
  /\ \A P : (\A i \in DOMAIN b : b[i] \in P) /\ line \in P =>
       (\A i \in DOMAIN out : out[i] \in P) /\ (\A i \in DOMAIN buffer : buffer[i] \in P)

\* Recording a line splits the buffer and it in two, in their order: what is written and
\* what waits; and the desk halts when the buffer is full.
LEMMA EmitSplits ==
  ASSUME NEW c, NEW b \in Seq(Lines), c.buffer = b, NEW line \in Lines, NEW written \in 0..Len(b) + 1
  PROVE  /\ Splits(b, line, written, Emit(c, line, written).out, Emit(c, line, written).buffer)
         /\ Emit(c, line, written).halts <=> Len(Emit(c, line, written).buffer) >= BufferLimit
<1> DEFINE done == Emit(c, line, written)
<1>0. Len(b) \in Nat /\ BufferLimit \in Nat \ {0} /\ <<line>> \in Seq(Lines) /\ Ids(<<line>>) = {line.id}
        /\ Append(b, line) = b \o <<line>>
  BY AuditAssumption DEF Ids
<1>1. ASSUME NEW out, NEW buffer \in Seq(Lines), done = Emitted(out, buffer), Splits(b, line, written, out, buffer)
      PROVE  /\ Splits(b, line, written, done.out, done.buffer)
             /\ done.halts <=> Len(done.buffer) >= BufferLimit
  <2> HIDE DEF done
  <2>1. done.out = out /\ done.buffer = buffer
    BY <1>1, SMT DEF Emitted
  <2>2. done.halts = (buffer # <<>> /\ Len(buffer) >= BufferLimit)
    <3>1. Emitted(out, buffer).halts = (buffer # <<>> /\ Len(buffer) >= BufferLimit)
      BY Zenon DEF Emitted
    <3>2. QED
      BY <1>1, <3>1, Zenon
  <2>3. buffer # <<>> \/ ~(Len(buffer) >= BufferLimit)
    BY <1>0
  <2>4. QED
    BY <1>1, <2>1, <2>2, <2>3, Zenon
<1>2. CASE written = 0
  <2> DEFINE buffer == Append(b, line)
  <2>1. done = Emitted(<<>>, buffer)
    <3>1. written # Len(c.buffer) + 1
      BY <1>0, <1>2
    <3>2. QED
      BY <1>2, <3>1, Zenon DEF Emit, Buffered
  <2>2. buffer \in Seq(Lines) /\ Len(buffer) = Len(b) + 1 /\ buffer # <<>>
    BY <1>0
  <2>3. Ids(buffer) = Ids(b) \cup {line.id} /\ Ids(<<>>) = {}
    <3>1. Ids(b \o <<line>>) = Ids(b) \cup Ids(<<line>>)
      BY <1>0, IdsJoined
    <3>2. Ids(<<>>) = {}
      BY DEF Ids
    <3>3. QED
      BY <1>0, <3>1, <3>2
  <2>4. \A i \in DOMAIN buffer : buffer[i] = line \/ (i \in DOMAIN b /\ buffer[i] = b[i])
    BY <1>0
  <2> HIDE DEF buffer
  <2>5. Splits(b, line, written, <<>>, buffer)
    BY <1>0, <1>2, <2>2, <2>3, <2>4 DEF Splits
  <2>6. QED
    BY <1>1, <2>1, <2>2, <2>5
<1>3. CASE written = Len(b) + 1
  <2> DEFINE out == <<line>> \o b
  <2>1. done = Emitted(out, <<>>)
    <3>1. written # 0
      BY <1>0, <1>3
    <3>2. QED
      BY <1>3, <3>1, Zenon DEF Emit
  <2>2. out \in Seq(Lines) /\ Len(out) = Len(b) + 1 /\ out # <<>> /\ out[1] = line
    BY <1>0
  <2>3. Ids(out) = Ids(b) \cup {line.id} /\ Ids(<<>>) = {}
    <3>1. Ids(out) = Ids(<<line>>) \cup Ids(b)
      BY <1>0, IdsJoined
    <3>2. QED
      BY <1>0, <3>1, IdsMember
  <2>4. \A i \in DOMAIN out : out[i] = line \/ (i - 1 \in DOMAIN b /\ out[i] = b[i - 1])
    BY <1>0
  <2> HIDE DEF out
  <2>5. Splits(b, line, written, out, <<>>)
    <3>1. <<>> \in Seq(Lines) /\ Len(<<>>) = 0 /\ DOMAIN <<>> = {}
      OBVIOUS
    <3>a. written # 0 /\ (b = <<>> => Len(out) = 1)
      BY <1>0, <1>3, <2>2
    <3>2. \A P : (\A i \in DOMAIN b : b[i] \in P) /\ line \in P =>
            (\A i \in DOMAIN out : out[i] \in P) /\ (\A i \in DOMAIN <<>> : <<>>[i] \in P)
      BY <2>4, <3>1
    <3>3. QED
      BY <1>0, <1>3, <2>2, <2>3, <3>a, <3>1, <3>2 DEF Splits
  <2>6. QED
    <3>1. <<>> \in Seq(Lines)
      OBVIOUS
    <3>2. QED
      BY <1>1, <2>1, <2>5, <3>1
<1>4. CASE written \in 1..Len(b)
  <2> DEFINE first == SubSeq(b, 1, written - 1)
             rest == SubSeq(b, written, Len(b))
             out == <<line>> \o first
             buffer == Append(rest, line)
  <2>1. done = Emitted(out, buffer)
    <3>1. written # 0 /\ written # Len(b) + 1
      BY <1>0, <1>4
    <3>2. QED
      BY <3>1, Zenon DEF Emit, Buffered
  <2>2. /\ first \in Seq(Lines) /\ Len(first) = written - 1
        /\ rest \in Seq(Lines) /\ Len(rest) = Len(b) - written + 1
        /\ Ids(first) \cup Ids(rest) = Ids(b)
    BY <1>0, <1>4, IdsCut
  <2>3. /\ \A i \in DOMAIN first : i \in DOMAIN b /\ first[i] = b[i]
        /\ \A i \in DOMAIN rest : written + i - 1 \in DOMAIN b /\ rest[i] = b[written + i - 1]
    BY <1>0, <1>4
  <2> HIDE DEF first, rest
  <2>4. /\ out \in Seq(Lines) /\ Len(out) = written /\ out # <<>> /\ out[1] = line
        /\ buffer \in Seq(Lines) /\ Len(buffer) = Len(b) - written + 2 /\ buffer # <<>>
        /\ buffer = rest \o <<line>>
    <3>1. first \in Seq(Lines) /\ Len(first) = written - 1 /\ <<line>> \in Seq(Lines)
      BY <1>0, <2>2, Zenon
    <3>2. out \in Seq(Lines) /\ Len(out) = 1 + Len(first) /\ out[1] = line
      BY <3>1
    <3>3. Len(out) = written /\ out # <<>>
      BY <1>4, <3>1, <3>2
    <3>4. rest \in Seq(Lines) /\ Len(rest) = Len(b) - written + 1
      BY <2>2, Zenon
    <3>5. buffer \in Seq(Lines) /\ Len(buffer) = Len(rest) + 1 /\ buffer = rest \o <<line>>
      BY <3>4
    <3>6. Len(buffer) = Len(b) - written + 2 /\ buffer # <<>>
      BY <1>0, <1>4, <3>4, <3>5
    <3>7. QED
      BY <3>2, <3>3, <3>5, <3>6, Zenon
  <2>5. Ids(out) = Ids(first) \cup {line.id} /\ Ids(buffer) = Ids(rest) \cup {line.id}
    <3>1. Ids(out) = Ids(<<line>>) \cup Ids(first)
      BY <1>0, <2>2, IdsJoined
    <3>2. Ids(buffer) = Ids(rest) \cup Ids(<<line>>)
      BY <1>0, <2>2, <2>4, IdsJoined
    <3>3. QED
      BY <1>0, <3>1, <3>2
  <2>6. /\ \A i \in DOMAIN out : out[i] = line \/ (i - 1 \in DOMAIN first /\ out[i] = first[i - 1])
        /\ \A i \in DOMAIN buffer : buffer[i] = line \/ (i \in DOMAIN rest /\ buffer[i] = rest[i])
    BY <1>0, <2>2
  <2> HIDE DEF out, buffer
  <2>7. Ids(out) \cup Ids(buffer) = Ids(b) \cup {line.id}
    BY <2>2, <2>5
  <2>9. \A P : (\A i \in DOMAIN b : b[i] \in P) /\ line \in P =>
          (\A i \in DOMAIN out : out[i] \in P) /\ (\A i \in DOMAIN buffer : buffer[i] \in P)
    BY <2>3, <2>6
  <2>10. written # Len(b) + 1 /\ written # 0 /\ b # <<>>
    BY <1>0, <1>4
  <2>11. Splits(b, line, written, out, buffer)
    BY <2>4, <2>7, <2>9, <2>10 DEF Splits
  <2>12. QED
    BY <1>1, <2>1, <2>4, <2>11
<1>5. QED
  BY <1>0, <1>2, <1>3, <1>4

\* The lines of the first process on a file name themselves and the record before.
Own == {r \in Lines : r.seq = r.id /\ r.prev = r.id - 1}
OrderlyLines(lines) == \A i \in DOMAIN lines : lines[i].id = i

AuditTypeOK ==
  /\ file \in Seq(Lines)
  /\ chain \in [seq: Nat, last: Nat, buffer: Seq(Lines), halted: BOOLEAN]
  /\ path \in {"up", "down"}
  /\ audited \in [made: Nat, gone: SUBSET Nat]
  /\ life \in [number: Nat \ {0}, good: BOOLEAN]

\* In the first process the file is in order until a write fails with lines waiting.
FirstLife ==
  /\ chain.seq = audited.made /\ chain.last = audited.made /\ audited.gone = {}
  /\ \A i \in DOMAIN file : file[i] \in Own
  /\ \A i \in DOMAIN chain.buffer : chain.buffer[i] \in Own
  /\ OrderlyLines(file) => Len(file) + Len(chain.buffer) = audited.made
  /\ IF life.good THEN chain.buffer = <<>> /\ OrderlyLines(file)
                  ELSE chain.buffer # <<>> \/ ~OrderlyLines(file)

AuditInv ==
  /\ AuditTypeOK
  /\ Ids(file) \cup Ids(chain.buffer) \cup audited.gone = 1..audited.made
  /\ chain.halted <=> Len(chain.buffer) >= BufferLimit
  /\ life.number = 1 => FirstLife

\* A file of such lines verifies if it is in order, and not otherwise.
LEMMA VerifiesInOrder ==
  ASSUME NEW s \in Seq(Lines), \A i \in DOMAIN s : s[i] \in Own
  PROVE  Verifies(s) <=> OrderlyLines(s)
<1>1. \A i \in DOMAIN s : i \in Nat \ {0} /\ (i # 1 => i - 1 \in DOMAIN s)
  OBVIOUS
<1>2. \A i \in DOMAIN s : s[i].seq = s[i].id /\ s[i].prev = s[i].id - 1
  BY DEF Own
<1>3. ASSUME Verifies(s) PROVE OrderlyLines(s)
  BY <1>2, <1>3 DEF Verifies, OrderlyLines
<1>4. ASSUME OrderlyLines(s), NEW i \in DOMAIN s
      PROVE  s[i].seq = i /\ s[i].prev = IF i = 1 THEN Genesis ELSE s[i - 1].id
  <2>1. s[i].id = i /\ s[i].seq = i /\ s[i].prev = i - 1
    BY <1>2, <1>4 DEF OrderlyLines
  <2>2. i # 1 => s[i - 1].id = i - 1
    BY <1>1, <1>4 DEF OrderlyLines
  <2>3. QED
    BY <1>1, <2>1, <2>2 DEF Genesis
<1>5. QED
  BY <1>3, <1>4 DEF Verifies

\* A record, a flush, a reopening or a write that fails keeps it so.
LEMMA AuditStep ==
  ASSUME AuditInv, [AuditNext]_auditVars
  PROVE  AuditInv'
<1>0. AuditTypeOK /\ BufferLimit \in Nat \ {0}
  BY AuditAssumption DEF AuditInv
<1>1. ASSUME NEW written \in 0..BufferLimit, Record(written) PROVE AuditInv'
  <2> DEFINE line == [seq |-> chain.seq + 1, prev |-> chain.last, id |-> audited.made + 1]
             done == Emit(chain, line, written)
  <2>1. /\ written \in 0..Len(chain.buffer) + 1
        /\ path = "up" => written = Len(chain.buffer) + 1
        /\ path = "down" => written < Len(chain.buffer) + 1
        /\ file' = file \o done.out
        /\ chain' = [seq |-> line.seq, last |-> line.id, buffer |-> done.buffer, halted |-> done.halts]
        /\ audited' = [audited EXCEPT !.made = @ + 1]
        /\ life' = [life EXCEPT !.good = @ /\ path = "up"]
    BY <1>1 DEF Record
  <2>2. PICK b \in Seq(Lines) : b = chain.buffer
    BY <1>0 DEF AuditTypeOK
  <2>3. line \in Lines /\ line.seq = chain.seq + 1 /\ line.id = audited.made + 1 /\ line.prev = chain.last
    BY <1>0 DEF AuditTypeOK, Lines
  <2>4. Splits(b, line, written, done.out, done.buffer) /\ (done.halts <=> Len(done.buffer) >= BufferLimit)
    BY <2>1, <2>2, <2>3, EmitSplits
  <2>5. PICK out \in Seq(Lines) : out = done.out
    BY <2>4 DEF Splits
  <2>6. PICK buffer \in Seq(Lines) : buffer = done.buffer
    BY <2>4 DEF Splits
  <2>halts. done.halts \in BOOLEAN
    <3>1. \A o, l : Emitted(o, l).halts \in BOOLEAN
      BY Zenon DEF Emitted
    <3>2. \E o, l : done = Emitted(o, l)
      <4>1. CASE written = 0
        <5>1. written # Len(chain.buffer) + 1
          BY <2>2, <4>1
        <5>2. QED
          BY <4>1, <5>1, Zenon DEF Emit
      <4>2. CASE written # 0 /\ written = Len(chain.buffer) + 1
        BY <4>2, Zenon DEF Emit
      <4>3. CASE written # 0 /\ written # Len(chain.buffer) + 1
        BY <4>3, Zenon DEF Emit
      <4>4. QED
        BY <4>1, <4>2, <4>3
    <3>3. QED
      BY <3>1, <3>2, Zenon
  <2> HIDE DEF line, done
  <2>7. Splits(b, line, written, out, buffer)
    BY <2>4, <2>5, <2>6
  <2>8. /\ file' = file \o out /\ chain'.buffer = buffer
        /\ chain'.seq = chain.seq + 1 /\ chain'.last = audited.made + 1
        /\ chain'.halted <=> Len(buffer) >= BufferLimit
    BY <2>1, <2>3, <2>4, <2>5, <2>6
  <2>9. /\ audited'.made = audited.made + 1 /\ audited'.gone = audited.gone
        /\ audited' \in [made: Nat, gone: SUBSET Nat]
        /\ life'.number = life.number /\ (life'.good <=> life.good /\ path = "up")
    <3>1. audited \in [made: Nat, gone: SUBSET Nat] /\ life \in [number: Nat \ {0}, good: BOOLEAN]
      BY <1>0 DEF AuditTypeOK
    <3>2. audited'.made = audited.made + 1 /\ audited'.gone = audited.gone
      BY <2>1, <3>1
    <3>3. audited' \in [made: Nat, gone: SUBSET Nat]
      <4>1. audited.made + 1 \in Nat
        BY <3>1
      <4>2. QED
        BY <2>1, <3>1, <4>1
    <3>4. life'.number = life.number
      BY <2>1, <3>1
    <3>5. life'.good = (life.good /\ path = "up")
      BY <2>1, <3>1, Zenon
    <3>6. QED
      BY <3>2, <3>3, <3>4, <3>5
  <2>10. AuditTypeOK'
    <3>1. file' \in Seq(Lines)
      BY <1>0, <2>8 DEF AuditTypeOK
    <3>2. done.halts \in BOOLEAN
      BY <2>halts
    <3>a. chain.seq \in Nat
      BY <1>0 DEF AuditTypeOK
    <3>b. line.seq \in Nat /\ line.id \in Nat
      BY <2>3, <3>a DEF Lines
    <3>c. done.buffer \in Seq(Lines)
      BY <2>6
    <3>3. chain' \in [seq: Nat, last: Nat, buffer: Seq(Lines), halted: BOOLEAN]
      BY <2>1, <3>2, <3>b, <3>c, Zenon
    <3>4. life' \in [number: Nat \ {0}, good: BOOLEAN]
      BY <1>0, <2>1 DEF AuditTypeOK
    <3>5. path' = path
      BY <1>1 DEF Record
    <3>6. QED
      BY <1>0, <2>9, <3>1, <3>3, <3>4, <3>5 DEF AuditTypeOK
  <2>11. Ids(file') \cup Ids(buffer) \cup audited'.gone = 1..audited'.made
    <3>1. Ids(file') = Ids(file) \cup Ids(out)
      BY <1>0, <2>8, IdsJoined DEF AuditTypeOK
    <3>2. Ids(out) \cup Ids(buffer) = Ids(b) \cup {audited.made + 1}
      BY <2>3, <2>7 DEF Splits
    <3>3. Ids(file) \cup Ids(b) \cup audited.gone = 1..audited.made
      BY <2>2 DEF AuditInv
    <3>4. audited.made \in Nat
      BY <1>0 DEF AuditTypeOK
    <3>5. 1..audited.made + 1 = 1..audited.made \cup {audited.made + 1}
      BY <3>4
    <3>6. QED
      BY <2>9, <3>1, <3>2, <3>3, <3>5
  <2>12. ASSUME life'.number = 1 PROVE FirstLife'
    <3>1. FirstLife
      BY <2>9, <2>12 DEF AuditInv
    <3>2. chain'.seq = audited'.made /\ chain'.last = audited'.made /\ audited'.gone = {}
      BY <2>8, <2>9, <3>1 DEF FirstLife
    <3>3. line \in Own
      <4>1. chain.seq = audited.made /\ chain.last = audited.made /\ audited.made \in Nat
        BY <1>0, <3>1 DEF FirstLife, AuditTypeOK
      <4>2. line.seq = line.id /\ line.prev = line.id - 1
        BY <2>3, <4>1
      <4>3. QED
        BY <2>3, <4>2 DEF Own
    <3>4. (\A i \in DOMAIN out : out[i] \in Own) /\ \A i \in DOMAIN buffer : buffer[i] \in Own
      BY <2>2, <2>7, <3>1, <3>3 DEF FirstLife, Splits
    <3>5. /\ Len(file) \in Nat /\ Len(out) \in Nat /\ Len(file') = Len(file) + Len(out)
          /\ DOMAIN file' = 1..Len(file') /\ DOMAIN file = 1..Len(file) /\ DOMAIN out = 1..Len(out)
          /\ \A i \in 1..Len(file) : file'[i] = file[i]
          /\ \A i \in 1..Len(out) : file'[Len(file) + i] = out[i]
      BY <1>0, <2>8 DEF AuditTypeOK
    <3>6. \A i \in DOMAIN file' : file'[i] \in Own
      <4>1. ASSUME NEW i \in DOMAIN file' PROVE file'[i] \in Own
        <5>1. CASE i \in 1..Len(file)
          BY <3>1, <3>5, <5>1 DEF FirstLife
        <5>2. CASE i \notin 1..Len(file)
          <6>1. i - Len(file) \in 1..Len(out) /\ Len(file) + (i - Len(file)) = i
            BY <3>5, <5>2
          <6>2. QED
            BY <3>4, <3>5, <6>1
        <5>3. QED
          BY <5>1, <5>2
      <4>2. QED
        BY <4>1
    <3>7. Len(b) \in Nat /\ (b = <<>> <=> Len(b) = 0) /\ audited.made \in Nat
      BY <1>0 DEF AuditTypeOK
    <3>8. OrderlyLines(file') => OrderlyLines(file)
      BY <3>5 DEF OrderlyLines
    <3>9. ASSUME OrderlyLines(file'), written # 0 PROVE b = <<>> /\ Len(out) = 1 /\ buffer = <<>>
      <4>1. out # <<>> /\ out[1] = line
        BY <2>7, <3>9 DEF Splits
      <4>2. 1 \in 1..Len(out)
        BY <3>5, <4>1
      <4>3. file'[Len(file) + 1].id = audited.made + 1 /\ Len(file) + 1 \in DOMAIN file'
        BY <2>3, <3>5, <4>1, <4>2
      <4>4. Len(file) = audited.made
        <5>1. file'[Len(file) + 1].id = Len(file) + 1
          BY <3>9, <4>3 DEF OrderlyLines
        <5>2. \A n, m \in Nat : n + 1 = m + 1 => n = m
          OBVIOUS
        <5>3. QED
          BY <3>5, <3>7, <4>3, <5>1, <5>2
      <4>5. Len(file) + Len(b) = audited.made
        BY <2>2, <3>1, <3>8, <3>9 DEF FirstLife
      <4>6. b = <<>>
        BY <3>5, <3>7, <4>4, <4>5
      <4>7. written = Len(b) + 1
        BY <2>1, <2>2, <3>7, <3>9, <4>6
      <4>8. QED
        BY <2>7, <3>9, <4>6, <4>7 DEF Splits
    <3>10. OrderlyLines(file') => Len(file') + Len(buffer) = audited'.made
      <4>1. CASE written = 0
        <5>1. out = <<>> /\ Len(buffer) = Len(b) + 1
          BY <2>7, <4>1 DEF Splits
        <5>2. OrderlyLines(file) => Len(file) + Len(b) = audited.made
          BY <2>2, <3>1 DEF FirstLife
        <5>3. QED
          BY <2>9, <3>5, <3>7, <3>8, <5>1, <5>2
      <4>2. CASE written # 0
        <5>1. OrderlyLines(file) /\ b = <<>> => Len(file) = audited.made
          BY <2>2, <3>1, <3>5, <3>7 DEF FirstLife
        <5>2. Len(<<>>) = 0
          OBVIOUS
        <5>3. ASSUME OrderlyLines(file') PROVE Len(file') + Len(buffer) = audited'.made
          <6>1. Len(file) = audited.made /\ Len(out) = 1 /\ Len(buffer) = 0
            BY <3>8, <3>9, <4>2, <5>1, <5>2, <5>3
          <6>2. QED
            BY <2>9, <3>5, <3>7, <6>1
        <5>4. QED
          BY <5>3
      <4>3. QED
        BY <4>1, <4>2
    <3>11. ASSUME life'.good PROVE buffer = <<>> /\ OrderlyLines(file')
      <4>1. life.good /\ path = "up"
        BY <2>9, <3>11
      <4>2. b = <<>> /\ OrderlyLines(file)
        BY <2>2, <3>1, <4>1 DEF FirstLife
      <4>3. written = Len(b) + 1 /\ written # 0
        BY <2>1, <2>2, <3>7, <4>1
      <4>4. buffer = <<>> /\ Len(out) = 1 /\ out[1] = line
        BY <2>7, <4>2, <4>3 DEF Splits
      <4>5. Len(file) = audited.made
        BY <2>2, <3>1, <3>5, <3>7, <4>2 DEF FirstLife
      <4>6. file'[Len(file) + 1].id = Len(file) + 1
        BY <2>3, <3>5, <4>4, <4>5
      <4>7. ASSUME NEW i \in DOMAIN file' PROVE file'[i].id = i
        <5>1. i \in 1..Len(file) \/ i = Len(file) + 1
          BY <3>5, <4>4
        <5>2. QED
          BY <3>5, <4>2, <4>6, <5>1 DEF OrderlyLines
      <4>8. QED
        BY <4>4, <4>7 DEF OrderlyLines
    <3>12. ASSUME ~life'.good PROVE buffer # <<>> \/ ~OrderlyLines(file')
      <4>1. CASE path = "up"
        <5>1. written = Len(b) + 1 /\ written # 0
          BY <2>1, <2>2, <3>7, <4>1
        <5>2. b # <<>> \/ ~OrderlyLines(file)
          BY <2>2, <2>9, <3>1, <3>12, <4>1 DEF FirstLife
        <5>3. QED
          BY <3>8, <3>9, <5>1, <5>2
      <4>2. CASE path = "down"
        <5>1. written # Len(b) + 1
          BY <2>1, <2>2, <3>7, <4>2
        <5>2. QED
          BY <2>7, <5>1 DEF Splits
      <4>3. QED
        BY <1>0, <4>1, <4>2 DEF AuditTypeOK
    <3>13. \A i \in DOMAIN chain'.buffer : chain'.buffer[i] \in Own
      BY <2>8, <3>4
    <3>14. QED
      BY <2>8, <3>2, <3>6, <3>10, <3>11, <3>12, <3>13 DEF FirstLife
  <2>13. QED
    BY <2>8, <2>10, <2>11, <2>12 DEF AuditInv
<1>2. CASE PathChanges \/ UNCHANGED auditVars
  <2>1. UNCHANGED <<file, chain, audited, life>> /\ path' \in {"up", "down"}
    BY <1>0, <1>2 DEF PathChanges, auditVars, AuditTypeOK
  <2>2. QED
    BY <2>1 DEF AuditInv, AuditTypeOK, FirstLife, OrderlyLines
<1>3. CASE NewProcess
  <2>1. /\ life' = [number |-> life.number + 1, good |-> life.good]
        /\ audited' = [audited EXCEPT !.gone = @ \cup Ids(chain.buffer)]
        /\ chain' = NewChain /\ UNCHANGED <<file, path>>
    BY <1>3 DEF NewProcess
  <2>2. /\ chain'.buffer = <<>> /\ chain'.halted = FALSE
        /\ chain' \in [seq: Nat, last: Nat, buffer: Seq(Lines), halted: BOOLEAN]
    <3>1. <<>> \in Seq(Lines)
      OBVIOUS
    <3>2. QED
      BY <2>1, <3>1 DEF NewChain, Genesis
  <2>3. life'.number # 1 /\ life' \in [number: Nat \ {0}, good: BOOLEAN]
    BY <1>0, <2>1 DEF AuditTypeOK
  <2>4. Ids(chain.buffer) \subseteq Nat
    <3>1. chain.buffer \in Seq(Lines)
      BY <1>0 DEF AuditTypeOK
    <3>2. \A i \in DOMAIN chain.buffer : chain.buffer[i].id \in Nat
      <4>1. \A i \in DOMAIN chain.buffer : chain.buffer[i] \in Lines
        BY <3>1
      <4>2. QED
        BY <4>1 DEF Lines
    <3>3. QED
      BY <3>2, IdsMember
  <2>5. /\ audited' \in [made: Nat, gone: SUBSET Nat] /\ audited'.made = audited.made
        /\ audited'.gone = audited.gone \cup Ids(chain.buffer)
    BY <1>0, <2>1, <2>4 DEF AuditTypeOK
  <2>6. Ids(file') \cup Ids(chain'.buffer) \cup audited'.gone = 1..audited'.made
    BY <2>1, <2>2, <2>5, IdsMember DEF AuditInv
  <2>7. ~(Len(<<>>) >= BufferLimit)
    BY <1>0
  <2>8. AuditTypeOK'
    BY <1>0, <2>1, <2>2, <2>3, <2>5 DEF AuditTypeOK
  <2>9. QED
    BY <2>2, <2>3, <2>6, <2>7, <2>8 DEF AuditInv
<1>4. QED
  BY <1>1, <1>2, <1>3 DEF AuditNext

\* The audit log forgets nothing.
THEOREM NothingIsForgotten == AuditSpec => []NothingForgotten
<1>1. AuditInit => AuditInv
  <2>1. SUFFICES ASSUME AuditInit PROVE AuditInv
    OBVIOUS
  <2>2. <<>> \in Seq(Lines) /\ Len(<<>>) = 0 /\ DOMAIN <<>> = {} /\ BufferLimit \in Nat \ {0}
    BY AuditAssumption
  <2>3. /\ file = <<>> /\ path = "up"
        /\ chain = [seq |-> 0, last |-> 0, buffer |-> <<>>, halted |-> FALSE]
        /\ audited = [made |-> 0, gone |-> {}] /\ life = [number |-> 1, good |-> TRUE]
    BY <2>1, Zenon DEF AuditInit, NewChain, Genesis
  <2>4. AuditTypeOK
    BY <2>2, <2>3 DEF AuditTypeOK
  <2>5. FirstLife
    BY <2>2, <2>3 DEF FirstLife, OrderlyLines
  <2>6. Ids(file) \cup Ids(chain.buffer) \cup audited.gone = 1..audited.made
    BY <2>3, IdsMember
  <2>7. chain.halted <=> Len(chain.buffer) >= BufferLimit
    BY <2>2, <2>3
  <2>8. QED
    BY <2>4, <2>5, <2>6, <2>7 DEF AuditInv
<1>2. AuditInv /\ [AuditNext]_auditVars => AuditInv'
  BY AuditStep
<1>3. AuditInv => NothingForgotten
  <2>1. SUFFICES ASSUME AuditInv PROVE NothingForgotten
    OBVIOUS
  <2>2. ~MayRecover
    <3>1. Len(<<>>) = 0 /\ ~(0 >= BufferLimit)
      BY AuditAssumption
    <3>2. chain.halted => Len(chain.buffer) >= BufferLimit
      BY <2>1 DEF AuditInv
    <3>3. QED
      BY <3>1, <3>2 DEF MayRecover
  <2>3. ASSUME life.number = 1, chain.buffer = <<>> PROVE Verifies(file) <=> life.good
    <3>a. FirstLife /\ file \in Seq(Lines)
      BY <2>1, <2>3 DEF AuditInv, AuditTypeOK
    <3>b. PICK s \in Seq(Lines) : s = file
      BY <3>a
    <3>c. \A i \in DOMAIN s : s[i] \in Own
      BY <3>a, <3>b DEF FirstLife
    <3>1. Verifies(file) <=> OrderlyLines(file)
      BY <3>b, <3>c, VerifiesInOrder
    <3>2. life.good <=> OrderlyLines(file)
      BY <2>3, <3>a, Zenon DEF FirstLife
    <3>3. QED
      BY <3>1, <3>2
  <2>4. QED
    BY <2>1, <2>2, <2>3 DEF AuditInv, NothingForgotten
<1>4. QED
  BY <1>1, <1>2, <1>3, PTL DEF AuditSpec

-----------------------------------------------------------------------------
(* The alerts (Alerts).                                                    *)

\* What is raised is open from then on, and went out once if it was not open before.
LEMMA RaisedOnce ==
  ASSUME NEW keys, \A k \in DOMAIN notified : notified[k] = IF k \in open THEN 1 ELSE 0,
         open' = Raised(open, keys), notified' = Sent(keys)
  PROVE  /\ open \subseteq open' /\ keys \subseteq open'
         /\ \A k \in DOMAIN notified' : notified'[k] = IF k \in open' THEN 1 ELSE 0
<1>1. open' = open \cup keys
  BY DEF Raised
<1>2. DOMAIN notified' = DOMAIN notified
  BY DEF Sent
<1>3. \A k \in DOMAIN notified :
        notified'[k] = IF k \in open' \ open THEN notified[k] + 1 ELSE notified[k]
  BY DEF Sent
<1>4. QED
  BY <1>1, <1>2, <1>3

\* Judging the targets pages for every one that is breached, and for a flatten.
LEMMA JudgePages ==
  ASSUME PagedWhileAtRisk, NEW values, NEW risk, NEW flattens, Judge(values, risk, flattens)
  PROVE  PagedWhileAtRisk'
<1> DEFINE beyond == Breached(values)
           keys == {<<Severity(t, risk), t>> : t \in beyond} \cup (IF flattens THEN {Flatten} ELSE {})
<1>1. /\ open' = Raised(open, keys) /\ notified' = Sent(keys)
      /\ judged' = [beyond |-> beyond, risk |-> risk]
      /\ mode' = IF flattens THEN "HALTED" ELSE mode
  BY DEF Judge
<1>2. /\ open \subseteq open' /\ keys \subseteq open'
      /\ \A k \in DOMAIN notified' : notified'[k] = IF k \in open' THEN 1 ELSE 0
  <2>1. \A k \in DOMAIN notified : notified[k] = IF k \in open THEN 1 ELSE 0
    BY DEF PagedWhileAtRisk
  <2> HIDE DEF keys
  <2>2. QED
    BY <1>1, <2>1, RaisedOnce
<1>3. \A t \in beyond : <<Severity(t, risk), t>> \in open'
  BY <1>2
<1>4. flattens => Flatten \in open'
  BY <1>2
<1>5. judged'.beyond = beyond /\ judged'.risk = risk
  BY <1>1
<1>6. mode = "HALTED" => Flatten \in open
  BY DEF PagedWhileAtRisk
<1> HIDE DEF beyond, keys
<1>7. (judged.risk => \A t \in judged.beyond : <<LiveSeverity(t), t>> \in open)'
  BY <1>3, <1>5 DEF Severity
<1>8. (~judged.risk => \A t \in judged.beyond : <<QuietSeverity(t), t>> \in open)'
  BY <1>3, <1>5 DEF Severity
<1>9. (mode = "HALTED" => Flatten \in open)'
  BY <1>1, <1>2, <1>4, <1>6 DEF Flatten
<1>10. QED
  BY <1>2, <1>7, <1>8, <1>9 DEF PagedWhileAtRisk

\* AlertsSpec never leaves a breached target of a session at risk without its page.
THEOREM BreachesPage == AlertsSpec => []PagedWhileAtRisk
<1>1. AlertsInit => PagedWhileAtRisk
  <2>1. SUFFICES ASSUME AlertsInit PROVE PagedWhileAtRisk
    OBVIOUS
  <2>2. open = {} /\ judged.beyond = {} /\ mode # "HALTED"
    BY <2>1 DEF AlertsInit
  <2>3. \A k \in DOMAIN notified : notified[k] = 0
    BY <2>1 DEF AlertsInit
  <2>4. QED
    BY <2>2, <2>3 DEF PagedWhileAtRisk
<1>2. PagedWhileAtRisk /\ [AlertsNext]_alertVars => PagedWhileAtRisk'
  <2>1. SUFFICES ASSUME PagedWhileAtRisk, [AlertsNext]_alertVars PROVE PagedWhileAtRisk'
    OBVIOUS
  <2>2. ASSUME NEW result \in {"clean", "halting", "failed", "not due"}, TimedTick(result)
        PROVE  PagedWhileAtRisk'
    <3>1. Judge(measured', holding, must /\ mode = "RUNNING")
      BY <2>2 DEF TimedTick
    <3> DEFINE values == measured'
               flattens == must /\ mode = "RUNNING"
    <3>2. Judge(values, holding, flattens)
      BY <3>1
    <3> HIDE DEF values, flattens
    <3>3. QED
      BY <2>1, <3>2, JudgePages
  <2>3. ASSUME NEW stale \in BOOLEAN, NEW slow \in SUBSET OfLatency, Event(stale, slow)
        PROVE  PagedWhileAtRisk'
    <3>1. Judge(measured', holding, must)
      BY <2>3 DEF Event
    <3> DEFINE values == measured'
    <3>2. Judge(values, holding, must)
      BY <3>1
    <3> HIDE DEF values
    <3>3. QED
      BY <2>1, <3>2, JudgePages
  <2>4. CASE ManuallyKilled
    <3>1. /\ open' = Raised(open, {Flatten}) /\ notified' = Sent({Flatten})
          /\ judged' = judged
      BY <2>4 DEF ManuallyKilled
    <3>2. \A k \in DOMAIN notified : notified[k] = IF k \in open THEN 1 ELSE 0
      BY <2>1 DEF PagedWhileAtRisk
    <3>3. /\ open \subseteq open' /\ {Flatten} \subseteq open'
          /\ \A k \in DOMAIN notified' : notified'[k] = IF k \in open' THEN 1 ELSE 0
      BY <3>1, <3>2, RaisedOnce
    <3>4. QED
      BY <2>1, <3>1, <3>3 DEF PagedWhileAtRisk, Flatten
  <2>5. CASE Demand \/ Release \/ Books \/ UNCHANGED alertVars
    <3>1. UNCHANGED <<mode, open, notified, judged>>
      BY <2>5 DEF Demand, Release, Books, alertVars
    <3>2. QED
      BY <2>1, <3>1 DEF PagedWhileAtRisk, Flatten
  <2>6. QED
    BY <2>1, <2>2, <2>3, <2>4, <2>5 DEF AlertsNext
<1>3. QED
  BY <1>1, <1>2, PTL DEF AlertsSpec

-----------------------------------------------------------------------------
(* The research registry (Research).                                       *)

\* A product of naturals grows with its first factor.
LEMMA ProductGrows ==
  ASSUME NEW j \in Nat, NEW k \in Nat, j < k, NEW q \in Nat
  PROVE  /\ j * q \in Nat /\ k * q \in Nat /\ (j + 1) * q = j * q + q
         /\ (j + 1) * q <= k * q
<1>1. PICK m \in Nat : k = j + 1 + m
  <2>1. k - (j + 1) \in Nat /\ k = j + 1 + (k - (j + 1))
    OBVIOUS
  <2>2. QED
    BY <2>1
<1>2. j * q \in Nat /\ m * q \in Nat /\ (j + 1) * q = j * q + q
  OBVIOUS
<1>3. k * q = (j + 1) * q + m * q
  BY <1>1
<1>4. QED
  BY <1>2, <1>3

\* A product of naturals is one.
LEMMA ProductType == ASSUME NEW j \in Nat, NEW k \in Nat PROVE j * k \in Nat
OBVIOUS

\* The tests of the folds follow one another, none is empty and none goes beyond the
\* sample, and together they are the sample.
LEMMA TestsCover ==
  ASSUME NEW n \in Nat, NEW folds \in Nat \ {0}, folds <= n
  PROVE  /\ \A k \in 0..folds - 1 :
              /\ StartOf(n, folds, k) \in Nat /\ EndOf(n, folds, k) \in Nat
              /\ StartOf(n, folds, k) < EndOf(n, folds, k) /\ EndOf(n, folds, k) <= n
         /\ \A j, k \in 0..folds - 1 : j < k => EndOf(n, folds, j) <= StartOf(n, folds, k)
         /\ \A i \in 0..n - 1 : \E k \in 0..folds - 1 :
              StartOf(n, folds, k) <= i /\ i < EndOf(n, folds, k)
<1> DEFINE q == n \div folds
<1>1. q \in Nat /\ q * folds <= n /\ n < q * folds + folds
  OBVIOUS
<1>2. q # 0
  BY <1>1
<1>3. \A k : StartOf(n, folds, k) = k * q /\ EndOf(n, folds, k) = IF k = folds - 1 THEN n ELSE (k + 1) * q
  BY DEF StartOf, EndOf
<1> HIDE DEF q
<1>4. \A k \in 0..folds - 1 : k * q \in Nat /\ (k + 1) * q = k * q + q /\ (k + 1) * q <= n
  <2>1. SUFFICES ASSUME NEW k \in 0..folds - 1
                 PROVE  k * q \in Nat /\ (k + 1) * q = k * q + q /\ (k + 1) * q <= n
    OBVIOUS
  <2>2. k * q \in Nat /\ (k + 1) * q = k * q + q /\ (k + 1) * q <= folds * q
    BY <1>1, ProductGrows
  <2>3. folds * q = q * folds
    BY <1>1
  <2>4. QED
    BY <1>1, <2>2, <2>3
<1>5. \A k \in 0..folds - 1 :
        /\ StartOf(n, folds, k) \in Nat /\ EndOf(n, folds, k) \in Nat
        /\ StartOf(n, folds, k) < EndOf(n, folds, k) /\ EndOf(n, folds, k) <= n
  <2>1. SUFFICES ASSUME NEW k \in 0..folds - 1
                 PROVE  /\ StartOf(n, folds, k) \in Nat /\ EndOf(n, folds, k) \in Nat
                        /\ StartOf(n, folds, k) < EndOf(n, folds, k) /\ EndOf(n, folds, k) <= n
    OBVIOUS
  <2>2. k * q \in Nat /\ (k + 1) * q = k * q + q /\ (k + 1) * q <= n /\ q \in Nat \ {0}
    BY <1>1, <1>2, <1>4
  <2>3. CASE k = folds - 1
    BY <1>3, <2>2, <2>3
  <2>4. CASE k # folds - 1
    BY <1>3, <2>2, <2>4
  <2>5. QED
    BY <2>3, <2>4
<1>6. \A j, k \in 0..folds - 1 : j < k => EndOf(n, folds, j) <= StartOf(n, folds, k)
  <2>1. SUFFICES ASSUME NEW j \in 0..folds - 1, NEW k \in 0..folds - 1, j < k
                 PROVE  EndOf(n, folds, j) <= StartOf(n, folds, k)
    OBVIOUS
  <2>2. j # folds - 1
    BY <2>1
  <2>3. (j + 1) * q <= k * q
    BY <1>1, <2>1, ProductGrows
  <2>4. QED
    BY <1>3, <2>2, <2>3
<1>7. \A i \in 0..n - 1 : \E k \in 0..folds - 1 :
        StartOf(n, folds, k) <= i /\ i < EndOf(n, folds, k)
  <2>1. SUFFICES ASSUME NEW i \in 0..n - 1
                 PROVE  \E k \in 0..folds - 1 : StartOf(n, folds, k) <= i /\ i < EndOf(n, folds, k)
    OBVIOUS
  <2> DEFINE m == i \div q
  <2>2. m \in Nat /\ m * q <= i /\ i < m * q + q
    BY <1>1, <1>2
  <2> HIDE DEF m
  <2>3. CASE m < folds - 1
    <3>1. m \in 0..folds - 1 /\ m # folds - 1
      BY <2>2, <2>3
    <3>2. StartOf(n, folds, m) = m * q /\ EndOf(n, folds, m) = m * q + q
      BY <1>3, <1>4, <3>1
    <3>3. QED
      BY <2>2, <3>1, <3>2
  <2>4. CASE folds - 1 <= m
    <3>1. folds - 1 \in 0..folds - 1 /\ i < n
      OBVIOUS
    <3>2. (folds - 1) * q <= m * q
      <4>1. CASE folds - 1 < m
        <5>1. (folds - 1 + 1) * q <= m * q /\ (folds - 1 + 1) * q = (folds - 1) * q + q /\ (folds - 1) * q \in Nat
          BY <1>1, <2>2, <4>1, ProductGrows
        <5>2. QED
          BY <1>1, <2>2, <5>1
      <4>2. CASE folds - 1 = m
        BY <1>1, <2>2, <4>2
      <4>3. QED
        BY <2>2, <2>4, <4>1, <4>2
    <3>3. StartOf(n, folds, folds - 1) = (folds - 1) * q /\ EndOf(n, folds, folds - 1) = n
      BY <1>3
    <3>4. (folds - 1) * q \in Nat /\ m * q \in Nat
      BY <1>1, <2>2, <3>1, ProductType
    <3>5. QED
      BY <2>2, <3>1, <3>2, <3>3, <3>4
  <2>5. QED
    BY <2>2, <2>3, <2>4
<1>8. QED
  BY <1>5, <1>6, <1>7

\* What a fold may be trained on: all that is farther from its test than the purge, and
\* than the purge and the embargo after it.
LEMMA TrainsApart ==
  ASSUME NEW n \in Nat, NEW start \in Nat, NEW stop \in Nat, start < stop, stop <= n,
         NEW purge \in Nat, NEW embargo \in Nat, NEW i \in 0..n - 1
  PROVE  i \in Train(n, start, stop, purge, embargo) <=>
           \A t \in start..stop - 1 : t - i > purge \/ i - t > purge + embargo
<1>1. i \in Train(n, start, stop, purge, embargo) <=> i < start - purge \/ i >= stop + purge + embargo
  <2>1. i < Larger(0, start - purge) <=> i < start - purge
    BY DEF Larger
  <2>2. i >= Smaller(n, stop + purge + embargo) <=> i >= stop + purge + embargo
    BY DEF Smaller
  <2>3. QED
    BY <2>1, <2>2 DEF Train
<1>2. ASSUME i < start - purge \/ i >= stop + purge + embargo, NEW t \in start..stop - 1
      PROVE  t - i > purge \/ i - t > purge + embargo
  BY <1>2
<1>3. ASSUME \A t \in start..stop - 1 : t - i > purge \/ i - t > purge + embargo
      PROVE  i < start - purge \/ i >= stop + purge + embargo
  <2>1. start \in start..stop - 1 /\ stop - 1 \in start..stop - 1
    OBVIOUS
  <2>2. start - i > purge \/ i - start > purge + embargo
    BY <1>3, <2>1
  <2>3. stop - 1 - i > purge \/ i - (stop - 1) > purge + embargo
    BY <1>3, <2>1
  <2>4. i \in start..stop - 1 => FALSE
    <3>1. ~(i - i > purge) /\ ~(i - i > purge + embargo)
      OBVIOUS
    <3>2. QED
      BY <1>3, <3>1
  <2>5. QED
    BY <2>2, <2>3, <2>4
<1>4. QED
  BY <1>1, <1>2, <1>3

\* However a sample is folded, into any number of folds up to its size and with any
\* purge and embargo, every part of it is tested once and nothing leaks.
THEOREM FoldsDoNotLeak ==
  ASSUME NEW n \in Nat, NEW folds \in Nat \ {0}, NEW purge \in Nat, NEW embargo \in Nat,
         Fold(n, folds, purge, embargo)
  PROVE  SplitsDoNotLeak'
<1> DEFINE start(k) == StartOf(n, folds, k)
           stop(k) == EndOf(n, folds, k)
           train(k) == Train(n, start(k), stop(k), purge, embargo)
           pairs == {[test |-> start(k)..(stop(k) - 1), train |-> train(k)] : k \in 0..(folds - 1)}
<1>1. folds <= n /\ split' = [n |-> n, purge |-> purge, embargo |-> embargo, pairs |-> pairs]
  BY DEF Fold
<1>2. split'.n = n /\ split'.purge = purge /\ split'.embargo = embargo /\ split'.pairs = pairs
  BY <1>1
<1>3. \A k \in 0..folds - 1 :
        start(k) \in Nat /\ stop(k) \in Nat /\ start(k) < stop(k) /\ stop(k) <= n
  BY <1>1, TestsCover
<1>4. \A j, k \in 0..folds - 1 : j < k => stop(j) <= start(k)
  BY <1>1, TestsCover
<1>5. \A i \in 0..n - 1 : \E k \in 0..folds - 1 : start(k) <= i /\ i < stop(k)
  BY <1>1, TestsCover
<1>6. \A p \in pairs : \E k \in 0..folds - 1 : p.test = start(k)..(stop(k) - 1) /\ p.train = train(k)
                                            /\ p = [test |-> start(k)..(stop(k) - 1), train |-> train(k)]
  OBVIOUS
<1>7. \A k \in 0..folds - 1 : \E p \in pairs : p.test = start(k)..(stop(k) - 1)
  <2>1. \A k \in 0..folds - 1 : [test |-> start(k)..(stop(k) - 1), train |-> train(k)] \in pairs
    OBVIOUS
  <2>2. \A k : [test |-> start(k)..(stop(k) - 1), train |-> train(k)].test = start(k)..(stop(k) - 1)
    OBVIOUS
  <2> HIDE DEF start, stop, train, pairs
  <2>3. QED
    BY <2>1, <2>2
<1>8. \A k \in 0..folds - 1 : \A i \in 0..n - 1 :
        i \in train(k) <=> \A t \in start(k)..(stop(k) - 1) : t - i > purge \/ i - t > purge + embargo
  BY <1>3, TrainsApart
<1> HIDE DEF start, stop, train, pairs
<1>9. UNION {p.test : p \in pairs} = 0..(n - 1)
  <2>1. \A p \in pairs : p.test \subseteq 0..(n - 1)
    <3>1. SUFFICES ASSUME NEW p \in pairs PROVE p.test \subseteq 0..(n - 1)
      OBVIOUS
    <3>2. PICK k \in 0..folds - 1 : p.test = start(k)..(stop(k) - 1)
      BY <1>6
    <3>3. QED
      BY <1>3, <3>2
  <2>2. ASSUME NEW i \in 0..(n - 1) PROVE \E p \in pairs : i \in p.test
    <3>1. PICK k \in 0..folds - 1 : start(k) <= i /\ i < stop(k)
      BY <1>5
    <3>2. PICK p \in pairs : p.test = start(k)..(stop(k) - 1)
      BY <1>7
    <3>3. i \in p.test
      BY <1>3, <3>1, <3>2
    <3>4. QED
      BY <3>3
  <2>3. QED
    BY <2>1, <2>2
<1>10. \A p, r \in pairs : p # r => p.test \cap r.test = {}
  <2>1. SUFFICES ASSUME NEW p \in pairs, NEW r \in pairs, p # r PROVE p.test \cap r.test = {}
    OBVIOUS
  <2>2. PICK k \in 0..folds - 1 : /\ p.test = start(k)..(stop(k) - 1)
                                  /\ p = [test |-> start(k)..(stop(k) - 1), train |-> train(k)]
    BY <1>6
  <2>3. PICK j \in 0..folds - 1 : /\ r.test = start(j)..(stop(j) - 1)
                                  /\ r = [test |-> start(j)..(stop(j) - 1), train |-> train(j)]
    BY <1>6
  <2>4. j # k
    BY <2>1, <2>2, <2>3
  <2>5. stop(j) <= start(k) \/ stop(k) <= start(j)
    BY <1>4, <2>4
  <2>6. start(j) \in Nat /\ stop(j) \in Nat /\ start(k) \in Nat /\ stop(k) \in Nat
    BY <1>3
  <2>7. QED
    BY <2>2, <2>3, <2>5, <2>6
<1>11. \A p \in pairs : \A i \in 0..(n - 1) :
         i \in p.train <=> \A t \in p.test : t - i > purge \/ i - t > purge + embargo
  <2>1. SUFFICES ASSUME NEW p \in pairs, NEW i \in 0..n - 1
                 PROVE  i \in p.train <=> \A t \in p.test : t - i > purge \/ i - t > purge + embargo
    OBVIOUS
  <2>2. PICK k \in 0..folds - 1 : p.test = start(k)..(stop(k) - 1) /\ p.train = train(k)
    BY <1>6
  <2>3. QED
    BY <1>8, <2>2
<1>12. QED
  BY <1>2, <1>9, <1>10, <1>11 DEF SplitsDoNotLeak

-----------------------------------------------------------------------------
(* The registry.                                                           *)

Trials == [strategy: Studied, outcome: {"running", "complete", "error", "abandoned"}, sharpe: BOOLEAN]
Accesses == [strategy: Studied, refused: BOOLEAN]

\* The trials of a strategy, and the times it saw the holdout.
TrialsOf(s) == {t \in Trials : t.strategy = s}
Seen(s) == {a \in Accesses : a.strategy = s /\ ~a.refused}

\* Every run made is a row of the registry, and every sight of the holdout one of the log.
ResearchInv ==
  /\ trials \in Seq(Trials) /\ accesses \in Seq(Accesses)
  /\ made \in [Studied -> Nat] /\ shown \in [Studied -> Nat]
  /\ running \in 0..Len(trials)
  /\ DOMAIN check = {"at", "strategy", "since"} /\ (check.at # "idle" => check.strategy \in Studied)
  /\ EveryTrialCounts

\* The counts, as counts of places in a sequence.
LEMMA CountsArePlaces ==
  ASSUME NEW s \in Studied, trials \in Seq(Trials), accesses \in Seq(Accesses)
  PROVE  /\ Count(s) = Cardinality(Places(trials, TrialsOf(s)))
         /\ {i \in DOMAIN accesses : accesses[i].strategy = s /\ ~accesses[i].refused} =
              Places(accesses, Seen(s))
<1>1. \A i \in DOMAIN trials : trials[i] \in Trials
  OBVIOUS
<1>2. \A i \in DOMAIN accesses : accesses[i] \in Accesses
  OBVIOUS
<1>3. {i \in DOMAIN trials : trials[i].strategy = s} = Places(trials, TrialsOf(s))
  BY <1>1 DEF Places, TrialsOf
<1>4. QED
  BY <1>2, <1>3 DEF Count, Places, Seen

\* A trial that is closed stays its strategy's.
LEMMA ClosedStays ==
  ASSUME trials \in Seq(Trials), NEW id \in DOMAIN trials,
         NEW outcome \in {"complete", "error", "abandoned"}, NEW sharpe \in BOOLEAN
  PROVE  /\ Closed(id, outcome, sharpe) \in Seq(Trials)
         /\ Len(Closed(id, outcome, sharpe)) = Len(trials)
         /\ \A s : Places(Closed(id, outcome, sharpe), TrialsOf(s)) = Places(trials, TrialsOf(s))
<1> DEFINE e == [trials[id] EXCEPT !.outcome = outcome, !.sharpe = sharpe]
<1>1. trials[id] \in Trials
  OBVIOUS
<1>2. e \in Trials /\ e.strategy = trials[id].strategy
  BY <1>1 DEF Trials
<1>3. Closed(id, outcome, sharpe) = [trials EXCEPT ![id] = e]
  BY <1>1 DEF Closed, Trials
<1> HIDE DEF e
<1>4. [trials EXCEPT ![id] = e] \in Seq(Trials) /\ Len([trials EXCEPT ![id] = e]) = Len(trials)
  BY <1>2
<1>5. \A s : trials[id] \in TrialsOf(s) <=> e \in TrialsOf(s)
  BY <1>1, <1>2 DEF TrialsOf
<1>6. \A s : Places([trials EXCEPT ![id] = e], TrialsOf(s)) = Places(trials, TrialsOf(s))
  BY <1>5 DEF Places
<1>7. QED
  BY <1>3, <1>4, <1>6

\* Every step keeps the books of research.
LEMMA ResearchStep ==
  ASSUME ResearchInv, [ResearchNext]_researchVars
  PROVE  ResearchInv'
<1>0. /\ trials \in Seq(Trials) /\ accesses \in Seq(Accesses) /\ Len(trials) \in Nat
      /\ made \in [Studied -> Nat] /\ shown \in [Studied -> Nat] /\ running \in 0..Len(trials)
      /\ DOMAIN check = {"at", "strategy", "since"}
      /\ check.at # "idle" => check.strategy \in Studied
      /\ counted.trials = counted.of
      /\ \A s \in Studied : Cardinality(Places(trials, TrialsOf(s))) = made[s]
      /\ \A s \in Studied : shown[s] <= 1 /\ shown[s] = Cardinality(Places(accesses, Seen(s)))
  BY CountsArePlaces DEF ResearchInv, EveryTrialCounts

\* what a step has to show
<1>1. ASSUME trials' \in Seq(Trials), accesses' \in Seq(Accesses),
             made' \in [Studied -> Nat], shown' \in [Studied -> Nat], running' \in 0..Len(trials'),
             DOMAIN check' = {"at", "strategy", "since"}, check'.at # "idle" => check'.strategy \in Studied,
             counted'.trials = counted'.of,
             \A s \in Studied : Cardinality(Places(trials', TrialsOf(s))) = made'[s],
             \A s \in Studied : shown'[s] <= 1 /\ shown'[s] = Cardinality(Places(accesses', Seen(s)))
      PROVE  ResearchInv'
  <2>1. \A s \in Studied : Count(s)' = Cardinality(Places(trials', TrialsOf(s)))
    <3>1. \A i \in DOMAIN trials' : trials'[i] \in Trials
      BY <1>1
    <3>2. QED
      BY <3>1 DEF Count, Places, TrialsOf
  <2>2. \A s \in Studied :
          {i \in DOMAIN accesses' : accesses'[i].strategy = s /\ ~accesses'[i].refused} =
              Places(accesses', Seen(s))
    <3>1. \A i \in DOMAIN accesses' : accesses'[i] \in Accesses
      BY <1>1
    <3>2. QED
      BY <3>1 DEF Places, Seen
  <2>3. EveryTrialCounts'
    BY <1>1, <2>1, <2>2 DEF EveryTrialCounts
  <2>4. QED
    BY <1>1, <2>3 DEF ResearchInv
<1>2. ASSUME NEW s \in Studied, StartTrial(s) PROVE ResearchInv'
  <2> DEFINE row == [strategy |-> s, outcome |-> "running", sharpe |-> FALSE]
  <2>1. /\ trials' = Append(trials, row) /\ running' = Len(trials) + 1
        /\ made' = [made EXCEPT ![s] = @ + 1]
        /\ UNCHANGED <<check, counted, accesses, shown>>
    BY <1>2 DEF StartTrial
  <2>2. row \in Trials /\ row.strategy = s
    BY DEF Trials
  <2> HIDE DEF row
  <2>3. trials' \in Seq(Trials) /\ Len(trials') = Len(trials) + 1
    BY <1>0, <2>1, <2>2
  <2>4. made' \in [Studied -> Nat]
    BY <1>0, <2>1
  <2>5. \A z \in Studied : Cardinality(Places(trials', TrialsOf(z))) = made'[z]
    <3>1. SUFFICES ASSUME NEW z \in Studied PROVE Cardinality(Places(trials', TrialsOf(z))) = made'[z]
      OBVIOUS
    <3>2. Cardinality(Places(trials', TrialsOf(z))) =
            Cardinality(Places(trials, TrialsOf(z))) + (IF row \in TrialsOf(z) THEN 1 ELSE 0)
      BY <1>0, <2>1, <2>2, CountAppend
    <3>3. row \in TrialsOf(z) <=> z = s
      BY <2>2 DEF TrialsOf
    <3>4. made'[z] = made[z] + (IF z = s THEN 1 ELSE 0)
      BY <1>0, <2>1
    <3>5. QED
      BY <1>0, <3>2, <3>3, <3>4
  <2>6. running' \in 0..Len(trials')
    BY <1>0, <2>1, <2>3
  <2>7. QED
    BY <1>0, <1>1, <2>1, <2>3, <2>4, <2>5, <2>6

\* a trial is closed, and a harness may end with it
<1>3. ASSUME NEW id \in DOMAIN trials, NEW outcome \in {"complete", "error", "abandoned"},
             NEW sharpe \in BOOLEAN, trials' = Closed(id, outcome, sharpe),
             running' = 0, check' = check \/ check' = [check EXCEPT !.at = "idle"],
             UNCHANGED <<counted, accesses, shown, made>>
      PROVE  ResearchInv'
  <2>1. /\ trials' \in Seq(Trials) /\ Len(trials') = Len(trials)
        /\ \A s : Places(trials', TrialsOf(s)) = Places(trials, TrialsOf(s))
    BY <1>0, <1>3, ClosedStays
  <2>2. DOMAIN check' = {"at", "strategy", "since"} /\ (check'.at # "idle" => check'.strategy \in Studied)
    BY <1>0, <1>3
  <2>3. QED
    BY <1>0, <1>1, <1>3, <2>1, <2>2
<1>4. CASE CompleteTrial
  <2>1. PICK id \in DOMAIN trials : id = running
    BY <1>0, <1>4 DEF CompleteTrial
  <2>2. trials' = Closed(id, "complete", TRUE) /\ running' = 0 /\ check' = check
          /\ UNCHANGED <<counted, accesses, shown, made>>
    BY <1>4, <2>1 DEF CompleteTrial
  <2>3. QED
    BY <1>3, <2>2
<1>5. CASE FailTrial
  <2>1. PICK id \in DOMAIN trials : id = running
    BY <1>0, <1>5 DEF FailTrial
  <2>2. trials' = Closed(id, "error", FALSE) /\ running' = 0 /\ check' = [check EXCEPT !.at = "idle"]
          /\ UNCHANGED <<counted, accesses, shown, made>>
    BY <1>5, <2>1 DEF FailTrial
  <2>3. QED
    BY <1>3, <2>2
<1>6. CASE Die
  BY <1>0, <1>1, <1>6 DEF Die
<1>7. ASSUME NEW id \in DOMAIN trials, Abandon(id) PROVE ResearchInv'
  BY <1>0, <1>3, <1>7 DEF Abandon
<1>8. ASSUME NEW s \in Studied, Validate(s) PROVE ResearchInv'
  BY <1>0, <1>1, <1>8 DEF Validate
<1>9. CASE Advance
  <2>1. /\ check.at # "idle" /\ check' = [check EXCEPT !.at = After(@), !.since = Len(trials)]
        /\ counted' = IF check.at = "deflated_sharpe"
             THEN [strategy |-> check.strategy, trials |-> Count(check.strategy), of |-> made[check.strategy]]
             ELSE counted
        /\ UNCHANGED <<trials, running, accesses, shown, made>>
    BY <1>9 DEF Advance
  <2>2. DOMAIN check' = {"at", "strategy", "since"} /\ check'.strategy \in Studied
    BY <1>0, <2>1
  <2>3. Count(check.strategy) = made[check.strategy]
    BY <1>0, <2>1 DEF ResearchInv, EveryTrialCounts
  <2>4. counted'.trials = counted'.of
    BY <1>0, <2>1, <2>3
  <2>5. QED
    BY <1>0, <1>1, <2>1, <2>2, <2>4
<1>10. ASSUME NEW s \in Studied, ReadHoldout(s) PROVE ResearchInv'
  <2> DEFINE spent == \E i \in DOMAIN accesses : accesses[i].strategy = s
             row == [strategy |-> s, refused |-> spent]
  <2>1. /\ accesses' = Append(accesses, row)
        /\ shown' = [shown EXCEPT ![s] = IF spent THEN @ ELSE @ + 1]
        /\ UNCHANGED <<trials, running, check, counted, made>>
    BY <1>10 DEF ReadHoldout
  <2>2. row \in Accesses /\ row.strategy = s /\ (row.refused <=> spent)
    BY DEF Accesses
  <2>3. ~spent => shown[s] = 0
    <3>1. ASSUME ~spent PROVE Places(accesses, Seen(s)) = {}
      BY <3>1 DEF Places, Seen
    <3>2. QED
      BY <1>0, <3>1, FS_EmptySet
  <2> HIDE DEF row, spent
  <2>4. accesses' \in Seq(Accesses)
    BY <1>0, <2>1, <2>2
  <2>5. shown' \in [Studied -> Nat]
    BY <1>0, <2>1
  <2>6. \A z \in Studied : shown'[z] <= 1 /\ shown'[z] = Cardinality(Places(accesses', Seen(z)))
    <3>1. SUFFICES ASSUME NEW z \in Studied
                   PROVE  shown'[z] <= 1 /\ shown'[z] = Cardinality(Places(accesses', Seen(z)))
      OBVIOUS
    <3>2. Cardinality(Places(accesses', Seen(z))) =
            Cardinality(Places(accesses, Seen(z))) + (IF row \in Seen(z) THEN 1 ELSE 0)
      BY <1>0, <2>1, <2>2, CountAppend
    <3>3. row \in Seen(z) <=> z = s /\ ~spent
      BY <2>2 DEF Seen
    <3>4. shown'[z] = shown[z] + (IF z = s /\ ~spent THEN 1 ELSE 0)
      BY <1>0, <2>1
    <3>5. QED
      BY <1>0, <2>3, <3>2, <3>3, <3>4
  <2>7. QED
    BY <1>0, <1>1, <2>1, <2>4, <2>5, <2>6
<1>11. CASE UNCHANGED researchVars
  BY <1>0, <1>1, <1>11 DEF researchVars
<1>12. ASSUME NEW n \in Samples, NEW folds \in 2..3, NEW purge \in 0..2, NEW embargo \in 0..2,
              Fold(n, folds, purge, embargo)
       PROVE  ResearchInv'
  BY <1>0, <1>1, <1>12 DEF Fold
<1>13. QED
  BY <1>2, <1>4, <1>5, <1>6, <1>7, <1>8, <1>9, <1>10, <1>11, <1>12 DEF ResearchNext

\* Every run counts as a trial and nobody sees a holdout twice.
THEOREM RunsAreTrials == ResearchSpec => []EveryTrialCounts
<1>1. ResearchInit => ResearchInv
  <2>1. SUFFICES ASSUME ResearchInit PROVE ResearchInv
    OBVIOUS
  <2>2. <<>> \in Seq(Trials) /\ <<>> \in Seq(Accesses) /\ Len(<<>>) = 0
    OBVIOUS
  <2>3. \A V : Cardinality(Places(<<>>, V)) = 0
    BY <2>2, CountType
  <2>4. /\ trials = <<>> /\ accesses = <<>> /\ running = 0
        /\ check = [at |-> "idle", strategy |-> "", since |-> 0]
        /\ counted.trials = counted.of
        /\ made = [s \in Studied |-> 0] /\ shown = [s \in Studied |-> 0]
    BY <2>1 DEF ResearchInit
  <2>5. EveryTrialCounts
    <3>1. \A s \in Studied : made[s] = 0 /\ shown[s] = 0
      BY <2>4
    <3>2. \A s \in Studied : Count(s) = 0
      BY <2>2, <2>3, <2>4, CountsArePlaces
    <3>3. \A s \in Studied :
            Cardinality({i \in DOMAIN accesses : accesses[i].strategy = s /\ ~accesses[i].refused}) = 0
      BY <2>2, <2>3, <2>4, CountsArePlaces
    <3>4. \A s \in Studied : Count(s) = made[s]
      BY <3>1, <3>2
    <3>5. \A s \in Studied : shown[s] <= 1 /\ shown[s] =
            Cardinality({i \in DOMAIN accesses : accesses[i].strategy = s /\ ~accesses[i].refused})
      <4>1. SUFFICES ASSUME NEW s \in Studied
                     PROVE  shown[s] <= 1 /\ shown[s] = Cardinality(
                              {i \in DOMAIN accesses : accesses[i].strategy = s /\ ~accesses[i].refused})
        OBVIOUS
      <4>2. shown[s] = 0 /\ Cardinality(
              {i \in DOMAIN accesses : accesses[i].strategy = s /\ ~accesses[i].refused}) = 0
        BY <3>1, <3>3
      <4>3. QED
        BY <4>2
    <3>6. QED
      BY <2>4, <3>4, <3>5, Zenon DEF EveryTrialCounts
  <2>6. QED
    <3>1. DOMAIN check = {"at", "strategy", "since"} /\ check.at = "idle"
      BY <2>4
    <3>a. made \in [Studied -> Nat] /\ shown \in [Studied -> Nat]
      BY <2>4
    <3>b. Len(trials) = 0
      BY <2>2, <2>4, Zenon
    <3>c. 0 \in 0..0
      OBVIOUS
    <3>2. made \in [Studied -> Nat] /\ shown \in [Studied -> Nat] /\ running \in 0..Len(trials)
      BY <2>4, <3>a, <3>b, <3>c
    <3>3. QED
      BY <2>2, <2>4, <2>5, <3>1, <3>2 DEF ResearchInv
<1>2. ResearchInv /\ [ResearchNext]_researchVars => ResearchInv'
  BY ResearchStep
<1>3. ResearchInv => EveryTrialCounts
  BY DEF ResearchInv
<1>4. QED
  BY <1>1, <1>2, <1>3, PTL DEF ResearchSpec

\* No split the harness makes leaks.
THEOREM SplitsStayApart == ResearchSpec => []SplitsDoNotLeak
<1>1. ResearchInit => SplitsDoNotLeak
  <2>1. ResearchInit => split.n = 0 /\ split.pairs = {}
    <3>1. NoSplit.n = 0 /\ NoSplit.pairs = {}
      BY DEF NoSplit
    <3>2. QED
      BY <3>1, Zenon DEF ResearchInit
  <2>2. 0..(0 - 1) = {} /\ UNION {} = {}
    OBVIOUS
  <2>3. split.n = 0 /\ split.pairs = {} => SplitsDoNotLeak
    <3>1. SUFFICES ASSUME split.n = 0, split.pairs = {} PROVE SplitsDoNotLeak
      OBVIOUS
    <3>2. {p.test : p \in split.pairs} = {}
      BY <3>1
    <3>3. QED
      BY <2>2, <3>1, <3>2 DEF SplitsDoNotLeak
  <2>4. QED
    BY <2>1, <2>3
<1>2. SplitsDoNotLeak /\ [ResearchNext]_researchVars => SplitsDoNotLeak'
  <2>1. SUFFICES ASSUME SplitsDoNotLeak, [ResearchNext]_researchVars PROVE SplitsDoNotLeak'
    OBVIOUS
  <2>2. ASSUME NEW n \in Samples, NEW folds \in 2..3, NEW purge \in 0..2, NEW embargo \in 0..2,
               Fold(n, folds, purge, embargo)
        PROVE  SplitsDoNotLeak'
    <3>1. n \in Nat /\ folds \in Nat \ {0} /\ purge \in Nat /\ embargo \in Nat
      BY ResearchAssumption
    <3>2. QED
      BY <2>2, <3>1, FoldsDoNotLeak
  <2>3. ASSUME split' = split PROVE SplitsDoNotLeak'
    BY <2>1, <2>3 DEF SplitsDoNotLeak
  <2>4. ASSUME split' = NoSplit PROVE SplitsDoNotLeak'
    BY <2>4 DEF NoSplit, SplitsDoNotLeak
  <2>5. QED
    BY <2>1, <2>2, <2>3, <2>4
       DEF ResearchNext, StartTrial, CompleteTrial, FailTrial, Die, Abandon, Validate, Advance,
           ReadHoldout, researchVars
<1>3. QED
  BY <1>1, <1>2, PTL DEF ResearchSpec

-----------------------------------------------------------------------------
(* The archive (Capture).                                                  *)

\* The records of a stream among those that arrived, and its part files.
OfStream(s, a) == {r \in DOMAIN a : a[r].stream = s}
PartsOf(s) == {p \in parts : p.stream = s}
PartFile == [stream : Stream, hour : Nat, index : Nat, rows : Seq(Nat), sum : BOOLEAN]
\* the clock does not go back
InOrder(a) == \A i, j \in DOMAIN a : i <= j => a[i].hour <= a[j].hour

\* What one part holds: some records of its stream, in order, all older than
\* those in the buffer; with its digest, none that was lost.
Filed(s, p, b, l, a) ==
  /\ \A i \in DOMAIN p.rows : p.rows[i] \in OfStream(s, a)
  /\ p.rows # <<>> /\ Rising(p.rows) /\ Precede(p.rows, b)
  /\ p.hour = a[p.rows[1]].hour
  /\ p.sum => \A i \in DOMAIN p.rows : p.rows[i] \notin l
Ahead(p, q) == PathBefore(p, q) /\ Precede(p.rows, q.rows)
Follow(P) == \A p, q \in P : p # q => Ahead(p, q) \/ Ahead(q, p)
\* no index of a directory is free below one that is taken
NoGaps(P) == \A p \in P : \A j \in Nat : j < p.index => \E q \in P : q.hour = p.hour /\ q.index = j
\* a record of the stream is in the buffer, or in a part that can be read
Archived(P, b, r) ==
  \/ \E i \in DOMAIN b : b[i] = r
  \/ \E p \in P : p.sum /\ \E i \in DOMAIN p.rows : p.rows[i] = r

\* The ledger of one stream: its parts, its buffer, what it lost, what arrived.
StreamLedger(s, P, b, l, a) ==
  /\ \A i \in DOMAIN b : b[i] \in OfStream(s, a) \ l
  /\ Rising(b)
  /\ \A p \in P : Filed(s, p, b, l, a)
  /\ Follow(P) /\ NoGaps(P)
  /\ \A r \in OfStream(s, a) : r \in l \/ Archived(P, b, r)

\* The inductive invariant: the ledger of every stream is in order.
Arrivals == Seq([stream : Stream, hour : Nat])

CaptureInv ==
  /\ hour \in Nat /\ buffers \in [Stream -> Seq(Nat)]
  /\ parts \in SUBSET PartFile /\ IsFiniteSet(parts)
  /\ arrived \in Arrivals /\ InOrder(arrived)
  /\ \A r \in DOMAIN arrived : arrived[r].hour <= hour
  /\ lost \subseteq DOMAIN arrived
  /\ \A s \in Stream : StreamLedger(s, PartsOf(s), buffers[s], lost, arrived)

\* A record arrives: the ledger of its stream takes it in its buffer, and those
\* of the others do not notice.
LEMMA RecordArrives ==
  ASSUME NEW s \in Stream, NEW P \in SUBSET PartFile, NEW b \in Seq(Nat), NEW a \in Arrivals,
         NEW l \in SUBSET DOMAIN a, NEW t \in Stream, NEW h \in Nat,
         StreamLedger(s, P, b, l, a)
  PROVE  StreamLedger(s, P, IF t = s THEN Append(b, Len(a) + 1) ELSE b, l,
                      Append(a, [stream |-> t, hour |-> h]))
<1> DEFINE r == Len(a) + 1
           n == [stream |-> t, hour |-> h]
           c == Append(a, n)
           d == IF t = s THEN Append(b, r) ELSE b
<1>1. /\ r \in Nat /\ DOMAIN a = 1..Len(a) /\ Len(a) \in Nat /\ DOMAIN c = 1..r
      /\ \A x \in DOMAIN a : c[x] = a[x] /\ x < r
      /\ c[r] = n
  BY DEF Arrivals
<1>2. OfStream(s, c) = OfStream(s, a) \cup (IF t = s THEN {r} ELSE {})
  BY <1>1 DEF OfStream
<1>3. OfStream(s, a) \subseteq DOMAIN a /\ r \notin DOMAIN a
  BY <1>1 DEF OfStream
<1>4. /\ \A i \in DOMAIN b : b[i] \in OfStream(s, a) \ l
      /\ Rising(b)
      /\ \A p \in P : Filed(s, p, b, l, a)
      /\ Follow(P) /\ NoGaps(P)
      /\ \A x \in OfStream(s, a) : x \in l \/ Archived(P, b, x)
  BY DEF StreamLedger
<1>5. /\ DOMAIN b = 1..Len(b) /\ Len(b) \in Nat
      /\ t = s => DOMAIN d = 1..(Len(b) + 1) /\ d[Len(b) + 1] = r
      /\ \A i \in DOMAIN b : i \in DOMAIN d /\ d[i] = b[i] /\ d[i] < r
      /\ t # s => d = b
  BY <1>1, <1>3, <1>4
<1> HIDE DEF c, d, n, r
<1>6. \A i \in DOMAIN d :
        \/ i \in DOMAIN b /\ d[i] = b[i] /\ d[i] < r
        \/ t = s /\ i = Len(b) + 1 /\ d[i] = r
  <2>1. CASE t = s
    BY <1>5, <2>1
  <2>2. CASE t # s
    BY <1>5, <2>2
  <2> QED BY <2>1, <2>2
<1>7. \A i \in DOMAIN d : d[i] \in OfStream(s, c) \ l
  BY <1>2, <1>3, <1>4, <1>6
<1>8. Rising(d)
  <2> SUFFICES ASSUME NEW i \in DOMAIN d, NEW j \in DOMAIN d, i < j PROVE d[i] < d[j]
    BY DEF Rising
  <2>1. i \in DOMAIN b /\ d[i] = b[i] /\ d[i] < r
    <3>1. CASE i = Len(b) + 1 /\ t = s
      BY <1>5, <3>1
    <3> QED BY <1>6, <3>1
  <2> QED BY <1>4, <1>6, <2>1 DEF Rising
<1>9. \A p \in P : Filed(s, p, d, l, c)
  <2> SUFFICES ASSUME NEW p \in P PROVE Filed(s, p, d, l, c)
    OBVIOUS
  <2>1. Filed(s, p, b, l, a) /\ p.rows \in Seq(Nat)
    BY <1>4 DEF PartFile
  <2>2. 1 \in DOMAIN p.rows
    BY <2>1 DEF Filed
  <2>3. \A i \in DOMAIN p.rows : p.rows[i] \in DOMAIN a /\ p.rows[i] < r
    BY <1>1, <1>3, <2>1 DEF Filed
  <2>4. p.hour = c[p.rows[1]].hour
    BY <1>1, <2>1, <2>2, <2>3 DEF Filed
  <2>5. Precede(p.rows, d)
    BY <1>6, <2>1, <2>3 DEF Filed, Precede
  <2> QED BY <1>2, <2>1, <2>4, <2>5 DEF Filed
<1>10. \A x \in OfStream(s, c) : x \in l \/ Archived(P, d, x)
  BY <1>2, <1>4, <1>5, <1>1 DEF Archived
<1> QED BY <1>4, <1>7, <1>8, <1>9, <1>10 DEF StreamLedger, c, d, n, r

\* The buffer stays, whatever other streams lose.
LEMMA StreamRests ==
  ASSUME NEW s, NEW P, NEW b, NEW l, NEW a, NEW m,
         \A r \in OfStream(s, a) : r \in m <=> r \in l,
         StreamLedger(s, P, b, l, a)
  PROVE  StreamLedger(s, P, b, m, a)
<1>1. \A p \in P : Filed(s, p, b, m, a)
  BY DEF StreamLedger, Filed
<1> QED BY <1>1 DEF StreamLedger

\* The buffer is lost with its process.
LEMMA BufferLost ==
  ASSUME NEW s, NEW P, NEW b, NEW l, NEW a \in Arrivals, NEW m,
         \A r \in OfStream(s, a) : r \in m <=> (r \in l \/ \E i \in DOMAIN b : b[i] = r),
         StreamLedger(s, P, b, l, a)
  PROVE  StreamLedger(s, P, <<>>, m, a)
<1>1. \A p \in P : Filed(s, p, <<>>, m, a)
  <2> SUFFICES ASSUME NEW p \in P PROVE Filed(s, p, <<>>, m, a)
    OBVIOUS
  <2>1. Filed(s, p, b, l, a)
    BY DEF StreamLedger
  <2>2. p.sum => \A i \in DOMAIN p.rows : p.rows[i] \notin m
    <3> SUFFICES ASSUME p.sum, NEW i \in DOMAIN p.rows, p.rows[i] \in m PROVE FALSE
      OBVIOUS
    <3>1. p.rows[i] \in OfStream(s, a) /\ p.rows[i] \notin l /\ p.rows[i] \in Int
      BY <2>1 DEF Filed, OfStream, Arrivals
    <3>2. PICK j \in DOMAIN b : b[j] = p.rows[i]
      BY <3>1
    <3> QED BY <2>1, <3>1, <3>2 DEF Filed, Precede
  <2> QED BY <2>1, <2>2 DEF Filed, Precede
<1> QED BY <1>1 DEF StreamLedger, Archived, Rising

\* n holds the rows of b, at the first index its directory has free.
IsNext(P, b, a, n) ==
  /\ n.rows = b /\ n.hour = a[b[1]].hour /\ n.index \in Nat
  /\ \A p \in P : p.hour = n.hour => p.index # n.index
  /\ \A j \in Nat : j < n.index => \E p \in P : p.hour = n.hour /\ p.index = j
\* what becomes lost of the stream is the torn part
LostTorn(s, b, a, l, m, n) == \A r \in OfStream(s, a) :
  r \in m <=> (r \in l \/ (~n.sum /\ \E k \in DOMAIN b : b[k] = r))

\* The buffer goes out as the next part of its directory; the process may end
\* before the digest is there.
LEMMA PartFollows ==
  ASSUME NEW s \in Stream, NEW P \in SUBSET PartFile, NEW b \in Seq(Nat), NEW a \in Arrivals,
         NEW l, NEW m, NEW n, b # <<>>,
         IsNext(P, b, a, n), LostTorn(s, b, a, l, m, n),
         InOrder(a), StreamLedger(s, P, b, l, a)
  PROVE  StreamLedger(s, P \cup {n}, <<>>, m, a)
<1> USE DEF IsNext, LostTorn
<1> DEFINE Arrival == [stream : Stream, hour : Nat]
<1>0. DOMAIN a = 1..Len(a) /\ \A x \in DOMAIN a : a[x] \in Arrival
  <2>1. a \in Seq(Arrival)
    BY DEF Arrivals
  <2> HIDE DEF Arrival
  <2> QED BY <2>1
<1>1. /\ \A k \in DOMAIN b : b[k] \in OfStream(s, a) \ l
      /\ Rising(b)
      /\ \A p \in P : Filed(s, p, b, l, a)
      /\ Follow(P) /\ NoGaps(P)
      /\ \A x \in OfStream(s, a) : x \in l \/ Archived(P, b, x)
  BY DEF StreamLedger
<1>2. 1 \in DOMAIN b /\ b[1] \in DOMAIN a
  BY <1>1 DEF OfStream
<1>3. \A p \in P : Filed(s, p, <<>>, m, a)
  <2> SUFFICES ASSUME NEW p \in P PROVE Filed(s, p, <<>>, m, a)
    OBVIOUS
  <2>1. Filed(s, p, b, l, a)
    BY <1>1
  <2>2. p.sum => \A k \in DOMAIN p.rows : p.rows[k] \notin m
    <3> SUFFICES ASSUME p.sum, NEW k \in DOMAIN p.rows, p.rows[k] \in m PROVE FALSE
      OBVIOUS
    <3>1. p.rows[k] \in OfStream(s, a) /\ p.rows[k] \notin l /\ p.rows[k] \in Int
      BY <1>0, <2>1 DEF Filed, OfStream
    <3>2. PICK j \in DOMAIN b : b[j] = p.rows[k]
      BY <3>1
    <3> QED BY <2>1, <3>1, <3>2 DEF Filed, Precede
  <2> QED BY <2>1, <2>2 DEF Filed, Precede
<1>4. Filed(s, n, <<>>, m, a)
  <2>1. n.sum => \A k \in DOMAIN b : b[k] \notin m
    BY <1>1
  <2> QED BY <1>1, <2>1 DEF Filed, Precede
<1>5. ASSUME NEW p \in P PROVE Ahead(p, n)
  <2>1. Filed(s, p, b, l, a) /\ p.rows \in Seq(Nat) /\ p.hour \in Nat /\ p.index \in Nat
    BY <1>1 DEF PartFile
  <2>2. 1 \in DOMAIN p.rows /\ p.rows[1] \in DOMAIN a /\ Precede(p.rows, b)
    BY <2>1 DEF Filed, OfStream
  <2>3. p.rows[1] <= b[1]
    BY <1>0, <1>2, <2>2 DEF Precede
  <2>4. p.hour <= n.hour /\ n.hour \in Nat
    <3>1. p.hour = a[p.rows[1]].hour /\ n.hour = a[b[1]].hour /\ a[b[1]].hour \in Nat
      <4>1. a[b[1]] \in Arrival
        BY <1>0, <1>2
      <4> QED BY <2>1, <4>1 DEF Filed
    <3>2. a[p.rows[1]].hour <= a[b[1]].hour
      BY <1>0, <1>2, <2>2, <2>3 DEF InOrder
    <3> QED BY <3>1, <3>2
  <2>5. ASSUME p.hour = n.hour PROVE p.index < n.index
    <3> SUFFICES ASSUME n.index < p.index PROVE FALSE
      BY <2>1, <2>5
    <3>1. PICK q \in P : q.hour = p.hour /\ q.index = n.index
      BY <1>1 DEF NoGaps
    <3> QED BY <2>5, <3>1
  <2>6. PathBefore(p, n)
    BY <2>1, <2>4, <2>5 DEF PathBefore
  <2> QED BY <2>2, <2>6 DEF Ahead
<1>6. Follow(P \cup {n})
  BY <1>1, <1>5 DEF Follow
<1>7. NoGaps(P \cup {n})
  <2> SUFFICES ASSUME NEW p \in P \cup {n}, NEW j \in Nat, j < p.index
               PROVE  \E q \in P : q.hour = p.hour /\ q.index = j
    BY DEF NoGaps
  <2> QED BY <1>1 DEF NoGaps
<1>8. \A x \in OfStream(s, a) : x \in m \/ Archived(P \cup {n}, <<>>, x)
  <2> SUFFICES ASSUME NEW x \in OfStream(s, a), x \notin m PROVE Archived(P \cup {n}, <<>>, x)
    OBVIOUS
  <2>1. x \notin l /\ (n.sum \/ ~\E k \in DOMAIN b : b[k] = x)
    OBVIOUS
  <2>3. Archived(P, b, x)
    BY <1>1, <2>1
  <2>2. CASE \E k \in DOMAIN b : b[k] = x
    BY <2>1, <2>2 DEF Archived
  <2> QED BY <2>2, <2>3 DEF Archived
<1>9. Rising(<<>>) /\ \A k \in DOMAIN <<>> : <<>>[k] \in OfStream(s, a) \ m
  BY DEF Rising
<1>10. \A p \in P \cup {n} : Filed(s, p, <<>>, m, a)
  BY <1>3, <1>4
<1> QED BY <1>6, <1>7, <1>8, <1>9, <1>10 DEF StreamLedger

\* _next_part finds an index: no more are taken than there are parts.
LEMMA FreeIndex ==
  ASSUME parts \in SUBSET PartFile, IsFiniteSet(parts), NEW s, NEW h
  PROVE  /\ Free(s, h) \in Nat
         /\ \A p \in Directory(s, h) : p.index # Free(s, h)
         /\ \A j \in Nat : j < Free(s, h) => \E p \in Directory(s, h) : p.index = j
<1> DEFINE n == Cardinality(parts)
           D == {p \in Directory(s, h) : p.index \in 0..n}
           f == [p \in D |-> p.index]
           Open == {i \in 0..n : \A p \in Directory(s, h) : p.index # i}
<1>1. n \in Nat
  BY FS_CardinalityType
<1>2. D \in SUBSET parts
  BY DEF Directory
<1>3. IsFiniteSet(D) /\ Cardinality(D) <= n
  <2> HIDE DEF D
  <2> QED BY <1>2, FS_Subset
<1>4. Open # {}
  <2> SUFFICES ASSUME Open = {} PROVE FALSE
    OBVIOUS
  <2>1. f \in Surjection(D, 0..n)
    BY DEF Surjection
  <2>2. Cardinality(0..n) <= Cardinality(D)
    <3> HIDE DEF f, D, n
    <3> QED BY <1>3, <2>1, FS_Surjection
  <2>3. Cardinality(0..n) = n + 1
    BY <1>1, FS_Interval
  <2>4. Cardinality(D) \in Nat
    BY <1>3, FS_CardinalityType
  <2> HIDE DEF D, n
  <2> QED BY <1>1, <1>3, <2>2, <2>3, <2>4
<1>5. IsFiniteSet(Open) /\ Open \subseteq Int
  <2>1. IsFiniteSet(0..n) /\ Open \in SUBSET (0..n)
    BY <1>1, FS_Interval
  <2>2. 0..n \subseteq Int
    BY <1>1
  <2> HIDE DEF Open
  <2>3. IsFiniteSet(Open)
    BY <2>1, FS_Subset
  <2> QED BY <2>1, <2>2, <2>3
<1>6. PICK i \in Open : \A j \in Open : i <= j
  <2> HIDE DEF Open
  <2> QED BY <1>4, <1>5, Extremes
<1>7. \A j \in 0..i - 1 : \E p \in Directory(s, h) : p.index = j
  <2> SUFFICES ASSUME NEW j \in 0..i - 1, \A p \in Directory(s, h) : p.index # j PROVE FALSE
    OBVIOUS
  <2>1. j \in Open /\ j < i
    BY <1>1
  <2> QED BY <1>1, <1>6, <2>1
<1>8. \E k \in 0..n : /\ \A p \in Directory(s, h) : p.index # k
                     /\ \A j \in 0..k - 1 : \E p \in Directory(s, h) : p.index = j
  BY <1>6, <1>7
<1>9. /\ Free(s, h) \in 0..n
      /\ \A p \in Directory(s, h) : p.index # Free(s, h)
      /\ \A j \in 0..Free(s, h) - 1 : \E p \in Directory(s, h) : p.index = j
  <2> HIDE DEF n
  <2> QED BY <1>8 DEF Free, n
<1>10. Free(s, h) \in Nat
  BY <1>1, <1>9
<1> QED BY <1>9, <1>10

\* What has no path in common with the archive is added to it.
LEMMA Filing ==
  ASSUME NEW b \in [Stream -> Seq(Nat)], NEW out \in SUBSET Stream, NEW torn \in SUBSET out,
         parts \in SUBSET PartFile, IsFiniteSet(parts), arrived' \in Arrivals,
         \A s \in out : b[s] # <<>> /\ b[s][1] \in DOMAIN arrived',
         parts' = WriteOut(b, out, torn)
  PROVE  /\ parts' \in SUBSET PartFile /\ IsFiniteSet(parts')
         /\ \A s \in Stream \ out : PartsOf(s)' = PartsOf(s)
         /\ \A s \in out : PartsOf(s)' = PartsOf(s) \cup {Part(s, b[s], s \notin torn)}
<1> DEFINE N(s) == Part(s, b[s], s \notin torn)
           new == {N(s) : s \in out}
<1>1. \A x \in DOMAIN arrived' : arrived'[x].hour \in Nat
  <2> DEFINE Arrival == [stream : Stream, hour : Nat]
  <2>1. arrived' \in Seq(Arrival)
    BY DEF Arrivals
  <2>2. \A x \in Arrival : x.hour \in Nat
    OBVIOUS
  <2> HIDE DEF Arrival
  <2> QED BY <2>1, <2>2
<1>2. ASSUME NEW s \in out
      PROVE  /\ N(s) \in PartFile /\ N(s).stream = s
             /\ \A p \in parts : <<p.stream, p.hour, p.index>> # <<N(s).stream, N(s).hour, N(s).index>>
  <2>1. PICK h \in Nat : h = arrived'[b[s][1]].hour
    BY <1>1
  <2>2. N(s) = [stream |-> s, hour |-> h, index |-> Free(s, h), rows |-> b[s], sum |-> s \notin torn]
    BY <2>1 DEF Part
  <2>3. Free(s, h) \in Nat /\ \A p \in Directory(s, h) : p.index # Free(s, h)
    BY FreeIndex
  <2>4. \A p \in parts : p.stream = s /\ p.hour = h => p \in Directory(s, h)
    BY DEF Directory
  <2>5. b[s] \in Seq(Nat) /\ s \in Stream
    OBVIOUS
  <2> HIDE DEF N
  <2> QED BY <2>2, <2>3, <2>4, <2>5 DEF PartFile
<1>3. parts' = parts \cup new
  <2>1. \A n \in new : \A p \in parts : <<p.stream, p.hour, p.index>> # <<n.stream, n.hour, n.index>>
    <3> HIDE DEF N
    <3> QED BY <1>2
  <2>2. parts' = Written(new)
    BY DEF WriteOut
  <2> HIDE DEF new
  <2> QED BY <2>1, <2>2 DEF Written
<1>4. IsFiniteSet(new)
  <2> DEFINE f == [s \in out |-> N(s)]
  <2>1. IsFiniteSet(out)
    BY FS_Subset, CaptureAssumption
  <2>2. f \in Surjection(out, new)
    <3> HIDE DEF N
    <3> QED BY DEF Surjection
  <2> HIDE DEF f, new
  <2> QED BY <2>1, <2>2, FS_Surjection
<1>5. IsFiniteSet(parts \cup new)
  <2> HIDE DEF new
  <2> QED BY <1>4, FS_Union
<1>6. new \subseteq PartFile
  <2> HIDE DEF N
  <2> QED BY <1>2
<1> HIDE DEF N
<1>7. \A s \in Stream : PartsOf(s)' = PartsOf(s) \cup {n \in new : n.stream = s}
  <2> HIDE DEF new
  <2> QED BY <1>3 DEF PartsOf
<1>8. ASSUME NEW s \in Stream \ out PROVE {n \in new : n.stream = s} = {}
  BY <1>2
<1>9. ASSUME NEW s \in out PROVE {n \in new : n.stream = s} = {N(s)}
  BY <1>2
<1> USE DEF N
<1> HIDE DEF new
<1>10. \A s \in out : PartsOf(s)' = PartsOf(s) \cup {Part(s, b[s], s \notin torn)}
  BY <1>7, <1>9
<1>11. \A s \in Stream \ out : PartsOf(s)' = PartsOf(s)
  BY <1>7, <1>8
<1> QED BY <1>3, <1>5, <1>6, <1>10, <1>11

\* Whatever becomes of a flush, and of its process, the ledger of every stream
\* is kept: what was not written out stays in the buffer or is lost with it.
LEMMA LedgersWritten ==
  ASSUME NEW b \in [Stream -> Seq(Nat)], NEW out \in SUBSET Stream, NEW torn \in SUBSET out,
         parts \in SUBSET PartFile, IsFiniteSet(parts), arrived' \in Arrivals,
         InOrder(arrived'), lost \subseteq DOMAIN arrived',
         \A s \in out : b[s] # <<>>,
         \A s \in Stream : StreamLedger(s, PartsOf(s), b[s], lost, arrived'),
         parts' = WriteOut(b, out, torn),
         \/ torn = {} /\ buffers' = Emptied(b, out) /\ lost' = lost
         \/ Dies(b, out \ torn)
  PROVE  /\ buffers' \in [Stream -> Seq(Nat)]
         /\ parts' \in SUBSET PartFile /\ IsFiniteSet(parts')
         /\ lost' \subseteq DOMAIN arrived'
         /\ \A s \in Stream : StreamLedger(s, PartsOf(s)', buffers'[s], lost', arrived')
<1>1. \A s \in Stream : \A i \in DOMAIN b[s] : b[s][i] \in OfStream(s, arrived')
  BY DEF StreamLedger
<1>2. \A s \in out : 1 \in DOMAIN b[s] /\ b[s][1] \in DOMAIN arrived'
  <2> SUFFICES ASSUME NEW s \in out PROVE 1 \in DOMAIN b[s] /\ b[s][1] \in DOMAIN arrived'
    OBVIOUS
  <2>1. b[s] \in Seq(Nat) /\ b[s] # <<>>
    OBVIOUS
  <2>2. 1 \in DOMAIN b[s]
    BY <2>1
  <2> QED BY <1>1, <2>2 DEF OfStream
<1>3. /\ parts' \in SUBSET PartFile /\ IsFiniteSet(parts')
      /\ \A s \in Stream \ out : PartsOf(s)' = PartsOf(s)
      /\ \A s \in out : PartsOf(s)' = PartsOf(s) \cup {Part(s, b[s], s \notin torn)}
  <2>1. \A s \in out : b[s] # <<>> /\ b[s][1] \in DOMAIN arrived'
    BY <1>2
  <2> QED BY <2>1, Filing
<1>4. buffers' \in [Stream -> Seq(Nat)]
  <2>1. CASE buffers' = Emptied(b, out)
    BY <2>1 DEF Emptied
  <2>2. CASE Dies(b, out \ torn)
    BY <2>2 DEF Dies, NoBuffers
  <2> QED BY <2>1, <2>2
<1>5. \A r : r \in Unwritten(Emptied(b, out \ torn)) <=>
             \E s \in Stream \ (out \ torn) : \E i \in DOMAIN b[s] : b[s][i] = r
  BY DEF Unwritten, Emptied, ToSet
<1>6. lost' \subseteq DOMAIN arrived'
  <2>1. CASE lost' = lost
    BY <2>1
  <2>2. CASE Dies(b, out \ torn)
    <3>1. lost' = lost \cup Unwritten(Emptied(b, out \ torn))
      BY <2>2 DEF Dies
    <3>2. Unwritten(Emptied(b, out \ torn)) \subseteq DOMAIN arrived'
      <4> SUFFICES ASSUME NEW r \in Unwritten(Emptied(b, out \ torn)) PROVE r \in DOMAIN arrived'
        OBVIOUS
      <4>1. PICK s \in Stream \ (out \ torn) : \E i \in DOMAIN b[s] : b[s][i] = r
        BY <1>5
      <4> QED BY <1>1, <4>1 DEF OfStream
    <3> QED BY <3>1, <3>2
  <2> QED BY <2>1, <2>2
<1>7. ASSUME NEW s \in Stream
      PROVE  StreamLedger(s, PartsOf(s)', buffers'[s], lost', arrived')
  <2>1. PICK a \in Arrivals : a = arrived'
    OBVIOUS
  <2>2. PICK P \in SUBSET PartFile : P = PartsOf(s)
    BY DEF PartsOf
  <2>4. PICK l \in SUBSET DOMAIN a : l = lost
    BY <2>1
  <2>5. PICK m \in SUBSET DOMAIN a : m = lost'
    BY <1>6, <2>1
  <2>6. StreamLedger(s, P, b[s], l, a) /\ InOrder(a) /\ b[s] \in Seq(Nat)
    BY <2>1, <2>2, <2>4
  <2>7. ASSUME s \in out,
               \A r \in OfStream(s, a) :
                 r \in m <=> (r \in l \/ (s \in torn /\ \E k \in DOMAIN b[s] : b[s][k] = r))
        PROVE  StreamLedger(s, PartsOf(s)', <<>>, m, a)
    <3>1. PICK g \in Nat : g = a[b[s][1]].hour
      <4> DEFINE Arrival == [stream : Stream, hour : Nat]
      <4>1. a \in Seq(Arrival) /\ b[s][1] \in DOMAIN a
        BY <1>2, <2>1, <2>7 DEF Arrivals
      <4>2. \A x \in Arrival : x.hour \in Nat
        OBVIOUS
      <4> HIDE DEF Arrival
      <4> QED BY <4>1, <4>2
    <3>2. /\ Free(s, g) \in Nat
          /\ \A p \in Directory(s, g) : p.index # Free(s, g)
          /\ \A j \in Nat : j < Free(s, g) => \E p \in Directory(s, g) : p.index = j
      BY FreeIndex
    <3>3. Directory(s, g) = {p \in P : p.hour = g}
      BY <2>2 DEF Directory, PartsOf
    <3>4. PICK i \in Nat : i = Free(s, g)
      BY <3>2
    <3>5. PICK n : n = [stream |-> s, hour |-> g, index |-> i, rows |-> b[s], sum |-> s \notin torn]
      OBVIOUS
    <3>6. n = Part(s, b[s], s \notin torn)
      BY <2>1, <3>1, <3>4, <3>5 DEF Part
    <3>7. PartsOf(s)' = P \cup {n}
      BY <1>3, <2>2, <2>7, <3>6
    <3>8. /\ n.rows = b[s] /\ n.hour = a[b[s][1]].hour /\ n.index = i
          /\ n.hour = g /\ n.sum = (s \notin torn)
      BY <3>1, <3>5
    <3>9. \A p \in P : p.hour = n.hour => p.index # n.index
      BY <3>2, <3>3, <3>4, <3>8
    <3>10. \A j \in Nat : j < n.index => \E p \in P : p.hour = n.hour /\ p.index = j
      BY <3>2, <3>3, <3>4, <3>8
    <3>11. \A r \in OfStream(s, a) :
             r \in m <=> (r \in l \/ (~n.sum /\ \E k \in DOMAIN b[s] : b[s][k] = r))
      BY <2>7, <3>8
    <3>12. b[s] # <<>>
      BY <2>7
    <3>13. StreamLedger(s, P \cup {n}, <<>>, m, a)
      <4>1. PICK c \in Seq(Nat) : c = b[s]
        BY <2>6
      <4>2. c # <<>> /\ InOrder(a) /\ StreamLedger(s, P, c, l, a)
        BY <2>6, <3>12, <4>1
      <4>3. IsNext(P, c, a, n)
        BY <3>8, <3>9, <3>10, <4>1 DEF IsNext
      <4>4. LostTorn(s, c, a, l, m, n)
        BY <3>11, <4>1 DEF LostTorn
      <4> QED BY <4>2, <4>3, <4>4, PartFollows
    <3> QED BY <3>7, <3>13
  <2>8. ASSUME torn = {}, buffers' = Emptied(b, out), lost' = lost
        PROVE  StreamLedger(s, PartsOf(s)', buffers'[s], lost', arrived')
    <3>1. m = l
      BY <2>4, <2>5, <2>8
    <3>2. CASE s \in out
      BY <2>1, <2>5, <2>7, <2>8, <3>1, <3>2 DEF Emptied
    <3>3. CASE s \notin out
      <4>1. PartsOf(s)' = P /\ buffers'[s] = b[s]
        BY <1>3, <2>2, <2>8, <3>3 DEF Emptied
      <4> QED BY <2>1, <2>5, <2>6, <3>1, <4>1
    <3> QED BY <3>2, <3>3
  <2>9. ASSUME Dies(b, out \ torn)
        PROVE  StreamLedger(s, PartsOf(s)', buffers'[s], lost', arrived')
    <3>1. buffers'[s] = <<>> /\ lost' = lost \cup Unwritten(Emptied(b, out \ torn))
      BY <2>9 DEF Dies, NoBuffers
    <3>2. \A r \in OfStream(s, a) : \A t \in Stream : \A i \in DOMAIN b[t] : b[t][i] = r => t = s
      BY <1>1, <2>1 DEF OfStream
    <3>3. \A r \in OfStream(s, a) :
            r \in m <=> (r \in l \/ (s \notin out \ torn /\ \E k \in DOMAIN b[s] : b[s][k] = r))
      <4> SUFFICES ASSUME NEW r \in OfStream(s, a)
                   PROVE  r \in m <=> (r \in l \/ (s \notin out \ torn /\ \E k \in DOMAIN b[s] : b[s][k] = r))
        OBVIOUS
      <4>1. r \in m <=> (r \in l \/ r \in Unwritten(Emptied(b, out \ torn)))
        BY <2>4, <2>5, <3>1
      <4>2. r \in Unwritten(Emptied(b, out \ torn)) <=>
              \E t \in Stream \ (out \ torn) : \E i \in DOMAIN b[t] : b[t][i] = r
        BY <1>5
      <4> QED BY <3>2, <4>1, <4>2
    <3>4. CASE s \in out
      BY <2>1, <2>5, <2>7, <3>1, <3>3, <3>4
    <3>5. CASE s \notin out
      <4>1. PartsOf(s)' = P
        BY <1>3, <2>2, <3>5
      <4>2. \A r \in OfStream(s, a) : r \in m <=> (r \in l \/ \E i \in DOMAIN b[s] : b[s][i] = r)
        BY <3>3, <3>5
      <4>3. StreamLedger(s, P, <<>>, m, a)
        BY <2>6, <4>2, BufferLost
      <4> QED BY <2>1, <2>5, <3>1, <4>1, <4>3
    <3> QED BY <3>4, <3>5
  <2> QED BY <2>8, <2>9
<1> QED BY <1>3, <1>4, <1>6, <1>7

\* An empty archive is in order.
LEMMA CaptureStarts == CaptureInit => CaptureInv
<1> SUFFICES ASSUME CaptureInit PROVE CaptureInv
  OBVIOUS
<1>1. /\ buffers = [s \in Stream |-> <<>>] /\ parts = {} /\ hour = 0
      /\ arrived = <<>> /\ lost = {}
  BY DEF CaptureInit, NoBuffers
<1>2. buffers \in [Stream -> Seq(Nat)]
  BY <1>1
<1>3. IsFiniteSet(parts) /\ arrived \in Arrivals /\ DOMAIN arrived = {}
  BY <1>1, FS_EmptySet DEF Arrivals
<1>4. ASSUME NEW s \in Stream
      PROVE  StreamLedger(s, PartsOf(s), buffers[s], lost, arrived)
  <2>1. PartsOf(s) = {} /\ DOMAIN buffers[s] = {} /\ OfStream(s, arrived) = {}
    BY <1>1, <1>3 DEF PartsOf, OfStream
  <2> QED BY <2>1 DEF StreamLedger, Rising, Follow, NoGaps
<1> QED BY <1>1, <1>2, <1>3, <1>4 DEF CaptureInv, InOrder

\* A record comes in: it goes to its buffer, which may then be written out.
LEMMA RecordOffered ==
  ASSUME CaptureInv, NEW t \in Stream, Offer(t)
  PROVE  CaptureInv'
<1> DEFINE r == Len(arrived) + 1
           n == [stream |-> t, hour |-> hour]
           after == [buffers EXCEPT ![t] = Append(@, r)]
<1>1. /\ hour \in Nat /\ buffers \in [Stream -> Seq(Nat)]
      /\ parts \in SUBSET PartFile /\ IsFiniteSet(parts)
      /\ arrived \in Arrivals /\ InOrder(arrived)
      /\ \A x \in DOMAIN arrived : arrived[x].hour <= hour
      /\ lost \subseteq DOMAIN arrived
      /\ \A s \in Stream : StreamLedger(s, PartsOf(s), buffers[s], lost, arrived)
  BY DEF CaptureInv
<1>2. /\ arrived' = Append(arrived, n) /\ hour' = hour
      /\ \/ buffers' = after /\ UNCHANGED <<parts, lost>>
         \/ Flush(after, FALSE)
  BY DEF Offer
<1>3. n \in [stream : Stream, hour : Nat] /\ n.hour = hour
  BY <1>1
<1>4. arrived' \in Arrivals
  <2> HIDE DEF n
  <2> QED BY <1>1, <1>2, <1>3 DEF Arrivals
<1>5. /\ DOMAIN arrived' = DOMAIN arrived \cup {r} /\ DOMAIN arrived \subseteq Int
      /\ \A x \in DOMAIN arrived : arrived'[x] = arrived[x] /\ x < r
      /\ arrived'[r] = n /\ r \in Nat
  <2> HIDE DEF n
  <2> QED BY <1>1, <1>2 DEF Arrivals
<1> HIDE DEF n, r
<1>6. /\ InOrder(arrived') /\ \A x \in DOMAIN arrived' : arrived'[x].hour <= hour
      /\ lost \subseteq DOMAIN arrived'
  <2>1. ASSUME NEW x \in DOMAIN arrived' PROVE arrived'[x].hour <= hour
    BY <1>1, <1>3, <1>5
  <2>2. ASSUME NEW i \in DOMAIN arrived', NEW j \in DOMAIN arrived', i <= j
        PROVE  arrived'[i].hour <= arrived'[j].hour
    <3>1. CASE j = r
      BY <1>3, <1>5, <2>1, <3>1
    <3>2. CASE j # r
      BY <1>1, <1>5, <2>2, <3>2 DEF InOrder
    <3> QED BY <3>1, <3>2
  <2> QED BY <1>1, <1>5, <2>1, <2>2 DEF InOrder
<1>7. PICK b \in [Stream -> Seq(Nat)] : b = after
  <2>1. Append(buffers[t], r) \in Seq(Nat)
    BY <1>1, <1>5
  <2> QED BY <1>1, <2>1
<1>8. ASSUME NEW s \in Stream
      PROVE  StreamLedger(s, PartsOf(s), b[s], lost, arrived')
  <2>1. PICK a \in Arrivals : a = arrived
    BY <1>1
  <2>2. PICK P \in SUBSET PartFile : P = PartsOf(s)
    BY <1>1 DEF PartsOf
  <2>3. PICK l \in SUBSET DOMAIN a : l = lost
    BY <1>1, <2>1
  <2>4. PICK h \in Nat : h = hour
    BY <1>1
  <2>5. PICK c \in Seq(Nat) : c = buffers[s]
    BY <1>1
  <2>6. StreamLedger(s, P, c, l, a)
    BY <1>1, <2>1, <2>2, <2>3, <2>5
  <2>7. StreamLedger(s, P, IF t = s THEN Append(c, Len(a) + 1) ELSE c, l,
                     Append(a, [stream |-> t, hour |-> h]))
    BY <2>6, RecordArrives
  <2>8. b[s] = IF t = s THEN Append(c, Len(a) + 1) ELSE c
    BY <1>1, <1>7, <2>1, <2>5 DEF r
  <2>9. arrived' = Append(a, [stream |-> t, hour |-> h])
    BY <1>2, <2>1, <2>4 DEF n
  <2> QED BY <2>2, <2>3, <2>7, <2>8, <2>9
<1>9. /\ buffers' \in [Stream -> Seq(Nat)]
      /\ parts' \in SUBSET PartFile /\ IsFiniteSet(parts')
      /\ lost' \subseteq DOMAIN arrived'
      /\ \A s \in Stream : StreamLedger(s, PartsOf(s)', buffers'[s], lost', arrived')
  <2>1. CASE buffers' = after /\ UNCHANGED <<parts, lost>>
    <3>1. \A s \in Stream : PartsOf(s)' = PartsOf(s)
      BY <2>1 DEF PartsOf
    <3> QED BY <1>1, <1>6, <1>7, <1>8, <2>1, <3>1
  <2>2. CASE Flush(after, FALSE)
    <3>1. Flush(b, FALSE)
      BY <1>7, <2>2
    <3>2. PICK out \in SUBSET Stream, torn \in SUBSET Stream :
            /\ Writes(b, FALSE, out, torn)
            /\ \/ torn = {} /\ buffers' = Emptied(b, out) /\ lost' = lost
               \/ Dies(b, out \ torn)
      BY <3>1 DEF Flush
    <3>3. torn \in SUBSET out /\ parts' = WriteOut(b, out, torn)
      BY <3>2 DEF Writes
    <3>4. \A s \in out : b[s] # <<>>
      BY <3>2, CaptureAssumption DEF Writes, Ready
    <3> HIDE DEF after
    <3> QED BY <1>1, <1>4, <1>6, <1>8, <3>2, <3>3, <3>4, LedgersWritten
  <2> QED BY <1>2, <2>1, <2>2
<1> QED BY <1>1, <1>2, <1>4, <1>6, <1>9 DEF CaptureInv

\* Every step of the writer, of its process and of the world keeps the ledgers.
LEMMA CaptureStep == CaptureInv /\ [CaptureNext]_captureVars => CaptureInv'
<1> SUFFICES ASSUME CaptureInv, [CaptureNext]_captureVars PROVE CaptureInv'
  OBVIOUS
<1>1. /\ hour \in Nat /\ buffers \in [Stream -> Seq(Nat)]
      /\ parts \in SUBSET PartFile /\ IsFiniteSet(parts)
      /\ arrived \in Arrivals /\ InOrder(arrived)
      /\ \A x \in DOMAIN arrived : arrived[x].hour <= hour
      /\ lost \subseteq DOMAIN arrived
      /\ \A s \in Stream : StreamLedger(s, PartsOf(s), buffers[s], lost, arrived)
  BY DEF CaptureInv
<1>2. ASSUME UNCHANGED <<buffers, parts, arrived, lost>>, hour' \in Nat, hour <= hour'
      PROVE  CaptureInv'
  <2>1. \A s \in Stream : PartsOf(s)' = PartsOf(s)
    BY <1>2 DEF PartsOf
  <2>2. \A x \in DOMAIN arrived : arrived[x].hour \in Nat
    <3> DEFINE Arrival == [stream : Stream, hour : Nat]
    <3>1. arrived \in Seq(Arrival)
      BY <1>1 DEF Arrivals
    <3>2. \A x \in Arrival : x.hour \in Nat
      OBVIOUS
    <3> HIDE DEF Arrival
    <3> QED BY <3>1, <3>2
  <2>3. \A x \in DOMAIN arrived' : arrived'[x].hour <= hour'
    BY <1>1, <1>2, <2>2
  <2> QED BY <1>1, <1>2, <2>1, <2>3 DEF CaptureInv
<1>3. ASSUME NEW out \in SUBSET Stream, NEW torn \in SUBSET out, hour' = hour, arrived' = arrived,
             \A s \in out : buffers[s] # <<>>,
             parts' = WriteOut(buffers, out, torn), Dies(buffers, out \ torn)
      PROVE  CaptureInv'
  <2>1. PICK b \in [Stream -> Seq(Nat)] : b = buffers
    BY <1>1
  <2>2. /\ \A s \in out : b[s] # <<>>
        /\ \A s \in Stream : StreamLedger(s, PartsOf(s), b[s], lost, arrived')
        /\ parts' = WriteOut(b, out, torn) /\ Dies(b, out \ torn)
        /\ arrived' \in Arrivals /\ InOrder(arrived') /\ lost \subseteq DOMAIN arrived'
    BY <1>1, <1>3, <2>1
  <2>3. /\ buffers' \in [Stream -> Seq(Nat)]
        /\ parts' \in SUBSET PartFile /\ IsFiniteSet(parts')
        /\ lost' \subseteq DOMAIN arrived'
        /\ \A s \in Stream : StreamLedger(s, PartsOf(s)', buffers'[s], lost', arrived')
    BY <1>1, <2>2, LedgersWritten
  <2> QED BY <1>1, <1>3, <2>2, <2>3 DEF CaptureInv
<1>4. ASSUME NEW s \in Stream, Offer(s) PROVE CaptureInv'
  BY <1>4, RecordOffered
<1>5. CASE StopCapture
  BY <1>1, <1>2, <1>5 DEF StopCapture
<1>6. CASE Close
  <2>1. PICK out \in SUBSET Stream, torn \in SUBSET Stream :
          Writes(buffers, TRUE, out, torn) /\ Dies(buffers, out \ torn)
    BY <1>6 DEF Close
  <2>2. /\ torn \in SUBSET out /\ parts' = WriteOut(buffers, out, torn)
        /\ hour' = hour /\ arrived' = arrived
    BY <1>6, <2>1 DEF Writes, Close
  <2>3. \A s \in out : buffers[s] # <<>>
    BY <2>1 DEF Writes, Ready
  <2> QED BY <1>3, <2>1, <2>2, <2>3
<1>7. CASE Crash
  <2>1. /\ UNCHANGED <<parts, arrived, hour>> /\ Dies(buffers, {} \ {})
    BY <1>7 DEF Crash
  <2>2. WriteOut(buffers, {}, {}) = parts
    BY DEF WriteOut, Written
  <2> QED BY <1>3, <2>1, <2>2
<1>8. CASE StartCapture
  BY <1>1, <1>2, <1>8 DEF StartCapture
<1>9. CASE World
  <2>1. UNCHANGED <<buffers, parts, arrived, lost>> /\ (hour' = hour \/ hour' = hour + 1)
    BY <1>9 DEF World
  <2> QED BY <1>1, <1>2, <2>1
<1>10. CASE UNCHANGED captureVars
  BY <1>1, <1>2, <1>10 DEF captureVars
<1> QED BY <1>4, <1>5, <1>6, <1>7, <1>8, <1>9, <1>10 DEF CaptureNext

\* The archive read back by path, and then the buffer, are what arrived of each
\* stream, in its order, but for what a process that ended had not written out:
\* for any number of streams, records, restarts, full disks and crashes, in a
\* flush or out of it.
THEOREM ArchiveKeepsTheStream == CaptureSpec => []ArchiveIsTheStream
<1>1. CaptureInv => ArchiveIsTheStream
  <2> SUFFICES ASSUME CaptureInv, NEW s \in Stream
               PROVE  /\ Rising(buffers[s])
                      /\ \A p \in Readable(s) : Rising(p.rows) /\ Precede(p.rows, buffers[s])
                      /\ \A p, q \in Readable(s) : p # q =>
                           \/ PathBefore(p, q) /\ Precede(p.rows, q.rows)
                           \/ PathBefore(q, p) /\ Precede(q.rows, p.rows)
                      /\ (UNION {ToSet(p.rows) : p \in Readable(s)}) \cup ToSet(buffers[s])
                           = {r \in DOMAIN arrived : arrived[r].stream = s /\ r \notin lost}
    BY DEF ArchiveIsTheStream
  <2>1. /\ \A i \in DOMAIN buffers[s] : buffers[s][i] \in OfStream(s, arrived) \ lost
        /\ Rising(buffers[s])
        /\ \A p \in PartsOf(s) : Filed(s, p, buffers[s], lost, arrived)
        /\ Follow(PartsOf(s))
        /\ \A r \in OfStream(s, arrived) : r \in lost \/ Archived(PartsOf(s), buffers[s], r)
    BY DEF CaptureInv, StreamLedger
  <2>2. Readable(s) = {p \in PartsOf(s) : p.sum}
    BY DEF Readable, PartsOf
  <2>3. \A p \in Readable(s) : Rising(p.rows) /\ Precede(p.rows, buffers[s])
    BY <2>1, <2>2 DEF Filed
  <2>4. \A p, q \in Readable(s) : p # q =>
          \/ PathBefore(p, q) /\ Precede(p.rows, q.rows)
          \/ PathBefore(q, p) /\ Precede(q.rows, p.rows)
    BY <2>1, <2>2 DEF Follow, Ahead
  <2> DEFINE archive == (UNION {ToSet(p.rows) : p \in Readable(s)}) \cup ToSet(buffers[s])
             stream == {r \in DOMAIN arrived : arrived[r].stream = s /\ r \notin lost}
  <2>5. \A r : r \in archive <=>
                 (\/ \E p \in Readable(s) : \E i \in DOMAIN p.rows : p.rows[i] = r
                  \/ \E i \in DOMAIN buffers[s] : buffers[s][i] = r)
    <3>1. \A rows, r : r \in ToSet(rows) <=> \E i \in DOMAIN rows : rows[i] = r
      BY DEF ToSet
    <3>2. PICK filed : filed = UNION {ToSet(p.rows) : p \in Readable(s)}
      OBVIOUS
    <3>3. \A r : r \in filed <=> \E p \in Readable(s) : r \in ToSet(p.rows)
      BY <3>2
    <3>4. archive = filed \cup ToSet(buffers[s])
      BY <3>2
    <3> HIDE DEF archive
    <3> QED BY <3>1, <3>3, <3>4
  <2>6. stream = OfStream(s, arrived) \ lost
    BY DEF OfStream
  <2> HIDE DEF archive, stream
  <2>7. ASSUME NEW r \in archive PROVE r \in stream
    <3>1. CASE \E i \in DOMAIN buffers[s] : buffers[s][i] = r
      BY <2>1, <2>6, <3>1
    <3>2. CASE \E p \in Readable(s) : \E i \in DOMAIN p.rows : p.rows[i] = r
      BY <2>1, <2>2, <2>6, <3>2 DEF Filed
    <3> QED BY <2>5, <2>7, <3>1, <3>2
  <2>8. ASSUME NEW r \in stream PROVE r \in archive
    <3>1. Archived(PartsOf(s), buffers[s], r)
      BY <2>1, <2>6, <2>8
    <3> QED BY <2>2, <2>5, <3>1 DEF Archived
  <2>9. archive = stream
    BY <2>7, <2>8
  <2> QED BY <2>1, <2>3, <2>4, <2>9 DEF archive, stream
<1> QED BY <1>1, CaptureStarts, CaptureStep, PTL DEF CaptureSpec
=============================================================================
