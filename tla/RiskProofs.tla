----------------------------- MODULE RiskProofs -----------------------------
(***************************************************************************)
(* For every account, set of strategies and instruments and every limit:   *)
(* the service reduces or refuses and never enlarges, its cap holds where  *)
(* orders do not overlap, and a kill lets nothing through that opens.      *)
(***************************************************************************)
EXTENDS RiskService, TLAPS

\* The inductive invariant: the shape, the cap with what it rests on, and the count
\* that disables.
RiskInv == RiskTypeOK /\ PositionWithinCap /\ OneAtATime /\ DisabledByCount

\* An order a service sees is one of its strategies', for something, and a flatten's
\* goes against what is held.
LEMMA Orders ==
  ASSUME RiskTypeOK, NEW x \in Order
  PROVE  /\ x.strategy \in Strategy /\ x.instrument \in Instrument
         /\ x.direction \in Directions /\ x.quantity \in Nat /\ x.quantity > 0
         /\ x.reduces \in BOOLEAN
         /\ x.reduces => x.direction * position[x.instrument] < 0
<1> USE RiskAssumption DEF RiskTypeOK, Directions, Abs
<1>1. CASE x \in [strategy: Strategy \ {Flattener}, instrument: Instrument,
                  direction: Directions, quantity: 1..Largest, reduces: {FALSE}]
  <2>1. /\ x.strategy \in Strategy /\ x.instrument \in Instrument
        /\ x.direction \in Directions /\ x.quantity \in 1..Largest /\ x.reduces = FALSE
    BY <1>1
  <2>2. Largest \in Nat BY RiskAssumption
  <2>3. x.quantity \in Nat /\ x.quantity > 0 BY <2>1, <2>2
  <2>4. x.strategy \in Strategy /\ x.reduces \in BOOLEAN BY <2>1
  <2> QED BY <2>1, <2>3, <2>4
<1>2. CASE x \in {[strategy |-> Flattener, instrument |-> i, quantity |-> Abs(position[i]),
                   direction |-> IF position[i] > 0 THEN -1 ELSE 1, reduces |-> TRUE] :
                  i \in {j \in Instrument : position[j] # 0}}
  <2>1. PICK i \in {j \in Instrument : position[j] # 0} :
          x = [strategy |-> Flattener, instrument |-> i, quantity |-> Abs(position[i]),
               direction |-> IF position[i] > 0 THEN -1 ELSE 1, reduces |-> TRUE]
    BY <1>2
  <2>2. position[i] \in Int /\ position[i] # 0 BY <2>1
  <2> QED BY <2>1, <2>2
<1> QED BY <1>1, <1>2 DEF Order

\* A cap is a whole number of lots and grows with the equity it is a share of.
LEMMA Caps ==
  ASSUME NEW e \in Int, NEW f \in Int, e <= f, NEW s \in Strategy
  PROVE  CapAt(e, s) \in Int /\ CapAt(f, s) \in Int /\ CapAt(e, s) <= CapAt(f, s)
<1> DEFINE k == RiskShare[s]
<1>1. k \in Nat BY RiskAssumption
<1>2. e * k \in Int /\ f * k \in Int BY <1>1
<1>3. e * k <= f * k BY <1>1
<1> HIDE DEF k
<1>4. ASSUME NEW a \in Int, NEW b \in Int, a <= b
      PROVE  a \div 100 \in Int /\ b \div 100 \in Int /\ a \div 100 <= b \div 100
  BY <1>4
<1>5. /\ (e * k) \div 100 \in Int /\ (f * k) \div 100 \in Int
      /\ (e * k) \div 100 <= (f * k) \div 100
  BY <1>2, <1>3, <1>4
<1> QED BY <1>5 DEF CapAt, k

\* Where an order leads when q of it trade.
LEMMA Leads ==
  ASSUME NEW p \in Int, NEW d \in Directions, NEW q \in Int
  PROVE  /\ p + d * q \in Int /\ Abs(p) \in Nat /\ Abs(p + d * q) \in Nat
         /\ q >= 0 => Abs(p + d * q) <= Abs(p) + q
  BY DEF Directions, Abs

\* What a decision may be.
LEMMA Grants ==
  ASSUME RiskTypeOK, NEW x \in Order, NEW ready \in BOOLEAN
  PROVE  /\ Granted(x, ready) \in 0..x.quantity
         /\ Granted(x, ready) > 0 =>
              /\ SwitchLets(x) /\ x.strategy \notin disabled
              /\ Abs(position[x.instrument] + x.direction * Granted(x, ready))
                   <= Cap(x.strategy)
<1> DEFINE p == position[x.instrument]
           d == x.direction
           q == x.quantity
           C == Cap(x.strategy)
<1>1. /\ p \in Int /\ d \in Directions /\ q \in Nat /\ q > 0 /\ x.strategy \in Strategy
  BY Orders DEF RiskTypeOK
<1>2. C \in Int
  BY <1>1, Caps, RiskAssumption DEF Cap, RiskTypeOK
<1> HIDE DEF p, d, q, C
<1>3. CASE Cut(x, ready)
  <2>1. Granted(x, ready) = C - Abs(p) BY <1>3 DEF Granted, Room, C, p
  <2>2. Abs(p + d * q) > C /\ C - Abs(p) > 0
    BY <1>3 DEF Cut, OverCap, After, Room, C, p, d, q
  <2>3. Abs(p) \in Nat /\ Abs(p + d * q) \in Nat /\ Abs(p + d * q) <= Abs(p) + q
    BY <1>1, Leads
  <2>4. C - Abs(p) \in 0..q BY <2>2, <2>3, <1>1, <1>2
  <2>5. Abs(p + d * (C - Abs(p))) <= Abs(p) + (C - Abs(p))
    BY <1>1, <1>2, <2>2, <2>3, Leads
  <2>6. Abs(p + d * (C - Abs(p))) <= C BY <2>5, <2>3, <1>2
  <2>7. SwitchLets(x) /\ x.strategy \notin disabled BY <1>3 DEF Cut, Entitled
  <2> QED BY <2>1, <2>4, <2>6, <2>7 DEF p, d, q, C
<1>4. CASE ~Cut(x, ready) /\ Full(x, ready)
  <2>1. Granted(x, ready) = q BY <1>4 DEF Granted, q
  <2>2. ~(Abs(p + d * q) > C) /\ SwitchLets(x) /\ x.strategy \notin disabled
    BY <1>4 DEF Full, ReachesLossState, Entitled, OverCap, After, p, d, q, C
  <2>3. Abs(p + d * q) \in Nat BY <1>1, Leads
  <2>4. Abs(p + d * q) <= C BY <2>2, <2>3, <1>2
  <2>5. q \in 0..q BY <1>1
  <2> QED BY <2>1, <2>2, <2>4, <2>5 DEF p, d, q, C
<1>5. CASE ~Cut(x, ready) /\ ~Full(x, ready)
  <2>1. Granted(x, ready) = 0 BY <1>5 DEF Granted
  <2> QED BY <2>1, <1>1 DEF q
<1> QED BY <1>3, <1>4, <1>5

-----------------------------------------------------------------------------
(* The steps.                                                              *)

\* The first state satisfies the invariant.
LEMMA RiskInitInv == RiskInit => RiskInv
<1> SUFFICES ASSUME RiskInit PROVE RiskInv OBVIOUS
<1> USE RiskAssumption DEF RiskInit
<1>1. equity \in Int /\ equity > 0 OBVIOUS
<1>2. RiskTypeOK
  BY <1>1 DEF RiskTypeOK, AllReleased, Released, Never, Directions
<1>3. ASSUME NEW i \in Instrument, NEW d \in Directions
      PROVE  /\ Abs(position[i]) = 0 /\ Abs(position[i] + d * working[i][d]) = 0
             /\ working[i][d] = 0
  BY <1>3 DEF Abs, Directions
<1>4. WithinCap(0)
  <2>1. CapAt(0, Flattener) \in Int /\ CapAt(peak, Flattener) \in Int
        /\ CapAt(0, Flattener) <= CapAt(peak, Flattener)
    BY <1>1, Caps
  <2>2. CapAt(0, Flattener) = 0
    <3>1. RiskShare[Flattener] \in Nat OBVIOUS
    <3>2. 0 * RiskShare[Flattener] = 0 BY <3>1
    <3>3. 0 \div 100 = 0 OBVIOUS
    <3> QED BY <3>2, <3>3 DEF CapAt
  <2> QED BY <2>1, <2>2 DEF WithinCap
<1>5. PositionWithinCap
  <2> SUFFICES ASSUME NEW i \in Serial, NEW d \in Directions
               PROVE  /\ WithinCap(Abs(position[i]))
                      /\ WithinCap(Abs(position[i] + d * working[i][d]))
    BY DEF PositionWithinCap, Directions
  <2>1. Abs(position[i]) = 0 /\ Abs(position[i] + d * working[i][d]) = 0 BY <1>3
  <2> QED BY <1>4, <2>1
<1>6. OneAtATime BY <1>3 DEF OneAtATime, Directions
<1>7. DisabledByCount BY DEF DisabledByCount
<1> QED BY <1>2, <1>5, <1>6, <1>7 DEF RiskInv

\* Engaging a trigger keeps the switch a switch, with that trigger engaged.
LEMMA Engages ==
  ASSUME NEW s \in [Trigger -> [engaged: BOOLEAN, cleared: {Never}, approvals: {{}}]],
         NEW t \in Trigger
  PROVE  Engage(s, t) \in [Trigger -> [engaged: BOOLEAN, cleared: {Never}, approvals: {{}}]]
<1>1. CASE s[t].engaged BY <1>1 DEF Engage
<1>2. CASE ~s[t].engaged
  <2>1. [Released EXCEPT !.engaged = TRUE]
          \in [engaged: BOOLEAN, cleared: {Never}, approvals: {{}}]
    BY DEF Released
  <2> QED BY <1>2, <2>1 DEF Engage
<1> QED BY <1>1, <1>2

\* A refusal.
LEMMA RefuseInv ==
  ASSUME RiskInv, NEW x \in Order, NEW ready \in BOOLEAN, Refuse(x, ready)
  PROVE  RiskInv'
<1> USE RiskAssumption DEF RiskInv, Refuse, account
<1>1. x.strategy \in Strategy BY Orders
<1>2. Rejects \in Nat /\ Rejects > 0 OBVIOUS
<1>3. rejects[x.strategy] \in 0..Rejects BY <1>1 DEF RiskTypeOK
<1>4. Up(rejects[x.strategy]) \in 0..Rejects BY <1>2, <1>3 DEF Up
<1>5. RiskTypeOK'
  <2>1. switch' \in [Trigger -> [engaged: BOOLEAN, cleared: {Never}, approvals: {{}}]]
    BY Engages DEF RiskTypeOK, Trigger
  <2>2. rejects' \in [Strategy -> 0..Rejects] BY <1>1, <1>4 DEF RiskTypeOK
  <2>3. disabled' \subseteq Strategy BY <1>1 DEF RiskTypeOK
  <2> QED BY <2>1, <2>2, <2>3 DEF RiskTypeOK
<1>6. PositionWithinCap' BY DEF PositionWithinCap, WithinCap, CapAt
<1>7. OneAtATime' BY DEF OneAtATime
<1>8. DisabledByCount'
  <2>1. ASSUME NEW s \in Strategy, s # x.strategy
        PROVE  rejects'[s] = rejects[s] /\ (s \in disabled' <=> s \in disabled)
    BY <2>1, <1>1 DEF RiskTypeOK
  <2>2. rejects'[x.strategy] = Up(rejects[x.strategy]) BY <1>1 DEF RiskTypeOK
  <2>3. x.strategy \in disabled <=> rejects[x.strategy] = Rejects
    BY <1>1 DEF DisabledByCount
  <2>4. x.strategy \in disabled' <=>
          rejects[x.strategy] + 1 >= Rejects \/ x.strategy \in disabled
    BY DEF TooMany
  <2>5. Up(rejects[x.strategy]) = Rejects <=> rejects[x.strategy] + 1 >= Rejects
    BY <1>2, <1>3 DEF Up
  <2>6. x.strategy \in disabled' <=> rejects'[x.strategy] = Rejects
    BY <2>2, <2>3, <2>4, <2>5, <1>2, <1>3
  <2> QED BY <2>1, <2>6 DEF DisabledByCount
<1> QED BY <1>5, <1>6, <1>7, <1>8

\* An approval, in full or for less.
LEMMA PermitInv ==
  ASSUME RiskInv, NEW x \in Order, NEW ready \in BOOLEAN, Permit(x, ready)
  PROVE  RiskInv'
<1> USE RiskAssumption DEF RiskInv, Permit, account
<1> DEFINE i == x.instrument
           d == x.direction
           g == Granted(x, ready)
<1>1. i \in Instrument /\ d \in Directions /\ x.strategy \in Strategy /\ x.quantity \in Nat
  BY Orders
<1>2. g \in Nat /\ g > 0 /\ x.strategy \notin disabled
      /\ Abs(position[i] + d * g) <= Cap(x.strategy)
  BY Grants, <1>1
<1>3. working' = [working EXCEPT ![i][d] = @ + g] OBVIOUS
<1>4. i \in Serial => \A e \in Directions : working[i][e] = 0 OBVIOUS
<1> HIDE DEF i, d, g
<1>5. working \in [Instrument -> [Directions -> Nat]] BY DEF RiskTypeOK
<1>6. /\ \A j \in Instrument, e \in Directions :
              j # i \/ e # d => working'[j][e] = working[j][e]
      /\ working'[i][d] = working[i][d] + g
  BY <1>1, <1>3, <1>5
<1>7. rejects' \in [Strategy -> 0..Rejects] BY <1>1 DEF RiskTypeOK
<1>8. RiskTypeOK'
  <2>1. working' \in [Instrument -> [Directions -> Nat]] BY <1>1, <1>2, <1>3, <1>5
  <2> QED BY <2>1, <1>7 DEF RiskTypeOK
<1>9. equity \in Int /\ peak \in Int /\ equity <= peak BY DEF RiskTypeOK
<1>10. PositionWithinCap'
  <2>1. SUFFICES ASSUME NEW j \in Serial, NEW e \in Directions
                 PROVE  /\ WithinCap(Abs(position[j]))
                        /\ WithinCap(Abs(position[j] + e * working'[j][e]))
    BY DEF PositionWithinCap, WithinCap, Directions
  <2>2. /\ WithinCap(Abs(position[j]))
        /\ WithinCap(Abs(position[j] + e * working[j][e]))
    BY DEF PositionWithinCap
  <2>3. CASE j = i /\ e = d
    <3>1. working'[j][e] = g
      <4>1. working[j][e] = 0 BY <1>4, <2>3
      <4> QED BY <4>1, <1>6, <1>2, <2>3
    <3>2. Cap(x.strategy) <= CapAt(peak, x.strategy) BY <1>1, <1>9, Caps DEF Cap
    <3>3. Cap(x.strategy) \in Int /\ CapAt(peak, x.strategy) \in Int
      BY <1>1, <1>9, Caps DEF Cap
    <3>4. position[i] \in Int BY <1>1 DEF RiskTypeOK
    <3>5. Abs(position[i] + d * g) \in Nat
      <4>1. g \in Int BY <1>2
      <4> QED BY <3>4, <4>1, <1>1, Leads
    <3>6. Abs(position[i] + d * g) <= CapAt(peak, x.strategy)
      BY <1>2, <3>2, <3>3, <3>5
    <3>7. WithinCap(Abs(position[i] + d * g)) BY <3>6, <1>1 DEF WithinCap
    <3> QED BY <2>2, <2>3, <3>1, <3>7
  <2>4. CASE ~(j = i /\ e = d)
    BY <2>2, <2>4, <1>6
  <2> QED BY <2>3, <2>4
<1>11. OneAtATime'
  <2>1. SUFFICES ASSUME NEW j \in Serial PROVE working'[j][1] = 0 \/ working'[j][-1] = 0
    BY DEF OneAtATime
  <2>2. CASE j = i
    <3>1. working[j][1] = 0 /\ working[j][-1] = 0 BY <1>4, <2>2 DEF Directions
    <3> QED BY <3>1, <1>6, <1>1, <2>2 DEF Directions
  <2>3. CASE j # i
    <3>1. working[j][1] = 0 \/ working[j][-1] = 0 BY DEF OneAtATime
    <3> QED BY <3>1, <1>6, <2>3 DEF Directions
  <2> QED BY <2>2, <2>3
<1>12. DisabledByCount'
  <2>1. rejects[x.strategy] # Rejects BY <1>1, <1>2 DEF DisabledByCount
  <2>2. rejects'[x.strategy] # Rejects BY <2>1, <1>1 DEF RiskTypeOK
  <2>3. \A s \in Strategy : s # x.strategy => rejects'[s] = rejects[s]
    BY <1>1 DEF RiskTypeOK
  <2> QED BY <1>2, <2>2, <2>3 DEF DisabledByCount
<1> QED BY <1>8, <1>10, <1>11, <1>12

\* A trade of q of what works leads somewhere between where the position is and
\* where all of it would lead.
LEMMA Between ==
  ASSUME NEW p \in Int, NEW d \in Directions, NEW w \in Nat, NEW q \in 0..w
  PROVE  /\ Abs(p + d * q) <= Abs(p) \/ Abs(p + d * q) <= Abs(p + d * w)
         /\ (p + d * q) + d * (w - q) = p + d * w
  BY DEF Directions, Abs

\* A trade, of a part or of all that is on the way.
LEMMA TradedInv ==
  ASSUME RiskInv, NEW i \in Instrument, NEW d \in Directions,
         NEW q \in 1..working[i][d], Traded(i, d, q)
  PROVE  RiskInv'
<1> USE RiskAssumption DEF RiskInv, Traded, account
<1>1. /\ working \in [Instrument -> [Directions -> Nat]]
      /\ position \in [Instrument -> Int]
  BY DEF RiskTypeOK
<1>2. working[i][d] \in Nat /\ q \in 0..working[i][d] /\ q \in Nat
      /\ working[i][d] - q \in Nat /\ q \in Int /\ working[i][d] \in Int
  BY <1>1
<1>3. /\ \A j \in Instrument, e \in Directions :
              j # i \/ e # d => working'[j][e] = working[j][e]
      /\ working'[i][d] = working[i][d] - q
  BY <1>1
<1>4. /\ \A j \in Instrument : j # i => position'[j] = position[j]
      /\ position'[i] = position[i] + d * q
      /\ position[i] \in Int
  BY <1>1
<1>5. position[i] + d * q \in Int BY <1>2, <1>4, Leads
<1>6. RiskTypeOK'
  <2>1. working' \in [Instrument -> [Directions -> Nat]] BY <1>1, <1>2
  <2>2. position' \in [Instrument -> Int] BY <1>1, <1>5
  <2> QED BY <2>1, <2>2 DEF RiskTypeOK
<1>7. OneAtATime'
  <2>1. SUFFICES ASSUME NEW j \in Serial PROVE working'[j][1] = 0 \/ working'[j][-1] = 0
    BY DEF OneAtATime
  <2>2. working[j][1] = 0 \/ working[j][-1] = 0 BY DEF OneAtATime
  <2>3. CASE j # i BY <2>2, <2>3, <1>3 DEF Directions
  <2>4. CASE j = i
    <3>1. working[i][d] # 0 BY <1>2
    <3>2. d = 1 \/ d = -1 BY DEF Directions
    <3>3. CASE d = 1
      <4>1. working[i][-1] = 0 BY <2>2, <2>4, <3>1, <3>3
      <4> QED BY <4>1, <1>3, <2>4, <3>3 DEF Directions
    <3>4. CASE d = -1
      <4>1. working[i][1] = 0 BY <2>2, <2>4, <3>1, <3>4
      <4> QED BY <4>1, <1>3, <2>4, <3>4 DEF Directions
    <3> QED BY <3>2, <3>3, <3>4
  <2> QED BY <2>3, <2>4
<1>8. PositionWithinCap'
  <2>1. SUFFICES ASSUME NEW j \in Serial
                 PROVE  /\ WithinCap(Abs(position'[j]))
                        /\ \A e \in Directions :
                              WithinCap(Abs(position'[j] + e * working'[j][e]))
    BY DEF PositionWithinCap, WithinCap, CapAt
  <2>2. /\ WithinCap(Abs(position[j]))
        /\ \A e \in Directions : WithinCap(Abs(position[j] + e * working[j][e]))
    BY DEF PositionWithinCap
  <2>3. CASE j # i BY <2>2, <2>3, <1>3, <1>4
  <2>4. CASE j = i
    <3> DEFINE p == position[i]
               w == working[i][d]
    <3>1. /\ Abs(p + d * q) <= Abs(p) \/ Abs(p + d * q) <= Abs(p + d * w)
          /\ (p + d * q) + d * (w - q) = p + d * w
      BY <1>2, <1>4, Between
    <3>2. Abs(p) \in Nat /\ Abs(p + d * w) \in Nat /\ Abs(p + d * q) \in Nat
      BY <1>2, <1>4, Leads
    <3>3. WithinCap(Abs(p)) /\ WithinCap(Abs(p + d * w)) BY <2>2, <2>4
    <3> HIDE DEF p, w
    <3>4. peak \in Int BY DEF RiskTypeOK
    <3>5. ASSUME NEW m \in Nat, NEW n \in Nat, m <= n, WithinCap(n) PROVE WithinCap(m)
      <4>1. PICK s \in Strategy : n <= CapAt(peak, s) BY <3>5 DEF WithinCap
      <4>2. CapAt(peak, s) \in Int BY <3>4, Caps
      <4>3. m <= CapAt(peak, s) BY <3>5, <4>1, <4>2
      <4> QED BY <4>3 DEF WithinCap
    <3>6. WithinCap(Abs(p + d * q)) BY <3>1, <3>2, <3>3, <3>5
    <3>7. position'[j] = p + d * q BY <1>4, <2>4 DEF p
    <3>8. WithinCap(Abs(position'[j])) BY <3>6, <3>7
    <3>9. ASSUME NEW e \in Directions
          PROVE  WithinCap(Abs(position'[j] + e * working'[j][e]))
      <4>1. CASE e = d
        <5>1. position'[j] + e * working'[j][e] = p + d * w
          BY <3>1, <3>7, <1>3, <2>4, <4>1 DEF w
        <5> QED BY <5>1, <3>3
      <4>2. CASE e # d
        <5>1. working[i][e] = 0
          <6>1. working[i][d] # 0 BY <1>2
          <6>2. working[i][1] = 0 \/ working[i][-1] = 0 BY <2>4 DEF OneAtATime
          <6> QED BY <6>1, <6>2, <4>2 DEF Directions
        <5>2. working'[j][e] = 0 BY <5>1, <1>3, <2>4, <4>2
        <5>3. position'[j] \in Int BY <1>5, <3>7 DEF p
        <5>4. position'[j] + e * working'[j][e] = position'[j]
          BY <5>2, <5>3 DEF Directions
        <5> QED BY <5>4, <3>8
      <4> QED BY <4>1, <4>2
    <3> QED BY <3>8, <3>9
  <2> QED BY <2>3, <2>4
<1>9. DisabledByCount' BY DEF DisabledByCount
<1> QED BY <1>6, <1>7, <1>8, <1>9

\* What was on the way is withdrawn.
LEMMA WithdrawnInv ==
  ASSUME RiskInv, NEW i \in Instrument, NEW d \in Directions, Withdrawn(i, d)
  PROVE  RiskInv'
<1> USE RiskAssumption DEF RiskInv, Withdrawn, account
<1>1. working \in [Instrument -> [Directions -> Nat]] /\ position \in [Instrument -> Int]
  BY DEF RiskTypeOK
<1>2. /\ \A j \in Instrument, e \in Directions :
              j # i \/ e # d => working'[j][e] = working[j][e]
      /\ working'[i][d] = 0
  BY <1>1
<1>3. RiskTypeOK'
  <2>1. working' \in [Instrument -> [Directions -> Nat]] BY <1>1
  <2> QED BY <2>1 DEF RiskTypeOK
<1>4. ASSUME NEW j \in Serial, NEW e \in Directions
      PROVE  working'[j][e] = working[j][e] \/ working'[j][e] = 0
  BY <1>2
<1>5. OneAtATime' BY <1>4 DEF OneAtATime, Directions
<1>6. PositionWithinCap'
  <2>1. SUFFICES ASSUME NEW j \in Serial, NEW e \in Directions
                 PROVE  /\ WithinCap(Abs(position[j]))
                        /\ WithinCap(Abs(position[j] + e * working'[j][e]))
    BY DEF PositionWithinCap, WithinCap, CapAt, Directions
  <2>2. /\ WithinCap(Abs(position[j]))
        /\ WithinCap(Abs(position[j] + e * working[j][e]))
    BY DEF PositionWithinCap
  <2>3. CASE working'[j][e] = 0
    <3>1. position[j] \in Int BY <1>1
    <3>2. position[j] + e * working'[j][e] = position[j] BY <2>3, <3>1 DEF Directions
    <3> QED BY <2>2, <3>2
  <2> QED BY <1>4, <2>2, <2>3
<1>7. DisabledByCount' BY DEF DisabledByCount
<1> QED BY <1>3, <1>5, <1>6, <1>7

\* The account's equity moves.
LEMMA MarkInv ==
  ASSUME RiskInv, NEW e \in Equities, Mark(e)
  PROVE  RiskInv'
<1> USE RiskAssumption DEF RiskInv, Mark
<1>1. e \in Int /\ peak \in Int /\ day \in Int /\ week \in Int
      /\ {peak, day, week} \subseteq Equities /\ day <= peak /\ week <= peak
  BY DEF RiskTypeOK
<1>2. peak' \in Equities /\ peak <= peak' /\ e <= peak' /\ peak' \in Int
  BY <1>1 DEF Peak
<1>3. /\ day' \in Equities /\ day' <= peak' /\ week' \in Equities /\ week' <= peak'
  BY <1>1, <1>2 DEF Start
<1>4. RiskTypeOK' BY <1>2, <1>3 DEF RiskTypeOK
<1>5. OneAtATime' BY DEF OneAtATime
<1>6. DisabledByCount' BY DEF DisabledByCount
<1>7. PositionWithinCap'
  <2>1. ASSUME NEW n \in Nat, \E s \in Strategy : n <= CapAt(peak, s)
        PROVE  \E s \in Strategy : n <= CapAt(peak', s)
    <3>1. PICK s \in Strategy : n <= CapAt(peak, s) BY <2>1
    <3>2. CapAt(peak, s) \in Int /\ CapAt(peak', s) \in Int
          /\ CapAt(peak, s) <= CapAt(peak', s)
      BY <1>1, <1>2, Caps
    <3> QED BY <3>1, <3>2
  <2>2. SUFFICES ASSUME NEW i \in Serial, NEW d \in Directions
                 PROVE  /\ \E s \in Strategy : Abs(position[i]) <= CapAt(peak', s)
                        /\ \E s \in Strategy :
                              Abs(position[i] + d * working[i][d]) <= CapAt(peak', s)
    BY DEF PositionWithinCap, WithinCap, CapAt, Directions
  <2>3. /\ \E s \in Strategy : Abs(position[i]) <= CapAt(peak, s)
        /\ \E s \in Strategy : Abs(position[i] + d * working[i][d]) <= CapAt(peak, s)
    BY DEF PositionWithinCap, WithinCap
  <2>4. position[i] \in Int /\ working[i][d] \in Int BY DEF RiskTypeOK
  <2>5. Abs(position[i]) \in Nat /\ Abs(position[i] + d * working[i][d]) \in Nat
    BY <2>4, Leads
  <2> QED BY <2>1, <2>3, <2>5
<1> QED BY <1>4, <1>5, <1>6, <1>7

\* The day turns; the ladder and a person engage a trigger.
LEMMA RestInv ==
  ASSUME RiskInv, RollDay \/ CheckDrawdownLadder \/ ManualKill
  PROVE  RiskInv'
<1> USE RiskAssumption DEF RiskInv, RollDay, CheckDrawdownLadder, ManualKill, account
<1>1. /\ equity' = equity /\ peak' = peak /\ week' = week /\ day' \in {day, equity}
      /\ position' = position /\ working' = working /\ rejects' = rejects
      /\ disabled' = disabled
  OBVIOUS
<1>2. switch' \in [Trigger -> [engaged: BOOLEAN, cleared: {Never}, approvals: {{}}]]
  <2>1. switch' = switch \/ \E t \in Trigger : switch' = Engage(switch, t)
    BY DEF Trigger
  <2> QED BY <2>1, Engages DEF RiskTypeOK
<1>3. RiskTypeOK' BY <1>1, <1>2 DEF RiskTypeOK
<1>4. OneAtATime' BY <1>1 DEF OneAtATime
<1>5. DisabledByCount' BY <1>1 DEF DisabledByCount
<1>6. PositionWithinCap' BY <1>1 DEF PositionWithinCap, WithinCap, CapAt
<1> QED BY <1>3, <1>4, <1>5, <1>6

\* Every step keeps it: one lemma above for each way evaluate ends, and for the rest.
LEMMA RiskStep == RiskInv /\ [RiskNext]_riskVars => RiskInv'
<1> SUFFICES ASSUME RiskInv, [RiskNext]_riskVars PROVE RiskInv' OBVIOUS
<1>1. ASSUME NEW x \in Order, NEW ready \in BOOLEAN, Refuse(x, ready) \/ Permit(x, ready)
      PROVE  RiskInv'
  BY <1>1, RefuseInv, PermitInv
<1>2. ASSUME NEW i \in Instrument, NEW d \in Directions,
             Withdrawn(i, d) \/ \E q \in 1..working[i][d] : Traded(i, d, q)
      PROVE  RiskInv'
  BY <1>2, WithdrawnInv, TradedInv
<1>3. ASSUME NEW e \in Equities, Mark(e) PROVE RiskInv' BY <1>3, MarkInv
<1>4. CASE RollDay \/ CheckDrawdownLadder \/ ManualKill BY <1>4, RestInv
<1>5. CASE UNCHANGED riskVars
  BY <1>5 DEF riskVars, account, RiskInv, RiskTypeOK, PositionWithinCap, WithinCap, CapAt,
              OneAtATime, DisabledByCount
<1> QED BY <1>1, <1>2, <1>3, <1>4, <1>5 DEF RiskNext

\* So it holds throughout.
LEMMA RiskInvariant == RiskSpec => []RiskInv
BY RiskInitInv, RiskStep, PTL DEF RiskSpec

-----------------------------------------------------------------------------
(* The theorems.                                                           *)

\* The state keeps its shape and the peak stays one (state.py, mark and roll_day).
THEOREM RiskTypeCorrect == RiskSpec => []RiskTypeOK
<1>1. RiskInv => RiskTypeOK BY DEF RiskInv
<1> QED BY <1>1, RiskInvariant, PTL

\* What _approve asserts: from whatever position, at whatever equity and limits, what
\* is approved is never more than what was asked for, nor less than nothing.
THEOREM RiskOnlyReduces == RiskSpec => []NeverEnlarged
<1>1. RiskInv => NeverEnlarged
  <2> SUFFICES ASSUME RiskInv, NEW x \in Order, NEW ready \in BOOLEAN
               PROVE  Granted(x, ready) \in 0..x.quantity
    BY DEF NeverEnlarged
  <2> QED BY Grants DEF RiskInv
<1> QED BY <1>1, RiskInvariant, PTL

\* Check 8 bounds the position of every instrument whose orders trade within submit,
\* through cut and full approvals, partial trades, withdrawals and equity that moves.
THEOREM CapHolds == RiskSpec => []PositionWithinCap
<1>1. RiskInv => PositionWithinCap BY DEF RiskInv
<1> QED BY <1>1, RiskInvariant, PTL

\* The count and the set that disable a strategy agree (service.py, reject).
THEOREM CountDisables == RiskSpec => []DisabledByCount
<1>1. RiskInv => DisabledByCount BY DEF RiskInv
<1> QED BY <1>1, RiskInvariant, PTL

\* Once a trigger is engaged, only what works against a position is put on the way.
THEOREM KillOnlyReduces == RiskSpec => OnlyReducesOnceEngaged
<1> DEFINE A == IsEngaged(switch) =>
                  \A i \in Instrument, d \in Directions :
                    working'[i][d] > working[i][d] => d * position[i] < 0
<1>1. RiskInv /\ [RiskNext]_riskVars => [A]_riskVars
  <2> SUFFICES ASSUME RiskInv, RiskNext, IsEngaged(switch),
                      NEW i \in Instrument, NEW d \in Directions,
                      working'[i][d] > working[i][d]
               PROVE  d * position[i] < 0
    BY DEF riskVars
  <2>1. working \in [Instrument -> [Directions -> Nat]] BY DEF RiskInv, RiskTypeOK
  <2>2. ASSUME NEW x \in Order, NEW ready \in BOOLEAN, Permit(x, ready)
        PROVE  d * position[i] < 0
    <3>1. x.instrument = i /\ x.direction = d
      <4>1. x.instrument \in Instrument /\ x.direction \in Directions
        BY Orders DEF RiskInv
      <4>2. x.instrument # i \/ x.direction # d => working'[i][d] = working[i][d]
        BY <2>1, <2>2, <4>1 DEF Permit
      <4>3. working[i][d] \in Nat BY <2>1
      <4> QED BY <4>2, <4>3
    <3>2. SwitchLets(x) BY <2>2, Grants DEF Permit, RiskInv
    <3>3. x.reduces BY <3>2 DEF SwitchLets
    <3> QED BY <3>1, <3>3, Orders DEF RiskInv
  <2>3. ASSUME NEW x \in Order, NEW ready \in BOOLEAN, Refuse(x, ready) PROVE FALSE
    <3>1. working' = working BY <2>3 DEF Refuse
    <3>2. working[i][d] \in Nat BY <2>1
    <3> QED BY <3>1, <3>2
  <2>4. ASSUME NEW j \in Instrument, NEW e \in Directions,
               Withdrawn(j, e) \/ \E q \in 1..working[j][e] : Traded(j, e, q)
        PROVE  FALSE
    <3>1. working[i][d] \in Int /\ working[j][e] \in Nat BY <2>1
    <3>2. working'[i][d] \in Int /\ working'[i][d] <= working[i][d]
      <4>1. CASE Withdrawn(j, e) BY <2>1, <3>1, <4>1 DEF Withdrawn
      <4>2. ASSUME NEW q \in 1..working[j][e], Traded(j, e, q)
            PROVE  working'[i][d] \in Int /\ working'[i][d] <= working[i][d]
        BY <2>1, <3>1, <4>2 DEF Traded
      <4> QED BY <2>4, <4>1, <4>2
    <3> QED BY <3>1, <3>2
  <2>5. CASE (\E e \in Equities : Mark(e)) \/ RollDay \/ CheckDrawdownLadder \/ ManualKill
    <3>1. working' = working BY <2>5 DEF Mark, RollDay, CheckDrawdownLadder, ManualKill
    <3>2. working[i][d] \in Nat BY <2>1
    <3> QED BY <3>1, <3>2
  <2> QED BY <2>2, <2>3, <2>4, <2>5 DEF RiskNext
<1>2. [A]_riskVars => [IsEngaged(switch) =>
                         \A i \in Instrument, d \in Directions :
                           working'[i][d] > working[i][d] => d * position[i] < 0]_riskVars
  OBVIOUS
<1> HIDE DEF A
<1> QED BY <1>1, <1>2, RiskInvariant, PTL DEF RiskSpec, OnlyReducesOnceEngaged
=============================================================================
