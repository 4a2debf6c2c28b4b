------------------------------ MODULE Recovery ------------------------------
(***************************************************************************)
(* A kill switch in use (killswitch.py): whoever watches a condition       *)
(* reports it, again and again while it lasts; operators approve the       *)
(* return; the clock runs; and someone tries to clear what can be cleared. *)
(***************************************************************************)
EXTENDS KillSwitch

CONSTANTS
  Operator,   \* the people who may approve a return
  Horizon     \* the model's clock stops here

ASSUME RecoveryAssumption == IsFiniteSet(Operator) /\ Horizon \in Nat

VARIABLES
  switch,    \* KillSwitch._engaged
  now,       \* the clock
  signed     \* who approved the return since each trigger was engaged

killVars == <<switch, now, signed>>

-----------------------------------------------------------------------------
KillInit ==
  /\ switch = AllReleased
  /\ now = 0
  /\ signed = [t \in Trigger |-> {}]

Report(t) ==
  /\ switch' = Engage(switch, t)
  /\ signed' = IF switch[t].engaged THEN signed ELSE [signed EXCEPT ![t] = {}]
  /\ UNCHANGED now

Clears(t) ==
  /\ switch' = ConditionCleared(switch, t, now)
  /\ UNCHANGED <<now, signed>>

Returns(t) ==
  /\ switch' = ConditionReturned(switch, t)
  /\ UNCHANGED <<now, signed>>

SignOff(t, operator) ==
  /\ switch' = Approve(switch, t, operator)
  /\ signed' = IF switch[t].engaged THEN [signed EXCEPT ![t] = @ \cup {operator}] ELSE signed
  /\ UNCHANGED now

Retry ==
  /\ switch' \in {TryClear(switch, t, now) : t \in Trigger} \cup {TryClearAll(switch, now)}
  /\ UNCHANGED <<now, signed>>

Pass ==
  /\ now < Horizon
  /\ now' = now + 1
  /\ UNCHANGED <<switch, signed>>

KillNext ==
  \/ \E t \in Trigger : Report(t) \/ Clears(t) \/ Returns(t)
  \/ \E t \in Trigger, operator \in Operator : SignOff(t, operator)
  \/ Retry \/ Pass

KillSpec == KillInit /\ [][KillNext]_killVars

-----------------------------------------------------------------------------
(* Properties                                                              *)

\* What a trigger's record may be (killswitch.py, _Engaged).
Records == [engaged: BOOLEAN, cleared: Nat \cup {Never}, approvals: SUBSET Operator]

\* The switch keeps its shape, and nothing of an outage outlives it: a trigger that
\* is released has no approvals left over for the next one.
KillTypeOK ==
  /\ switch \in [Trigger -> Records]
  /\ now \in Nat
  /\ signed \in [Trigger -> SUBSET Operator]
  /\ \A t \in Trigger : ~switch[t].engaged => switch[t] = Released

Lets(t) == switch[t].engaged /\ ~switch'[t].engaged

\* A trigger that needs people is released only when as many different people as
\* the matrix names approved since it was engaged: no approval counts twice and
\* none is carried over from an earlier outage.
ReleasedByPeople ==
  [][\A t \in Trigger :
       Lets(t) /\ ~RECOVERY[t].automatic =>
       Cardinality(signed[t]) >= RECOVERY[t].approvals /\ signed[t] # {}]_killVars

\* Two triggers never leave the system in the milder of their two states: it stops
\* flattening only when every trigger that demands it was released.
FlattenOutlasts ==
  [][SwitchState(switch) = "FLATTENING" /\ SwitchState(switch)' # "FLATTENING" =>
       \A t \in Trigger : switch[t].engaged /\ RECOVERY[t].flatten =>
          Cardinality(signed[t]) >= RECOVERY[t].approvals]_killVars

\* What the release of a trigger by people rests on, at every state: the approvals
\* a switch holds are those of the outage in hand.
ApprovalsAreOfThisOutage ==
  \A t \in Trigger : switch[t].engaged => switch[t].approvals = signed[t]
=============================================================================
