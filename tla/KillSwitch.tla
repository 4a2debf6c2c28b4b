----------------------------- MODULE KillSwitch -----------------------------
(***************************************************************************)
(* Layer 5: killswitch.py.  The triggers that stop trading, the state they *)
(* put the system in, and what each of them takes to be cleared.           *)
(*                                                                         *)
(* Everything here is a function of the switch's value; the modules that   *)
(* hold a switch (Recovery, Session) say when it is used.  Time is in      *)
(* minutes.                                                                *)
(***************************************************************************)
EXTENDS Integers, FiniteSets

CONSTANT Trigger  \* the triggers that can be engaged

\* RECOVERY: how each trigger is cleared.
Row(flatten, automatic, approvals, settle) ==
  [flatten |-> flatten, automatic |-> automatic, approvals |-> approvals, settle |-> settle]

RECOVERY ==
  [feed_staleness          |-> Row(FALSE, TRUE, 0, 5),
   latency_spike           |-> Row(FALSE, TRUE, 0, 5),
   order_rate              |-> Row(FALSE, TRUE, 0, 1),
   connectivity_loss       |-> Row(TRUE, FALSE, 1, 0),
   rejection_rate_spike    |-> Row(FALSE, FALSE, 1, 0),
   reconciliation_mismatch |-> Row(FALSE, FALSE, 1, 0),
   missing_local_position  |-> Row(FALSE, FALSE, 1, 0),
   liquidation_distance    |-> Row(FALSE, TRUE, 0, 0),
   daily_loss              |-> Row(TRUE, FALSE, 1, 0),
   weekly_loss             |-> Row(TRUE, FALSE, 2, 0),
   drawdown_soft           |-> Row(FALSE, FALSE, 1, 0),
   drawdown_hard           |-> Row(TRUE, FALSE, 2, 0),
   deadman                 |-> Row(TRUE, FALSE, 1, 0),
   audit_buffer_full       |-> Row(FALSE, FALSE, 1, 0),
   clock_drift             |-> Row(FALSE, TRUE, 0, 5),
   manual                  |-> Row(TRUE, FALSE, 1, 0)]

ASSUME TriggerAssumption == Trigger \subseteq DOMAIN RECOVERY

Never == -1
Released == [engaged |-> FALSE, cleared |-> Never, approvals |-> {}]
AllReleased == [t \in Trigger |-> Released]

EngagedIn(s) == {t \in Trigger : s[t].engaged}
IsEngaged(s) == EngagedIn(s) # {}
MustFlatten(s) == \E t \in EngagedIn(s) : RECOVERY[t].flatten

SwitchStateOfWeakest(s) ==
  IF ~IsEngaged(s) THEN "ACTIVE"
  ELSE IF \A t \in EngagedIn(s) : RECOVERY[t].flatten THEN "FLATTENING" ELSE "HALTED"

SwitchState(s) ==
  IF ~IsEngaged(s) THEN "ACTIVE" ELSE IF MustFlatten(s) THEN "FLATTENING" ELSE "HALTED"

\* A trigger that is engaged already stays exactly as it is.
Engage(s, t) ==
  IF s[t].engaged THEN s ELSE [s EXCEPT ![t] = [Released EXCEPT !.engaged = TRUE]]

ConditionCleared(s, t, at) ==
  IF s[t].engaged /\ s[t].cleared = Never THEN [s EXCEPT ![t].cleared = at] ELSE s

ConditionReturned(s, t) == [s EXCEPT ![t].cleared = Never]

Approve(s, t, operator) ==
  IF s[t].engaged THEN [s EXCEPT ![t].approvals = @ \cup {operator}] ELSE s

RequiredOne(t) == 1

\* max(1, rec.approvals)
Required(t) == IF RECOVERY[t].approvals > 1 THEN RECOVERY[t].approvals ELSE 1

MayClear(s, t, at) ==
  /\ s[t].engaged /\ s[t].cleared # Never
  /\ IF RECOVERY[t].automatic THEN at - s[t].cleared >= RECOVERY[t].settle
     ELSE Cardinality(s[t].approvals) >= Required(t)

TryClear(s, t, at) == IF MayClear(s, t, at) THEN [s EXCEPT ![t] = Released] ELSE s
TryClearAll(s, at) == [t \in Trigger |-> TryClear(s, t, at)[t]]
=============================================================================
