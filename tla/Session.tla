------------------------------ MODULE Session ------------------------------
(***************************************************************************)
(* session.py around the risk and execution layers: the startup gate,      *)
(* the periodic tick with its heartbeat, reconciliation and drawdown       *)
(* ladder, the flatten, and the death and rebirth of the process, for one  *)
(* venue and one instrument.                                               *)
(*                                                                         *)
(* The process forgets everything when it dies; the venue keeps the orders *)
(* and what they traded.  A handler calls the venue several times; no fill *)
(* is delivered until it returns, but a live venue trades between calls.   *)
(***************************************************************************)
EXTENDS Execution, FiniteSetsExt, Functions

CONSTANTS
  Reports,    \* does the adapter's positions() return the venue's positions?
  Attended,   \* may an operator acknowledge a discrepancy at startup?
  Crashes,    \* may the process die?
  Beat,       \* the heartbeat interval
  Tolerance,  \* the dead-man's tolerance
  Reserve     \* bound: client order ids the strategy leaves for the flatten

ASSUME SessionAssumption ==
  /\ IsFiniteSet(Order)
  /\ Reports \in BOOLEAN /\ Attended \in BOOLEAN /\ Crashes \in BOOLEAN
  /\ Beat \in Nat /\ Tolerance \in Nat /\ Reserve \in Nat

VARIABLES
  session,   \* TradingSession.state, or FAILED once the gate refused
  switch,    \* the kill switch
  clean,     \* Executor.reconciliation_clean
  failures,  \* reconciliation cycles in a row that did not complete
  book,      \* the booked position
  side,      \* 1 for an order that buys, -1 for one that sells, 0 for none
  silent,    \* the time since the last heartbeat
  lost,      \* has the account lost its limit since the UTC day began?
  counted,   \* does the risk state still measure from the day's beginning?
  handler    \* the call in hand and how far it has come

sessionVars == <<machine, venue, transit, session, switch, clean, failures,
                 book, side, silent, lost, counted, handler>>
orderVars == <<machine, venue, transit, book, side>>

Trigger == {"reconciliation_mismatch", "missing_local_position", "daily_loss",
            "drawdown_soft", "drawdown_hard", "deadman", "manual"}
INSTANCE KillSwitch

\* The venue's position: what every order ever traded there.
Total(f) == SumFunctionOnSet(f, Order)
Held == Total([c \in Order |-> side[c] * venue[c].filled])

OpenMachines == {c \in Order : machine[c].status # "NONE" /\ ~IsTerminal(machine[c])}
LiveAtVenue == {c \in Order : venue[c].status = "LIVE"}
Fresh == {c \in Order : venue[c] = NoOrder /\ machine[c].status = "NONE"}

\* Bounds: the model has few ids, so the strategy leaves some for the flatten,
\* and an operator who has none left does not kill.
Spare == Cardinality(Fresh) > Reserve
Some == Fresh # {}

At(place) == [at |-> place, remote |-> 0, left |-> {}, then |-> "idle"]
Idle == At("idle")
Dead == At("dead")

\* A handler starts: a simulated venue has handed over every fill by then.
Begins == handler = Idle /\ \A c \in Order : InOrder(c)

SessionInit ==
  /\ Init
  /\ session = "NEW" /\ switch = AllReleased
  /\ clean = TRUE /\ failures = 0
  /\ book = 0 /\ side = [c \in Order |-> 0]
  /\ silent = 0
  /\ lost = FALSE /\ counted = TRUE
  /\ handler = Idle

-----------------------------------------------------------------------------
(* reconcile                                                               *)

AfterReconcile == IF session = "STARTING" THEN At("gate") ELSE At("ladder")

\* A cycle that does not complete; the third in a row engages the switch.
CycleFails ==
  /\ failures' = Min({failures + 1, 3})
  /\ switch' = IF failures + 1 >= 3 THEN Engage(switch, "reconciliation_mismatch") ELSE switch
  /\ clean' = FALSE
  /\ handler' = AfterReconcile

ReadPositions ==
  /\ handler.at = "positions"
  /\ \/ /\ handler' = [At("orders") EXCEPT !.remote = IF Reports THEN Held ELSE 0]
        /\ UNCHANGED <<switch, clean, failures>>
     \/ CycleFails
  /\ UNCHANGED <<orderVars, session, silent, lost, counted>>

OrderMissingLocal(remote) == LiveAtVenue \ OpenMachines # {}
PositionMissingLocal(remote) == book = 0 /\ remote # 0
MissingLocal(remote) ==
  \/ book = 0 /\ remote # 0
  \/ LiveAtVenue \ OpenMachines # {}
QtyMismatch(remote) == book # 0 /\ book # remote

\* Reconciler.reconcile and what session makes of its report: a position or
\* an order the venue alone knows, and every difference in quantity, halt;
\* an order only we know of does not.  Nothing local is corrected.
ReadOrders ==
  /\ handler.at = "orders"
  /\ \/ LET missing == MissingLocal(handler.remote)
            halting == missing \/ QtyMismatch(handler.remote)
        IN /\ switch' = IF missing THEN Engage(switch, "missing_local_position")
                        ELSE IF halting THEN Engage(switch, "reconciliation_mismatch")
                        ELSE switch
           /\ clean' = ~halting
           /\ failures' = 0
           /\ handler' = AfterReconcile
     \/ CycleFails
  /\ UNCHANGED <<orderVars, session, silent, lost, counted>>

-----------------------------------------------------------------------------
(* start                                                                   *)

Start ==
  /\ Begins /\ session = "NEW"
  /\ session' = "STARTING"
  /\ handler' = At("positions")
  /\ UNCHANGED <<orderVars, switch, clean, failures, silent, lost, counted>>

\* _clear_reconciliation_triggers
Acknowledge(s, operator) ==
  LET Clear(r, t) == TryClear(Approve(ConditionCleared(r, t, 0), t, operator), t, 0)
  IN Clear(Clear(s, "missing_local_position"), "reconciliation_mismatch")

\* The gate: every step passes, or the process ends.  The user stream opens
\* after it, and does not hold what traded before.
Gate ==
  /\ handler.at = "gate"
  /\ \E healthy \in BOOLEAN, acknowledged \in (IF Attended THEN BOOLEAN ELSE {FALSE}) :
       LET s == IF ~clean /\ acknowledged THEN Acknowledge(switch, "operator") ELSE switch
           passed == healthy /\ (clean \/ acknowledged) /\ ~IsEngaged(s)
       IN /\ switch' = s
          /\ session' = IF passed THEN "RUNNING" ELSE "FAILED"
          /\ silent' = IF passed THEN 0 ELSE silent
          /\ transit' = IF passed THEN [c \in Order |-> 0] ELSE transit
  /\ handler' = Idle
  /\ UNCHANGED <<machine, venue, book, side, clean, failures, lost, counted>>

-----------------------------------------------------------------------------
(* on_event and tick                                                       *)

\* Checks 1, 3 and 13 of RiskService.evaluate, which this module's state
\* decides; an order that reduces passes the first while flattening.
BlockedBySwitch(reduces) ==
  IsEngaged(switch) /\ ~(reduces /\ SwitchState(switch) = "FLATTENING")
LossAtLimit == lost /\ counted
Approved(reduces) == ~BlockedBySwitch(reduces) /\ clean /\ ~LossAtLimit
AfterChecks(reduces) ==
  IF ~BlockedBySwitch(reduces) /\ clean /\ LossAtLimit THEN Engage(switch, "daily_loss")
  ELSE switch

Place(c, direction, q) ==
  /\ Submit(c, q)
  /\ side' = [side EXCEPT ![c] = direction]
  /\ UNCHANGED book

\* An event: the strategy's order, if it has one and the risk service lets
\* it, and then the tick that ends every event.
Event ==
  /\ Begins /\ session = "RUNNING"
  /\ \/ /\ IF Approved(FALSE) THEN Spare /\ \E c \in Fresh : Place(c, 1, 1) ELSE UNCHANGED orderVars
        /\ switch' = AfterChecks(FALSE)
     \/ UNCHANGED <<orderVars, switch>>
  /\ handler' = At("tick")
  /\ UNCHANGED <<session, clean, failures, silent, lost, counted>>

\* _tick_loop, which runs from the gate until the process ends
Timer ==
  /\ Begins /\ session \in {"RUNNING", "HALTED"}
  /\ handler' = At("tick")
  /\ UNCHANGED <<orderVars, session, switch, clean, failures, silent, lost, counted>>

Cancelling(then) ==
  [At("cancelling") EXCEPT !.left = OpenMachines, !.then = then]

\* The heartbeat comes before the question whether one was missed.
Tick ==
  /\ handler.at = "tick"
  /\ silent' = IF silent >= Beat THEN 0 ELSE silent
  /\ \E then \in {"positions", "ladder"} :
       IF silent' > Tolerance
         THEN /\ switch' = Engage(switch, "deadman")
              /\ session' = "HALTED"
              /\ handler' = Cancelling(then)
         ELSE /\ UNCHANGED <<switch, session>>
              /\ handler' = At(then)
  /\ UNCHANGED <<orderVars, clean, failures, lost, counted>>

\* The end of the tick: the day may roll over, the ladder may find a drawdown,
\* and a running session that must flatten does.
Ladder ==
  /\ handler.at = "ladder"
  /\ \/ lost' = FALSE /\ counted' = TRUE
     \/ UNCHANGED <<lost, counted>>
  /\ \E s \in {switch, Engage(switch, "drawdown_soft"), Engage(switch, "drawdown_hard")} :
       /\ switch' = s
       /\ IF MustFlatten(s) /\ session = "RUNNING"
            THEN session' = "HALTED" /\ handler' = Cancelling("idle")
            ELSE handler' = Idle /\ UNCHANGED session
  /\ UNCHANGED <<orderVars, clean, failures, silent>>

ManualKill ==
  /\ Begins /\ session \in {"RUNNING", "HALTED"} /\ Some
  /\ switch' = Engage(switch, "manual")
  /\ session' = "HALTED"
  /\ handler' = Cancelling("idle")
  /\ UNCHANGED <<orderVars, clean, failures, silent, lost, counted>>

-----------------------------------------------------------------------------
(* _flatten                                                                *)

\* One order of the executor is cancelled; a cancel that fails is passed over.
FlattenCancel(c) ==
  /\ handler.at = "cancelling" /\ c \in handler.left
  /\ Cancel(c)
  /\ handler' = [handler EXCEPT !.left = @ \ {c}]
  /\ UNCHANGED <<session, switch, clean, failures, book, side, silent, lost, counted>>

\* Then the booked position is sold or bought back with one order, if the risk
\* service approves of it; nobody looks at what became of that order.
FlattenPlace ==
  /\ handler.at = "cancelling" /\ handler.left = {}
  /\ LET size == IF book > 0 THEN book ELSE -book
     IN IF book # 0 /\ Approved(TRUE)
          THEN size <= Qty /\ \E c \in Fresh : Place(c, IF book > 0 THEN -1 ELSE 1, size)
          ELSE UNCHANGED orderVars
  /\ switch' = IF book # 0 THEN AfterChecks(TRUE) ELSE switch
  /\ handler' = At(handler.then)
  /\ UNCHANGED <<session, clean, failures, silent, lost, counted>>

-----------------------------------------------------------------------------
(* What happens to the session                                             *)

\* The user stream hands over a fill: the executor and then the books, but not
\* a fill the order machine refuses.
Fill(c, q) ==
  /\ handler = Idle /\ session \in {"RUNNING", "HALTED"}
  /\ DeliverFill(c, q)
  /\ IF machine[c].status # "NONE" /\ OnFill([machine[c] EXCEPT !.raised = FALSE], q).raised
       THEN handler' = Dead /\ UNCHANGED book
       ELSE book' = book + side[c] * q /\ UNCHANGED handler
  /\ UNCHANGED <<side, session, switch, clean, failures, silent, lost, counted>>

Venue ==
  /\ \E c \in Order : /\ c \in Overtakes \/ handler = Idle
                      /\ VenueExpire(c) \/ \E q \in 1..Qty : VenueFill(c, q)
  /\ UNCHANGED <<book, side, session, switch, clean, failures, silent, lost, counted, handler>>

Drop ==
  /\ StreamDrop
  /\ UNCHANGED <<book, side, session, switch, clean, failures, silent, lost, counted, handler>>

\* The account's loss since the day began reaches the limit.
Lose ==
  /\ handler = Idle /\ ~lost
  /\ lost' = TRUE
  /\ counted' \in {counted, TRUE}
  /\ UNCHANGED <<orderVars, session, switch, clean, failures, silent, handler>>

Elapse ==
  /\ silent <= Tolerance
  /\ silent' = silent + 1
  /\ UNCHANGED <<orderVars, session, switch, clean, failures, lost, counted, handler>>

\* The process dies and another takes its place, with nothing in memory: the
\* risk state is not loaded, and what the user stream held back is lost.
Restart ==
  /\ Crashes \/ session = "FAILED"
  /\ machine' = [c \in Order |-> NoMachine]
  /\ transit' = [c \in Order |-> 0]
  /\ session' = "NEW" /\ switch' = AllReleased
  /\ clean' = TRUE /\ failures' = 0
  /\ book' = 0 /\ silent' = 0 /\ counted' = FALSE
  /\ handler' = Idle
  /\ UNCHANGED <<venue, side, lost>>

SessionNext ==
  \/ Start \/ ReadPositions \/ ReadOrders \/ Gate
  \/ Event \/ Timer \/ Tick \/ Ladder \/ ManualKill
  \/ FlattenPlace \/ \E c \in Order : FlattenCancel(c)
  \/ \E c \in Order, q \in 1..Qty : Fill(c, q)
  \/ Venue \/ Drop \/ Lose \/ Elapse \/ Restart

SessionSpec == SessionInit /\ [][SessionNext]_sessionVars

\* The timer keeps coming and reconciles again and again, handlers return, and
\* what works at the venue trades some time.
SessionFairness ==
  /\ WF_sessionVars(Timer) /\ SF_sessionVars(Tick /\ handler'.at = "positions")
  /\ WF_sessionVars(ReadPositions) /\ WF_sessionVars(ReadOrders) /\ WF_sessionVars(Ladder)
  /\ WF_sessionVars(FlattenPlace) /\ WF_sessionVars(Venue)
  /\ \A c \in Order : /\ WF_sessionVars(FlattenCancel(c))
                      /\ WF_sessionVars(\E q \in 1..Qty : Fill(c, q))
SessionFairSpec == SessionSpec /\ SessionFairness

-----------------------------------------------------------------------------
(* Properties                                                              *)

\* The venue's position is the booked one and what the user stream still holds.
Unreported == Total([c \in Order |-> side[c] * transit[c]])
Explained == Held = book + Unreported

\* Whatever died and came back before, an order that opens a position is placed
\* only by a process that knows the position it adds to: the gate is the whole
\* defence against a restart that "does not know about open positions, and opens
\* more".
TradesInformed ==
  [][\A c \in Order : side[c] = 0 /\ side'[c] = 1 => Explained]_sessionVars

\* The gate lets a process in only with a position it can explain: so where the
\* adapter reports positions and the venue does not trade while the gate reads.
GateExplains ==
  [][session # "RUNNING" /\ session' = "RUNNING" => Explained']_sessionVars
QuietReads ==
  [][session = "STARTING" /\ handler.at \in {"orders", "gate"} => Held' = Held]_sessionVars

\* Whatever the adapter reports and the venue does meanwhile, the orders are known:
\* none is placed while an order works at the venue that this process does not hold
\* as open, left by a process before it or written off too early by this one.
OpensKnowingOrders ==
  [][\A c \in Order : side[c] = 0 /\ side'[c] # 0 => LiveAtVenue \subseteq OpenMachines]_sessionVars

\* A position the session cannot explain, because a fill was lost, stops it: a
\* reconciliation finds it, or the third failure in a row to reconcile does.
DesyncDetected ==
  session = "RUNNING" /\ ~Explained ~>
    IsEngaged(switch) \/ Explained \/ session # "RUNNING"

\* session.py: "one command that flattens everything"; a trigger that demands a
\* flatten ends in a flat account.
Flat == book = 0 /\ Held = 0
FlattenEnds == session = "HALTED" /\ MustFlatten(switch) ~> Flat

=============================================================================
