----------------------------- MODULE LegGroups -----------------------------
(***************************************************************************)
(* legs.py with the part of pipeline.py that drives it: one multi-leg      *)
(* trade, from the orders that open it to the group being complete,        *)
(* abandoned or unwound.  Each leg has an order that opens it and one that *)
(* would unwind it; both are orders of the execution layer.                *)
(*                                                                         *)
(* As in Pipeline, a handler calls the venue several times, and no fill is *)
(* delivered until it returns.                                             *)
(***************************************************************************)
EXTENDS Execution, FiniteSets

CONSTANTS
  Leg,        \* the legs of the trade, each on an instrument of its own
  Quick,      \* the legs at venues whose answers may overtake their fills
  Reduces,    \* may the risk service cut a leg's order?
  Skips,      \* may a leg be too small for the filters, or have no price?
  Gaps        \* may events have come further apart than the completion timeout?

\* Every leg asks for Qty, and has the two orders; the user stream does not drop
\* here: Execution and Session see to that.
ASSUME GroupAssumption ==
  /\ IsFiniteSet(Leg) /\ Quick \subseteq Leg
  /\ Reduces \in BOOLEAN /\ Skips \in BOOLEAN /\ Gaps \in BOOLEAN
  /\ Order = Leg \X {"open", "unwind"}
  /\ Overtakes = Quick \X {"open", "unwind"} /\ Lossy = {} /\ Instant = {}

VARIABLES
  legs,       \* LegGroup.legs: what the group knows of the legs it has
  group,      \* the group's status, or how it ended
  expired,    \* is the completion timeout over?
  handler     \* the call in hand and the legs it still has to see to

groupVars == <<machine, venue, transit, legs, group, expired, handler>>

Opening(l) == <<l, "open">>
Unwinding(l) == <<l, "unwind">>

-----------------------------------------------------------------------------
NoLeg == [known |-> FALSE, quantity |-> 0, filled |-> 0, status |-> "INTENT"]
NewLeg(status) == [known |-> TRUE, quantity |-> Qty, filled |-> 0, status |-> status]

Known == {l \in Leg : legs[l].known}
LegIsTerminal(l) == legs[l].status \in Terminal
Unfilled == {l \in Known : legs[l].filled < legs[l].quantity}
FilledLegs == {l \in Known : legs[l].filled > 0}
AllFilled == Known # {} /\ Unfilled = {}
NothingFilled == FilledLegs = {}
LegsDead == Unfilled # {} /\ \A l \in Unfilled : LegIsTerminal(l)

Idle == [at |-> "idle", left |-> {}]
At(place, left) == [at |-> place, left |-> left]
Dead == At("dead", {})

GroupInit ==
  /\ Init
  /\ legs = [l \in Leg |-> NoLeg]
  /\ group = "NONE" /\ expired = FALSE
  /\ handler = Idle

-----------------------------------------------------------------------------
(* on_market_event: the legs of a signal, one after the other              *)

Signal ==
  /\ handler = Idle /\ group = "NONE"
  /\ handler' = At("placing", Leg)
  /\ UNCHANGED <<machine, venue, transit, legs, group, expired>>

\* A leg joins the group with the quantity that was asked, whatever was
\* approved; one the risk service or the venue refused joins it rejected.
PlaceLeg(l) ==
  /\ handler.at = "placing" /\ l \in handler.left
  /\ \/ /\ \E q \in (IF Reduces THEN 1 ELSE Qty)..Qty : Submit(Opening(l), q)
        /\ legs' = [legs EXCEPT ![l] =
             NewLeg(IF machine'[Opening(l)].status = "REJECTED" THEN "REJECTED" ELSE "INTENT")]
     \/ /\ legs' = [legs EXCEPT ![l] = NewLeg("REJECTED")]
        /\ UNCHANGED <<machine, venue, transit>>
  /\ group' = "PENDING"
  /\ handler' = At("placing", handler.left \ {l})
  /\ UNCHANGED expired

\* Unwinder.open refuses a timeout that cannot outlast a gap: only once the first
\* leg's order went its way, and the error ends the loop.
OpenRaises(l) ==
  /\ Gaps /\ group = "NONE"
  /\ handler.at = "placing" /\ l \in handler.left
  /\ \/ \E q \in (IF Reduces THEN 1 ELSE Qty)..Qty : Submit(Opening(l), q)
     \/ UNCHANGED <<machine, venue, transit>>
  /\ handler' = Dead
  /\ UNCHANGED <<legs, group, expired>>

\* A leg the filters refuse, or that has no price, never joins.
SkipLeg(l) ==
  /\ Skips
  /\ handler.at = "placing" /\ l \in handler.left
  /\ handler' = At("placing", handler.left \ {l})
  /\ UNCHANGED <<machine, venue, transit, legs, group, expired>>

Placed ==
  /\ handler = At("placing", {})
  /\ handler' = Idle
  /\ UNCHANGED <<machine, venue, transit, legs, group, expired>>

-----------------------------------------------------------------------------
(* _process_unwinds                                                        *)

EvaluateTimeoutFirst ==
  IF expired THEN IF NothingFilled THEN "ABANDONED" ELSE "BROKEN"
  ELSE IF AllFilled THEN "COMPLETE" ELSE "PENDING"

EvaluateWhenDead ==
  IF AllFilled THEN "COMPLETE"
  ELSE IF ~LegsDead THEN "PENDING"
  ELSE IF NothingFilled THEN "ABANDONED" ELSE "BROKEN"

\* LegGroup.evaluate
Evaluate ==
  IF AllFilled THEN "COMPLETE"
  ELSE IF ~(expired \/ LegsDead) THEN "PENDING"
  ELSE IF NothingFilled THEN "ABANDONED" ELSE "BROKEN"

\* An event finds the group due: complete and abandoned groups are forgotten,
\* a broken one is unwound in this same call.
Sweep ==
  /\ handler = Idle /\ group = "PENDING"
  /\ \A c \in Order : InOrder(c)
  /\ Evaluate # "PENDING"
  /\ IF Evaluate = "BROKEN"
       THEN /\ group' = "UNWINDING"
            /\ handler' = At("cancelling", {l \in Unfilled : ~LegIsTerminal(l)})
       ELSE /\ group' = Evaluate
            /\ UNCHANGED handler
  /\ UNCHANGED <<machine, venue, transit, legs, expired>>

\* A cancel that fails, or that has nothing to cancel, is passed over.
CancelLeg(l) ==
  /\ handler.at = "cancelling" /\ l \in handler.left
  /\ LET m == machine[Opening(l)]
     IN IF m.status = "NONE" \/ IsTerminal(m)
          THEN UNCHANGED <<machine, venue, transit>>
          ELSE Cancel(Opening(l))
  /\ handler' = At("cancelling", handler.left \ {l})
  /\ UNCHANGED <<legs, group, expired>>

StartUnwind ==
  /\ handler = At("cancelling", {})
  /\ handler' = At("unwinding", FilledLegs)
  /\ UNCHANGED <<machine, venue, transit, legs, group, expired>>

UnwindAskedLeg(l) ==
  /\ handler.at = "unwinding" /\ l \in handler.left
  /\ Submit(Unwinding(l), legs[l].quantity)
  /\ handler' = At("unwinding", handler.left \ {l})
  /\ UNCHANGED <<legs, group, expired>>

\* What a leg filled is sold back, reduce-only; the filters, the risk service
\* and the venue may refuse or reduce this order like any other.
UnwindLeg(l) ==
  /\ handler.at = "unwinding" /\ l \in handler.left
  /\ \/ \E q \in (IF Reduces THEN 1 ELSE legs[l].filled)..legs[l].filled : Submit(Unwinding(l), q)
     \/ UNCHANGED <<machine, venue, transit>>
  /\ handler' = At("unwinding", handler.left \ {l})
  /\ UNCHANGED <<legs, group, expired>>

\* mark_unwound forgets the group, whatever became of its orders.
MarkUnwound ==
  /\ handler = At("unwinding", {})
  /\ group' = "UNWOUND"
  /\ handler' = Idle
  /\ UNCHANGED <<machine, venue, transit, legs, expired>>

-----------------------------------------------------------------------------
(* Fills, the clock and the venue                                          *)

LegAfter(leg, q) ==
  [leg EXCEPT !.filled = @ + q,
              !.status = IF leg.filled + q >= leg.quantity THEN "FILLED" ELSE @]

LegMissed(l, q) == UNCHANGED legs

\* Unwinder.on_fill: only a group that is still held hears of a fill.
LegFill(l, q) ==
  IF group = "PENDING" /\ legs[l].known
    THEN legs' = [legs EXCEPT ![l] = LegAfter(@, q)]
    ELSE UNCHANGED legs

\* Pipeline.on_fill: the executor, then the unwinder; an illegal transition in
\* the executor ends the loop.
Fill(l, purpose, q) ==
  LET c == <<l, purpose>>
  IN /\ handler = Idle
     /\ DeliverFill(c, q)
     /\ IF machine[c].status # "NONE" /\ OnFill([machine[c] EXCEPT !.raised = FALSE], q).raised
          THEN handler' = Dead /\ UNCHANGED legs
          ELSE /\ IF purpose = "open" THEN LegFill(l, q) ELSE UNCHANGED legs
               /\ UNCHANGED handler
     /\ UNCHANGED <<group, expired>>

Expire ==
  /\ group = "PENDING" /\ ~expired
  /\ expired' = TRUE
  /\ UNCHANGED <<machine, venue, transit, legs, group, handler>>

Venue ==
  /\ \E c \in Order : /\ c[1] \in Quick \/ handler = Idle
                      /\ VenueExpire(c) \/ \E q \in 1..Qty : VenueFill(c, q)
  /\ UNCHANGED <<legs, group, expired, handler>>

GroupNext ==
  \/ Signal \/ Placed \/ Sweep \/ StartUnwind \/ MarkUnwound \/ Expire \/ Venue
  \/ \E l \in Leg : PlaceLeg(l) \/ OpenRaises(l) \/ SkipLeg(l) \/ CancelLeg(l) \/ UnwindLeg(l)
  \/ \E l \in Leg, purpose \in {"open", "unwind"}, q \in 1..Qty : Fill(l, purpose, q)

GroupSpec == GroupInit /\ [][GroupNext]_groupVars

\* Events keep coming, handlers return, the clock runs, fills are read.
GroupFairSpec ==
  /\ GroupSpec
  /\ WF_groupVars(Signal \/ Placed \/ StartUnwind \/ MarkUnwound)
  /\ WF_groupVars(Expire) /\ SF_groupVars(Sweep)
  /\ \A l \in Leg :
       /\ WF_groupVars(PlaceLeg(l)) /\ WF_groupVars(CancelLeg(l)) /\ WF_groupVars(UnwindLeg(l))
       /\ \A purpose \in {"open", "unwind"} : WF_groupVars(\E q \in 1..Qty : Fill(l, purpose, q))

-----------------------------------------------------------------------------
(* Properties                                                              *)

\* An unwind never opens exposure: it sells back at most what its leg really
\* bought, however late the leg's fills come.
UnwindWithinFill ==
  \A l \in Leg : venue[Unwinding(l)].quantity <= venue[Opening(l)].filled

\* While the group is held it knows exactly what its orders filled, whatever timed
\* out or was refused; an answer that overtook a fill makes the executor know more.
LegsAgree ==
  group = "PENDING" => \A l \in Known \ Quick :
    legs[l].filled = machine[Opening(l)].filled

\* A trade whose legs all filled as they were asked to, and were reported, is never
\* torn down, not even when the last fill and the timeout come together.
ReportedFilled(l) == venue[Opening(l)].filled - transit[Opening(l)]
WholeTradeKept ==
  [][group' = "UNWINDING" /\ group # "UNWINDING" =>
       \E l \in Leg : ReportedFilled(l) < Qty]_groupVars

\* No group sits incomplete for ever, as long as the loop that sweeps lives.
GroupsClose ==
  group = "PENDING" ~> group \in {"COMPLETE", "ABANDONED", "UNWOUND"} \/ handler = Dead

\* legs.py of a group with nothing filled: "cancel what is left and walk away".
AbandonedIsDead ==
  group = "ABANDONED" => \A l \in Leg : venue[Opening(l)].status # "LIVE"

=============================================================================
