----------------------------- MODULE MCLegGroups -----------------------------
(***************************************************************************)
(* LegGroups for the model checker: the orders of the legs, and which of   *)
(* them rest at a venue whose answers may overtake its fills.              *)
(***************************************************************************)
EXTENDS LegGroups

Orders == Leg \X {"open", "unwind"}
QuickOrders == Quick \X {"open", "unwind"}
=============================================================================
