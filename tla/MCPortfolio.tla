----------------------------- MODULE MCPortfolio -----------------------------
(***************************************************************************)
(* Portfolio for the model checker: as live/wiring.py sets it up by        *)
(* default, the carry trade alone with both its legs on the perpetual's    *)
(* venue.                                                                  *)
(***************************************************************************)
EXTENDS Portfolio

CarryAlone == <<"funding_carry">>
=============================================================================
