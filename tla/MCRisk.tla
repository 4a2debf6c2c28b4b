------------------------------- MODULE MCRisk -------------------------------
(***************************************************************************)
(* RiskService for the model checker: equity of 10 lots, a strategy whose  *)
(* cap is 20% of it, and a flatten that declares no stop.                  *)
(***************************************************************************)
EXTENDS RiskService

Shares == [s \in Strategy |-> IF s = Flattener THEN 10 ELSE 20]
=============================================================================
