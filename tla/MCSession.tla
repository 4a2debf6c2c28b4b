----------------------------- MODULE MCSession -----------------------------
(***************************************************************************)
(* Session for the model checker: the client order ids are interchangeable,*)
(* which the safety runs may use.                                          *)
(***************************************************************************)
EXTENDS Session, TLC

Symmetry == Permutations(Order)
=============================================================================
