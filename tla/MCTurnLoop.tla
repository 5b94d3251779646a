----------------------------- MODULE MCTurnLoop -----------------------------
(* TurnLoop for TLC; the configurations give the constants their values. *)
EXTENDS TurnLoop
==============================================================================
