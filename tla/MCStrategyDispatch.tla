------------------------- MODULE MCStrategyDispatch -------------------------
(* Model-checking instances of the dispatcher and its worker children.      *)
EXTENDS StrategyDispatch, TLC
=============================================================================
