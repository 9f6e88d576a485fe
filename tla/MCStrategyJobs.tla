-------------------------- MODULE MCStrategyJobs --------------------------
(* Model-checking instances of the strategy job ledger.                     *)
EXTENDS StrategyJobs, TLC

InstanceSymmetry == Permutations(Instances)
=============================================================================
