------------------------------ MODULE MCExitPlans ------------------------------
(* Model values for checking ExitPlans.                                    *)
EXTENDS ExitPlans, TLC

TradeSymmetry == Permutations(Trades)
=============================================================================
