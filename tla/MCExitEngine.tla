----------------------------- MODULE MCExitEngine -----------------------------
(* Values for ExitEngine: prices on both sides of an entry at 30, at and   *)
(* between the levels a goal of 15 gives (34, 38, 45), a stop of 6, the    *)
(* break-even line and the trailing lines.                                 *)
EXTENDS ExitEngine

MCPrices == {15, 20, 22, 24, 26, 30, 34, 36, 38, 40, 45}
MCDefaults == [runner |-> TRUE, arm |-> 1, breakEven |-> 0, take |-> Share(30, 30, 40)]
=============================================================================
