----------------------------- MODULE MCSafetyLog -----------------------------
(* Model values for checking SafetyLog: one service scope, one account,    *)
(* one trade.                                                              *)
EXTENDS SafetyLog, TLC

CONSTANTS account, trade, service

MCWideScopes  == {service, account}
MCTradeScopes == {trade}

(* The runs about the latch need the service scope only.                   *)
MCLatchScopes == {service}
MCNoScopes    == {}

ThreadSymmetry == Permutations(Threads)
=============================================================================
