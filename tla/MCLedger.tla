-------------------------------- MODULE MCLedger --------------------------------
(* Ledger on a small instance: two trades, wins and losses, two bars.      *)
EXTENDS Ledger, TLC

MCPnls == {-1, 0, 1}

================================================================================
