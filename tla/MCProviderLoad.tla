--------------------------- MODULE MCProviderLoad ---------------------------
(* Four requests for one provider: one inside the lock, one woken and two
   behind them is the deepest queue in which order can matter.             *)
EXTENDS ProviderLoad

CONSTANTS r1, r2, r3, r4

FourCallers == {r1, r2, r3, r4}
=============================================================================
