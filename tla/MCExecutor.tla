----------------------------- MODULE MCExecutor -----------------------------
EXTENDS Executor

CONSTANTS btc, hype

ExecCloid ==
    [ts : 1 .. MaxCycles, coin : Coin, seq : -1 .. MaxAttempts - 1]
On == {TRUE}
Off == {FALSE}
Any == BOOLEAN
=============================================================================
