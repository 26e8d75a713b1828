------------------------------ MODULE MCNonce ------------------------------
EXTENDS Nonce

CONSTANTS daemon, tool

Unknown == {0}
Any == 0 .. 2
=============================================================================
