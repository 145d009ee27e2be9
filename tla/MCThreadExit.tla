----------------------------- MODULE MCThreadExit -----------------------------
EXTENDS ThreadExit

CONSTANTS c1, c2, c3, w1

MCCallbacks == {c1, c2, c3}
MCOwning == {c1}
MCWaiters == {w1}
=============================================================================
