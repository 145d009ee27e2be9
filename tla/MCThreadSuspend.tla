--------------------------- MODULE MCThreadSuspend ---------------------------
EXTENDS ThreadSuspend

CONSTANTS k1, k2

MCControllers == {k1, k2}
=============================================================================
