-------------------------- MODULE MCCriticalSection --------------------------
EXTENDS CriticalSection

CONSTANTS t1, t2, t3

MCThreads == {t1, t2, t3}
MCWorkers == {t3}
=============================================================================
