---------------------------- MODULE MCKernelWait ----------------------------
(* Two threads and the GPU interrupt; an auto-reset event, a semaphore and a *)
(* mutant; waits in opposite orders, for all and for any.                    *)
EXTENDS KernelWait

CONSTANTS a, b, isr, ev, sem, mut

Wait(handles, all, timed, alertable) ==
  [handles |-> handles, all |-> all, timed |-> timed, alertable |-> alertable]

SomeRequests == [t \in {a, b, isr} |->
  CASE t = a -> {Wait(<<ev>>, FALSE, TRUE, FALSE), Wait(<<mut>>, FALSE, FALSE, TRUE)}
    [] t = b -> {Wait(<<ev, mut>>, TRUE, TRUE, FALSE), Wait(<<sem, ev>>, FALSE, FALSE, TRUE)}
    [] OTHER -> {}]

SomeCallbacks == [t \in {a, b, isr} |-> IF t = a THEN 1 ELSE 0]
=============================================================================
