-------------------------- MODULE MCConfigPayment ---------------------------
\* TLC instances of ConfigPayment.  Requests are interchangeable; the runs that
\* check no liveness use it.
EXTENDS ConfigPayment, TLC

Symmetry == Permutations(Requests)
=============================================================================
