------------------------- MODULE MCSessionLifecycle -------------------------
\* TLC instances of SessionLifecycle.
EXTENDS SessionLifecycle, TLC

\* A bound: two faults before the session is reactivated, one fault less after.
FaultsOrReactivation ==
    \A s \in Sessions : generation[s] > 2 => faults >= MaxFaults - 1

\* A bound: sessions are paid for at once, revoked by their owner and not hidden;
\* who asks for a revocation makes no difference to the addresses.
OwnersOnly ==
    \A s \in Sessions : ~hiding[s] /\ ~quotaRevoked[s] /\ phase[s] # "payment_pending"

\* Sessions are interchangeable in a run that checks no liveness.
Symmetry == Permutations(Sessions)
=============================================================================
