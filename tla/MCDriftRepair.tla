---------------------------- MODULE MCDriftRepair ----------------------------
EXTENDS DriftRepair

\* A bound: hiding a session, and who revoked it, is the concern of the lifecycle's
\* own runs.
RevokedByOwner == \A s \in Sessions : ~hiding[s] /\ ~quotaRevoked[s]
==============================================================================
