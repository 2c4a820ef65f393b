-------------------------- MODULE MCUsageMetering ---------------------------
\* TLC instances of UsageMetering: every constant is a number or a Boolean,
\* given in the configurations.
EXTENDS UsageMetering

\* Bound: a state that is no longer in order is checked but not left, as
\* NeverOvercharged and ChargedWithinRecorded say nothing of what follows it, and one
\* request is on its way after the agent gave up on it.  The file and the kernel
\* depend on samples through revocations for the quota only.
OrderOnly == InOrder /\ Cardinality(stale) <= 1
=============================================================================
