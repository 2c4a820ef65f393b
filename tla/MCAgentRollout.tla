--------------------------- MODULE MCAgentRollout ---------------------------
\* One deployment, its faults counted, on a host that is slow but not dead: a
\* helper ends, and a gate is seen again or its lease expires.
EXTENDS AgentRollout

CONSTANT MaxFaults    \* bound: faults

VARIABLE faults

MCInit == RolloutInit /\ faults = 0

MCNext ==
    \/ RolloutWork /\ UNCHANGED faults
    \/ RolloutFault /\ faults < MaxFaults /\ faults' = faults + 1

MCSpec ==
    /\ MCInit
    /\ [][MCNext]_<<rolloutVars, faults>>
    /\ RolloutFairness
    /\ WF_rolloutVars(HelperStep)
    /\ WF_rolloutVars(Heartbeat)
    /\ WF_rolloutVars(~up /\ GateLeaseExpires)
=============================================================================
