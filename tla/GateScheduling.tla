---------------------------- MODULE GateScheduling ----------------------------
(***************************************************************************)
(* Which gates may carry a new session.  A gate's heartbeat says what its  *)
(* host can do; the API judges it with the desired state it read when it   *)
(* authenticated the request, and saves status, conditions and lease in one*)
(* transaction.  The reconciler takes the conditions away from gates whose *)
(* lease ran out, one statement per condition, and choosePath picks two    *)
(* gates with one query each.  Nothing orders these against each other.    *)
(***************************************************************************)
EXTENDS Naturals, FiniteSets

CONSTANTS
    Gates,
    MaxBeats,     \* bound: heartbeats under way
    MaxChanges    \* bound: changes of hosts, of desired states and of deployments

ASSUME SchedulingAssumption == IsFiniteSet(Gates) /\ MaxBeats \in Nat /\ MaxChanges \in Nat

VARIABLES
    wanted,     \* wanted[g]: gates.desired_state is 'Enabled'
    ability,    \* ability[g]: what the host has now
    beats,      \* heartbeats on their way, or being handled
    noted,      \* noted[g]: gate_status, the ability last saved
    holds,      \* holds[g]: the condition types that are 'True'
    alive,      \* alive[g]: the lease is fresh
    replacing,  \* replacing[g]: an active gate_agent_deployments row
    marking,    \* the condition the reconciler is about to take away, and from whom
    ingress,    \* the gate choosePath has chosen for the ingress, or {}
    changes

schedulingVars == <<wanted, ability, beats, noted, holds, alive, replacing, marking, ingress,
                    changes>>
worldVars == <<wanted, ability, replacing, changes>>
savedVars == <<noted, holds, alive>>

\* The host tools; a DoubleZero tunnel that is up, undrained and the catalogue's.
Traits == {"tools", "tunnel"}
Conditions == <<"AgentConnected", "Ready", "Schedulable">>
Types == {"AgentConnected", "Ready", "Schedulable"}
Unmarked == [next |-> 1, stale |-> {}]

SchedulingTypeOK ==
    /\ wanted \in [Gates -> BOOLEAN]
    /\ ability \in [Gates -> SUBSET Traits]
    /\ \A b \in beats : b.gate \in Gates /\ b.shows \subseteq Traits
    /\ noted \in [Gates -> SUBSET Traits]
    /\ holds \in [Gates -> SUBSET Types]
    /\ alive \in [Gates -> BOOLEAN]
    /\ replacing \in [Gates -> BOOLEAN]
    /\ marking \in [next : 1..3, stale : SUBSET Gates]
    /\ ingress \subseteq Gates /\ Cardinality(ingress) <= 1

SchedulingInit ==
    /\ wanted = [g \in Gates |-> TRUE]
    /\ ability = [g \in Gates |-> Traits]
    /\ beats = {}
    /\ noted = [g \in Gates |-> {}]
    /\ holds = [g \in Gates |-> {}]
    /\ alive = [g \in Gates |-> FALSE]
    /\ replacing = [g \in Gates |-> FALSE]
    /\ marking = Unmarked
    /\ ingress = {}
    /\ changes = 0

-------------------------------------------------------------------------------
\* Hosts change, admins set desired states, deployments begin and end.
WorldChanges(g) ==
    /\ changes < MaxChanges
    /\ changes' = changes + 1
    /\ \/ \E t \in Traits : ability' = [ability EXCEPT ![g] = (@ \cup {t}) \ (@ \cap {t})]
          /\ UNCHANGED <<wanted, replacing>>
       \/ wanted' = [wanted EXCEPT ![g] = ~@] /\ UNCHANGED <<ability, replacing>>
       \/ replacing' = [replacing EXCEPT ![g] = ~@] /\ UNCHANGED <<ability, wanted>>
    /\ UNCHANGED <<beats, savedVars, marking, ingress>>

\* The agent gives up on a heartbeat after a while and sends the next one.
sendHeartbeat(g) ==
    /\ Cardinality(beats) < MaxBeats
    /\ beats' = beats \cup {[gate |-> g, shows |-> ability[g], read |-> FALSE, wanted |-> FALSE]}
    /\ UNCHANGED <<worldVars, savedVars, marking, ingress>>

LoseHeartbeat(b) ==
    /\ b \in beats
    /\ beats' = beats \ {b}
    /\ UNCHANGED <<worldVars, savedVars, marking, ingress>>

\* The request is authenticated: the gate's row is read.
ReadGate(b) ==
    /\ b \in beats
    /\ ~b.read
    /\ beats' = (beats \ {b}) \cup {[b EXCEPT !.read = TRUE, !.wanted = wanted[b.gate]]}
    /\ UNCHANGED <<worldVars, savedVars, marking, ingress>>

\* evaluateGateReadiness and resolveGateHeartbeatConditions.
TunnelIsEnough(shows, enabled) ==
    {"AgentConnected", "Ready"} \cup (IF "tunnel" \in shows /\ enabled THEN {"Schedulable"} ELSE {})

LifecycleOnly(shows, enabled) ==
    IF "tools" \notin shows THEN {}
    ELSE {"Ready"} \cup (IF "tunnel" \in shows /\ enabled THEN {"Schedulable"} ELSE {})

HeartbeatConditions(shows, enabled) ==
    {"AgentConnected"}
        \cup (IF "tools" \in shows THEN {"Ready"} ELSE {})
        \cup (IF {"tools", "tunnel"} \subseteq shows /\ enabled THEN {"Schedulable"} ELSE {})

recordGateHeartbeat(b) ==
    /\ b \in beats
    /\ b.read
    /\ beats' = beats \ {b}
    /\ noted' = [noted EXCEPT ![b.gate] = b.shows]
    /\ holds' = [holds EXCEPT ![b.gate] = HeartbeatConditions(b.shows, b.wanted)]
    /\ alive' = [alive EXCEPT ![b.gate] = TRUE]
    /\ UNCHANGED <<worldVars, marking, ingress>>

LeaseExpires(g) ==
    /\ alive[g]
    /\ alive' = [alive EXCEPT ![g] = FALSE]
    /\ UNCHANGED <<worldVars, beats, noted, holds, marking, ingress>>

\* markStaleGateConditions: a statement reads which leases are stale ...
ReadStale ==
    /\ marking.stale = {}
    /\ marking' = [marking EXCEPT !.stale = {g \in Gates : ~alive[g]}]
    /\ UNCHANGED <<worldVars, beats, savedVars, ingress>>

\* ... and writes, though a heartbeat may have been saved since.
MarkStale ==
    /\ marking.stale # {}
    /\ holds' = [g \in Gates |-> IF g \in marking.stale THEN holds[g] \ {Conditions[marking.next]}
                                 ELSE holds[g]]
    /\ marking' = [next |-> IF marking.next = 3 THEN 1 ELSE marking.next + 1, stale |-> {}]
    /\ UNCHANGED <<worldVars, beats, noted, alive, ingress>>

-------------------------------------------------------------------------------
\* selectSchedulableGate; a policy may admit any of the gates.
Schedulable(g) ==
    /\ wanted[g]
    /\ holds[g] = Types
    /\ ~replacing[g]
    /\ "tunnel" \in noted[g]
    /\ alive[g]

ChooseIngress(g) ==
    /\ ingress = {}
    /\ Schedulable(g)
    /\ ingress' = {g}
    /\ UNCHANGED <<worldVars, beats, savedVars, marking>>

\* The second query completes the path.
ChooseEgress(g) ==
    /\ ingress # {}
    /\ Schedulable(g)
    /\ g \notin ingress
    /\ ingress' = {}
    /\ UNCHANGED <<worldVars, beats, savedVars, marking>>

NoEgress ==
    /\ ingress # {}
    /\ ingress' = {}
    /\ UNCHANGED <<worldVars, beats, savedVars, marking>>

SchedulingWork ==
    \/ \E g \in Gates :
           WorldChanges(g) \/ sendHeartbeat(g) \/ LeaseExpires(g) \/ ChooseIngress(g) \/ ChooseEgress(g)
    \/ \E b \in beats : ReadGate(b) \/ recordGateHeartbeat(b)
    \/ ReadStale \/ MarkStale
    \/ NoEgress

SchedulingFault == \E b \in beats : LoseHeartbeat(b)

SchedulingNext == SchedulingWork \/ SchedulingFault

SchedulingSpec == SchedulingInit /\ [][SchedulingNext]_schedulingVars

\* The API handles what arrives; that the agents go on sending is the harness's.
SchedulingFairness ==
    \A g \in Gates :
        /\ WF_schedulingVars(\E b \in beats : b.gate = g /\ ReadGate(b))
        /\ WF_schedulingVars(\E b \in beats : b.gate = g /\ recordGateHeartbeat(b))

-------------------------------------------------------------------------------
\* selectSchedulableGate does not look at the host tools that the heartbeat listed:
\* it relies on conditions that heartbeats give and the reconciler takes away, each
\* in its own time.  Still a gate it may choose has listed the tools when it was last
\* heard.
SchedulableIsAble == \A g \in Gates : Schedulable(g) => Traits \subseteq noted[g]

Healthy(g) == wanted[g] /\ ability[g] = Traits /\ ~replacing[g]
==============================================================================
