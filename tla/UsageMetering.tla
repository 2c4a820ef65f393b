--------------------------- MODULE UsageMetering ----------------------------
(***************************************************************************)
(* What a session's payload costs it: the egress host of GateAgent sends   *)
(* counter samples, the control plane turns them into the consumed bytes   *)
(* of the session's traffic entitlement (recordGateAssignmentCounter in    *)
(* resources/actual-state/repository.ts), and the worker revokes a session *)
(* that has used up what it paid for (traffic-quota.scenario.ts) until an  *)
(* administrator adds to it (admin-traffic-quota.scenario.ts).             *)
(*                                                                         *)
(* A sample carries the value of a counter, not what was added to it.  The *)
(* control plane charges the difference from the sample before, within one *)
(* boot of the host and one generation of the session; the first sample of *)
(* each only sets the base.                                                *)
(***************************************************************************)
EXTENDS GateAgent, FiniteSetsExt

CONSTANTS
    Quota,     \* included bytes of a paid session
    Increase   \* what an administrator adds to the consumed bytes

ASSUME MeteringAssumption == Quota \in Nat \ {0} /\ Increase \in Nat \ {0}

VARIABLES
    stored,    \* the samples recorded
    consumed,  \* consumed_bytes
    included,  \* included_bytes
    exhausted, \* exhausted_at is set
    byQuota,   \* the last revocation was requested for the quota
    late       \* history: a sample was recorded after a later one was sent

account == <<stored, consumed, included, exhausted, byQuota, late>>
vars == <<hostVars, account>>

TypeOK ==
    /\ HostTypeOK
    /\ stored \subseteq Samples
    /\ consumed \in Nat /\ included \in Nat
    /\ exhausted \in BOOLEAN /\ byQuota \in BOOLEAN /\ late \in BOOLEAN

Init ==
    /\ HostInit
    /\ stored = {} /\ consumed = 0 /\ included = Quota
    /\ exhausted = FALSE /\ byQuota = FALSE /\ late = FALSE

-----------------------------------------------------------------------------
\* recordGateAssignmentCounter.

\* ON CONFLICT (gate, assignment, boot, generation, sampled_at) DO NOTHING
Bug_AlwaysNew(s) == TRUE
IsNew(s) == \A p \in stored : <<p.boot, p.gen, p.at>> # <<s.boot, s.gen, s.at>>

Earlier(s) == {p \in stored : p.boot = s.boot /\ p.gen = s.gen /\ p.at < s.at}

Bug_Oldest(s) == CHOOSE p \in Earlier(s) : \A q \in Earlier(s) : p.at <= q.at
Previous(s) == CHOOSE p \in Earlier(s) : \A q \in Earlier(s) : q.at <= p.at

Delta(s) == IF Earlier(s) = {} THEN 0 ELSE Max({s.bytes - Previous(s).bytes, 0})

Insert(s) ==
    /\ IF IsNew(s)
       THEN stored' = stored \cup {s} /\ consumed' = consumed + Delta(s)
       ELSE UNCHANGED <<stored, consumed>>
    /\ UNCHANGED <<control, file, kernel, agent, peek, clock, mixed, boot, forwarded,
                   deaths, faults, ignored, included, exhausted, byQuota>>

\* The request with the sample sent last arrives.
Record ==
    \E s \in flight :
        /\ flight' = flight \ {s}
        /\ Insert(s)
        /\ UNCHANGED <<stale, late>>

\* A request that the agent has given up on arrives, after a later one was sent.
RecordLate ==
    \E s \in stale :
        /\ stale' = stale \ {s}
        /\ Insert(s)
        /\ late' = (late \/ IsNew(s))
        /\ UNCHANGED flight

-----------------------------------------------------------------------------
\* enforceSessionTrafficQuotas
Bug_AboveOnly == consumed > included
IsExhausted == consumed >= included

EnforceQuota ==
    /\ ~exhausted /\ IsExhausted
    /\ Revocation
    /\ exhausted' = TRUE /\ byQuota' = TRUE
    /\ UNCHANGED <<stored, consumed, included, late>>

\* The owner revokes the session.
RevokeByOwner ==
    /\ Revocation
    /\ byQuota' = FALSE
    /\ UNCHANGED <<stored, consumed, included, exhausted, late>>

\* adjustSessionTrafficQuota: what is included grows beyond what is consumed,
\* and exhausted_at is cleared unless the session stays revoked.
Adjusted(clear) ==
    /\ included' = consumed + Increase
    /\ exhausted' = (exhausted /\ ~clear)
    /\ UNCHANGED <<stored, consumed, byQuota, late>>

AdjustOnly ==
    /\ ~(byQuota /\ wanted = "Revoked" /\ Revoked)
    /\ UNCHANGED hostVars
    /\ Adjusted(wanted = "Applied")

AdjustAndReactivate ==
    /\ byQuota
    /\ Reactivation
    /\ Adjusted(TRUE)

-----------------------------------------------------------------------------
Next ==
    \/ HostStep /\ UNCHANGED account
    \/ Record \/ RecordLate \/ EnforceQuota \/ RevokeByOwner
    \/ included <= MaxTraffic /\ (AdjustOnly \/ AdjustAndReactivate)

Spec == Init /\ [][Next]_vars

\* The worker enforces quotas in a loop; the host is as fair as HostFairness says.
FairSpec == Spec /\ HostFairness /\ WF_vars(EnforceQuota)

-----------------------------------------------------------------------------
\* Telemetry and the control lane are two goroutines, and the agent sends its next
\* sample when a request has timed out: a sample may be put together from a file and
\* rules of different moments, or recorded behind its successor.  Charges go wrong
\* only if that has happened.
InOrder == ~mixed /\ ~late

\* Until then what is charged was forwarded: repairs that reset the counter, reboots,
\* revocations and reactivations, samples that are lost and checkpoints that are
\* sent again never make recordGateAssignmentCounter charge payload twice.
NeverOvercharged == InOrder => consumed <= forwarded

\* Nor, as long as the agent does not die, is more charged than the units of the
\* counter that the recorded samples show: those that lie between two samples of
\* one boot and generation, each counted once.  So neither a checkpoint sent again and
\* again nor one that a repeated revocation shrinks is charged twice.  (An agent
\* that dies between the teardown and the file starts a counter over within its
\* generation, and the same values stand for other payload.)
SameStream(p, q) == p.boot = q.boot /\ p.gen = q.gen
Span(p, q) == {<<p.boot, p.gen>>} \X ((p.bytes + 1)..q.bytes)
Shown == UNION {Span(t[1], t[2]) : t \in {t \in stored \X stored : SameStream(t[1], t[2])}}

ChargedWithinRecorded == InOrder /\ deaths = 0 => consumed <= Cardinality(Shown)

\* A session that has used up its quota is revoked and its tunnel goes down,
\* unless an administrator adds to the quota.
QuotaStopsTraffic ==
    consumed >= included ~> (~TunnelUp /\ wanted = "Revoked") \/ consumed < included
=============================================================================
