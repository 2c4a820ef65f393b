-------------------------- MODULE SessionLifecycle --------------------------
(***************************************************************************)
(* The life of a VPN config (a session) through the control plane and the  *)
(* two gates that carry it:                                                *)
(*                                                                         *)
(*   user / billing --> sessions --> reconciler --> jobs --> gate agents   *)
(*                          ^                        |            |        *)
(*                          +---- assignment status <-+--- reports +       *)
(*                                                                         *)
(* packages/control-plane/src: resources/{sessions,gate-assignments,jobs,  *)
(* artifacts}, reconciler/{session,assignment}-controller.ts; and the      *)
(* control lane of apps/gate-agent/.../main.go.                            *)
(*                                                                         *)
(* Every handler of the control plane is one transaction that locks the    *)
(* session rows (or the job row) it works on, so each is one action.  A    *)
(* batch of sessions is handled one session at a time.  The only handler   *)
(* that reads without a lock, deleteOwnedHiddenSession, is two actions.    *)
(*                                                                         *)
(* Time is nondeterministic: a lease expires, a retry delay passes and     *)
(* provisioning times out at any moment.  Faults (a command that fails on  *)
(* a host, a report that is lost or late, an agent that dies) are counted  *)
(* down from MaxFaults.  Each role has one gate: choosing another gate on  *)
(* reprovisioning is left out, and so are drift repair and host restarts.  *)
(***************************************************************************)
EXTENDS Integers, Sequences

CONSTANTS
    Sessions,     \* session ids
    Addresses,    \* the client addresses of the pools
    NoAddress,    \* no lease
    MaxRetries,   \* jobs.max_retries (5)
    MaxGen,       \* bound: sessions.generation stops here
    MaxFaults,    \* bound: faults of hosts, agents and the network
    MayTimeOut,   \* FALSE: the provisioning timeout never passes
    MayBeLate     \* FALSE: a report that timed out never arrives

ASSUME LifecycleAssumption ==
    /\ NoAddress \notin Addresses
    /\ MaxRetries \in Nat \ {0}
    /\ MaxGen \in Nat \ {0}
    /\ MaxFaults \in Nat
    /\ MayTimeOut \in BOOLEAN
    /\ MayBeLate \in BOOLEAN

Roles == {"Ingress", "Egress"}
Peer == [r \in Roles |-> CHOOSE q \in Roles : q # r]
Assignments == Sessions \X Roles
Of(s) == {s} \X Roles

SessionPhases == {"absent", "payment_pending", "requested", "probing", "scheduling",
                  "provisioning", "active", "revoking", "revoked", "failed"}
Statuses == {"absent", "queued", "applying", "prepared", "applied", "drifted", "revoking",
             "revoked", "retryable_failed", "dead"}
Operations == {"prepare", "commit", "revoke"}
JobPhases == {"queued", "leased", "succeeded", "retryable_failed", "dead"}
Stages == {"none", "prepared", "committed", "revoked"}

VARIABLES
    \* sessions and session_status
    desired, generation, phase,
    quotaRevoked,  \* the last revocation was asked for by quota enforcement
    hidden,        \* hidden_at is set
    hiding,        \* a delete request has read the session and may still hide it
    lease,         \* client_address_leases, released_at NULL
    planAddress,   \* the client address in the last rendered plan
    artifact,      \* the ingress key in the client config artifact, 0 if none
    \* gate_assignments and gate_assignment_status
    want, plan, status,
    material,      \* local_material: the key the gate reported, 0 if none
    \* jobs[a]: the jobs of assignment a, in order of created_at
    jobs,
    \* gates
    host,          \* the assignment state on the gate that carries it
    worker,        \* the control lane of each agent: {} or the task it holds
    late,          \* reports whose sender has given up; they may still arrive
    faults         \* faults that may still happen

sessionVars == <<desired, generation, quotaRevoked, hidden, hiding>>
assignmentVars == <<want, plan, status, material>>
gateVars == <<host, worker, late, faults>>
vars == <<sessionVars, phase, lease, planAddress, artifact, assignmentVars, jobs, gateVars>>

Job == [op : Operations, plan : Nat, peer : Nat, address : Addresses \cup {NoAddress},
        phase : JobPhases, retries : 0..(MaxRetries - 1)]
Task == [a : Assignments, i : Nat \ {0}, result : {"running", "succeeded", "retryable_failed"},
         key : Nat]
Host == [stage : Stages, key : Nat, peer : Nat, address : Addresses \cup {NoAddress}]

TypeOK ==
    /\ desired \in [Sessions -> {"Active", "Revoked"}]
    /\ generation \in [Sessions -> 1..MaxGen]
    /\ phase \in [Sessions -> SessionPhases]
    /\ quotaRevoked \in [Sessions -> BOOLEAN]
    /\ hidden \in [Sessions -> BOOLEAN]
    /\ hiding \in [Sessions -> BOOLEAN]
    /\ lease \in [Sessions -> Addresses \cup {NoAddress}]
    /\ planAddress \in [Sessions -> Addresses \cup {NoAddress}]
    /\ artifact \in [Sessions -> Nat]
    /\ want \in [Assignments -> {"Applied", "Revoked"}]
    /\ plan \in [Assignments -> Nat]
    /\ status \in [Assignments -> Statuses]
    /\ material \in [Assignments -> Nat]
    /\ jobs \in [Assignments -> Seq(Job)]
    /\ host \in [Assignments -> Host]
    /\ worker \in [Roles -> SUBSET Task]
    /\ late \in SUBSET Task
    /\ faults \in 0..MaxFaults

-----------------------------------------------------------------------------
\* The job table.

PendingPhases == {"queued", "leased", "retryable_failed"}

HasJob(a, ops, phases) ==
    \E i \in DOMAIN jobs[a] : jobs[a][i].op \in ops /\ jobs[a][i].phase \in phases

\* Plan p of the session, the other gate's key k and the client address x.
NewJob(op, p, k, x) ==
    [op |-> op, plan |-> p, peer |-> k, address |-> x, phase |-> "queued", retries |-> 0]

\* insertApplyAssignmentJob for an assignment whose row now has plan p and
\* status st: not if such a job is pending, nor if one succeeded for this plan
\* and its effect still stands.
ApplyRefused(a, op, p, st) ==
    \/ HasJob(a, {op}, PendingPhases)
    \/ /\ \E i \in DOMAIN jobs[a] : /\ jobs[a][i].op = op
                                    /\ jobs[a][i].plan = p
                                    /\ jobs[a][i].phase = "succeeded"
       /\ st \in {"queued", "applying", "prepared", "applied"}

WithApplyJob(a, job, st) ==
    IF ApplyRefused(a, job.op, job.plan, st) THEN jobs[a] ELSE Append(jobs[a], job)

\* insertRevokeAssignmentJob.  Its second NOT EXISTS never holds: the caller has
\* just set gate_assignments.updated_at to now().
WithRevokeJob(a) ==
    IF HasJob(a, {"revoke"}, PendingPhases) THEN jobs[a]
    ELSE Append(jobs[a], NewJob("revoke", 0, 0, NoAddress))

\* markApplyJobsPhaseForSession with deadForSessionFailureTransition.
KillApplyJobs(q) ==
    [i \in DOMAIN q |-> IF q[i].op # "revoke" /\ q[i].phase \in PendingPhases
                        THEN [q[i] EXCEPT !.phase = "dead"] ELSE q[i]]

\* resolveReportedJobTransition for a report of failure.
Bug_OneRetryMore(job) == job.retries >= MaxRetries
Bug_OneRetryLess(job) == job.retries + 2 >= MaxRetries
Terminal(job) == job.retries + 1 >= MaxRetries

Reported(job, ok) ==
    IF ok THEN [job EXCEPT !.phase = "succeeded"]
    ELSE IF Terminal(job) THEN [job EXCEPT !.phase = "dead"]
    ELSE [job EXCEPT !.phase = "retryable_failed", !.retries = @ + 1]

\* findClaimableGateJobForUpdate: ORDER BY created_at among the jobs whose
\* run_after has passed.  A queued job is always due; one that is to be retried
\* may still be in its delay, and is then overtaken.
Claimable(a, i) ==
    /\ jobs[a][i].phase \in {"queued", "retryable_failed"}
    /\ \A j \in 1..(i - 1) : jobs[a][j].phase # "queued"

\* leasedAssignmentTransition.
LeasedStatus(st, op) ==
    IF st \in {"applied", "revoked"} THEN st
    ELSE IF op = "revoke" THEN "revoking" ELSE "applying"

\* recordAssignmentProgress: the assignment's phase is not looked at.
ReportedStatus(job, ok) ==
    CASE ok /\ job.op = "prepare" -> "prepared"
      [] ok /\ job.op = "commit"  -> "applied"
      [] ok /\ job.op = "revoke"  -> "revoked"
      [] OTHER -> IF Terminal(job) THEN "dead" ELSE "retryable_failed"

-----------------------------------------------------------------------------
\* Requests of users, payments, billing and administrators.

Init ==
    /\ desired = [s \in Sessions |-> "Active"]
    /\ generation = [s \in Sessions |-> 1]
    /\ phase = [s \in Sessions |-> "absent"]
    /\ quotaRevoked = [s \in Sessions |-> FALSE]
    /\ hidden = [s \in Sessions |-> FALSE]
    /\ hiding = [s \in Sessions |-> FALSE]
    /\ lease = [s \in Sessions |-> NoAddress]
    /\ planAddress = lease
    /\ artifact = [s \in Sessions |-> 0]
    /\ want = [a \in Assignments |-> "Applied"]
    /\ plan = [a \in Assignments |-> 0]
    /\ status = [a \in Assignments |-> "absent"]
    /\ material = [a \in Assignments |-> 0]
    /\ jobs = [a \in Assignments |-> <<>>]
    /\ host = [a \in Assignments |-> [stage |-> "none", key |-> 0, peer |-> 0, address |-> NoAddress]]
    /\ worker = [r \in Roles |-> {}]
    /\ late = {}
    /\ faults = MaxFaults

\* createRequestedSession..., with or without a payment to wait for.
Create(s) ==
    /\ phase[s] = "absent"
    /\ \E p \in {"payment_pending", "requested"} : phase' = [phase EXCEPT ![s] = p]
    /\ UNCHANGED <<sessionVars, lease, planAddress, artifact, assignmentVars, jobs, gateVars>>

ActivatePaid(s) ==
    /\ phase[s] = "payment_pending"
    /\ phase' = [phase EXCEPT ![s] = "requested"]
    /\ UNCHANGED <<sessionVars, lease, planAddress, artifact, assignmentVars, jobs, gateVars>>

DeleteUnpaid(s) ==
    /\ phase[s] = "payment_pending"
    /\ phase' = [phase EXCEPT ![s] = "absent"]
    /\ UNCHANGED <<sessionVars, lease, planAddress, artifact, assignmentVars, jobs, gateVars>>

\* requestOwnedSessionRevocation and requestSystemSessionRevocation.
RequestRevocation(s, byQuota) ==
    /\ phase[s] # "absent"
    /\ ~hidden[s]
    /\ generation[s] < MaxGen
    /\ desired' = [desired EXCEPT ![s] = "Revoked"]
    /\ generation' = [generation EXCEPT ![s] = @ + 1]
    /\ phase' = [phase EXCEPT ![s] = IF @ = "revoked" THEN "revoked" ELSE "revoking"]
    /\ quotaRevoked' = [quotaRevoked EXCEPT ![s] = byQuota]
    /\ UNCHANGED <<hidden, hiding, lease, planAddress, artifact, assignmentVars, jobs, gateVars>>

\* The owner asks, or an expired entitlement or unpaid account does it for him.
Revoke(s) == RequestRevocation(s, FALSE)

\* enforceSessionTrafficQuotas.  Traffic is counted once a gate carries some; a
\* session that was reactivated has counted some before.
EnforceQuota(s) ==
    /\ desired[s] = "Active"
    /\ phase[s] \notin {"revoking", "revoked", "failed"}
    /\ generation[s] > 1 \/ \E a \in Of(s) : host[a].stage = "committed"
    /\ RequestRevocation(s, TRUE)

\* adjustSessionTrafficQuota when it reactivates the session.
Bug_WhoeverRevoked(s) == desired[s] = "Revoked" /\ phase[s] = "revoked" /\ ~hidden[s]
MayReactivate(s) ==
    quotaRevoked[s] /\ desired[s] = "Revoked" /\ phase[s] = "revoked" /\ ~hidden[s]

Reactivate(s) ==
    /\ MayReactivate(s)
    /\ generation[s] < MaxGen
    /\ desired' = [desired EXCEPT ![s] = "Active"]
    /\ generation' = [generation EXCEPT ![s] = @ + 1]
    /\ phase' = [phase EXCEPT ![s] = "scheduling"]
    /\ UNCHANGED <<quotaRevoked, hidden, hiding, lease, planAddress, artifact, assignmentVars, jobs, gateVars>>

\* deleteOwnedHiddenSession: the phase is read without a row lock ...
CanHide(s) == phase[s] \in {"revoked", "failed"} /\ ~hidden[s]

ReadForHide(s) ==
    /\ CanHide(s)
    /\ hiding' = [hiding EXCEPT ![s] = TRUE]
    /\ UNCHANGED <<desired, generation, quotaRevoked, hidden, phase, lease, planAddress,
                   artifact, assignmentVars, jobs, gateVars>>

\* ... and the update does not look at it again.
Hide(s) ==
    /\ hiding[s]
    /\ hidden' = [hidden EXCEPT ![s] = TRUE]
    /\ hiding' = [hiding EXCEPT ![s] = FALSE]
    /\ UNCHANGED <<desired, generation, quotaRevoked, phase, lease, planAddress, artifact,
                   assignmentVars, jobs, gateVars>>

-----------------------------------------------------------------------------
\* The reconciler.

BeginProbing(s) ==
    /\ desired[s] = "Active" /\ phase[s] = "requested"
    /\ phase' = [phase EXCEPT ![s] = "probing"]
    /\ UNCHANGED <<sessionVars, lease, planAddress, artifact, assignmentVars, jobs, gateVars>>

AdvanceToScheduling(s) ==
    /\ desired[s] = "Active" /\ phase[s] = "probing"
    /\ phase' = [phase EXCEPT ![s] = "scheduling"]
    /\ UNCHANGED <<sessionVars, lease, planAddress, artifact, assignmentVars, jobs, gateVars>>

Bug_AnyAddress == Addresses
Bug_NullNotChecked == (Addresses \ {lease[t] : t \in Sessions}) \cup {NoAddress}
FreeAddresses == Addresses \ {lease[t] : t \in Sessions}

\* choosePath finds no gates, or the pools are exhausted.
ScheduleFails(s) ==
    /\ desired[s] = "Active" /\ phase[s] = "scheduling"
    /\ phase' = [phase EXCEPT ![s] = "failed"]
    /\ UNCHANGED <<sessionVars, lease, planAddress, artifact, assignmentVars, jobs, gateVars>>

\* ensureGateAssignmentStatusPhase.
EnsuredStatus(st) == IF st = "applied" THEN "applied" ELSE "queued"

\* scheduleSessionsForProvisioning: an address, the plan of this generation,
\* both assignments and a prepare job for each gate.
Schedule(s) ==
    /\ desired[s] = "Active" /\ phase[s] = "scheduling"
    /\ IF lease[s] # NoAddress THEN UNCHANGED lease
       ELSE \E x \in FreeAddresses : lease' = [lease EXCEPT ![s] = x]
    /\ planAddress' = [planAddress EXCEPT ![s] = lease'[s]]
    /\ want' = [a \in Assignments |-> IF a \in Of(s) THEN "Applied" ELSE want[a]]
    /\ plan' = [a \in Assignments |-> IF a \in Of(s) THEN generation[s] ELSE plan[a]]
    /\ status' = [a \in Assignments |-> IF a \in Of(s) THEN EnsuredStatus(status[a]) ELSE status[a]]
    /\ jobs' = [a \in Assignments |->
                  IF a \in Of(s)
                  THEN WithApplyJob(a, NewJob("prepare", generation[s], 0, lease'[s]), EnsuredStatus(status[a]))
                  ELSE jobs[a]]
    /\ phase' = [phase EXCEPT ![s] = "provisioning"]
    /\ UNCHANGED <<sessionVars, artifact, material, gateVars>>

\* listSessionsReadyForCommit.
Bug_OneGatePrepared(s) ==
    /\ phase[s] = "provisioning"
    /\ \E a \in Of(s) : status[a] = "prepared"
    /\ \A a \in Of(s) : ~HasJob(a, {"commit"}, PendingPhases \cup {"succeeded"})

ReadyForCommit(s) ==
    /\ phase[s] = "provisioning"
    /\ \A a \in Of(s) : status[a] = "prepared"
    /\ \A a \in Of(s) : ~HasJob(a, {"commit"}, PendingPhases \cup {"succeeded"})

\* enqueueCommitJobsForPreparedAssignments: each gate gets the other's key.
EnqueueCommit(s) ==
    /\ ReadyForCommit(s)
    /\ jobs' = [a \in Assignments |->
                  IF a \in Of(s)
                  THEN WithApplyJob(a, NewJob("commit", generation[s], material[<<s, Peer[a[2]]>>],
                                        planAddress[s]), status[a])
                  ELSE jobs[a]]
    /\ status' = [a \in Assignments |->
                    IF a \in Of(s) /\ status[a] = "prepared" THEN "queued" ELSE status[a]]
    /\ UNCHANGED <<sessionVars, phase, lease, planAddress, artifact, want, plan, material, gateVars>>

\* listProvisionedSessionsForActivation.
Bug_OneGateApplied(s) ==
    /\ phase[s] = "provisioning"
    /\ \E a \in Of(s) : status[a] = "applied"

Provisioned(s) ==
    /\ phase[s] = "provisioning"
    /\ \A a \in Of(s) : status[a] = "applied"

\* completeProvisionedSessions.
CompleteProvisioned(s) ==
    /\ Provisioned(s)
    /\ artifact' = [artifact EXCEPT ![s] = IF @ # 0 THEN @ ELSE material[<<s, "Ingress">>]]
    /\ phase' = [phase EXCEPT ![s] = "active"]
    /\ UNCHANGED <<sessionVars, lease, planAddress, assignmentVars, jobs, gateVars>>

\* invalidateSessionArtifacts.
Bug_StillValid(s) == artifact
Invalidated(s) == [artifact EXCEPT ![s] = 0]

\* releaseClientAddressLease.
Released(s) == [lease EXCEPT ![s] = NoAddress]

\* failTimedOutProvisioningSessions.
FailTimedOut(s) ==
    /\ MayTimeOut
    /\ desired[s] = "Active" /\ phase[s] = "provisioning"
    /\ jobs' = [a \in Assignments |-> IF a \in Of(s) THEN KillApplyJobs(jobs[a]) ELSE jobs[a]]
    /\ status' = [a \in Assignments |->
                    IF a \in Of(s) /\ status[a] \in {"queued", "applying", "prepared", "retryable_failed"}
                    THEN "dead" ELSE status[a]]
    /\ artifact' = Invalidated(s)
    /\ phase' = [phase EXCEPT ![s] = "failed"]
    /\ lease' = Released(s)
    /\ UNCHANGED <<sessionVars, planAddress, want, plan, material, gateVars>>

\* enqueueRevocationJobsForAssignments, with requestAssignmentRevocation.
Bug_NotTheDead(s) ==
    {a \in Of(s) : status[a] \notin {"absent", "dead"} /\ want[a] # "Revoked"}
ToRevoke(s) == {a \in Of(s) : status[a] # "absent" /\ want[a] # "Revoked"}

EnqueueRevocation(s) ==
    /\ desired[s] = "Revoked"
    /\ ToRevoke(s) # {}
    /\ want' = [a \in Assignments |-> IF a \in ToRevoke(s) THEN "Revoked" ELSE want[a]]
    /\ status' = [a \in Assignments |->
                    IF a \in ToRevoke(s) /\ status[a] # "revoked" THEN "revoking" ELSE status[a]]
    /\ jobs' = [a \in Assignments |-> IF a \in ToRevoke(s) THEN WithRevokeJob(a) ELSE jobs[a]]
    /\ UNCHANGED <<sessionVars, phase, lease, planAddress, artifact, plan, material, gateVars>>

\* listSessionsReadyToMarkRevoked: no assignment that is not revoked.
Bug_DeadIsRevoked(s) == \A a \in Of(s) : status[a] \in {"absent", "revoked", "dead"}
Bug_NoneApplied(s) == \A a \in Of(s) : status[a] # "applied"
AllRevoked(s) == \A a \in Of(s) : status[a] \in {"absent", "revoked"}

\* completeRevokedSessions.
CompleteRevoked(s) ==
    /\ phase[s] = "revoking"
    /\ AllRevoked(s)
    /\ artifact' = Invalidated(s)
    /\ phase' = [phase EXCEPT ![s] = "revoked"]
    /\ lease' = Released(s)
    /\ UNCHANGED <<sessionVars, planAddress, assignmentVars, jobs, gateVars>>

\* requeueExpiredJobLeases.
ExpireLease(a) ==
    \E i \in DOMAIN jobs[a] :
        /\ jobs[a][i].phase = "leased"
        /\ jobs' = [jobs EXCEPT ![a][i].phase = "queued"]
        /\ UNCHANGED <<sessionVars, phase, lease, planAddress, artifact, assignmentVars, gateVars>>

-----------------------------------------------------------------------------
\* Gate agents.  One agent runs its control lane serially: claim, execute,
\* report.

\* claimGateJob.
Claim(r) ==
    /\ worker[r] = {}
    /\ \E s \in Sessions : LET a == <<s, r>> IN
       \E i \in DOMAIN jobs[a] :
        /\ Claimable(a, i)
        /\ jobs' = [jobs EXCEPT ![a][i].phase = "leased"]
        /\ status' = [status EXCEPT ![a] = LeasedStatus(@, jobs[a][i].op)]
        /\ worker' = [worker EXCEPT ![r] = {[a |-> a, i |-> i, result |-> "running", key |-> 0]}]
    /\ UNCHANGED <<sessionVars, phase, lease, planAddress, artifact, want, plan, material, host, late, faults>>

\* prepareAssignment: an assignment that is not revoked keeps its keys.
Prepared(h) ==
    IF h.stage \in {"prepared", "committed"} THEN h
    ELSE [h EXCEPT !.stage = "prepared", !.key = @ + 1]

\* commitAssignment needs the private keys that prepare made and revoke erased.
CanCommit(h) == h.stage \in {"prepared", "committed"}
Committed(h, job) == [h EXCEPT !.stage = "committed", !.peer = job.peer, !.address = job.address]

\* revokeAssignment works whatever it finds, even without a state file.
Bug_AddressStays(h) == [h EXCEPT !.stage = "revoked", !.peer = 0]
Torn(h) == [h EXCEPT !.stage = "revoked", !.peer = 0, !.address = NoAddress]

Executed(h, job) ==
    CASE job.op = "prepare" -> Prepared(h)
      [] job.op = "commit"  -> Committed(h, job)
      [] job.op = "revoke"  -> Torn(h)

\* executeJob succeeds; a prepare's result carries the key.
Execute(r) ==
    \E t \in worker[r] :
        LET job == jobs[t.a][t.i] IN
        /\ t.result = "running"
        /\ job.op = "commit" => CanCommit(host[t.a])
        /\ host' = [host EXCEPT ![t.a] = Executed(@, job)]
        /\ worker' = [worker EXCEPT ![r] = {[t EXCEPT !.result = "succeeded",
                                                      !.key = host'[t.a].key]}]
        /\ UNCHANGED <<sessionVars, phase, lease, planAddress, artifact, assignmentVars, jobs, late, faults>>

\* executeJob fails, of necessity or by a fault, and the host is as it was.
ExecuteFails(r) ==
    \E t \in worker[r] :
        LET impossible == jobs[t.a][t.i].op = "commit" /\ ~CanCommit(host[t.a]) IN
        /\ t.result = "running"
        /\ impossible \/ faults > 0
        /\ faults' = IF impossible THEN faults ELSE faults - 1
        /\ worker' = [worker EXCEPT ![r] = {[t EXCEPT !.result = "retryable_failed"]}]
        /\ UNCHANGED <<sessionVars, phase, lease, planAddress, artifact, assignmentVars, jobs, host, late>>

\* recordGateJobReport: neither the job's phase nor its attempt is looked at.
Record(t) ==
    LET job == jobs[t.a][t.i]
        ok == t.result = "succeeded"
    IN /\ jobs' = [jobs EXCEPT ![t.a][t.i] = Reported(job, ok)]
       /\ status' = [status EXCEPT ![t.a] = ReportedStatus(job, ok)]
       /\ material' = IF ok /\ job.op = "prepare" THEN [material EXCEPT ![t.a] = t.key] ELSE material

Report(r) ==
    \E t \in worker[r] :
        /\ t.result # "running"
        /\ Record(t)
        /\ worker' = [worker EXCEPT ![r] = {}]
        /\ UNCHANGED <<sessionVars, phase, lease, planAddress, artifact, want, plan, host, late, faults>>

\* The report times out: processNextJob drops it and claims on, and it arrives
\* later or never.
ReportTimesOut(r) ==
    \E t \in worker[r] :
        /\ faults > 0
        /\ t.result # "running"
        /\ late' = IF MayBeLate THEN late \cup {t} ELSE late
        /\ worker' = [worker EXCEPT ![r] = {}]
        /\ faults' = faults - 1
        /\ UNCHANGED <<sessionVars, phase, lease, planAddress, artifact, assignmentVars, jobs, host>>

LateReport ==
    \E t \in late :
        /\ Record(t)
        /\ late' = late \ {t}
        /\ UNCHANGED <<sessionVars, phase, lease, planAddress, artifact, want, plan, host, worker, faults>>

\* The agent dies with its task, before or after the host was changed.
AgentDies(r) ==
    /\ faults > 0
    /\ worker[r] # {}
    /\ worker' = [worker EXCEPT ![r] = {}]
    /\ faults' = faults - 1
    /\ UNCHANGED <<sessionVars, phase, lease, planAddress, artifact, assignmentVars, jobs, host, late>>

-----------------------------------------------------------------------------
Next ==
    \/ \E s \in Sessions :
        \/ Create(s) \/ ActivatePaid(s) \/ DeleteUnpaid(s)
        \/ Revoke(s) \/ EnforceQuota(s) \/ Reactivate(s) \/ ReadForHide(s) \/ Hide(s)
        \/ BeginProbing(s) \/ AdvanceToScheduling(s) \/ ScheduleFails(s) \/ Schedule(s)
        \/ EnqueueCommit(s) \/ CompleteProvisioned(s) \/ FailTimedOut(s)
        \/ EnqueueRevocation(s) \/ CompleteRevoked(s)
    \/ \E a \in Assignments : ExpireLease(a)
    \/ \E r \in Roles :
        \/ Claim(r) \/ Execute(r) \/ ExecuteFails(r)
        \/ Report(r) \/ ReportTimesOut(r) \/ AgentDies(r)
    \/ LateReport

Spec == Init /\ [][Next]_vars

\* The reconcile loop and the agents' job loops run for ever, and leases expire.
\* Nothing is assumed of users, billing and the provisioning timeout, nor that a
\* late report arrives.
Fairness ==
    /\ \A s \in Sessions :
        /\ WF_vars(BeginProbing(s)) /\ WF_vars(AdvanceToScheduling(s))
        /\ WF_vars(Schedule(s) \/ ScheduleFails(s))
        /\ WF_vars(EnqueueCommit(s)) /\ WF_vars(CompleteProvisioned(s))
        /\ WF_vars(EnqueueRevocation(s)) /\ WF_vars(CompleteRevoked(s))
    /\ \A a \in Assignments : WF_vars(ExpireLease(a))
    /\ \A r \in Roles :
        WF_vars(Claim(r)) /\ WF_vars(Execute(r) \/ ExecuteFails(r)) /\ WF_vars(Report(r))

FairSpec == Spec /\ Fairness

-----------------------------------------------------------------------------
\* Properties.

\* An active session's tunnel is up on both gates, the gates have each other's
\* keys, they carry the address the session leases, and the client's config
\* names the ingress key: prepare, commit, reports and the artifact fit together
\* (completeProvisionedSessions looks at two phases in a table only).
ActiveIsUp ==
    \A s \in Sessions : phase[s] = "active" =>
        /\ artifact[s] = host[<<s, "Ingress">>].key
        /\ \A r \in Roles : /\ host[<<s, r>>].stage = "committed"
                            /\ host[<<s, r>>].peer = host[<<s, Peer[r]>>].key
                            /\ host[<<s, r>>].address = lease[s]

\* A session shown as revoked carries no traffic on any gate, and no job that
\* was in flight when it was revoked brings a tunnel back.
RevokedIsDown ==
    \A s \in Sessions : phase[s] = "revoked" =>
        \A a \in Of(s) : host[a].stage # "committed"

\* A session holds its address from the plan to the end of the revocation.
LeaseCoversProvisioning ==
    \A s \in Sessions : phase[s] \in {"provisioning", "active"} => lease[s] # NoAddress

\* A client config can be downloaded only while its tunnel is meant to be up or
\* is being torn down; one that was revoked or failed does not reappear.
ConfigOnlyWhileUp ==
    \A s \in Sessions : artifact[s] # 0 => phase[s] \in {"active", "revoking"}

\* What a session holds fits its phase: no timeout, retry or late report leaves a
\* session without the address it is being provisioned with, or a revoked one with a
\* config (reconcileSession, revokeArtifactsForSession, releaseClientAddressLease).
PhaseIsBacked == LeaseCoversProvisioning /\ ConfigOnlyWhileUp

\* "Manually revoked ... configs are never reactivated": neither a payment nor a
\* quota raise brings a session back that its owner, or billing, revoked, not
\* even one that quota enforcement had revoked before.
ManualRevocationSticks ==
    [][\A s \in Sessions : desired[s] = "Revoked" /\ ~quotaRevoked[s] =>
          desired'[s] = "Revoked" /\ phase'[s] \in {"revoking", "revoked"}]_vars

\* The provisioning timeout has taken the address from s, and s is not revoked yet.
TimedOut(s) == lease[s] = NoAddress /\ phase[s] \in {"failed", "revoking"}

\* No two tunnels carry the same client address, even while one session is torn
\* down and another is set up: only a tunnel left over by a provisioning timeout may
\* stand in another's way (see ReleasedOnlyWhenRevoked), and only until its
\* session is revoked.
AddressRoutedOnce ==
    \A s, t \in Sessions : \A r \in Roles :
        host[<<s, r>>].address = host[<<t, r>>].address /\ host[<<s, r>>].address # NoAddress
            => s = t \/ TimedOut(s) \/ TimedOut(t)

\* The leases keep the promise of AddressLease.
Promise == INSTANCE AddressLease
    WITH Holders <- Sessions, Space <- Addresses, Free <- NoAddress
LeasePromise == Promise!Spec

\* What is asked for is set up or given up, without the help of the provisioning
\* timeout, as long as there are fewer faults than a job has attempts.
Settles ==
    \A s \in Sessions :
        phase[s] = "scheduling" ~> phase[s] \in {"active", "failed"} \/ desired[s] = "Revoked"

\* The same of the first provisioning of a session.  (Of one that was reactivated
\* it is not so: see Settles.)
ProvisioningSettles ==
    \A s \in Sessions :
        phase[s] = "scheduling" /\ generation[s] = 1
            ~> phase[s] \in {"active", "failed"} \/ desired[s] = "Revoked"

\* A revocation comes to its end, whatever timed out and died before it, unless a
\* fault strikes as well (a revoke job that is dead is not tried again).
RevocationCompletes ==
    \A s \in Sessions : phase[s] = "revoking" ~> phase[s] = "revoked" \/ faults < MaxFaults

\* docs/architecture/control-plane.md:74: "The lease is released only after the
\* session is revoked and every gate assignment for that session has reported
\* `revoked`."
ReleasedOnlyWhenRevoked ==
    [][\A s \in Sessions : lease[s] # NoAddress /\ lease'[s] = NoAddress =>
          phase'[s] = "revoked" /\ \A a \in Of(s) : status'[a] = "revoked"]_vars

\* A config can be deleted from the list only when it is revoked or failed
\* (canHideSession); its owner cannot revoke it any more, so it must not come up.
HiddenStaysDown ==
    \A s \in Sessions : hidden[s] => phase[s] \notin {"scheduling", "provisioning", "active"}
=============================================================================
