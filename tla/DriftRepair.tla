----------------------------- MODULE DriftRepair -----------------------------
(***************************************************************************)
(* What gates say they carry against what the tables say they should.  An  *)
(* agent sends a list of the handles it finds in the kernel (sendActual-   *)
(* State), beside its job lane and out of step with it; reconcileDrift     *)
(* compares the newest list with the assignments that were applied before  *)
(* it arrived, sets up again what is missing and revokes what is left over.*)
(* It does so among the actions of SessionLifecycle, which it extends.     *)
(***************************************************************************)
EXTENDS SessionLifecycle, FiniteSets

CONSTANTS
    Watched,    \* the gates that report; of the others nothing is known
    MaxJobs     \* bound: an assignment with as many jobs is not cleaned up again

ASSUME DriftAssumption == Watched \subseteq Roles /\ MaxJobs \in Nat

VARIABLES
    kernel,   \* assignments whose interfaces and rules are in the kernel
    sent,     \* sent[r]: the lists of gate r that are on their way
    latest,   \* latest[r]: the newest snapshot of gate r; {} if there is none
    fresh,    \* assignments applied before the newest snapshot arrived
    found     \* the differences that a running reconcileDrift has yet to handle

driftOnly == <<kernel, sent, latest, fresh, found>>
driftVars == <<vars, driftOnly>>

Lists == {[handles |-> l] : l \in SUBSET Assignments}
Differences == [gate : Watched, missing : SUBSET Assignments, orphans : SUBSET Assignments]

DriftTypeOK ==
    /\ kernel \subseteq {a \in Assignments : host[a].stage = "committed"}
    /\ sent \in [Watched -> SUBSET Lists]
    /\ latest \in [Watched -> SUBSET Lists]
    /\ fresh \subseteq Assignments
    /\ found \subseteq Differences
    /\ TypeOK

DriftInit ==
    /\ Init
    /\ kernel = {}
    /\ sent = [r \in Watched |-> {}]
    /\ latest = [r \in Watched |-> {}]
    /\ fresh = {}
    /\ found = {}

Present(a) == host[a].stage = "committed" /\ a \in kernel

-------------------------------------------------------------------------------
\* A commit has just been carried out.
SetUp(a) ==
    \E t \in worker[a[2]] : /\ t.a = a /\ t.result = "running"
                            /\ jobs[a][t.i].op = "commit"
                            /\ \E u \in worker'[a[2]] : u.result = "succeeded"

\* A report of a commit's success is being recorded: applied_at is now().
Acknowledged(a) ==
    \E t \in (worker[a[2]] \cup late) \ (worker'[a[2]] \cup late') :
        /\ t.a = a /\ t.result = "succeeded" /\ jobs[a][t.i].op = "commit"
        /\ faults' = faults
        /\ Record(t)

\* The steps of the lifecycle, with what they do to the kernel and to applied_at.
LifecycleStep ==
    /\ Next
    /\ kernel' = {a \in Assignments : host'[a].stage = "committed" /\ (a \in kernel \/ SetUp(a))}
    /\ fresh' = {a \in fresh : ~Acknowledged(a)}
    /\ UNCHANGED <<sent, latest, found>>

\* The host restarts, and rehydrateAssignments does not bring everything back.
GateRestarts(r) ==
    /\ faults > 0
    /\ faults' = faults - 1
    /\ worker' = [worker EXCEPT ![r] = {}]
    /\ \E lost \in SUBSET {a \in kernel : a[2] = r} : kernel' = kernel \ lost
    /\ UNCHANGED <<sessionVars, phase, lease, planAddress, artifact, assignmentVars, jobs, host,
                   late, sent, latest, fresh, found>>

-------------------------------------------------------------------------------
\* sendActualState, actualManagedHandles.
sendActualState(r) ==
    /\ sent[r] = {}
    /\ sent' = [sent EXCEPT ![r] = {[handles |-> {a \in Assignments : a[2] = r /\ Present(a)}]}]
    /\ UNCHANGED <<vars, kernel, latest, fresh, found>>

\* updateGateActualState; received_at is now().
updateGateActualState(r) ==
    /\ sent[r] # {}
    /\ latest' = [latest EXCEPT ![r] = sent[r]]
    /\ sent' = [sent EXCEPT ![r] = {}]
    /\ fresh' = fresh \cup {a \in Assignments : a[2] = r}
    /\ UNCHANGED <<vars, kernel, found>>

SnapshotLost(r) ==
    /\ sent[r] # {}
    /\ faults > 0
    /\ faults' = faults - 1
    /\ sent' = [sent EXCEPT ![r] = {}]
    /\ UNCHANGED <<sessionVars, phase, lease, planAddress, artifact, assignmentVars, jobs, host,
                   worker, late, kernel, latest, fresh, found>>

\* listGateActualStateDriftInputs: an assignment counts once a snapshot is younger
\* than its applied_at.
DesiredWhenApplied(r) ==
    {a \in Assignments : a[2] = r /\ want[a] = "Applied" /\ status[a] \in {"applied", "drifted"}}
DesiredHandles(r) == DesiredWhenApplied(r) \cap fresh

\* compareManagedHandles.
Difference(r, actual) ==
    [gate |-> r, missing |-> DesiredHandles(r) \ actual, orphans |-> actual \ DesiredHandles(r)]
AllDifferences == UNION {{Difference(r, l.handles) : l \in latest[r]} : r \in Watched}

reconcileDrift ==
    /\ found = {}
    /\ found' = {d \in AllDifferences : /\ d.missing \cup d.orphans # {}
                                       /\ \A a \in d.orphans : Len(jobs[a]) < MaxJobs}
    /\ found' # {}
    /\ UNCHANGED <<vars, kernel, sent, latest, fresh>>

-------------------------------------------------------------------------------
\* markMissingHandleAssignmentRowsDrifted.
NotMarked(missing) == status
MarkedDrifted(missing) ==
    [a \in Assignments |->
        IF a \in missing /\ want[a] = "Applied" /\ status[a] = "applied" THEN "drifted" ELSE status[a]]

\* listMissingHandleRepairSessions; the plan of the session's generation exists.
RepairableSessions(missing) ==
    {s \in Sessions :
        /\ desired[s] = "Active" /\ phase[s] \in {"active", "provisioning"}
        /\ \E a \in Of(s) \cap missing : want[a] = "Applied" /\ plan[a] = generation[s]}

\* enqueueRepairJobsForMissingHandles: a commit for both gates of the session.
NoClient(a) == NewJob("commit", plan[a], material[<<a[1], Peer[a[2]]>>], NoAddress)
RepairJob(a) == NewJob("commit", plan[a], material[<<a[1], Peer[a[2]]>>], planAddress[a[1]])
WithRepairs(missing) ==
    LET marked == MarkedDrifted(missing) IN
    [a \in Assignments |->
        IF a[1] \in RepairableSessions(missing) THEN WithApplyJob(a, RepairJob(a), marked[a]) ELSE jobs[a]]

\* listKnownOrphanAssignmentsForCleanup.
AnyOrphan(orphans) == orphans
KnownOrphans(orphans) ==
    {a \in orphans : want[a] = "Revoked" \/ status[a] \in {"revoking", "revoked", "dead"}}

\* What is missing is repaired, then what is known to be left over is revoked.
HandleDifference(d) ==
    /\ d \in found
    /\ found' = found \ {d}
    /\ want' = [a \in Assignments |-> IF a \in KnownOrphans(d.orphans) THEN "Revoked" ELSE want[a]]
    /\ status' = [a \in Assignments |->
                    IF a \in KnownOrphans(d.orphans) /\ status[a] # "revoked" THEN "revoking"
                    ELSE MarkedDrifted(d.missing)[a]]
    /\ jobs' = [a \in Assignments |->
                  IF a \in KnownOrphans(d.orphans)
                  THEN IF HasJob(a, {"revoke"}, PendingPhases) THEN WithRepairs(d.missing)[a]
                       ELSE Append(WithRepairs(d.missing)[a], NewJob("revoke", 0, 0, NoAddress))
                  ELSE WithRepairs(d.missing)[a]]
    /\ UNCHANGED <<sessionVars, phase, lease, planAddress, artifact, plan, material, gateVars,
                   kernel, sent, latest, fresh>>

DriftNext ==
    \/ LifecycleStep
    \/ \E r \in Roles : GateRestarts(r)
    \/ \E r \in Watched : sendActualState(r) \/ updateGateActualState(r) \/ SnapshotLost(r)
    \/ reconcileDrift
    \/ \E d \in found : HandleDifference(d)

DriftSpec == DriftInit /\ [][DriftNext]_driftVars

\* The agents' telemetry task and the reconcile loop.
DriftFairness ==
    /\ \A r \in Watched :
        WF_driftVars(sendActualState(r)) /\ WF_driftVars(updateGateActualState(r))
    /\ WF_driftVars(reconcileDrift)
    /\ WF_driftVars(\E d \in found : HandleDifference(d))

FairDriftSpec == DriftSpec /\ Fairness /\ DriftFairness

-------------------------------------------------------------------------------
\* What an active session has lost from a gate that reports comes back, though the
\* list that shows it may be older than the commit, and the alarm false.
LostIsRepaired ==
    \A s \in Sessions : \A r \in Watched :
        phase[s] = "active" /\ ~Present(<<s, r>>) ~> Present(<<s, r>>) \/ desired[s] = "Revoked"

\* The cleanup of what is left over does not ask for the revocation of an assignment
\* that a session wants, be the list it follows older than the assignment's report,
\* unless a job of the assignment has died.  (Of a session that was reactivated it is
\* not so: a report of the old revocation may arrive after its rescheduling.)
CleanupSparesWanted ==
    [][\A a \in Assignments :
          want[a] = "Applied" /\ want'[a] = "Revoked" /\ generation[a[1]] <= 2 =>
             desired[a[1]] = "Revoked" \/ status[a] = "dead"]_driftVars

\* Neither repair nor cleanup breaks what is in order: the commits that are sent
\* again to both gates keep an active session's keys, address and config in step,
\* and cleanup spares what is wanted (enqueueRepairJobsForMissingHandles,
\* listKnownOrphanAssignmentsForCleanup).
RepairIsSafe == []ActiveIsUp /\ CleanupSparesWanted
===============================================================================
