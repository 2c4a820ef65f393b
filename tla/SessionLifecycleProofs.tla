----------------------- MODULE SessionLifecycleProofs -----------------------
(***************************************************************************)
(* Proofs about the session lifecycle, for every set of sessions and       *)
(* addresses, any number of retries, revocations and faults, with or       *)
(* without provisioning timeouts and late reports.                         *)
(*                                                                         *)
(* The invariant that carries type correctness is Typed: besides TypeOK it *)
(* says that a task an agent holds, or whose report is under way, belongs  *)
(* to a job of the table (rows are never deleted).                         *)
(*                                                                         *)
(* The theorems about tunnels follow a session through its first life, the *)
(* generations 1 (set up) and 2 (torn down): FirstLife is the order of the *)
(* rows of its jobs, FirstKeys what the keys in the table and on the gates *)
(* have to do with each other, FirstEnd why a revoke is the last word.     *)
(*                                                                         *)
(* The second part is about DriftRepair, with any set of watched gates:    *)
(* the first life goes on in order among lists that are old, lost or       *)
(* overtaken, hosts that restart, and the repairs and cleanups that follow *)
(* them.  What the cleanup gives up in a first generation is not a         *)
(* FirstWanted session any more, so that the key invariants say nothing of *)
(* it; NoneDies says when there is no such one.                            *)
(***************************************************************************)
EXTENDS DriftRepair, TLAPS

TasksHaveJobs ==
    /\ \A r \in Roles : \A t \in worker[r] : t.i \in 1..Len(jobs[t.a])
    /\ \A t \in late : t.i \in 1..Len(jobs[t.a])

Typed == TypeOK /\ TasksHaveJobs

-----------------------------------------------------------------------------
\* Lemmas about the job table.

\* Replacing a row by a row keeps the table's type and length.
LEMMA ReplaceJob ==
    ASSUME NEW q \in Seq(Job), NEW i, NEW j, i \in DOMAIN q => j \in Job
    PROVE  /\ [q EXCEPT ![i] = j] \in Seq(Job)
           /\ Len([q EXCEPT ![i] = j]) = Len(q)
<1>. DEFINE p == [q EXCEPT ![i] = j]
<1>1. DOMAIN q = 1..Len(q) /\ Len(q) \in Nat
  OBVIOUS
<1>2. p \in [1..Len(q) -> Job]
  <2>1. \A k \in 1..Len(q) : q[k] \in Job
    OBVIOUS
  <2>. QED
    BY <1>1, <2>1
<1>3. p \in Seq(Job)
  BY <1>1, <1>2
<1>4. Len(p) = Len(q)
  BY <1>1, <1>2, <1>3
<1>. QED
  BY <1>3, <1>4

\* A new row has the type of rows.
LEMMA NewJobType ==
    ASSUME NEW op \in Operations, NEW p \in Nat, NEW k \in Nat,
           NEW x \in Addresses \cup {NoAddress}
    PROVE  NewJob(op, p, k, x) \in Job
BY LifecycleAssumption DEF NewJob, Job, JobPhases

\* What a report makes of a row is a row: a job that is not out of attempts
\* keeps its retry count below the limit.
LEMMA ReportedType ==
    ASSUME NEW job \in Job, NEW ok \in BOOLEAN
    PROVE  Reported(job, ok) \in Job
<1>1. job.retries \in 0..(MaxRetries - 1) /\ MaxRetries \in Nat
  BY LifecycleAssumption DEF Job
<1>2. CASE ok
  BY <1>2 DEF Reported, Job, JobPhases
<1>3. CASE ~ok /\ Terminal(job)
  BY <1>3 DEF Reported, Job, JobPhases
<1>4. CASE ~ok /\ ~Terminal(job)
  <2>1. job.retries + 1 \in 0..(MaxRetries - 1)
    BY <1>1, <1>4 DEF Terminal
  <2>. QED
    BY <1>4, <2>1 DEF Reported, Job, JobPhases
<1>. QED
  BY <1>2, <1>3, <1>4

\* Enqueueing and killing keep every row there is.
LEMMA TableGrows ==
    ASSUME TypeOK, NEW a \in Assignments
    PROVE  /\ \A job \in Job : \A st :
                  /\ WithApplyJob(a, job, st) \in Seq(Job)
                  /\ Len(WithApplyJob(a, job, st)) >= Len(jobs[a])
           /\ WithRevokeJob(a) \in Seq(Job)
           /\ Len(WithRevokeJob(a)) >= Len(jobs[a])
           /\ KillApplyJobs(jobs[a]) \in Seq(Job)
           /\ Len(KillApplyJobs(jobs[a])) = Len(jobs[a])
<1>1. jobs[a] \in Seq(Job)
  BY DEF TypeOK
<1>2. \A job \in Job : Append(jobs[a], job) \in Seq(Job) /\ Len(Append(jobs[a], job)) >= Len(jobs[a])
  BY <1>1
<1>3. NewJob("revoke", 0, 0, NoAddress) \in Job
  BY NewJobType DEF Operations
<1>4. KillApplyJobs(jobs[a]) \in [1..Len(jobs[a]) -> Job]
  <2>1. \A i \in 1..Len(jobs[a]) : jobs[a][i] \in Job
    BY <1>1
  <2>2. \A job \in Job : [job EXCEPT !.phase = "dead"] \in Job
    BY DEF Job, JobPhases
  <2>. QED
    BY <1>1, <2>1, <2>2 DEF KillApplyJobs
<1>5. Len(jobs[a]) \in Nat
  BY <1>1
<1>6. KillApplyJobs(jobs[a]) \in Seq(Job) /\ Len(KillApplyJobs(jobs[a])) = Len(jobs[a])
  BY <1>4, <1>5
<1>. QED
  BY <1>1, <1>2, <1>3, <1>6 DEF WithApplyJob, WithRevokeJob

-----------------------------------------------------------------------------
\* Type correctness.

\* A step that only lets tables grow and takes no new task keeps TasksHaveJobs.
LEMMA TasksKept ==
    ASSUME TypeOK, TasksHaveJobs, worker' = worker, late' = late,
           \A a \in Assignments : /\ jobs'[a] \in Seq(Job)
                                  /\ Len(jobs'[a]) >= Len(jobs[a])
    PROVE  TasksHaveJobs'
<1>1. ASSUME NEW t \in Task, t.i \in 1..Len(jobs[t.a]) PROVE t.i \in 1..Len(jobs'[t.a])
  <2>1. t.a \in Assignments
    BY DEF Task
  <2>2. Len(jobs[t.a]) \in Nat /\ Len(jobs'[t.a]) \in Nat
    BY <2>1 DEF TypeOK
  <2>. QED
    BY <1>1, <2>1, <2>2
<1>. QED
  BY <1>1 DEF TypeOK, TasksHaveJobs

\* A step on the session's own columns and its address.
LEMMA SessionColumns ==
    ASSUME Typed,
           desired' \in [Sessions -> {"Active", "Revoked"}],
           generation' \in [Sessions -> 1..MaxGen],
           phase' \in [Sessions -> SessionPhases],
           quotaRevoked' \in [Sessions -> BOOLEAN],
           hidden' \in [Sessions -> BOOLEAN],
           hiding' \in [Sessions -> BOOLEAN],
           lease' \in [Sessions -> Addresses \cup {NoAddress}],
           UNCHANGED <<planAddress, artifact, assignmentVars, jobs, gateVars>>
    PROVE  Typed'
<1>1. TypeOK'
  BY DEF Typed, TypeOK, assignmentVars, gateVars
<1>2. TasksHaveJobs'
  BY DEF Typed, TasksHaveJobs, gateVars
<1>. QED
  BY <1>1, <1>2 DEF Typed

\* An agent that ends its task with a result holds that task, and no other agent's changes.
LEMMA HoldsTask ==
    ASSUME TypeOK, NEW r \in Roles, NEW u \in Task, worker' = [worker EXCEPT ![r] = {u}]
    PROVE  /\ worker' \in [Roles -> SUBSET Task]
           /\ \A q \in Roles : \A v \in worker'[q] : v \in worker[q] \/ v = u
<1>1. worker \in [Roles -> SUBSET Task]
  BY DEF TypeOK
<1>. QED
  BY <1>1

\* Requests change fields of their session only.
LEMMA RequestsTyped ==
    ASSUME Typed, NEW s \in Sessions,
           \/ Create(s) \/ ActivatePaid(s) \/ DeleteUnpaid(s)
           \/ Revoke(s) \/ EnforceQuota(s) \/ Reactivate(s) \/ ReadForHide(s) \/ Hide(s)
           \/ BeginProbing(s) \/ AdvanceToScheduling(s) \/ ScheduleFails(s)
    PROVE  Typed'
<1>0. /\ desired \in [Sessions -> {"Active", "Revoked"}]
      /\ generation \in [Sessions -> 1..MaxGen]
      /\ phase \in [Sessions -> SessionPhases]
      /\ quotaRevoked \in [Sessions -> BOOLEAN]
      /\ hidden \in [Sessions -> BOOLEAN]
      /\ hiding \in [Sessions -> BOOLEAN]
      /\ lease \in [Sessions -> Addresses \cup {NoAddress}]
  BY DEF Typed, TypeOK
<1>1. ASSUME NEW p \in SessionPhases, phase' = [phase EXCEPT ![s] = p],
             UNCHANGED <<sessionVars, lease, planAddress, artifact, assignmentVars, jobs, gateVars>>
      PROVE  Typed'
  <2>1. phase' \in [Sessions -> SessionPhases]
    BY <1>0, <1>1
  <2>. QED
    BY <1>0, <1>1, <2>1, SessionColumns DEF sessionVars
<1>2. CASE Create(s) \/ ActivatePaid(s) \/ DeleteUnpaid(s)
  BY <1>1, <1>2 DEF Create, ActivatePaid, DeleteUnpaid, SessionPhases
<1>3. ASSUME NEW byQuota \in BOOLEAN, RequestRevocation(s, byQuota) PROVE Typed'
  <2>1. generation[s] + 1 \in 1..MaxGen
    BY <1>0, <1>3, LifecycleAssumption DEF RequestRevocation
  <2>2. generation' \in [Sessions -> 1..MaxGen]
    BY <1>0, <1>3, <2>1 DEF RequestRevocation
  <2>3. desired' \in [Sessions -> {"Active", "Revoked"}] /\ quotaRevoked' \in [Sessions -> BOOLEAN]
    BY <1>0, <1>3 DEF RequestRevocation
  <2>4. phase' \in [Sessions -> SessionPhases]
    BY <1>0, <1>3 DEF RequestRevocation, SessionPhases
  <2>. QED
    BY <1>0, <1>3, <2>2, <2>3, <2>4, SessionColumns DEF RequestRevocation
<1>4. CASE Revoke(s) \/ EnforceQuota(s)
  BY <1>3, <1>4 DEF Revoke, EnforceQuota
<1>5. CASE Reactivate(s)
  <2>1. generation[s] + 1 \in 1..MaxGen
    BY <1>0, <1>5, LifecycleAssumption DEF Reactivate
  <2>2. generation' \in [Sessions -> 1..MaxGen]
    BY <1>0, <1>5, <2>1 DEF Reactivate
  <2>3. desired' \in [Sessions -> {"Active", "Revoked"}]
    BY <1>0, <1>5 DEF Reactivate
  <2>4. phase' \in [Sessions -> SessionPhases]
    BY <1>0, <1>5 DEF Reactivate, SessionPhases
  <2>. QED
    BY <1>0, <1>5, <2>2, <2>3, <2>4, SessionColumns DEF Reactivate
<1>6. CASE ReadForHide(s) \/ Hide(s)
  <2>1. hidden' \in [Sessions -> BOOLEAN] /\ hiding' \in [Sessions -> BOOLEAN]
    BY <1>0, <1>6 DEF ReadForHide, Hide
  <2>. QED
    BY <1>0, <1>6, <2>1, SessionColumns DEF ReadForHide, Hide
<1>7. CASE BeginProbing(s) \/ AdvanceToScheduling(s) \/ ScheduleFails(s)
  BY <1>1, <1>7 DEF BeginProbing, AdvanceToScheduling, ScheduleFails, SessionPhases
<1>. QED
  BY <1>2, <1>4, <1>5, <1>6, <1>7

\* Scheduling grants an address at most, and enqueues prepare jobs.
LEMMA ScheduleTyped ==
    ASSUME Typed, NEW s \in Sessions, Schedule(s)
    PROVE  Typed'
<1>. USE DEF Typed
<1>1. lease' \in [Sessions -> Addresses \cup {NoAddress}]
  <2>1. lease \in [Sessions -> Addresses \cup {NoAddress}]
    BY DEF TypeOK
  <2>2. lease' = lease \/ \E x \in Addresses : lease' = [lease EXCEPT ![s] = x]
    BY DEF Schedule, FreeAddresses
  <2>. QED
    BY <2>1, <2>2
<1>2. planAddress' \in [Sessions -> Addresses \cup {NoAddress}]
  BY <1>1 DEF Schedule, TypeOK
<1>3. generation[s] \in Nat
  BY LifecycleAssumption DEF TypeOK
<1>4. \A a \in Assignments : jobs'[a] \in Seq(Job) /\ Len(jobs'[a]) >= Len(jobs[a])
  <2>1. NewJob("prepare", generation[s], 0, lease'[s]) \in Job
    BY <1>1, <1>3, NewJobType DEF Operations
  <2>. SUFFICES ASSUME NEW a \in Assignments
               PROVE  jobs'[a] \in Seq(Job) /\ Len(jobs'[a]) >= Len(jobs[a])
    OBVIOUS
  <2>2. jobs[a] \in Seq(Job)
    BY DEF TypeOK
  <2>3. CASE a \in Of(s)
    BY <2>1, <2>3, TableGrows DEF Schedule
  <2>4. CASE a \notin Of(s)
    BY <2>2, <2>4 DEF Schedule
  <2>. QED
    BY <2>3, <2>4
<1>5. jobs' \in [Assignments -> Seq(Job)]
  <2>1. jobs' = [a \in Assignments |-> jobs'[a]]
    BY DEF Schedule
  <2>. QED
    BY <1>4, <2>1
<1>6. want' \in [Assignments -> {"Applied", "Revoked"}] /\ plan' \in [Assignments -> Nat]
  BY <1>3 DEF Schedule, TypeOK
<1>7. status' \in [Assignments -> Statuses]
  BY DEF Schedule, TypeOK, EnsuredStatus, Statuses
<1>8. phase' \in [Sessions -> SessionPhases]
  BY DEF Schedule, TypeOK, SessionPhases
<1>9. TasksHaveJobs'
  BY <1>4, TasksKept DEF Schedule, gateVars
<1>. QED
  BY <1>1, <1>2, <1>5, <1>6, <1>7, <1>8, <1>9 DEF Schedule, TypeOK, sessionVars, gateVars

\* The other reconciler steps: jobs are enqueued or killed, rows keep their type.
LEMMA ReconcilerTyped ==
    ASSUME Typed, NEW s \in Sessions,
           \/ EnqueueCommit(s) \/ CompleteProvisioned(s) \/ FailTimedOut(s)
           \/ EnqueueRevocation(s) \/ CompleteRevoked(s)
    PROVE  Typed'
<1>. USE DEF Typed
<1>1. \A a \in Assignments : jobs'[a] \in Seq(Job) /\ Len(jobs'[a]) >= Len(jobs[a])
  <2>. SUFFICES ASSUME NEW a \in Assignments
               PROVE  jobs'[a] \in Seq(Job) /\ Len(jobs'[a]) >= Len(jobs[a])
    OBVIOUS
  <2>1. jobs[a] \in Seq(Job)
    BY DEF TypeOK
  <2>2. CASE EnqueueCommit(s)
    <3>. DEFINE job == NewJob("commit", generation[s], material[<<s, Peer[a[2]]>>], planAddress[s])
    <3>1. generation[s] \in Nat
      BY LifecycleAssumption DEF TypeOK
    <3>2. CASE a \in Of(s)
      <4>1. Peer[a[2]] \in Roles
        BY <3>2 DEF Of, Peer, Roles
      <4>2. job \in Job
        BY <3>1, <4>1, NewJobType DEF TypeOK, Operations, Assignments
      <4>3. jobs'[a] = WithApplyJob(a, job, status[a])
        BY <2>2, <3>2 DEF EnqueueCommit
      <4>. HIDE DEF job
      <4>. QED
        BY <4>2, <4>3, TableGrows
    <3>3. CASE a \notin Of(s)
      BY <2>1, <2>2, <3>3 DEF EnqueueCommit
    <3>. QED
      BY <3>2, <3>3
  <2>3. CASE FailTimedOut(s)
    BY <2>1, <2>3, TableGrows DEF FailTimedOut
  <2>4. CASE EnqueueRevocation(s)
    BY <2>1, <2>4, TableGrows DEF EnqueueRevocation
  <2>5. CASE CompleteProvisioned(s) \/ CompleteRevoked(s)
    BY <2>1, <2>5 DEF CompleteProvisioned, CompleteRevoked
  <2>. QED
    BY <2>2, <2>3, <2>4, <2>5
<1>2. jobs' \in [Assignments -> Seq(Job)]
  <2>1. jobs' = [a \in Assignments |-> jobs'[a]]
    BY DEF EnqueueCommit, CompleteProvisioned, FailTimedOut, EnqueueRevocation, CompleteRevoked, TypeOK
  <2>. QED
    BY <1>1, <2>1
<1>3. TasksHaveJobs'
  BY <1>1, TasksKept DEF EnqueueCommit, CompleteProvisioned, FailTimedOut, EnqueueRevocation,
                         CompleteRevoked, gateVars
<1>4. CASE EnqueueCommit(s)
  <2>1. status' \in [Assignments -> Statuses]
    BY <1>4 DEF EnqueueCommit, TypeOK, Statuses
  <2>. QED
    BY <1>2, <1>3, <1>4, <2>1 DEF EnqueueCommit, TypeOK, sessionVars, gateVars
<1>5. CASE CompleteProvisioned(s)
  <2>1. <<s, "Ingress">> \in Assignments
    BY DEF Assignments, Roles
  <2>2. artifact' \in [Sessions -> Nat] /\ phase' \in [Sessions -> SessionPhases]
    BY <1>5, <2>1 DEF CompleteProvisioned, TypeOK, SessionPhases
  <2>. QED
    BY <1>2, <1>3, <1>5, <2>2 DEF CompleteProvisioned, TypeOK, sessionVars, assignmentVars, gateVars
<1>6. CASE FailTimedOut(s)
  <2>1. artifact' \in [Sessions -> Nat] /\ phase' \in [Sessions -> SessionPhases]
    BY <1>6 DEF FailTimedOut, TypeOK, Invalidated, SessionPhases
  <2>2. lease' \in [Sessions -> Addresses \cup {NoAddress}]
    BY <1>6 DEF FailTimedOut, TypeOK, Released
  <2>3. status' \in [Assignments -> Statuses]
    BY <1>6 DEF FailTimedOut, TypeOK, Statuses
  <2>. QED
    BY <1>2, <1>3, <1>6, <2>1, <2>2, <2>3 DEF FailTimedOut, TypeOK, sessionVars, gateVars
<1>7. CASE EnqueueRevocation(s)
  <2>1. want' \in [Assignments -> {"Applied", "Revoked"}]
    BY <1>7 DEF EnqueueRevocation, TypeOK
  <2>2. status' \in [Assignments -> Statuses]
    BY <1>7 DEF EnqueueRevocation, TypeOK, Statuses
  <2>. QED
    BY <1>2, <1>3, <1>7, <2>1, <2>2 DEF EnqueueRevocation, TypeOK, sessionVars, gateVars
<1>8. CASE CompleteRevoked(s)
  <2>1. artifact' \in [Sessions -> Nat] /\ phase' \in [Sessions -> SessionPhases]
    BY <1>8 DEF CompleteRevoked, TypeOK, Invalidated, SessionPhases
  <2>2. lease' \in [Sessions -> Addresses \cup {NoAddress}]
    BY <1>8 DEF CompleteRevoked, TypeOK, Released
  <2>. QED
    BY <1>2, <1>3, <1>8, <2>1, <2>2 DEF CompleteRevoked, TypeOK, sessionVars, assignmentVars, gateVars
<1>. QED
  BY <1>4, <1>5, <1>6, <1>7, <1>8

\* What an agent does to the host leaves a host state.
LEMMA HostTyped ==
    ASSUME TypeOK, NEW h \in Host, NEW job \in Job
    PROVE  Executed(h, job) \in Host
<1>1. Prepared(h) \in Host
  <2>1. h.key + 1 \in Nat
    BY DEF Host
  <2>2. [h EXCEPT !.stage = "prepared", !.key = h.key + 1] \in Host
    BY <2>1 DEF Host, Stages
  <2>. QED
    BY <2>2 DEF Prepared
<1>2. Committed(h, job) \in Host
  BY DEF Committed, Host, Job, Stages
<1>3. Torn(h) \in Host
  BY DEF Torn, Host, Stages
<1>. QED
  BY <1>1, <1>2, <1>3 DEF Executed, Job, Operations

\* Leases expire and are taken; the rows keep their number.
LEMMA LeasingTyped ==
    ASSUME Typed,
           \/ \E a \in Assignments : ExpireLease(a)
           \/ \E r \in Roles : Claim(r)
    PROVE  Typed'
<1>. USE DEF Typed
<1>1. ASSUME NEW a \in Assignments, NEW i \in DOMAIN jobs[a], NEW p \in {"queued", "leased"},
             jobs' = [jobs EXCEPT ![a][i].phase = p]
      PROVE  /\ jobs' \in [Assignments -> Seq(Job)]
             /\ \A b \in Assignments : Len(jobs'[b]) = Len(jobs[b])
  <2>1. jobs[a] \in Seq(Job) /\ jobs[a][i] \in Job
    BY DEF TypeOK
  <2>2. [jobs[a][i] EXCEPT !.phase = p] \in Job
    BY <2>1 DEF Job, JobPhases
  <2>. DEFINE q == [jobs[a] EXCEPT ![i] = [jobs[a][i] EXCEPT !.phase = p]]
  <2>3. q \in Seq(Job) /\ Len(q) = Len(jobs[a])
    BY <2>1, <2>2, ReplaceJob
  <2>4. jobs' = [jobs EXCEPT ![a] = q]
    BY <1>1 DEF TypeOK
  <2>. HIDE DEF q
  <2>. QED
    BY <2>3, <2>4 DEF TypeOK
<1>2. ASSUME NEW a \in Assignments, ExpireLease(a) PROVE Typed'
  <2>1. PICK i \in DOMAIN jobs[a] : jobs' = [jobs EXCEPT ![a][i].phase = "queued"]
    BY <1>2 DEF ExpireLease
  <2>2. jobs' \in [Assignments -> Seq(Job)] /\ \A b \in Assignments : Len(jobs'[b]) = Len(jobs[b])
    BY <1>1, <2>1
  <2>3. \A b \in Assignments : Len(jobs[b]) \in Nat
    BY DEF TypeOK
  <2>4. worker' = worker /\ late' = late
    BY <1>2 DEF ExpireLease, gateVars
  <2>5. \A b \in Assignments : jobs'[b] \in Seq(Job) /\ Len(jobs'[b]) >= Len(jobs[b])
    BY <2>2, <2>3
  <2>6. TasksHaveJobs'
    BY <2>4, <2>5, TasksKept
  <2>. QED
    BY <1>2, <2>2, <2>6 DEF ExpireLease, TypeOK, sessionVars, assignmentVars, gateVars
<1>3. ASSUME NEW r \in Roles, Claim(r) PROVE Typed'
  <2>. PICK s \in Sessions : \E i \in DOMAIN jobs[<<s, r>>] :
          /\ jobs' = [jobs EXCEPT ![<<s, r>>][i].phase = "leased"]
          /\ status' = [status EXCEPT ![<<s, r>>] = LeasedStatus(@, jobs[<<s, r>>][i].op)]
          /\ worker' = [worker EXCEPT ![r] =
                          {[a |-> <<s, r>>, i |-> i, result |-> "running", key |-> 0]}]
    BY <1>3 DEF Claim
  <2>1. PICK i \in DOMAIN jobs[<<s, r>>] :
          /\ jobs' = [jobs EXCEPT ![<<s, r>>][i].phase = "leased"]
          /\ status' = [status EXCEPT ![<<s, r>>] = LeasedStatus(@, jobs[<<s, r>>][i].op)]
          /\ worker' = [worker EXCEPT ![r] =
                          {[a |-> <<s, r>>, i |-> i, result |-> "running", key |-> 0]}]
    OBVIOUS
  <2>2. <<s, r>> \in Assignments
    BY DEF Assignments
  <2>3. jobs' \in [Assignments -> Seq(Job)] /\ \A b \in Assignments : Len(jobs'[b]) = Len(jobs[b])
    BY <1>1, <2>1, <2>2
  <2>4. status' \in [Assignments -> Statuses]
    BY <2>1, <2>2 DEF TypeOK, LeasedStatus, Statuses
  <2>5. i \in Nat \ {0} /\ i \in 1..Len(jobs[<<s, r>>])
    <3>1. jobs[<<s, r>>] \in Seq(Job)
      BY <2>2 DEF TypeOK
    <3>. QED
      BY <3>1
  <2>6. worker' \in [Roles -> SUBSET Task]
    <3>. DEFINE t == [a |-> <<s, r>>, i |-> i, result |-> "running", key |-> 0]
    <3>1. t \in Task
      BY <2>2, <2>5 DEF Task
    <3>2. worker' = [worker EXCEPT ![r] = {t}] /\ worker \in [Roles -> SUBSET Task]
      BY <2>1 DEF TypeOK
    <3>. HIDE DEF t
    <3>. QED
      BY <3>1, <3>2
  <2>7. \A q \in Roles : \A t \in worker'[q] :
          t \in worker[q] \/ t = [a |-> <<s, r>>, i |-> i, result |-> "running", key |-> 0]
    BY <2>1 DEF TypeOK
  <2>8. TasksHaveJobs'
    <3>1. \A q \in Roles : \A t \in worker[q] : t.a \in Assignments
      BY DEF TypeOK, Task
    <3>2. \A t \in late : t.a \in Assignments
      BY DEF TypeOK, Task
    <3>3. ASSUME NEW q \in Roles, NEW t \in worker'[q]
          PROVE  t.i \in 1..Len(jobs'[t.a])
      <4>1. CASE t \in worker[q]
        BY <2>3, <3>1, <4>1 DEF TasksHaveJobs
      <4>2. CASE t = [a |-> <<s, r>>, i |-> i, result |-> "running", key |-> 0]
        <5>1. t.a = <<s, r>> /\ t.i = i
          BY <4>2
        <5>. QED
          BY <2>2, <2>3, <2>5, <5>1
      <4>. QED
        BY <2>7, <4>1, <4>2
    <3>4. \A t \in late : t.i \in 1..Len(jobs'[t.a])
      BY <2>3, <3>2 DEF TasksHaveJobs
    <3>. QED
      BY <1>3, <3>3, <3>4 DEF TasksHaveJobs, Claim
  <2>. QED
    BY <1>3, <2>3, <2>4, <2>6, <2>8 DEF Claim, TypeOK, sessionVars
<1>. QED
  BY <1>2, <1>3

\* A task an agent finishes or drops stays a task of the same job.
LEMMA AgentTyped ==
    ASSUME Typed, NEW r \in Roles,
           Execute(r) \/ ExecuteFails(r) \/ ReportTimesOut(r) \/ AgentDies(r)
    PROVE  Typed'
<1>. USE DEF Typed
<1>1. jobs' = jobs
  BY DEF Execute, ExecuteFails, ReportTimesOut, AgentDies
<1>2. \A t \in worker[r] : /\ t \in Task
                          /\ t.a \in Assignments
                          /\ t.i \in 1..Len(jobs[t.a])
                          /\ jobs[t.a][t.i] \in Job
  <2>. SUFFICES ASSUME NEW t \in worker[r]
               PROVE  /\ t \in Task
                      /\ t.a \in Assignments
                      /\ t.i \in 1..Len(jobs[t.a])
                      /\ jobs[t.a][t.i] \in Job
    OBVIOUS
  <2>1. t \in Task
    BY DEF TypeOK
  <2>2. t.a \in Assignments
    BY <2>1 DEF Task
  <2>3. t.i \in 1..Len(jobs[t.a])
    BY DEF TasksHaveJobs
  <2>4. jobs[t.a] \in Seq(Job)
    BY <2>2 DEF TypeOK
  <2>. QED
    BY <2>1, <2>2, <2>3, <2>4
<1>3. CASE Execute(r)
  <2>1. PICK t \in worker[r] :
          /\ host' = [host EXCEPT ![t.a] = Executed(@, jobs[t.a][t.i])]
          /\ worker' = [worker EXCEPT ![r] = {[t EXCEPT !.result = "succeeded", !.key = host'[t.a].key]}]
    BY <1>3 DEF Execute
  <2>2. Executed(host[t.a], jobs[t.a][t.i]) \in Host
    BY <1>2, HostTyped DEF TypeOK
  <2>3. host' \in [Assignments -> Host] /\ host'[t.a].key \in Nat
    <3>1. host' \in [Assignments -> Host]
      BY <1>2, <2>1, <2>2 DEF TypeOK
    <3>. QED
      BY <1>2, <3>1 DEF Host
  <2>. DEFINE u == [t EXCEPT !.result = "succeeded", !.key = host'[t.a].key]
  <2>4. u \in Task /\ u.a = t.a /\ u.i = t.i
    BY <1>2, <2>3 DEF Task
  <2>5. worker' = [worker EXCEPT ![r] = {u}]
    BY <2>1
  <2>. HIDE DEF u
  <2>6. worker' \in [Roles -> SUBSET Task] /\ \A q \in Roles : \A v \in worker'[q] : v \in worker[q] \/ v = u
    BY <2>4, <2>5, HoldsTask
  <2>7. u.i \in 1..Len(jobs[u.a])
    BY <1>2, <2>4
  <2>8. TasksHaveJobs'
    BY <1>1, <1>3, <2>6, <2>7 DEF TasksHaveJobs, Execute
  <2>9. TypeOK'
    <3>1. UNCHANGED <<sessionVars, phase, lease, planAddress, artifact, assignmentVars, jobs, late, faults>>
      BY <1>3 DEF Execute
    <3>. QED
      BY <2>3, <2>6, <3>1 DEF TypeOK, sessionVars, assignmentVars
  <2>. QED
    BY <2>8, <2>9
<1>4. CASE ExecuteFails(r)
  <2>1. PICK t \in worker[r] :
          worker' = [worker EXCEPT ![r] = {[t EXCEPT !.result = "retryable_failed"]}]
    BY <1>4 DEF ExecuteFails
  <2>. DEFINE u == [t EXCEPT !.result = "retryable_failed"]
  <2>2. u \in Task /\ u.a = t.a /\ u.i = t.i
    BY <1>2 DEF Task
  <2>3. worker' = [worker EXCEPT ![r] = {u}]
    BY <2>1
  <2>. HIDE DEF u
  <2>4. worker' \in [Roles -> SUBSET Task] /\ \A q \in Roles : \A v \in worker'[q] : v \in worker[q] \/ v = u
    BY <2>2, <2>3, HoldsTask
  <2>5. faults' \in 0..MaxFaults
    <3>1. faults \in 0..MaxFaults /\ MaxFaults \in Nat
      BY LifecycleAssumption DEF TypeOK
    <3>2. faults' = faults \/ (faults > 0 /\ faults' = faults - 1)
      BY <1>4 DEF ExecuteFails
    <3>. QED
      BY <3>1, <3>2
  <2>6. u.i \in 1..Len(jobs[u.a])
    BY <1>2, <2>2
  <2>7. TasksHaveJobs'
    BY <1>1, <1>4, <2>4, <2>6 DEF TasksHaveJobs, ExecuteFails
  <2>8. TypeOK'
    <3>1. UNCHANGED <<sessionVars, phase, lease, planAddress, artifact, assignmentVars, jobs, host, late>>
      BY <1>4 DEF ExecuteFails
    <3>. QED
      BY <2>4, <2>5, <3>1 DEF TypeOK, sessionVars, assignmentVars
  <2>. QED
    BY <2>7, <2>8
<1>5. CASE ReportTimesOut(r)
  <2>1. PICK t \in worker[r] : late' = IF MayBeLate THEN late \cup {t} ELSE late
    BY <1>5 DEF ReportTimesOut
  <2>2. worker' = [worker EXCEPT ![r] = {}] /\ faults' \in 0..MaxFaults
    BY <1>5, LifecycleAssumption DEF ReportTimesOut, TypeOK
  <2>3. worker' \in [Roles -> SUBSET Task] /\ late' \in SUBSET Task
    BY <1>2, <2>1, <2>2 DEF TypeOK
  <2>4. TasksHaveJobs'
    BY <1>1, <1>2, <2>1, <2>2 DEF TypeOK, TasksHaveJobs
  <2>. QED
    BY <1>1, <1>5, <2>2, <2>3, <2>4 DEF ReportTimesOut, TypeOK, sessionVars, assignmentVars
<1>6. CASE AgentDies(r)
  <2>1. worker' = [worker EXCEPT ![r] = {}] /\ faults' \in 0..MaxFaults
    BY <1>6, LifecycleAssumption DEF AgentDies, TypeOK
  <2>2. TasksHaveJobs'
    BY <1>1, <1>6, <2>1 DEF TypeOK, TasksHaveJobs, AgentDies
  <2>. QED
    BY <1>1, <1>6, <2>1, <2>2 DEF AgentDies, TypeOK, sessionVars, assignmentVars
<1>. QED
  BY <1>3, <1>4, <1>5, <1>6

\* A report updates one row of the job table and the row of its assignment.
LEMMA RecordTyped ==
    ASSUME Typed, NEW t \in Task, t.i \in 1..Len(jobs[t.a]), Record(t)
    PROVE  /\ jobs' \in [Assignments -> Seq(Job)]
           /\ status' \in [Assignments -> Statuses]
           /\ material' \in [Assignments -> Nat]
           /\ \A a \in Assignments : Len(jobs'[a]) = Len(jobs[a])
<1>. USE DEF Typed
<1>. DEFINE job == jobs[t.a][t.i]
            ok == t.result = "succeeded"
            q == [jobs[t.a] EXCEPT ![t.i] = Reported(job, ok)]
<1>1. t.a \in Assignments /\ t.key \in Nat
  BY DEF Task
<1>2. jobs[t.a] \in Seq(Job) /\ job \in Job
  BY <1>1 DEF TypeOK
<1>3. Reported(job, ok) \in Job
  BY <1>2, ReportedType
<1>4. q \in Seq(Job) /\ Len(q) = Len(jobs[t.a])
  BY <1>2, <1>3, ReplaceJob
<1>5. jobs' = [jobs EXCEPT ![t.a] = q]
  BY <1>1 DEF Record, TypeOK
<1>6. ReportedStatus(job, ok) \in Statuses
  BY DEF ReportedStatus, Statuses
<1>7. status' = [status EXCEPT ![t.a] = ReportedStatus(job, ok)]
  BY DEF Record
<1>8. material' \in [Assignments -> Nat]
  BY <1>1 DEF Record, TypeOK
<1>. HIDE DEF job, ok, q
<1>. QED
  BY <1>1, <1>4, <1>5, <1>6, <1>7, <1>8 DEF TypeOK

\* Reports in time and late ones.
LEMMA ReportsTyped ==
    ASSUME Typed, LateReport \/ \E r \in Roles : Report(r)
    PROVE  Typed'
<1>. USE DEF Typed
<1>1. PICK t \in Task : t.i \in 1..Len(jobs[t.a]) /\ Record(t)
  BY DEF LateReport, Report, TypeOK, TasksHaveJobs
<1>2. /\ jobs' \in [Assignments -> Seq(Job)]
      /\ status' \in [Assignments -> Statuses]
      /\ material' \in [Assignments -> Nat]
      /\ \A a \in Assignments : Len(jobs'[a]) = Len(jobs[a])
  BY <1>1, RecordTyped
<1>3. /\ worker' \in [Roles -> SUBSET Task] /\ late' \in SUBSET Task
      /\ \A r \in Roles : worker'[r] \subseteq worker[r]
      /\ late' \subseteq late
  BY DEF LateReport, Report, TypeOK
<1>4. TasksHaveJobs'
  <2>1. \A r \in Roles : \A v \in worker[r] : v.a \in Assignments
    BY DEF TypeOK, Task
  <2>2. \A v \in late : v.a \in Assignments
    BY DEF TypeOK, Task
  <2>. QED
    BY <1>2, <1>3, <2>1, <2>2 DEF TasksHaveJobs
<1>. QED
  BY <1>2, <1>3, <1>4 DEF LateReport, Report, TypeOK, sessionVars

LEMMA InitTyped == Init => Typed
<1>. SUFFICES ASSUME Init PROVE Typed
  OBVIOUS
<1>1. jobs \in [Assignments -> Seq(Job)]
  BY DEF Init
<1>2. host \in [Assignments -> Host]
  BY DEF Init, Host, Stages
<1>3. generation \in [Sessions -> 1..MaxGen] /\ faults \in 0..MaxFaults
  BY LifecycleAssumption DEF Init
<1>4. TasksHaveJobs
  BY DEF Init, TasksHaveJobs
<1>. QED
  BY <1>1, <1>2, <1>3, <1>4 DEF Init, Typed, TypeOK, SessionPhases, Statuses

LEMMA NextTyped == Typed /\ [Next]_vars => Typed'
<1>. SUFFICES ASSUME Typed, [Next]_vars PROVE Typed'
  OBVIOUS
<1>1. CASE UNCHANGED vars
  BY <1>1 DEF vars, sessionVars, assignmentVars, gateVars, Typed, TypeOK, TasksHaveJobs
<1>2. CASE Next
  BY <1>2, RequestsTyped, ScheduleTyped, ReconcilerTyped, LeasingTyped, AgentTyped, ReportsTyped
     DEF Next
<1>. QED
  BY <1>1, <1>2

\* Every variable keeps its type, and no task outlives its job.
THEOREM LifecycleTyped == Spec => []Typed
<1>. QED
  BY InitTyped, NextTyped, PTL DEF Spec

\* Every variable keeps its type.
THEOREM LifecycleTypeOK == Spec => []TypeOK
<1>1. Typed => TypeOK
  BY DEF Typed
<1>. QED
  BY <1>1, LifecycleTyped, PTL

-----------------------------------------------------------------------------
\* The phase of a session and what must go with it.

\* Steps of leases and agents leave the sessions' tables alone.
LEMMA GatesKeepSessions ==
    ASSUME \/ \E a \in Assignments : ExpireLease(a)
           \/ \E r \in Roles : \/ Claim(r) \/ Execute(r) \/ ExecuteFails(r)
                             \/ Report(r) \/ ReportTimesOut(r) \/ AgentDies(r)
           \/ LateReport
    PROVE  UNCHANGED <<sessionVars, phase, lease, planAddress, artifact>>
BY DEF ExpireLease, Claim, Execute, ExecuteFails, Report, ReportTimesOut, AgentDies, LateReport

\* What is asked of a session agrees with its phase, it has an address while it
\* needs one and a config only while one may be downloaded.
PhaseFits ==
    /\ \A s \in Sessions : desired[s] = "Revoked" => phase[s] \in {"revoking", "revoked"}
    /\ LeaseCoversProvisioning
    /\ ConfigOnlyWhileUp

LEMMA PhaseFitsKept == TypeOK /\ PhaseFits /\ [Next]_vars => PhaseFits'
<1>. SUFFICES ASSUME TypeOK, PhaseFits, [Next]_vars PROVE PhaseFits'
  OBVIOUS
<1>. USE DEF PhaseFits, LeaseCoversProvisioning, ConfigOnlyWhileUp
<1>0. /\ desired \in [Sessions -> {"Active", "Revoked"}]
      /\ phase \in [Sessions -> SessionPhases]
      /\ lease \in [Sessions -> Addresses \cup {NoAddress}]
      /\ artifact \in [Sessions -> Nat]
  BY DEF TypeOK
<1>. USE <1>0
<1>1. CASE UNCHANGED <<sessionVars, phase, lease, planAddress, artifact>>
  BY <1>1 DEF sessionVars
<1>2. ASSUME NEW s \in Sessions, Create(s) \/ ActivatePaid(s) \/ DeleteUnpaid(s)
      PROVE  PhaseFits'
  BY <1>2 DEF Create, ActivatePaid, DeleteUnpaid, sessionVars
<1>3. ASSUME NEW s \in Sessions, Revoke(s) \/ EnforceQuota(s)
      PROVE  PhaseFits'
  BY <1>3 DEF Revoke, EnforceQuota, RequestRevocation
<1>4. ASSUME NEW s \in Sessions, Reactivate(s) PROVE PhaseFits'
  BY <1>4 DEF Reactivate, MayReactivate
<1>5. ASSUME NEW s \in Sessions, ReadForHide(s) \/ Hide(s) PROVE PhaseFits'
  BY <1>5 DEF ReadForHide, Hide
<1>6. ASSUME NEW s \in Sessions, BeginProbing(s) \/ AdvanceToScheduling(s) \/ ScheduleFails(s)
      PROVE  PhaseFits'
  BY <1>6 DEF BeginProbing, AdvanceToScheduling, ScheduleFails, sessionVars
<1>7. ASSUME NEW s \in Sessions, Schedule(s) PROVE PhaseFits'
  <2>1. lease'[s] # NoAddress /\ \A t \in Sessions \ {s} : lease'[t] = lease[t]
    BY <1>7, LifecycleAssumption DEF Schedule, FreeAddresses
  <2>. QED
    BY <1>7, <2>1 DEF Schedule, sessionVars
<1>8. ASSUME NEW s \in Sessions, EnqueueCommit(s) \/ EnqueueRevocation(s) PROVE PhaseFits'
  BY <1>8 DEF EnqueueCommit, EnqueueRevocation, sessionVars
<1>9. ASSUME NEW s \in Sessions, CompleteProvisioned(s) PROVE PhaseFits'
  BY <1>9 DEF CompleteProvisioned, Provisioned, sessionVars
<1>10. ASSUME NEW s \in Sessions, FailTimedOut(s) PROVE PhaseFits'
  BY <1>10 DEF FailTimedOut, Released, Invalidated, sessionVars
<1>11. ASSUME NEW s \in Sessions, CompleteRevoked(s) PROVE PhaseFits'
  BY <1>11 DEF CompleteRevoked, Released, Invalidated, sessionVars
<1>12. CASE UNCHANGED vars
  BY <1>1, <1>12 DEF vars
<1>. QED
  BY <1>1, <1>2, <1>3, <1>4, <1>5, <1>6, <1>7, <1>8, <1>9, <1>10, <1>11, <1>12,
     GatesKeepSessions DEF Next

LEMMA LifecyclePhaseFits == Spec => []PhaseFits
<1>1. Init => PhaseFits
  BY DEF Init, PhaseFits, LeaseCoversProvisioning, ConfigOnlyWhileUp
<1>. QED
  BY <1>1, PhaseFitsKept, LifecycleTypeOK, PTL DEF Spec

\* A session being provisioned or active holds an address: it is granted with
\* the plan and released only with the phase that ends provisioning or
\* revocation.
THEOREM LifecycleLeaseCovers == Spec => []LeaseCoversProvisioning
<1>1. PhaseFits => LeaseCoversProvisioning
  BY DEF PhaseFits
<1>. QED
  BY <1>1, LifecyclePhaseFits, PTL

\* A client config is downloadable only in the phases active and revoking,
\* whatever the reports and retries of earlier generations do.
THEOREM LifecycleConfigOnlyWhileUp == Spec => []ConfigOnlyWhileUp
<1>1. PhaseFits => ConfigOnlyWhileUp
  BY DEF PhaseFits
<1>. QED
  BY <1>1, LifecyclePhaseFits, PTL

\* What the phase promises is there, for any number of sessions, generations, lost
\* and late reports and timeouts.
THEOREM LifecyclePhaseIsBacked == Spec => []PhaseIsBacked
<1>1. LeaseCoversProvisioning /\ ConfigOnlyWhileUp => PhaseIsBacked
  BY DEF PhaseIsBacked
<1>. QED
  BY <1>1, LifecycleLeaseCovers, LifecycleConfigOnlyWhileUp, PTL

\* A session that was revoked by hand, or by billing, never comes back: the one
\* step that makes a revoked session active again requires the mark of quota
\* enforcement, and no other step touches the phase of a session whose desired
\* state is Revoked except towards revoked.
THEOREM LifecycleManualRevocation == Spec => ManualRevocationSticks
<1>. DEFINE Sticks == \A s \in Sessions : desired[s] = "Revoked" /\ ~quotaRevoked[s] =>
                         desired'[s] = "Revoked" /\ phase'[s] \in {"revoking", "revoked"}
<1>1. TypeOK /\ PhaseFits /\ PhaseFits' /\ [Next]_vars => [Sticks]_vars
  <2>. SUFFICES ASSUME TypeOK, PhaseFits, PhaseFits', [Next]_vars, NEW s \in Sessions,
                      desired[s] = "Revoked", ~quotaRevoked[s]
               PROVE  desired'[s] = "Revoked"
    BY DEF PhaseFits
  <2>. USE DEF TypeOK
  <2>1. CASE UNCHANGED desired
    BY <2>1
  <2>2. ASSUME NEW t \in Sessions, Revoke(t) \/ EnforceQuota(t) PROVE desired'[s] = "Revoked"
    BY <2>2 DEF Revoke, EnforceQuota, RequestRevocation
  <2>3. ASSUME NEW t \in Sessions, Reactivate(t) PROVE desired'[s] = "Revoked"
    BY <2>3 DEF Reactivate, MayReactivate
  <2>4. ASSUME NEW t \in Sessions,
               \/ Create(t) \/ ActivatePaid(t) \/ DeleteUnpaid(t) \/ ReadForHide(t) \/ Hide(t)
               \/ BeginProbing(t) \/ AdvanceToScheduling(t) \/ ScheduleFails(t) \/ Schedule(t)
               \/ EnqueueCommit(t) \/ CompleteProvisioned(t) \/ FailTimedOut(t)
               \/ EnqueueRevocation(t) \/ CompleteRevoked(t)
        PROVE  UNCHANGED desired
    BY <2>4 DEF Create, ActivatePaid, DeleteUnpaid, ReadForHide, Hide, BeginProbing,
                AdvanceToScheduling, ScheduleFails, Schedule, EnqueueCommit, CompleteProvisioned,
                FailTimedOut, EnqueueRevocation, CompleteRevoked, sessionVars
  <2>5. CASE UNCHANGED vars
    BY <2>5 DEF vars, sessionVars
  <2>. QED
    BY <2>1, <2>2, <2>3, <2>4, <2>5, GatesKeepSessions DEF Next, sessionVars
<1>2. Spec => [][Sticks]_vars
  BY <1>1, LifecycleTypeOK, LifecyclePhaseFits, PTL DEF Spec
<1>. QED
  BY <1>2 DEF ManualRevocationSticks

\* The leases keep what AddressLease promises: scheduling grants a free address
\* to a session without one, revocation and timeouts return one.
THEOREM LifecycleKeepsPromise == Spec => LeasePromise
<1>1. Init => Promise!Init
  BY DEF Init, Promise!Init
<1>2. TypeOK /\ [Next]_vars => [Promise!Next]_lease
  <2>. SUFFICES ASSUME TypeOK, [Next]_vars PROVE Promise!Next \/ lease' = lease
    OBVIOUS
  <2>1. ASSUME NEW s \in Sessions, Schedule(s) PROVE Promise!Next \/ lease' = lease
    <3>1. CASE lease[s] # NoAddress
      BY <2>1, <3>1 DEF Schedule
    <3>2. CASE lease[s] = NoAddress
      <4>1. PICK x \in FreeAddresses : lease' = [lease EXCEPT ![s] = x]
        BY <2>1, <3>2 DEF Schedule
      <4>2. Promise!Grant(s, x) /\ x \in Addresses
        BY <3>2, <4>1 DEF FreeAddresses, Promise!Grant, Promise!Held
      <4>. QED
        BY <4>2 DEF Promise!Next
    <3>. QED
      BY <3>1, <3>2
  <2>2. ASSUME NEW s \in Sessions, FailTimedOut(s) \/ CompleteRevoked(s) PROVE Promise!Next
    <3>1. Promise!Return({s})
      BY <2>2 DEF FailTimedOut, CompleteRevoked, Released, Promise!Return, TypeOK
    <3>. QED
      BY <3>1 DEF Promise!Next
  <2>3. ASSUME NEW s \in Sessions,
               \/ Create(s) \/ ActivatePaid(s) \/ DeleteUnpaid(s)
               \/ Revoke(s) \/ EnforceQuota(s) \/ Reactivate(s) \/ ReadForHide(s) \/ Hide(s)
               \/ BeginProbing(s) \/ AdvanceToScheduling(s) \/ ScheduleFails(s)
               \/ EnqueueCommit(s) \/ CompleteProvisioned(s) \/ EnqueueRevocation(s)
        PROVE  lease' = lease
    BY <2>3 DEF Create, ActivatePaid, DeleteUnpaid, Revoke, EnforceQuota, RequestRevocation,
                Reactivate, ReadForHide, Hide, BeginProbing, AdvanceToScheduling, ScheduleFails,
                EnqueueCommit, CompleteProvisioned, EnqueueRevocation
  <2>4. CASE UNCHANGED vars
    BY <2>4 DEF vars
  <2>. QED
    BY <2>1, <2>2, <2>3, <2>4, GatesKeepSessions DEF Next
<1>. QED
  BY <1>1, <1>2, LifecycleTypeOK, PTL DEF Spec, LeasePromise, Promise!Spec

-----------------------------------------------------------------------------
\* The rows of the job table, step by step.

Rows(a) == 1..Len(jobs[a])
NoRows(a) == Len(jobs[a]) = 0
HasRow(a, op) == \E i \in Rows(a) : jobs[a][i].op = op

\* No row comes or goes, and what a row asks for stays; nor does one succeed or use
\* up an attempt.
KeepsRows(a) ==
    /\ Len(jobs'[a]) = Len(jobs[a])
    /\ \A i \in Rows(a) : /\ jobs'[a][i].op = jobs[a][i].op
                          /\ jobs'[a][i].peer = jobs[a][i].peer
                          /\ jobs'[a][i].address = jobs[a][i].address
KeepsSuccess(a) ==
    \A i \in Rows(a) : /\ jobs'[a][i].phase = "succeeded" <=> jobs[a][i].phase = "succeeded"
                       /\ jobs'[a][i].retries = jobs[a][i].retries

AddsRow(a, job) ==
    /\ Len(jobs'[a]) = Len(jobs[a]) + 1
    /\ \A i \in Rows(a) : jobs'[a][i] = jobs[a][i]
    /\ jobs'[a][Len(jobs[a]) + 1] = job

\* The handlers of users' requests and of the reconciler.
SessionStep(s) ==
    \/ Create(s) \/ ActivatePaid(s) \/ DeleteUnpaid(s)
    \/ Revoke(s) \/ EnforceQuota(s) \/ Reactivate(s) \/ ReadForHide(s) \/ Hide(s)
    \/ BeginProbing(s) \/ AdvanceToScheduling(s) \/ ScheduleFails(s) \/ Schedule(s)
    \/ EnqueueCommit(s) \/ CompleteProvisioned(s) \/ FailTimedOut(s)
    \/ EnqueueRevocation(s) \/ CompleteRevoked(s)

USE DEF SessionStep

\* Nothing that belongs to session u changes.
SameOf(u) ==
    /\ desired'[u] = desired[u] /\ generation'[u] = generation[u] /\ phase'[u] = phase[u]
    /\ lease'[u] = lease[u] /\ planAddress'[u] = planAddress[u] /\ artifact'[u] = artifact[u]
    /\ \A a \in Of(u) : /\ jobs'[a] = jobs[a] /\ status'[a] = status[a] /\ want'[a] = want[a]
                        /\ material'[a] = material[a] /\ host'[a] = host[a]

\* The two assignments of a session are its own.
LEMMA OfSession ==
    ASSUME NEW s \in Sessions
    PROVE  /\ \A a \in Of(s) : a \in Assignments /\ a[1] = s /\ a[2] \in Roles
           /\ \A u \in Sessions \ {s} : Of(u) \cap Of(s) = {}
           /\ \A r \in Roles : <<s, r>> \in Of(s)
BY DEF Of, Assignments

\* A step of a session's handler leaves the other sessions alone.
LEMMA HandlersStayInSession ==
    ASSUME TypeOK, NEW s \in Sessions,
           SessionStep(s)
    PROVE  \A u \in Sessions \ {s} : SameOf(u)
<1>. SUFFICES ASSUME NEW u \in Sessions \ {s} PROVE SameOf(u)
  OBVIOUS
<1>1. \A a \in Of(u) : a \in Assignments /\ a \notin Of(s)
  BY OfSession
<1>. USE <1>1 DEF TypeOK, SameOf, sessionVars, assignmentVars, gateVars
<1>2. CASE Create(s) \/ ActivatePaid(s) \/ DeleteUnpaid(s) \/ Revoke(s) \/ EnforceQuota(s) \/ Reactivate(s)
  BY <1>2 DEF Create, ActivatePaid, DeleteUnpaid, Revoke, EnforceQuota, RequestRevocation, Reactivate
<1>3. CASE ReadForHide(s) \/ Hide(s) \/ BeginProbing(s) \/ AdvanceToScheduling(s) \/ ScheduleFails(s)
  BY <1>3 DEF ReadForHide, Hide, BeginProbing, AdvanceToScheduling, ScheduleFails
<1>4. CASE Schedule(s)
  <2>1. lease'[u] = lease[u]
    BY <1>4 DEF Schedule
  <2>. QED
    BY <1>4, <2>1 DEF Schedule
<1>5. CASE EnqueueCommit(s)
  BY <1>5 DEF EnqueueCommit
<1>6. CASE CompleteProvisioned(s) \/ CompleteRevoked(s)
  BY <1>6 DEF CompleteProvisioned, CompleteRevoked, Released, Invalidated
<1>7. CASE FailTimedOut(s)
  BY <1>7 DEF FailTimedOut, Released, Invalidated
<1>8. CASE EnqueueRevocation(s)
  <2>1. \A a \in Of(u) : a \notin ToRevoke(s)
    BY DEF ToRevoke
  <2>. QED
    BY <1>8, <2>1 DEF EnqueueRevocation
<1>. QED
  BY <1>2, <1>3, <1>4, <1>5, <1>6, <1>7, <1>8

\* A row that only changes its phase.
LEMMA RephasedRow ==
    ASSUME TypeOK, NEW a \in Assignments, NEW i \in DOMAIN jobs[a], NEW p \in {"queued", "leased"},
           jobs[a][i].phase # "succeeded", jobs' = [jobs EXCEPT ![a][i].phase = p]
    PROVE  /\ \A b \in Assignments : KeepsRows(b) /\ KeepsSuccess(b)
           /\ \A b \in Assignments \ {a} : jobs'[b] = jobs[b]
<1>1. jobs[a] \in Seq(Job) /\ jobs[a][i] \in Job
  BY DEF TypeOK
<1>. DEFINE q == [jobs[a] EXCEPT ![i] = [jobs[a][i] EXCEPT !.phase = p]]
<1>2. jobs' = [jobs EXCEPT ![a] = q]
  BY DEF TypeOK
<1>3. Len(q) = Len(jobs[a])
  <2>1. [jobs[a][i] EXCEPT !.phase = p] \in Job
    BY <1>1 DEF Job, JobPhases
  <2>. QED
    BY <1>1, <2>1, ReplaceJob
<1>4. \A k \in 1..Len(jobs[a]) :
        /\ q[k].op = jobs[a][k].op /\ q[k].peer = jobs[a][k].peer /\ q[k].address = jobs[a][k].address
        /\ q[k].phase = "succeeded" <=> jobs[a][k].phase = "succeeded"
        /\ q[k].retries = jobs[a][k].retries
  <2>. SUFFICES ASSUME NEW k \in 1..Len(jobs[a])
               PROVE  /\ q[k].op = jobs[a][k].op /\ q[k].peer = jobs[a][k].peer
                      /\ q[k].address = jobs[a][k].address
                      /\ q[k].phase = "succeeded" <=> jobs[a][k].phase = "succeeded"
                      /\ q[k].retries = jobs[a][k].retries
    OBVIOUS
  <2>1. CASE k # i
    BY <1>1, <2>1
  <2>2. CASE k = i
    <3>1. q[k] = [jobs[a][i] EXCEPT !.phase = p]
      BY <1>1, <2>2
    <3>. QED
      BY <1>1, <2>2, <3>1 DEF Job
  <2>. QED
    BY <2>1, <2>2
<1>. HIDE DEF q
<1>5. jobs'[a] = q /\ \A b \in Assignments \ {a} : jobs'[b] = jobs[b]
  BY <1>2 DEF TypeOK
<1>. QED
  BY <1>3, <1>4, <1>5 DEF KeepsRows, KeepsSuccess, Rows

\* Killing the jobs of a provisioning that timed out.
LEMMA KilledRows ==
    ASSUME TypeOK, NEW a \in Assignments, jobs'[a] = KillApplyJobs(jobs[a])
    PROVE  KeepsRows(a) /\ KeepsSuccess(a)
<1>1. jobs[a] \in Seq(Job)
  BY DEF TypeOK
<1>2. \A k \in 1..Len(jobs[a]) : jobs[a][k] \in Job
  BY <1>1
<1>3. Len(jobs'[a]) = Len(jobs[a])
  BY TableGrows
<1>4. \A k \in 1..Len(jobs[a]) :
        jobs'[a][k] = IF jobs[a][k].op # "revoke" /\ jobs[a][k].phase \in PendingPhases
                      THEN [jobs[a][k] EXCEPT !.phase = "dead"] ELSE jobs[a][k]
  BY <1>1 DEF KillApplyJobs
<1>. QED
  BY <1>2, <1>3, <1>4 DEF KeepsRows, KeepsSuccess, Rows, PendingPhases, Job

\* A report changes the row of its task.
LEMMA RecordedRow ==
    ASSUME Typed, NEW t \in Task, t.i \in 1..Len(jobs[t.a]), Record(t)
    PROVE  /\ \A a \in Assignments : KeepsRows(a)
           /\ \A a \in Assignments \ {t.a} : jobs'[a] = jobs[a] /\ status'[a] = status[a] /\ material'[a] = material[a]
           /\ \A i \in Rows(t.a) \ {t.i} : jobs'[t.a][i] = jobs[t.a][i]
           /\ jobs'[t.a][t.i].phase = "succeeded" <=> t.result = "succeeded"
<1>. DEFINE job == jobs[t.a][t.i]
            ok == t.result = "succeeded"
            q == [jobs[t.a] EXCEPT ![t.i] = Reported(job, ok)]
<1>1. t.a \in Assignments
  BY DEF Task
<1>2. jobs[t.a] \in Seq(Job) /\ job \in Job
  BY <1>1 DEF Typed, TypeOK
<1>3. jobs' = [jobs EXCEPT ![t.a] = q]
  BY <1>1 DEF Record, Typed, TypeOK
<1>4. Len(q) = Len(jobs[t.a])
  BY <1>2, ReportedType, ReplaceJob
<1>5. /\ Reported(job, ok).op = job.op /\ Reported(job, ok).peer = job.peer
      /\ Reported(job, ok).address = job.address
      /\ Reported(job, ok).phase = "succeeded" <=> ok
  BY <1>2 DEF Reported, Job
<1>6. q[t.i] = Reported(job, ok) /\ \A i \in 1..Len(jobs[t.a]) : i # t.i => q[i] = jobs[t.a][i]
  BY <1>2
<1>7. \A a \in Assignments \ {t.a} : status'[a] = status[a] /\ material'[a] = material[a]
  BY <1>1 DEF Record, Typed, TypeOK
<1>8. jobs'[t.a] = q /\ \A a \in Assignments \ {t.a} : jobs'[a] = jobs[a]
  BY <1>1, <1>3 DEF Typed, TypeOK
<1>9. q[t.i].phase = "succeeded" <=> t.result = "succeeded"
  BY <1>5, <1>6
<1>. HIDE DEF q
<1>10. KeepsRows(t.a)
  <2>1. ASSUME NEW i \in 1..Len(jobs[t.a])
        PROVE  q[i].op = jobs[t.a][i].op /\ q[i].peer = jobs[t.a][i].peer
               /\ q[i].address = jobs[t.a][i].address
    <3>1. CASE i = t.i
      BY <1>5, <1>6, <3>1
    <3>2. CASE i # t.i
      BY <1>6, <2>1, <3>2
    <3>. QED
      BY <3>1, <3>2
  <2>. HIDE DEF job, ok
  <2>. QED
    BY <1>4, <1>8, <2>1 DEF KeepsRows, Rows
<1>11. ASSUME NEW a \in Assignments \ {t.a} PROVE KeepsRows(a)
  BY <1>8, <1>11 DEF KeepsRows, Rows
<1>. HIDE DEF job, ok
<1>12. \A i \in Rows(t.a) \ {t.i} : jobs'[t.a][i] = jobs[t.a][i]
  BY <1>6, <1>8 DEF Rows
<1>. QED
  BY <1>7, <1>8, <1>9, <1>10, <1>11, <1>12

\* An appended row.
LEMMA AppendedRow ==
    ASSUME TypeOK, NEW a \in Assignments, NEW job, jobs'[a] = Append(jobs[a], job)
    PROVE  AddsRow(a, job)
BY DEF TypeOK, AddsRow, Rows

-----------------------------------------------------------------------------
\* A session's first life, up to the end of its first revocation.

\* Its rows come in order: one prepare job with the plan, then commit jobs that carry
\* the plan's address, and revoke jobs once it, or one of its assignments, is not wanted
\* any more; nothing reaches a gate before.
Begun(s) ==
    /\ generation[s] = 1 => desired[s] = "Active" /\ phase[s] \notin {"revoking", "revoked"}
    /\ generation[s] = 2 => desired[s] = "Revoked"
    /\ desired[s] = "Active" /\ phase[s] \notin {"provisioning", "active", "failed"}
         => \A a \in Of(s) : NoRows(a)
    /\ phase[s] \in {"provisioning", "active"} => \A a \in Of(s) : ~NoRows(a)

BegunOn(s, a) ==
    /\ NoRows(a) <=> status[a] = "absent"
    /\ NoRows(a) => host[a].stage = "none" /\ want[a] = "Applied"
    /\ generation[s] = 1 /\ want[a] = "Applied" =>
         ~HasRow(a, "revoke") /\ status[a] \notin {"revoking", "revoked"}
    /\ status[a] \in {"applied", "drifted"} => HasRow(a, "commit")
    /\ \A i \in Rows(a) :
        /\ jobs[a][i].op = "prepare" => i = 1
        /\ jobs[a][i].op = "commit" => jobs[a][i].address = planAddress[s]
    /\ host[a].stage = "committed" => host[a].address = planAddress[s] /\ HasRow(a, "commit")

FirstLife(s) == generation[s] <= 2 => Begun(s) /\ \A a \in Of(s) : BegunOn(s, a)

\* What does not touch a session does not touch its first life.
LEMMA SameFirstLife ==
    ASSUME NEW u \in Sessions, SameOf(u), FirstLife(u)
    PROVE  FirstLife(u)'
BY DEF SameOf, FirstLife, Begun, BegunOn, NoRows, HasRow, Rows

\* Nor does what only changes the phases of its rows.
LEMMA RowsFirstLife ==
    ASSUME NEW s \in Sessions, NEW a \in Of(s), KeepsRows(a), BegunOn(s, a),
           generation'[s] = generation[s], planAddress'[s] = planAddress[s],
           status'[a] = "absent" <=> status[a] = "absent",
           generation[s] = 1 /\ want[a] = "Applied" => status'[a] \notin {"revoking", "revoked"},
           status'[a] \in {"applied", "drifted"} => HasRow(a, "commit"),
           want'[a] = want[a], host'[a] = host[a]
    PROVE  BegunOn(s, a)'
BY DEF KeepsRows, BegunOn, NoRows, HasRow, Rows

\* Requests, and steps that only change the phase.
LEMMA RequestsFirstLife ==
    ASSUME TypeOK, PhaseFits, NEW s \in Sessions, FirstLife(s),
           \/ Create(s) \/ ActivatePaid(s) \/ DeleteUnpaid(s)
           \/ Revoke(s) \/ EnforceQuota(s) \/ Reactivate(s) \/ ReadForHide(s) \/ Hide(s)
           \/ BeginProbing(s) \/ AdvanceToScheduling(s) \/ ScheduleFails(s)
           \/ CompleteProvisioned(s) \/ CompleteRevoked(s)
    PROVE  FirstLife(s)'
<1>. SUFFICES ASSUME generation'[s] <= 2 PROVE Begun(s)' /\ \A a \in Of(s) : BegunOn(s, a)'
  BY DEF FirstLife
<1>1. /\ generation[s] \in Nat \ {0} /\ phase[s] \in SessionPhases
      /\ desired[s] \in {"Active", "Revoked"}
  BY LifecycleAssumption DEF TypeOK
<1>2. /\ UNCHANGED <<jobs, status, want, host, planAddress>>
      /\ generation'[s] = generation[s] \/ generation'[s] = generation[s] + 1
  BY DEF Create, ActivatePaid, DeleteUnpaid, Revoke, EnforceQuota, RequestRevocation, Reactivate,
         ReadForHide, Hide, BeginProbing, AdvanceToScheduling, ScheduleFails,
         CompleteProvisioned, CompleteRevoked, sessionVars, assignmentVars, gateVars, TypeOK
<1>3. Begun(s) /\ \A a \in Of(s) : BegunOn(s, a)
  BY <1>1, <1>2 DEF FirstLife
<1>4. \A a \in Of(s) : BegunOn(s, a)'
  BY <1>1, <1>2, <1>3 DEF BegunOn, NoRows, HasRow, Rows
<1>5. Begun(s)'
  <2>. USE <1>1, <1>2, <1>3 DEF Begun, NoRows, TypeOK
  <2>1. CASE Create(s) \/ ActivatePaid(s) \/ DeleteUnpaid(s)
    BY <2>1 DEF Create, ActivatePaid, DeleteUnpaid, sessionVars
  <2>2. CASE Revoke(s) \/ EnforceQuota(s)
    BY <2>2 DEF Revoke, EnforceQuota, RequestRevocation
  <2>3. CASE Reactivate(s)
    BY <2>3 DEF Reactivate, MayReactivate
  <2>4. CASE ReadForHide(s) \/ Hide(s)
    BY <2>4 DEF ReadForHide, Hide
  <2>5. CASE BeginProbing(s) \/ AdvanceToScheduling(s) \/ ScheduleFails(s)
    BY <2>5 DEF BeginProbing, AdvanceToScheduling, ScheduleFails, sessionVars
  <2>6. CASE CompleteProvisioned(s) \/ CompleteRevoked(s)
    BY <2>6 DEF CompleteProvisioned, CompleteRevoked, Provisioned, sessionVars
  <2>. QED
    BY <2>1, <2>2, <2>3, <2>4, <2>5, <2>6
<1>. QED
  BY <1>4, <1>5

\* A session is scheduled once in its first life: the table is empty before.
LEMMA ScheduleAdds ==
    ASSUME TypeOK, NEW s \in Sessions, FirstLife(s), Schedule(s), generation[s] <= 2
    PROVE  /\ generation[s] = 1
           /\ \A a \in Of(s) : /\ NoRows(a) /\ status[a] = "absent" /\ status'[a] = "queued"
                               /\ AddsRow(a, NewJob("prepare", 1, 0, lease'[s]))
<1>1. generation[s] \in Nat \ {0} /\ desired[s] = "Active" /\ phase[s] = "scheduling"
  BY LifecycleAssumption DEF TypeOK, Schedule
<1>2. generation[s] = 1 /\ \A a \in Of(s) : NoRows(a) /\ status[a] = "absent"
  BY <1>1 DEF FirstLife, Begun, BegunOn
<1>. SUFFICES ASSUME NEW a \in Of(s)
             PROVE  status'[a] = "queued" /\ AddsRow(a, NewJob("prepare", 1, 0, lease'[s]))
  BY <1>2
<1>3. a \in Assignments
  BY OfSession
<1>. DEFINE job == NewJob("prepare", 1, 0, lease'[s])
<1>4. ~ApplyRefused(a, job.op, job.plan, EnsuredStatus(status[a]))
  <2>1. DOMAIN jobs[a] = {}
    BY <1>2, <1>3 DEF NoRows, TypeOK
  <2>. QED
    BY <2>1 DEF ApplyRefused, HasJob
<1>5. jobs'[a] = WithApplyJob(a, job, EnsuredStatus(status[a]))
  BY <1>2, <1>3 DEF Schedule
<1>6. jobs'[a] = Append(jobs[a], job)
  BY <1>4, <1>5 DEF WithApplyJob
<1>7. status'[a] = "queued"
  BY <1>2, <1>3 DEF Schedule, EnsuredStatus
<1>. QED
  BY <1>3, <1>6, <1>7, AppendedRow

\* The first life begins with a plan and one prepare job on each gate.
LEMMA ScheduleFirstLife ==
    ASSUME TypeOK, NEW s \in Sessions, FirstLife(s), Schedule(s)
    PROVE  FirstLife(s)'
<1>. SUFFICES ASSUME generation'[s] <= 2 PROVE Begun(s)' /\ \A a \in Of(s) : BegunOn(s, a)'
  BY DEF FirstLife
<1>1. UNCHANGED <<generation, desired, host>> /\ phase'[s] = "provisioning"
  BY DEF Schedule, sessionVars, gateVars, TypeOK
<1>0. \A a \in Of(s) : a \in Assignments /\ want'[a] = "Applied"
  BY OfSession DEF Schedule
<1>2. /\ generation[s] = 1
      /\ \A a \in Of(s) : /\ NoRows(a) /\ status'[a] = "queued"
                          /\ AddsRow(a, NewJob("prepare", 1, 0, lease'[s]))
  BY <1>1, ScheduleAdds
<1>3. Begun(s) /\ \A a \in Of(s) : BegunOn(s, a)
  BY <1>1, <1>2 DEF FirstLife
<1>4. Begun(s)'
  <2>1. \A a \in Of(s) : ~NoRows(a)'
    BY <1>2 DEF NoRows, AddsRow
  <2>. QED
    BY <1>1, <1>2, <1>3, <2>1 DEF Begun
<1>5. ASSUME NEW a \in Of(s) PROVE BegunOn(s, a)'
  <2>1. Len(jobs'[a]) = 1 /\ jobs'[a][1].op = "prepare"
    <3>1. NewJob("prepare", 1, 0, lease'[s]).op = "prepare"
      BY DEF NewJob
    <3>2. Len(jobs[a]) = 0 /\ AddsRow(a, NewJob("prepare", 1, 0, lease'[s]))
      BY <1>2 DEF NoRows
    <3>. QED
      BY <3>1, <3>2 DEF AddsRow
  <2>. QED
    BY <1>0, <1>1, <1>2, <1>3, <2>1 DEF BegunOn, NoRows, HasRow, Rows
<1>. QED
  BY <1>4, <1>5

\* Commit jobs follow a prepare that was reported, with the plan's address.
LEMMA CommitAdds ==
    ASSUME TypeOK, NEW s \in Sessions, EnqueueCommit(s), NEW a \in Of(s)
    PROVE  /\ status[a] = "prepared" /\ status'[a] = "queued"
           /\ AddsRow(a, NewJob("commit", generation[s], material[<<s, Peer[a[2]]>>], planAddress[s]))
              \/ jobs'[a] = jobs[a]
<1>1. a \in Assignments
  BY OfSession
<1>2. status[a] = "prepared" /\ status'[a] = "queued"
  BY <1>1 DEF EnqueueCommit, ReadyForCommit
<1>. DEFINE job == NewJob("commit", generation[s], material[<<s, Peer[a[2]]>>], planAddress[s])
<1>3. jobs'[a] = WithApplyJob(a, job, status[a])
  BY <1>1 DEF EnqueueCommit
<1>. HIDE DEF job
<1>4. jobs'[a] = jobs[a] \/ jobs'[a] = Append(jobs[a], job)
  BY <1>3 DEF WithApplyJob
<1>5. jobs'[a] = jobs[a] \/ AddsRow(a, job)
  BY <1>1, <1>4, AppendedRow
<1>. QED
  BY <1>2, <1>5 DEF job

\* Commit jobs keep its order.
LEMMA CommitFirstLife ==
    ASSUME TypeOK, PhaseFits, NEW s \in Sessions, FirstLife(s), EnqueueCommit(s)
    PROVE  FirstLife(s)'
<1>. SUFFICES ASSUME generation'[s] <= 2 PROVE Begun(s)' /\ \A a \in Of(s) : BegunOn(s, a)'
  BY DEF FirstLife
<1>1. UNCHANGED <<generation, desired, want, host, phase, planAddress>> /\ phase[s] = "provisioning"
  BY DEF EnqueueCommit, ReadyForCommit, sessionVars, gateVars
<1>2. Begun(s) /\ \A a \in Of(s) : BegunOn(s, a)
  BY <1>1 DEF FirstLife
<1>3. Begun(s)'
  <2>1. \A a \in Of(s) : Len(jobs[a]) \in Nat
    BY OfSession DEF TypeOK
  <2>2. ASSUME NEW a \in Of(s), ~NoRows(a) PROVE ~NoRows(a)'
    <3>. DEFINE job == NewJob("commit", generation[s], material[<<s, Peer[a[2]]>>], planAddress[s])
    <3>1. AddsRow(a, job) \/ jobs'[a] = jobs[a]
      BY CommitAdds
    <3>. HIDE DEF job
    <3>. QED
      BY <2>1, <2>2, <3>1 DEF NoRows, AddsRow
  <2>. QED
    BY <1>1, <1>2, <2>2 DEF Begun
<1>4. ASSUME NEW a \in Of(s) PROVE BegunOn(s, a)'
  <2>1. Len(jobs[a]) \in Nat
    BY OfSession DEF TypeOK
  <2>2. Len(jobs[a]) # 0
    BY <1>2, CommitAdds DEF BegunOn, NoRows
  <2>. DEFINE job == NewJob("commit", generation[s], material[<<s, Peer[a[2]]>>], planAddress[s])
  <2>3. job.op = "commit" /\ job.address = planAddress[s]
    BY DEF NewJob
  <2>4. status'[a] = "queued" /\ (AddsRow(a, job) \/ jobs'[a] = jobs[a])
    BY CommitAdds
  <2>. HIDE DEF job
  <2>5. BegunOn(s, a)
    BY <1>2
  <2>6. \/ Len(jobs'[a]) = Len(jobs[a]) /\ jobs'[a] = jobs[a]
        \/ /\ Len(jobs'[a]) = Len(jobs[a]) + 1 /\ jobs'[a][Len(jobs[a]) + 1] = job
           /\ \A i \in 1..Len(jobs[a]) : jobs'[a][i] = jobs[a][i]
    BY <2>4 DEF AddsRow, Rows
  <2>7. ~NoRows(a) /\ ~NoRows(a)'
    BY <2>1, <2>2, <2>6 DEF NoRows
  <2>8. generation[s] = 1 /\ want[a] = "Applied" => ~HasRow(a, "revoke")'
    <3>1. HasRow(a, "revoke")' => HasRow(a, "revoke")
      BY <2>1, <2>3, <2>6 DEF HasRow, Rows
    <3>. QED
      BY <2>5, <3>1 DEF BegunOn
  <2>9. ASSUME NEW i \in 1..Len(jobs'[a])
        PROVE  /\ jobs'[a][i].op = "prepare" => i = 1
               /\ jobs'[a][i].op = "commit" => jobs'[a][i].address = planAddress[s]
    <3>1. CASE i \in 1..Len(jobs[a]) /\ jobs'[a][i] = jobs[a][i]
      BY <2>5, <3>1 DEF BegunOn, Rows
    <3>2. CASE jobs'[a][i] = job
      BY <2>3, <3>2
    <3>. QED
      BY <2>1, <2>6, <3>1, <3>2
  <2>. QED
    <3>1. planAddress' = planAddress /\ generation' = generation /\ want' = want /\ Rows(a)' = 1..Len(jobs'[a])
      BY <1>1 DEF Rows
    <3>2. \A i \in Rows(a)' : /\ jobs'[a][i].op = "prepare" => i = 1
                              /\ jobs'[a][i].op = "commit" => jobs'[a][i].address = planAddress'[s]
      BY <2>9, <3>1
    <3>3. generation'[s] = 1 /\ want'[a] = "Applied" => ~HasRow(a, "revoke")'
      BY <2>8, <3>1
    <3>4. status'[a] \notin {"absent", "applied", "drifted", "revoking", "revoked"}
      BY <2>4
    <3>5. host'[a].stage = "committed" => host'[a].address = planAddress'[s] /\ HasRow(a, "commit")'
      <4>1. HasRow(a, "commit") => HasRow(a, "commit")'
        BY <2>1, <2>6 DEF HasRow, Rows
      <4>. QED
        BY <1>1, <2>5, <4>1 DEF BegunOn
    <3>6. ~NoRows(a)'
      BY <2>7
    <3>. QED
      BY ONLY <3>2, <3>3, <3>4, <3>5, <3>6 DEF BegunOn
<1>. QED
  BY <1>3, <1>4

\* A revocation appends at most a revoke job, and none where there was no job.
LEMMA RevocationAdds ==
    ASSUME TypeOK, NEW s \in Sessions, EnqueueRevocation(s), NEW a \in Of(s)
    PROVE  /\ jobs'[a] = jobs[a] \/ AddsRow(a, NewJob("revoke", 0, 0, NoAddress))
           /\ status[a] = "absent" => jobs'[a] = jobs[a]
           /\ status'[a] = "absent" <=> status[a] = "absent"
           /\ status'[a] \in {"revoking", status[a]}
           /\ status[a] = "absent" => want'[a] = want[a]
<1>1. a \in Assignments
  BY OfSession
<1>2. CASE a \in ToRevoke(s)
  BY <1>1, <1>2, AppendedRow DEF EnqueueRevocation, WithRevokeJob, ToRevoke
<1>3. CASE a \notin ToRevoke(s)
  BY <1>1, <1>3 DEF EnqueueRevocation
<1>. QED
  BY <1>2, <1>3

\* So do revoke jobs.
LEMMA RevocationFirstLife ==
    ASSUME TypeOK, PhaseFits, NEW s \in Sessions, FirstLife(s), EnqueueRevocation(s)
    PROVE  FirstLife(s)'
<1>. SUFFICES ASSUME generation'[s] <= 2 PROVE Begun(s)' /\ \A a \in Of(s) : BegunOn(s, a)'
  BY DEF FirstLife
<1>1. UNCHANGED <<generation, desired, host, phase, planAddress>> /\ desired[s] = "Revoked"
  BY DEF EnqueueRevocation, sessionVars, gateVars
<1>2. Begun(s) /\ \A a \in Of(s) : BegunOn(s, a)
  BY <1>1 DEF FirstLife
<1>3. Begun(s)' /\ generation[s] # 1
  <2>1. \A a \in Of(s) : Len(jobs[a]) \in Nat
    BY OfSession DEF TypeOK
  <2>2. \A a \in Of(s) : ~NoRows(a) => ~NoRows(a)'
    BY <2>1, RevocationAdds DEF NoRows, AddsRow
  <2>. QED
    BY <1>1, <1>2, <2>2 DEF Begun
<1>4. ASSUME NEW a \in Of(s) PROVE BegunOn(s, a)'
  <2>1. Len(jobs[a]) \in Nat
    BY OfSession DEF TypeOK
  <2>. DEFINE job == NewJob("revoke", 0, 0, NoAddress)
  <2>2. job.op = "revoke"
    BY DEF NewJob
  <2>3. /\ jobs'[a] = jobs[a] \/ AddsRow(a, job)
        /\ status[a] = "absent" => jobs'[a] = jobs[a]
        /\ status'[a] = "absent" <=> status[a] = "absent"
        /\ status[a] = "absent" => want'[a] = want[a]
        /\ status'[a] \in {"revoking", status[a]}
    BY RevocationAdds
  <2>. HIDE DEF job
  <2>. QED
    BY <1>1, <1>2, <1>3, <2>1, <2>2, <2>3 DEF BegunOn, AddsRow, NoRows, HasRow, Rows
<1>. QED
  BY <1>3, <1>4

\* A timeout takes no row away.
LEMMA TimeoutFirstLife ==
    ASSUME TypeOK, PhaseFits, NEW s \in Sessions, FirstLife(s), FailTimedOut(s)
    PROVE  FirstLife(s)'
<1>. SUFFICES ASSUME generation'[s] <= 2 PROVE Begun(s)' /\ \A a \in Of(s) : BegunOn(s, a)'
  BY DEF FirstLife
<1>1. UNCHANGED <<generation, desired, want, host, planAddress>> /\ phase[s] = "provisioning" /\ phase'[s] = "failed"
  BY DEF FailTimedOut, sessionVars, gateVars, TypeOK
<1>2. Begun(s) /\ \A a \in Of(s) : BegunOn(s, a)
  BY <1>1 DEF FirstLife
<1>3. Begun(s)'
  BY <1>1, <1>2 DEF Begun
<1>4. ASSUME NEW a \in Of(s) PROVE BegunOn(s, a)'
  <2>1. a \in Assignments
    BY OfSession
  <2>2. KeepsRows(a) /\ status'[a] \in {status[a], "dead"} /\ (status'[a] = "absent" <=> status[a] = "absent")
    BY <2>1, KilledRows DEF FailTimedOut
  <2>3. /\ generation[s] = 1 /\ want[a] = "Applied" => status'[a] \notin {"revoking", "revoked"}
        /\ status'[a] \in {"applied", "drifted"} => HasRow(a, "commit")
    BY <1>2, <2>2 DEF BegunOn
  <2>. QED
    BY <1>1, <1>2, <2>2, <2>3, RowsFirstLife
<1>. QED
  BY <1>3, <1>4

\* What the steps of leases and agents do to an assignment.

\* An expired lease changes the phase of one row.
LEMMA ExpireEffect ==
    ASSUME TypeOK, NEW a \in Assignments, ExpireLease(a)
    PROVE  /\ \A b \in Assignments : KeepsRows(b) /\ KeepsSuccess(b)
           /\ \A b \in Assignments \ {a} : jobs'[b] = jobs[b]
           /\ UNCHANGED <<sessionVars, phase, lease, planAddress, artifact, assignmentVars, gateVars>>
<1>1. PICK i \in DOMAIN jobs[a] :
        jobs[a][i].phase = "leased" /\ jobs' = [jobs EXCEPT ![a][i].phase = "queued"]
  BY DEF ExpireLease
<1>2. UNCHANGED <<sessionVars, phase, lease, planAddress, artifact, assignmentVars, gateVars>>
  BY DEF ExpireLease
<1>. QED
  BY <1>1, <1>2, RephasedRow

\* The task an agent has claimed.
ClaimedTask(a, i) == [a |-> a, i |-> i, result |-> "running", key |-> 0]

\* A claim changes the phase of one row that is not done, and the agent holds it.
LEMMA ClaimEffect ==
    ASSUME TypeOK, NEW r \in Roles, Claim(r)
    PROVE  \E s \in Sessions : \E i \in Rows(<<s, r>>) :
             LET a == <<s, r>> IN
             /\ \A b \in Assignments : KeepsRows(b) /\ KeepsSuccess(b)
             /\ \A b \in Assignments \ {a} : jobs'[b] = jobs[b] /\ status'[b] = status[b]
             /\ jobs[a][i].phase # "succeeded"
             /\ status'[a] = LeasedStatus(status[a], jobs[a][i].op)
             /\ worker' = [worker EXCEPT ![r] = {ClaimedTask(a, i)}]
             /\ UNCHANGED <<sessionVars, phase, lease, planAddress, artifact, want, plan, material, host, late, faults>>
<1>1. PICK s \in Sessions : \E i \in DOMAIN jobs[<<s, r>>] :
        /\ Claimable(<<s, r>>, i)
        /\ jobs' = [jobs EXCEPT ![<<s, r>>][i].phase = "leased"]
        /\ status' = [status EXCEPT ![<<s, r>>] = LeasedStatus(@, jobs[<<s, r>>][i].op)]
        /\ worker' = [worker EXCEPT ![r] = {[a |-> <<s, r>>, i |-> i, result |-> "running", key |-> 0]}]
  BY DEF Claim
<1>. DEFINE a == <<s, r>>
<1>2. PICK i \in DOMAIN jobs[a] :
        /\ Claimable(a, i)
        /\ jobs' = [jobs EXCEPT ![a][i].phase = "leased"]
        /\ status' = [status EXCEPT ![a] = LeasedStatus(@, jobs[a][i].op)]
        /\ worker' = [worker EXCEPT ![r] = {[a |-> a, i |-> i, result |-> "running", key |-> 0]}]
  BY <1>1
<1>3. a \in Assignments
  BY DEF Assignments
<1>4. i \in Rows(a)
  BY <1>2, <1>3 DEF Rows, TypeOK
<1>5. jobs[a][i].phase # "succeeded"
  BY <1>2 DEF Claimable
<1>6. /\ \A b \in Assignments : KeepsRows(b) /\ KeepsSuccess(b)
      /\ \A b \in Assignments \ {a} : jobs'[b] = jobs[b]
  BY <1>2, <1>3, <1>5, RephasedRow
<1>7. /\ status'[a] = LeasedStatus(status[a], jobs[a][i].op)
      /\ \A b \in Assignments \ {a} : status'[b] = status[b]
  BY <1>2, <1>3 DEF TypeOK
<1>8. UNCHANGED <<sessionVars, phase, lease, planAddress, artifact, want, plan, material, host, late, faults>>
  BY DEF Claim
<1>9. worker' = [worker EXCEPT ![r] = {ClaimedTask(a, i)}]
  BY <1>2 DEF ClaimedTask
<1>. QED
  BY <1>4, <1>5, <1>6, <1>7, <1>8, <1>9

\* The task an agent holds is of a row of the table.
LEMMA TaskHeld ==
    ASSUME Typed, NEW r \in Roles, NEW t \in worker[r]
    PROVE  t \in Task /\ t.a \in Assignments /\ t.i \in Rows(t.a) /\ jobs[t.a][t.i] \in Job
<1>1. t \in Task /\ t.i \in 1..Len(jobs[t.a])
  BY DEF Typed, TypeOK, TasksHaveJobs
<1>2. t.a \in Assignments
  BY <1>1 DEF Task
<1>3. jobs[t.a] \in Seq(Job)
  BY <1>2 DEF Typed, TypeOK
<1>. QED
  BY <1>1, <1>2, <1>3 DEF Rows

\* So is one whose report is late.
LEMMA TaskLate ==
    ASSUME Typed, NEW t \in late
    PROVE  t \in Task /\ t.a \in Assignments /\ t.i \in Rows(t.a) /\ jobs[t.a][t.i] \in Job
<1>1. t \in Task /\ t.i \in 1..Len(jobs[t.a])
  BY DEF Typed, TypeOK, TasksHaveJobs
<1>2. t.a \in Assignments
  BY <1>1 DEF Task
<1>3. jobs[t.a] \in Seq(Job)
  BY <1>2 DEF Typed, TypeOK
<1>. QED
  BY <1>1, <1>2, <1>3 DEF Rows

\* The task after its job was executed.
DoneTask(t, key) == [t EXCEPT !.result = "succeeded", !.key = key]

\* Executing a job changes one host.
LEMMA ExecuteEffect ==
    ASSUME Typed, NEW r \in Roles, Execute(r)
    PROVE  \E t \in worker[r] :
             LET job == jobs[t.a][t.i] IN
             /\ t.result = "running"
             /\ job.op = "commit" => CanCommit(host[t.a])
             /\ host'[t.a] = Executed(host[t.a], job)
             /\ \A b \in Assignments \ {t.a} : host'[b] = host[b]
             /\ worker' = [worker EXCEPT ![r] = {DoneTask(t, host'[t.a].key)}]
             /\ UNCHANGED <<sessionVars, phase, lease, planAddress, artifact, assignmentVars, jobs, late, faults>>
<1>1. PICK t \in worker[r] :
        /\ t.result = "running"
        /\ jobs[t.a][t.i].op = "commit" => CanCommit(host[t.a])
        /\ host' = [host EXCEPT ![t.a] = Executed(@, jobs[t.a][t.i])]
        /\ worker' = [worker EXCEPT ![r] = {[t EXCEPT !.result = "succeeded", !.key = host'[t.a].key]}]
        /\ UNCHANGED <<sessionVars, phase, lease, planAddress, artifact, assignmentVars, jobs, late, faults>>
  BY DEF Execute
<1>2. t.a \in Assignments
  BY TaskHeld
<1>3. /\ host'[t.a] = Executed(host[t.a], jobs[t.a][t.i])
      /\ \A b \in Assignments \ {t.a} : host'[b] = host[b]
  BY <1>1, <1>2 DEF Typed, TypeOK
<1>. QED
  BY <1>1, <1>3 DEF DoneTask

\* Failing, timing out and dying change no row, status or host.
LEMMA DroppedEffect ==
    ASSUME Typed, NEW r \in Roles, ExecuteFails(r) \/ ReportTimesOut(r) \/ AgentDies(r)
    PROVE  /\ UNCHANGED <<sessionVars, phase, lease, planAddress, artifact, assignmentVars, jobs, host>>
           /\ \A q \in Roles : \A t \in worker'[q] :
                \E v \in worker[q] : t = v \/ t = [v EXCEPT !.result = "retryable_failed"]
           /\ \A t \in late' : t \in late \/ t \in worker[r]
           /\ ~MayBeLate => late' = late
<1>1. CASE ExecuteFails(r)
  <2>1. PICK t \in worker[r] :
          /\ worker' = [worker EXCEPT ![r] = {[t EXCEPT !.result = "retryable_failed"]}]
          /\ UNCHANGED <<sessionVars, phase, lease, planAddress, artifact, assignmentVars, jobs, host, late>>
    BY <1>1 DEF ExecuteFails
  <2>. DEFINE u == [t EXCEPT !.result = "retryable_failed"]
  <2>2. worker' = [worker EXCEPT ![r] = {u}] /\ worker \in [Roles -> SUBSET Task]
    BY <2>1 DEF Typed, TypeOK
  <2>3. ASSUME NEW q \in Roles, NEW v \in worker'[q] PROVE v \in worker[q] \/ (q = r /\ v = u)
    <3>. HIDE DEF u
    <3>. QED
      BY <2>2, <2>3
  <2>4. \A q \in Roles : \A v \in worker'[q] :
          \E w \in worker[q] : v = w \/ v = [w EXCEPT !.result = "retryable_failed"]
    BY <2>3
  <2>. QED
    BY <2>1, <2>4
<1>2. CASE ReportTimesOut(r)
  BY <1>2 DEF ReportTimesOut, Typed, TypeOK
<1>3. CASE AgentDies(r)
  BY <1>3 DEF AgentDies, Typed, TypeOK
<1>. QED
  BY <1>1, <1>2, <1>3

\* A report is of a task that an agent held; it is held no more.
LEMMA ReportEffect ==
    ASSUME Typed, LateReport \/ \E r \in Roles : Report(r)
    PROVE  \E t \in Task :
             /\ t \in late \/ \E r \in Roles : t \in worker[r] /\ worker'[r] = {}
             /\ t \in late \/ t.result # "running"
             /\ t.a \in Assignments /\ t.i \in Rows(t.a) /\ Record(t)
             /\ \A r \in Roles : worker'[r] \subseteq worker[r]
             /\ late' \subseteq late
             /\ UNCHANGED <<sessionVars, phase, lease, planAddress, artifact, want, plan, host, faults>>
<1>1. CASE LateReport
  <2>1. PICK t \in late : Record(t) /\ late' = late \ {t}
              /\ UNCHANGED <<sessionVars, phase, lease, planAddress, artifact, want, plan, host, worker, faults>>
    BY <1>1 DEF LateReport
  <2>. QED
    BY <2>1, TaskLate
<1>2. ASSUME NEW r \in Roles, Report(r)
      PROVE  \E t \in Task :
             /\ \E q \in Roles : t \in worker[q] /\ worker'[q] = {}
             /\ t.result # "running"
             /\ t.a \in Assignments /\ t.i \in Rows(t.a) /\ Record(t)
             /\ \A q \in Roles : worker'[q] \subseteq worker[q]
             /\ late' \subseteq late
             /\ UNCHANGED <<sessionVars, phase, lease, planAddress, artifact, want, plan, host, faults>>
  <2>1. PICK t \in worker[r] : t.result # "running" /\ Record(t) /\ worker' = [worker EXCEPT ![r] = {}]
              /\ UNCHANGED <<sessionVars, phase, lease, planAddress, artifact, want, plan, host, late, faults>>
    BY <1>2 DEF Report
  <2>2. worker'[r] = {} /\ \A q \in Roles : worker'[q] \subseteq worker[q]
    BY <2>1 DEF Typed, TypeOK
  <2>. QED
    BY <2>1, <2>2, TaskHeld
<1>. QED
  BY <1>1, <1>2

\* The status after a report names what was done.
LEMMA ReportedStatusSays ==
    ASSUME NEW job \in Job, NEW ok \in BOOLEAN
    PROVE  /\ ReportedStatus(job, ok) = "prepared" => ok /\ job.op = "prepare"
           /\ ReportedStatus(job, ok) = "applied" => ok /\ job.op = "commit"
           /\ ReportedStatus(job, ok) = "revoked" => ok /\ job.op = "revoke"
           /\ ReportedStatus(job, ok) \notin {"absent", "revoking", "drifted"}
<1>1. CASE ok /\ job.op = "prepare"
  BY <1>1 DEF ReportedStatus
<1>2. CASE ok /\ job.op = "commit"
  BY <1>2 DEF ReportedStatus
<1>3. CASE ok /\ job.op = "revoke"
  BY <1>3 DEF ReportedStatus
<1>4. CASE ~ok
  BY <1>4 DEF ReportedStatus
<1>. QED
  BY <1>1, <1>2, <1>3, <1>4 DEF Job, Operations

\* What a report writes to the row of its assignment.
LEMMA RecordEffect ==
    ASSUME Typed, NEW t \in Task, t.i \in Rows(t.a), Record(t)
    PROVE  LET a == t.a
               job == jobs[a][t.i] IN
           /\ status'[a] = "prepared" => t.result = "succeeded" /\ job.op = "prepare"
           /\ status'[a] = "applied" => t.result = "succeeded" /\ job.op = "commit"
           /\ status'[a] = "revoked" => t.result = "succeeded" /\ job.op = "revoke"
           /\ status'[a] \notin {"absent", "revoking", "drifted"}
           /\ material'[a] = IF t.result = "succeeded" /\ job.op = "prepare" THEN t.key ELSE material[a]
<1>. DEFINE a == t.a
            job == jobs[a][t.i]
            ok == t.result = "succeeded"
<1>1. a \in Assignments
  BY DEF Task
<1>2. job \in Job
  <2>1. jobs[a] \in Seq(Job)
    BY <1>1 DEF Typed, TypeOK
  <2>. QED
    BY <2>1 DEF Rows
<1>3. status'[a] = ReportedStatus(job, ok)
  BY <1>1 DEF Record, Typed, TypeOK
<1>4. material'[a] = IF ok /\ job.op = "prepare" THEN t.key ELSE material[a]
  BY <1>1 DEF Record, Typed, TypeOK
<1>5. ok \in BOOLEAN
  OBVIOUS
<1>. HIDE DEF job
<1>6. /\ ReportedStatus(job, ok) = "prepared" => ok /\ job.op = "prepare"
      /\ ReportedStatus(job, ok) = "applied" => ok /\ job.op = "commit"
      /\ ReportedStatus(job, ok) = "revoked" => ok /\ job.op = "revoke"
      /\ ReportedStatus(job, ok) \notin {"absent", "revoking", "drifted"}
  BY <1>2, <1>5, ReportedStatusSays
<1>. QED
  BY <1>3, <1>4, <1>6 DEF job

-----------------------------------------------------------------------------
\* What leases and agents do stays within the order of the first life.
LEMMA AgentsFirstLife ==
    ASSUME Typed, NEW s \in Sessions, FirstLife(s),
           \/ \E a \in Assignments : ExpireLease(a)
           \/ \E r \in Roles : \/ Claim(r) \/ Execute(r) \/ ExecuteFails(r)
                             \/ Report(r) \/ ReportTimesOut(r) \/ AgentDies(r)
           \/ LateReport
    PROVE  FirstLife(s)'
<1>1. UNCHANGED <<desired, generation, phase, lease, planAddress, artifact>>
  BY GatesKeepSessions DEF sessionVars
<1>. SUFFICES ASSUME generation[s] <= 2, Begun(s), \A a \in Of(s) : BegunOn(s, a), NEW a \in Of(s)
             PROVE  (NoRows(a)' <=> NoRows(a)) /\ BegunOn(s, a)'
  BY <1>1 DEF FirstLife, Begun
<1>2. a \in Assignments /\ BegunOn(s, a)
  BY OfSession
<1>3. TypeOK
  BY DEF Typed
<1>. DEFINE Says == /\ status'[a] = "absent" <=> status[a] = "absent"
                    /\ generation[s] = 1 /\ want[a] = "Applied" => status'[a] \notin {"revoking", "revoked"}
                    /\ status'[a] \in {"applied", "drifted"} => HasRow(a, "commit")
            Fits == KeepsRows(a) /\ Says /\ want'[a] = want[a] /\ host'[a] = host[a]
<1>9. Fits => (NoRows(a)' <=> NoRows(a)) /\ BegunOn(s, a)'
  <2>1. KeepsRows(a) => (NoRows(a)' <=> NoRows(a))
    BY DEF KeepsRows, NoRows
  <2>. QED
    BY <1>1, <1>2, <2>1, RowsFirstLife
<1>10. status'[a] = status[a] => Says
  BY <1>2 DEF BegunOn
<1>. HIDE DEF Says
<1>4. ASSUME NEW b \in Assignments, ExpireLease(b) PROVE Fits
  BY <1>2, <1>3, <1>4, <1>10, ExpireEffect DEF assignmentVars, gateVars
<1>5. ASSUME NEW r \in Roles, Claim(r) PROVE Fits
  <2>1. PICK u \in Sessions : \E i \in Rows(<<u, r>>) :
             /\ \A b \in Assignments : KeepsRows(b)
             /\ \A b \in Assignments \ {<<u, r>>} : status'[b] = status[b]
             /\ status'[<<u, r>>] = LeasedStatus(status[<<u, r>>], jobs[<<u, r>>][i].op)
             /\ host' = host /\ want' = want
    BY <1>3, <1>5, ClaimEffect
  <2>2. ASSUME a = <<u, r>> PROVE Says
    <3>1. PICK i \in Rows(a) : status'[a] = LeasedStatus(status[a], jobs[a][i].op)
      BY <2>1, <2>2
    <3>2. ~NoRows(a)
      BY <1>2, <3>1 DEF NoRows, Rows
    <3>3. status[a] # "absent"
      BY <1>2, <3>2 DEF BegunOn
    <3>4. status'[a] # "absent"
      BY <3>1, <3>3 DEF LeasedStatus
    <3>5. status'[a] \in {"applied", "drifted"} => status'[a] = status[a]
      BY <3>1 DEF LeasedStatus
    <3>6. status'[a] \in {"revoking", "revoked"} => status'[a] = status[a] \/ HasRow(a, "revoke")
      BY <3>1 DEF LeasedStatus, HasRow
    <3>. QED
      BY <1>2, <3>3, <3>4, <3>5, <3>6 DEF BegunOn, Says
  <2>. QED
    BY <1>2, <1>10, <2>1, <2>2
<1>6. ASSUME NEW t \in Task, t.a \in Assignments, t.i \in Rows(t.a), Record(t), host' = host, want' = want
      PROVE  Fits
  <2>1. KeepsRows(a) /\ (a # t.a => status'[a] = status[a])
    BY <1>2, <1>6, RecordedRow DEF Rows
  <2>2. ASSUME a = t.a PROVE Says
    <3>1. status[a] # "absent"
      BY <1>2, <1>6, <2>2 DEF BegunOn, NoRows, Rows
    <3>2. /\ status'[a] = "applied" => HasRow(a, "commit")
          /\ status'[a] = "revoked" => HasRow(a, "revoke")
          /\ status'[a] \notin {"absent", "revoking", "drifted"}
      BY <1>6, <2>2, RecordEffect DEF HasRow
    <3>. QED
      BY <1>2, <3>1, <3>2 DEF BegunOn, Says
  <2>. QED
    BY <1>6, <1>10, <2>1, <2>2
<1>7. ASSUME NEW r \in Roles, Execute(r) PROVE NoRows(a)' = NoRows(a) /\ BegunOn(s, a)'
  <2>1. PICK t \in worker[r] :
             /\ host'[t.a] = Executed(host[t.a], jobs[t.a][t.i])
             /\ \A b \in Assignments \ {t.a} : host'[b] = host[b]
             /\ jobs' = jobs /\ status' = status /\ want' = want
    BY <1>7, ExecuteEffect DEF assignmentVars
  <2>2. t.a \in Assignments /\ t.i \in Rows(t.a) /\ jobs[t.a][t.i] \in Job
    BY TaskHeld
  <2>3. CASE a # t.a
    BY <1>1, <1>2, <2>1, <2>3 DEF BegunOn, NoRows, HasRow, Rows
  <2>4. CASE a = t.a
    <3>1. ~NoRows(a)
      BY <1>2, <2>2, <2>4 DEF NoRows, Rows
    <3>2. host'[a].stage = "committed" => host'[a].address = planAddress[s] /\ HasRow(a, "commit")
      <4>1. host[a] \in Host
        BY <1>2, <1>3 DEF TypeOK
      <4>. DEFINE job == jobs[a][t.i]
      <4>2. CASE job.op = "prepare"
        BY <1>2, <2>1, <2>4, <4>1, <4>2 DEF Executed, Prepared, BegunOn, Host
      <4>3. CASE job.op = "commit"
        <5>1. host'[a].address = job.address
          BY <2>1, <2>4, <4>1, <4>3 DEF Executed, Committed, Host
        <5>. QED
          BY <2>2, <2>4, <4>3, <5>1 DEF BegunOn, HasRow
      <4>4. CASE job.op = "revoke"
        BY <2>1, <2>4, <4>1, <4>4 DEF Executed, Torn, Host
      <4>. QED
        BY <2>2, <2>4, <4>2, <4>3, <4>4 DEF Job, Operations
    <3>. QED
      BY <1>1, <2>1, <3>1, <3>2 DEF BegunOn, NoRows, HasRow, Rows
  <2>. QED
    BY <2>3, <2>4
<1>8. ASSUME NEW r \in Roles, ExecuteFails(r) \/ ReportTimesOut(r) \/ AgentDies(r) PROVE Fits
  <2>1. jobs' = jobs /\ status' = status /\ want' = want /\ host' = host
    BY <1>8, DroppedEffect DEF assignmentVars
  <2>2. KeepsRows(a)
    BY <2>1 DEF KeepsRows
  <2>. QED
    BY <1>10, <2>1, <2>2
<1>11. CASE LateReport \/ \E r \in Roles : Report(r)
  <2>1. PICK t \in Task : t.a \in Assignments /\ t.i \in Rows(t.a) /\ Record(t) /\ host' = host /\ want' = want
    BY <1>11, ReportEffect
  <2>. QED
    BY <1>6, <1>9, <2>1
<1>. QED
  BY <1>4, <1>5, <1>7, <1>8, <1>9, <1>11

\* Every session is in its first life, or past it.
FirstLives == \A s \in Sessions : FirstLife(s)

\* Every step keeps it.
LEMMA FirstLivesKept == Typed /\ PhaseFits /\ FirstLives /\ [Next]_vars => FirstLives'
<1>. SUFFICES ASSUME Typed, PhaseFits, FirstLives, [Next]_vars, NEW u \in Sessions
             PROVE  FirstLife(u)'
  BY DEF FirstLives
<1>0. TypeOK /\ \A s \in Sessions : FirstLife(s)
  BY DEF Typed, FirstLives
<1>1. CASE UNCHANGED vars
  <2>1. SameOf(u)
    BY <1>1 DEF SameOf, vars, sessionVars, assignmentVars, gateVars
  <2>. QED
    BY <1>0, <2>1, SameFirstLife
<1>2. ASSUME NEW s \in Sessions,
             SessionStep(s)
      PROVE  FirstLife(u)'
  <2>1. CASE u # s
    BY <1>0, <1>2, <2>1, HandlersStayInSession, SameFirstLife
  <2>2. CASE u = s
    BY <1>0, <1>2, <2>2, RequestsFirstLife, ScheduleFirstLife, CommitFirstLife, RevocationFirstLife,
       TimeoutFirstLife
  <2>. QED
    BY <2>1, <2>2
<1>. QED
  BY <1>0, <1>1, <1>2, AgentsFirstLife DEF Next

\* Every session lives its first life in order, whatever fails, times out or is late.
LEMMA LifecycleFirstLives == Spec => []FirstLives
<1>1. Init => FirstLives
  BY DEF Init, FirstLives, FirstLife, Begun, BegunOn, NoRows, HasRow, Rows, Of, Assignments
<1>. QED
  BY <1>1, FirstLivesKept, LifecycleTyped, LifecyclePhaseFits, PTL DEF Spec

\* The keys of a session's first tunnel.

\* Rows stay where they are and keep their operation; they are done or not as before,
\* have as many attempts left, and new ones have all.
RowsStay(a) == \A i \in Rows(a) : i \in Rows(a)' /\ jobs'[a][i].op = jobs[a][i].op

RowsLast(a) ==
    /\ RowsStay(a)
    /\ \A i \in Rows(a) : /\ jobs'[a][i].phase = "succeeded" <=> jobs[a][i].phase = "succeeded"
                          /\ jobs'[a][i].retries = jobs[a][i].retries
    /\ \A i \in Rows(a)' \ Rows(a) : jobs'[a][i].retries = 0

\* Steps that rephase or add rows let the others stay.
LEMMA RowsOfStep ==
    ASSUME TypeOK, NEW a \in Assignments,
           KeepsRows(a) \/ jobs'[a] = jobs[a] \/ \E job : AddsRow(a, job)
    PROVE  RowsStay(a)
<1>1. Len(jobs[a]) \in Nat
  BY DEF TypeOK
<1>. QED
  BY <1>1 DEF RowsStay, KeepsRows, AddsRow, Rows

\* They complete none either, if no row succeeds in them.
LEMMA RowsLastOfStep ==
    ASSUME TypeOK, NEW a \in Assignments,
           (KeepsRows(a) /\ KeepsSuccess(a)) \/ jobs'[a] = jobs[a] \/ \E job : AddsRow(a, job) /\ job.retries = 0
    PROVE  RowsLast(a)
<1>1. RowsStay(a)
  BY RowsOfStep
<1>2. Len(jobs[a]) \in Nat
  BY DEF TypeOK
<1>. QED
  BY <1>1, <1>2 DEF RowsLast, KeepsRows, KeepsSuccess, AddsRow, Rows

\* The handlers of sessions take no row away, complete no job and leave the gates alone.
LEMMA HandlersKeepRows ==
    ASSUME TypeOK, NEW s \in Sessions,
           SessionStep(s)
    PROVE  /\ UNCHANGED gateVars
           /\ \A a \in Assignments : RowsLast(a)
<1>1. UNCHANGED gateVars
  BY DEF Create, ActivatePaid, DeleteUnpaid, Revoke, EnforceQuota, RequestRevocation, Reactivate,
         ReadForHide, Hide, BeginProbing, AdvanceToScheduling, ScheduleFails, Schedule, EnqueueCommit,
         CompleteProvisioned, FailTimedOut, EnqueueRevocation, CompleteRevoked
<1>. SUFFICES ASSUME NEW a \in Assignments
             PROVE \/ KeepsRows(a) /\ KeepsSuccess(a)
                   \/ jobs'[a] = jobs[a]
                   \/ \E job : AddsRow(a, job) /\ job.retries = 0
  BY <1>1, RowsLastOfStep
<1>2. CASE a \notin Of(s)
  <2>1. a \in Of(a[1]) /\ a[1] \in Sessions \ {s}
    BY <1>2 DEF Of, Assignments
  <2>. QED
    BY <2>1, HandlersStayInSession DEF SameOf
<1>3. ASSUME a \in Of(s), Schedule(s) PROVE jobs'[a] = jobs[a] \/ \E job : AddsRow(a, job) /\ job.retries = 0
  <2>. DEFINE job == NewJob("prepare", generation[s], 0, lease'[s])
  <2>1. jobs'[a] = WithApplyJob(a, job, EnsuredStatus(status[a]))
    BY <1>3 DEF Schedule
  <2>2. job.retries = 0
    BY DEF NewJob
  <2>. HIDE DEF job
  <2>. QED
    BY <2>1, <2>2, AppendedRow DEF WithApplyJob
<1>4. ASSUME a \in Of(s), EnqueueCommit(s) PROVE jobs'[a] = jobs[a] \/ \E job : AddsRow(a, job) /\ job.retries = 0
  <2>. DEFINE job == NewJob("commit", generation[s], material[<<s, Peer[a[2]]>>], planAddress[s])
  <2>1. AddsRow(a, job) \/ jobs'[a] = jobs[a]
    BY <1>4, CommitAdds
  <2>2. job.retries = 0
    BY DEF NewJob
  <2>. HIDE DEF job
  <2>. QED
    BY <2>1, <2>2
<1>5. ASSUME a \in Of(s), EnqueueRevocation(s) PROVE jobs'[a] = jobs[a] \/ \E job : AddsRow(a, job) /\ job.retries = 0
  BY <1>5, RevocationAdds DEF NewJob
<1>6. ASSUME a \in Of(s), FailTimedOut(s) PROVE KeepsRows(a) /\ KeepsSuccess(a)
  BY <1>6, KilledRows DEF FailTimedOut
<1>7. ASSUME ~Schedule(s), ~EnqueueCommit(s), ~EnqueueRevocation(s), ~FailTimedOut(s)
      PROVE  jobs' = jobs
  BY <1>7 DEF Create, ActivatePaid, DeleteUnpaid, Revoke, EnforceQuota, RequestRevocation, Reactivate,
         ReadForHide, Hide, BeginProbing, AdvanceToScheduling, ScheduleFails, CompleteProvisioned,
         CompleteRevoked
<1>. QED
  BY <1>2, <1>3, <1>4, <1>5, <1>6, <1>7

\* Generations only grow, one by one.
LEMMA GenerationGrows ==
    ASSUME TypeOK, NEW s \in Sessions, [Next]_vars
    PROVE  /\ generation[s] \in Nat \ {0}
           /\ generation'[s] \in {generation[s], generation[s] + 1}
<1>1. generation[s] \in Nat \ {0}
  BY LifecycleAssumption DEF TypeOK
<1>2. ASSUME NEW u \in Sessions,
             \/ Create(u) \/ ActivatePaid(u) \/ DeleteUnpaid(u) \/ ReadForHide(u) \/ Hide(u)
             \/ BeginProbing(u) \/ AdvanceToScheduling(u) \/ ScheduleFails(u) \/ Schedule(u)
             \/ EnqueueCommit(u) \/ CompleteProvisioned(u) \/ FailTimedOut(u)
             \/ EnqueueRevocation(u) \/ CompleteRevoked(u)
      PROVE  UNCHANGED generation
  BY <1>2 DEF Create, ActivatePaid, DeleteUnpaid, ReadForHide, Hide, BeginProbing,
         AdvanceToScheduling, ScheduleFails, Schedule, EnqueueCommit, CompleteProvisioned,
         FailTimedOut, EnqueueRevocation, CompleteRevoked, sessionVars
<1>3. ASSUME NEW u \in Sessions, Revoke(u) \/ EnforceQuota(u) \/ Reactivate(u)
      PROVE  generation'[s] \in {generation[s], generation[s] + 1}
  <2>1. generation' = [generation EXCEPT ![u] = @ + 1]
    BY <1>3 DEF Revoke, EnforceQuota, RequestRevocation, Reactivate
  <2>. QED
    BY <2>1 DEF TypeOK
<1>. QED
  BY <1>1, <1>2, <1>3, GatesKeepSessions DEF Next, vars, sessionVars

\* A session in its first generation, or its first life, was in it before the step.
LEMMA StillFirst ==
    ASSUME TypeOK, NEW s \in Sessions, [Next]_vars
    PROVE  /\ generation'[s] = 1 => generation[s] = 1
           /\ generation'[s] <= 2 => generation[s] <= 2
BY GenerationGrows

\* Its assignments are wanted, too; drift repair may give one up.
FirstWanted(s) == generation[s] = 1 /\ \A a \in Of(s) : want[a] = "Applied"

\* One that is not wanted is not wanted again in its first generation.
LEMMA StillWanted ==
    ASSUME TypeOK, NEW s \in Sessions, FirstLife(s), [Next]_vars, FirstWanted(s)'
    PROVE  FirstWanted(s)
<1>1. generation[s] = 1 /\ \A a \in Of(s) : want'[a] = "Applied" /\ BegunOn(s, a) /\ a \in Assignments
  BY StillFirst, OfSession DEF FirstWanted, FirstLife
<1>2. ASSUME NEW u \in Sessions, SessionStep(u) PROVE \A a \in Of(s) : want[a] = "Applied"
  <2>1. CASE u # s
    BY <1>1, <1>2, <2>1, HandlersStayInSession DEF SameOf
  <2>2. CASE Schedule(s)
    BY <1>1, <2>2, ScheduleAdds DEF BegunOn
  <2>3. CASE EnqueueRevocation(s)
    BY <1>1, <2>3 DEF EnqueueRevocation
  <2>4. ASSUME u = s, ~Schedule(s), ~EnqueueRevocation(s) PROVE want' = want
    BY <1>2, <2>4 DEF Create, ActivatePaid, DeleteUnpaid, Revoke, EnforceQuota, RequestRevocation,
           Reactivate, ReadForHide, Hide, BeginProbing, AdvanceToScheduling, ScheduleFails,
           EnqueueCommit, CompleteProvisioned, FailTimedOut, CompleteRevoked, assignmentVars
  <2>. QED
    BY <1>1, <2>1, <2>2, <2>3, <2>4
<1>3. ASSUME \/ \E a \in Assignments : ExpireLease(a)
             \/ \E r \in Roles : \/ Claim(r) \/ Execute(r) \/ ExecuteFails(r)
                               \/ Report(r) \/ ReportTimesOut(r) \/ AgentDies(r)
             \/ LateReport
             \/ UNCHANGED vars
      PROVE  want' = want
  BY <1>3 DEF ExpireLease, Claim, Execute, ExecuteFails, Report, ReportTimesOut, AgentDies, LateReport,
         assignmentVars, vars
<1>. QED
  BY <1>1, <1>2, <1>3 DEF FirstWanted, Next

\* The gate makes its key with the one prepare; the control plane's copy is that
\* key, both copies are there before a commit job is, and what the assignment's
\* status says of the gate is so.
KeysOn(s, a) ==
    /\ host[a].stage \in {"none", "prepared", "committed"}
    /\ host[a].key = IF host[a].stage = "none" THEN 0 ELSE 1
    /\ material[a] = 0 \/ (material[a] = 1 /\ host[a].key = 1)
    /\ status[a] = "prepared" => material[a] = 1
    /\ status[a] = "applied" => host[a].stage = "committed"
    /\ \A i \in Rows(a) : jobs[a][i].op = "commit" =>
         jobs[a][i].peer = 1 /\ \A b \in Of(s) : material[b] = 1
    /\ host[a].stage = "committed" => host[a].peer = 1

Keys(s) ==
    /\ phase[s] \in {"provisioning", "active"} => lease[s] = planAddress[s]
    /\ phase[s] = "active" => artifact[s] = 1 /\ \A a \in Of(s) : host[a].stage = "committed"

FirstKeys(s) == FirstWanted(s) => Keys(s) /\ \A a \in Of(s) : KeysOn(s, a)

\* A report of success is true when it is sent, and remains so.
TaskKey(t) ==
    FirstWanted(t.a[1]) /\ t.result = "succeeded" =>
        /\ jobs[t.a][t.i].op = "prepare" => t.key = 1 /\ host[t.a].key = 1
        /\ jobs[t.a][t.i].op = "commit" => host[t.a].stage = "committed"

TasksTrue ==
    /\ \A r \in Roles : \A t \in worker[r] : TaskKey(t)
    /\ \A t \in late : TaskKey(t)

\* What does not touch a session does not touch its keys.
LEMMA SameFirstKeys ==
    ASSUME NEW u \in Sessions, SameOf(u), FirstKeys(u)
    PROVE  FirstKeys(u)'
BY DEF SameOf, FirstWanted, FirstKeys, Keys, KeysOn, Rows

\* Requests and phase changes, in the first generation.
LEMMA RequestsFirstKeys ==
    ASSUME TypeOK, PhaseFits, NEW s \in Sessions, FirstLife(s), FirstKeys(s),
           generation'[s] = 1, FirstWanted(s),
           \/ Create(s) \/ ActivatePaid(s) \/ DeleteUnpaid(s)
           \/ Revoke(s) \/ EnforceQuota(s) \/ Reactivate(s) \/ ReadForHide(s) \/ Hide(s)
           \/ BeginProbing(s) \/ AdvanceToScheduling(s) \/ ScheduleFails(s)
           \/ EnqueueRevocation(s) \/ CompleteRevoked(s)
    PROVE  FirstKeys(s)'
<1>1. Begun(s) /\ desired[s] = "Active" /\ phase[s] # "revoking" /\ generation[s] = 1
  BY DEF FirstLife, Begun, FirstWanted
<1>2. ~Revoke(s) /\ ~EnforceQuota(s) /\ ~Reactivate(s) /\ ~EnqueueRevocation(s) /\ ~CompleteRevoked(s)
  BY <1>1 DEF Revoke, EnforceQuota, RequestRevocation, Reactivate, EnqueueRevocation, CompleteRevoked,
         TypeOK
<1>3. /\ UNCHANGED <<jobs, status, material, host, lease, planAddress, artifact>>
      /\ phase'[s] = phase[s] \/ phase'[s] \notin {"provisioning", "active"}
  BY <1>2 DEF Create, ActivatePaid, DeleteUnpaid, ReadForHide, Hide, BeginProbing,
         AdvanceToScheduling, ScheduleFails, assignmentVars, gateVars, TypeOK
<1>. QED
  BY <1>3 DEF FirstKeys, Keys, KeysOn, Rows

\* The plan carries the address that the session leases.
LEMMA ScheduleFirstKeys ==
    ASSUME TypeOK, NEW s \in Sessions, FirstLife(s), FirstKeys(s), FirstWanted(s), Schedule(s)
    PROVE  FirstKeys(s)'
<1>1. UNCHANGED <<material, host>> /\ phase'[s] = "provisioning" /\ planAddress'[s] = lease'[s]
  BY DEF Schedule, gateVars, TypeOK
<1>2. Keys(s)'
  BY <1>1 DEF Keys
<1>3. ASSUME NEW a \in Of(s) PROVE KeysOn(s, a)'
  <2>. DEFINE job == NewJob("prepare", 1, 0, lease'[s])
  <2>1. Len(jobs[a]) = 0 /\ status'[a] = "queued" /\ AddsRow(a, job)
    BY ScheduleAdds DEF NoRows, FirstWanted
  <2>2. job.op = "prepare"
    BY DEF NewJob
  <2>. HIDE DEF job
  <2>3. \A i \in Rows(a)' : jobs'[a][i].op = "prepare"
    BY <2>1, <2>2 DEF AddsRow, Rows
  <2>4. KeysOn(s, a)
    BY DEF FirstKeys
  <2>. QED
    BY <1>1, <2>1, <2>3, <2>4 DEF KeysOn
<1>. QED
  BY <1>2, <1>3 DEF FirstKeys

\* Both gates' keys are known when the commit jobs are made.
LEMMA CommitFirstKeys ==
    ASSUME TypeOK, NEW s \in Sessions, FirstKeys(s), FirstWanted(s), EnqueueCommit(s)
    PROVE  FirstKeys(s)'
<1>1. UNCHANGED <<material, host, phase, lease, planAddress, artifact>>
  BY DEF EnqueueCommit, gateVars
<1>2. Keys(s)'
  BY <1>1 DEF FirstKeys, Keys
<1>3. \A a \in Of(s) : KeysOn(s, a)
  BY DEF FirstKeys
<1>4. \A a \in Of(s) : material[a] = 1
  BY <1>3, CommitAdds DEF KeysOn
<1>5. ASSUME NEW a \in Of(s) PROVE KeysOn(s, a)'
  <2>. DEFINE job == NewJob("commit", generation[s], material[<<s, Peer[a[2]]>>], planAddress[s])
  <2>1. status'[a] = "queued" /\ (AddsRow(a, job) \/ jobs'[a] = jobs[a])
    BY CommitAdds
  <2>2. job.peer = 1
    <3>1. Peer[a[2]] \in Roles
      BY OfSession DEF Peer, Roles
    <3>2. <<s, Peer[a[2]]>> \in Of(s)
      BY <3>1, OfSession
    <3>. QED
      BY <1>4, <3>2 DEF NewJob
  <2>. HIDE DEF job
  <2>3. Len(jobs[a]) \in Nat
    BY OfSession DEF TypeOK
  <2>4. \A i \in Rows(a)' : jobs'[a][i].op = "commit" => jobs'[a][i].peer = 1
    BY <1>3, <2>1, <2>2, <2>3 DEF KeysOn, AddsRow, Rows
  <2>. QED
    BY <1>1, <1>3, <1>4, <2>1, <2>4 DEF KeysOn
<1>. QED
  BY <1>2, <1>5 DEF FirstKeys

\* Both gates are up when both have been reported as applied, and the key the config
\* gets is the ingress gate's.
LEMMA CompleteFirstKeys ==
    ASSUME TypeOK, PhaseFits, NEW s \in Sessions, FirstLife(s), FirstKeys(s), FirstWanted(s),
           CompleteProvisioned(s)
    PROVE  FirstKeys(s)'
<1>1. UNCHANGED <<jobs, status, material, host, lease, planAddress>> /\ phase[s] = "provisioning"
  BY DEF CompleteProvisioned, Provisioned, assignmentVars, gateVars
<1>2. \A a \in Of(s) : KeysOn(s, a) /\ BegunOn(s, a) /\ host[a].stage = "committed"
  BY DEF FirstKeys, FirstWanted, FirstLife, CompleteProvisioned, Provisioned, KeysOn
<1>3. \A a \in Of(s) : material[a] = 1
  BY <1>2 DEF BegunOn, KeysOn, HasRow
<1>4. artifact[s] = 0
  BY <1>1 DEF PhaseFits, ConfigOnlyWhileUp, TypeOK
<1>5. artifact'[s] = 1
  <2>1. <<s, "Ingress">> \in Of(s)
    BY DEF Of, Roles
  <2>. QED
    BY <1>3, <1>4, <2>1 DEF CompleteProvisioned, TypeOK
<1>6. Keys(s)'
  BY <1>1, <1>2, <1>5 DEF FirstKeys, Keys
<1>7. \A a \in Of(s) : KeysOn(s, a)'
  BY <1>1, <1>2 DEF KeysOn, Rows
<1>. QED
  BY <1>6, <1>7 DEF FirstKeys

\* Rows that keep what they ask for, and a status that stays or says nothing.
LEMMA RowsFirstKeys ==
    ASSUME NEW s \in Sessions, NEW a \in Of(s), KeepsRows(a), KeysOn(s, a),
           UNCHANGED <<material, host>>, status'[a] = status[a] \/ status'[a] \notin {"prepared", "applied"}
    PROVE  KeysOn(s, a)'
BY DEF KeepsRows, KeysOn, Rows

\* A timeout leaves keys and gates as they are; what was prepared is dead.
LEMMA TimeoutFirstKeys ==
    ASSUME TypeOK, NEW s \in Sessions, FirstKeys(s), FirstWanted(s), FailTimedOut(s)
    PROVE  FirstKeys(s)'
<1>1. UNCHANGED <<material, host>> /\ phase'[s] = "failed"
  BY DEF FailTimedOut, gateVars, TypeOK
<1>2. \A a \in Of(s) : KeepsRows(a) /\ (status'[a] = status[a] \/ status'[a] = "dead")
  BY OfSession, KilledRows DEF FailTimedOut
<1>3. \A a \in Of(s) : KeysOn(s, a)'
  BY <1>1, <1>2, RowsFirstKeys DEF FirstKeys
<1>. QED
  BY <1>1, <1>3 DEF FirstKeys, Keys

\* Leases change no key, and no status to one that says something of the gate.
LEMMA LeasingFirstKeys ==
    ASSUME TypeOK, NEW s \in Sessions, FirstKeys(s),
           (\E b \in Assignments : ExpireLease(b)) \/ (\E r \in Roles : Claim(r))
    PROVE  FirstKeys(s)'
<1>1. UNCHANGED <<generation, phase, lease, planAddress, artifact, want, material, host>>
  BY GatesKeepSessions DEF sessionVars, ExpireLease, Claim, assignmentVars, gateVars
<1>2. ASSUME NEW a \in Of(s)
      PROVE  KeepsRows(a) /\ (status'[a] = status[a] \/ status'[a] \notin {"prepared", "applied"})
  <2>1. a \in Assignments
    BY OfSession
  <2>2. CASE \E b \in Assignments : ExpireLease(b)
    BY <2>1, <2>2, ExpireEffect DEF assignmentVars
  <2>3. ASSUME NEW r \in Roles, Claim(r)
        PROVE  KeepsRows(a) /\ (status'[a] = status[a] \/ status'[a] \notin {"prepared", "applied"})
    <3>1. PICK u \in Sessions : \E i \in Rows(<<u, r>>) :
             /\ \A b \in Assignments : KeepsRows(b)
             /\ \A b \in Assignments \ {<<u, r>>} : status'[b] = status[b]
             /\ status'[<<u, r>>] = LeasedStatus(status[<<u, r>>], jobs[<<u, r>>][i].op)
             /\ host' = host
      BY <2>3, ClaimEffect
    <3>. QED
      BY <2>1, <3>1 DEF LeasedStatus
  <2>. QED
    BY <2>2, <2>3
<1>. QED
  BY <1>1, <1>2, RowsFirstKeys DEF FirstKeys, FirstWanted, Keys

\* What a job does to the gate.
LEMMA ExecutedJob ==
    ASSUME NEW h, NEW job
    PROVE  /\ job.op = "prepare" => Executed(h, job) = Prepared(h)
           /\ job.op = "commit" => Executed(h, job) = Committed(h, job)
           /\ job.op = "revoke" => Executed(h, job) = Torn(h)
BY DEF Executed

\* What the gate does keeps its key, once made, and its tunnel, once up.
LEMMA ExecuteFirstKeys ==
    ASSUME Typed, NEW s \in Sessions, FirstLife(s), FirstKeys(s), FirstWanted(s),
           NEW r \in Roles, Execute(r), NEW a \in Of(s)
    PROVE  /\ KeysOn(s, a)'
           /\ host[a].key = 1 => host'[a].key = 1
           /\ host[a].stage = "committed" => host'[a].stage = "committed"
<1>1. PICK t \in worker[r] :
             /\ jobs[t.a][t.i].op = "commit" => CanCommit(host[t.a])
             /\ host'[t.a] = Executed(host[t.a], jobs[t.a][t.i])
             /\ \A b \in Assignments \ {t.a} : host'[b] = host[b]
             /\ UNCHANGED <<jobs, status, material>>
  BY ExecuteEffect DEF assignmentVars
<1>2. t.a \in Assignments /\ t.i \in Rows(t.a) /\ jobs[t.a][t.i] \in Job
  BY TaskHeld
<1>3. a \in Assignments /\ KeysOn(s, a) /\ BegunOn(s, a) /\ ~HasRow(a, "revoke")
  BY OfSession DEF FirstKeys, FirstWanted, FirstLife, BegunOn
<1>4. CASE a # t.a
  BY <1>1, <1>3, <1>4 DEF KeysOn, Rows
<1>5. CASE a = t.a
  <2>. DEFINE job == jobs[a][t.i]
  <2>1. job.op \in {"prepare", "commit"}
    BY <1>2, <1>3, <1>5 DEF HasRow, Job, Operations
  <2>2. host[a] \in Host
    BY <1>3 DEF Typed, TypeOK
  <2>3. job.op = "commit" => job.peer = 1
    BY <1>2, <1>3, <1>5 DEF KeysOn
  <2>4. /\ host'[a].stage \in {"prepared", "committed"} /\ host'[a].key = 1
        /\ host[a].stage = "committed" => host'[a].stage = "committed"
        /\ host'[a].stage = "committed" => host'[a].peer = 1
    <3>1. CASE job.op = "prepare"
      <4>1. host'[a] = Prepared(host[a])
        BY <1>1, <1>5, <3>1, ExecutedJob
      <4>. QED
        BY <1>3, <2>2, <4>1 DEF Prepared, KeysOn, Host
    <3>2. CASE job.op = "commit"
      <4>1. host'[a] = Committed(host[a], job) /\ CanCommit(host[a])
        BY <1>1, <1>5, <3>2, ExecutedJob
      <4>2. /\ host'[a].stage = "committed" /\ host'[a].peer = job.peer
            /\ host'[a].key = host[a].key
        BY <2>2, <4>1 DEF Committed, Host
      <4>3. host[a].key = 1
        BY <1>3, <4>1 DEF CanCommit, KeysOn
      <4>. QED
        BY <2>3, <3>2, <4>2, <4>3
    <3>. QED
      BY <2>1, <3>1, <3>2
  <2>. QED
    BY <1>1, <1>3, <2>4 DEF KeysOn, Rows
<1>. QED
  BY <1>4, <1>5

\* A report, in time or late, brings the key the gate has.
LEMMA ReportFirstKeys ==
    ASSUME Typed, NEW s \in Sessions, FirstKeys(s), TasksTrue, FirstWanted(s),
           LateReport \/ \E r \in Roles : Report(r)
    PROVE  FirstKeys(s)'
<1>1. PICK t \in Task :
             /\ t \in late \/ \E r \in Roles : t \in worker[r]
             /\ t.a \in Assignments /\ t.i \in Rows(t.a) /\ Record(t)
             /\ UNCHANGED <<sessionVars, phase, lease, planAddress, artifact, host>>
  BY ReportEffect
<1>2. TaskKey(t)
  BY <1>1 DEF TasksTrue
<1>3. \A a \in Of(s) : a \in Assignments /\ KeepsRows(a) /\ KeysOn(s, a) /\ a[1] = s
  BY <1>1, OfSession, RecordedRow DEF FirstKeys, Rows
<1>. DEFINE job == jobs[t.a][t.i]
<1>4. ASSUME NEW a \in Of(s)
      PROVE  /\ \/ material'[a] = material[a]
                \/ material'[a] = 1 /\ host[a].key = 1
             /\ status'[a] = "prepared" => material'[a] = 1
             /\ status'[a] = "applied" => host[a].stage = "committed"
  <2>1. CASE a # t.a
    <3>1. status'[a] = status[a] /\ material'[a] = material[a]
      BY <1>1, <1>3, <2>1, RecordedRow DEF Rows
    <3>. QED
      BY <1>3, <3>1 DEF KeysOn
  <2>2. CASE a = t.a
    <3>1. t.result = "succeeded" =>
            /\ job.op = "prepare" => t.key = 1 /\ host[a].key = 1
            /\ job.op = "commit" => host[a].stage = "committed"
      BY <1>2, <1>3, <2>2 DEF TaskKey
    <3>2. /\ status'[a] = "prepared" => t.result = "succeeded" /\ job.op = "prepare"
          /\ status'[a] = "applied" => t.result = "succeeded" /\ job.op = "commit"
          /\ material'[a] = IF t.result = "succeeded" /\ job.op = "prepare" THEN t.key ELSE material[a]
      BY <1>1, <2>2, RecordEffect
    <3>. QED
      BY <3>1, <3>2
  <2>. QED
    BY <2>1, <2>2
<1>5. ASSUME NEW a \in Of(s), material[a] = 1 PROVE material'[a] = 1
  BY <1>4, <1>5
<1>6. ASSUME NEW a \in Of(s) PROVE KeysOn(s, a)'
  <2>1. \A i \in Rows(a)' : jobs'[a][i].op = "commit" =>
           jobs'[a][i].peer = 1 /\ \A b \in Of(s) : material'[b] = 1
    BY <1>3, <1>5 DEF KeysOn, KeepsRows, Rows
  <2>. QED
    BY <1>1, <1>3, <1>4, <2>1 DEF KeysOn
<1>7. Keys(s)'
  BY <1>1 DEF FirstKeys, Keys
<1>. QED
  BY <1>6, <1>7 DEF FirstKeys

\* The keys of every session in its first generation fit.
FirstKeysOfAll == \A s \in Sessions : FirstKeys(s)

\* Every step keeps the first tunnels' keys.
LEMMA StepKeepsFirstKeys ==
    ASSUME Typed, PhaseFits, FirstLives, FirstKeysOfAll, TasksTrue, [Next]_vars
    PROVE  FirstKeysOfAll'
<1>. SUFFICES ASSUME NEW u \in Sessions, FirstWanted(u)' PROVE FirstKeys(u)'
  BY DEF FirstKeysOfAll, FirstKeys
<1>0. TypeOK /\ FirstLife(u) /\ FirstKeys(u) /\ FirstWanted(u) /\ generation'[u] = 1
  BY StillWanted DEF Typed, FirstLives, FirstKeysOfAll, FirstWanted
<1>1. CASE UNCHANGED vars
  <2>1. SameOf(u)
    BY <1>1 DEF SameOf, vars, sessionVars, assignmentVars, gateVars
  <2>. QED
    BY <1>0, <2>1, SameFirstKeys
<1>2. ASSUME NEW s \in Sessions,
             SessionStep(s)
      PROVE  FirstKeys(u)'
  <2>1. CASE u # s
    BY <1>0, <1>2, <2>1, HandlersStayInSession, SameFirstKeys
  <2>2. CASE u = s
    BY <1>0, <1>2, <2>2, RequestsFirstKeys, ScheduleFirstKeys, CommitFirstKeys, CompleteFirstKeys,
       TimeoutFirstKeys
  <2>. QED
    BY <2>1, <2>2
<1>3. ASSUME NEW r \in Roles, Execute(r) PROVE FirstKeys(u)'
  <2>1. \A a \in Of(u) : KeysOn(u, a)' /\ (host[a].stage = "committed" => host'[a].stage = "committed")
    BY <1>0, <1>3, ExecuteFirstKeys
  <2>2. UNCHANGED <<phase, lease, planAddress, artifact>>
    BY <1>3, GatesKeepSessions
  <2>. QED
    BY <1>0, <2>1, <2>2 DEF FirstKeys, Keys
<1>4. ASSUME NEW r \in Roles, ExecuteFails(r) \/ ReportTimesOut(r) \/ AgentDies(r)
      PROVE  FirstKeys(u)'
  <2>1. SameOf(u)
    BY <1>4, DroppedEffect DEF SameOf, sessionVars, assignmentVars
  <2>. QED
    BY <1>0, <2>1, SameFirstKeys
<1>. QED
  BY <1>0, <1>1, <1>2, <1>3, <1>4, LeasingFirstKeys, ReportFirstKeys DEF Next

\* A report stays true while it is under way.
LEMMA TaskKeyStays ==
    ASSUME NEW t \in Task, t.i \in Rows(t.a), TaskKey(t), RowsStay(t.a),
           FirstWanted(t.a[1])' =>
             /\ FirstWanted(t.a[1])
             /\ host[t.a].key = 1 => host'[t.a].key = 1
             /\ host[t.a].stage = "committed" => host'[t.a].stage = "committed"
    PROVE  TaskKey(t)'
BY DEF TaskKey, RowsStay

\* Every report of a first generation that is under way stays true.
LEMMA StepKeepsTasks ==
    ASSUME Typed, FirstLives, FirstKeysOfAll, TasksTrue, [Next]_vars
    PROVE  TasksTrue'
<1>. USE DEF TasksTrue
<1>0. TypeOK /\ \A t \in Task : t.a \in Assignments /\ t.a[1] \in Sessions
  BY DEF Typed, Task, Assignments
<1>9. \A t \in Task : FirstWanted(t.a[1])' => FirstWanted(t.a[1])
  BY <1>0, StillWanted DEF FirstLives
\* Tasks that stay, while nothing happens at the gates.
<1>1. ASSUME \A a \in Assignments : RowsStay(a), UNCHANGED gateVars PROVE TasksTrue'
  <2>1. ASSUME NEW t \in Task, t.a \in Assignments, t.i \in Rows(t.a), TaskKey(t) PROVE TaskKey(t)'
    BY <1>1, <1>9, <2>1, TaskKeyStays DEF gateVars
  <2>. QED
    BY <1>1, <2>1, TaskHeld, TaskLate DEF gateVars
<1>2. CASE UNCHANGED vars
  <2>1. \A a \in Assignments : RowsStay(a)
    BY <1>0, <1>2, RowsOfStep DEF vars
  <2>. QED
    BY <1>1, <1>2, <2>1 DEF vars
<1>3. ASSUME NEW s \in Sessions,
             SessionStep(s)
      PROVE  TasksTrue'
  BY <1>0, <1>1, <1>3, HandlersKeepRows DEF RowsLast
<1>4. ASSUME NEW a \in Assignments, ExpireLease(a) PROVE TasksTrue'
  BY <1>0, <1>1, <1>4, ExpireEffect, RowsOfStep
<1>5. ASSUME NEW r \in Roles, Claim(r) PROVE TasksTrue'
  <2>1. PICK s \in Sessions : \E i \in Rows(<<s, r>>) :
             /\ \A b \in Assignments : KeepsRows(b)
             /\ worker' = [worker EXCEPT ![r] = {ClaimedTask(<<s, r>>, i)}]
             /\ host' = host /\ late' = late
    BY <1>0, <1>5, ClaimEffect
  <2>2. \A b \in Assignments : RowsStay(b)
    BY <1>0, <2>1, RowsOfStep
  <2>3. ASSUME NEW t \in Task, t.a \in Assignments, t.i \in Rows(t.a), TaskKey(t) PROVE TaskKey(t)'
    BY <1>9, <2>1, <2>2, <2>3, TaskKeyStays
  <2>4. \A q \in Roles : \A t \in worker'[q] : t \in worker[q] \/ t.result = "running"
    BY <1>0, <2>1 DEF TypeOK, ClaimedTask
  <2>5. \A t : t.result = "running" => TaskKey(t)'
    BY DEF TaskKey
  <2>. QED
    BY <2>1, <2>3, <2>4, <2>5, TaskHeld, TaskLate
<1>6. ASSUME NEW r \in Roles, Execute(r) PROVE TasksTrue'
  <2>1. PICK t \in worker[r] :
             /\ jobs[t.a][t.i].op = "commit" => CanCommit(host[t.a])
             /\ host'[t.a] = Executed(host[t.a], jobs[t.a][t.i])
             /\ worker' = [worker EXCEPT ![r] = {DoneTask(t, host'[t.a].key)}]
             /\ UNCHANGED <<jobs, late, generation>>
    BY <1>6, ExecuteEffect DEF sessionVars
  <2>2. \A b \in Assignments : RowsStay(b)
    BY <1>0, <2>1, RowsOfStep
  <2>3. ASSUME NEW a \in Assignments, FirstWanted(a[1])
        PROVE  /\ KeysOn(a[1], a)'
               /\ host[a].key = 1 => host'[a].key = 1
               /\ host[a].stage = "committed" => host'[a].stage = "committed"
    <3>1. a[1] \in Sessions /\ a \in Of(a[1])
      BY DEF Assignments, Of
    <3>. QED
      BY <1>6, <2>3, <3>1, ExecuteFirstKeys DEF FirstLives, FirstKeysOfAll
  <2>4. ASSUME NEW v \in Task, v.a \in Assignments, v.i \in Rows(v.a), TaskKey(v) PROVE TaskKey(v)'
    BY <1>9, <2>1, <2>2, <2>3, <2>4, TaskKeyStays
  <2>0. PICK u : u = DoneTask(t, host'[t.a].key)
    OBVIOUS
  <2>5. t \in Task /\ t.a \in Assignments /\ t.i \in Rows(t.a) /\ jobs[t.a][t.i] \in Job
    BY TaskHeld
  <2>6. u.a = t.a /\ u.i = t.i /\ u.key = host'[t.a].key
    BY <2>0, <2>5 DEF DoneTask, Task
  <2>7. TaskKey(u)'
    <3>. DEFINE job == jobs[t.a][t.i]
    <3>. SUFFICES ASSUME FirstWanted(t.a[1])
                 PROVE  /\ job.op = "prepare" => host'[t.a].key = 1
                        /\ job.op = "commit" => host'[t.a].stage = "committed"
      BY <1>9, <2>1, <2>5, <2>6 DEF TaskKey
    <3>1. host[t.a] \in Host
      BY <1>0, <2>5 DEF TypeOK
    <3>2. CASE job.op = "prepare"
      <4>1. host'[t.a] = Prepared(host[t.a])
        BY <2>1, <3>2, ExecutedJob
      <4>2. host'[t.a].stage # "none"
        BY <3>1, <4>1 DEF Prepared, Host
      <4>. QED
        BY <2>3, <2>5, <3>2, <4>2 DEF KeysOn
    <3>3. CASE job.op = "commit"
      <4>1. host'[t.a] = Committed(host[t.a], job)
        BY <2>1, <3>3, ExecutedJob
      <4>. QED
        BY <3>1, <3>3, <4>1 DEF Committed, Host
    <3>. QED
      BY <3>2, <3>3
  <2>8. \A q \in Roles : \A v \in worker'[q] : v \in worker[q] \/ v = u
    BY <1>0, <2>0, <2>1 DEF TypeOK
  <2>. QED
    BY <2>1, <2>4, <2>7, <2>8, TaskHeld, TaskLate
<1>7. ASSUME NEW r \in Roles, ExecuteFails(r) \/ ReportTimesOut(r) \/ AgentDies(r) PROVE TasksTrue'
  <2>1. /\ UNCHANGED <<jobs, host, generation, want>>
        /\ \A q \in Roles : \A t \in worker'[q] :
             \E v \in worker[q] : t = v \/ t = [v EXCEPT !.result = "retryable_failed"]
        /\ \A t \in late' : t \in late \/ t \in worker[r]
    BY <1>7, DroppedEffect DEF sessionVars, assignmentVars
  <2>2. \A t : TaskKey(t) => TaskKey(t)'
    BY <2>1 DEF TaskKey, FirstWanted
  <2>3. ASSUME NEW q \in Roles, NEW v \in worker[q]
        PROVE  TaskKey([v EXCEPT !.result = "retryable_failed"])'
    <3>1. v \in Task
      BY TaskHeld
    <3>2. [v EXCEPT !.result = "retryable_failed"].result = "retryable_failed"
      BY <3>1 DEF Task
    <3>. QED
      BY <3>2 DEF TaskKey
  <2>. QED
    BY <2>1, <2>2, <2>3
<1>8. CASE LateReport \/ \E r \in Roles : Report(r)
  <2>1. PICK t \in Task :
             /\ t.a \in Assignments /\ t.i \in Rows(t.a) /\ Record(t)
             /\ \A r \in Roles : worker'[r] \subseteq worker[r]
             /\ late' \subseteq late
             /\ host' = host
    BY <1>8, ReportEffect
  <2>2. \A b \in Assignments : RowsStay(b)
    BY <1>0, <2>1, RecordedRow, RowsOfStep DEF Rows
  <2>3. ASSUME NEW v \in Task, v.a \in Assignments, v.i \in Rows(v.a), TaskKey(v) PROVE TaskKey(v)'
    BY <1>9, <2>1, <2>2, <2>3, TaskKeyStays
  <2>. QED
    BY <2>1, <2>3, TaskHeld, TaskLate
<1>. QED
  BY <1>2, <1>3, <1>4, <1>5, <1>6, <1>7, <1>8 DEF Next

\* Without drift repair every session in its first generation is wanted.
FirstWanteds == \A s \in Sessions : generation[s] = 1 => FirstWanted(s)

\* Only a session whose revocation was asked for is given up.
LEMMA LifecycleFirstWanteds == Spec => []FirstWanteds
<1>1. Init => FirstWanteds
  BY DEF Init, FirstWanteds, FirstWanted, Of, Assignments
<1>2. Typed /\ FirstLives /\ FirstWanteds /\ [Next]_vars => FirstWanteds'
  <2>. SUFFICES ASSUME Typed, FirstLives, FirstWanteds, [Next]_vars, NEW s \in Sessions, generation'[s] = 1,
                      NEW a \in Of(s)
               PROVE  want'[a] = "Applied"
    BY DEF FirstWanteds, FirstWanted
  <2>1. TypeOK /\ generation[s] = 1 /\ want[a] = "Applied" /\ desired[s] = "Active" /\ a \in Assignments
    BY StillFirst, OfSession DEF Typed, FirstWanteds, FirstWanted, FirstLives, FirstLife, Begun
  <2>2. ASSUME NEW u \in Sessions, SessionStep(u) PROVE want'[a] = want[a] \/ want'[a] = "Applied"
    <3>1. CASE u # s
      BY <2>1, <2>2, <3>1, HandlersStayInSession DEF SameOf
    <3>2. CASE Schedule(s)
      BY <2>1, <3>2 DEF Schedule
    <3>3. ~EnqueueRevocation(s)
      BY <2>1 DEF EnqueueRevocation
    <3>4. ASSUME u = s, ~Schedule(s) PROVE want' = want
      BY <2>2, <3>3, <3>4 DEF Create, ActivatePaid, DeleteUnpaid, Revoke, EnforceQuota, RequestRevocation,
             Reactivate, ReadForHide, Hide, BeginProbing, AdvanceToScheduling, ScheduleFails,
             EnqueueCommit, CompleteProvisioned, FailTimedOut, CompleteRevoked, assignmentVars
    <3>. QED
      BY <3>1, <3>2, <3>4
  <2>3. ASSUME \/ \E b \in Assignments : ExpireLease(b)
               \/ \E r \in Roles : \/ Claim(r) \/ Execute(r) \/ ExecuteFails(r)
                                 \/ Report(r) \/ ReportTimesOut(r) \/ AgentDies(r)
               \/ LateReport
               \/ UNCHANGED vars
        PROVE  want' = want
    BY <2>3 DEF ExpireLease, Claim, Execute, ExecuteFails, Report, ReportTimesOut, AgentDies, LateReport,
           assignmentVars, vars
  <2>. QED
    BY <2>1, <2>2, <2>3 DEF Next
<1>. QED
  BY <1>1, <1>2, LifecycleTyped, LifecycleFirstLives, PTL DEF Spec

FirstTunnels == FirstKeysOfAll /\ TasksTrue

\* The keys fit, whatever fails, times out or is late.
LEMMA LifecycleFirstTunnels == Spec => []FirstTunnels
<1>1. Init => FirstTunnels
  BY DEF Init, FirstTunnels, FirstKeysOfAll, FirstKeys, Keys, KeysOn, TasksTrue, Rows, Of, Assignments
<1>2. Typed /\ PhaseFits /\ FirstLives /\ FirstTunnels /\ [Next]_vars => FirstTunnels'
  BY StepKeepsFirstKeys, StepKeepsTasks DEF FirstTunnels
<1>. QED
  BY <1>1, <1>2, LifecycleTyped, LifecyclePhaseFits, LifecycleFirstLives, PTL DEF Spec

\* The tunnel of session s is up.
TunnelUp(s) ==
    /\ artifact[s] = host[<<s, "Ingress">>].key
    /\ \A r \in Roles : /\ host[<<s, r>>].stage = "committed"
                        /\ host[<<s, r>>].peer = host[<<s, Peer[r]>>].key
                        /\ host[<<s, r>>].address = lease[s]

\* The tunnel of a session that is active for the first time is up.
FirstTunnelIsUp ==
    \A s \in Sessions : phase[s] = "active" /\ generation[s] = 1 => TunnelUp(s)

\* The tunnel of an active session is up when its keys and its rows fit.
LEMMA WantedTunnelIsUp ==
    ASSUME FirstLives, FirstTunnels, NEW s \in Sessions, phase[s] = "active", FirstWanted(s)
    PROVE  TunnelUp(s)
<1>1. Keys(s) /\ \A a \in Of(s) : KeysOn(s, a) /\ BegunOn(s, a)
  BY DEF FirstLives, FirstLife, FirstTunnels, FirstKeysOfAll, FirstKeys, FirstWanted
<1>2. artifact[s] = 1 /\ lease[s] = planAddress[s] /\ \A a \in Of(s) : host[a].stage = "committed"
  BY <1>1 DEF Keys
<1>3. \A a \in Of(s) : host[a].key = 1 /\ host[a].peer = 1 /\ host[a].address = lease[s]
  BY <1>1, <1>2 DEF KeysOn, BegunOn
<1>4. \A r \in Roles : <<s, r>> \in Of(s) /\ <<s, Peer[r]>> \in Of(s)
  BY DEF Of, Roles, Peer
<1>. QED
  BY <1>2, <1>3, <1>4 DEF TunnelUp, Roles

\* A session that becomes active in its first generation has a tunnel on both gates,
\* with each other's keys and the leased address, and a config with the ingress key:
\* for any number of sessions, retries, lost, late and repeated reports, crashes and
\* timeouts (completeProvisionedSessions looks at two phases only).
THEOREM LifecycleFirstTunnelIsUp == Spec => []FirstTunnelIsUp
<1>1. TypeOK /\ FirstLives /\ FirstTunnels /\ FirstWanteds => FirstTunnelIsUp
  <2>. SUFFICES ASSUME TypeOK, FirstLives, FirstTunnels, FirstWanteds, NEW s \in Sessions,
                      phase[s] = "active", generation[s] = 1
               PROVE  TunnelUp(s)
    BY DEF FirstTunnelIsUp
  <2>. QED
    BY WantedTunnelIsUp DEF FirstWanteds
<1>. QED
  BY <1>1, LifecycleTypeOK, LifecycleFirstLives, LifecycleFirstTunnels, LifecycleFirstWanteds, PTL

\* So every active session's tunnel is up when sessions are not reactivated.
THEOREM LifecycleActiveIsUp ==
    ASSUME MaxGen <= 2
    PROVE  Spec => []ActiveIsUp
<1>1. TypeOK /\ FirstLives /\ FirstTunnelIsUp /\ PhaseFits => ActiveIsUp
  <2>. SUFFICES ASSUME TypeOK, FirstLives, FirstTunnelIsUp, PhaseFits, NEW s \in Sessions, phase[s] = "active"
               PROVE  TunnelUp(s)
    BY DEF ActiveIsUp, TunnelUp
  <2>1. generation[s] \in Nat \ {0} /\ generation[s] <= 2
    BY LifecycleAssumption DEF TypeOK
  <2>2. generation[s] # 2
    BY <2>1 DEF FirstLives, FirstLife, Begun, PhaseFits
  <2>. QED
    BY <2>1, <2>2 DEF FirstTunnelIsUp
<1>. QED
  BY <1>1, LifecycleTypeOK, LifecycleFirstLives, LifecycleFirstTunnelIsUp, LifecyclePhaseFits, PTL

-----------------------------------------------------------------------------
\* The end of a session's first life, when no report is late: the job an agent works
\* on has not been reported as done, and it is the agent's own.
OwnTasks ==
    /\ late = {}
    /\ \A r \in Roles : \A t \in worker[r] : t.a[2] = r /\ jobs[t.a][t.i].phase # "succeeded"

PreparesDone(a) ==
    \A i \in Rows(a) : jobs[a][i].op = "prepare" => jobs[a][i].phase = "succeeded"
RevokeDone(a) ==
    \E i \in Rows(a) : jobs[a][i].op = "revoke" /\ jobs[a][i].phase = "succeeded"

\* A commit follows a prepare that is done, so nothing can make keys again once the
\* tunnel was torn down: a revoke that is done is the end of it.
TornOn(s, a) ==
    /\ HasRow(a, "commit") => PreparesDone(a)
    /\ status[a] = "prepared" => PreparesDone(a)
    /\ RevokeDone(a) => /\ host[a].stage # "committed"
                        /\ HasRow(a, "commit") => host[a].stage = "revoked"
    /\ status[a] = "revoked" => RevokeDone(a)
    /\ phase[s] = "revoked" => RevokeDone(a) \/ NoRows(a)

FirstEnd(s) == generation[s] <= 2 => \A a \in Of(s) : TornOn(s, a)

TaskTorn(t) ==
    t.result = "succeeded" /\ jobs[t.a][t.i].op = "revoke" => host[t.a].stage = "revoked"

TasksTorn == \A r \in Roles : \A t \in worker[r] : TaskTorn(t)

\* While no report is late, no step makes an agent's task one that was done before.
LEMMA StepKeepsOwnTasks ==
    ASSUME Typed, ~MayBeLate, OwnTasks, TasksTorn, [Next]_vars
    PROVE  OwnTasks' /\ TasksTorn'
<1>. USE DEF OwnTasks, TasksTorn
<1>0. TypeOK
  BY DEF Typed
<1>1. ASSUME NEW t \in Task, t.a \in Assignments, t.i \in Rows(t.a), jobs[t.a][t.i].phase # "succeeded",
             TaskTorn(t), RowsLast(t.a), host'[t.a] = host[t.a]
      PROVE  TaskTorn(t)' /\ jobs'[t.a][t.i].phase # "succeeded"
  BY <1>1 DEF TaskTorn, RowsLast, RowsStay
<1>2. ASSUME \A a \in Assignments : RowsLast(a), UNCHANGED gateVars PROVE OwnTasks' /\ TasksTorn'
  BY <1>1, <1>2, TaskHeld DEF gateVars
<1>3. CASE UNCHANGED vars
  <2>1. \A a \in Assignments : RowsLast(a)
    BY <1>0, <1>3, RowsLastOfStep DEF vars
  <2>. QED
    BY <1>2, <1>3, <2>1 DEF vars
<1>4. ASSUME NEW s \in Sessions,
             SessionStep(s)
      PROVE  OwnTasks' /\ TasksTorn'
  BY <1>0, <1>2, <1>4, HandlersKeepRows
<1>5. ASSUME NEW a \in Assignments, ExpireLease(a) PROVE OwnTasks' /\ TasksTorn'
  BY <1>0, <1>2, <1>5, ExpireEffect, RowsLastOfStep
<1>6. ASSUME NEW r \in Roles, Claim(r) PROVE OwnTasks' /\ TasksTorn'
  <2>1. PICK s \in Sessions : \E i \in Rows(<<s, r>>) :
             /\ \A b \in Assignments : KeepsRows(b) /\ KeepsSuccess(b)
             /\ jobs[<<s, r>>][i].phase # "succeeded"
             /\ worker' = [worker EXCEPT ![r] = {ClaimedTask(<<s, r>>, i)}]
             /\ host' = host /\ late' = late
    BY <1>0, <1>6, ClaimEffect
  <2>2. PICK i \in Rows(<<s, r>>) :
             /\ jobs[<<s, r>>][i].phase # "succeeded"
             /\ worker' = [worker EXCEPT ![r] = {ClaimedTask(<<s, r>>, i)}]
    BY <2>1
  <2>3. PICK u : u = ClaimedTask(<<s, r>>, i)
    OBVIOUS
  <2>4. \A b \in Assignments : RowsLast(b)
    BY <1>0, <2>1, RowsLastOfStep
  <2>5. u.a = <<s, r>> /\ u.i = i /\ u.result = "running"
    BY <2>3 DEF ClaimedTask
  <2>6. \A q \in Roles : \A t \in worker'[q] : (t \in worker[q]) \/ (t = u /\ q = r)
    BY <1>0, <2>2, <2>3 DEF TypeOK
  <2>7. TaskTorn(u)' /\ u.a[2] = r /\ jobs'[u.a][u.i].phase # "succeeded"
    <3>1. <<s, r>> \in Assignments
      BY DEF Assignments
    <3>. QED
      BY <2>2, <2>4, <2>5, <3>1 DEF TaskTorn, RowsLast
  <2>. QED
    BY <1>1, <2>1, <2>4, <2>6, <2>7, TaskHeld
<1>7. ASSUME NEW r \in Roles, Execute(r) PROVE OwnTasks' /\ TasksTorn'
  <2>1. PICK t \in worker[r] :
             /\ host'[t.a] = Executed(host[t.a], jobs[t.a][t.i])
             /\ \A b \in Assignments \ {t.a} : host'[b] = host[b]
             /\ worker' = [worker EXCEPT ![r] = {DoneTask(t, host'[t.a].key)}]
             /\ UNCHANGED <<jobs, late>>
    BY <1>7, ExecuteEffect
  <2>2. PICK u : u = DoneTask(t, host'[t.a].key)
    OBVIOUS
  <2>3. t \in Task /\ t.a \in Assignments /\ t.i \in Rows(t.a) /\ jobs[t.a][t.i] \in Job
    BY TaskHeld
  <2>4. u.a = t.a /\ u.i = t.i
    BY <2>2, <2>3 DEF DoneTask, Task
  <2>5. TaskTorn(u)'
    <3>1. CASE jobs[t.a][t.i].op = "revoke"
      <4>1. host'[t.a] = Torn(host[t.a]) /\ host[t.a] \in Host
        BY <1>0, <2>1, <2>3, <3>1, ExecutedJob DEF TypeOK
      <4>. QED
        BY <2>4, <4>1 DEF TaskTorn, Torn, Host
    <3>. QED
      BY <2>1, <2>4, <3>1 DEF TaskTorn
  <2>6. \A q \in Roles : \A v \in worker'[q] : (v \in worker[q] /\ q # r) \/ (v = u /\ q = r)
    BY <1>0, <2>1, <2>2 DEF TypeOK
  <2>7. \A b \in Assignments : RowsLast(b)
    BY <1>0, <2>1, RowsLastOfStep
  <2>8. ASSUME NEW q \in Roles, NEW v \in worker[q], q # r
        PROVE  TaskTorn(v)' /\ jobs'[v.a][v.i].phase # "succeeded"
    <3>1. v \in Task /\ v.a \in Assignments /\ v.i \in Rows(v.a)
      BY TaskHeld
    <3>2. host'[v.a] = host[v.a]
      BY <2>1, <2>3, <2>8, <3>1
    <3>. QED
      BY <1>1, <2>7, <3>1, <3>2
  <2>9. t.a[2] = r /\ jobs[t.a][t.i].phase # "succeeded" /\ late' = {}
    BY <2>1
  <2>10. ASSUME NEW q \in Roles, NEW v \in worker'[q]
         PROVE  TaskTorn(v)' /\ v.a[2] = q /\ jobs'[v.a][v.i].phase # "succeeded"
    <3>1. CASE v \in worker[q] /\ q # r
      BY <2>8, <3>1
    <3>2. CASE v = u /\ q = r
      BY <2>1, <2>4, <2>5, <2>9, <3>2
    <3>. QED
      BY <2>6, <3>1, <3>2
  <2>. QED
    BY <2>9, <2>10
<1>8. ASSUME NEW r \in Roles, ExecuteFails(r) \/ ReportTimesOut(r) \/ AgentDies(r)
      PROVE  OwnTasks' /\ TasksTorn'
  <2>1. /\ UNCHANGED <<jobs, host, late>>
        /\ \A q \in Roles : \A t \in worker'[q] :
             \E v \in worker[q] : t = v \/ t = [v EXCEPT !.result = "retryable_failed"]
    BY <1>8, DroppedEffect
  <2>2. ASSUME NEW q \in Roles, NEW v \in worker[q], NEW t,
               t = v \/ t = [v EXCEPT !.result = "retryable_failed"]
        PROVE  TaskTorn(t) /\ t.a[2] = q /\ jobs[t.a][t.i].phase # "succeeded"
    <3>1. v \in Task
      BY TaskHeld
    <3>. QED
      BY <2>2, <3>1 DEF TaskTorn, Task
  <2>3. \A t : TaskTorn(t) => TaskTorn(t)'
    BY <2>1 DEF TaskTorn
  <2>. QED
    BY <2>1, <2>2, <2>3
<1>9. CASE LateReport \/ \E r \in Roles : Report(r)
  <2>1. PICK t \in Task :
             /\ \E r \in Roles : t \in worker[r] /\ worker'[r] = {}
             /\ t.a \in Assignments /\ t.i \in Rows(t.a) /\ Record(t)
             /\ \A r \in Roles : worker'[r] \subseteq worker[r]
             /\ late' \subseteq late
             /\ host' = host
    BY <1>9, ReportEffect
  <2>2. PICK r \in Roles : t \in worker[r] /\ worker'[r] = {}
    BY <2>1
  <2>3. ASSUME NEW q \in Roles, NEW v \in worker'[q]
        PROVE  TaskTorn(v)' /\ v.a[2] = q /\ jobs'[v.a][v.i].phase # "succeeded"
    <3>1. v \in worker[q] /\ q # r
      BY <2>1, <2>2, <2>3
    <3>2. v \in Task /\ v.a \in Assignments /\ v.i \in Rows(v.a) /\ v.a # t.a
      BY <2>2, <3>1, TaskHeld
    <3>3. jobs'[v.a] = jobs[v.a]
      BY <2>1, <3>2, RecordedRow DEF Rows
    <3>4. RowsLast(v.a)
      BY <1>0, <3>2, <3>3, RowsLastOfStep
    <3>. QED
      BY <1>1, <2>1, <3>1, <3>2, <3>4
  <2>. QED
    BY <2>1, <2>3
<1>. QED
  BY <1>3, <1>4, <1>5, <1>6, <1>7, <1>8, <1>9 DEF Next

\* What does not touch a session does not touch its end.
LEMMA SameFirstEnd ==
    ASSUME NEW u \in Sessions, SameOf(u), FirstEnd(u)
    PROVE  FirstEnd(u)'
<1>1. ASSUME NEW a \in Of(u), TornOn(u, a) PROVE TornOn(u, a)'
  <2>1. /\ jobs'[a] = jobs[a] /\ status'[a] = status[a] /\ host'[a] = host[a]
        /\ phase'[u] = phase[u]
    BY DEF SameOf
  <2>2. /\ Rows(a)' = Rows(a) /\ (NoRows(a)' <=> NoRows(a)) /\ (PreparesDone(a)' <=> PreparesDone(a))
        /\ (RevokeDone(a)' <=> RevokeDone(a)) /\ (HasRow(a, "commit")' <=> HasRow(a, "commit"))
    BY <2>1 DEF Rows, NoRows, PreparesDone, RevokeDone, HasRow
  <2>. QED
    BY <1>1, <2>1, <2>2 DEF TornOn
<1>. QED
  BY <1>1 DEF SameOf, FirstEnd

\* Rows keep what they ask for and what is done; the status stays or says nothing.
LEMMA RowsFirstEnd ==
    ASSUME NEW s \in Sessions, NEW a \in Of(s), KeepsRows(a), KeepsSuccess(a), TornOn(s, a),
           host'[a] = host[a], status'[a] = status[a] \/ status'[a] \notin {"prepared", "revoked"},
           phase'[s] = phase[s] \/ phase'[s] # "revoked"
    PROVE  TornOn(s, a)'
<1>1. Rows(a)' = Rows(a) /\ (NoRows(a)' <=> NoRows(a))
  BY DEF KeepsRows, Rows, NoRows
<1>2. /\ HasRow(a, "commit")' <=> HasRow(a, "commit")
      /\ PreparesDone(a)' <=> PreparesDone(a)
      /\ RevokeDone(a)' <=> RevokeDone(a)
  BY <1>1 DEF KeepsRows, KeepsSuccess, HasRow, PreparesDone, RevokeDone
<1>. QED
  BY <1>1, <1>2 DEF TornOn

\* Requests and phase changes; a session is marked revoked when every gate that got
\* a job has reported its tunnel as torn down.
LEMMA RequestsFirstEnd ==
    ASSUME TypeOK, NEW s \in Sessions, FirstLife(s), FirstEnd(s),
           generation[s] <= 2, generation'[s] <= 2,
           \/ Create(s) \/ ActivatePaid(s) \/ DeleteUnpaid(s)
           \/ Revoke(s) \/ EnforceQuota(s) \/ Reactivate(s) \/ ReadForHide(s) \/ Hide(s)
           \/ BeginProbing(s) \/ AdvanceToScheduling(s) \/ ScheduleFails(s)
           \/ CompleteProvisioned(s) \/ CompleteRevoked(s)
    PROVE  FirstEnd(s)'
<1>1. UNCHANGED <<jobs, status, host>>
  BY DEF Create, ActivatePaid, DeleteUnpaid, Revoke, EnforceQuota, RequestRevocation, Reactivate,
         ReadForHide, Hide, BeginProbing, AdvanceToScheduling, ScheduleFails,
         CompleteProvisioned, CompleteRevoked, assignmentVars, gateVars
<1>2. \A a \in Of(s) : TornOn(s, a) /\ BegunOn(s, a)
  BY DEF FirstEnd, FirstLife
<1>3. phase'[s] = "revoked" => phase[s] = "revoked" \/ AllRevoked(s)
  BY DEF Create, ActivatePaid, DeleteUnpaid, Revoke, EnforceQuota, RequestRevocation, Reactivate,
         ReadForHide, Hide, BeginProbing, AdvanceToScheduling, ScheduleFails,
         CompleteProvisioned, CompleteRevoked, TypeOK
<1>4. ASSUME NEW a \in Of(s), phase'[s] = "revoked" PROVE RevokeDone(a) \/ NoRows(a)
  BY <1>2, <1>3, <1>4 DEF TornOn, BegunOn, AllRevoked
<1>. QED
  BY <1>1, <1>2, <1>4 DEF FirstEnd, TornOn, PreparesDone, RevokeDone, HasRow, NoRows, Rows

\* After the plan nothing is done yet.
LEMMA ScheduleFirstEnd ==
    ASSUME TypeOK, NEW s \in Sessions, FirstLife(s), generation[s] <= 2, Schedule(s)
    PROVE  FirstEnd(s)'
<1>1. phase'[s] = "provisioning"
  BY DEF Schedule, TypeOK
<1>. SUFFICES ASSUME NEW a \in Of(s) PROVE TornOn(s, a)'
  BY DEF FirstEnd
<1>. DEFINE job == NewJob("prepare", 1, 0, lease'[s])
<1>2. Len(jobs[a]) = 0 /\ status'[a] = "queued" /\ AddsRow(a, job)
  BY ScheduleAdds DEF NoRows
<1>3. job.op = "prepare"
  BY DEF NewJob
<1>. HIDE DEF job
<1>4. \A i \in Rows(a)' : jobs'[a][i].op = "prepare"
  BY <1>2, <1>3 DEF AddsRow, Rows
<1>. QED
  BY <1>1, <1>2, <1>4 DEF TornOn, HasRow, RevokeDone

\* Commit jobs are made when the prepares are done, and never after a revocation.
LEMMA CommitFirstEnd ==
    ASSUME TypeOK, PhaseFits, NEW s \in Sessions, FirstLife(s), FirstEnd(s), FirstWanteds,
           generation[s] <= 2, EnqueueCommit(s)
    PROVE  FirstEnd(s)'
<1>1. UNCHANGED <<host, phase>> /\ phase[s] = "provisioning"
  BY DEF EnqueueCommit, ReadyForCommit, gateVars
<1>2. generation[s] = 1
  <2>1. generation[s] \in Nat \ {0}
    BY LifecycleAssumption DEF TypeOK
  <2>2. desired[s] # "Revoked"
    BY <1>1 DEF PhaseFits
  <2>. QED
    BY <2>1, <2>2 DEF FirstLife, Begun
<1>. SUFFICES ASSUME NEW a \in Of(s) PROVE TornOn(s, a)'
  BY DEF FirstEnd
<1>3. TornOn(s, a) /\ ~HasRow(a, "revoke")
  BY <1>2 DEF FirstEnd, FirstLife, FirstWanteds, FirstWanted, BegunOn
<1>. DEFINE job == NewJob("commit", generation[s], material[<<s, Peer[a[2]]>>], planAddress[s])
<1>4. status[a] = "prepared" /\ status'[a] = "queued" /\ (AddsRow(a, job) \/ jobs'[a] = jobs[a])
  BY CommitAdds
<1>5. job.op = "commit"
  BY DEF NewJob
<1>. HIDE DEF job
<1>6. Len(jobs[a]) \in Nat
  BY OfSession DEF TypeOK
<1>7. ~RevokeDone(a)'
  BY <1>3, <1>4, <1>5, <1>6 DEF RevokeDone, HasRow, AddsRow, Rows
<1>8. PreparesDone(a)'
  BY <1>3, <1>4, <1>5, <1>6 DEF TornOn, PreparesDone, AddsRow, Rows
<1>. QED
  BY <1>1, <1>4, <1>7, <1>8 DEF TornOn

\* A revoke job that was just made is not done.
LEMMA RevocationFirstEnd ==
    ASSUME TypeOK, NEW s \in Sessions, FirstLife(s), FirstEnd(s), generation[s] <= 2,
           EnqueueRevocation(s)
    PROVE  FirstEnd(s)'
<1>1. UNCHANGED <<host, phase>>
  BY DEF EnqueueRevocation, gateVars
<1>. SUFFICES ASSUME NEW a \in Of(s) PROVE TornOn(s, a)'
  BY DEF FirstEnd
<1>2. TornOn(s, a) /\ BegunOn(s, a)
  BY DEF FirstEnd, FirstLife
<1>. DEFINE job == NewJob("revoke", 0, 0, NoAddress)
<1>3. /\ jobs'[a] = jobs[a] \/ AddsRow(a, job)
      /\ status[a] = "absent" => jobs'[a] = jobs[a]
      /\ status'[a] \in {"revoking", status[a]}
  BY RevocationAdds
<1>4. job.op = "revoke" /\ job.phase = "queued"
  BY DEF NewJob
<1>. HIDE DEF job
<1>5. Len(jobs[a]) \in Nat
  BY OfSession DEF TypeOK
<1>6. /\ RevokeDone(a)' <=> RevokeDone(a)
      /\ PreparesDone(a)' <=> PreparesDone(a)
      /\ HasRow(a, "commit")' <=> HasRow(a, "commit")
  <2>1. CASE jobs'[a] = jobs[a]
    BY <2>1 DEF RevokeDone, PreparesDone, HasRow, Rows
  <2>2. CASE AddsRow(a, job)
    <3>1. Rows(a)' = Rows(a) \cup {Len(jobs[a]) + 1}
      BY <1>5, <2>2 DEF AddsRow, Rows
    <3>2. \A i \in Rows(a) : jobs'[a][i] = jobs[a][i]
      BY <2>2 DEF AddsRow
    <3>3. jobs'[a][Len(jobs[a]) + 1].op = "revoke" /\ jobs'[a][Len(jobs[a]) + 1].phase = "queued"
      BY <1>4, <2>2 DEF AddsRow
    <3>. QED
      BY <3>1, <3>2, <3>3 DEF RevokeDone, PreparesDone, HasRow
  <2>. QED
    BY <1>3, <2>1, <2>2
<1>7. NoRows(a) => NoRows(a)'
  BY <1>2, <1>3 DEF BegunOn, NoRows
<1>. QED
  BY <1>1, <1>2, <1>3, <1>6, <1>7 DEF TornOn

\* A timeout kills no job that is done.
LEMMA TimeoutFirstEnd ==
    ASSUME TypeOK, NEW s \in Sessions, FirstEnd(s), generation[s] <= 2, FailTimedOut(s)
    PROVE  FirstEnd(s)'
<1>1. host' = host /\ phase'[s] = "failed"
  BY DEF FailTimedOut, gateVars, TypeOK
<1>2. \A a \in Of(s) : KeepsRows(a) /\ KeepsSuccess(a) /\ (status'[a] = status[a] \/ status'[a] = "dead")
  BY OfSession, KilledRows DEF FailTimedOut
<1>. QED
  BY <1>1, <1>2, RowsFirstEnd DEF FirstEnd

\* Leases complete no job.
LEMMA LeasingFirstEnd ==
    ASSUME TypeOK, NEW s \in Sessions, FirstEnd(s),
           (\E b \in Assignments : ExpireLease(b)) \/ (\E r \in Roles : Claim(r))
    PROVE  FirstEnd(s)'
<1>1. UNCHANGED <<generation, phase, host>>
  BY GatesKeepSessions DEF sessionVars, ExpireLease, Claim, gateVars
<1>2. ASSUME NEW a \in Of(s)
      PROVE  /\ KeepsRows(a) /\ KeepsSuccess(a)
             /\ status'[a] = status[a] \/ status'[a] \notin {"prepared", "revoked"}
  <2>1. a \in Assignments
    BY OfSession
  <2>2. CASE \E b \in Assignments : ExpireLease(b)
    BY <2>1, <2>2, ExpireEffect DEF assignmentVars
  <2>3. ASSUME NEW r \in Roles, Claim(r)
        PROVE  /\ KeepsRows(a) /\ KeepsSuccess(a)
               /\ status'[a] = status[a] \/ status'[a] \notin {"prepared", "revoked"}
    <3>1. PICK u \in Sessions : \E i \in Rows(<<u, r>>) :
             /\ \A b \in Assignments : KeepsRows(b) /\ KeepsSuccess(b)
             /\ \A b \in Assignments \ {<<u, r>>} : status'[b] = status[b]
             /\ status'[<<u, r>>] = LeasedStatus(status[<<u, r>>], jobs[<<u, r>>][i].op)
             /\ host' = host
      BY <2>3, ClaimEffect
    <3>. QED
      BY <2>1, <3>1 DEF LeasedStatus
  <2>. QED
    BY <2>2, <2>3
<1>. QED
  BY <1>1, <1>2, RowsFirstEnd DEF FirstEnd

\* A prepare that is done is not executed again, and a commit that comes after the
\* tunnel was torn down fails for want of a key.
LEMMA ExecuteFirstEnd ==
    ASSUME Typed, OwnTasks, NEW s \in Sessions, FirstLife(s), FirstEnd(s),
           NEW r \in Roles, Execute(r)
    PROVE  FirstEnd(s)'
<1>1. PICK t \in worker[r] :
             /\ jobs[t.a][t.i].op = "commit" => CanCommit(host[t.a])
             /\ host'[t.a] = Executed(host[t.a], jobs[t.a][t.i])
             /\ \A b \in Assignments \ {t.a} : host'[b] = host[b]
             /\ UNCHANGED <<jobs, status, phase, generation>>
  BY ExecuteEffect DEF assignmentVars, sessionVars
<1>2. /\ t.a \in Assignments /\ t.i \in Rows(t.a) /\ jobs[t.a][t.i] \in Job
      /\ jobs[t.a][t.i].phase # "succeeded"
  BY TaskHeld DEF OwnTasks
<1>. SUFFICES ASSUME generation[s] <= 2, NEW a \in Of(s) PROVE TornOn(s, a)'
  BY <1>1 DEF FirstEnd
<1>3. a \in Assignments /\ TornOn(s, a) /\ BegunOn(s, a)
  BY OfSession DEF FirstEnd, FirstLife
<1>4. UNCHANGED <<HasRow(a, "commit"), PreparesDone(a), RevokeDone(a), NoRows(a)>>
  BY <1>1 DEF HasRow, PreparesDone, RevokeDone, NoRows, Rows
<1>5. CASE a # t.a
  BY <1>1, <1>3, <1>4, <1>5 DEF TornOn
<1>6. CASE a = t.a
  <2>. DEFINE job == jobs[a][t.i]
  <2>1. host[a] \in Host
    BY <1>3 DEF Typed, TypeOK
  <2>2. CASE job.op = "prepare"
    <3>1. ~HasRow(a, "commit")
      BY <1>2, <1>3, <1>6, <2>2 DEF TornOn, PreparesDone
    <3>2. host'[a] = Prepared(host[a])
      BY <1>1, <1>6, <2>2, ExecutedJob
    <3>3. host[a].stage # "committed" => host'[a].stage # "committed"
      BY <2>1, <3>2 DEF Prepared, Host
    <3>. QED
      BY <1>1, <1>3, <1>4, <3>1, <3>3 DEF TornOn
  <2>3. CASE job.op = "commit"
    <3>1. HasRow(a, "commit") /\ CanCommit(host[a])
      BY <1>1, <1>2, <1>6, <2>3 DEF HasRow
    <3>2. ~RevokeDone(a)
      BY <1>3, <3>1 DEF TornOn, CanCommit
    <3>. QED
      BY <1>1, <1>3, <1>4, <3>2 DEF TornOn
  <2>4. CASE job.op = "revoke"
    <3>1. host'[a] = Torn(host[a])
      BY <1>1, <1>6, <2>4, ExecutedJob
    <3>2. host'[a].stage = "revoked"
      BY <2>1, <3>1 DEF Torn, Host
    <3>. QED
      BY <1>1, <1>3, <1>4, <3>2 DEF TornOn
  <2>. QED
    BY <1>2, <1>6, <2>2, <2>3, <2>4 DEF Job, Operations
<1>. QED
  BY <1>5, <1>6

\* A report that a revoke is done finds the tunnel torn down.
LEMMA ReportFirstEnd ==
    ASSUME Typed, OwnTasks, TasksTorn, NEW s \in Sessions, FirstLife(s), FirstEnd(s),
           LateReport \/ \E r \in Roles : Report(r)
    PROVE  FirstEnd(s)'
<1>1. PICK t \in Task :
             /\ \E r \in Roles : t \in worker[r]
             /\ t.a \in Assignments /\ t.i \in Rows(t.a) /\ Record(t)
             /\ UNCHANGED <<sessionVars, phase, host>>
  BY ReportEffect DEF OwnTasks
<1>2. jobs[t.a][t.i].phase # "succeeded" /\ TaskTorn(t)
  BY <1>1 DEF OwnTasks, TasksTorn
<1>. SUFFICES ASSUME generation[s] <= 2, NEW a \in Of(s) PROVE TornOn(s, a)'
  BY <1>1 DEF FirstEnd, sessionVars
<1>3. a \in Assignments /\ TornOn(s, a) /\ BegunOn(s, a)
  BY OfSession DEF FirstEnd, FirstLife
<1>4. KeepsRows(a)
  BY <1>1, <1>3, RecordedRow DEF Rows
<1>5. CASE a # t.a
  <2>1. jobs'[a] = jobs[a] /\ status'[a] = status[a]
    BY <1>1, <1>3, <1>5, RecordedRow DEF Rows
  <2>. QED
    BY <1>1, <1>3, <1>4, <2>1, RowsFirstEnd DEF KeepsSuccess
<1>6. CASE a = t.a
  <2>. DEFINE job == jobs[a][t.i]
  <2>1. /\ t.i \in Rows(a) /\ job.phase # "succeeded"
        /\ \A i \in Rows(a) \ {t.i} : jobs'[a][i] = jobs[a][i]
        /\ jobs'[a][t.i].phase = "succeeded" <=> t.result = "succeeded"
        /\ jobs'[a][t.i].op = job.op
    BY <1>1, <1>2, <1>4, <1>6, RecordedRow DEF Rows, KeepsRows
  <2>2. Rows(a)' = Rows(a) /\ (NoRows(a)' <=> NoRows(a)) /\ (HasRow(a, "commit")' <=> HasRow(a, "commit"))
    BY <1>4 DEF KeepsRows, Rows, NoRows, HasRow
  <2>3. PreparesDone(a) => PreparesDone(a)'
    BY <2>1, <2>2 DEF PreparesDone
  <2>4. RevokeDone(a) => RevokeDone(a)'
    BY <2>1, <2>2 DEF RevokeDone
  <2>5. RevokeDone(a)' => RevokeDone(a) \/ (t.result = "succeeded" /\ job.op = "revoke")
    BY <2>1, <2>2 DEF RevokeDone
  <2>6. /\ status'[a] = "prepared" => t.result = "succeeded" /\ job.op = "prepare"
        /\ status'[a] = "revoked" => t.result = "succeeded" /\ job.op = "revoke"
    BY <1>1, <1>6, RecordEffect
  <2>7. status'[a] = "prepared" => PreparesDone(a)'
    BY <1>3, <2>1, <2>2, <2>6 DEF BegunOn, PreparesDone
  <2>8. status'[a] = "revoked" => RevokeDone(a)'
    BY <2>1, <2>2, <2>6 DEF RevokeDone
  <2>9. RevokeDone(a)' => /\ host'[a].stage # "committed"
                          /\ HasRow(a, "commit") => host'[a].stage = "revoked"
    <3>1. t.result = "succeeded" /\ job.op = "revoke" => host[a].stage = "revoked"
      BY <1>2, <1>6 DEF TaskTorn
    <3>. QED
      BY <1>1, <1>3, <2>5, <3>1 DEF TornOn
  <2>. QED
    BY <1>1, <1>3, <2>2, <2>3, <2>4, <2>7, <2>8, <2>9 DEF TornOn
<1>. QED
  BY <1>5, <1>6

FirstEnds == OwnTasks /\ TasksTorn /\ \A s \in Sessions : FirstEnd(s)

\* Every step keeps the order of the end.
LEMMA FirstEndsKept ==
    ~MayBeLate => (Typed /\ PhaseFits /\ FirstLives /\ FirstWanteds /\ FirstEnds /\ [Next]_vars => FirstEnds')
<1>. SUFFICES ASSUME ~MayBeLate, Typed, PhaseFits, FirstLives, FirstWanteds, FirstEnds, [Next]_vars
             PROVE  FirstEnds'
  OBVIOUS
<1>1. OwnTasks /\ TasksTorn /\ OwnTasks' /\ TasksTorn'
  BY StepKeepsOwnTasks DEF FirstEnds
<1>. SUFFICES ASSUME NEW u \in Sessions, generation'[u] <= 2 PROVE FirstEnd(u)'
  BY <1>1 DEF FirstEnds, FirstEnd
<1>0. TypeOK /\ FirstLife(u) /\ FirstEnd(u) /\ generation[u] <= 2
  BY StillFirst DEF Typed, FirstLives, FirstEnds
<1>2. CASE UNCHANGED vars
  <2>1. SameOf(u)
    BY <1>2 DEF SameOf, vars, sessionVars, assignmentVars, gateVars
  <2>. QED
    BY <1>0, <2>1, SameFirstEnd
<1>3. ASSUME NEW s \in Sessions,
             SessionStep(s)
      PROVE  FirstEnd(u)'
  <2>1. CASE u # s
    BY <1>0, <1>3, <2>1, HandlersStayInSession, SameFirstEnd
  <2>2. CASE u = s
    BY <1>0, <1>3, <2>2, RequestsFirstEnd, ScheduleFirstEnd, CommitFirstEnd, RevocationFirstEnd,
       TimeoutFirstEnd
  <2>. QED
    BY <2>1, <2>2
<1>4. ASSUME NEW r \in Roles, Execute(r) PROVE FirstEnd(u)'
  BY <1>0, <1>1, <1>4, ExecuteFirstEnd
<1>5. ASSUME NEW r \in Roles, ExecuteFails(r) \/ ReportTimesOut(r) \/ AgentDies(r)
      PROVE  FirstEnd(u)'
  <2>1. SameOf(u)
    BY <1>5, DroppedEffect DEF SameOf, sessionVars, assignmentVars
  <2>. QED
    BY <1>0, <2>1, SameFirstEnd
<1>. QED
  BY <1>0, <1>1, <1>2, <1>3, <1>4, <1>5, LeasingFirstEnd, ReportFirstEnd DEF Next

\* Every first life ends in order when no report is late.
LEMMA LifecycleFirstEnds ==
    ASSUME ~MayBeLate
    PROVE  Spec => []FirstEnds
<1>1. Init => FirstEnds
  BY DEF Init, FirstEnds, OwnTasks, TasksTorn, FirstEnd, TornOn, HasRow, RevokeDone, PreparesDone,
         NoRows, Rows, Of, Assignments
<1>2. Typed /\ PhaseFits /\ FirstLives /\ FirstWanteds /\ FirstEnds /\ [Next]_vars => FirstEnds'
  BY FirstEndsKept
<1>. QED
  BY <1>1, <1>2, LifecycleTyped, LifecyclePhaseFits, LifecycleFirstLives, LifecycleFirstWanteds, PTL DEF Spec

\* The tunnel of a session that was revoked once is down.
FirstRevokedIsDown ==
    \A s \in Sessions : phase[s] = "revoked" /\ generation[s] <= 2 =>
        \A a \in Of(s) : host[a].stage # "committed"

\* A session that is shown as revoked after its first life carries no traffic, and no
\* prepare or commit job that was in flight brings its tunnel back: for any number of
\* sessions, retries, lost reports, crashes and timeouts, but no late report.
THEOREM LifecycleFirstRevokedIsDown ==
    ASSUME ~MayBeLate
    PROVE  Spec => []FirstRevokedIsDown
<1>1. FirstLives /\ FirstEnds => FirstRevokedIsDown
  <2>. SUFFICES ASSUME FirstLives, FirstEnds, NEW s \in Sessions, phase[s] = "revoked",
                      generation[s] <= 2, NEW a \in Of(s)
               PROVE  host[a].stage # "committed"
    BY DEF FirstRevokedIsDown
  <2>1. TornOn(s, a) /\ BegunOn(s, a)
    BY DEF FirstLives, FirstLife, FirstEnds, FirstEnd
  <2>. QED
    BY <2>1 DEF TornOn, BegunOn
<1>. QED
  BY <1>1, LifecycleFirstLives, LifecycleFirstEnds, PTL

\* So no revoked session carries traffic when sessions are not reactivated and no
\* report is late.
THEOREM LifecycleRevokedIsDown ==
    ASSUME ~MayBeLate, MaxGen <= 2
    PROVE  Spec => []RevokedIsDown
<1>1. TypeOK /\ FirstRevokedIsDown => RevokedIsDown
  <2>1. TypeOK => \A s \in Sessions : generation[s] <= 2
    BY LifecycleAssumption DEF TypeOK
  <2>. QED
    BY <2>1 DEF FirstRevokedIsDown, RevokedIsDown
<1>. QED
  BY <1>1, LifecycleTypeOK, LifecycleFirstRevokedIsDown, PTL

-----------------------------------------------------------------------------
\* Who holds an address, and which gates carry it.

\* No address is leased twice.
LeasesApart ==
    \A s, t \in Sessions : lease[s] = lease[t] /\ lease[s] # NoAddress => s = t

\* That is what AddressLease promises.
LEMMA LifecycleLeasesApart == Spec => []LeasesApart
<1>1. Promise!Init => LeasesApart
  BY DEF Promise!Init, LeasesApart
<1>2. TypeOK /\ LeasesApart /\ [Promise!Next]_lease => LeasesApart'
  <2>. SUFFICES ASSUME TypeOK, LeasesApart, [Promise!Next]_lease PROVE LeasesApart'
    OBVIOUS
  <2>0. lease \in [Sessions -> Addresses \cup {NoAddress}]
    BY DEF TypeOK
  <2>1. ASSUME NEW h \in Sessions, NEW x \in Addresses, Promise!Grant(h, x) PROVE LeasesApart'
    BY <2>0, <2>1 DEF Promise!Grant, Promise!Held, LeasesApart
  <2>2. ASSUME NEW H \in SUBSET Sessions, Promise!Return(H) PROVE LeasesApart'
    BY <2>0, <2>2 DEF Promise!Return, LeasesApart
  <2>3. CASE lease' = lease
    BY <2>3 DEF LeasesApart
  <2>. QED
    BY <2>1, <2>2, <2>3 DEF Promise!Next
<1>. QED
  BY <1>1, <1>2, LifecycleKeepsPromise, LifecycleTypeOK, PTL DEF LeasePromise, Promise!Spec

\* Only a gate whose tunnel is up carries an address.
OnlyUpCarries == \A a \in Assignments : host[a].stage # "committed" => host[a].address = NoAddress

\* A gate takes the address with the commit and drops it with the revoke.
LEMMA LifecycleOnlyUpCarries == Spec => []OnlyUpCarries
<1>1. Init => OnlyUpCarries
  BY DEF Init, OnlyUpCarries
<1>2. Typed /\ OnlyUpCarries /\ [Next]_vars => OnlyUpCarries'
  <2>. SUFFICES ASSUME Typed, OnlyUpCarries, [Next]_vars PROVE OnlyUpCarries'
    OBVIOUS
  <2>1. CASE host' = host
    BY <2>1 DEF OnlyUpCarries
  <2>2. ASSUME NEW r \in Roles, Execute(r) PROVE OnlyUpCarries'
    <3>1. PICK t \in worker[r] :
             /\ host'[t.a] = Executed(host[t.a], jobs[t.a][t.i])
             /\ \A b \in Assignments \ {t.a} : host'[b] = host[b]
      BY <2>2, ExecuteEffect
    <3>2. t.a \in Assignments /\ jobs[t.a][t.i] \in Job
      BY TaskHeld
    <3>3. host[t.a] \in Host /\ (host[t.a].stage # "committed" => host[t.a].address = NoAddress)
      BY <3>2 DEF Typed, TypeOK, OnlyUpCarries
    <3>. DEFINE job == jobs[t.a][t.i]
    <3>4. \/ host'[t.a] = Prepared(host[t.a])
          \/ host'[t.a] = Committed(host[t.a], job)
          \/ host'[t.a] = Torn(host[t.a])
      BY <3>1, <3>2, ExecutedJob DEF Job, Operations
    <3>5. host'[t.a].stage # "committed" => host'[t.a].address = NoAddress
      <4>1. CASE host'[t.a] = Prepared(host[t.a])
        BY <3>3, <4>1 DEF Prepared, Host
      <4>2. CASE host'[t.a] = Committed(host[t.a], job)
        BY <3>3, <4>2 DEF Committed, Host
      <4>3. CASE host'[t.a] = Torn(host[t.a])
        BY <3>3, <4>3 DEF Torn, Host
      <4>. QED
        BY <3>4, <4>1, <4>2, <4>3
    <3>. QED
      BY <3>1, <3>5 DEF OnlyUpCarries
  <2>3. ASSUME NEW s \in Sessions,
             SessionStep(s)
        PROVE  host' = host
    BY <2>3, HandlersKeepRows DEF Typed, gateVars
  <2>4. ASSUME NEW r \in Roles, Claim(r) \/ ExecuteFails(r) \/ Report(r) \/ ReportTimesOut(r) \/ AgentDies(r)
        PROVE  host' = host
    BY <2>4 DEF Claim, ExecuteFails, Report, ReportTimesOut, AgentDies
  <2>5. ASSUME LateReport \/ (\E a \in Assignments : ExpireLease(a)) \/ UNCHANGED vars PROVE host' = host
    BY <2>5 DEF LateReport, ExpireLease, vars, gateVars
  <2>. QED
    BY <2>1, <2>2, <2>3, <2>4, <2>5 DEF Next
<1>. QED
  BY <1>1, <1>2, LifecycleTyped, PTL DEF Spec

\* A session keeps the planned address as long as a gate may carry it, unless a timeout
\* has taken it.
KeepsPlan(s) ==
    phase[s] # "revoked" =>
        \A a \in Of(s) : NoRows(a) \/ lease[s] = planAddress[s] \/ TimedOut(s)

\* In their first life sessions keep the plan's address.
FirstPlans == \A s \in Sessions : generation[s] <= 2 => KeepsPlan(s)

\* Only a provisioning timeout releases it before the tunnel is torn down.
LEMMA FirstPlansKept ==
    Typed /\ PhaseFits /\ FirstLives /\ FirstPlans /\ [Next]_vars => FirstPlans'
<1>. SUFFICES ASSUME Typed, PhaseFits, FirstLives, FirstPlans, [Next]_vars,
                    NEW u \in Sessions, generation'[u] <= 2
             PROVE  KeepsPlan(u)'
  BY DEF FirstPlans
<1>0. /\ TypeOK /\ generation[u] <= 2 /\ KeepsPlan(u)
      /\ Begun(u) /\ \A a \in Of(u) : a \in Assignments /\ BegunOn(u, a)
  BY StillFirst, OfSession DEF Typed, FirstPlans, FirstLives, FirstLife
<1>1. ASSUME UNCHANGED <<lease, planAddress>>, phase'[u] # "revoked" => phase[u] # "revoked",
             phase[u] \in {"failed", "revoking"} => phase'[u] \in {"failed", "revoking", "revoked"},
             \A a \in Of(u) : NoRows(a) => NoRows(a)'
      PROVE  KeepsPlan(u)'
  BY <1>0, <1>1 DEF KeepsPlan, TimedOut
<1>2. CASE UNCHANGED vars
  BY <1>1, <1>2 DEF vars, NoRows
<1>3. ASSUME NEW s \in Sessions,
             SessionStep(s)
      PROVE  KeepsPlan(u)'
  <2>1. CASE u # s
    <3>1. SameOf(u)
      BY <1>0, <1>3, <2>1, HandlersStayInSession
    <3>. QED
      BY <1>0, <3>1 DEF SameOf, KeepsPlan, NoRows, TimedOut
  <2>2. CASE u = s
    <3>1. CASE Schedule(s)
      BY <1>0, <2>2, <3>1 DEF Schedule, KeepsPlan, TypeOK
    <3>2. CASE FailTimedOut(s)
      BY <1>0, <2>2, <3>2 DEF FailTimedOut, Released, KeepsPlan, TimedOut, TypeOK
    <3>3. CASE CompleteRevoked(s)
      BY <1>0, <2>2, <3>3 DEF CompleteRevoked, KeepsPlan, TypeOK
    <3>4. CASE EnqueueCommit(s)
      <4>1. \A a \in Of(s) : ~NoRows(a)
        BY <1>0, <2>2, <3>4, CommitAdds DEF BegunOn
      <4>. QED
        BY <1>1, <2>2, <3>4, <4>1 DEF EnqueueCommit
    <3>5. CASE EnqueueRevocation(s)
      <4>1. \A a \in Of(s) : NoRows(a) => jobs'[a] = jobs[a]
        BY <1>0, <2>2, <3>5, RevocationAdds DEF BegunOn
      <4>. QED
        BY <1>1, <2>2, <3>5, <4>1 DEF EnqueueRevocation, NoRows
    <3>6. ~Reactivate(s)
      <4>1. generation[s] \in Nat \ {0} /\ (Reactivate(s) => generation'[s] = generation[s] + 1)
        BY <1>0, LifecycleAssumption DEF Reactivate, TypeOK
      <4>2. Reactivate(s) => generation[s] = 1 /\ desired[s] = "Revoked"
        BY <1>0, <2>2, <4>1 DEF Reactivate, MayReactivate
      <4>. QED
        BY <1>0, <2>2, <4>2 DEF Begun
    <3>7. CASE \/ Create(s) \/ ActivatePaid(s) \/ DeleteUnpaid(s) \/ Revoke(s) \/ EnforceQuota(s)
               \/ ReadForHide(s) \/ Hide(s) \/ BeginProbing(s) \/ AdvanceToScheduling(s)
               \/ ScheduleFails(s) \/ CompleteProvisioned(s)
      <4>1. UNCHANGED <<jobs, lease, planAddress>>
        BY <3>7 DEF Create, ActivatePaid, DeleteUnpaid, Revoke, EnforceQuota, RequestRevocation,
               ReadForHide, Hide, BeginProbing, AdvanceToScheduling, ScheduleFails, CompleteProvisioned
      <4>2. /\ phase[s] = "revoked" => phase'[s] = "revoked"
            /\ phase[s] \in {"failed", "revoking"} => phase'[s] \in {"failed", "revoking"}
        BY <1>0, <3>7 DEF Create, ActivatePaid, DeleteUnpaid, Revoke, EnforceQuota, RequestRevocation,
               ReadForHide, Hide, BeginProbing, AdvanceToScheduling, ScheduleFails, CompleteProvisioned,
               Provisioned, TypeOK
      <4>. QED
        BY <1>1, <2>2, <4>1, <4>2 DEF NoRows
    <3>. QED
      BY <1>3, <3>1, <3>2, <3>3, <3>4, <3>5, <3>6, <3>7
  <2>. QED
    BY <2>1, <2>2
<1>4. ASSUME \/ \E a \in Assignments : ExpireLease(a)
             \/ \E r \in Roles : \/ Claim(r) \/ Execute(r) \/ ExecuteFails(r)
                             \/ Report(r) \/ ReportTimesOut(r) \/ AgentDies(r)
             \/ LateReport
      PROVE  KeepsPlan(u)'
  <2>1. UNCHANGED <<phase, lease, planAddress>>
    BY <1>4, GatesKeepSessions
  <2>2. \A a \in Assignments : NoRows(a) => NoRows(a)'
    <3>1. ASSUME \A a \in Assignments : KeepsRows(a) PROVE \A a \in Assignments : NoRows(a) => NoRows(a)'
      BY <3>1 DEF KeepsRows, NoRows
    <3>2. CASE \E a \in Assignments : ExpireLease(a)
      BY <1>0, <3>1, <3>2, ExpireEffect
    <3>3. ASSUME NEW r \in Roles, Claim(r) PROVE \A a \in Assignments : KeepsRows(a)
      <4>1. PICK s \in Sessions : \E i \in Rows(<<s, r>>) :
             /\ \A b \in Assignments : KeepsRows(b)
             /\ host' = host
        BY <1>0, <3>3, ClaimEffect
      <4>. QED
        BY <4>1
    <3>4. CASE LateReport \/ \E r \in Roles : Report(r)
      <4>1. PICK t \in Task : t.a \in Assignments /\ t.i \in Rows(t.a) /\ Record(t)
        BY <3>4, ReportEffect
      <4>. QED
        BY <3>1, <4>1, RecordedRow DEF Rows
    <3>5. ASSUME NEW r \in Roles, Execute(r) \/ ExecuteFails(r) \/ ReportTimesOut(r) \/ AgentDies(r)
          PROVE  jobs' = jobs
      BY <3>5 DEF Execute, ExecuteFails, ReportTimesOut, AgentDies
    <3>. QED
      BY <1>4, <3>1, <3>2, <3>3, <3>4, <3>5 DEF NoRows
  <2>. QED
    BY <1>0, <1>1, <2>1, <2>2
<1>. QED
  BY <1>2, <1>3, <1>4 DEF Next

LEMMA LifecycleFirstPlans == Spec => []FirstPlans
<1>1. Init => FirstPlans
  BY DEF Init, FirstPlans, KeepsPlan, NoRows, Of, Assignments
<1>2. Typed /\ PhaseFits /\ FirstLives /\ FirstPlans /\ [Next]_vars => FirstPlans'
  BY FirstPlansKept
<1>. QED
  BY <1>1, <1>2, LifecycleTyped, LifecyclePhaseFits, LifecycleFirstLives, PTL DEF Spec

\* AddressRoutedOnce of the sessions that were revoked once at most.
FirstAddressRoutedOnce ==
    \A s, t \in Sessions : generation[s] <= 2 /\ generation[t] <= 2 =>
        \A r \in Roles :
            host[<<s, r>>].address = host[<<t, r>>].address /\ host[<<s, r>>].address # NoAddress
                => s = t \/ TimedOut(s) \/ TimedOut(t)

\* No two tunnels of first lives carry the same client address, unless a provisioning
\* timeout has taken it from one of them and its session is not revoked yet: for any
\* number of sessions, pools, retries, timeouts, lost reports and crashes, but no late
\* report.  So a session that was not timed out shares its address only with leftovers.
THEOREM LifecycleFirstAddressRoutedOnce ==
    ASSUME ~MayBeLate
    PROVE  Spec => []FirstAddressRoutedOnce
<1>1. TypeOK /\ FirstLives /\ FirstPlans /\ FirstRevokedIsDown /\ LeasesApart /\ OnlyUpCarries
        => FirstAddressRoutedOnce
  <2>. SUFFICES ASSUME TypeOK, FirstLives, FirstPlans, FirstRevokedIsDown, LeasesApart, OnlyUpCarries
               PROVE  FirstAddressRoutedOnce
    OBVIOUS
  <2>1. ASSUME NEW s \in Sessions, NEW r \in Roles, host[<<s, r>>].address # NoAddress,
              generation[s] <= 2, ~TimedOut(s)
        PROVE  lease[s] = host[<<s, r>>].address
    <3>1. <<s, r>> \in Of(s) /\ <<s, r>> \in Assignments
      BY OfSession DEF Assignments
    <3>2. host[<<s, r>>].stage = "committed" /\ phase[s] # "revoked"
      BY <2>1, <3>1 DEF OnlyUpCarries, FirstRevokedIsDown
    <3>3. BegunOn(s, <<s, r>>) /\ KeepsPlan(s)
      BY <2>1, <3>1 DEF FirstLives, FirstLife, FirstPlans
    <3>4. host[<<s, r>>].address = planAddress[s] /\ ~NoRows(<<s, r>>)
      BY <3>2, <3>3 DEF BegunOn
    <3>. QED
      BY <2>1, <3>1, <3>2, <3>3, <3>4 DEF KeepsPlan
  <2>. QED
    BY <2>1 DEF FirstAddressRoutedOnce, LeasesApart
<1>. QED
  BY <1>1, LifecycleTypeOK, LifecycleFirstLives, LifecycleFirstPlans, LifecycleFirstRevokedIsDown,
     LifecycleLeasesApart, LifecycleOnlyUpCarries, PTL

\* The same of all sessions, when none is reactivated.
THEOREM LifecycleAddressRoutedOnce ==
    ASSUME ~MayBeLate, MaxGen <= 2
    PROVE  Spec => []AddressRoutedOnce
<1>1. TypeOK /\ FirstAddressRoutedOnce => AddressRoutedOnce
  <2>1. TypeOK => \A s \in Sessions : generation[s] <= 2
    BY LifecycleAssumption DEF TypeOK
  <2>. QED
    BY <2>1 DEF FirstAddressRoutedOnce, AddressRoutedOnce
<1>. QED
  BY <1>1, LifecycleTypeOK, LifecycleFirstAddressRoutedOnce, PTL

------------------------------------------------------------------------------
\* DriftRepair.

\* Steps that only drop agents' tasks or count a fault.
Quiet ==
    /\ UNCHANGED <<sessionVars, phase, lease, planAddress, artifact, assignmentVars, jobs, host, late>>
    /\ worker' \in [Roles -> SUBSET Task]
    /\ \A r \in Roles : worker'[r] \subseteq worker[r]
    /\ faults' \in 0..faults

\* The steps of drift repair, apart from HandleDifference, are quiet.
LEMMA DriftStepsQuiet ==
    ASSUME TypeOK,
           \/ \E r \in Roles : GateRestarts(r)
           \/ \E r \in Watched : sendActualState(r) \/ updateGateActualState(r) \/ SnapshotLost(r)
           \/ reconcileDrift
           \/ UNCHANGED driftVars
    PROVE  Quiet
<1>0. faults \in Nat /\ faults \in 0..faults
  BY LifecycleAssumption DEF TypeOK
<1>1. CASE \E r \in Roles : GateRestarts(r)
  <2>1. faults - 1 \in 0..faults
    BY <1>0, <1>1 DEF GateRestarts
  <2>. QED
    BY <1>1, <2>1 DEF GateRestarts, Quiet, TypeOK
<1>2. CASE \E r \in Watched : SnapshotLost(r)
  <2>1. faults - 1 \in 0..faults
    BY <1>0, <1>2 DEF SnapshotLost
  <2>. QED
    BY <1>2, <2>1 DEF SnapshotLost, Quiet, TypeOK
<1>3. CASE UNCHANGED vars
  BY <1>0, <1>3 DEF vars, gateVars, Quiet, TypeOK
<1>4. ASSUME NEW r \in Watched, sendActualState(r) \/ updateGateActualState(r) PROVE UNCHANGED vars
  BY <1>4 DEF sendActualState, updateGateActualState
<1>5. reconcileDrift \/ UNCHANGED driftVars => UNCHANGED vars
  BY DEF reconcileDrift, driftVars
<1>. QED
  BY <1>1, <1>2, <1>3, <1>4, <1>5

-----------------------------------------------------------------------------
\* What handling a difference adds to the rows of an assignment.

Revocation == NewJob("revoke", 0, 0, NoAddress)

\* A repair job, a revoke job, one after the other, or nothing.
Handles(d, a) ==
    LET q == WithRepairs(d.missing)[a] IN
    /\ jobs'[a] = q \/ (a \in KnownOrphans(d.orphans) /\ jobs'[a] = Append(q, Revocation))
    /\ q = jobs[a] \/ (a[1] \in RepairableSessions(d.missing) /\ q = Append(jobs[a], RepairJob(a)))

LEMMA DifferenceHandled ==
    ASSUME TypeOK, NEW d, HandleDifference(d), NEW a \in Assignments
    PROVE  /\ Handles(d, a)
           /\ a \in KnownOrphans(d.orphans) => want'[a] = "Revoked" /\ status'[a] \in {"revoked", "revoking"}
           /\ a \notin KnownOrphans(d.orphans) => want'[a] = want[a] /\ status'[a] \in {status[a], "drifted"}
           /\ status'[a] = "drifted" => status[a] \in {"applied", "drifted"}
<1>. DEFINE q == WithRepairs(d.missing)[a]
            marked == MarkedDrifted(d.missing)[a]
<1>1. q = jobs[a] \/ (a[1] \in RepairableSessions(d.missing) /\ q = Append(jobs[a], RepairJob(a)))
  BY DEF WithRepairs, WithApplyJob
<1>2. jobs'[a] = q \/ (a \in KnownOrphans(d.orphans) /\ jobs'[a] = Append(q, Revocation))
  BY DEF HandleDifference, Revocation
<1>3. marked = status[a] \/ (marked = "drifted" /\ status[a] = "applied")
  BY DEF MarkedDrifted
<1>4. /\ want'[a] = IF a \in KnownOrphans(d.orphans) THEN "Revoked" ELSE want[a]
      /\ status'[a] = IF a \in KnownOrphans(d.orphans) /\ status[a] # "revoked" THEN "revoking" ELSE marked
  BY DEF HandleDifference
<1>. HIDE DEF q, marked
<1>. QED
  BY <1>1, <1>2, <1>3, <1>4 DEF Handles, q

\* A repair job is a job.
LEMMA RepairJobType ==
    ASSUME TypeOK, NEW a \in Assignments
    PROVE  RepairJob(a) \in Job
<1>1. Peer[a[2]] \in Roles /\ a[1] \in Sessions
  BY DEF Assignments, Peer, Roles
<1>2. <<a[1], Peer[a[2]]>> \in Assignments
  BY <1>1 DEF Assignments
<1>3. /\ plan[a] \in Nat /\ material[<<a[1], Peer[a[2]]>>] \in Nat
      /\ planAddress[a[1]] \in Addresses \cup {NoAddress}
  BY <1>1, <1>2 DEF TypeOK
<1>. QED
  BY <1>3, NewJobType DEF RepairJob, Operations

\* Every row stays as it is, and a new one is a repair or a revocation.
LEMMA HandledRows ==
    ASSUME TypeOK, NEW d, HandleDifference(d), NEW a \in Assignments
    PROVE  /\ jobs'[a] \in Seq(Job) /\ Len(jobs'[a]) >= Len(jobs[a])
           /\ \A i \in Rows(a) : i \in Rows(a)' /\ jobs'[a][i] = jobs[a][i]
           /\ \A i \in Rows(a)' \ Rows(a) :
                \/ jobs'[a][i] = RepairJob(a) /\ a[1] \in RepairableSessions(d.missing)
                \/ jobs'[a][i] = Revocation /\ a \in KnownOrphans(d.orphans)
<1>. DEFINE q == WithRepairs(d.missing)[a]
<1>1. /\ jobs'[a] = q \/ (a \in KnownOrphans(d.orphans) /\ jobs'[a] = Append(q, Revocation))
      /\ q = jobs[a] \/ (a[1] \in RepairableSessions(d.missing) /\ q = Append(jobs[a], RepairJob(a)))
  BY DifferenceHandled DEF Handles
<1>. HIDE DEF q
<1>2. jobs[a] \in Seq(Job) /\ RepairJob(a) \in Job /\ Revocation \in Job
  BY RepairJobType, NewJobType DEF TypeOK, Revocation, Operations
<1>3. /\ q \in Seq(Job) /\ Len(q) >= Len(jobs[a])
      /\ \A i \in 1..Len(jobs[a]) : i \in 1..Len(q) /\ q[i] = jobs[a][i]
      /\ \A i \in 1..Len(q) \ 1..Len(jobs[a]) :
            q[i] = RepairJob(a) /\ a[1] \in RepairableSessions(d.missing)
  BY <1>1, <1>2
<1>4. /\ jobs'[a] \in Seq(Job) /\ Len(jobs'[a]) >= Len(q)
      /\ \A i \in 1..Len(q) : i \in 1..Len(jobs'[a]) /\ jobs'[a][i] = q[i]
      /\ \A i \in 1..Len(jobs'[a]) \ 1..Len(q) :
            jobs'[a][i] = Revocation /\ a \in KnownOrphans(d.orphans)
  <2>1. CASE jobs'[a] = q
    BY <1>3, <2>1
  <2>2. CASE a \in KnownOrphans(d.orphans) /\ jobs'[a] = Append(q, Revocation)
    BY <1>2, <1>3, <2>2
  <2>. QED
    BY <1>1, <2>1, <2>2
<1>5. Len(jobs[a]) \in Nat /\ Len(q) \in Nat /\ Len(jobs'[a]) \in Nat
  BY <1>2, <1>3, <1>4
<1>. QED
  BY <1>3, <1>4, <1>5 DEF Rows

-----------------------------------------------------------------------------
\* Type correctness.

\* What the differences are made of.
DifferencesTyped ==
    /\ sent \in [Watched -> SUBSET Lists]
    /\ latest \in [Watched -> SUBSET Lists]
    /\ fresh \subseteq Assignments
    /\ found \subseteq Differences
    /\ kernel \subseteq {a \in Assignments : host[a].stage = "committed"}

DriftTyped == Typed /\ DifferencesTyped

\* Quiet steps keep the types of the lifecycle.
LEMMA QuietTyped == Typed /\ Quiet => Typed'
<1>. SUFFICES ASSUME Typed, Quiet PROVE Typed'
  OBVIOUS
<1>1. faults' \in 0..MaxFaults
  BY LifecycleAssumption DEF Typed, TypeOK, Quiet
<1>2. TypeOK'
  BY <1>1 DEF Typed, TypeOK, Quiet, sessionVars, assignmentVars
<1>3. TasksHaveJobs'
  BY DEF Typed, TasksHaveJobs, Quiet
<1>. QED
  BY <1>2, <1>3 DEF Typed

\* So does handling a difference.
LEMMA HandledTyped == \A d : Typed /\ HandleDifference(d) => Typed'
<1>. SUFFICES ASSUME NEW d, Typed, HandleDifference(d) PROVE Typed'
  OBVIOUS
<1>0. TypeOK
  BY DEF Typed
<1>1. jobs' \in [Assignments -> Seq(Job)]
  <2>1. \A a \in Assignments : jobs'[a] \in Seq(Job)
    BY <1>0, HandledRows
  <2>2. jobs' = [a \in Assignments |-> jobs'[a]]
    BY DEF HandleDifference
  <2>. QED
    BY <2>1, <2>2
<1>2. want' \in [Assignments -> {"Applied", "Revoked"}]
  BY <1>0 DEF HandleDifference, TypeOK
<1>3. status' \in [Assignments -> Statuses]
  <2>1. \A a \in Assignments : status'[a] \in Statuses
    BY <1>0, DifferenceHandled DEF Statuses, TypeOK
  <2>2. status' = [a \in Assignments |-> status'[a]]
    BY DEF HandleDifference
  <2>. QED
    BY <2>1, <2>2
<1>4. TypeOK'
  BY <1>0, <1>1, <1>2, <1>3 DEF HandleDifference, TypeOK, sessionVars, gateVars
<1>5. TasksHaveJobs'
  <2>1. worker' = worker /\ late' = late
    BY DEF HandleDifference, gateVars
  <2>2. \A a \in Assignments : jobs'[a] \in Seq(Job) /\ Len(jobs'[a]) >= Len(jobs[a])
    BY <1>0, HandledRows
  <2>. QED
    BY <1>0, <2>1, <2>2, TasksKept DEF Typed
<1>. QED
  BY <1>4, <1>5 DEF Typed

\* A difference is made of assignments.
LEMMA DifferenceTyped ==
    ASSUME NEW r \in Watched, NEW actual \in SUBSET Assignments
    PROVE  Difference(r, actual) \in Differences
BY DEF Difference, Differences, DesiredHandles, DesiredWhenApplied

LEMMA DifferencesTypedKept ==
    DriftTyped /\ [DriftNext]_driftVars => DifferencesTyped'
<1>. SUFFICES ASSUME DriftTyped, [DriftNext]_driftVars PROVE DifferencesTyped'
  OBVIOUS
<1>. USE DEF DriftTyped, DifferencesTyped
<1>1. CASE LifecycleStep
  BY <1>1 DEF LifecycleStep
<1>2. ASSUME NEW r \in Roles, GateRestarts(r) PROVE DifferencesTyped'
  BY <1>2 DEF GateRestarts
<1>3. ASSUME NEW r \in Watched, sendActualState(r) PROVE DifferencesTyped'
  <2>1. [handles |-> {a \in Assignments : a[2] = r /\ Present(a)}] \in Lists
    BY DEF Lists
  <2>2. sent' \in [Watched -> SUBSET Lists]
    BY <1>3, <2>1 DEF sendActualState
  <2>. QED
    BY <1>3, <2>2 DEF sendActualState, vars, gateVars
<1>4. ASSUME NEW r \in Watched, updateGateActualState(r) PROVE DifferencesTyped'
  <2>1. latest' \in [Watched -> SUBSET Lists] /\ sent' \in [Watched -> SUBSET Lists]
    BY <1>4 DEF updateGateActualState
  <2>. QED
    BY <1>4, <2>1 DEF updateGateActualState, vars, gateVars
<1>5. ASSUME NEW r \in Watched, SnapshotLost(r) PROVE DifferencesTyped'
  <2>1. sent' \in [Watched -> SUBSET Lists]
    BY <1>5 DEF SnapshotLost
  <2>. QED
    BY <1>5, <2>1 DEF SnapshotLost
<1>6. CASE reconcileDrift
  <2>1. \A r \in Watched : \A l \in latest[r] : Difference(r, l.handles) \in Differences
    BY DifferenceTyped DEF Lists
  <2>2. AllDifferences \subseteq Differences
    BY <2>1 DEF AllDifferences
  <2>. QED
    BY <1>6, <2>2 DEF reconcileDrift, vars, gateVars
<1>7. ASSUME NEW d, HandleDifference(d) PROVE DifferencesTyped'
  BY <1>7 DEF HandleDifference, gateVars
<1>8. CASE UNCHANGED driftVars
  BY <1>8 DEF driftVars, driftOnly, vars, gateVars
<1>. QED
  BY <1>1, <1>2, <1>3, <1>4, <1>5, <1>6, <1>7, <1>8 DEF DriftNext

\* A step of the lifecycle, of drift repair on the tables, or of no concern to them.
LEMMA DriftSteps ==
    ASSUME TypeOK, [DriftNext]_driftVars
    PROVE  Next \/ Quiet \/ \E d \in found : HandleDifference(d)
<1>1. LifecycleStep => Next
  BY DEF LifecycleStep
<1>. QED
  BY <1>1, DriftStepsQuiet DEF DriftNext

LEMMA DriftTypedKept == DriftTyped /\ [DriftNext]_driftVars => DriftTyped'
<1>. SUFFICES ASSUME DriftTyped, [DriftNext]_driftVars PROVE Typed'
  BY DifferencesTypedKept DEF DriftTyped
<1>1. Typed /\ TypeOK
  BY DEF DriftTyped, Typed
<1>. QED
  BY <1>1, DriftSteps, NextTyped, QuietTyped, HandledTyped

LEMMA DriftInitTyped == DriftInit => DriftTyped
<1>. SUFFICES ASSUME DriftInit PROVE DifferencesTyped
  BY InitTyped DEF DriftInit, DriftTyped
<1>. QED
  BY DEF DriftInit, DifferencesTyped

LEMMA DriftAlwaysTyped == DriftSpec => []DriftTyped
BY DriftInitTyped, DriftTypedKept, PTL DEF DriftSpec

\* Every variable keeps its type, and what is in a gate's kernel was committed there.
THEOREM DriftRepairTypeOK == DriftSpec => []DriftTypeOK
<1>1. DriftTyped => DriftTypeOK
  BY DEF DriftTyped, DifferencesTyped, DriftTypeOK, Typed
<1>. QED
  BY <1>1, DriftAlwaysTyped, PTL

-----------------------------------------------------------------------------
\* The first life of a session.

\* Quiet steps touch no session.
LEMMA QuietSame ==
    ASSUME Quiet
    PROVE  \A u \in Sessions : SameOf(u)
BY DEF Quiet, SameOf, sessionVars, assignmentVars

LEMMA DriftPhaseFitsKept == DriftTyped /\ PhaseFits /\ [DriftNext]_driftVars => PhaseFits'
<1>. SUFFICES ASSUME DriftTyped, PhaseFits, [DriftNext]_driftVars PROVE PhaseFits'
  OBVIOUS
<1>1. TypeOK
  BY DEF DriftTyped, Typed
<1>2. UNCHANGED <<sessionVars, phase, lease, planAddress, artifact>> => PhaseFits'
  BY DEF PhaseFits, LeaseCoversProvisioning, ConfigOnlyWhileUp, sessionVars
<1>3. Quiet \/ (\E d : HandleDifference(d)) => UNCHANGED <<sessionVars, phase, lease, planAddress, artifact>>
  BY DEF Quiet, HandleDifference
<1>. QED
  BY <1>1, <1>2, <1>3, DriftSteps, PhaseFitsKept

LEMMA DriftPhaseFits == DriftSpec => []PhaseFits
<1>1. DriftInit => PhaseFits
  BY DEF DriftInit, Init, PhaseFits, LeaseCoversProvisioning, ConfigOnlyWhileUp
<1>. QED
  BY <1>1, DriftPhaseFitsKept, DriftAlwaysTyped, PTL DEF DriftSpec

\* Repairs and cleanups come after the first commit of the session, or the end of it.
LEMMA HandledFirstLife ==
    ASSUME TypeOK, NEW s \in Sessions, FirstLife(s), NEW d, HandleDifference(d)
    PROVE  FirstLife(s)'
<1>1. UNCHANGED <<desired, generation, phase, planAddress, host>>
  BY DEF HandleDifference, sessionVars, gateVars
<1>. SUFFICES ASSUME generation[s] <= 2 PROVE Begun(s)' /\ \A a \in Of(s) : BegunOn(s, a)'
  BY <1>1 DEF FirstLife
<1>2. Begun(s) /\ \A a \in Of(s) : BegunOn(s, a)
  BY DEF FirstLife
<1>3. ASSUME NEW a \in Of(s) PROVE (NoRows(a)' <=> NoRows(a)) /\ BegunOn(s, a)'
  <2>1. a \in Assignments /\ a[1] = s /\ BegunOn(s, a)
    BY <1>2, OfSession
  <2>2. /\ a \in KnownOrphans(d.orphans) => want'[a] = "Revoked" /\ status'[a] \in {"revoked", "revoking"}
        /\ a \notin KnownOrphans(d.orphans) => want'[a] = want[a] /\ status'[a] \in {status[a], "drifted"}
        /\ status'[a] = "drifted" => status[a] \in {"applied", "drifted"}
    BY <2>1, DifferenceHandled
  <2>3. /\ Len(jobs[a]) \in Nat /\ Len(jobs'[a]) \in Nat /\ Len(jobs'[a]) >= Len(jobs[a])
        /\ \A i \in Rows(a) : i \in Rows(a)' /\ jobs'[a][i] = jobs[a][i]
        /\ \A i \in Rows(a)' \ Rows(a) :
             \/ jobs'[a][i] = RepairJob(a) /\ a[1] \in RepairableSessions(d.missing)
             \/ jobs'[a][i] = Revocation /\ a \in KnownOrphans(d.orphans)
    BY <2>1, HandledRows DEF TypeOK
  <2>4. a \in KnownOrphans(d.orphans) => want[a] = "Revoked" \/ status[a] \in {"revoking", "revoked", "dead"}
    BY DEF KnownOrphans
  <2>5. RepairJob(a).op = "commit" /\ RepairJob(a).address = planAddress[s] /\ Revocation.op = "revoke"
    BY <2>1 DEF RepairJob, Revocation, NewJob
  <2>6. a[1] \in RepairableSessions(d.missing) => ~NoRows(a)
    BY <1>2, <2>1 DEF RepairableSessions, Begun
  <2>7. a \in KnownOrphans(d.orphans) => ~NoRows(a)
    BY <2>1, <2>4 DEF BegunOn
  <2>8. NoRows(a)' <=> NoRows(a)
    <3>1. NoRows(a)' => NoRows(a)
      BY <2>3 DEF NoRows
    <3>2. ASSUME NoRows(a), ~NoRows(a)' PROVE FALSE
      <4>1. 1 \in Rows(a)' \ Rows(a)
        BY <2>3, <3>2 DEF NoRows, Rows
      <4>. QED
        BY <2>3, <2>6, <2>7, <3>2, <4>1
    <3>. QED
      BY <3>1, <3>2
  <2>9. ASSUME NEW i \in Rows(a)'
        PROVE  /\ jobs'[a][i].op = "prepare" => i = 1
               /\ jobs'[a][i].op = "commit" => jobs'[a][i].address = planAddress[s]
    <3>1. CASE i \in Rows(a)
      BY <2>1, <2>3, <3>1 DEF BegunOn
    <3>2. CASE i \notin Rows(a)
      <4>1. jobs'[a][i] = RepairJob(a) \/ jobs'[a][i] = Revocation
        BY <2>3, <3>2
      <4>. QED
        BY <2>5, <4>1
    <3>. QED
      BY <3>1, <3>2
  <2>10. HasRow(a, "commit") => HasRow(a, "commit")'
    BY <2>3 DEF HasRow
  <2>11. HasRow(a, "revoke")' => HasRow(a, "revoke") \/ a \in KnownOrphans(d.orphans)
    <3>1. SUFFICES ASSUME NEW i \in Rows(a)', jobs'[a][i].op = "revoke", a \notin KnownOrphans(d.orphans)
                   PROVE  i \in Rows(a) /\ jobs[a][i].op = "revoke"
      BY DEF HasRow
    <3>2. i \in Rows(a)
      BY <2>3, <2>5, <3>1
    <3>. QED
      BY <2>3, <3>1, <3>2
  <2>12. status'[a] = "absent" <=> status[a] = "absent"
    BY <2>1, <2>2, <2>7 DEF BegunOn
  <2>13. NoRows(a)' <=> status'[a] = "absent"
    BY <2>1, <2>8, <2>12 DEF BegunOn
  <2>14. NoRows(a)' => host'[a].stage = "none" /\ want'[a] = "Applied"
    BY <1>1, <2>1, <2>2, <2>7, <2>8 DEF BegunOn
  <2>15. generation'[s] = 1 /\ want'[a] = "Applied" =>
           ~HasRow(a, "revoke")' /\ status'[a] \notin {"revoking", "revoked"}
    BY <1>1, <2>1, <2>2, <2>11 DEF BegunOn
  <2>16. status'[a] \in {"applied", "drifted"} => HasRow(a, "commit")'
    BY <2>1, <2>2, <2>10 DEF BegunOn
  <2>17. host'[a].stage = "committed" => host'[a].address = planAddress'[s] /\ HasRow(a, "commit")'
    BY <1>1, <2>1, <2>10 DEF BegunOn
  <2>. QED
    BY <1>1, <2>8, <2>9, <2>13, <2>14, <2>15, <2>16, <2>17 DEF BegunOn
<1>4. Begun(s)'
  BY <1>1, <1>2, <1>3 DEF Begun
<1>. QED
  BY <1>3, <1>4

LEMMA DriftFirstLivesKept ==
    DriftTyped /\ PhaseFits /\ FirstLives /\ [DriftNext]_driftVars => FirstLives'
<1>. SUFFICES ASSUME DriftTyped, PhaseFits, FirstLives, [DriftNext]_driftVars PROVE FirstLives'
  OBVIOUS
<1>1. Typed /\ TypeOK
  BY DEF DriftTyped, Typed
<1>2. CASE Quiet
  BY <1>2, QuietSame, SameFirstLife DEF FirstLives
<1>3. CASE \E d : HandleDifference(d)
  BY <1>1, <1>3, HandledFirstLife DEF FirstLives
<1>. QED
  BY <1>1, <1>2, <1>3, DriftSteps, FirstLivesKept

LEMMA DriftFirstLives == DriftSpec => []FirstLives
<1>1. DriftInit => FirstLives
  BY DEF DriftInit, Init, FirstLives, FirstLife, Begun, BegunOn, NoRows, HasRow, Rows, Of, Assignments
<1>. QED
  BY <1>1, DriftFirstLivesKept, DriftAlwaysTyped, DriftPhaseFits, PTL DEF DriftSpec

\* The lifecycle itself gives up what a user, a payment or a quota has revoked.
LEMMA LifecycleGivesUp ==
    ASSUME Next, NEW a \in Assignments, want[a] = "Applied", want'[a] = "Revoked"
    PROVE  desired[a[1]] = "Revoked"
<1>1. ASSUME NEW s \in Sessions, SessionStep(s) PROVE desired[a[1]] = "Revoked"
  <2>1. CASE Schedule(s)
    BY <2>1 DEF Schedule
  <2>2. CASE EnqueueRevocation(s)
    <3>1. a \in ToRevoke(s) /\ desired[s] = "Revoked"
      BY <2>2 DEF EnqueueRevocation
    <3>. QED
      BY <3>1 DEF ToRevoke, Of
  <2>3. ASSUME ~Schedule(s), ~EnqueueRevocation(s) PROVE want' = want
    BY <1>1, <2>3 DEF Create, ActivatePaid, DeleteUnpaid, Revoke, EnforceQuota, RequestRevocation,
           Reactivate, ReadForHide, Hide, BeginProbing, AdvanceToScheduling, ScheduleFails,
           EnqueueCommit, CompleteProvisioned, FailTimedOut, CompleteRevoked, assignmentVars
  <2>. QED
    BY <2>1, <2>2, <2>3
<1>2. ASSUME \/ \E b \in Assignments : ExpireLease(b)
             \/ \E r \in Roles : \/ Claim(r) \/ Execute(r) \/ ExecuteFails(r)
                               \/ Report(r) \/ ReportTimesOut(r) \/ AgentDies(r)
             \/ LateReport
      PROVE  want' = want
  BY <1>2 DEF ExpireLease, Claim, Execute, ExecuteFails, Report, ReportTimesOut, AgentDies, LateReport,
         assignmentVars
<1>. QED
  BY <1>1, <1>2 DEF Next

\* In a first life nothing that is wanted is shown as revoking or revoked, so the cleanup
\* of what is left over takes a wanted assignment for an orphan only when it is dead: for
\* any number of sessions and faults, lists that are old or lost, hosts that restart,
\* timeouts and late reports (listKnownOrphanAssignmentsForCleanup).
THEOREM DriftCleanupSparesWanted == DriftSpec => CleanupSparesWanted
<1>1. DriftTyped /\ FirstLives /\ [DriftNext]_driftVars =>
        [\A a \in Assignments :
            want[a] = "Applied" /\ want'[a] = "Revoked" /\ generation[a[1]] <= 2 =>
               desired[a[1]] = "Revoked" \/ status[a] = "dead"]_driftVars
  <2>. SUFFICES ASSUME DriftTyped, FirstLives, [DriftNext]_driftVars, NEW a \in Assignments,
                      want[a] = "Applied", want'[a] = "Revoked", generation[a[1]] <= 2
               PROVE  desired[a[1]] = "Revoked" \/ status[a] = "dead"
    OBVIOUS
  <2>1. TypeOK /\ a[1] \in Sessions /\ a \in Of(a[1])
    BY DEF DriftTyped, Typed, Assignments, Of
  <2>2. Begun(a[1]) /\ BegunOn(a[1], a)
    BY <2>1 DEF FirstLives, FirstLife
  <2>3. generation[a[1]] \in {1, 2}
    BY <2>1, LifecycleAssumption DEF TypeOK
  <2>4. ~Quiet
    BY DEF Quiet, assignmentVars
  <2>5. ASSUME NEW d, HandleDifference(d) PROVE desired[a[1]] = "Revoked" \/ status[a] = "dead"
    <3>1. a \in KnownOrphans(d.orphans)
      BY <2>5 DEF HandleDifference
    <3>2. status[a] \in {"revoking", "revoked", "dead"}
      BY <3>1 DEF KnownOrphans
    <3>. QED
      BY <2>2, <2>3, <3>2 DEF Begun, BegunOn
  <2>. QED
    BY <2>1, <2>4, <2>5, DriftSteps, LifecycleGivesUp
<1>. QED
  BY <1>1, DriftAlwaysTyped, DriftFirstLives, PTL DEF DriftSpec, CleanupSparesWanted

-----------------------------------------------------------------------------
\* The keys of a session's first tunnel.

\* What was found missing had been committed.
MissingHad ==
    \A d \in found : \A a \in d.missing : generation[a[1]] <= 2 => HasRow(a, "commit")

\* No step takes a row away.
LEMMA DriftRowsStay ==
    ASSUME DriftTyped, [DriftNext]_driftVars, NEW a \in Assignments
    PROVE  RowsStay(a)
<1>1. Typed /\ TypeOK
  BY DEF DriftTyped, Typed
<1>2. CASE Quiet
  BY <1>1, <1>2, RowsOfStep DEF Quiet
<1>3. CASE \E d : HandleDifference(d)
  BY <1>1, <1>3, HandledRows DEF RowsStay
<1>4. ASSUME NEW s \in Sessions, SessionStep(s) PROVE RowsStay(a)
  BY <1>1, <1>4, HandlersKeepRows DEF RowsLast
<1>5. ASSUME NEW b \in Assignments, ExpireLease(b) PROVE RowsStay(a)
  BY <1>1, <1>5, ExpireEffect, RowsOfStep
<1>6. ASSUME NEW r \in Roles, Claim(r) PROVE RowsStay(a)
  BY <1>1, <1>6, ClaimEffect, RowsOfStep
<1>7. ASSUME NEW r \in Roles, Execute(r) \/ ExecuteFails(r) \/ ReportTimesOut(r) \/ AgentDies(r)
      PROVE  RowsStay(a)
  <2>1. jobs' = jobs
    BY <1>7 DEF Execute, ExecuteFails, ReportTimesOut, AgentDies
  <2>. QED
    BY <1>1, <2>1, RowsOfStep
<1>8. CASE LateReport \/ \E r \in Roles : Report(r)
  <2>1. PICK t \in Task : t.i \in Rows(t.a) /\ Record(t)
    BY <1>1, <1>8, ReportEffect
  <2>. QED
    BY <1>1, <2>1, RecordedRow, RowsOfStep DEF Rows
<1>. QED
  BY <1>1, <1>2, <1>3, <1>4, <1>5, <1>6, <1>7, <1>8, DriftSteps DEF Next

\* Generations only grow.
LEMMA DriftStillFirst ==
    ASSUME DriftTyped, [DriftNext]_driftVars, NEW s \in Sessions
    PROVE  /\ generation'[s] = 1 => generation[s] = 1
           /\ generation'[s] <= 2 => generation[s] <= 2
<1>1. TypeOK
  BY DEF DriftTyped, Typed
<1>2. Quiet \/ (\E d : HandleDifference(d)) => generation' = generation
  BY DEF Quiet, HandleDifference, sessionVars
<1>. QED
  BY <1>1, <1>2, DriftSteps, StillFirst

LEMMA MissingHadKept ==
    DriftTyped /\ FirstLives /\ MissingHad /\ [DriftNext]_driftVars => MissingHad'
<1>. SUFFICES ASSUME DriftTyped, FirstLives, MissingHad, [DriftNext]_driftVars,
                    NEW d \in found', NEW a \in d.missing, generation'[a[1]] <= 2
             PROVE  HasRow(a, "commit")'
  BY DEF MissingHad
<1>0. TypeOK /\ found \subseteq Differences /\ found' \subseteq Differences
  BY DriftTypedKept DEF DriftTyped, DifferencesTyped, Typed
<1>1. a \in Assignments /\ a[1] \in Sessions /\ a \in Of(a[1])
  BY <1>0 DEF Differences, Assignments, Of
<1>2. generation[a[1]] <= 2 /\ RowsStay(a)
  BY <1>1, DriftStillFirst, DriftRowsStay
<1>3. d \in found => HasRow(a, "commit")
  BY <1>2 DEF MissingHad
<1>4. CASE d \notin found
  <2>1. reconcileDrift
    BY <1>4 DEF DriftNext, LifecycleStep, GateRestarts, sendActualState, updateGateActualState,
           SnapshotLost, HandleDifference, driftVars, driftOnly
  <2>2. PICK r \in Watched : \E l \in latest[r] : d = Difference(r, l.handles)
    BY <2>1 DEF reconcileDrift, AllDifferences
  <2>3. status[a] \in {"applied", "drifted"}
    BY <2>2 DEF Difference, DesiredHandles, DesiredWhenApplied
  <2>. QED
    BY <1>1, <1>2, <2>1, <2>3 DEF FirstLives, FirstLife, BegunOn, RowsStay, HasRow
<1>. QED
  BY <1>2, <1>3, <1>4 DEF RowsStay, HasRow

\* Nobody wants again, in a first generation, what drift repair gave up.
LEMMA HandledStillWanted ==
    ASSUME TypeOK, NEW d, HandleDifference(d), NEW s \in Sessions, FirstWanted(s)'
    PROVE  FirstWanted(s) /\ \A a \in Of(s) : a \notin KnownOrphans(d.orphans)
<1>1. generation' = generation
  BY DEF HandleDifference, sessionVars
<1>2. \A a \in Of(s) : a \in Assignments /\ want'[a] = "Applied"
  BY OfSession DEF FirstWanted
<1>3. \A a \in Of(s) : a \notin KnownOrphans(d.orphans) /\ want[a] = "Applied"
  BY <1>2, DifferenceHandled
<1>. QED
  BY <1>1, <1>3 DEF FirstWanted

LEMMA DriftStillWanted ==
    ASSUME DriftTyped, FirstLives, [DriftNext]_driftVars, NEW s \in Sessions, FirstWanted(s)'
    PROVE  FirstWanted(s)
<1>1. TypeOK /\ FirstLife(s)
  BY DEF DriftTyped, Typed, FirstLives
<1>2. Quiet => FirstWanted(s)
  BY DEF Quiet, FirstWanted, sessionVars, assignmentVars
<1>. QED
  BY <1>1, <1>2, DriftSteps, HandledStillWanted, StillWanted

\* A repair sends the keys that the gates have: both were reported before the first
\* commit, without which nothing is found missing.
LEMMA HandledFirstKeys ==
    ASSUME TypeOK, MissingHad, NEW s \in Sessions, FirstKeys(s), NEW d \in found, HandleDifference(d)
    PROVE  FirstKeys(s)'
<1>. SUFFICES ASSUME FirstWanted(s)' PROVE Keys(s)' /\ \A a \in Of(s) : KeysOn(s, a)'
  BY DEF FirstKeys
<1>1. UNCHANGED <<phase, lease, planAddress, artifact, material, host>>
  BY DEF HandleDifference, gateVars
<1>2. FirstWanted(s) /\ \A a \in Of(s) : a \notin KnownOrphans(d.orphans)
  BY HandledStillWanted
<1>3. Keys(s) /\ \A a \in Of(s) : KeysOn(s, a)
  BY <1>2 DEF FirstKeys
<1>4. Keys(s)'
  BY <1>1, <1>3 DEF Keys
<1>5. ASSUME s \in RepairableSessions(d.missing) PROVE \A b \in Of(s) : material[b] = 1
  <2>1. PICK b \in Of(s) : b \in d.missing
    BY <1>5 DEF RepairableSessions
  <2>2. b[1] = s /\ generation[s] <= 2
    BY <1>2, OfSession DEF FirstWanted
  <2>3. HasRow(b, "commit")
    BY <2>1, <2>2 DEF MissingHad
  <2>. QED
    BY <1>3, <2>3 DEF KeysOn, HasRow
<1>6. ASSUME NEW a \in Of(s) PROVE KeysOn(s, a)'
  <2>1. a \in Assignments /\ a[1] = s /\ a[2] \in Roles /\ KeysOn(s, a)
    BY <1>3, OfSession
  <2>2. status'[a] \in {status[a], "drifted"}
    BY <1>2, <2>1, DifferenceHandled
  <2>3. \A i \in Rows(a)' : \/ i \in Rows(a) /\ jobs'[a][i] = jobs[a][i]
                            \/ jobs'[a][i] = RepairJob(a) /\ s \in RepairableSessions(d.missing)
    BY <1>2, <2>1, HandledRows
  <2>4. s \in RepairableSessions(d.missing) => RepairJob(a).peer = 1
    <3>1. <<s, Peer[a[2]]>> \in Of(s)
      BY <2>1 DEF Of, Peer, Roles
    <3>2. RepairJob(a).peer = material[<<s, Peer[a[2]]>>]
      BY <2>1 DEF RepairJob, NewJob
    <3>. QED
      BY <1>5, <3>1, <3>2
  <2>5. \A i \in Rows(a)' : jobs'[a][i].op = "commit" =>
           jobs'[a][i].peer = 1 /\ \A b \in Of(s) : material[b] = 1
    BY <1>5, <2>1, <2>3, <2>4 DEF KeysOn
  <2>. QED
    BY <1>1, <2>1, <2>2, <2>5 DEF KeysOn
<1>. QED
  BY <1>4, <1>6

LEMMA DriftFirstKeysKept ==
    DriftTyped /\ PhaseFits /\ FirstLives /\ MissingHad /\ FirstTunnels /\ [DriftNext]_driftVars
        => FirstKeysOfAll'
<1>. SUFFICES ASSUME DriftTyped, PhaseFits, FirstLives, MissingHad, FirstTunnels, [DriftNext]_driftVars
             PROVE  FirstKeysOfAll'
  OBVIOUS
<1>1. Typed /\ TypeOK /\ FirstKeysOfAll /\ TasksTrue
  BY DEF DriftTyped, Typed, FirstTunnels
<1>2. CASE Quiet
  BY <1>1, <1>2, QuietSame, SameFirstKeys DEF FirstKeysOfAll
<1>3. CASE \E d \in found : HandleDifference(d)
  BY <1>1, <1>3, HandledFirstKeys DEF FirstKeysOfAll
<1>. QED
  BY <1>1, <1>2, <1>3, DriftSteps, StepKeepsFirstKeys

\* Reports of success stay true among repairs: neither they nor a restart reach the host's state.
LEMMA DriftTasksKept ==
    DriftTyped /\ FirstLives /\ FirstTunnels /\ [DriftNext]_driftVars => TasksTrue'
<1>. SUFFICES ASSUME DriftTyped, FirstLives, FirstTunnels, [DriftNext]_driftVars PROVE TasksTrue'
  OBVIOUS
<1>1. Typed /\ TypeOK /\ FirstKeysOfAll /\ TasksTrue
  BY DEF DriftTyped, Typed, FirstTunnels
<1>2. CASE Quiet \/ \E d : HandleDifference(d)
  <2>1. /\ \A r \in Roles : worker'[r] \subseteq worker[r]
        /\ late' = late /\ host' = host
    BY <1>2 DEF Quiet, HandleDifference, gateVars
  <2>2. ASSUME NEW t \in Task, t.a \in Assignments, t.i \in Rows(t.a), TaskKey(t) PROVE TaskKey(t)'
    <3>1. t.a[1] \in Sessions /\ RowsStay(t.a)
      BY <2>2, DriftRowsStay DEF Assignments
    <3>. QED
      BY <2>1, <2>2, <3>1, DriftStillWanted, TaskKeyStays
  <2>3. ASSUME NEW r \in Roles, NEW t \in worker'[r] PROVE TaskKey(t)'
    <3>1. t \in worker[r]
      BY <2>1
    <3>. QED
      BY <1>1, <2>2, <3>1, TaskHeld DEF TasksTrue
  <2>4. ASSUME NEW t \in late' PROVE TaskKey(t)'
    BY <1>1, <2>1, <2>2, TaskLate DEF TasksTrue
  <2>. QED
    BY <2>3, <2>4 DEF TasksTrue
<1>. QED
  BY <1>1, <1>2, DriftSteps, StepKeepsTasks

DriftTunnels == MissingHad /\ FirstTunnels

LEMMA DriftFirstTunnels == DriftSpec => []DriftTunnels
<1>1. DriftInit => DriftTunnels
  BY DEF DriftInit, Init, DriftTunnels, MissingHad, FirstTunnels, FirstKeysOfAll, FirstKeys, Keys, KeysOn,
         TasksTrue, Rows, Of, Assignments
<1>2. DriftTyped /\ PhaseFits /\ FirstLives /\ DriftTunnels /\ [DriftNext]_driftVars => DriftTunnels'
  BY MissingHadKept, DriftFirstKeysKept, DriftTasksKept DEF DriftTunnels, FirstTunnels
<1>. QED
  BY <1>1, <1>2, DriftAlwaysTyped, DriftPhaseFits, DriftFirstLives, PTL DEF DriftSpec

-----------------------------------------------------------------------------
\* Why no job of a first generation dies while there are fewer faults than attempts:
\* every attempt a job has used, or is about to use, was a fault.

\* The tasks of an agent are its own, and carry a key if they succeeded.
PlainTasks ==
    /\ \A r \in Roles : \A t \in worker[r] : t.a[2] = r /\ (t.result # "succeeded" => t.key = 0)
    /\ \A t \in late : t.result # "running" /\ (t.result # "succeeded" => t.key = 0)

\* Reports of failure of job i of assignment a that are still to come.
Reports(tasks, a, i) ==
    IF \E t \in tasks : t.a = a /\ t.i = i /\ t.result = "retryable_failed" THEN 1 ELSE 0

Affordable ==
    \A s \in Sessions : FirstWanted(s) =>
        \A a \in Of(s) : \A i \in Rows(a) :
            jobs[a][i].retries + Reports(worker[a[2]], a, i) + Reports(late, a, i) <= MaxFaults - faults

\* What a session wants in its first generation is not dead until its provisioning fails.
NoneDies ==
    \A s \in Sessions : generation[s] = 1 /\ phase[s] # "failed" =>
        \A a \in Of(s) : want[a] = "Applied" /\ status[a] # "dead"

LEMMA PlainTasksKept == DriftTyped /\ PlainTasks /\ [DriftNext]_driftVars => PlainTasks'
<1>. SUFFICES ASSUME DriftTyped, PlainTasks, [DriftNext]_driftVars PROVE PlainTasks'
  OBVIOUS
<1>. USE DEF PlainTasks
<1>0. Typed /\ TypeOK
  BY DEF DriftTyped, Typed
<1>1. (\A r \in Roles : worker'[r] \subseteq worker[r]) /\ late' \subseteq late => PlainTasks'
  OBVIOUS
<1>2. CASE Quiet \/ \E d : HandleDifference(d)
  BY <1>1, <1>2 DEF Quiet, HandleDifference, gateVars
<1>3. ASSUME NEW s \in Sessions, SessionStep(s) PROVE PlainTasks'
  BY <1>0, <1>1, <1>3, HandlersKeepRows DEF gateVars
<1>4. ASSUME NEW a \in Assignments, ExpireLease(a) PROVE PlainTasks'
  BY <1>1, <1>4 DEF ExpireLease, gateVars
<1>5. ASSUME NEW r \in Roles, Claim(r) PROVE PlainTasks'
  <2>1. PICK s \in Sessions : \E i \in Rows(<<s, r>>) :
             worker' = [worker EXCEPT ![r] = {ClaimedTask(<<s, r>>, i)}] /\ late' = late
    BY <1>0, <1>5, ClaimEffect
  <2>2. PICK i \in Rows(<<s, r>>) : worker' = [worker EXCEPT ![r] = {ClaimedTask(<<s, r>>, i)}]
    BY <2>1
  <2>3. PICK u : u = ClaimedTask(<<s, r>>, i)
    OBVIOUS
  <2>4. u.a[2] = r /\ u.key = 0
    BY <2>3 DEF ClaimedTask
  <2>5. \A q \in Roles : \A t \in worker'[q] : t \in worker[q] \/ (q = r /\ t = u)
    BY <1>0, <2>2, <2>3 DEF TypeOK
  <2>. QED
    BY <2>1, <2>4, <2>5
<1>6. ASSUME NEW r \in Roles, Execute(r) PROVE PlainTasks'
  <2>1. PICK t \in worker[r] :
             worker' = [worker EXCEPT ![r] = {DoneTask(t, host'[t.a].key)}] /\ late' = late
    BY <1>0, <1>6, ExecuteEffect
  <2>2. PICK u : u = DoneTask(t, host'[t.a].key)
    OBVIOUS
  <2>3. u.a = t.a /\ u.result = "succeeded"
    BY <1>0, <2>2, TaskHeld DEF DoneTask, Task
  <2>4. \A q \in Roles : \A v \in worker'[q] : v \in worker[q] \/ (q = r /\ v = u)
    BY <1>0, <2>1, <2>2 DEF TypeOK
  <2>. QED
    BY <2>1, <2>3, <2>4
<1>7. ASSUME NEW r \in Roles, ExecuteFails(r) PROVE PlainTasks'
  <2>1. PICK t \in worker[r] :
             /\ t.result = "running" /\ late' = late
             /\ worker' = [worker EXCEPT ![r] = {[t EXCEPT !.result = "retryable_failed"]}]
    BY <1>7 DEF ExecuteFails
  <2>2. PICK u : u = [t EXCEPT !.result = "retryable_failed"]
    OBVIOUS
  <2>3. u.a = t.a /\ u.key = t.key
    BY <1>0, <2>2, TaskHeld DEF Task
  <2>4. \A q \in Roles : \A v \in worker'[q] : v \in worker[q] \/ (q = r /\ v = u)
    BY <1>0, <2>1, <2>2 DEF TypeOK
  <2>. QED
    BY <2>1, <2>3, <2>4
<1>8. ASSUME NEW r \in Roles, ReportTimesOut(r) \/ AgentDies(r) PROVE PlainTasks'
  <2>1. CASE ReportTimesOut(r)
    <3>1. PICK t \in worker[r] : /\ t.result # "running"
                                 /\ late' = IF MayBeLate THEN late \cup {t} ELSE late
                                 /\ worker' = [worker EXCEPT ![r] = {}]
      BY <2>1 DEF ReportTimesOut
    <3>2. \A q \in Roles : worker'[q] \subseteq worker[q]
      BY <1>0, <3>1 DEF TypeOK
    <3>. QED
      BY <3>1, <3>2
  <2>2. CASE AgentDies(r)
    BY <1>0, <1>1, <2>2 DEF AgentDies, TypeOK
  <2>. QED
    BY <1>8, <2>1, <2>2
<1>9. CASE LateReport \/ \E r \in Roles : Report(r)
  BY <1>0, <1>1, <1>9, ReportEffect
<1>. QED
  BY <1>0, <1>2, <1>3, <1>4, <1>5, <1>6, <1>7, <1>8, <1>9, DriftSteps DEF Next

\* A report uses up at most one attempt, none if it is of success; it kills only a job
\* that has no other attempt left.
LEMMA RecordedTries ==
    ASSUME Typed, NEW t \in Task, t.i \in Rows(t.a), Record(t)
    PROVE  LET job == jobs[t.a][t.i] IN
           /\ jobs'[t.a][t.i].retries \in {job.retries, job.retries + 1}
           /\ t.result = "succeeded" => jobs'[t.a][t.i].retries = job.retries
           /\ status'[t.a] = "dead" => t.result # "succeeded" /\ Terminal(job)
<1>. DEFINE job == jobs[t.a][t.i]
            ok == t.result = "succeeded"
<1>1. t.a \in Assignments /\ jobs[t.a] \in Seq(Job) /\ job \in Job
  <2>1. t.a \in Assignments
    BY DEF Task
  <2>2. jobs[t.a] \in Seq(Job)
    BY <2>1 DEF Typed, TypeOK
  <2>. QED
    BY <2>1, <2>2 DEF Rows
<1>2. jobs'[t.a][t.i] = Reported(job, ok)
  BY <1>1 DEF Record, Typed, TypeOK, Rows
<1>3. status'[t.a] = ReportedStatus(job, ok)
  BY <1>1 DEF Record, Typed, TypeOK
<1>4. Reported(job, ok).retries \in {job.retries, job.retries + 1} /\ (ok => Reported(job, ok).retries = job.retries)
  BY <1>1 DEF Reported, Job
<1>5. ReportedStatus(job, ok) = "dead" => ~ok /\ Terminal(job)
  BY <1>1 DEF ReportedStatus, Job, Operations
<1>. QED
  BY <1>2, <1>3, <1>4, <1>5

\* A session whose provisioning failed stays so in its generation.
LEMMA FailedStays ==
    ASSUME DriftTyped, [DriftNext]_driftVars, NEW u \in Sessions, phase[u] = "failed",
           generation'[u] = generation[u]
    PROVE  phase'[u] = "failed"
<1>0. TypeOK /\ generation[u] \in Nat
  BY LifecycleAssumption DEF DriftTyped, Typed, TypeOK
<1>1. ASSUME NEW s \in Sessions, SessionStep(s) PROVE phase'[u] = "failed"
  <2>1. CASE u # s
    BY <1>0, <1>1, <2>1, HandlersStayInSession DEF SameOf
  <2>2. CASE u = s
    <3>1. ~Revoke(s) /\ ~EnforceQuota(s) /\ ~Reactivate(s)
      BY <1>0, <2>2 DEF Revoke, EnforceQuota, RequestRevocation, Reactivate, TypeOK
    <3>. QED
      BY <1>0, <1>1, <2>2, <3>1 DEF Create, ActivatePaid, DeleteUnpaid, ReadForHide, Hide, BeginProbing,
         AdvanceToScheduling, ScheduleFails, Schedule, EnqueueCommit, ReadyForCommit, CompleteProvisioned,
         Provisioned, FailTimedOut, EnqueueRevocation, CompleteRevoked
  <2>. QED
    BY <2>1, <2>2
<1>2. Quiet \/ (\E d : HandleDifference(d)) => phase' = phase
  BY DEF Quiet, HandleDifference
<1>. QED
  BY <1>0, <1>1, <1>2, DriftSteps, GatesKeepSessions DEF Next

\* The reports to come, and the attempts used, are numbers.
LEMMA TriesTyped ==
    ASSUME TypeOK, NEW a \in Assignments, NEW i \in Rows(a)
    PROVE  /\ jobs[a][i].retries \in Nat /\ jobs[a][i] \in Job
           /\ faults \in 0..MaxFaults /\ MaxFaults \in Nat
           /\ \A tasks : Reports(tasks, a, i) \in {0, 1}
<1>1. jobs[a][i] \in Job
  BY DEF TypeOK, Rows
<1>. QED
  BY <1>1, LifecycleAssumption DEF TypeOK, Job, Reports

\* No job dies while there are fewer faults than attempts.
LEMMA ReportKillsNone ==
    ASSUME DriftTyped, PlainTasks, Affordable, MaxFaults < MaxRetries, NEW t \in Task,
           t \in late \/ ((\E r \in Roles : t \in worker[r]) /\ t.result # "running"),
           t.i \in Rows(t.a), Record(t), FirstWanted(t.a[1])
    PROVE  status'[t.a] # "dead"
<1>. SUFFICES ASSUME status'[t.a] = "dead" PROVE FALSE
  OBVIOUS
<1>0. Typed /\ TypeOK
  BY DEF DriftTyped, Typed
<1>. DEFINE job == jobs[t.a][t.i]
<1>1. t.a \in Assignments /\ t.a[1] \in Sessions /\ t.a \in Of(t.a[1])
  BY DEF Task, Assignments, Of
<1>2. t.result = "retryable_failed" /\ Terminal(job)
  BY <1>0, RecordedTries DEF PlainTasks, Task
<1>3. t \in late \/ t \in worker[t.a[2]]
  BY DEF PlainTasks
<1>4. Reports(worker[t.a[2]], t.a, t.i) = 1 \/ Reports(late, t.a, t.i) = 1
  BY <1>2, <1>3 DEF Reports
<1>5. job.retries + Reports(worker[t.a[2]], t.a, t.i) + Reports(late, t.a, t.i) <= MaxFaults - faults
  BY <1>1 DEF Affordable
<1>6. /\ job.retries \in Nat /\ faults \in 0..MaxFaults /\ MaxFaults \in Nat
      /\ Reports(worker[t.a[2]], t.a, t.i) \in {0, 1} /\ Reports(late, t.a, t.i) \in {0, 1}
  BY <1>0, <1>1, TriesTyped
<1>7. MaxRetries \in Nat
  BY LifecycleAssumption
<1>. HIDE DEF job
<1>8. job.retries + 1 >= MaxRetries
  BY <1>2 DEF Terminal
<1>. QED
  BY <1>4, <1>5, <1>6, <1>7, <1>8

LEMMA NoneDiesKept ==
    ASSUME MaxFaults < MaxRetries
    PROVE  DriftTyped /\ FirstLives /\ PlainTasks /\ Affordable /\ NoneDies /\ [DriftNext]_driftVars
             => NoneDies'
<1>. SUFFICES ASSUME DriftTyped, FirstLives, PlainTasks, Affordable, NoneDies, [DriftNext]_driftVars,
                    NEW s \in Sessions, generation'[s] = 1, phase'[s] # "failed", NEW a \in Of(s)
             PROVE  want'[a] = "Applied" /\ status'[a] # "dead"
  BY DEF NoneDies
<1>0. Typed /\ TypeOK
  BY DEF DriftTyped, Typed
<1>1. generation[s] = 1 /\ phase[s] # "failed" /\ a \in Assignments /\ a[1] = s
  BY DriftStillFirst, FailedStays, OfSession
<1>2. want[a] = "Applied" /\ status[a] # "dead" /\ FirstWanted(s)
  BY <1>1 DEF NoneDies, FirstWanted
<1>3. desired[s] = "Active" /\ BegunOn(s, a)
  BY <1>1 DEF FirstLives, FirstLife, Begun
<1>4. CASE Quiet
  BY <1>2, <1>4 DEF Quiet, assignmentVars
<1>5. ASSUME NEW d, HandleDifference(d) PROVE want'[a] = "Applied" /\ status'[a] # "dead"
  <2>1. a \notin KnownOrphans(d.orphans)
    BY <1>1, <1>2, <1>3 DEF KnownOrphans, BegunOn
  <2>. QED
    BY <1>0, <1>1, <1>2, <1>5, <2>1, DifferenceHandled
<1>6. want'[a] = "Applied"
  <2>1. Next => want'[a] # "Revoked"
    BY <1>1, <1>2, <1>3, LifecycleGivesUp
  <2>2. want'[a] \in {"Applied", "Revoked"}
    BY <1>1, DriftTypedKept DEF DriftTyped, Typed, TypeOK
  <2>. QED
    BY <1>0, <1>4, <1>5, <2>1, <2>2, DriftSteps
<1>7. ASSUME NEW u \in Sessions, SessionStep(u) PROVE status'[a] # "dead"
  <2>1. CASE u # s
    BY <1>0, <1>2, <1>7, <2>1, HandlersStayInSession DEF SameOf
  <2>2. CASE Schedule(s)
    BY <1>1, <2>2 DEF Schedule, EnsuredStatus
  <2>3. CASE EnqueueCommit(s)
    BY <1>0, <2>3, CommitAdds
  <2>4. ~FailTimedOut(s) /\ ~EnqueueRevocation(s)
    BY <1>0, <1>3 DEF FailTimedOut, EnqueueRevocation, TypeOK
  <2>5. ASSUME u = s, ~Schedule(s), ~EnqueueCommit(s) PROVE status' = status
    BY <1>7, <2>4, <2>5 DEF Create, ActivatePaid, DeleteUnpaid, Revoke, EnforceQuota, RequestRevocation,
           Reactivate, ReadForHide, Hide, BeginProbing, AdvanceToScheduling, ScheduleFails,
           CompleteProvisioned, CompleteRevoked, assignmentVars
  <2>. QED
    BY <1>2, <2>1, <2>2, <2>3, <2>5
<1>8. ASSUME NEW r \in Roles, Claim(r) PROVE status'[a] # "dead"
  <2>1. PICK u \in Sessions : \E i \in Rows(<<u, r>>) :
             /\ \A b \in Assignments \ {<<u, r>>} : status'[b] = status[b]
             /\ status'[<<u, r>>] = LeasedStatus(status[<<u, r>>], jobs[<<u, r>>][i].op)
    BY <1>0, <1>8, ClaimEffect
  <2>. QED
    BY <1>1, <1>2, <2>1 DEF LeasedStatus
<1>9. CASE LateReport \/ \E r \in Roles : Report(r)
  <2>1. PICK t \in Task :
             /\ t \in late \/ \E r \in Roles : t \in worker[r]
             /\ t \in late \/ t.result # "running"
             /\ t.i \in Rows(t.a) /\ Record(t)
    BY <1>0, <1>9, ReportEffect
  <2>2. CASE a = t.a
    BY <1>1, <1>2, <1>6, <2>1, <2>2, ReportKillsNone
  <2>3. CASE a # t.a
    BY <1>0, <1>1, <1>2, <1>6, <2>1, <2>3, RecordedRow DEF Rows
  <2>. QED
    BY <2>2, <2>3
<1>10. ASSUME \/ \E b \in Assignments : ExpireLease(b)
              \/ \E r \in Roles : Execute(r) \/ ExecuteFails(r) \/ ReportTimesOut(r) \/ AgentDies(r)
       PROVE  status' = status
  BY <1>10 DEF ExpireLease, Execute, ExecuteFails, ReportTimesOut, AgentDies, assignmentVars
<1>. QED
  BY <1>0, <1>2, <1>4, <1>5, <1>6, <1>7, <1>8, <1>9, <1>10, DriftSteps DEF Next

\* What a job has cost so far.
Spent(a, i) == jobs[a][i].retries + Reports(worker[a[2]], a, i) + Reports(late, a, i)

\* Only failed tasks are counted.
LEMMA FewerReports ==
    ASSUME NEW a, NEW i, NEW S, NEW T,
           \A t \in S : t \in T \/ t.a # a \/ t.result # "retryable_failed"
    PROVE  Reports(S, a, i) <= Reports(T, a, i)
BY DEF Reports

\* A step that reports nothing costs a job no more than the faults that happen in it.
LEMMA SpentKept ==
    ASSUME DriftTyped, NEW a \in Assignments, NEW i \in Rows(a)', RowsLast(a), faults' \in 0..MaxFaults,
           Reports(worker'[a[2]], a, i) + Reports(late', a, i) + faults'
               <= Reports(worker[a[2]], a, i) + Reports(late, a, i) + faults,
           i \in Rows(a) => Spent(a, i) <= MaxFaults - faults
    PROVE  Spent(a, i)' <= MaxFaults - faults'
<1>0. Typed /\ TypeOK
  BY DEF DriftTyped, Typed
<1>1. \A tasks : Reports(tasks, a, i) \in {0, 1}
  BY DEF Reports
<1>2. Spent(a, i)' = jobs'[a][i].retries + Reports(worker'[a[2]], a, i) + Reports(late', a, i)
  BY DEF Spent, Reports
<1>3. faults \in 0..MaxFaults /\ MaxFaults \in Nat
  BY <1>0, LifecycleAssumption DEF TypeOK
<1>4. CASE i \in Rows(a)
  <2>1. jobs'[a][i].retries = jobs[a][i].retries
    BY <1>4 DEF RowsLast
  <2>2. jobs[a][i].retries \in Nat
    BY <1>0, <1>4, TriesTyped
  <2>3. jobs[a][i].retries + Reports(worker[a[2]], a, i) + Reports(late, a, i) <= MaxFaults - faults
    BY <1>4 DEF Spent
  <2>. QED
    BY <1>1, <1>2, <1>3, <2>1, <2>2, <2>3
<1>5. CASE i \notin Rows(a)
  <2>1. jobs'[a][i].retries = 0
    BY <1>5 DEF RowsLast
  <2>2. a[2] \in Roles
    BY DEF Assignments
  <2>3. Reports(worker[a[2]], a, i) = 0 /\ Reports(late, a, i) = 0
    BY <1>0, <1>5, <2>2, TaskHeld, TaskLate DEF Reports
  <2>. QED
    BY <1>1, <1>2, <1>3, <2>1, <2>3
<1>. QED
  BY <1>4, <1>5

\* In a first generation a commit never lacks the keys that it needs.
LEMMA FirstCommitsPossible ==
    ASSUME DriftTyped, FirstKeysOfAll, NEW r \in Roles, NEW t \in worker[r], FirstWanted(t.a[1]),
           jobs[t.a][t.i].op = "commit"
    PROVE  CanCommit(host[t.a])
<1>1. t.a \in Assignments /\ t.i \in Rows(t.a)
  BY TaskHeld DEF DriftTyped
<1>2. t.a[1] \in Sessions /\ t.a \in Of(t.a[1])
  BY <1>1 DEF Assignments, Of
<1>3. KeysOn(t.a[1], t.a) /\ material[t.a] = 1
  BY <1>1, <1>2 DEF FirstKeysOfAll, FirstKeys, KeysOn
<1>. QED
  BY <1>3 DEF KeysOn, CanCommit

\* A report of failure costs an attempt, and is not counted any more.
LEMMA ReportSpends ==
    ASSUME DriftTyped, NEW a \in Assignments, NEW i \in Rows(a)', NEW t \in Task, t.i \in Rows(t.a),
           Record(t), faults' = faults,
           Reports(worker'[a[2]], a, i) <= Reports(worker[a[2]], a, i),
           Reports(late', a, i) <= Reports(late, a, i),
           t.a = a /\ t.i = i /\ t.result # "succeeded" =>
              Reports(worker'[a[2]], a, i) + Reports(late', a, i) + 1
                  <= Reports(worker[a[2]], a, i) + Reports(late, a, i),
           i \in Rows(a) => Spent(a, i) <= MaxFaults - faults
    PROVE  Spent(a, i)' <= MaxFaults - faults'
<1>0. Typed /\ TypeOK
  BY DEF DriftTyped, Typed
<1>1. \A tasks : Reports(tasks, a, i) \in {0, 1}
  BY DEF Reports
<1>2. Spent(a, i)' = jobs'[a][i].retries + Reports(worker'[a[2]], a, i) + Reports(late', a, i)
  BY DEF Spent, Reports
<1>3. i \in Rows(a)
  BY <1>0, RecordedRow DEF Rows, KeepsRows
<1>4. /\ jobs[a][i].retries \in Nat
      /\ faults \in Nat /\ MaxFaults \in Nat
  BY <1>0, <1>3, TriesTyped
<1>5. jobs[a][i].retries + Reports(worker[a[2]], a, i) + Reports(late, a, i) <= MaxFaults - faults
  BY <1>3 DEF Spent
<1>6. CASE t.a = a /\ t.i = i
  <2>1. /\ jobs'[a][i].retries \in {jobs[a][i].retries, jobs[a][i].retries + 1}
        /\ t.result = "succeeded" => jobs'[a][i].retries = jobs[a][i].retries
    BY <1>0, <1>6, RecordedTries
  <2>. QED
    BY <1>1, <1>2, <1>4, <1>5, <1>6, <2>1
<1>7. CASE t.a # a \/ t.i # i
  <2>1. jobs'[a][i] = jobs[a][i]
    BY <1>0, <1>3, <1>7, RecordedRow DEF Rows
  <2>. QED
    BY <1>1, <1>2, <1>4, <1>5, <2>1
<1>. QED
  BY <1>6, <1>7

LEMMA AffordableKept ==
    DriftTyped /\ FirstLives /\ FirstKeysOfAll /\ PlainTasks /\ Affordable /\ [DriftNext]_driftVars
        => Affordable'
<1>. SUFFICES ASSUME DriftTyped, FirstLives, FirstKeysOfAll, PlainTasks, Affordable, [DriftNext]_driftVars,
                    NEW s \in Sessions, FirstWanted(s)', NEW a \in Of(s), NEW i \in Rows(a)'
             PROVE  Spent(a, i)' <= MaxFaults - faults'
  BY DEF Affordable, Spent
<1>0. Typed /\ TypeOK /\ Typed'
  BY DriftTypedKept DEF DriftTyped, Typed
<1>1. FirstWanted(s) /\ a \in Assignments /\ a[1] = s /\ a[2] \in Roles
  BY DriftStillWanted, OfSession
<1>2. i \in Rows(a) => Spent(a, i) <= MaxFaults - faults
  BY <1>1 DEF Affordable, Spent
<1>. DEFINE W == Reports(worker[a[2]], a, i)
            V == Reports(worker'[a[2]], a, i)
            L == Reports(late, a, i)
            M == Reports(late', a, i)
<1>3. W \in {0, 1} /\ V \in {0, 1} /\ L \in {0, 1} /\ M \in {0, 1}
  BY DEF Reports
<1>4. faults \in Nat /\ faults' \in 0..MaxFaults /\ faults' \in Nat
  BY <1>0, LifecycleAssumption DEF Typed, TypeOK
<1>5. RowsLast(a) /\ V + M + faults' <= W + L + faults => Spent(a, i)' <= MaxFaults - faults'
  BY <1>1, <1>2, <1>4, SpentKept
<1>6. (\A t \in worker'[a[2]] : t \in worker[a[2]] \/ t.a # a \/ t.result # "retryable_failed") => V <= W
  BY FewerReports
<1>7. (\A t \in late' : t \in late \/ t.a # a \/ t.result # "retryable_failed") => M <= L
  BY FewerReports
<1>. HIDE DEF W, V, L, M
<1>8. RowsLast(a) /\ V <= W /\ M <= L /\ faults' <= faults => Spent(a, i)' <= MaxFaults - faults'
  <2>1. \A v, w, m, l \in {0, 1} : \A f, g \in Nat : v <= w /\ m <= l /\ g <= f => v + m + g <= w + l + f
    OBVIOUS
  <2>2. V <= W /\ M <= L /\ faults' <= faults => V + M + faults' <= W + L + faults
    BY <1>3, <1>4, <2>1
  <2>. QED
    BY <1>5, <2>2
<1>9. jobs'[a] = jobs[a] => RowsLast(a)
  BY <1>0, <1>1, RowsLastOfStep
<1>10. CASE Quiet
  <2>1. jobs'[a] = jobs[a] /\ late' = late /\ faults' <= faults /\ worker'[a[2]] \subseteq worker[a[2]]
    BY <1>1, <1>4, <1>10 DEF Quiet
  <2>. QED
    BY <1>6, <1>7, <1>8, <1>9, <2>1
<1>11. ASSUME RowsLast(a), UNCHANGED gateVars PROVE Spent(a, i)' <= MaxFaults - faults'
  BY <1>4, <1>6, <1>7, <1>8, <1>11 DEF gateVars
<1>12. ASSUME NEW d, HandleDifference(d) PROVE Spent(a, i)' <= MaxFaults - faults'
  <2>1. RepairJob(a).retries = 0 /\ Revocation.retries = 0
    BY DEF RepairJob, Revocation, NewJob
  <2>2. RowsLast(a)
    BY <1>0, <1>1, <1>12, <2>1, HandledRows DEF RowsLast, RowsStay
  <2>. QED
    BY <1>11, <1>12, <2>2 DEF HandleDifference
<1>13. ASSUME NEW u \in Sessions, SessionStep(u) PROVE Spent(a, i)' <= MaxFaults - faults'
  BY <1>0, <1>1, <1>11, <1>13, HandlersKeepRows
<1>14. ASSUME NEW b \in Assignments, ExpireLease(b) PROVE Spent(a, i)' <= MaxFaults - faults'
  BY <1>0, <1>1, <1>11, <1>14, ExpireEffect, RowsLastOfStep
<1>15. ASSUME NEW r \in Roles, Claim(r) PROVE Spent(a, i)' <= MaxFaults - faults'
  <2>1. PICK u \in Sessions : \E j \in Rows(<<u, r>>) :
             /\ \A b \in Assignments : KeepsRows(b) /\ KeepsSuccess(b)
             /\ worker' = [worker EXCEPT ![r] = {ClaimedTask(<<u, r>>, j)}]
             /\ late' = late /\ faults' = faults
    BY <1>0, <1>15, ClaimEffect
  <2>2. PICK v : v.result = "running" /\ worker' = [worker EXCEPT ![r] = {v}]
    BY <2>1 DEF ClaimedTask
  <2>3. \A t \in worker'[a[2]] : t \in worker[a[2]] \/ t.result = "running"
    BY <1>0, <1>1, <2>2 DEF TypeOK
  <2>4. RowsLast(a)
    BY <1>0, <1>1, <2>1, RowsLastOfStep
  <2>. QED
    BY <1>4, <1>6, <1>7, <1>8, <2>1, <2>3, <2>4
<1>16. ASSUME NEW r \in Roles, Execute(r) PROVE Spent(a, i)' <= MaxFaults - faults'
  <2>1. PICK t \in worker[r] : /\ worker' = [worker EXCEPT ![r] = {DoneTask(t, host'[t.a].key)}]
                               /\ UNCHANGED <<jobs, late, faults>>
    BY <1>0, <1>16, ExecuteEffect
  <2>2. DoneTask(t, host'[t.a].key).result = "succeeded"
    BY <1>0, TaskHeld DEF DoneTask, Task
  <2>3. \A v \in worker'[a[2]] : v \in worker[a[2]] \/ v.result = "succeeded"
    BY <1>0, <1>1, <2>1, <2>2 DEF TypeOK
  <2>. QED
    BY <1>4, <1>6, <1>7, <1>8, <1>9, <2>1, <2>3
<1>17. ASSUME NEW r \in Roles, ExecuteFails(r) PROVE Spent(a, i)' <= MaxFaults - faults'
  <2>1. PICK t \in worker[r] :
           LET impossible == jobs[t.a][t.i].op = "commit" /\ ~CanCommit(host[t.a]) IN
           /\ faults' = IF impossible THEN faults ELSE faults - 1
           /\ worker' = [worker EXCEPT ![r] = {[t EXCEPT !.result = "retryable_failed"]}]
           /\ UNCHANGED <<jobs, late>>
    BY <1>17 DEF ExecuteFails
  <2>2. M <= L
    BY <1>7, <2>1
  <2>3. CASE t.a = a
    <3>1. faults' = faults - 1
      BY <1>1, <2>1, <2>3, FirstCommitsPossible
    <3>. QED
      BY <1>3, <1>4, <1>5, <1>9, <2>1, <2>2, <3>1
  <2>4. CASE t.a # a
    <3>1. [t EXCEPT !.result = "retryable_failed"].a # a
      BY <1>0, <2>4, TaskHeld DEF Task
    <3>2. \A v \in worker'[a[2]] : v \in worker[a[2]] \/ v.a # a
      BY <1>0, <1>1, <2>1, <3>1 DEF TypeOK
    <3>3. faults' <= faults
      BY <1>4, <2>1
    <3>. QED
      BY <1>6, <1>8, <1>9, <2>1, <2>2, <3>2, <3>3
  <2>. QED
    BY <2>3, <2>4
<1>18. ASSUME NEW r \in Roles, ReportTimesOut(r) \/ AgentDies(r) PROVE Spent(a, i)' <= MaxFaults - faults'
  <2>1. worker' = [worker EXCEPT ![r] = {}] /\ faults' = faults - 1 /\ jobs' = jobs
    BY <1>18 DEF ReportTimesOut, AgentDies
  <2>2. V <= W
    BY <1>0, <1>1, <1>6, <2>1 DEF TypeOK
  <2>. QED
    BY <1>3, <1>4, <1>5, <1>9, <2>1, <2>2
<1>19. ASSUME NEW r \in Roles, Report(r) PROVE Spent(a, i)' <= MaxFaults - faults'
  <2>1. PICK t \in worker[r] : /\ t.result # "running" /\ Record(t)
                               /\ worker' = [worker EXCEPT ![r] = {}]
                               /\ UNCHANGED <<late, faults>>
    BY <1>19 DEF Report
  <2>2. t \in Task /\ t.i \in Rows(t.a) /\ t.a[2] = r
    BY <1>0, TaskHeld DEF PlainTasks
  <2>3. V <= W /\ M <= L
    BY <1>0, <1>1, <1>6, <1>7, <2>1 DEF TypeOK
  <2>4. t.a = a /\ t.i = i /\ t.result # "succeeded" => V = 0 /\ W = 1
    BY <1>0, <2>1, <2>2 DEF V, W, Reports, Task, TypeOK
  <2>. QED
    BY <1>1, <1>2, <1>3, <2>1, <2>2, <2>3, <2>4, ReportSpends DEF V, W, L, M
<1>20. CASE LateReport
  <2>1. PICK t \in late : /\ Record(t) /\ late' = late \ {t}
                          /\ UNCHANGED <<worker, faults>>
    BY <1>20 DEF LateReport
  <2>2. t \in Task /\ t.i \in Rows(t.a) /\ t.result # "running" /\ (t.result # "succeeded" => t.key = 0)
    BY <1>0, TaskLate DEF PlainTasks
  <2>3. V <= W /\ M <= L
    BY <1>6, <1>7, <2>1
  <2>4. ASSUME t.a = a, t.i = i, t.result # "succeeded" PROVE M = 0 /\ L = 1
    <3>1. t.result = "retryable_failed" /\ t.key = 0
      BY <2>2, <2>4 DEF Task
    <3>2. L = 1
      BY <2>4, <3>1 DEF L, Reports
    <3>3. ASSUME NEW v \in late, v.a = a, v.i = i, v.result = "retryable_failed" PROVE v = t
      <4>1. v \in Task /\ v.key = 0
        BY <1>0, <3>3, TaskLate DEF PlainTasks
      <4>. QED
        BY <2>2, <2>4, <3>1, <3>3, <4>1 DEF Task
    <3>. QED
      BY <2>1, <3>2, <3>3 DEF M, Reports
  <2>5. t.a = a /\ t.i = i /\ t.result # "succeeded" => V + M + 1 <= W + L
    BY <1>3, <2>3, <2>4
  <2>. QED
    BY <1>1, <1>2, <2>1, <2>2, <2>3, <2>5, ReportSpends DEF V, W, L, M
<1>. QED
  BY <1>0, <1>10, <1>12, <1>13, <1>14, <1>15, <1>16, <1>17, <1>18, <1>19, <1>20, DriftSteps DEF Next

DriftSound == PlainTasks /\ Affordable /\ NoneDies

LEMMA DriftAlwaysSound ==
    ASSUME MaxFaults < MaxRetries
    PROVE  DriftSpec => []DriftSound
<1>1. DriftInit => DriftSound
  <2>. SUFFICES ASSUME DriftInit PROVE DriftSound
    OBVIOUS
  <2>1. Affordable
    BY DEF DriftInit, Init, Affordable, Rows, Of, Assignments
  <2>. QED
    BY <2>1 DEF DriftInit, Init, DriftSound, PlainTasks, NoneDies, Of, Assignments
<1>2. DriftTyped /\ FirstLives /\ DriftTunnels /\ DriftSound /\ [DriftNext]_driftVars => DriftSound'
  BY PlainTasksKept, AffordableKept, NoneDiesKept DEF DriftSound, DriftTunnels, FirstTunnels
<1>. QED
  BY <1>1, <1>2, DriftAlwaysTyped, DriftFirstLives, DriftFirstTunnels, PTL DEF DriftSpec

\* Among repairs and cleanups, the tunnel of a session that is active for the first time
\* is committed on its gates with the keys and address of the session, as long as there
\* are fewer faults than a job has attempts: a repair job that dies would make the next
\* cleanup revoke the assignment of a session that stays active.  (What a restart loses
\* from the kernel comes back by a repair: LostIsRepaired, which is liveness.)
THEOREM DriftFirstTunnelIsUp ==
    ASSUME MaxFaults < MaxRetries
    PROVE  DriftSpec => []FirstTunnelIsUp
<1>1. FirstLives /\ DriftTunnels /\ DriftSound => FirstTunnelIsUp
  <2>. SUFFICES ASSUME FirstLives, DriftTunnels, DriftSound, NEW s \in Sessions,
                      phase[s] = "active", generation[s] = 1
               PROVE  TunnelUp(s)
    BY DEF FirstTunnelIsUp
  <2>1. FirstWanted(s)
    BY DEF DriftSound, NoneDies, FirstWanted
  <2>. QED
    BY <2>1, WantedTunnelIsUp DEF DriftTunnels
<1>. QED
  BY <1>1, DriftFirstLives, DriftFirstTunnels, DriftAlwaysSound, PTL

\* Neither repair nor cleanup breaks what is in order, when sessions are not reactivated:
\* every active session keeps its committed tunnel, keys, address and config through lists
\* that are old or lost, hosts that restart and come back with less, timeouts and late reports
\* (enqueueRepairJobsForMissingHandles, listKnownOrphanAssignmentsForCleanup).
THEOREM DriftRepairIsSafe ==
    ASSUME MaxFaults < MaxRetries, MaxGen <= 2
    PROVE  DriftSpec => RepairIsSafe
<1>1. DriftTyped /\ FirstLives /\ FirstTunnelIsUp /\ PhaseFits => ActiveIsUp
  <2>. SUFFICES ASSUME DriftTyped, FirstLives, FirstTunnelIsUp, PhaseFits, NEW s \in Sessions, phase[s] = "active"
               PROVE  TunnelUp(s)
    BY DEF ActiveIsUp, TunnelUp
  <2>1. generation[s] \in {1, 2}
    BY LifecycleAssumption DEF DriftTyped, Typed, TypeOK
  <2>2. generation[s] # 2
    BY <2>1 DEF FirstLives, FirstLife, Begun, PhaseFits
  <2>. QED
    BY <2>1, <2>2 DEF FirstTunnelIsUp
<1>. QED
  BY <1>1, DriftAlwaysTyped, DriftFirstLives, DriftFirstTunnelIsUp, DriftPhaseFits,
     DriftCleanupSparesWanted, PTL DEF RepairIsSafe
=============================================================================
