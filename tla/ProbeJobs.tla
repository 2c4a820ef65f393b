------------------------------- MODULE ProbeJobs -------------------------------
(***************************************************************************)
(* The probe jobs that PostgreSQL keeps: those of one node and one trading *)
(* target, or of one directed pair of gates.  Scheduling is one statement  *)
(* on a snapshot; trading jobs have a unique index over the active ones,   *)
(* benchmark jobs only the snapshot and an advisory lock.  A report goes   *)
(* into the tables of results, or into an outbox that a worker carries to  *)
(* the measurement store, a batch at a time.                               *)
(***************************************************************************)
EXTENDS Naturals, FiniteSets, Sequences

CONSTANTS
    Schedulers,     \* worker processes; they schedule and deliver
    MaxProbeRetries,\* max_retries; bound: claims of a benchmark, which the code does not count
    MaxProbeJobs,   \* bound: jobs
    MaxRevisions,   \* bound: revisions of the target
    MaxProbeFaults  \* bound: failing deliveries and crashes between two of their steps

ASSUME ProbeJobsAssumption ==
    /\ {MaxProbeRetries, MaxProbeJobs, MaxRevisions} \subseteq Nat \ {0}
    /\ MaxProbeFaults \in Nat

VARIABLES
    kind,      \* of the jobs: "trading" or "benchmark"
    withStore, \* a measurement store is attached
    target,    \* the target's revision, and whether it and its node are enabled
    probeJobs, \* their rows, oldest first
    snapshot,  \* snapshot[v]: what the scheduling statement of v has read
    answers,   \* measurements that agents have made: their reports may come late, or never
    latestRow, \* the latest result, or the schedule's row
    journal,   \* measurement_delivery_outbox: ids
    carrying,  \* carrying[v]: ids v has read, and the one it has delivered
    arrived,   \* ids the measurement store has received
    accepted,  \* reports that were accepted
    probeFaults

jobsVars == <<kind, withStore, target, probeJobs, snapshot, answers, latestRow, journal, carrying, arrived,
              accepted, probeFaults>>

ProbeRows == 1..Len(probeJobs)
ActivePhases == {"queued", "leased"}
Unread == [due |-> FALSE, revision |-> 0]
NothingCarried == [ids |-> {}, done |-> 0]

ProbeJob == [phase : ActivePhases \cup {"succeeded", "dead"}, revision : 1..MaxRevisions,
             retries : 0..MaxProbeRetries, open : SUBSET (1..MaxProbeRetries), expired : BOOLEAN,
             failures : 0..MaxProbeRetries]
ReportOutcomes == {"succeeded", "retryable_failed", "failed"}

ProbeJobsTypeOK ==
    /\ kind \in {"trading", "benchmark"} /\ withStore \in BOOLEAN
    /\ target.revision \in 1..MaxRevisions /\ target.enabled \in BOOLEAN
    /\ probeJobs \in Seq(ProbeJob) /\ Len(probeJobs) <= MaxProbeJobs
    /\ latestRow.revision \in 0..MaxRevisions /\ latestRow.measured \in 0..MaxRevisions /\ latestRow.recent \in BOOLEAN
    /\ journal \subseteq ProbeRows /\ arrived \subseteq ProbeRows
    /\ probeFaults \in 0..MaxProbeFaults

ProbeJobsInit ==
    /\ kind \in {"trading", "benchmark"} /\ withStore \in BOOLEAN
    /\ target = [revision |-> 1, enabled |-> TRUE]
    /\ probeJobs = <<>> /\ answers = {}
    /\ snapshot = [v \in Schedulers |-> Unread]
    /\ latestRow = [revision |-> 0, measured |-> 0, recent |-> FALSE]
    /\ journal = {} /\ arrived = {} /\ accepted = {}
    /\ carrying = [v \in Schedulers |-> NothingCarried]
    /\ probeFaults = 0

Active(j) == probeJobs[j].phase \in ActivePhases
SomeActive == \E j \in ProbeRows : Active(j)
ProbeFault == probeFaults < MaxProbeFaults /\ probeFaults' = probeFaults + 1

-------------------------------------------------------------------------------
\* An operator edits the target, or switches it or its node; a benchmark has no revisions.
TargetChanges ==
    /\ target.revision < MaxRevisions
    /\ \E on \in BOOLEAN : target' = [revision |-> target.revision + 1, enabled |-> on]
    /\ UNCHANGED <<kind, withStore, probeJobs, snapshot, answers, latestRow, journal, carrying, arrived, accepted, probeFaults>>

Enabling ==
    /\ ~target.enabled
    /\ target' = [target EXCEPT !.enabled = TRUE]
    /\ UNCHANGED <<kind, withStore, probeJobs, snapshot, answers, latestRow, journal, carrying, arrived, accepted, probeFaults>>

\* interval_seconds pass since the last measurement.
IntervalPasses ==
    /\ latestRow.recent
    /\ latestRow' = [latestRow EXCEPT !.recent = FALSE]
    /\ UNCHANGED <<kind, withStore, target, probeJobs, snapshot, answers, journal, carrying, arrived, accepted, probeFaults>>

\* What the scheduling statement finds due in its snapshot.
IsDue ==
    /\ target.enabled
    /\ IF kind = "trading"
       THEN ~latestRow.recent \/ latestRow.revision # target.revision
       ELSE ~latestRow.recent /\ ~SomeActive

\* insertDueGateBenchmarkProbeJobs and scheduleTradingProbeJobs: the snapshot.
ReadDue(v) ==
    /\ snapshot[v] = Unread
    /\ IsDue
    /\ snapshot' = [snapshot EXCEPT ![v] = [due |-> TRUE, revision |-> target.revision]]
    /\ UNCHANGED <<kind, withStore, target, probeJobs, answers, latestRow, journal, carrying, arrived, accepted, probeFaults>>

\* The insertion and its commit: the unique index of trading jobs sees what has been
\* committed since; a benchmark's statement that gets the lock now does not.
InsertDue(v) ==
    /\ snapshot[v].due
    /\ snapshot' = [snapshot EXCEPT ![v] = Unread]
    /\ IF kind = "trading" /\ SomeActive
       THEN UNCHANGED probeJobs
       ELSE /\ Len(probeJobs) < MaxProbeJobs
            /\ probeJobs' = Append(probeJobs,
                 [phase |-> "queued", revision |-> snapshot[v].revision, retries |-> 0,
                  open |-> {}, expired |-> FALSE, failures |-> 0])
    /\ UNCHANGED <<kind, withStore, target, answers, latestRow, journal, carrying, arrived, accepted, probeFaults>>

-------------------------------------------------------------------------------
JobBecomes(j, job) ==
    /\ probeJobs' = [probeJobs EXCEPT ![j] = job]
    /\ UNCHANGED <<kind, withStore, target, snapshot, carrying, arrived, probeFaults>>

\* claimTradingProbeJob, or claimGateJob; the agent measures what the target is now.
\* A failing answer of a trading node is a result like any other.
ClaimProbe(j) ==
    /\ probeJobs[j].phase = "queued"
    /\ IF kind = "trading" THEN target.enabled ELSE probeJobs[j].retries < MaxProbeRetries
    /\ LET attempt == probeJobs[j].retries + 1
       IN /\ JobBecomes(j, [probeJobs[j] EXCEPT !.phase = "leased", !.retries = attempt,
                                                 !.open = @ \cup {attempt}, !.expired = FALSE])
          /\ \E outcome \in ReportOutcomes :
                /\ kind = "trading" => outcome = "succeeded"
                /\ answers' = answers \cup {[job |-> j, attempt |-> attempt, measured |-> target.revision,
                                            outcome |-> outcome]}
    /\ UNCHANGED <<latestRow, journal, accepted>>

ProbeLeaseExpires(j) ==
    /\ probeJobs[j].phase = "leased" /\ ~probeJobs[j].expired
    /\ JobBecomes(j, [probeJobs[j] EXCEPT !.expired = TRUE])
    /\ UNCHANGED <<answers, latestRow, journal, accepted>>

\* The first statement of scheduleTradingProbeJobs; updateExpiredJobLeasePhases, which
\* gives nothing up.
RequeueProbe(j) ==
    /\ probeJobs[j].phase = "leased" /\ probeJobs[j].expired
    /\ JobBecomes(j, [probeJobs[j] EXCEPT !.expired = FALSE,
                        !.phase = IF kind = "trading" /\ probeJobs[j].retries >= MaxProbeRetries THEN "dead" ELSE "queued"])
    /\ UNCHANGED <<answers, latestRow, journal, accepted>>

-------------------------------------------------------------------------------
Bug_CurrentRevision(j) == target.revision
RecordedRevision(j) == probeJobs[j].revision

\* recordTradingProbeJobReport takes one report of an attempt, of any attempt, while
\* the job is leased; a gate's job takes what comes (recordGateJobReport).
Bug_EveryPhase(a) == a.attempt \in probeJobs[a.job].open
Takes(a) ==
    kind = "trading" => probeJobs[a.job].phase = "leased" /\ a.attempt \in probeJobs[a.job].open

\* enqueueMeasurement and markMeasurementScheduled, or the row of the latest result:
\* an id that is in the outbox stays as it is.
ReportProbe(a) ==
    /\ a \in answers
    /\ a.outcome = "succeeded"
    /\ IF Takes(a)
       THEN /\ JobBecomes(a.job, [probeJobs[a.job] EXCEPT
                    !.phase = "succeeded", !.expired = FALSE,
                    !.open = IF kind = "trading" THEN @ \ {a.attempt} ELSE {}])
            /\ latestRow' = [revision |-> RecordedRevision(a.job), measured |-> a.measured, recent |-> TRUE]
            /\ journal' = IF withStore THEN journal \cup {a.job} ELSE journal
            /\ accepted' = accepted \cup {a}
       ELSE UNCHANGED <<kind, withStore, target, probeJobs, snapshot, carrying, arrived, probeFaults,
                        latestRow, journal, accepted>>
    \* An agent that got its answer sends no more; a gate's report may be repeated.
    /\ answers' = IF kind = "trading" THEN answers \ {a} ELSE answers

\* recordGateJobReport of a benchmark that failed: there is nothing to record, and the
\* job, whatever has become of it, is tried again or is over.
ReportFailure(a) ==
    LET job == probeJobs[a.job]
        again == a.outcome = "retryable_failed" /\ job.failures + 1 < MaxProbeRetries
    IN  /\ kind = "benchmark"
        /\ a \in answers
        /\ a.outcome # "succeeded"
        /\ JobBecomes(a.job, [job EXCEPT
               !.phase = IF again THEN "queued" ELSE "dead", !.open = {}, !.expired = FALSE,
               !.failures = IF again THEN @ + 1 ELSE @])
        /\ UNCHANGED <<answers, latestRow, journal, accepted>>

-------------------------------------------------------------------------------
\* deliverMeasurements: a batch is read, and carried one by one.
ReadOutbox(v) ==
    /\ carrying[v] = NothingCarried
    /\ journal # {}
    /\ carrying' = [carrying EXCEPT ![v].ids = journal]
    /\ UNCHANGED <<kind, withStore, target, probeJobs, snapshot, answers, latestRow, journal, arrived, accepted, probeFaults>>

Deliver(v) ==
    /\ carrying[v].done = 0
    /\ \E id \in carrying[v].ids :
        /\ arrived' = arrived \cup {id}
        /\ carrying' = [carrying EXCEPT ![v].done = id]
    /\ UNCHANGED <<kind, withStore, target, probeJobs, snapshot, answers, latestRow, journal, accepted, probeFaults>>

DeleteDelivered(v) ==
    /\ carrying[v].done # 0
    /\ journal' = journal \ {carrying[v].done}
    /\ carrying' = [carrying EXCEPT ![v] = [ids |-> @.ids \ {@.done}, done |-> 0]]
    /\ UNCHANGED <<kind, withStore, target, probeJobs, snapshot, answers, latestRow, arrived, accepted, probeFaults>>

\* The store cannot be reached, the whole batch is given up; or the worker dies.
Bug_GivesUpRows(v) == journal \ carrying[v].ids
AfterFailure(v) == journal

DeliverFails(v) ==
    /\ carrying[v] # NothingCarried
    /\ ProbeFault
    /\ journal' = AfterFailure(v)
    /\ carrying' = [carrying EXCEPT ![v] = NothingCarried]
    /\ UNCHANGED <<kind, withStore, target, probeJobs, snapshot, answers, latestRow, arrived, accepted>>

ProbeJobsNext ==
    \/ TargetChanges \/ Enabling \/ IntervalPasses
    \/ \E v \in Schedulers :
        \/ ReadDue(v) \/ InsertDue(v)
        \/ ReadOutbox(v) \/ Deliver(v) \/ DeleteDelivered(v) \/ DeliverFails(v)
    \/ \E j \in ProbeRows : ClaimProbe(j) \/ ProbeLeaseExpires(j) \/ RequeueProbe(j)
    \/ \E a \in answers : ReportProbe(a) \/ ReportFailure(a)

\* Agents claim, leases end, the workers' loops go on.
ProbeJobsFairness ==
    /\ WF_jobsVars(\E j \in ProbeRows : ClaimProbe(j) \/ ProbeLeaseExpires(j) \/ RequeueProbe(j))
    /\ \A v \in Schedulers :
        WF_jobsVars(ReadOutbox(v) \/ Deliver(v) \/ DeleteDelivered(v))

ProbeJobsSpec == ProbeJobsInit /\ [][ProbeJobsNext]_jobsVars /\ ProbeJobsFairness

-------------------------------------------------------------------------------
\* What is recorded under the target's present revision was measured at it, although
\* jobs outlive revisions and reports are late (claimTradingProbeJob,
\* recordTradingProbeJobReport).
RevisionIsMeasured ==
    kind = "trading" /\ latestRow.revision = target.revision => latestRow.measured = target.revision

\* A trading job's result is taken once, and what was taken is in the outbox until
\* the store has it, through overlapping batches and failures.
ResultsAreKept ==
    /\ kind = "trading" => \A a, b \in accepted : a.job = b.job => a = b
    /\ withStore => \A a \in accepted : a.job \in journal \cup arrived

\* Whatever is retried, edited or late, the results that core and the store hold are
\* those that were reported (claimTradingProbeJob, recordTradingProbeJobReport, the
\* outbox's batches).
ProbeResultsAreTrue == RevisionIsMeasured /\ ResultsAreKept

\* A trading job does not keep its node and target from new ones for ever, unless the
\* target is disabled meanwhile (scheduleTradingProbeJobs).  A benchmark does, when no
\* report of it ever comes: it is queued again without a limit.
JobsEnd ==
    \A j \in 1..MaxProbeJobs :
        kind = "trading" /\ j \in ProbeRows /\ Active(j)
            ~> j \in ProbeRows /\ (~Active(j) \/ ~target.enabled)
================================================================================
