------------------------------ MODULE ProbeQueue ------------------------------
(***************************************************************************)
(* The measurement queue in Mongo, for one key (a source, a target and a   *)
(* kind).  There are no transactions: every step is a compare-and-set on   *)
(* one document.  A task goes through leases and retries; its completion   *)
(* keeps its result in the task itself, workers carry it to the collections*)
(* of results as often as it takes, and only then is the key released,     *)
(* after the key's interval.  The catalog is a copy of core's rows.        *)
(***************************************************************************)
EXTENDS Naturals, FiniteSets, Sequences

CONSTANTS
    Core,          \* what core says of the key in turn: 0 disabled, else a revision
    Workers,       \* worker processes that deliver; one of them schedules
    Clock,         \* measuredAt of the agents' reports; 0 stands for no event
    MaxAttempts,   \* maxAttempts
    Latest,        \* how many results the list of a route keeps: two
    MaxCycles,     \* bound: tasks of the key
    MaxQueueFaults \* bound: crashes of workers and failing deliveries

ASSUME QueueAssumption ==
    /\ Core \in Seq(Nat) /\ Core # <<>>
    /\ Clock \subseteq Nat \ {0}
    /\ MaxAttempts \in Nat \ {0} /\ Latest \in Nat \ {0} /\ MaxCycles \in Nat /\ MaxQueueFaults \in Nat

VARIABLES
    version,    \* how far core has come in Core
    snapshots,  \* versions that catalog syncs have read
    catalog,    \* the version of the catalog document
    tasks,      \* the key's documents, oldest first
    schedule,   \* the task of the schedule document, or 0
    recent,     \* the latest results, as the list shows them
    delivered,  \* tasks whose result a worker has delivered
    scheduling, \* the revision that the scheduler found due, or 0
    delivering, \* delivering[w]: the task w delivers and its next step
    reports,    \* reports that agents have sent: they may come late and twice
    acked,      \* claims whose result was acknowledged
    queueFaults

catalogVars == <<version, snapshots, catalog>>
resultVars == <<schedule, recent, delivered>>
queueVars == <<catalogVars, tasks, resultVars, scheduling, delivering, reports, acked, queueFaults>>

Nothing == [task |-> 0, next |-> "none"]
Tasks == 1..Len(tasks)

\* "cancelled" stands for completed with the outcome cancelled or superseded.
Task == [phase : {"queued", "leased", "completed", "cancelled"}, active : BOOLEAN, revision : Nat,
         attempts : 0..MaxAttempts, claim : 0..MaxAttempts, expired : BOOLEAN,
         reported : 0..MaxAttempts, event : {0} \cup Clock, pending : BOOLEAN,
         cold : BOOLEAN]

QueueTypeOK ==
    /\ version \in 1..Len(Core) /\ catalog \in 0..version /\ snapshots \subseteq 1..version
    /\ tasks \in Seq(Task) /\ Len(tasks) <= MaxCycles
    /\ schedule \in 0..Len(tasks)
    /\ \A w \in Workers : delivering[w].task \in 0..Len(tasks)
    /\ queueFaults \in 0..MaxQueueFaults

QueueInit ==
    /\ version = 1 /\ snapshots = {} /\ catalog = 0
    /\ tasks = <<>> /\ schedule = 0 /\ recent = {} /\ delivered = {}
    /\ scheduling = 0
    /\ delivering = [w \in Workers |-> Nothing]
    /\ reports = {} /\ acked = {}
    /\ queueFaults = 0

QueueFault == queueFaults < MaxQueueFaults /\ queueFaults' = queueFaults + 1

-------------------------------------------------------------------------------
CoreChanges ==
    /\ version < Len(Core)
    /\ version' = version + 1
    /\ UNCHANGED <<snapshots, catalog, tasks, resultVars, scheduling, delivering, reports, acked, queueFaults>>

\* syncProbesCatalog: the snapshot of core with its stamp, and later the document's
\* replacement; a copy of what the catalog holds would change nothing.
ReadCore ==
    /\ catalog < version
    /\ snapshots' = snapshots \cup {version}
    /\ UNCHANGED <<version, catalog, tasks, resultVars, scheduling, delivering, reports, acked, queueFaults>>

replaceCatalog(v) ==
    /\ v \in snapshots
    /\ snapshots' = snapshots \ {v}
    /\ catalog' = IF catalog < v THEN v ELSE catalog
    /\ UNCHANGED <<version, tasks, resultVars, scheduling, delivering, reports, acked, queueFaults>>

Wanted == IF catalog = 0 THEN 0 ELSE Core[catalog]

-------------------------------------------------------------------------------
\* enqueue reads the schedule first, and inserts if no task of the key is active.
FindDue ==
    /\ scheduling = 0
    /\ Wanted # 0
    /\ schedule # 0 /\ tasks[schedule].revision = Wanted => tasks[schedule].cold
    /\ scheduling' = Wanted
    /\ UNCHANGED <<catalogVars, tasks, resultVars, delivering, reports, acked, queueFaults>>

enqueue ==
    /\ scheduling # 0
    /\ scheduling' = 0
    /\ IF \E t \in Tasks : tasks[t].active
       THEN UNCHANGED tasks
       ELSE /\ Len(tasks) < MaxCycles
            /\ tasks' = Append(tasks,
                 [phase |-> "queued", active |-> TRUE, revision |-> scheduling, attempts |-> 0,
                  claim |-> 0, expired |-> FALSE, reported |-> 0, event |-> 0, pending |-> FALSE,
                  cold |-> FALSE])
    /\ UNCHANGED <<catalogVars, resultVars, delivering, reports, acked, queueFaults>>

-------------------------------------------------------------------------------
Becomes(t, doc) ==
    /\ tasks' = [tasks EXCEPT ![t] = doc]
    /\ UNCHANGED <<catalogVars, resultVars, scheduling, delivering, queueFaults>>

\* Only work of the catalog's revision is claimed.
claim(t) ==
    /\ tasks[t].phase = "queued" /\ tasks[t].active /\ tasks[t].revision = Wanted
    /\ Becomes(t, [tasks[t] EXCEPT !.phase = "leased", !.attempts = @ + 1, !.claim = tasks[t].attempts + 1,
                                   !.expired = FALSE])
    /\ UNCHANGED <<reports, acked>>

\* An agent reports on the claim it holds, with its own clock; a gate may ask to retry
\* (of which the time is not looked at before the last attempt).
SendReport(t) ==
    /\ tasks[t].claim # 0
    /\ \E at \in Clock, retry \in BOOLEAN :
        /\ retry => \A c \in Clock : at <= c
        /\ \A r \in reports : r.task = t => r.claim # tasks[t].claim
        /\ reports' = reports \cup {[task |-> t, claim |-> tasks[t].claim, at |-> at, retry |-> retry]}
    /\ UNCHANGED <<catalogVars, tasks, resultVars, scheduling, delivering, acked, queueFaults>>

\* lease_expires_at passes.
ClaimExpires(t) ==
    /\ tasks[t].phase = "leased" /\ ~tasks[t].expired
    /\ Becomes(t, [tasks[t] EXCEPT !.expired = TRUE])
    /\ UNCHANGED <<reports, acked>>

Again(doc) == [doc EXCEPT !.phase = "queued", !.expired = FALSE]
Completed(doc, at) ==
    [doc EXCEPT !.phase = "completed", !.event = at, !.pending = TRUE, !.expired = FALSE]

\* reportGate, reportTrading and complete: the lease's holder completes the task or
\* has it queued again; a repeated report is acknowledged by what it left behind.
report(r) ==
    /\ r \in reports
    /\ LET doc == tasks[r.task]
           holds == doc.claim = r.claim /\ doc.phase = "leased" /\ ~doc.expired
           requeue == r.retry /\ doc.attempts < MaxAttempts
           replayed == doc.claim = r.claim /\ doc.phase # "leased" /\ doc.reported = r.claim
       IN /\ IF holds
             THEN Becomes(r.task, [IF requeue THEN Again(doc) ELSE Completed(doc, r.at)
                                   EXCEPT !.reported = r.claim])
             ELSE Becomes(r.task, doc)
          /\ acked' = IF (holds /\ ~requeue) \/ (replayed /\ ~r.retry)
                      THEN acked \cup {r} ELSE acked
    /\ UNCHANGED reports

\* reapExpired
Requeue(t) ==
    /\ tasks[t].phase = "leased" /\ tasks[t].expired
    /\ Becomes(t, IF tasks[t].attempts < MaxAttempts THEN Again(tasks[t]) ELSE Completed(tasks[t], 0))
    /\ UNCHANGED <<reports, acked>>

Bug_AtOnce(t) == TRUE
IntervalIsOver(t) == tasks[t].cold

ReleaseKey(t) ==
    /\ tasks[t].phase = "completed" /\ tasks[t].active /\ ~tasks[t].pending /\ IntervalIsOver(t)
    /\ Becomes(t, [tasks[t] EXCEPT !.active = FALSE])
    /\ UNCHANGED <<reports, acked>>

\* What waits for a node or target that is disabled, or for another revision.
Bug_OnlyDisabled(t) == Wanted = 0
IsOutdated(t) == tasks[t].revision # Wanted

Cancel(t) ==
    /\ tasks[t].phase = "queued" /\ catalog # 0 /\ IsOutdated(t)
    /\ Becomes(t, [tasks[t] EXCEPT !.phase = "cancelled", !.active = FALSE])
    /\ UNCHANGED <<reports, acked>>

\* The interval after a completion passes.
CoolsDown(t) ==
    /\ tasks[t].phase = "completed" /\ ~tasks[t].cold
    /\ Becomes(t, [tasks[t] EXCEPT !.cold = TRUE])
    /\ UNCHANGED <<reports, acked>>

-------------------------------------------------------------------------------
\* deliver: the rows are read at once, and carried one after another.
Bug_MarkAtOnce(w, t) ==
    /\ delivering[w] = Nothing
    /\ tasks[t].pending
    /\ delivering' = [delivering EXCEPT ![w] = [task |-> t, next |-> "event"]]
    /\ tasks' = [tasks EXCEPT ![t].pending = FALSE]
    /\ UNCHANGED <<catalogVars, resultVars, scheduling, reports, acked, queueFaults>>

BeginDelivery(w, t) ==
    /\ delivering[w] = Nothing
    /\ tasks[t].pending
    /\ delivering' = [delivering EXCEPT ![w] = [task |-> t, next |-> "event"]]
    /\ UNCHANGED <<catalogVars, tasks, resultVars, scheduling, reports, acked, queueFaults>>

\* $sortArray by measuredAt and eventId, then $slice.  The list is sorted anew each time,
\* so its order is that of its elements and their set says all.
Newer(d, e) == d.at > e.at \/ (d.at = e.at /\ d.task > e.task)
Newest(es) == {e \in es : Cardinality({d \in es : Newer(d, e)}) < Latest}

\* measurements.deliver; a dead task has no event.
DeliverEvent(w) ==
    /\ delivering[w].next = "event"
    /\ LET t == delivering[w].task
           kept == {e \in recent : e.task # t}
       IN IF tasks[t].event = 0
          THEN UNCHANGED <<recent, delivered>>
          ELSE /\ recent' = Newest(kept \cup {[task |-> t, at |-> tasks[t].event]})
               /\ delivered' = delivered \cup {t}
    /\ delivering' = [delivering EXCEPT ![w].next = "schedule"]
    /\ UNCHANGED <<catalogVars, tasks, schedule, scheduling, reports, acked, queueFaults>>

DeliverSchedule(w) ==
    /\ delivering[w].next = "schedule"
    /\ schedule' = IF schedule <= delivering[w].task THEN delivering[w].task ELSE schedule
    /\ delivering' = [delivering EXCEPT ![w].next = "mark"]
    /\ UNCHANGED <<catalogVars, tasks, recent, delivered, scheduling, reports, acked, queueFaults>>

MarkDelivered(w) ==
    /\ delivering[w].next = "mark"
    /\ tasks' = [tasks EXCEPT ![delivering[w].task].pending = FALSE]
    /\ delivering' = [delivering EXCEPT ![w] = Nothing]
    /\ UNCHANGED <<catalogVars, resultVars, scheduling, reports, acked, queueFaults>>

\* A write fails, or the worker dies: the row stays pending.
DeliveryBreaks(w) ==
    /\ delivering[w] # Nothing
    /\ QueueFault
    /\ delivering' = [delivering EXCEPT ![w] = Nothing]
    /\ UNCHANGED <<catalogVars, tasks, resultVars, scheduling, reports, acked>>

QueueNext ==
    \/ CoreChanges \/ ReadCore \/ \E v \in snapshots : replaceCatalog(v)
    \/ FindDue \/ enqueue
    \/ \E w \in Workers :
        \/ \E t \in Tasks : BeginDelivery(w, t)
        \/ DeliverEvent(w) \/ DeliverSchedule(w) \/ MarkDelivered(w) \/ DeliveryBreaks(w)
    \/ \E t \in Tasks :
        \/ claim(t) \/ SendReport(t) \/ ClaimExpires(t)
        \/ Requeue(t) \/ ReleaseKey(t) \/ Cancel(t) \/ CoolsDown(t)
    \/ \E r \in reports : report(r)

SyncCatalog == ReadCore \/ \E v \in snapshots : replaceCatalog(v)
TaskStep(t) ==
    t \in Tasks /\
        (claim(t) \/ ClaimExpires(t) \/ Requeue(t) \/ ReleaseKey(t) \/ Cancel(t) \/ CoolsDown(t))
DeliveryStep(w) ==
    \/ \E t \in Tasks : BeginDelivery(w, t)
    \/ DeliverEvent(w) \/ DeliverSchedule(w) \/ MarkDelivered(w)

\* The catalog is copied again and again, agents go on claiming, leases and intervals
\* end, the workers' loops go on.
QueueFairness ==
    /\ WF_queueVars(SyncCatalog)
    /\ \A t \in 1..MaxCycles : WF_queueVars(TaskStep(t))
    /\ \A w \in Workers : WF_queueVars(DeliveryStep(w))

QueueSpec == QueueInit /\ [][QueueNext]_queueVars /\ QueueFairness

-------------------------------------------------------------------------------
\* A new cycle begins only when the key's interval since the last one of the same
\* revision is over, although the scheduler's reading of the schedule is old by
\* then and results are delivered late (enqueue, complete, deliver, reapExpired).
CyclesAreApart ==
    [][Len(tasks') > Len(tasks) =>
         \A t \in Tasks :
             tasks[t].phase = "completed" /\ tasks[t].revision = tasks'[Len(tasks')].revision
                 => tasks[t].cold]_queueVars

\* mongo.ts: a lost answer or a replay acknowledges the same durable completion,
\* never an earlier lease; what was acknowledged is in the journal or delivered.
AcknowledgedIsKept ==
    \A r \in acked :
        /\ tasks[r.task].phase = "completed" /\ tasks[r.task].reported = r.claim
        /\ tasks[r.task].event = r.at
        /\ tasks[r.task].pending \/ r.task \in delivered

\* The list of a route holds its two newest results, each cycle once, through
\* repeated and delayed deliveries (MongoMeasurementStore.deliver).
Results == {[task |-> t, at |-> tasks[t].event] : t \in delivered}
LatestIsExact == recent = Newest(Results)

\* What was measured and acknowledged is kept once, and the newest is what the list
\* of a route shows (complete, deliver).
MeasurementsAreKept == AcknowledgedIsKept /\ LatestIsExact

\* A key is never reserved for ever: its task is cancelled, or completed, delivered
\* and released (reapExpired, deliver).
CyclesEnd == \A t \in 1..MaxCycles : (t \in Tasks /\ tasks[t].active) ~> (t \in Tasks /\ ~tasks[t].active)
===============================================================================
