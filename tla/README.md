# Formal models of the HyperSpace VPN control plane

TLA+ modules, TLC configurations and TLAPS proofs for the parts of this
repository that decide who gets a tunnel, on which address, for how long and for
what money: `packages/control-plane`, the services of `apps/control-plane-api`,
the loops of `apps/control-plane-worker`, the gate agent
(`apps/gate-agent/cmd/hyperspace-gate-agent/main.go`) and the helper that replaces it.

`PROJECT.json` holds the index: components, runs, the source lines behind every
definition (`map`), mutants, findings, hazards and theorems.

    tlasany M.tla                       parse
    tlc -config X.cfg M                 check a run
    tlapm MProofs.tla                   check the proofs of a module

## 1. The system

A user buys a *config* (a session). The API creates it and takes the payment, the
worker reconciles it through phases, the jobs it enqueues are claimed by the agents
of the two gates of a path (ingress and egress), which set up WireGuard, routes and
nftables rules and report back. Agents also send traffic counters, which are charged
against the config's quota, and lists of the tunnels they carry, which are compared
with what the tables say. A config is paid for once, or from a prepaid balance that
deposits fill and rated windows empty; what is left can be withdrawn.

    user ── API ──► sessions ◄── reconciler (worker) ──► assignments ──► jobs
              │         ▲               │                     ▲            │ claim
              ▼         │               ▼                     │ reports    ▼
          payments   quota ◄── samples ──────────────────── gate agents (host, kernel)
              │                         ▲                     │ heartbeats, lists
              ▼                         └── drift, scheduling ◄┘
      balance ◄─ deposits, ratings     worker loops: settle, sweep, withdraw, mail, roll out

PostgreSQL is the only channel between API and worker: rows, row locks and unique
indexes. Agents poll over HTTP; requests and answers can be lost and late. The Solana
cluster and the mail provider are outside; they may act and let the call fail.

### 1.1 Inventory

**Sessions** (`resources/sessions`, `reconciler/session-controller.ts`,
`application/sessions`). State: `desired_state`, `generation`, phase, `hidden_at`,
last revocation reason. Operations: create (under the account's limits), activate after
payment, delete unpaid, revoke (owner, billing, quota), reactivate (quota raised), hide;
the reconciler's probing, scheduling, commit, activation, timeout and revocation steps.
Hard: steps of the reconciler meet requests and reports in any order; the provisioning
timeout; generations; creation requests overlap and are retried; one handler reads
without a lock. Correct when: an active session's tunnel is up on both gates, a revoked
one's is down, a manual revocation is final, a revocation ends, limits hold.

**Gate assignments and jobs** (`resources/gate-assignments`, `resources/jobs`,
`reconciler/assignment-controller.ts`). State: desired state, plan and phase of each
assignment; jobs with phase, lease, retry count and delay. Operations: enqueue with
duplicate checks, claim, lease expiry, report, retry, death. Hard: a job executed
twice, reports out of order, duplicate checks that look at another generation's jobs.
Correct when: the phase in the table is what the gate did.

**Client addresses** (`resources/addresses`, migration 0007). State: leases, pool
cursors. Operations: scan, grant, release. Hard: releases run in the middle of a scan,
grants are rolled back, the cursor wraps. Correct when: no address has two holders, a
scan that reports exhaustion has met every address.

**Rendered plans and config artifacts** (`resources/rendered-plans`,
`resources/artifacts`). State: plan per generation, downloadable client config and its
invalidation. Correct when: a config can be downloaded only for the tunnel it describes.

**Gate agent** (`apps/gate-agent`). State: a state file for each assignment, the kernel
(interfaces, routes, rules and their counters), in memory one job. Two goroutines:
control lane and telemetry. Operations: prepare, commit, revoke, rehydrate at start-up,
sample. Hard: crash or reboot between any two commands, state files rewritten in
place, commands that fail and are ignored, counters that vanish with the rules that
count. Correct when: revoked means nothing is left, applied comes back, the counter
neither loses nor repeats payload.

**Usage metering and quota** (`resources/actual-state`, `application/billing/*quota*`).
State: samples, consumed and included bytes, exhaustion. Operations: record a sample,
enforce, adjust. Hard: samples lost, repeated and reordered, resets of the counter,
repeated checkpoints. Correct when: what is charged was forwarded, and a used-up quota
ends the traffic.

**Actual state and drift** (`reconciler/drift-controller.ts`, `resources/actual-state`).
State: the handles each gate last listed. Operations: store a list, mark what is missing
as drifted and enqueue its repair, revoke what is left over. Hard: a list taken before a
report and stored after it; a gate that restarts and brings back a part. Correct when:
what is lost comes back and what is wanted is spared.

**Gates and path choice** (`resources/gates`, `resources/gate-leases`,
`reconciler/gate-controller.ts`, `planning/choose-path.ts`). State: desired state, status,
three conditions and a lease for each gate. Operations: heartbeat, lease expiry, marking
stale gates, choice of two gates. Hard: the API judges a heartbeat by the gate row it read
earlier; conditions are taken away one statement at a time. Correct when: a chosen gate
can carry a tunnel and a healthy gate is chosen again.

**Config payments** (`services/solana-config-payment.ts`,
`resources/billing/solana-config-payment-repository.ts`). State: payment row, signed
transaction, session link. Operations: ensure, claim, sign and record, send, wait,
recover, confirm, fail. Hard: requests of one purchase overlap, die, and share only the
row; the cluster answers late. Correct when: one purchase is charged once, and who paid
gets the config.

**Direct deposits** (`application/billing/direct-solana-deposit.scenario.ts`). State: scan
cursors, receipts, the remainder below a cent. Operations: list token accounts, page
through signatures, credit, save the cursors. Hard: a scan that fails half-way, pages
that end before the cursor, signatures that become final meanwhile. Correct when: a
payment is credited once and none is passed.

**Prepaid balance and charges** (`resources/billing/prepaid-repository.ts`,
`application/billing/prepaid-billing.scenario.ts`). State: buckets (cash, promotional,
reserved, debt), ledger, accrued remainder, grace and suspension, plan assignments,
ratings, notification outbox. Operations: rate windows, charge, credit, suspend, restore,
mail. Hard: four kinds of operations take from the same buckets; window ends come from
plans, reports, earlier windows and the cutoff; plans change and change back. Correct when: the
ledger tells the balance, each moment is charged once under its plan.

**Withdrawals and sweeps** (`application/billing/withdrawal.scenario.ts`,
`loops/solana-withdrawal-loop.ts`, `loops/solana-revenue-sweep-loop.ts`). State: rows with
a status, a signature and a retry time. Operations: request, cool down, cancel, claim,
sign, record, send, settle. Hard: the worker dies between any two calls; a transaction not
seen for ten minutes is replaced. Correct when: a row is paid at most once, and in the end.

**Gate-agent deployments** (`resources/gate-agent-deployments`,
`reconciler/gate-agent-deployment-controller.ts`, the helper
`scripts/hyperspace-gate-agent-release`). State: deployment rows, their jobs, the host's binary, helpers and recorded
failure. Operations: deploy, roll back, verify by heartbeats, deadlines. Hard: worker,
agent and helper see only each other's traces. Correct when: success was seen, the verdict
is true of the host, a deployment ends.

**DoubleZero recovery and probe servers** (`apps/gate-agent`, `doubleZeroRecoveryManager`
and `probeServerManager`). State: the recovery record in memory and on disk, a cached device
state; a map from transports to UDP listeners. Operations: observe at each heartbeat, reconnect
beside it; synchronise listeners with interfaces, a read loop for each socket. Hard: decisions
from stale answers, writes that fail, restarts; sockets closed and replaced without the lock
while their loops end. Correct when: a healthy tunnel is left alone, reconnects keep their
cooldown, trouble is treated; what is reported ready is served.

**Benchmarks and trading probes** (`resources/benchmarks`, `resources/trading-probes`,
`probes/mongo.ts`, `measurements`). State: tasks or jobs with leases and retries, schedules,
results, outboxes of results. Operations: schedule, claim, report, expire, cancel, deliver.
Hard: no transactions in Mongo, snapshots in PostgreSQL, reports that are late or repeated,
targets edited meanwhile, deliveries that fail. Correct when: cycles are an interval apart,
an acknowledged result is kept once and as measured, and nothing blocks the next cycle.

**DoubleZero usage import, authentication, API surfaces and rate limits, worker runner,
client tunnel in the agent's directory, web UI, observability, infrastructure**: see section 8.

### 1.2 What is modelled

| Component | Module | Status |
|---|---|---|
| Client addresses | `AddressPool`, promise in `AddressLease` | modelled, proved |
| Sessions, jobs, assignments, plans, artifacts | `SessionLifecycle` | modelled, safety proved (in part under hypotheses); choice of another gate left out |
| Admission and hiding of sessions | `SessionAdmission` | modelled, proved |
| Actual state and drift | `DriftRepair` on `SessionLifecycle` | modelled, safety proved |
| Gate agent: control lane, state file, telemetry | `GateAgent` (and, atomically, `SessionLifecycle`) | modelled for the egress role, safety proved |
| Usage metering, quota | `UsageMetering` on `GateAgent` | modelled, safety proved |
| Gates and path choice | `GateScheduling` | modelled, safety proved |
| Config payments | `ConfigPayment` | modelled, proved |
| Withdrawals, sweeps | `Transfers`, promise in `PayOnce` | modelled, proved |
| Prepaid balance | `PrepaidAccount` on `Transfers`; `RetailRating`; `NotificationOutbox` | modelled, books and windows proved |
| Direct deposits | `DepositScan` | modelled, safety proved |
| Gate-agent deployments | `AgentRollout` | modelled, safety proved (the verdict for one deployment) |
| DoubleZero recovery, probe servers | `DoubleZeroRecovery`, `ProbeServer` | modelled, safety proved |
| Benchmarks and trading probes | `ProbeQueue` (Mongo), `ProbeJobs` (PostgreSQL) | modelled but for pairs, retention and reads; safety proved |

## 2. Modules

Operators named `Bug_X`, or marked "Mutant" in their comment, are plausible mistakes in
the definition that follows them; no action uses them. With the definition replaced by
its mutant the run of the named property must fail.

**`AddressLease`** is the abstract specification: holders, addresses, `Grant`,
`Return`. `AddressPool` and `SessionLifecycle` both implement it (`LeasePromise`).

**`AddressPool`** follows `ensureClientAddressLease` insert by insert, as releases take
no pool lock. `open`/`undo` is the database transaction: the first allocation locks
all pools, so one transaction allocates at a time; `RollbackTx` undoes lease and cursor.
`taken` is a history variable: what the current scan found taken.

**`SessionLifecycle`** has one action for each handler of the control plane (each is
one transaction with row locks) and the agents' loops: claim, execute, report. Session
rows are `desired, generation, phase, hidden, quotaRevoked`; assignment rows `want, plan,
status, material`; `jobs[a]` is the job table of an assignment in order of creation;
`host` is what the gate carries, changed atomically here (`GateAgent` opens it up);
`worker` is the job an agent holds; `late` the reports whose sender gave up. A retry
delay is the freedom to claim a `retryable_failed` job now or after later ones; leases
expire at any moment, also under a living agent.

**`DriftRepair`** extends it: every lifecycle step also keeps the kernel in step, gates
may restart and lose part of their tunnels, send lists of what they find (`sent`), which
arrive later (`latest`), and `reconcileDrift` computes the differences from them, to be
handled gate by gate in transactions of their own (`found`). Its actions interleave with
all of the lifecycle's.

**`SessionAdmission`** is one account with overlapping creation calls, statement by
statement under the account's row lock, while its sessions end, are reactivated, deleted
and hidden without that lock. Phases are abstracted to what the counts tell apart.

**`GateAgent`** is one assignment on one host: `file` (unreadable between truncation and
write), the kernel (`links, rules, bytes`), the control lane step by step, telemetry
(`peek`: state file read, rules not yet), crashes (kernel survives) and reboots (it does
not). `forwarded` is the history of payload really accepted. The egress role is
followed, because its counter is charged.

**`UsageMetering`** extends it with `recordGateAssignmentCounter`, quota enforcement and
the administrator's adjustment: the composition of host, samples and account. A request that
times out may arrive after the next sample was sent (`stale`, `RecordLate`). `mixed` and
`late` are histories: a sample was taken across the control lane's work, or recorded behind
a later one.

**`GateScheduling`** is heartbeats (sent, read, recorded: three moments), conditions,
leases, the reconciler's marking of stale gates (a statement reads and then writes, for
one condition at a time) and the two queries of `choosePath`. Two of the readiness rules
stand for all: host tools, which no later query looks at again, and the DoubleZero
tunnel, which `selectSchedulableGate` checks once more.

**`ConfigPayment`** has one action for each statement on the payment row or answer of
the RPC node, for any number of requests of one purchase. The cluster (`tx`, `Settle`)
is external: a transaction is signed, sent, and lands, fails or expires. Amounts, fees
and keys are abstracted to "the wallet has the funds or not". A claim may grow old while its
request is at work. `races` is a history: how often a request failed or claimed the row while
another one was at work on it.

**`PayOnce`** is the abstract specification of a payout: paid at most once, acknowledged
only if paid, never paid once closed. **`Transfers`** implements it: withdrawals and sweeps
of one account, claimed, signed, recorded, sent and settled by a worker that may die in
between (`lane`), and a chain that executes, rejects or lets expire.

**`PrepaidAccount`** extends `Transfers` with amounts: each of its actions that moves a
row of the lanes is the action of `Transfers` together with what the same transaction
does to buckets and ledger, so it implements `Transfers`, and through it `PayOnce`.
`wallet` is the history of the custodial wallet's tokens. Sums of amounts over rows are counted
unit by unit (**`Sums`**), which is slower than a fold and has laws that can be proved.

**`RetailRating`** says which time of a session is charged under which plan: windows are
listed by one query, rated in one transaction each, with reports, plan changes and
crashes in between. **`NotificationOutbox`** is the mail queue with its claims.
**`DepositScan`** is the scan of a wallet's token accounts with cursors and receipts.

**`AgentRollout`** is one gate's deployments: the worker's view of a row (read, then
judged), jobs and reports that can be lost, the helper's steps, heartbeats and deadlines.
`proven` and `crossed` are history variables of what was seen, and of what overtook it. The
helper's automatic rollback may fail as well; what it leaves running is then not the previous
release, and the verdict is `crossed`.

**`DoubleZeroRecovery`** splits a heartbeat into reading the status, looking the device up
(or taking the cached answer) and deciding; the reconnect it may start is four more steps that
run beside later heartbeats. Times are ages that stop growing past every limit. `lastTry`,
`good` and `forgot` are histories: when the last reconnect really began, for how long the
tunnel has been healthy, and whether a restart read a record older than the last reconnect.

**`ProbeServer`** follows `sync` from the bindings it computes through `ensureListener`
(read under the lock, close without it, bind, note, start the loop) to the pruning, beside the
read loops (`loops`), which end at any error of their socket and report that later (`exits`).
`Sockets` bounds how many sockets there are at a time: without a free one nothing is bound.

**`ProbeQueue`** is the queue in Mongo for one key: each step is a compare-and-set on one
document, results are carried from the task to the collections by several workers.
**`ProbeJobs`** is the queue in PostgreSQL for one node and target or one pair: scheduling on
a snapshot, leases, reports, and the outbox to the measurement store. A gate's benchmark that
is reported as failed goes back to `claimable`, to `failed` or to `dead`, whatever phase the
job is in by then (`ReportFailure`); a trading job ends with its first accepted report.

**`MCParts`** runs twelve (or nine) of these components in one instance. They share no
state, so a behaviour is chosen to be one part's; it counts the parts' faults. Each part's
steps are divided into those in which it works and those in which something fails
(`DepositWork`, `ScanFails`), and a fault is a step taken by one of the latter: a scan that
ends well without having found anything is none, though it changes no more than one that
fails.

## 3. Runs

| Run | Config | Question | Bounds |
|---|---|---|---|
| `lifecycle_safety` | `LifecycleSafety` | is an active session up, a revoked one down, is the phase backed by address and config, over faults, late reports, timeouts and reactivation? | 1 session, 4 generations, 2 faults (1 after the second generation), 2 attempts |
| `lifecycle_addresses` | `LifecycleAddresses` | is an address ever routed for two sessions, but for one that timed out? | 2 sessions, 1 address, 1 fault, timeouts at any moment |
| `lifecycle_live` | `LifecycleLive` | does provisioning end, does every revocation end? | 4 generations, 1 fault, 2 attempts |
| `metering` | `Metering` | is the counter honest, is nothing charged twice, is a revoked host clean? | 2 generations, 2 units of payload, two of a crash, a reboot and a failing commit, 3 samples, samples overlap the control lane and arrive late |
| `metering_settles` | `MeteringSettles` | does the tunnel come up, come back and go down when it should? | 1 unit, two of a crash, a reboot and a failing commit, 2 samples, samples overlap the control lane |
| `drift` | `Drift` | does what a gate lost come back, and does cleanup spare what is wanted? | 1 session, 2 generations, 1 fault, lists of one gate, 4 jobs for each assignment |
| `rollout` | `Rollout` | was success seen, is the verdict true, does a deployment end? | 1 deployment, 2 artifacts, 1 fault, 1 claim of each job |
| `parts` | `Parts` | safety of the parts below | see below |
| `parts_live` | `PartsLive` | their liveness, and `PayOnce` | 2 faults of a lane, 2 tries, a wallet that has the funds |
| `finding_*` | `Finding*` | section 6 | |

`parts`: the prepaid account with 2 withdrawals and a sweep, cents of 2 units and
charges of 3, so that a remainder is carried (`BooksBalance`); deposits to
2 token accounts with pages for 2 signatures and amounts that leave a remainder
(`DepositsAreExact`); rating over 4 units of time with 2 plans assigned 3
times (`WindowsAreExact`); 2 gates with a heartbeat under way (`SchedulableIsAble`); 2
calls at once for 2 requests, limits and window of 1 (`AdmissionIsControlled`,
`HiddenIsOver`); 2 requests of a purchase with 2 transactions, 1 error, 1 shortage, 1
crash and 1 request that outlives its claim, of which two happen together (`ChargesAreAccounted`, `ConfirmedHasLanded`); 4 sessions on pools of 2 addresses and 1
(`ScanIsExact`, `LeasePromise`); a tunnel with 2 devices, one change from outside and one
fault (`ReconnectsAreJustified`); 2 transports on 2 interfaces with 3 faults
(`ListenersAreTrue`); 2 workers that deliver and 2 cycles of a key (`CyclesAreApart`,
`AcknowledgedIsKept`, `LatestIsExact`); a probe job with 2 tries, an edited target and a
failing delivery (`RevisionIsMeasured`, `ResultsAreKept`); and everybody's types. Properties
of one kind are joined for the run: `BooksBalance` (with `MoneyIsThere`), `DepositsAreExact`
(`DepositsAddUp`, `NothingSkipped`), `WindowsAreExact`, `MeasurementsAreKept` (`AcknowledgedIsKept`, `LatestIsExact`),
`ProbeResultsAreTrue` (`RevisionIsMeasured`, `ResultsAreKept`), and in `parts_live`
`WhatIsOwedArrives` (`TransfersSettle`, `PaymentsAreCredited`, `EventsAreMailed`,
`PaidIsActivated`, `CyclesEnd`, `JobsEnd`) and `TroublePasses` (`HealthyComesBack`,
`TroubleIsTreated`, `ServersComeBack`).

Why these bounds are enough to be interesting. Two attempts (`MaxRetries = 2`, 5 in the
code) reach every branch of `resolveReportedJobTransition`, and two faults let
a job die. Four generations are revoke, reactivate, revoke again. One session suffices
where sessions share nothing; what they share are addresses, and one address for two
sessions is the tightest contest. Two assignments are always there (the two roles).
Four sessions for three addresses exhaust both pools; the pool of one has its cursor
beyond its size, as the migration's default does for a /32. Two units of payload let one
be counted before and one after a reset. Two transactions are what a double charge
needs; larger instances of the purchase (three transactions, two errors, two crashes) were
run as well and are too long to repeat. One claim holds the lock of an account, so two calls contend for it. A
third plan assignment can return to the first plan.

`CHECK_DEADLOCK FALSE`: every model may rightly stop (revoked for good, all bounds used
up, a payment settled). The constraints `FaultsOrReactivation` and `RevokedByOwner` keep
combinations apart that other runs cover. `OwnersOnly` (`lifecycle_addresses`) leaves out
payment, hiding and quota, which move no address by themselves; `OrderOnly` (`metering`) checks
a state with a mixed or late sample and does not go on from it, `TwoMishaps` (`parts`) likewise one with
a third mishap of a purchase; `OrderOnly` also lets one request at a time be
on its way after the agent gave up on it. Permutations of the
sessions, of the account's rows and of the pools' sessions are symmetries of runs that check
no liveness.

## 4. Fairness

Only weak fairness, and only of loops. Users, owners, administrators, traffic, faults and
late messages are never fair; faults are bounded in number instead, as the code recovers
from any one of them but not from an endless series.

* `SessionLifecycle`: each reconciler step (the worker's loop calls every controller in
  turn, for ever), the agents' claim, execution and report (`runJobWorker` loops), lease
  expiry. `ScheduleFails` shares its fairness with `Schedule`. `DriftRepair` adds the
  agents' telemetry task and `reconcileDrift`.
* `GateAgent`: the lane's next command, restarts (systemd `Restart=always`), the jobs the
  control plane sends until they succeed. `UsageMetering`: the enforcement loop, besides.
* `Transfers`: claims, settlement, broadcast, the clocks of rows that wait, and the chain's
  decision on each transaction. `TransfersSettle` admits that a row ends in `processing`
  when its worker died there (section 6).
* `DepositScan`, `NotificationOutbox`: the loops run again after a failure.
* `GateScheduling`: agents go on sending heartbeats and the API handles what arrives.
  `HealthyComesBack` says "again and again": a stale marking may still follow.
* `ConfigPayment`: requests go on unless they crash, claims grow old, and the customer
  clicks Confirm again while there is no config. The last one is an assumption about a
  person: nothing in the code resumes a payment by itself.
  `PaidIsActivated` admits that a race has taken the row away (`races > 0`).
* `DoubleZeroRecovery`, `ProbeServer`: heartbeats, the running reconnect, the clock, the
  synchronisation's ticker and the goroutines of sockets go on (`HeartbeatStep`,
  `ReconnectStep`, `SyncStep`, `LoopStep` are the steps in which nothing fails).
* `ProbeQueue`, `ProbeJobs`: the catalog is copied again and again, agents claim, leases and
  intervals end, the workers' loops go on; that an agent reports is not assumed.
* `AgentRollout`: the worker's loop and the deadlines. The run also lets helpers end, and
  a gate be seen again or its lease expire (`Punctual`): a host may be slow, not undead.

## 5. Proofs

Eight modules of proofs, checked by TLAPS for every value of the constants.

**`SessionLifecycleProofs`**: `LifecycleTypeOK` is not inductive, as a report refers to
a job by its place in the table; `Typed` adds `TasksHaveJobs` (every task held by an agent
or in a late report refers to a job that exists; jobs are never deleted). On it rest
`PhaseFits` (address and artifact fit the phase), and from it `LifecyclePhaseIsBacked`;
then the action property `LifecycleManualRevocation` and the refinement
`LifecycleKeepsPromise`. All of them hold with any number of sessions, faults, retries,
with timeouts and late reports, from `LifecycleAssumption` only.

The other half of the module relates every job of the table to host and phase, in a
session's first life (provisioned once, revoked once). `FirstLives` says which jobs there are
in which phase, and which of them stand behind each status. `FirstTunnels` adds the keys and
the tasks: what a task in an agent's hands or in a late report says it did is what the gate
has, and a commit job carries the keys that its peer prepared. They give
`LifecycleFirstTunnelIsUp`, without any hypothesis on faults, timeouts or late reports.
`FirstEnds` is about the end, when no report is late: a task is the agent's own and not
one that was reported as done (`OwnTasks`), so no prepare is executed again once there is a
commit, and a revoke job that has succeeded is the last word on the host (`TornOn`). It gives
`LifecycleFirstRevokedIsDown`, under `~MayBeLate`. `LifecycleAddressRoutedOnce` adds
`FirstPlans` (a session with an address in its plan holds its lease, unless its provisioning
timed out): `LifecycleFirstAddressRoutedOnce`, under `~MayBeLate`. The timeout returns an address
that may still be routed, so the statement leaves out the tunnels of a session that has timed
out and is not torn down yet (`TimedOut`), and it holds for all others however many time out
beside them. The theorems about the
properties of the runs, `LifecycleActiveIsUp`, `LifecycleRevokedIsDown` and
`LifecycleAddressRoutedOnce`, are for `MaxGen <= 2`: sessions live once. None of these hypotheses is for the prover's sake: with a
reactivation and two faults, or a late report and three, the code breaks the property
(section 6). What the runs add is the reactivated session with at most one fault.

The last part of the module carries the first life of a session through what `DriftRepair`
adds to it. The invariants above are stated for sessions that are `FirstWanted`
(first generation, both its assignments wanted) and are kept by each step of the
lifecycle; here they are kept by lists, restarts, markings, repair jobs and cleanup as well.
A list is old when it arrives, so `MissingHad` says what a handle in it is worth: only a tunnel
that was there is found missing, hence a repair only follows a commit that succeeded and
carries the same keys. `DriftRepairTypeOK`, and `DriftCleanupSparesWanted` with no
hypothesis at all: a wanted assignment of a first generation becomes an orphan only by a job that
died. That none dies is `NoneDies`, by `Affordable`: an attempt that a job has used, or that
its agent's report is about to use, was a fault, and `MaxFaults < MaxRetries`. Under this
hypothesis `DriftFirstTunnelIsUp`, and with `MaxGen <= 2` the property of the run,
`DriftRepairIsSafe`; timeouts and late reports are allowed in both. The hypothesis cannot be
dropped (section 6); the run has `MaxFaults = 1`, `MaxRetries = 2`. A tunnel is up here when
the gate has it committed; that what a restart lost from the kernel comes back is
`LostIsRepaired`, which is liveness and stays with TLC.

**`PrepaidAccountProofs`**, about the lanes of `Transfers`: `TransfersPaidOnce` and the
refinement `TransfersKeepPromise`. The inductive part is `OnlyRecordedIsAlive`: only the transaction recorded in a submitted or
confirmed row can still be executed; all earlier ones have failed or expired, because the
loops give a transaction up only then. `LaneAgrees` ties the worker's place to its row.

About the account: every step of it is a step of `Transfers` or leaves the
lanes alone (`PrepaidImplementsTransfers`), so `PrepaidKeepsPromise` follows from the
theorem above. `PrepaidBooksBalance` and `PrepaidTypes` (nothing is ever overdrawn) come
from bucket lemmas about `consumeBillingCharge` and `applyBucketCredit`, and from the fact
that a charge takes only what is not reserved. `PrepaidMoneyIsThere` adds `MoneyInv`: a row
that was never asked for has no amount, and each step moves the same amount between buckets,
wallet and exactly one of three sets of rows (those that reserve, those still to be swept,
those paid and not yet booked). `SumOfMore`, `SumOfLess`, `SumOfSame` and `SumOfFilled` are
the laws of sums it uses; the sets of rows may be infinite, what they add up to is not.

About the deposit scan: `DepositsNothingSkipped` under `MaxBurst <= Cap` (no more
transactions between two saved cursors than a scan has pages for): everything up to the
cursor a scan is about to save has its receipt (`ScanInv`). `DepositsAreCreditedOnce` needs no
such bound: what is credited changes only together with the receipts, by the division with
remainder of one payment, and a receipt names a transaction that has happened
(`DepositsInv`). `DepositsExact` joins the two. `DepositTypes` needs no bound either: no cursor,
saved or about to be, is ahead of what is final (`CursorsReached`).

About rating: `RatingWindowsAreExact` by `RatingInv`. The periods of the plans follow each
other without a gap (`PeriodsInv`); each window that is charged or listed lies in a single
period, and any two are apart (`ChargedInv`), though the table's key forbids only equal
windows: a window starts no earlier than the last of its plan ended, and windows of different
plans lie in different periods. That nothing is left out is the subtle half (`CoveredInv`): a
settlement that dies has inserted a prefix of its batch, so the ends of the windows in order
(`ORDER BY window_end`) are what keeps a later period of a plan from covering up a hole in an
earlier one. The mutant `ByEndDescending` breaks exactly that. `RatingTypes` follows from the
same invariant.

**`UsageMeteringProofs`**: about the composition of host, samples and account.
`MeteringRevokedIsClean` under `Unnoticed` (no teardown command fails unnoticed): the
lane's place determines what is left in the kernel and what the file may say.
`MeteringCounterIsHonest` under `Sound` (moreover rules can be listed, writes are not cut
short): `offset + bytes` is bounded by `forwarded` at each place of the lane, with the bytes
that a deletion is about to forget counted once. `MeteringNeverOvercharged` and
`MeteringChargedWithinRecorded` are also under `Sound`, with telemetry and the lane running side
by side and requests that arrive late; both say what holds `InOrder`, that is until a sample is
taken across the lane's work (`mixed`) or recorded behind a later one (`late`), which are the only
ways to charge too much. For the first, what was consumed is bounded by the value of the latest
sample, and the sample sent last is worth at least that and at most what was forwarded
(`MeteringInv`). The second is about hosts whose agent does not die: within a boot and a generation
the counter goes up, may drop once (a repeated revocation), and never goes up after that,
because what is prepared is committed for a later generation (`PlanInv`). So a sample that
exceeds the one before it exceeds all (`RiseInv`), and the units charged are new (`SpanIsNew`).
Section 6 lists what happens without each of
these hypotheses.

**`SessionAdmissionProofs`**: a call that has found nothing and counted holds the lock, and
what it found and counted stays (`FoundStays`, `ActiveStays`, `RecentStays`): others only
take away, except reactivation, which `lifted` counts. A window of the rate limit that
contains the new row lies within what the call counted back from its `now()`, whatever
rows with a later time are already there. From it `AdmissionControlsHold` and
`AdmissionHiddenIsOver`. `AdmissionTypes`: no id is given twice, and what a call read of the clock
is past.

The same module has the proofs about `AddressPool`. `AllocatorTypeOK`;
`AllocatorLeaseUnique` (inductive with the types: a grant goes to an address not in `Held`,
and `Held` is read when the insert is made); `AllocatorKeepsPromise`, the refinement of
`AddressLease`: a granting probe is a `Grant`, releases and rollbacks are a `Return`,
everything else stutters. It needs `PoolScanInv`: the session a scan runs for holds no address.
`AllocatorScanIsExact` needs `PoolScanCovers`: whatever offset the scan began at and however it
wrapped, the addresses it has passed in the current pool are those tried so far, and those
of the earlier pools are all in `taken` (`AllAreTried`: as many attempts as the pool is big
meet every offset). Assumption: `PoolAssumption` (no empty pool).

**`ControlLoopsProofs`** is about loops and requests that work on what they read some time
ago. `GatesSchedulableIsAble` and `GatesTypeOK`.
`OutboxSentWasMailed`: a row that says `sent` was mailed, though a courier that dies after the
mail was accepted leaves no trace of it and the row is mailed again (`SentWasMailed`; TLC
checks that every event is mailed in the end).
`RecoveryTypes`, and `RecoveryReconnectsAreJustified`, which rests on `RecoveryInv`, which says what each stale thing the
heartbeat uses is still worth: the record remembers the last reconnect unless a restart
forgot it (`RecordRemembers`), and the cached device, the status and the answer of the
look-up are each of a moment not longer ago than their age says, so that a tunnel that has
been healthy for longer cannot look troubled (`CacheIsOld`, `StatusIsOld`, `LookupIsOld`).

About config payments, with no hypothesis at all: `PaymentTypeOK`, `PaymentChargesAreAccounted`
and `PaymentConfirmedHasLanded`. A purchase can be charged twice (section 6), so the first of
them counts: the transactions that have landed are at most one more than the races, the
statements that failed or claimed the row of another request at work. The invariant gives every
charge its right: a transaction that can still land, and a request that may still sign one, use
up either the row, which is free only once, or a race (`Charging`, `Builders`, `Free`, `Chances`). The
second says that a row is confirmed and a config provisioned only when a transaction has landed
and, where there was no race, that it is the one the row names.

**`AgentRolloutProofs`**: `RolloutSucceededWasProven` rests on `HeartbeatProves` and `ViewProves`: the last heartbeat, or
the one the worker has read with the row, proves the deployment if it is fresh for it, for
any number of deployments and claims and whatever reports are late.
`RolloutVerdictIsTrue` is about a gate's only deployment whose deploy job is claimed once, with
helpers and heartbeats in time (`OneDeployment`; section 6 has what breaks it otherwise), and
for any number of faults, lost and late reports and rollbacks, where the run has one fault. Its
invariant `VerdictInv` says that the target is installed once and taken off once, and how far
what was seen lags behind (`SeenLags`); that a deployment not yet rolled back has nothing of a
rollback about it (`OnwardInstalls`); and that the row, seen and time the worker has read some
time ago are still good for a verdict (`ViewIsGood`). The theorem holds before all has come
to rest, too.

**`ProbeProofs`**: `ServerListenersAreTrue` and `ServerTypes` by `ServerInv`: who reads a socket, and who is about
to, is determined by where the synchronisation stands (`EntriesAreRead`), and a socket that
is in no entry is closed or the one just bound (`NoneIsLost`). `QueueAcknowledgedIsKept` and
the action property `QueueCyclesAreApart` by `QueueInv`: what a report that was accepted left
in its task, which claims may still report, and that a task's revision and coldness, once
there, stay; so the scheduler's old reading of the schedule may only make it enqueue later.
`QueueLatestIsExact`, with which `QueueMeasurementsAreKept` is complete, says that a list cut to
its newest results at each delivery is what one would get from all results, though deliveries
repeat and come late. "Newest" is defined by rank (fewer than `Latest` results are newer), which
spares the proof an induction over a list: `RankGrows` and `NewestAreAbove` are facts about a total
order, `NewestOfMore` follows (what was cut off before cannot come back), and a completed task
keeps its event (`CompletedStays`).
`ProbeResultsAreKept` by `ProbeJobsInv`: a row that may be reported has no accepted result, and
revisions in rows and answers never run ahead of the target's. It speaks of the target's
present revision. A job that was scheduled before an edit and claimed after it is measured at
the new revision and recorded under its own, old one, which the code permits and the theorem
does not exclude.

**`PartsProofs`** is about the composition `MCParts` that the parts' runs check.
`PartsAreThemselves`: a step of it is a step of the part that was chosen, and leaves the others
alone, so that every behaviour of the composition is one of each part's own specification (of
the probe parts, of the specification without fairness), and all that is proved of it carries
over. The account shares its lanes with `Transfers`, which may run alone: `LanesRun` and `AccountRuns`
say what holds then. `PartsTypes` collects the types of all twelve, which each part's own invariant
gives; the types of counters that a bound of the model stops (tries, mails, sockets,
`elapsed`) hold because the guards check the bound.

Model-checked only:

* `TunnelIsServed`: the host's place in its lane would have to be carried through every crash.
* `ActiveIsUp` and `RevokedIsDown` of a session that lives twice: `LifecycleSafety`, see above.
* All liveness, which is out of the prover's reach.

## 6. Findings and known deviations

Runs that TLC refutes, each against a sentence of the documentation:

* `finding_charged_twice`: a request that is slow between recording its transaction
  and sending it is answered "already processed" after another request has confirmed
  the row, sets the row to `failed`, and the next Confirm pays a second time. No fault
  is needed (no errors, no crash, no claim that grows old). `failSolanaConfigPayment` compares
  neither status nor signature.
* `finding_reactivation_stuck`: a session that was active once and is reactivated
  never gets its commit jobs.
* `finding_cooldown`: a withdrawal that has become `ready` is claimed and paid although
  its owner has a running config again; the documentation says the cooldown restarts.

Deviations that have no run, with the settings that reproduce them:

| What | Reproduce |
|---|---|
| A prepare job repeated after the revoke job leaves the assignment `prepared` and the session `revoking` for ever (`jobs/attempts.ts:121`, `gate-assignments/repository.ts:226`) | `RevocationCompletes` without the escape for faults |
| A config is hidden by a delete request that read `revoked` before it was reactivated (`sessions/repository.ts:414`) | `HiddenStaysDown` of `SessionLifecycle`, `MaxGen = 3`; `HiddenIsOver` without `raced` |
| The provisioning timeout releases an address that gates may still route (`session-controller.ts:236`; `docs/architecture/control-plane.md:74` says otherwise) | `ReleasedOnlyWhenRevoked`, with `MayTimeOut = TRUE`, or `AddressRoutedOnce` without `TimedOut` in `LifecycleAddresses` |
| A commit job of an earlier generation completes a reprovisioning (stale keys) | `ActiveIsUp`, `MaxGen = 3`, `MaxFaults = 2`, `MayBeLate = FALSE`, no constraint |
| A reactivation passes the limit of active sessions | `ActiveLimitHolds` without `lifted` |
| A late report of an old revocation sets a rescheduled assignment to `revoked`, and cleanup by a stale list then revokes it; likewise when a repair's commit has died while the tunnel is up | `CleanupSparesWanted` without its limits, `MaxGen = 4` |
| A repair job of an active session fails as often as it may: the assignment is `dead`, which the cleanup takes for an orphan whatever is wanted, and a tunnel that is up again is revoked under a session that stays active (`gate-assignments/repository.ts:502`) | `RepairIsSafe`, `MaxFaults = MaxRetries` (1 or 2) |
| A stale list makes the cleanup enqueue a revoke job at every reconcile | `Drift` without `MaxJobs` |
| A crash between truncating and writing a state file loses the assignment (`main.go:3615`) | `TunnelIsServed`, `MeteringSettles` with `MayTear = TRUE` |
| Teardown ignores commands that fail, and the assignment is `revoked` all the same (`main.go:3385`) | `RevokedIsClean`, `MaxIgnored = 1` |
| A sample or a crash between writing the offset and deleting the rules counts payload twice (`main.go:2128`) | `NeverOvercharged` without `mixed`, or with `MayTear = TRUE` |
| A failed `nft list` reads as zero (`main.go:2667`) | `NeverOvercharged`, `MayMisread = TRUE` |
| An agent that dies between tearing the kernel down and writing the revoked state starts again from the older offset: the counter goes back within its boot and generation, and the payload that follows is charged beyond the values that remain (`main.go:3402`) | `ChargedWithinRecorded` without `deaths = 0`, `MaxSamples = 5` |
| Samples recorded out of order are charged from the same base (`actual-state/repository.ts:116`) | `NeverOvercharged` without `late` |
| A request that outlives the two minutes of its claim records and sends a second transaction | `AtMostOneCharge`, `MaxSlow = 1` |
| A payout row whose worker dies between claim and record stays in `processing` | `TransfersSettle` without `LeftInProcessing` |
| More transactions between two saved cursors than pages: the oldest are never credited (`docs/runbooks/milestone3-billing-and-wallets.md:36`) | `NothingSkipped`, `MaxBurst > Cap` |
| A token account created after the first scan that found one is never scanned | `PaymentsAreCredited` without its first condition |
| A mail the provider took although the call failed is sent again | `mails[e] <= 1` |
| The helper's recorded failure of an earlier try makes a new deployment of the same release `rolled_back` before its helper has run; an old helper, an admin's rollback or a repeated job crosses a verdict | `VerdictIsTrue` without `crossed`, with `MaxClaims = 2`, or with two rows |
| A late report of the deploy job moves `rollback_requested` back to `verifying` | `VerdictIsTrue` without `crossed` |

Read from the code, and modelled as it is: a debt and cash may stand side by side after a
withdrawal is cancelled; a config opened while the account is suspended, or created while
a withdrawal is requested, is not revoked by it; a repeated report of `applied` overwrites
`applied_at`, so that time not yet rated is never charged, and after a reactivation the
old `revoked_at` ends all windows until the next revocation is reported; deltas of samples
that are lost after a revocation are lost.

The constants `MayX` name an assumption a run makes and the code does not
enforce; the passing runs say what holds under it.

Left out of the modules: reprovisioning on other gates; `beginSessionRevocation`, never
enabled because the request has already set the phase; the ingress role and half-built
rule sets in `GateAgent`; the archive of old samples and two recording transactions at once
in `UsageMetering`; subqueries that read an older snapshot within a statement; several
purchases at once in `ConfigPayment` (they share only the wallet's balance, which is
nondeterministic); `SKIP LOCKED`, limits and expiry of lists in `DriftRepair`; shadow mode
and the native asset in the billing modules; policies and ranking in `GateScheduling`;
several accounts in `SessionAdmission` (the lock and both counts are of one account); the
phase `staging` of deployments, which no code sets.

## 7. Plan

Done: all modules of section 2, their runs and the proofs of section 5. Left, in order:

1. `ActiveIsUp` and `RevokedIsDown` after a reactivation, under the hypothesis that at most one fault occurs.
2. The choice of another gate on reprovisioning, as a composition of `GateScheduling`
   with `SessionLifecycle`.

## 8. Not modelled

| Part | Why |
|---|---|
| DoubleZero usage import | a batch of inserts with unique keys; no decision reads them |
| Trading pairs, NTP jobs, retention and public reads of measurements | single statements, or reads that no decision follows |
| One-time codes, OAuth, user sessions, mail budget | single statements with a unique key or a conditional update around library calls |
| Rate limits, caches, download tokens, HTTP parsing | counters and look-ups at the edge; the operations behind the routes are modelled |
| Client tunnel (a desktop program in the agent's directory) | commands of one user's host; it shares no state with the control plane |
| Worker runner | appears as weak fairness; its back-off and health reports change no state of the system |
| Web UI, observability, infrastructure, test scripts | no state of the control plane |
