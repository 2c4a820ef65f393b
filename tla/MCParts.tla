------------------------------ MODULE MCParts ------------------------------
\* Parts of the system that share no state with each other: a behaviour
\* is one of one part, which is chosen at the start, and the rest stays as it is.
\* Their interleavings would say nothing that the parts do not say alone.
EXTENDS PrepaidAccount, DepositScan, NotificationOutbox, RetailRating, AddressPool,
        GateScheduling, SessionAdmission, ConfigPayment, DoubleZeroRecovery, ProbeServer,
        ProbeQueue, ProbeJobs, TLC

CONSTANTS
    Parts,       \* the parts that are explored
    MaxFaults    \* MaxFaults[p]: bound on the faults of part p

VARIABLES part, faults

Rest(owners, theirs) == IF part \in owners THEN TRUE ELSE UNCHANGED theirs

Only(p) ==
    /\ part = p
    /\ UNCHANGED part
    /\ Rest({"account", "transfers"}, transferVars)
    /\ Rest({"account"}, accountVars)
    /\ Rest({"deposits"}, depositVars)
    /\ Rest({"notifications"}, outboxVars)
    /\ Rest({"rating"}, ratingVars)
    /\ Rest({"addresses"}, poolVars)
    /\ Rest({"gates"}, schedulingVars)
    /\ Rest({"admission"}, admissionVars)
    /\ Rest({"purchase"}, vars)
    /\ Rest({"recovery"}, recoveryVars)
    /\ Rest({"servers"}, serverVars)
    /\ Rest({"queue"}, queueVars)
    /\ Rest({"jobs"}, jobsVars)

\* A part works or a fault strikes it.  What counts as a fault is which of the two
\* was done: the failure of a scan that found nothing changes the same as its success.
WorksOrFails(work, fault) ==
    \/ work /\ UNCHANGED faults
    \/ fault /\ faults < MaxFaults[part] /\ faults' = faults + 1

\* The account with its money, its lanes running as in Transfers; the lanes alone.
Accounting == Only("account") /\ PrepaidNext /\ UNCHANGED faults
Transferring == Only("transfers") /\ WorksOrFails(TransfersWork, TransferFault)
Scanning == Only("deposits") /\ WorksOrFails(DepositWork, ScanFails)
Notifying == Only("notifications") /\ WorksOrFails(OutboxWork, OutboxFault)
Rating == Only("rating") /\ WorksOrFails(RatingWork, SettlementDies)
Allocating == Only("addresses") /\ PoolNext /\ UNCHANGED faults
Scheduling == Only("gates") /\ WorksOrFails(SchedulingWork, SchedulingFault)
Admitting == Only("admission") /\ AdmissionNext /\ UNCHANGED faults
Purchasing == Only("purchase") /\ Next /\ UNCHANGED faults
Recovering == Only("recovery") /\ RecoveryNext /\ UNCHANGED faults
Serving == Only("servers") /\ ServerNext /\ UNCHANGED faults
Queueing == Only("queue") /\ QueueNext /\ UNCHANGED faults
Probing == Only("jobs") /\ ProbeJobsNext /\ UNCHANGED faults

\* A part that is not explored has one initial state.
OneInit(p, choice) == part = p \/ choice

PartsInit ==
    /\ part \in Parts
    /\ faults = 0
    /\ PrepaidInit
    /\ DepositInit
    /\ OutboxInit
    /\ RatingInit
    /\ PoolInit
    /\ SchedulingInit
    /\ AdmissionInit
    /\ Init
    /\ RecoveryInit /\ OneInit("recovery", enabled /\ device = CHOOSE d \in Devices : TRUE)
    /\ ServerInit /\ OneInit("servers", \A t \in Transports : interface[t] = NoInterface)
    /\ QueueInit
    /\ ProbeJobsInit /\ OneInit("jobs", kind = "trading" /\ withStore)

PartsNext ==
    \/ Accounting \/ Transferring \/ Scanning \/ Notifying \/ Rating
    \/ Allocating \/ Scheduling \/ Admitting \/ Purchasing
    \/ Recovering \/ Serving \/ Queueing \/ Probing

partsVars == <<part, faults, prepaidVars, depositVars, outboxVars, ratingVars, poolVars,
               schedulingVars, admissionVars, vars, recoveryVars, serverVars, queueVars,
               jobsVars>>

PartsSpec == PartsInit /\ [][PartsNext]_partsVars

LiveSpec ==
    /\ PartsSpec
    /\ TransfersFairness
    /\ WF_depositVars(part = "deposits" /\ BeginScan) /\ WF_depositVars(ScanStep)
    /\ OutboxFairness
    /\ \A g \in Gates : WF_schedulingVars(part = "gates" /\ sendHeartbeat(g))
    /\ SchedulingFairness
    /\ \A r \in Requests :
        WF_vars(Step(r)) /\ WF_vars(part = "purchase" /\ Create(r) /\ phase # "requested")
    /\ WF_vars(ClaimAges)
    /\ WF_recoveryVars(part = "recovery" /\ HeartbeatStep)
    /\ WF_recoveryVars(part = "recovery" /\ ReconnectStep)
    /\ WF_recoveryVars(part = "recovery" /\ ClockTicks)
    /\ WF_serverVars(part = "servers" /\ SyncStep)
    /\ WF_serverVars(part = "servers" /\ LoopStep)
    /\ WF_queueVars(part = "queue" /\ SyncCatalog)
    /\ \A t \in 1..MaxCycles : WF_queueVars(part = "queue" /\ TaskStep(t))
    /\ \A w \in Workers : WF_queueVars(part = "queue" /\ DeliveryStep(w))
    /\ ProbeJobsFairness

\* A gate that stays wanted, able and in place is schedulable again and again,
\* though old heartbeats and the marking of stale conditions overtake new ones
\* (selectSchedulableGate, recordGateHeartbeat, markStaleGateConditions).
HealthyComesBack == \A g \in Gates : <>[]Healthy(g) => []<>Schedulable(g)

\* A gate's conditions, its agent's DoubleZero tunnel and its probe servers come back
\* when what troubled them is over (GateScheduling, DoubleZeroRecovery, ProbeServer).
TroublePasses ==
    /\ part = "gates" => HealthyComesBack
    /\ part = "recovery" => TroubleIsTreated
    /\ part = "servers" => ServersComeBack

\* A payout, a deposit, a notice, a paid configuration and a measurement reach their
\* end, whatever fails or dies on the way (Transfers, DepositScan, NotificationOutbox,
\* ConfigPayment, ProbeQueue, ProbeJobs).
WhatIsOwedArrives ==
    /\ part = "transfers" => TransfersSettle
    /\ part = "deposits" => PaymentsAreCredited
    /\ part = "notifications" => EventsAreMailed
    /\ part = "purchase" => PaidIsActivated
    /\ part = "queue" => CyclesEnd
    /\ part = "jobs" => JobsEnd

\* The types of all parts.
PartsTypeOK ==
    /\ PrepaidTypeOK
    /\ DepositTypeOK
    /\ OutboxTypeOK
    /\ RatingTypeOK
    /\ PoolTypeOK
    /\ SchedulingTypeOK
    /\ AdmissionTypeOK
    /\ TypeOK
    /\ RecoveryTypeOK
    /\ ServerTypeOK
    /\ QueueTypeOK
    /\ ProbeJobsTypeOK

\* Bound: of a wallet without funds, an RPC error, a crash and a slow transaction, two
\* happen to one purchase, in any order; a state with a third is checked, not left.
TwoMishaps == poor + errors + crashes + slow <= 2

RowsAreAlike ==
    UNION {Permutations(l) : l \in {Withdrawals, Sweeps, Plans}}

\* A pool of two addresses and a pool of one, for four sessions: the first pool
\* overflows into the second, both are exhausted and the cursor wraps.
MCPoolSize == <<2, 1>>
MCInitOffset == <<1, 1>>

MCCore == <<1, 2>>

MCFaults == [account |-> 0, transfers |-> 2, deposits |-> 3, notifications |-> 3,
             rating |-> 3, addresses |-> 0, gates |-> 0, admission |-> 0, purchase |-> 0,
             recovery |-> 0, servers |-> 0, queue |-> 0, jobs |-> 0]
MCLiveFaults == [transfers |-> 2, deposits |-> 2, notifications |-> 2, gates |-> 1, purchase |-> 0,
                 recovery |-> 0, servers |-> 0, queue |-> 0, jobs |-> 0]
==============================================================================
