---------------------------- MODULE PartsProofs ----------------------------
(***************************************************************************)
(* The parts of MCParts side by side are, each for itself, what their own  *)
(* specifications say, whichever of them is the one that runs. So what is  *)
(* proved of each part holds of their composition, for every value of the  *)
(* constants: the types of all of them, and what the runs check of them.   *)
(***************************************************************************)
EXTENDS MCParts, PrepaidAccountProofs, SessionAdmissionProofs, ControlLoopsProofs, ProbeProofs

\* A step is one of the part that was chosen, and the others stay as they are.
Running ==
    \/ part = "account" /\ PrepaidNext
    \/ part = "transfers" /\ TransfersNext
    \/ part = "deposits" /\ DepositNext
    \/ part = "notifications" /\ OutboxNext
    \/ part = "rating" /\ RatingNext
    \/ part = "addresses" /\ PoolNext
    \/ part = "gates" /\ SchedulingNext
    \/ part = "admission" /\ AdmissionNext
    \/ part = "purchase" /\ Next
    \/ part = "recovery" /\ RecoveryNext
    \/ part = "servers" /\ ServerNext
    \/ part = "queue" /\ QueueNext
    \/ part = "jobs" /\ ProbeJobsNext

Unmoved ==
    /\ part \in {"account", "transfers"} \/ UNCHANGED transferVars
    /\ part = "account" \/ UNCHANGED accountVars
    /\ part = "deposits" \/ UNCHANGED depositVars
    /\ part = "notifications" \/ UNCHANGED outboxVars
    /\ part = "rating" \/ UNCHANGED ratingVars
    /\ part = "addresses" \/ UNCHANGED poolVars
    /\ part = "gates" \/ UNCHANGED schedulingVars
    /\ part = "admission" \/ UNCHANGED admissionVars
    /\ part = "purchase" \/ UNCHANGED vars
    /\ part = "recovery" \/ UNCHANGED recoveryVars
    /\ part = "servers" \/ UNCHANGED serverVars
    /\ part = "queue" \/ UNCHANGED queueVars
    /\ part = "jobs" \/ UNCHANGED jobsVars

LEMMA OnlyRests ==
    ASSUME NEW p, Only(p)
    PROVE  part = p /\ Unmoved
BY DEF Only, Rest, Unmoved

LEMMA OneRuns ==
    ASSUME PartsNext
    PROVE  Running /\ Unmoved
<1>1. CASE Accounting
  <2>1. Only("account") /\ PrepaidNext
    BY <1>1 DEF Accounting
  <2>. QED
    BY <2>1, OnlyRests DEF Running
<1>2. CASE Transferring
  <2>1. Only("transfers") /\ TransfersNext
    BY <1>2 DEF Transferring, WorksOrFails, TransfersNext
  <2>. QED
    BY <2>1, OnlyRests DEF Running
<1>3. CASE Scanning
  <2>1. Only("deposits") /\ DepositNext
    BY <1>3 DEF Scanning, WorksOrFails, DepositNext
  <2>. QED
    BY <2>1, OnlyRests DEF Running
<1>4. CASE Notifying
  <2>1. Only("notifications") /\ OutboxNext
    BY <1>4 DEF Notifying, WorksOrFails, OutboxNext
  <2>. QED
    BY <2>1, OnlyRests DEF Running
<1>5. CASE Rating
  <2>1. Only("rating") /\ RatingNext
    BY <1>5 DEF Rating, WorksOrFails, RatingNext
  <2>. QED
    BY <2>1, OnlyRests DEF Running
<1>6. CASE Allocating
  <2>1. Only("addresses") /\ PoolNext
    BY <1>6 DEF Allocating
  <2>. QED
    BY <2>1, OnlyRests DEF Running
<1>7. CASE Scheduling
  <2>1. Only("gates") /\ SchedulingNext
    BY <1>7 DEF Scheduling, WorksOrFails, SchedulingNext
  <2>. QED
    BY <2>1, OnlyRests DEF Running
<1>8. CASE Admitting
  <2>1. Only("admission") /\ AdmissionNext
    BY <1>8 DEF Admitting
  <2>. QED
    BY <2>1, OnlyRests DEF Running
<1>9. CASE Purchasing
  <2>1. Only("purchase") /\ Next
    BY <1>9 DEF Purchasing
  <2>. QED
    BY <2>1, OnlyRests DEF Running
<1>10. CASE Recovering
  <2>1. Only("recovery") /\ RecoveryNext
    BY <1>10 DEF Recovering
  <2>. QED
    BY <2>1, OnlyRests DEF Running
<1>11. CASE Serving
  <2>1. Only("servers") /\ ServerNext
    BY <1>11 DEF Serving
  <2>. QED
    BY <2>1, OnlyRests DEF Running
<1>12. CASE Queueing
  <2>1. Only("queue") /\ QueueNext
    BY <1>12 DEF Queueing
  <2>. QED
    BY <2>1, OnlyRests DEF Running
<1>13. CASE Probing
  <2>1. Only("jobs") /\ ProbeJobsNext
    BY <1>13 DEF Probing
  <2>. QED
    BY <2>1, OnlyRests DEF Running
<1>. QED
  BY <1>1, <1>2, <1>3, <1>4, <1>5, <1>6, <1>7, <1>8, <1>9, <1>10, <1>11, <1>12, <1>13 DEF PartsNext

LEMMA NoneRuns ==
    ASSUME UNCHANGED partsVars
    PROVE  UNCHANGED prepaidVars /\ UNCHANGED transferVars /\ UNCHANGED accountVars
           /\ UNCHANGED depositVars
           /\ UNCHANGED outboxVars
           /\ UNCHANGED ratingVars
           /\ UNCHANGED poolVars
           /\ UNCHANGED schedulingVars
           /\ UNCHANGED admissionVars
           /\ UNCHANGED vars
           /\ UNCHANGED recoveryVars
           /\ UNCHANGED serverVars
           /\ UNCHANGED queueVars
           /\ UNCHANGED jobsVars
BY DEF partsVars, prepaidVars

\* What is not chosen rests, so a step of the composition is one of every part, or
\* nothing happens in it.
LEMMA StepOfEach ==
    ASSUME [PartsNext]_partsVars
    PROVE  
           /\ [DepositNext]_depositVars
           /\ [OutboxNext]_outboxVars
           /\ [RatingNext]_ratingVars
           /\ [PoolNext]_poolVars
           /\ [SchedulingNext]_schedulingVars
           /\ [AdmissionNext]_admissionVars
           /\ [Next]_vars
           /\ [RecoveryNext]_recoveryVars
           /\ [ServerNext]_serverVars
           /\ [QueueNext]_queueVars
           /\ [ProbeJobsNext]_jobsVars
<1>1. [DepositNext]_depositVars
  BY OneRuns, NoneRuns DEF Running, Unmoved
<1>2. [OutboxNext]_outboxVars
  BY OneRuns, NoneRuns DEF Running, Unmoved
<1>3. [RatingNext]_ratingVars
  BY OneRuns, NoneRuns DEF Running, Unmoved
<1>4. [PoolNext]_poolVars
  BY OneRuns, NoneRuns DEF Running, Unmoved
<1>5. [SchedulingNext]_schedulingVars
  BY OneRuns, NoneRuns DEF Running, Unmoved
<1>6. [AdmissionNext]_admissionVars
  BY OneRuns, NoneRuns DEF Running, Unmoved
<1>7. [Next]_vars
  BY OneRuns, NoneRuns DEF Running, Unmoved
<1>8. [RecoveryNext]_recoveryVars
  BY OneRuns, NoneRuns DEF Running, Unmoved
<1>9. [ServerNext]_serverVars
  BY OneRuns, NoneRuns DEF Running, Unmoved
<1>10. [QueueNext]_queueVars
  BY OneRuns, NoneRuns DEF Running, Unmoved
<1>11. [ProbeJobsNext]_jobsVars
  BY OneRuns, NoneRuns DEF Running, Unmoved
<1>. QED
  BY <1>1, <1>2, <1>3, <1>4, <1>5, <1>6, <1>7, <1>8, <1>9, <1>10, <1>11

\* Each part does what its specification says.
THEOREM PartsAreThemselves ==
    PartsSpec =>
        /\ DepositSpec
        /\ OutboxSpec
        /\ RatingSpec
        /\ PoolSpec
        /\ SchedulingSpec
        /\ AdmissionSpec
        /\ Spec
        /\ RecoverySpec
        /\ ServerInit /\ [][ServerNext]_serverVars
        /\ QueueInit /\ [][QueueNext]_queueVars
        /\ ProbeJobsInit /\ [][ProbeJobsNext]_jobsVars
<1>1. PartsSpec => DepositSpec
  <2>1. PartsInit => DepositInit
    BY DEF PartsInit
  <2>2. [PartsNext]_partsVars => [DepositNext]_depositVars
    BY StepOfEach
  <2>. QED
    BY <2>1, <2>2, PTL DEF PartsSpec, DepositSpec
<1>2. PartsSpec => OutboxSpec
  <2>1. PartsInit => OutboxInit
    BY DEF PartsInit
  <2>2. [PartsNext]_partsVars => [OutboxNext]_outboxVars
    BY StepOfEach
  <2>. QED
    BY <2>1, <2>2, PTL DEF PartsSpec, OutboxSpec
<1>3. PartsSpec => RatingSpec
  <2>1. PartsInit => RatingInit
    BY DEF PartsInit
  <2>2. [PartsNext]_partsVars => [RatingNext]_ratingVars
    BY StepOfEach
  <2>. QED
    BY <2>1, <2>2, PTL DEF PartsSpec, RatingSpec
<1>4. PartsSpec => PoolSpec
  <2>1. PartsInit => PoolInit
    BY DEF PartsInit
  <2>2. [PartsNext]_partsVars => [PoolNext]_poolVars
    BY StepOfEach
  <2>. QED
    BY <2>1, <2>2, PTL DEF PartsSpec, PoolSpec
<1>5. PartsSpec => SchedulingSpec
  <2>1. PartsInit => SchedulingInit
    BY DEF PartsInit
  <2>2. [PartsNext]_partsVars => [SchedulingNext]_schedulingVars
    BY StepOfEach
  <2>. QED
    BY <2>1, <2>2, PTL DEF PartsSpec, SchedulingSpec
<1>6. PartsSpec => AdmissionSpec
  <2>1. PartsInit => AdmissionInit
    BY DEF PartsInit
  <2>2. [PartsNext]_partsVars => [AdmissionNext]_admissionVars
    BY StepOfEach
  <2>. QED
    BY <2>1, <2>2, PTL DEF PartsSpec, AdmissionSpec
<1>7. PartsSpec => Spec
  <2>1. PartsInit => Init
    BY DEF PartsInit
  <2>2. [PartsNext]_partsVars => [Next]_vars
    BY StepOfEach
  <2>. QED
    BY <2>1, <2>2, PTL DEF PartsSpec, Spec
<1>8. PartsSpec => RecoverySpec
  <2>1. PartsInit => RecoveryInit
    BY DEF PartsInit
  <2>2. [PartsNext]_partsVars => [RecoveryNext]_recoveryVars
    BY StepOfEach
  <2>. QED
    BY <2>1, <2>2, PTL DEF PartsSpec, RecoverySpec
<1>9. PartsSpec => ServerInit /\ [][ServerNext]_serverVars
  <2>1. PartsInit => ServerInit
    BY DEF PartsInit
  <2>2. [PartsNext]_partsVars => [ServerNext]_serverVars
    BY StepOfEach
  <2>. QED
    BY <2>1, <2>2, PTL DEF PartsSpec
<1>10. PartsSpec => QueueInit /\ [][QueueNext]_queueVars
  <2>1. PartsInit => QueueInit
    BY DEF PartsInit
  <2>2. [PartsNext]_partsVars => [QueueNext]_queueVars
    BY StepOfEach
  <2>. QED
    BY <2>1, <2>2, PTL DEF PartsSpec
<1>11. PartsSpec => ProbeJobsInit /\ [][ProbeJobsNext]_jobsVars
  <2>1. PartsInit => ProbeJobsInit
    BY DEF PartsInit
  <2>2. [PartsNext]_partsVars => [ProbeJobsNext]_jobsVars
    BY StepOfEach
  <2>. QED
    BY <2>1, <2>2, PTL DEF PartsSpec
<1>. QED
  BY <1>1, <1>2, <1>3, <1>4, <1>5, <1>6, <1>7, <1>8, <1>9, <1>10, <1>11

------------------------------------------------------------------------------
\* The account runs with its lanes, or the lanes alone.
LEMMA LanesRun == PartsSpec => TransfersSpec
<1>1. PartsInit => TransfersInit /\ live \in BOOLEAN
  BY DEF PartsInit, PrepaidInit, TransfersInit
<1>2. ASSUME live \in BOOLEAN, [PartsNext]_partsVars PROVE [TransfersNext]_transferVars
  <2>1. CASE UNCHANGED partsVars
    BY <2>1, NoneRuns
  <2>2. CASE PartsNext
    <3>1. Running /\ Unmoved
      BY <2>2, OneRuns
    <3>2. CASE part = "account" /\ PrepaidNext
      BY <1>2, <3>2, PrepaidStepIsTransfersStep
    <3>3. CASE part # "account"
      BY <3>1, <3>3 DEF Running, Unmoved
    <3>4. part = "account" => PrepaidNext
      BY <3>1 DEF Running
    <3>. QED
      BY <3>2, <3>3, <3>4
  <2>. QED
    BY <1>2, <2>1, <2>2
<1>3. live \in BOOLEAN /\ [TransfersNext]_transferVars => (live \in BOOLEAN)'
  BY LiveStays
<1>. QED
  BY <1>1, <1>2, <1>3, PTL DEF PartsSpec, TransfersSpec

\* The probe servers, the queue and the probe jobs keep their invariants; their own
\* specifications say besides what is fair, which only the runs need.
LEMMA ProbesRun == PartsSpec => [](ServerInv /\ QueueInv /\ ProbeJobsInv)
<1>1. PartsSpec => []ServerInv
  BY PartsAreThemselves, ServerInitially, ServerStepKeeps, PTL
<1>2. PartsSpec => []QueueInv
  BY PartsAreThemselves, QueueInitially, QueueStepKeeps, PTL
<1>3. PartsSpec => []ProbeJobsInv
  BY PartsAreThemselves, ProbeJobsInitially, ProbeJobsStepKeeps, PTL
<1>. QED
  BY <1>1, <1>2, <1>3, PTL

LEMMA AccountRuns == PartsSpec => []AccountInv
<1>1. PartsInit => AccountInv
  BY AccountInitially DEF PartsInit
<1>2. ASSUME AccountInv, [PartsNext]_partsVars PROVE AccountInv'
  <2>1. CASE UNCHANGED partsVars
    BY <1>2, <2>1, NoneRuns, AccountStep
  <2>2. CASE PartsNext
    <3>1. PrepaidNext \/ UNCHANGED accountVars
      BY <2>2, OneRuns DEF Running, Unmoved
    <3>. QED
      BY <1>2, <3>1, AccountStep
  <2>. QED
    BY <1>2, <2>1, <2>2
<1>. QED
  BY <1>1, <1>2, PTL DEF PartsSpec

\* Every variable of every part keeps its type: no counter, bucket, cursor, row, lease
\* or list of a part leaves its bounds, for any number of rows, requests, devices,
\* interfaces and workers.
THEOREM PartsTypes == PartsSpec => []PartsTypeOK
<1>1. AccountInv /\ TransfersTypeOK => PrepaidTypeOK
  BY DEF AccountInv, AccountTypeOK, PrepaidTypeOK
<1>2. PartsSpec => []PrepaidTypeOK
  BY <1>1, LanesRun, AccountRuns, TransfersTypes, PTL
<1>3. PartsSpec => [](DepositTypeOK /\ OutboxTypeOK /\ RatingTypeOK /\ PoolTypeOK)
  BY PartsAreThemselves, DepositTypes, OutboxSentWasMailed, RatingTypes, AllocatorTypeOK, PTL
<1>4. PartsSpec => [](SchedulingTypeOK /\ AdmissionTypeOK /\ TypeOK /\ RecoveryTypeOK)
  BY PartsAreThemselves, GatesTypeOK, AdmissionTypes, PaymentTypeOK, RecoveryTypes, PTL
<1>5. PartsSpec => [](ServerTypeOK /\ QueueTypeOK /\ ProbeJobsTypeOK)
  BY ProbesRun, ServerInvTypes, QueueInvMeans, ProbeJobsInvMeans, PTL
<1>6. /\ PrepaidTypeOK
      /\ DepositTypeOK /\ OutboxTypeOK /\ RatingTypeOK /\ PoolTypeOK
      /\ SchedulingTypeOK /\ AdmissionTypeOK /\ TypeOK /\ RecoveryTypeOK
      /\ ServerTypeOK /\ QueueTypeOK /\ ProbeJobsTypeOK
      => PartsTypeOK
  BY DEF PartsTypeOK
<1>. QED
  BY <1>2, <1>3, <1>4, <1>5, <1>6, PTL
==============================================================================
