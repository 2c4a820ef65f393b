-------------------------- MODULE ControlLoopsProofs --------------------------
(***************************************************************************)
(* Proofs about loops and requests that work on what they read some time   *)
(* ago. A gate that may be chosen has listed its host tools                *)
(* (GateScheduling); a notice is given up or mailed (NotificationOutbox);  *)
(* the gate agent cuts its DoubleZero tunnel for a reason and not again    *)
(* and again (DoubleZeroRecovery); a purchase is charged once as long as   *)
(* no request outlives its claim (ConfigPayment). For any number of gates, *)
(* heartbeats, notices, devices, requests, transactions and failures.      *)
(***************************************************************************)
EXTENDS GateScheduling, DoubleZeroRecovery, NotificationOutbox, ConfigPayment,
        FiniteSetTheorems, TLAPS

\* A condition 'Schedulable' is only ever given by a heartbeat that lists the tools,
\* together with what it lists.
HeardWell ==
    /\ holds \in [Gates -> SUBSET Types]
    /\ noted \in [Gates -> SUBSET Traits]
    /\ beats \subseteq [gate : Gates, shows : SUBSET Traits, read : BOOLEAN, wanted : BOOLEAN]
    /\ ability \in [Gates -> SUBSET Traits]
    /\ wanted \in [Gates -> BOOLEAN]
    /\ \A g \in Gates : "Schedulable" \in holds[g] => Traits \subseteq noted[g]

LEMMA HeardWellInductive == HeardWell /\ [SchedulingNext]_schedulingVars => HeardWell'
<1> SUFFICES ASSUME HeardWell, [SchedulingNext]_schedulingVars PROVE HeardWell'
  OBVIOUS
<1>1. ASSUME NEW b \in beats, recordGateHeartbeat(b) PROVE HeardWell'
  <2>1. b.gate \in Gates /\ b.shows \subseteq Traits
    BY DEF HeardWell
  <2>2. HeartbeatConditions(b.shows, b.wanted) \subseteq Types
    BY DEF HeartbeatConditions, Types
  <2>3. "Schedulable" \in HeartbeatConditions(b.shows, b.wanted) => Traits \subseteq b.shows
    BY DEF HeartbeatConditions, Traits
  <2>4. /\ holds' = [holds EXCEPT ![b.gate] = HeartbeatConditions(b.shows, b.wanted)]
        /\ noted' = [noted EXCEPT ![b.gate] = b.shows]
        /\ beats' \subseteq beats /\ ability' = ability /\ wanted' = wanted
    BY <1>1 DEF recordGateHeartbeat, worldVars
  <2> HIDE DEF HeartbeatConditions
  <2>. QED
    BY <2>1, <2>2, <2>3, <2>4 DEF HeardWell
<1>2. CASE MarkStale
  <2>1. UNCHANGED <<noted, beats, ability, wanted>>
    BY <1>2 DEF MarkStale, worldVars
  <2>2. \A g \in Gates : holds'[g] \subseteq holds[g]
    BY <1>2 DEF MarkStale
  <2>3. DOMAIN holds' = Gates /\ holds' = [g \in Gates |-> holds'[g]]
    BY <1>2 DEF MarkStale
  <2>. QED
    BY <2>1, <2>2, <2>3 DEF HeardWell
<1>3. ASSUME NEW g \in Gates, sendHeartbeat(g) PROVE HeardWell'
  <2>1. UNCHANGED <<noted, holds, ability, wanted>>
    BY <1>3 DEF sendHeartbeat, worldVars, savedVars
  <2>2. [gate |-> g, shows |-> ability[g], read |-> FALSE, wanted |-> FALSE]
            \in [gate : Gates, shows : SUBSET Traits, read : BOOLEAN, wanted : BOOLEAN]
    BY DEF HeardWell
  <2>3. beats' = beats \cup {[gate |-> g, shows |-> ability[g], read |-> FALSE, wanted |-> FALSE]}
    BY <1>3 DEF sendHeartbeat
  <2>. QED
    BY <2>1, <2>2, <2>3 DEF HeardWell
<1>4. ASSUME NEW g \in Gates, WorldChanges(g) PROVE HeardWell'
  <2>1. UNCHANGED <<noted, holds, beats>>
    BY <1>4 DEF WorldChanges, savedVars
  <2>2. ability' \in [Gates -> SUBSET Traits]
    <3>1. \A S \in SUBSET Traits : [ability EXCEPT ![g] = S] \in [Gates -> SUBSET Traits]
      BY DEF HeardWell
    <3>. QED
      BY <1>4, <3>1 DEF WorldChanges, HeardWell
  <2>3. wanted' \in [Gates -> BOOLEAN]
    BY <1>4 DEF WorldChanges, HeardWell
  <2>. QED
    BY <2>1, <2>2, <2>3 DEF HeardWell
<1>5. ASSUME NEW b \in beats, LoseHeartbeat(b) \/ ReadGate(b) PROVE HeardWell'
  <2>1. UNCHANGED <<noted, holds, ability, wanted>>
    BY <1>5 DEF LoseHeartbeat, ReadGate, savedVars, worldVars
  <2>2. beats' \subseteq [gate : Gates, shows : SUBSET Traits, read : BOOLEAN, wanted : BOOLEAN]
    <3>1. b \in [gate : Gates, shows : SUBSET Traits, read : BOOLEAN, wanted : BOOLEAN]
      BY DEF HeardWell
    <3>2. wanted[b.gate] \in BOOLEAN
      BY <3>1 DEF HeardWell
    <3>3. CASE LoseHeartbeat(b)
      BY <3>3 DEF LoseHeartbeat, HeardWell
    <3>4. CASE ReadGate(b)
      <4>1. [b EXCEPT !.read = TRUE, !.wanted = wanted[b.gate]]
                \in [gate : Gates, shows : SUBSET Traits, read : BOOLEAN, wanted : BOOLEAN]
        BY <3>1, <3>2
      <4>. QED
        BY <3>4, <4>1 DEF ReadGate, HeardWell
    <3>. QED
      BY <1>5, <3>3, <3>4
  <2>. QED
    BY <2>1, <2>2 DEF HeardWell
<1>6. CASE UNCHANGED <<noted, holds, beats, ability, wanted>>
  BY <1>6 DEF HeardWell
<1>7. ASSUME NEW g \in Gates, LeaseExpires(g) \/ ChooseIngress(g) \/ ChooseEgress(g)
      PROVE  UNCHANGED <<noted, holds, beats, ability, wanted>>
  BY <1>7 DEF LeaseExpires, ChooseIngress, ChooseEgress, worldVars, savedVars
<1>8. ASSUME ReadStale \/ NoEgress \/ UNCHANGED schedulingVars
      PROVE  UNCHANGED <<noted, holds, beats, ability, wanted>>
  BY <1>8 DEF ReadStale, NoEgress, schedulingVars, worldVars, savedVars
<1>. QED
  BY <1>1, <1>2, <1>3, <1>4, <1>5, <1>6, <1>7, <1>8 DEF SchedulingNext, SchedulingWork, SchedulingFault

\* For any number of gates, heartbeats under way and stale readings of leases: a gate
\* that may be chosen has listed its host tools when it was last heard
\* (selectSchedulableGate, recordGateHeartbeat, markStaleGateConditions).
THEOREM GatesSchedulableIsAble == SchedulingSpec => []SchedulableIsAble
<1>1. SchedulingInit => HeardWell
  BY DEF SchedulingInit, HeardWell, Types, Traits
<1>2. HeardWell => SchedulableIsAble
  BY DEF HeardWell, SchedulableIsAble, Schedulable, Types
<1>. QED
  BY <1>1, <1>2, HeardWellInductive, PTL DEF SchedulingSpec

\* The variables of which what a heartbeat lists says nothing.
OthersTyped ==
    /\ alive \in [Gates -> BOOLEAN]
    /\ replacing \in [Gates -> BOOLEAN]
    /\ marking \in [next : 1..3, stale : SUBSET Gates]
    /\ ingress \subseteq Gates /\ Cardinality(ingress) <= 1

LEMMA OthersStayTyped ==
    HeardWell /\ OthersTyped /\ [SchedulingNext]_schedulingVars => OthersTyped'
<1> SUFFICES ASSUME HeardWell, OthersTyped, [SchedulingNext]_schedulingVars PROVE OthersTyped'
  OBVIOUS
<1>1. CASE UNCHANGED <<alive, replacing, marking, ingress>>
  BY <1>1 DEF OthersTyped
<1>2. ASSUME NEW b \in beats, recordGateHeartbeat(b) PROVE OthersTyped'
  BY <1>2 DEF recordGateHeartbeat, worldVars, OthersTyped
<1>3. ASSUME NEW b \in beats, LoseHeartbeat(b) \/ ReadGate(b)
      PROVE  UNCHANGED <<alive, replacing, marking, ingress>>
  BY <1>3 DEF LoseHeartbeat, ReadGate, worldVars, savedVars
<1>4. ASSUME NEW g \in Gates, WorldChanges(g) PROVE OthersTyped'
  <2>1. UNCHANGED <<alive, marking, ingress>> /\ replacing' \in {replacing, [replacing EXCEPT ![g] = ~@]}
    BY <1>4 DEF WorldChanges, savedVars
  <2>. QED
    BY <2>1 DEF OthersTyped
<1>5. ASSUME NEW g \in Gates, sendHeartbeat(g) PROVE UNCHANGED <<alive, replacing, marking, ingress>>
  BY <1>5 DEF sendHeartbeat, worldVars, savedVars
<1>6. ASSUME NEW g \in Gates, LeaseExpires(g) PROVE OthersTyped'
  BY <1>6 DEF LeaseExpires, worldVars, OthersTyped
<1>7. ASSUME NEW g \in Gates, ChooseIngress(g) PROVE OthersTyped'
  <2>1. UNCHANGED <<alive, replacing, marking>> /\ ingress' = {g}
    BY <1>7 DEF ChooseIngress, worldVars, savedVars
  <2>2. Cardinality({g}) = 1
    BY FS_Singleton
  <2>. QED
    BY <2>1, <2>2 DEF OthersTyped
<1>8. ASSUME (\E g \in Gates : ChooseEgress(g)) \/ NoEgress PROVE OthersTyped'
  <2>1. UNCHANGED <<alive, replacing, marking>> /\ ingress' = {}
    BY <1>8 DEF ChooseEgress, NoEgress, worldVars, savedVars
  <2>2. Cardinality({}) = 0
    BY FS_EmptySet
  <2>. QED
    BY <2>1, <2>2 DEF OthersTyped
<1>9. CASE ReadStale
  <2>1. /\ UNCHANGED <<alive, replacing, ingress>>
        /\ marking' = [marking EXCEPT !.stale = {g \in Gates : ~alive[g]}]
    BY <1>9 DEF ReadStale, worldVars, savedVars
  <2>2. marking' \in [next : 1..3, stale : SUBSET Gates]
    BY <2>1 DEF OthersTyped
  <2>. QED
    BY <2>1, <2>2 DEF OthersTyped
<1>10. CASE MarkStale
  <2>1. /\ UNCHANGED <<alive, replacing, ingress>>
        /\ marking' = [next |-> IF marking.next = 3 THEN 1 ELSE marking.next + 1, stale |-> {}]
    BY <1>10 DEF MarkStale, worldVars
  <2>2. (IF marking.next = 3 THEN 1 ELSE marking.next + 1) \in 1..3
    BY DEF OthersTyped
  <2>3. marking' \in [next : 1..3, stale : SUBSET Gates]
    BY <2>1, <2>2
  <2>. QED
    BY <2>1, <2>3 DEF OthersTyped
<1>11. CASE UNCHANGED schedulingVars
  BY <1>1, <1>11 DEF schedulingVars
<1>. QED
  BY <1>1, <1>2, <1>3, <1>4, <1>5, <1>6, <1>7, <1>8, <1>9, <1>10, <1>11 DEF SchedulingNext, SchedulingWork, SchedulingFault

\* Types of the scheduling of gates, for any number of gates and heartbeats: also when
\* conditions are taken away from a list of gates that is old, the statements take turns
\* and one ingress at most is chosen (markStaleGateConditions, choosePath).
THEOREM GatesTypeOK == SchedulingSpec => []SchedulingTypeOK
<1>1. SchedulingInit => HeardWell /\ OthersTyped
  <2> SUFFICES ASSUME SchedulingInit PROVE HeardWell /\ OthersTyped
    OBVIOUS
  <2>1. HeardWell
    BY DEF SchedulingInit, HeardWell, Types, Traits
  <2>2. Cardinality(ingress) = 0
    BY FS_EmptySet DEF SchedulingInit
  <2>. QED
    BY <2>1, <2>2 DEF SchedulingInit, OthersTyped, Unmarked
<1>2. HeardWell /\ OthersTyped => SchedulingTypeOK
  BY DEF HeardWell, OthersTyped, SchedulingTypeOK
<1>. QED
  BY <1>1, <1>2, HeardWellInductive, OthersStayTyped, PTL DEF SchedulingSpec

-------------------------------------------------------------------------------
\* NotificationOutbox: no notice is closed for good without its mail.

\* The provider has taken a mail of what is marked sent, and of what it has accepted.
SentWasMailed ==
    /\ \A e \in Events : outbox[e] = "sent" => mails[e] > 0
    /\ courier.at = "accepted" => mails[courier.event] > 0

OutboxInv == OutboxTypeOK /\ SentWasMailed

\* Who is not at rest is busy with a row.
LEMMA CourierIs ==
    ASSUME OutboxTypeOK, courier.at \in {"claimed", "accepted", "refused"}
    PROVE  /\ courier \in [at : {"claimed", "accepted", "refused"}, event : Events]
           /\ courier.event \in Events
BY DEF OutboxTypeOK, Resting

LEMMA OutboxStepKeeps == OutboxInv /\ [OutboxNext]_outboxVars => OutboxInv'
<1> SUFFICES ASSUME OutboxInv, [OutboxNext]_outboxVars PROVE OutboxInv'
  OBVIOUS
<1>0. /\ outbox \in [Events -> OutboxStatus] /\ outboxDue \in [Events -> BOOLEAN]
      /\ mails \in [Events -> 0..MaxMails] /\ OutboxTypeOK /\ SentWasMailed
  BY DEF OutboxInv, OutboxTypeOK
<1>1. CASE UNCHANGED outboxVars
  BY <1>0, <1>1 DEF OutboxInv, OutboxTypeOK, SentWasMailed, outboxVars
<1>2. ASSUME NEW e \in Events, enqueueBillingNotification(e) PROVE OutboxInv'
  <2>1. /\ outbox' = [outbox EXCEPT ![e] = "pending"] /\ outboxDue' = [outboxDue EXCEPT ![e] = TRUE]
        /\ UNCHANGED <<mails, courier>>
    BY <1>2 DEF enqueueBillingNotification
  <2>2. OutboxTypeOK'
    BY <1>0, <2>1 DEF OutboxTypeOK, OutboxStatus
  <2>3. SentWasMailed'
    BY <1>0, <2>1 DEF SentWasMailed
  <2>. QED
    BY <2>2, <2>3 DEF OutboxInv
<1>3. ASSUME NEW e \in Events, claimBillingNotification(e) PROVE OutboxInv'
  <2>1. /\ outbox' = [outbox EXCEPT ![e] = "sending"] /\ outboxDue' = [outboxDue EXCEPT ![e] = FALSE]
        /\ courier' = [at |-> "claimed", event |-> e] /\ mails' = mails
    BY <1>3 DEF claimBillingNotification
  <2>2. OutboxTypeOK'
    BY <1>0, <2>1 DEF OutboxTypeOK, OutboxStatus
  <2>3. SentWasMailed'
    BY <1>0, <2>1 DEF SentWasMailed
  <2>. QED
    BY <2>2, <2>3 DEF OutboxInv
<1>4. ASSUME NEW e \in Events, NotificationBecomesDue(e) PROVE OutboxInv'
  <2>1. outboxDue' = [outboxDue EXCEPT ![e] = TRUE] /\ UNCHANGED <<outbox, mails, courier>>
    BY <1>4 DEF NotificationBecomesDue
  <2>. QED
    BY <1>0, <2>1 DEF OutboxInv, OutboxTypeOK, SentWasMailed
<1>5. ASSUME NEW taken \in BOOLEAN, NEW answered \in BOOLEAN, SendMail(taken, answered) PROVE OutboxInv'
  <2> DEFINE e == courier.event
             more == IF taken THEN 1 ELSE 0
             step == IF answered THEN "accepted" ELSE "refused"
  <2>1. /\ courier.at = "claimed" /\ (answered => taken) /\ mails[e] < MaxMails
        /\ mails' = [mails EXCEPT ![e] = @ + more]
        /\ courier' = [courier EXCEPT !.at = step]
        /\ UNCHANGED <<outbox, outboxDue>>
    BY <1>5 DEF SendMail
  <2>2. courier \in [at : {"claimed", "accepted", "refused"}, event : Events] /\ e \in Events
    BY <1>0, <2>1, CourierIs
  <2>3. more \in {0, 1} /\ step \in {"accepted", "refused"} /\ (step = "accepted" => more = 1)
    BY <2>1
  <2>4. /\ courier'.at = step /\ courier'.event = e
        /\ courier' \in [at : {"claimed", "accepted", "refused"}, event : Events]
    <3> HIDE DEF step
    <3>. QED
      BY <2>1, <2>2, <2>3
  <2>5. mails[e] \in Nat /\ MaxMails \in Nat
    BY <1>0, <2>2, OutboxAssumption DEF OutboxAssumption
  <2> HIDE DEF e, more, step
  <2>6. /\ mails' \in [Events -> 0..MaxMails] /\ mails'[e] = mails[e] + more
        /\ \A f \in Events : f # e => mails'[f] = mails[f]
    BY <1>0, <2>1, <2>2, <2>3, <2>5
  <2>7. OutboxTypeOK'
    BY <1>0, <2>1, <2>4, <2>6 DEF OutboxTypeOK
  <2>8. \A f \in Events : outbox'[f] = "sent" => mails'[f] > 0
    BY <1>0, <2>1, <2>3, <2>5, <2>6 DEF SentWasMailed
  <2>9. courier'.at = "accepted" => mails'[courier'.event] > 0
    BY <2>3, <2>4, <2>5, <2>6
  <2>. QED
    BY <2>7, <2>8, <2>9 DEF OutboxInv, SentWasMailed
<1>6. CASE markBillingNotificationSent
  <2>1. /\ courier.at = "accepted" /\ outbox' = [outbox EXCEPT ![courier.event] = "sent"]
        /\ courier' = Resting /\ UNCHANGED <<outboxDue, mails>>
    BY <1>6 DEF markBillingNotificationSent
  <2>2. courier.event \in Events /\ mails[courier.event] > 0
    BY <1>0, <2>1, CourierIs DEF SentWasMailed
  <2>3. OutboxTypeOK'
    BY <1>0, <2>1, <2>2 DEF OutboxTypeOK, OutboxStatus
  <2>4. SentWasMailed'
    BY <1>0, <2>1, <2>2 DEF SentWasMailed, Resting
  <2>. QED
    BY <2>3, <2>4 DEF OutboxInv
<1>7. CASE markBillingNotificationFailed
  <2>1. /\ courier.at \in {"accepted", "refused"} /\ outbox' = [outbox EXCEPT ![courier.event] = "failed"]
        /\ courier' = Resting /\ UNCHANGED <<outboxDue, mails>>
    BY <1>7 DEF markBillingNotificationFailed
  <2>2. courier.event \in Events
    BY <1>0, <2>1, CourierIs
  <2>3. OutboxTypeOK'
    BY <1>0, <2>1, <2>2 DEF OutboxTypeOK, OutboxStatus
  <2>4. SentWasMailed'
    BY <1>0, <2>1, <2>2 DEF SentWasMailed, Resting
  <2>. QED
    BY <2>3, <2>4 DEF OutboxInv
<1>8. CASE CourierDies
  <2>1. courier' = Resting /\ UNCHANGED <<outbox, outboxDue, mails>>
    BY <1>8 DEF CourierDies
  <2>. QED
    BY <1>0, <2>1 DEF OutboxInv, OutboxTypeOK, SentWasMailed, Resting
<1>. QED
  BY <1>1, <1>2, <1>3, <1>4, <1>5, <1>6, <1>7, <1>8 DEF OutboxNext, OutboxWork, OutboxFault

\* For any number of events and mails, and wherever the worker dies: a notice that is
\* marked sent, and so is never tried again, was mailed (markBillingNotificationSent,
\* claimBillingNotification).
THEOREM OutboxSentWasMailed == OutboxSpec => [](OutboxTypeOK /\ SentWasMailed)
<1>1. OutboxInit => OutboxInv
  BY OutboxAssumption DEF OutboxAssumption, OutboxInit, OutboxInv, OutboxTypeOK, SentWasMailed, OutboxStatus, Resting
<1>2. OutboxInv => OutboxTypeOK /\ SentWasMailed
  BY DEF OutboxInv
<1>. QED
  BY <1>1, <1>2, OutboxStepKeeps, PTL DEF OutboxSpec

-------------------------------------------------------------------------------
\* DoubleZeroRecovery: what the record remembers of the last reconnect, and how old
\* what a heartbeat has read of the tunnel may be.

Attachments == Devices \cup {NoDevice}
DeviceStates == {"unknown", "drained", "activated"}
Lookups == [device : Attachments, state : DeviceStates, age : 0..FreshWhenUp]
Readings == [at : {"none", "status", "looked up"}, tunnel : Tunnels, device : Attachments,
             state : DeviceStates, age : {0, 1}]

WorldTyped ==
    /\ tunnel \in Tunnels /\ device \in Attachments /\ drained \subseteq Devices
    /\ good \in 0..(FreshWhenUp + 1)
GuardTyped ==
    /\ lastTry \in 0..(Cooldown + 1) /\ forgot \in BOOLEAN
    /\ record \in RecoveryRecord /\ file \in RecoveryRecord
    /\ reconnect \in {"idle", "preflight", "disconnected", "connected"}
    /\ cached \in Lookups /\ reading \in Readings
RecoveryTyped == WorldTyped /\ GuardTyped

\* The record knows of the last reconnect, unless it was forgotten.
RecordRemembers ==
    forgot \/ record.tried = lastTry \/ (record.tried = Unset /\ lastTry = Cooldown + 1)

\* The tunnel is healthy for as long as it says, and not attached while it is cut.
GoodIsHonest ==
    /\ good # 0 => TunnelIsHealthy
    /\ device = NoDevice => tunnel = "pending"
    /\ reconnect = "disconnected" => device = NoDevice

\* A device that was found drained has had the tunnel since before it became healthy.
CacheIsOld == cached.state = "drained" /\ cached.device = device => good <= cached.age

\* The same of what a heartbeat has read: what it read of the tunnel is as old as the
\* heartbeat, what it says of the device as old as the cache may be.
StatusIsOld ==
    reading.at # "none" =>
        /\ reading.tunnel = "failed" => good <= reading.age
        /\ reading.device # NoDevice /\ reading.device # device => good <= reading.age
LookupIsOld ==
    reading.at = "looked up" /\ reading.state = "drained" => good <= FreshWhenUp - 1 + reading.age

RecoveryInv ==
    RecoveryTyped /\ RecordRemembers /\ GoodIsHonest /\ CacheIsOld /\ StatusIsOld /\ LookupIsOld

\* The constants as numbers; an unset time is later than every limit.
LEMMA UnsetIsNat == Unset \in Nat /\ Unset >= Cooldown + 2 /\ Cooldown \in Nat /\ FreshWhenUp \in Nat \ {0}
                    /\ FreshWhenDown \in Nat /\ FreshWhenDown <= FreshWhenUp
BY RecoveryAssumption DEF Unset

LEMMA RecoveryInitially == RecoveryInit => RecoveryInv
<1> SUFFICES ASSUME RecoveryInit PROVE RecoveryInv
    OBVIOUS
<1> USE UnsetIsNat DEF RecoveryInit
<1>1. WorldTyped
    BY DEF WorldTyped, Tunnels, Attachments
<1>2. GuardTyped
    <2>1. FirstRecord \in RecoveryRecord
        BY DEF FirstRecord, RecoveryRecord, States
    <2>2. Uncached \in Lookups /\ NoReading \in Readings
        BY UnsetIsNat DEF Lookups, Readings, Uncached, NoReading, Attachments, DeviceStates, Tunnels
    <2>3. lastTry \in 0..(Cooldown + 1)
        BY UnsetIsNat
    <2>4. /\ record = FirstRecord /\ file = FirstRecord /\ forgot = FALSE
          /\ reconnect = "idle" /\ cached = Uncached /\ reading = NoReading
        OBVIOUS
    <2> HIDE DEF RecoveryInit
    <2> QED
        BY <2>1, <2>2, <2>3, <2>4 DEF GuardTyped
<1>3. RecordRemembers
    BY DEF RecordRemembers, FirstRecord
<1>4. GoodIsHonest
    BY RecoveryAssumption DEF GoodIsHonest
<1>5. CacheIsOld /\ StatusIsOld /\ LookupIsOld
    BY DEF CacheIsOld, StatusIsOld, LookupIsOld, Uncached, NoReading
<1> QED
    BY <1>1, <1>3, <1>4, <1>5, <1>2 DEF RecoveryInv, RecoveryTyped

\* What the proofs below use of the types.
LEMMA InvTypes ==
    ASSUME RecoveryInv
    PROVE  /\ good \in 0..(FreshWhenUp + 1) /\ good \in Nat
           /\ lastTry \in 0..(Cooldown + 1) /\ forgot \in BOOLEAN
           /\ record \in RecoveryRecord /\ file \in RecoveryRecord
           /\ record.tried \in 0..Unset /\ file.tried \in 0..Unset
           /\ cached \in Lookups /\ reading \in Readings
           /\ reading.age \in {0, 1} /\ cached.age \in 0..FreshWhenUp
           /\ tunnel \in Tunnels /\ device \in Attachments /\ drained \subseteq Devices
           /\ reconnect \in {"idle", "preflight", "disconnected", "connected"}
<1>1. WorldTyped /\ GuardTyped
    BY DEF RecoveryInv, RecoveryTyped
<1>2. good \in 0..(FreshWhenUp + 1) /\ good \in Nat
    BY <1>1, UnsetIsNat DEF WorldTyped
<1>3. record.tried \in 0..Unset /\ file.tried \in 0..Unset
    BY <1>1 DEF GuardTyped, RecoveryRecord
<1>4. reading.age \in {0, 1} /\ cached.age \in 0..FreshWhenUp
    BY <1>1 DEF GuardTyped, Lookups, Readings
<1> QED
    BY <1>1, <1>2, <1>3, <1>4 DEF WorldTyped, GuardTyped

\* The types, one variable at a time.
LEMMA WorldStaysTyped ==
    ASSUME RecoveryInv, UNCHANGED <<tunnel, device, drained, good>>
    PROVE  WorldTyped'
BY DEF RecoveryInv, RecoveryTyped, WorldTyped

LEMMA GuardStaysTyped ==
    ASSUME lastTry' \in 0..(Cooldown + 1), forgot' \in BOOLEAN,
           record' \in RecoveryRecord, file' \in RecoveryRecord,
           reconnect' \in {"idle", "preflight", "disconnected", "connected"},
           cached' \in Lookups, reading' \in Readings
    PROVE  GuardTyped'
BY DEF GuardTyped

\* The end of a reconnect leaves the time of its beginning alone.
LEMMA OutcomesAreRecords ==
    ASSUME RecoveryInv, NEW outcome \in {"failed", "succeeded"}, NEW lost, Finish(outcome, lost)
    PROVE  record' \in RecoveryRecord /\ file' \in RecoveryRecord /\ record'.tried = record.tried
<1>1. record \in RecoveryRecord /\ file \in RecoveryRecord
    BY InvTypes
<1> DEFINE since == IF outcome = "succeeded" THEN Unset ELSE record.drainedSince
           new == [record EXCEPT !.state = outcome, !.outcome = outcome, !.drainedSince = since]
<1>2. record' = new /\ file' \in {file, new}
    BY DEF Finish, persist
<1>3. new \in RecoveryRecord /\ new.tried = record.tried
    <2>1. since \in 0..Unset
        BY <1>1, UnsetIsNat DEF RecoveryRecord
    <2> HIDE DEF since
    <2>2. outcome \in States /\ outcome \in {"none", "failed", "succeeded"}
        BY DEF States
    <2> QED
        BY <1>1, <2>1, <2>2 DEF RecoveryRecord
<1> HIDE DEF new
<1> QED
    BY <1>1, <1>2, <1>3

------------------------------------------------------------------------------
\* The tunnel changes: if it was not healthy all the time, it is good from now on.
LEMMA WorldKeeps ==
    ASSUME RecoveryInv, NEW t \in Tunnels, NEW d \in Attachments, NEW dr \in SUBSET Devices,
           TunnelBecomes(t, d, dr),
           d # device => ~TunnelIsHealthy \/ t # "ready",
           d = NoDevice => t = "pending",
           reconnect' = "disconnected" => d = NoDevice,
           GuardTyped', record'.tried = record.tried, UNCHANGED <<cached, reading, attemptVars>>
    PROVE  RecoveryInv'
<1>1. tunnel' = t /\ device' = d /\ drained' = dr
    BY DEF TunnelBecomes
<1>2. good' = good \/ good' = 0
    BY DEF TunnelBecomes
<1>3. good' # 0 => TunnelIsHealthy /\ TunnelIsHealthy' /\ good' = good
    BY DEF TunnelBecomes
<1>4. good' # 0 => d = device
    BY <1>1, <1>3 DEF TunnelIsHealthy
<1>5. /\ good \in Nat /\ reading.age \in {0, 1} /\ cached.age \in 0..FreshWhenUp
      /\ good \in 0..(FreshWhenUp + 1)
    BY InvTypes
<1>6. WorldTyped'
    BY <1>1, <1>2, <1>5, UnsetIsNat DEF WorldTyped
<1>7. RecordRemembers'
    BY DEF RecoveryInv, RecordRemembers, attemptVars
<1>8. GoodIsHonest'
    BY <1>1, <1>3 DEF GoodIsHonest
<1>9. CASE good' = 0
    <2>1. good' <= cached.age /\ good' <= reading.age /\ good' <= FreshWhenUp - 1 + reading.age
        BY <1>5, <1>9, UnsetIsNat
    <2> QED
        BY <2>1, <1>6, <1>7, <1>8 DEF RecoveryInv, RecoveryTyped, CacheIsOld, StatusIsOld, LookupIsOld
<1>10. CASE good' # 0
    <2>1. CacheIsOld' /\ StatusIsOld' /\ LookupIsOld'
        BY <1>1, <1>3, <1>4, <1>10 DEF RecoveryInv, CacheIsOld, StatusIsOld, LookupIsOld
    <2> QED
        BY <2>1, <1>6, <1>7, <1>8 DEF RecoveryInv, RecoveryTyped
<1> QED
    BY <1>9, <1>10

\* Trouble from outside, and a reconnect that cuts and restores the tunnel.
LEMMA TroubleKeeps ==
    ASSUME RecoveryInv, TunnelChanges
    PROVE  RecoveryInv'
<1>1. UNCHANGED <<record, file, reconnect, cached, reading, attemptVars>>
    BY DEF TunnelChanges, memory
<1>2. /\ GuardTyped' /\ tunnel \in Tunnels /\ device \in Attachments /\ drained \subseteq Devices
      /\ device = NoDevice => tunnel = "pending"
      /\ reconnect = "disconnected" => device = NoDevice
    BY <1>1, InvTypes DEF RecoveryInv, RecoveryTyped, GuardTyped, GoodIsHonest, attemptVars
<1>3. ASSUME NEW t \in Tunnels, device # NoDevice, TunnelBecomes(t, device, drained)
      PROVE  RecoveryInv'
    BY <1>1, <1>2, <1>3, WorldKeeps
<1>4. ASSUME NEW dr \in SUBSET Devices, TunnelBecomes(tunnel, device, dr)
      PROVE  RecoveryInv'
    BY <1>1, <1>2, <1>4, WorldKeeps
<1>5. \A d \in Devices : (drained \cup {d}) \ (drained \cap {d}) \in SUBSET Devices
    BY <1>2
<1> QED
    BY <1>3, <1>4, <1>5 DEF TunnelChanges

LEMMA ReconnectKeeps ==
    ASSUME RecoveryInv, DisconnectFails \/ Disconnect \/ Connect
    PROVE  RecoveryInv'
<1>1. UNCHANGED <<cached, reading, attemptVars>>
    BY DEF DisconnectFails, Disconnect, Connect, Finish
<1>2. /\ tunnel \in Tunnels /\ device \in Attachments /\ drained \in SUBSET Devices
      /\ device = NoDevice => tunnel = "pending"
      /\ NoDevice \in Attachments /\ "pending" \in Tunnels
    BY InvTypes DEF RecoveryInv, GoodIsHonest, Attachments, Tunnels
<1>3. record' \in RecoveryRecord /\ file' \in RecoveryRecord /\ record'.tried = record.tried
    <2>1. CASE UNCHANGED <<record, file>>
        BY <2>1, InvTypes
    <2>2. CASE DisconnectFails
        BY <2>2, OutcomesAreRecords DEF DisconnectFails
    <2> QED
        BY <2>1, <2>2 DEF Disconnect, Connect
<1>4. reconnect' \in {"idle", "disconnected", "connected"}
    BY DEF DisconnectFails, Disconnect, Connect, Finish
<1>5. GuardTyped'
    BY <1>1, <1>3, <1>4, InvTypes DEF GuardTyped, attemptVars
<1>6. CASE DisconnectFails
    <2>1. reconnect' = "idle"
        BY <1>6 DEF DisconnectFails, Finish
    <2>2. CASE TunnelBecomes(tunnel, device, drained)
        BY <1>1, <1>2, <1>3, <1>5, <2>1, <2>2, WorldKeeps
    <2>3. CASE TunnelBecomes("pending", NoDevice, drained)
        BY <1>1, <1>2, <1>3, <1>5, <2>1, <2>3, WorldKeeps
    <2> QED
        BY <1>6, <2>2, <2>3 DEF DisconnectFails
<1>7. CASE Disconnect
    <2>1. TunnelBecomes("pending", NoDevice, drained)
        BY <1>7 DEF Disconnect
    <2> QED
        BY <1>1, <1>2, <1>3, <1>5, <2>1, WorldKeeps
<1>8. CASE Connect
    <2>1. reconnect' = "connected" /\ ~TunnelIsHealthy
        BY <1>8 DEF Connect, RecoveryInv, GoodIsHonest, TunnelIsHealthy
    <2>2. PICK d \in Devices, t \in Tunnels : TunnelBecomes(t, d, drained)
        BY <1>8 DEF Connect
    <2>3. d # NoDevice /\ d \in Attachments
        BY RecoveryAssumption DEF Attachments
    <2> QED
        BY <1>1, <1>2, <1>3, <1>5, <2>1, <2>2, <2>3, WorldKeeps
<1> QED
    BY <1>6, <1>7, <1>8

\* A reconnect that ends without touching the tunnel.
LEMMA EndKeeps ==
    ASSUME RecoveryInv, ConnectFails \/ \E lost \in BOOLEAN : Verify(lost)
    PROVE  RecoveryInv'
<1>1. PICK outcome \in {"failed", "succeeded"}, lost \in BOOLEAN : Finish(outcome, lost)
    BY DEF ConnectFails, Verify
<1>2. UNCHANGED <<tunnel, device, drained, good, cached, reading, attemptVars>> /\ reconnect' = "idle"
    BY DEF ConnectFails, Verify, Finish, worldState
<1>3. record' \in RecoveryRecord /\ file' \in RecoveryRecord /\ record'.tried = record.tried
    BY <1>1, OutcomesAreRecords
<1>4. WorldTyped' /\ GuardTyped'
    <2>1. UNCHANGED <<lastTry, forgot, cached, reading>>
        BY <1>2 DEF attemptVars
    <2> QED
        BY <1>2, <1>3, <2>1, InvTypes, WorldStaysTyped, GuardStaysTyped
<1>5. RecordRemembers' /\ GoodIsHonest'
    BY <1>2, <1>3 DEF RecoveryInv, RecordRemembers, GoodIsHonest, TunnelIsHealthy, attemptVars
<1>6. CacheIsOld' /\ StatusIsOld' /\ LookupIsOld'
    BY <1>2 DEF RecoveryInv, CacheIsOld, StatusIsOld, LookupIsOld
<1> QED
    BY <1>4, <1>5, <1>6 DEF RecoveryInv, RecoveryTyped

------------------------------------------------------------------------------
\* Time passes for what a record holds.
LEMMA AgesStayAges ==
    ASSUME NEW r \in RecoveryRecord
    PROVE  Aged(r) \in RecoveryRecord /\ Aged(r).tried = Since(r.tried, Cooldown)
<1>1. Confirmation \in Nat /\ Cooldown \in Nat /\ Unset = Confirmation + Cooldown + 2
    BY RecoveryAssumption DEF Unset
<1>2. r.drainedSince \in 0..Unset /\ r.tried \in 0..Unset
    BY DEF RecoveryRecord
<1>3. Since(r.drainedSince, Confirmation) \in 0..Unset /\ Since(r.tried, Cooldown) \in 0..Unset
    BY <1>1, <1>2 DEF Since, Older
<1> QED
    BY <1>3 DEF Aged, RecoveryRecord

\* Time passes: a healthy tunnel is never younger than what is known of it.
LEMMA TickKeeps ==
    ASSUME RecoveryInv, ClockTicks
    PROVE  RecoveryInv'
<1>1. UNCHANGED <<tunnel, device, drained, reconnect, forgot>> /\ reading.age = 0
    BY DEF ClockTicks
<1>2. good' = IF TunnelIsHealthy THEN Older(good, FreshWhenUp) ELSE 0
    BY DEF ClockTicks
<1>3. lastTry' = Older(lastTry, Cooldown) /\ record' = Aged(record) /\ file' = Aged(file)
    BY DEF ClockTicks
<1>4. cached' = IF cached = Uncached \/ cached.age = FreshWhenUp
                THEN Uncached ELSE [cached EXCEPT !.age = @ + 1]
    BY DEF ClockTicks
<1>5. reading' = IF reading.at = "none" THEN reading ELSE [reading EXCEPT !.age = 1]
    BY DEF ClockTicks
<1>6. /\ good \in 0..(FreshWhenUp + 1) /\ lastTry \in 0..(Cooldown + 1)
      /\ record.tried \in 0..Unset /\ cached.age \in 0..FreshWhenUp
      /\ cached \in Lookups /\ reading \in Readings
    BY InvTypes
<1>7. /\ good' \in 0..(FreshWhenUp + 1) /\ good' <= good + 1 /\ good' \in Nat /\ good \in Nat
      /\ lastTry' \in 0..(Cooldown + 1)
    BY <1>2, <1>3, <1>6, UnsetIsNat DEF Older
<1>8. /\ record' \in RecoveryRecord /\ file' \in RecoveryRecord
      /\ record'.tried = Since(record.tried, Cooldown)
    BY <1>3, InvTypes, AgesStayAges
<1>9. /\ reading' \in Readings /\ reading'.tunnel = reading.tunnel
      /\ reading'.device = reading.device /\ reading'.state = reading.state
      /\ reading'.at = reading.at /\ (reading.at # "none" => reading'.age = 1)
    BY <1>5, <1>6 DEF Readings
<1>10. /\ cached' \in Lookups
       /\ cached' = Uncached \/ (/\ cached'.state = cached.state /\ cached'.device = cached.device
                                  /\ cached'.age = cached.age + 1)
    <2>1. CASE cached' = Uncached
        BY <2>1, UnsetIsNat DEF Uncached, Lookups, Attachments, DeviceStates
    <2>2. CASE cached' = [cached EXCEPT !.age = @ + 1] /\ cached.age # FreshWhenUp
        <3>1. cached.age + 1 \in 0..FreshWhenUp
            BY <1>6, <2>2, UnsetIsNat
        <3> QED
            BY <1>6, <2>2, <3>1 DEF Lookups
    <2> QED
        BY <1>4, <2>1, <2>2
<1>11. WorldTyped' /\ GuardTyped'
    <2>1. WorldTyped'
        BY <1>1, <1>7, InvTypes DEF WorldTyped
    <2>2. GuardTyped'
        BY <1>1, <1>7, <1>8, <1>9, <1>10, InvTypes, GuardStaysTyped
    <2> QED
        BY <2>1, <2>2
<1>12. RecordRemembers'
    BY <1>1, <1>3, <1>6, <1>8, UnsetIsNat DEF RecoveryInv, RecordRemembers, Older, Since
<1>13. GoodIsHonest'
    BY <1>1, <1>2 DEF RecoveryInv, GoodIsHonest, TunnelIsHealthy
<1>14. CacheIsOld'
    <2>1. CASE cached' = Uncached
        BY <2>1 DEF CacheIsOld, Uncached
    <2>2. CASE /\ cached'.state = cached.state /\ cached'.device = cached.device
               /\ cached'.age = cached.age + 1
        BY <2>2, <1>1, <1>6, <1>7 DEF RecoveryInv, CacheIsOld
    <2> QED
        BY <1>10, <2>1, <2>2
<1>15. StatusIsOld'
    BY <1>1, <1>7, <1>9 DEF RecoveryInv, StatusIsOld
<1>16. good < FreshWhenUp => good' <= FreshWhenUp
    BY <1>7, UnsetIsNat
<1>17. LookupIsOld'
    <2>1. reading.at = "looked up" /\ reading.state = "drained" => good <= FreshWhenUp - 1 + 0
        BY <1>1 DEF RecoveryInv, LookupIsOld
    <2>2. good <= FreshWhenUp - 1 + 0 => good < FreshWhenUp
        BY <1>7, UnsetIsNat
    <2>3. good' <= FreshWhenUp => good' <= FreshWhenUp - 1 + 1
        BY <1>7, UnsetIsNat
    <2> QED
        BY <1>9, <1>16, <2>1, <2>2, <2>3 DEF LookupIsOld
<1> QED
    BY <1>11, <1>12, <1>13, <1>14, <1>15, <1>17 DEF RecoveryInv, RecoveryTyped

\* A restart forgets what was read; the record may be an older one.
LEMMA RestartKeeps ==
    ASSUME RecoveryInv, AgentRestarts
    PROVE  RecoveryInv'
<1>1. /\ UNCHANGED <<tunnel, device, drained, good, lastTry, file>>
      /\ record' = file /\ reconnect' = "idle" /\ cached' = Uncached /\ reading' = NoReading
      /\ forgot' = (forgot \/ file.tried # record.tried)
    BY DEF AgentRestarts, worldState
<1>2. Uncached \in Lookups /\ NoReading \in Readings
    BY UnsetIsNat DEF Lookups, Readings, Uncached, NoReading, Attachments, DeviceStates, Tunnels
<1>3. WorldTyped' /\ GuardTyped'
    <2>1. forgot' \in BOOLEAN
        BY <1>1, InvTypes
    <2> QED
        BY <1>1, <1>2, <2>1, InvTypes, WorldStaysTyped, GuardStaysTyped
<1>4. RecordRemembers'
    BY <1>1 DEF RecoveryInv, RecordRemembers
<1>5. GoodIsHonest'
    BY <1>1 DEF RecoveryInv, GoodIsHonest, TunnelIsHealthy
<1>6. CacheIsOld' /\ StatusIsOld' /\ LookupIsOld'
    BY <1>1 DEF CacheIsOld, StatusIsOld, LookupIsOld, Uncached, NoReading
<1> QED
    BY <1>3, <1>4, <1>5, <1>6 DEF RecoveryInv, RecoveryTyped

------------------------------------------------------------------------------
\* What the status says of the tunnel is true when it is read.
LEMMA ReadStatusKeeps ==
    ASSUME RecoveryInv, NEW fails \in BOOLEAN, ReadStatus(fails)
    PROVE  RecoveryInv'
<1>1. /\ UNCHANGED <<tunnel, device, drained, good, record, file, reconnect, cached, lastTry, forgot>>
      /\ reading' = [at |-> "status", state |-> "unknown", age |-> 0,
                     tunnel |-> IF fails THEN "pending" ELSE tunnel,
                     device |-> IF fails THEN NoDevice ELSE device]
    BY DEF ReadStatus, worldState, attemptVars
<1>2. reading' \in Readings
    BY <1>1, InvTypes DEF Readings, Attachments, DeviceStates, Tunnels
<1>3. WorldTyped' /\ GuardTyped'
    BY <1>1, <1>2, InvTypes, WorldStaysTyped, GuardStaysTyped
<1>4. RecordRemembers' /\ CacheIsOld' /\ GoodIsHonest'
    BY <1>1 DEF RecoveryInv, RecordRemembers, CacheIsOld, GoodIsHonest, TunnelIsHealthy
<1>5. StatusIsOld'
    <2>1. reading'.tunnel = "failed" => good = 0
        BY <1>1 DEF RecoveryInv, GoodIsHonest, TunnelIsHealthy
    <2>2. ~(reading'.device # NoDevice /\ reading'.device # device')
        BY <1>1
    <2>3. reading'.age = 0
        BY <1>1
    <2> QED
        BY <1>1, <2>1, <2>2, <2>3 DEF StatusIsOld
<1>6. LookupIsOld'
    BY <1>1 DEF LookupIsOld
<1> QED
    BY <1>3, <1>4, <1>5, <1>6 DEF RecoveryInv, RecoveryTyped

\* What is said of the device is true of now, or of the time of the cache.
LEMMA LookupKeeps ==
    ASSUME RecoveryInv, NEW fails \in BOOLEAN, readCurrentDeviceState(fails)
    PROVE  RecoveryInv'
<1> DEFINE asks == reading.device # NoDevice /\ ~CacheIsFresh
           answer == IF fails THEN "unknown" ELSE DeviceState(reading.device)
           says == CASE reading.device = NoDevice -> "unknown"
                     [] asks -> answer
                     [] OTHER -> cached.state
<1>1. /\ UNCHANGED <<tunnel, device, drained, good, record, file, reconnect, lastTry, forgot>>
      /\ reading.at = "status" /\ (fails => asks)
      /\ reading' = [reading EXCEPT !.at = "looked up", !.state = says]
      /\ cached' = IF asks /\ ~fails
                   THEN [device |-> reading.device, state |-> says, age |-> reading.age] ELSE cached
    BY DEF readCurrentDeviceState, worldState, attemptVars
<1>2. /\ good \in Nat /\ reading.age \in {0, 1} /\ cached.age \in 0..FreshWhenUp
      /\ reading \in Readings /\ cached \in Lookups
    BY InvTypes
<1>3. says \in DeviceStates
    BY <1>2 DEF DeviceStates, DeviceState, Lookups
\* The device that was asked for is drained: either the tunnel is attached to it now,
\* or it has been moved since the heartbeat began.
<1>4. ASSUME asks, ~fails, says = "drained" PROVE good <= reading.age
    <2>1. reading.device # NoDevice /\ reading.device \in drained
        BY <1>4 DEF DeviceState
    <2>2. CASE reading.device = device
        <3>1. good = 0
            BY <2>1, <2>2 DEF RecoveryInv, GoodIsHonest, TunnelIsHealthy
        <3> QED
            BY <3>1, <1>2
    <2>3. CASE reading.device # device
        BY <1>1, <2>1, <2>3 DEF RecoveryInv, StatusIsOld
    <2> QED
        BY <2>2, <2>3
\* The cache says so: it is not older than it may be.
<1>5. ASSUME ~asks, says = "drained" PROVE good <= FreshWhenUp - 1 + reading.age
    <2>1. reading.device # NoDevice /\ CacheIsFresh /\ cached.state = "drained"
        BY <1>5
    <2>2. cached.device = reading.device /\ cached.age <= FreshWhenUp - 1 + reading.age
        BY <1>2, <2>1, UnsetIsNat DEF CacheIsFresh
    <2>3. CASE reading.device = device
        BY <1>2, <2>1, <2>2, <2>3, UnsetIsNat DEF RecoveryInv, CacheIsOld
    <2>4. CASE reading.device # device
        BY <1>1, <1>2, <2>1, <2>4, UnsetIsNat DEF RecoveryInv, StatusIsOld
    <2> QED
        BY <2>3, <2>4
<1>6. fails /\ asks => says # "drained"
    OBVIOUS
<1> HIDE DEF asks, says
<1>7. /\ reading' \in Readings /\ reading'.age = reading.age /\ reading'.tunnel = reading.tunnel
      /\ reading'.device = reading.device /\ reading'.state = says
    BY <1>1, <1>2, <1>3 DEF Readings
<1>8. cached' \in Lookups
    <2>1. reading.device \in Attachments /\ reading.age \in 0..FreshWhenUp
        <3>1. reading.device \in Attachments
            BY <1>2 DEF Readings
        <3>2. 0 \in 0..FreshWhenUp /\ 1 \in 0..FreshWhenUp
            BY UnsetIsNat
        <3> QED
            BY <1>2, <3>1, <3>2
    <2>2. [device |-> reading.device, state |-> says, age |-> reading.age] \in Lookups
        BY <1>3, <2>1 DEF Lookups
    <2> QED
        BY <1>1, <1>2, <2>2
<1>9. WorldTyped' /\ GuardTyped'
    BY <1>1, <1>7, <1>8, InvTypes, WorldStaysTyped, GuardStaysTyped
<1>10. RecordRemembers' /\ GoodIsHonest'
    BY <1>1 DEF RecoveryInv, RecordRemembers, GoodIsHonest, TunnelIsHealthy
<1>11. CacheIsOld'
    <2>1. CASE asks /\ ~fails
        BY <1>1, <1>4, <2>1 DEF CacheIsOld
    <2>2. CASE ~(asks /\ ~fails)
        BY <1>1, <2>2 DEF RecoveryInv, CacheIsOld
    <2> QED
        BY <2>1, <2>2
<1>12. StatusIsOld'
    BY <1>1, <1>7 DEF RecoveryInv, StatusIsOld
<1>13. LookupIsOld'
    BY <1>1, <1>2, <1>4, <1>5, <1>6, <1>7, UnsetIsNat DEF LookupIsOld
<1> QED
    BY <1>9, <1>10, <1>11, <1>12, <1>13 DEF RecoveryInv, RecoveryTyped

\* Observe forgets what was read; a reconnect begins, or the record is judged anew.
LEMMA ObserveKeeps ==
    ASSUME RecoveryInv, NEW lost \in BOOLEAN, Observe(lost)
    PROVE  RecoveryInv'
<1> DEFINE new == IF Starts THEN Attempt ELSE Judged
<1>1. /\ UNCHANGED <<tunnel, device, drained, good, cached>> /\ reading' = NoReading
      /\ record' = new /\ file' \in {file, new}
      /\ Starts => reconnect' = "preflight" /\ lastTry' = reading.age /\ forgot' = FALSE
      /\ ~Starts => UNCHANGED <<reconnect, lastTry, forgot>>
    BY DEF Observe, persist, worldState, attemptVars
<1>2. /\ record \in RecoveryRecord /\ file \in RecoveryRecord /\ reading.age \in {0, 1}
      /\ {0, 1} \subseteq 0..Unset /\ {0, 1} \subseteq 0..(Cooldown + 1)
    BY InvTypes, UnsetIsNat
<1>3. SinceThen \in 0..Unset
    BY <1>2 DEF SinceThen, RecoveryRecord
<1>4. Starts => new \in RecoveryRecord /\ new.tried = reading.age
    BY <1>2, <1>3 DEF Attempt, RecoveryRecord, States
<1>5. ~Starts => new \in RecoveryRecord /\ new.tried = record.tried
    <2>1. Unset \in 0..Unset
        BY UnsetIsNat
    <2>2. reconnect # "idle" \/ (reconnect = "idle" /\ LooksHealthy)
            \/ (reconnect = "idle" /\ ~LooksHealthy /\ ~Triggered)
            \/ (reconnect = "idle" /\ ~LooksHealthy /\ Triggered)
        OBVIOUS
    <2>3. ~enabled \/ (enabled /\ WaitThen /\ record.outcome = "failed")
            \/ (enabled /\ WaitThen /\ record.outcome # "failed") \/ (enabled /\ ~WaitThen)
        OBVIOUS
    <2>4. Judged \in RecoveryRecord /\ Judged.tried = record.tried
        BY <1>2, <1>3, <2>1, <2>2, <2>3 DEF Judged, RecoveryRecord, States
    <2> QED
        BY <2>4
<1> HIDE DEF new
<1>6. NoReading \in Readings
    BY DEF Readings, NoReading, Attachments, DeviceStates, Tunnels
<1>7. WorldTyped' /\ GuardTyped'
    <2>1. record' \in RecoveryRecord /\ file' \in RecoveryRecord
        BY <1>1, <1>2, <1>4, <1>5
    <2>2. /\ lastTry' \in 0..(Cooldown + 1) /\ forgot' \in BOOLEAN
          /\ reconnect' \in {"idle", "preflight", "disconnected", "connected"}
        BY <1>1, <1>2, InvTypes
    <2>3. cached' \in Lookups /\ reading' \in Readings
        BY <1>1, <1>6, InvTypes
    <2> QED
        BY <1>1, <2>1, <2>2, <2>3, WorldStaysTyped, GuardStaysTyped
<1>8. RecordRemembers'
    BY <1>1, <1>4, <1>5 DEF RecoveryInv, RecordRemembers
<1>9. GoodIsHonest' /\ CacheIsOld'
    BY <1>1 DEF RecoveryInv, GoodIsHonest, TunnelIsHealthy, CacheIsOld
<1>10. StatusIsOld' /\ LookupIsOld'
    BY <1>1 DEF StatusIsOld, LookupIsOld, NoReading
<1> QED
    BY <1>7, <1>8, <1>9, <1>10 DEF RecoveryInv, RecoveryTyped

LEMMA RecoveryStepKeeps == RecoveryInv /\ [RecoveryNext]_recoveryVars => RecoveryInv'
<1> SUFFICES ASSUME RecoveryInv, [RecoveryNext]_recoveryVars PROVE RecoveryInv'
    OBVIOUS
<1>1. CASE UNCHANGED recoveryVars
    <2>0. UNCHANGED <<worldState, memory, file, attemptVars>>
        BY <1>1 DEF recoveryVars
    <2>1. RecoveryTyped'
        BY <2>0 DEF RecoveryInv, RecoveryTyped, WorldTyped, GuardTyped, worldState, memory, attemptVars
    <2>2. RecordRemembers' /\ GoodIsHonest'
        BY <2>0 DEF RecoveryInv, RecordRemembers, GoodIsHonest, TunnelIsHealthy, worldState, memory, attemptVars
    <2>3. CacheIsOld' /\ StatusIsOld' /\ LookupIsOld'
        BY <2>0 DEF RecoveryInv, CacheIsOld, StatusIsOld, LookupIsOld, worldState, memory
    <2> QED
        BY <2>1, <2>2, <2>3 DEF RecoveryInv
<1>2. CASE TunnelChanges
    BY <1>2, TroubleKeeps
<1>3. CASE ClockTicks
    BY <1>3, TickKeeps
<1>4. CASE AgentRestarts
    BY <1>4, RestartKeeps
<1>5. CASE \E b \in BOOLEAN : ReadStatus(b) \/ readCurrentDeviceState(b) \/ Observe(b)
    BY <1>5, ReadStatusKeeps, LookupKeeps, ObserveKeeps
<1>6. CASE DisconnectFails \/ Disconnect \/ Connect
    BY <1>6, ReconnectKeeps
<1>7. CASE ConnectFails \/ \E b \in BOOLEAN : Verify(b)
    BY <1>7, EndKeeps
<1> QED
    BY <1>1, <1>2, <1>3, <1>4, <1>5, <1>6, <1>7 DEF RecoveryNext

LEMMA RecoveryHolds == RecoverySpec => []RecoveryInv
BY RecoveryInitially, RecoveryStepKeeps, PTL DEF RecoverySpec

\* Types of the recovery of the tunnel: what the cache and a heartbeat know of it is
\* never older than they may be, whatever is lost or restarted (readCurrentDeviceState,
\* saveDoubleZeroRecoveryRecord).
THEOREM RecoveryTypes == RecoverySpec => []RecoveryTypeOK
<1>1. ASSUME RecoveryInv PROVE RecoveryTypeOK
  <2>1. WorldTyped /\ GuardTyped
    BY <1>1 DEF RecoveryInv, RecoveryTyped
  <2>2. /\ cached.age \in 0..FreshWhenUp
        /\ reading.at \in {"none", "status", "looked up"} /\ reading.age \in {0, 1}
    BY <2>1 DEF GuardTyped, Lookups, Readings
  <2>3. /\ tunnel \in Tunnels /\ device \in Devices \cup {NoDevice} /\ drained \subseteq Devices
        /\ good \in 0..FreshWhenUp + 1
    BY <2>1 DEF WorldTyped, Attachments
  <2>4. /\ lastTry \in 0..Cooldown + 1 /\ forgot \in BOOLEAN
        /\ record \in RecoveryRecord /\ file \in RecoveryRecord
        /\ reconnect \in {"idle", "preflight", "disconnected", "connected"}
    BY <2>1 DEF GuardTyped
  <2>5. reading.age \in 0..1
    <3>1. \A n \in {0, 1} : n \in 0..1
      OBVIOUS
    <3>. QED
      BY <2>2, <3>1
  <2>. QED
    BY <2>2, <2>3, <2>4, <2>5 DEF RecoveryTypeOK
<1>. QED
  BY <1>1, RecoveryHolds, PTL

------------------------------------------------------------------------------
\* Only Observe begins a reconnect.
LEMMA OnlyObserveBegins ==
    ASSUME RecoveryInv, [RecoveryNext]_recoveryVars, Begins
    PROVE  Starts
<1>1. reconnect = "idle" /\ reconnect' = "preflight"
    BY DEF Begins
<1>2. PICK lost \in BOOLEAN : Observe(lost)
    BY <1>1 DEF RecoveryNext, recoveryVars, memory, TunnelChanges, ClockTicks, AgentRestarts,
        ReadStatus, readCurrentDeviceState, Verify, DisconnectFails, Disconnect, ConnectFails,
        Connect, Finish
<1> QED
    BY <1>1, <1>2 DEF Observe, attemptVars

\* What a heartbeat may start on is not older than its reading.
LEMMA JustifiedStep ==
    ASSUME RecoveryInv, [RecoveryNext]_recoveryVars, Begins
    PROVE  /\ forgot \/ lastTry - reading.age >= Cooldown
           /\ ~(TunnelIsHealthy /\ good > FreshWhenUp)
<1>1. Starts
    BY OnlyObserveBegins
<1>2. /\ good \in Nat /\ lastTry \in 0..(Cooldown + 1) /\ reading.age \in {0, 1}
      /\ record.tried \in 0..Unset
    BY InvTypes
<1>3. forgot \/ lastTry - reading.age >= Cooldown
    <2>1. ~(record.tried # Unset /\ record.tried - reading.age < Cooldown)
        BY <1>1 DEF Starts, WaitThen
    <2>2. forgot \/ record.tried = lastTry \/ (record.tried = Unset /\ lastTry = Cooldown + 1)
        BY DEF RecoveryInv, RecordRemembers
    <2>3. CASE record.tried = lastTry
        <3>1. lastTry # Unset /\ lastTry \in Nat
            BY <1>2, UnsetIsNat
        <3> QED
            BY <1>2, <2>1, <2>3, <3>1, UnsetIsNat
    <2>4. CASE lastTry = Cooldown + 1
        BY <1>2, <2>4, UnsetIsNat
    <2> QED
        BY <2>2, <2>3, <2>4
<1>4. good <= FreshWhenUp
    <2>1. reading.at = "looked up" /\ (reading.state = "drained" \/ reading.tunnel = "failed")
        BY <1>1 DEF Starts, Triggered
    <2>2. CASE reading.state = "drained"
        <3>1. good <= FreshWhenUp - 1 + reading.age
            BY <2>1, <2>2 DEF RecoveryInv, LookupIsOld
        <3> QED
            BY <1>2, <3>1, UnsetIsNat
    <2>3. CASE reading.tunnel = "failed"
        <3>1. good <= reading.age
            BY <2>1, <2>3 DEF RecoveryInv, StatusIsOld
        <3> QED
            BY <1>2, <3>1, UnsetIsNat
    <2> QED
        BY <2>1, <2>2, <2>3
<1> QED
    BY <1>2, <1>3, <1>4, UnsetIsNat

\* A reconnect begins a cooldown after the last one, unless a restart found a record
\* that had not been written, and never on a tunnel that has been healthy for longer
\* than a looked-up device state is used (Observe, readCurrentDeviceState,
\* newDoubleZeroRecoveryManager).
THEOREM RecoveryReconnectsAreJustified == RecoverySpec => ReconnectsAreJustified
<1>1. RecoveryInv /\ [RecoveryNext]_recoveryVars
        => [Begins => forgot \/ lastTry - reading.age >= Cooldown]_recoveryVars
    BY JustifiedStep
<1>2. RecoveryInv /\ [RecoveryNext]_recoveryVars
        => [Begins => ~(TunnelIsHealthy /\ good > FreshWhenUp)]_recoveryVars
    BY JustifiedStep
<1>3. RecoverySpec => CooldownIsKept
    BY <1>1, RecoveryHolds, PTL DEF RecoverySpec, CooldownIsKept
<1>4. RecoverySpec => HealthyIsLeftAlone
    BY <1>2, RecoveryHolds, PTL DEF RecoverySpec, HealthyIsLeftAlone
<1> QED
    BY <1>3, <1>4 DEF ReconnectsAreJustified

-------------------------------------------------------------------------------
\* ConfigPayment: as the code is, requests that outlive their claim and errors written
\* over what another request has made of the row included.

\* A request that waits for a transaction knows one, and so does the row.
TransactionsKnown ==
    \A r \in Requests : pc[r] \in {"recover", "send", "wait"} =>
        seen[r] \in Txs /\ row.sig \in Txs

RequestsTyped == TypeOK /\ TransactionsKnown

LEMMA Bounds ==
    /\ MaxTx \in Nat \ {0} /\ MaxPoor \in Nat /\ MaxErrors \in Nat /\ MaxCrashes \in Nat
    /\ MaxSlow \in Nat
  BY PaymentAssumption DEF PaymentAssumption

LEMMA InitTyped == Init => RequestsTyped
  BY Bounds DEF Init, RequestsTyped, TypeOK, TransactionsKnown, Rows, Txs, TxStates,
     Statuses, Steps

LEMMA SubmittedRow ==
    ASSUME row \in Rows, NEW t \in Txs
    PROVE  Submitted(t) \in Rows /\ Submitted(t).status = "submitted" /\ Submitted(t).sig = t
  <1>1. "submitted" \in Statuses /\ t \in 0..MaxTx
    BY Bounds DEF Statuses, Txs
  <1> QED
    BY <1>1 DEF Submitted, Rows

LEMMA FailedRow ==
    ASSUME row \in Rows
    PROVE  Failed \in Rows /\ Failed.status = "failed"
  <1>1. "failed" \in Statuses
    BY DEF Statuses
  <1> QED
    BY <1>1 DEF Failed, Rows

LEMMA FailsRowTyped ==
    ASSUME RequestsTyped, NEW r \in Requests, FailsRow(r)
    PROVE  /\ row' \in Rows /\ row'.status = "failed" /\ row'.sig = row.sig
           /\ races' \in Nat
  <1>1. races' = races \/ races' = races + 1
    BY DEF FailsRow, Raced
  <1>2. Failed.sig = row.sig
    BY DEF Failed, RequestsTyped, TypeOK, Rows
  <1> QED
    BY <1>1, <1>2, FailedRow DEF FailsRow, RequestsTyped, TypeOK

\* The actions up to the signature ...
LEMMA ChargeTyped ==
    ASSUME RequestsTyped, NEW r \in Requests,
           \/ Create(r) \/ Ensure(r) \/ EnsureRefused(r)
           \/ Claim(r) \/ NotClaimed(r) \/ Poor(r) \/ BuildFails(r) \/ Record(r)
    PROVE  RequestsTyped'
  <1> USE Bounds DEF RequestsTyped, TypeOK, TransactionsKnown, Rows, Txs, TxStates,
          Statuses, Steps, Goto, shop, mishaps, Raced, FailsRow
  <1>1. CASE Create(r)
    <2>1. session' \in Nat /\ created' \in Nat /\ phase' \in {"payment_pending", "requested"}
      BY <1>1 DEF Create
    <2>2. sid' \in [Requests -> Nat] /\ pc' \in [Requests -> Steps]
      BY <1>1, <2>1 DEF Create
    <2>3. TransactionsKnown'
      BY <1>1 DEF Create
    <2> QED
      BY <1>1, <2>1, <2>2, <2>3 DEF Create
  <1>2. CASE Ensure(r)
    BY <1>2 DEF Ensure, Linked
  <1>3. CASE EnsureRefused(r)
    BY <1>3 DEF EnsureRefused
  <1>4. CASE Claim(r)
    <2>1. row' \in Rows /\ row'.status = "processing" /\ row'.sig = row.sig
      BY <1>4 DEF Claim
    <2>2. pc' \in [Requests -> Steps] /\ TransactionsKnown'
      BY <1>4, <2>1 DEF Claim
    <2>3. races' \in Nat
      <3>1. races' = races \/ races' = races + 1
        BY <1>4 DEF Claim
      <3> QED
        BY <3>1
    <2> QED
      BY <1>4, <2>1, <2>2, <2>3 DEF Claim
  <1>5. CASE NotClaimed(r)
    <2>1. \/ pc' = [pc EXCEPT ![r] = "activate"] /\ seen' = [seen EXCEPT ![r] = row.sig]
             /\ row.status = "confirmed"
          \/ pc' = [pc EXCEPT ![r] = "idle"] /\ seen' = seen
      BY <1>5 DEF NotClaimed
    <2>2. row' = row /\ (row.status = "confirmed" => row.sig \in Txs)
      BY <1>5 DEF NotClaimed
    <2>3. pc' \in [Requests -> Steps]
      BY <2>1
    <2>4. seen' \in [Requests -> 0..MaxTx]
      BY <2>1, <2>2
    <2>5. TransactionsKnown'
      BY <2>1, <2>2
    <2> QED
      BY <1>5, <2>3, <2>4, <2>5 DEF NotClaimed
  <1>6. CASE Poor(r)
    <2>1. row' \in Rows /\ (row'.status \in {"submitted", "confirmed"} => row'.sig \in Txs)
      BY <1>6, FailedRow DEF Poor
    <2>2. pc' \in [Requests -> Steps] /\ TransactionsKnown'
      BY <1>6 DEF Poor, Failed
    <2>3. poor' \in 0..MaxPoor
      <3>1. poor < MaxPoor /\ poor' = poor + 1
        BY <1>6 DEF Poor
      <3>2. poor \in 0..MaxPoor
        OBVIOUS
      <3> QED
        BY <3>1, <3>2
    <2> QED
      BY <1>6, <2>1, <2>2, <2>3 DEF Poor
  <1>7. CASE BuildFails(r)
    <2>0. row' \in {Failed, row}
      BY <1>7 DEF BuildFails
    <2>1. row' \in Rows /\ (row'.status \in {"submitted", "confirmed"} => row'.sig \in Txs)
      BY <2>0, FailedRow
    <2>2. pc' \in [Requests -> Steps] /\ TransactionsKnown'
      BY <1>7 DEF BuildFails, Failed
    <2>3. errors' \in 0..MaxErrors
      <3>1. errors < MaxErrors /\ errors' = errors + 1
        BY <1>7 DEF BuildFails
      <3>2. errors \in 0..MaxErrors
        OBVIOUS
      <3> QED
        BY <3>1, <3>2
    <2> QED
      BY <1>7, <2>1, <2>2, <2>3 DEF BuildFails
  <1>8. CASE Record(r)
    <2>1. PICK t \in Txs : /\ tx[t] = "none"
                           /\ tx' = [tx EXCEPT ![t] = "signed"]
                           /\ row' = Submitted(t)
                           /\ seen' = [seen EXCEPT ![r] = t]
      BY <1>8 DEF Record
    <2>2. row' \in Rows /\ row'.sig \in Txs
      BY <2>1, SubmittedRow
    <2>3. tx' \in [Txs -> TxStates] /\ seen' \in [Requests -> 0..MaxTx]
      BY <2>1
    <2>4. pc' \in [Requests -> Steps] /\ TransactionsKnown'
      BY <1>8, <2>1, <2>2 DEF Record
    <2> QED
      BY <1>8, <2>2, <2>3, <2>4 DEF Record
  <1> QED
    BY <1>1, <1>2, <1>3, <1>4, <1>5, <1>6, <1>7, <1>8

\* The four outcomes of a transaction that was already processed.
LEMMA AlreadyProcessedIs ==
    ASSUME RequestsTyped, NEW r \in Requests, AlreadyProcessed(r)
    PROVE  /\ row' = row \/ row' = Failed \/ (row.status = "submitted" /\ row' = Confirmed)
           /\ \/ pc' = [pc EXCEPT ![r] = "activate"] /\ seen' = [seen EXCEPT ![r] = row.sig]
              \/ pc' = [pc EXCEPT ![r] = "idle"] /\ seen' = seen
           /\ races' \in Nat
<1>1. /\ row' = row \/ row' = Failed \/ (row.status = "submitted" /\ row' = Confirmed)
      /\ races' \in Nat
  <2>1. CASE row.status = "submitted"
    BY <2>1 DEF AlreadyProcessed, RequestsTyped, TypeOK
  <2>2. CASE row.status # "submitted"
    <3>1. FailsRow(r)
      BY <2>2 DEF AlreadyProcessed
    <3> QED
      BY <3>1, FailsRowTyped DEF FailsRow
  <2> QED
    BY <2>1, <2>2
<1>2. \/ pc' = [pc EXCEPT ![r] = "activate"] /\ seen' = [seen EXCEPT ![r] = row.sig]
      \/ pc' = [pc EXCEPT ![r] = "idle"] /\ seen' = seen
  BY DEF AlreadyProcessed, RequestsTyped, TypeOK, Goto
<1> QED
  BY <1>1, <1>2

\* ... and those that follow it.
LEMMA OutcomeTyped ==
    ASSUME RequestsTyped, NEW r \in Requests,
           \/ RecoverLanded(r) \/ RecoverErrored(r) \/ Resend(r)
           \/ Send(r) \/ AlreadyProcessed(r) \/ Refused(r) \/ RpcFails(r)
           \/ WaitLanded(r) \/ WaitErrored(r) \/ InProgress(r)
           \/ Delete(r) \/ Activate(r) \/ Crash(r)
    PROVE  RequestsTyped'
  <1> USE Bounds DEF RequestsTyped, TypeOK, TransactionsKnown, Rows, Txs, TxStates,
          Statuses, Steps, Goto, shop, mishaps, Raced
  <1>1. CASE RecoverLanded(r)
    BY <1>1 DEF RecoverLanded, Confirmed
  <1>2. CASE RecoverErrored(r)
    BY <1>2, FailsRowTyped DEF RecoverErrored
  <1>3. CASE Resend(r)
    <2>1. \/ tx' = tx /\ races' = races
          \/ tx' = [tx EXCEPT ![seen[r]] = "sent"] /\ (races' = races \/ races' = races + 1)
      <3>1. CASE tx[seen[r]] = "signed"
        BY <1>3, <3>1 DEF Resend
      <3>2. CASE tx[seen[r]] # "signed"
        BY <1>3, <3>2 DEF Resend
      <3> QED
        BY <3>1, <3>2
    <2>2. tx' \in [Txs -> TxStates] /\ races' \in Nat
      <3>1. tx' = tx \/ tx' = [tx EXCEPT ![seen[r]] = "sent"]
        BY <2>1
      <3>2. races' = races \/ races' = races + 1
        BY <2>1
      <3>3. tx' \in [Txs -> TxStates]
        BY <3>1
      <3>4. races' \in Nat
        BY <3>2
      <3> QED
        BY <3>3, <3>4
    <2>3. pc' \in [Requests -> Steps] /\ TransactionsKnown'
      BY <1>3 DEF Resend
    <2> QED
      BY <1>3, <2>2, <2>3 DEF Resend
  <1>4. CASE Send(r)
    BY <1>4 DEF Send
  <1>5. CASE AlreadyProcessed(r)
    <2>0. /\ row' = row \/ row' = Failed \/ (row.status = "submitted" /\ row' = Confirmed)
          /\ \/ pc' = [pc EXCEPT ![r] = "activate"] /\ seen' = [seen EXCEPT ![r] = row.sig]
             \/ pc' = [pc EXCEPT ![r] = "idle"] /\ seen' = seen
          /\ races' \in Nat
      BY <1>5, AlreadyProcessedIs
    <2>1. row' \in Rows /\ (row'.status \in {"submitted", "confirmed"} => row'.sig \in Txs)
      <3>1. CASE row' = row
        BY <3>1
      <3>2. CASE row' = Failed
        BY <3>2 DEF Failed
      <3>3. CASE row.status = "submitted" /\ row' = Confirmed
        BY <3>3 DEF Confirmed
      <3> QED
        BY <2>0, <3>1, <3>2, <3>3
    <2>2. \/ pc' = [pc EXCEPT ![r] = "activate"] /\ seen' = [seen EXCEPT ![r] = row.sig]
          \/ pc' = [pc EXCEPT ![r] = "idle"] /\ seen' = seen
      BY <2>0
    <2>3. row.sig \in Txs /\ row'.sig = row.sig
      <3>1. pc[r] = "send"
        BY <1>5 DEF AlreadyProcessed
      <3>2. row.sig \in Txs
        BY <3>1
      <3>3. row'.sig = row.sig
        BY <2>0 DEF Failed, Confirmed
      <3> QED
        BY <3>2, <3>3
    <2>4. pc' \in [Requests -> Steps]
      BY <2>2
    <2>5. seen' \in [Requests -> 0..MaxTx]
      <3>1. row.sig \in 0..MaxTx
        BY <2>3
      <3> QED
        BY <2>2, <3>1
    <2>6. TransactionsKnown'
      <3>1. CASE pc' = [pc EXCEPT ![r] = "activate"] /\ seen' = [seen EXCEPT ![r] = row.sig]
        BY <2>3, <3>1
      <3>2. CASE pc' = [pc EXCEPT ![r] = "idle"] /\ seen' = seen
        BY <2>3, <3>2
      <3> QED
        BY <2>2, <3>1, <3>2
    <2> QED
      BY <1>5, <2>0, <2>1, <2>4, <2>5, <2>6 DEF AlreadyProcessed
  <1>6. CASE Refused(r)
    <2>1. /\ row' \in Rows /\ (row'.status \in {"submitted", "confirmed"} => row'.sig \in Txs)
          /\ row'.sig = row.sig /\ races' \in Nat
      BY <1>6, FailsRowTyped DEF Refused
    <2>2. pc' \in [Requests -> Steps] /\ TransactionsKnown'
      BY <1>6, <2>1 DEF Refused
    <2>3. errors' \in 0..MaxErrors
      <3>1. errors' = errors \/ (errors < MaxErrors /\ errors' = errors + 1)
        BY <1>6 DEF Refused
      <3> QED
        BY <3>1
    <2> QED
      BY <1>6, <2>1, <2>2, <2>3 DEF Refused
  <1>7. CASE RpcFails(r)
    <2>1. /\ row' \in Rows /\ (row'.status \in {"submitted", "confirmed"} => row'.sig \in Txs)
          /\ row'.sig = row.sig /\ races' \in Nat
      BY <1>7, FailsRowTyped DEF RpcFails
    <2>2. pc' \in [Requests -> Steps] /\ TransactionsKnown'
      BY <1>7, <2>1 DEF RpcFails
    <2>3. errors' \in 0..MaxErrors
      <3>1. errors < MaxErrors /\ errors' = errors + 1
        BY <1>7 DEF RpcFails
      <3>2. errors \in 0..MaxErrors
        OBVIOUS
      <3> QED
        BY <3>1, <3>2
    <2>4. tx' \in [Txs -> TxStates]
      <3>1. tx' = tx \/ tx' = [tx EXCEPT ![seen[r]] = "sent"]
        BY <1>7 DEF RpcFails
      <3> QED
        BY <3>1
    <2> QED
      BY <1>7, <2>1, <2>2, <2>3, <2>4 DEF RpcFails
  <1>8. CASE WaitLanded(r)
    BY <1>8 DEF WaitLanded, Confirmed
  <1>9. CASE WaitErrored(r)
    BY <1>9, FailsRowTyped DEF WaitErrored
  <1>10. CASE InProgress(r)
    BY <1>10 DEF InProgress
  <1>11. CASE Delete(r)
    <2>1. row' \in Rows /\ (row'.status \in {"submitted", "confirmed"} => row'.sig \in Txs)
      <3>1. row' = row \/ row' = Unlinked
        BY <1>11 DEF Delete
      <3>2. Unlinked \in Rows /\ Unlinked.status = row.status /\ Unlinked.sig = row.sig
        BY DEF Unlinked
      <3> QED
        BY <3>1, <3>2
    <2>2. pc' \in [Requests -> Steps] /\ TransactionsKnown'
      BY <1>11 DEF Delete, Unlinked
    <2>3. session' \in Nat
      BY <1>11 DEF Delete, Unlinked
    <2> QED
      BY <1>11, <2>1, <2>2, <2>3 DEF Delete
  <1>12. CASE Activate(r)
    BY <1>12 DEF Activate
  <1>13. CASE Crash(r)
    BY <1>13 DEF Crash
  <1> QED
    BY <1>1, <1>2, <1>3, <1>4, <1>5, <1>6, <1>7, <1>8, <1>9, <1>10, <1>11, <1>12, <1>13

LEMMA ChainTyped ==
    ASSUME RequestsTyped, ClaimAges \/ \E t \in Txs : Settle(t)
    PROVE  RequestsTyped'
  <1> USE Bounds DEF RequestsTyped, TypeOK, TransactionsKnown, Rows, Txs, TxStates,
          Statuses, Steps, shop, request, mishaps
  <1>1. CASE ClaimAges
    <2>1. row' \in Rows /\ row'.status = row.status /\ row'.sig = row.sig
      BY <1>1 DEF ClaimAges
    <2>2. slow' \in 0..MaxSlow
      <3>1. slow' = slow \/ (slow < MaxSlow /\ slow' = slow + 1)
        BY <1>1 DEF ClaimAges
      <3> QED
        BY <3>1
    <2> QED
      BY <1>1, <2>1, <2>2 DEF ClaimAges
  <1>2. ASSUME NEW t \in Txs, Settle(t) PROVE RequestsTyped'
    BY <1>2 DEF Settle
  <1> QED
    BY <1>1, <1>2

LEMMA NextTyped == RequestsTyped /\ [Next]_vars => RequestsTyped'
  <1> SUFFICES ASSUME RequestsTyped, [Next]_vars PROVE RequestsTyped'
    OBVIOUS
  <1>1. CASE \E r \in Requests : Create(r) \/ Step(r) \/ Crash(r)
    BY <1>1, ChargeTyped, OutcomeTyped DEF Step
  <1>2. CASE ClaimAges \/ \E t \in Txs : Settle(t)
    BY <1>2, ChainTyped
  <1>3. CASE UNCHANGED vars
    BY <1>3 DEF vars, RequestsTyped, TypeOK, TransactionsKnown
  <1> QED
    BY <1>1, <1>2, <1>3 DEF Next

THEOREM PaymentTyped == Spec => []RequestsTyped
  <1> QED
    BY InitTyped, NextTyped, PTL DEF Spec

\* Every variable keeps its type; a row that says 'submitted' or 'confirmed'
\* names the transaction it speaks of.
THEOREM PaymentTypeOK == Spec => []TypeOK
  <1>1. RequestsTyped => TypeOK
    BY DEF RequestsTyped
  <1> QED
    BY <1>1, PaymentTyped, PTL

-----------------------------------------------------------------------------
\* How often the purchase may still be charged, or has been: by a transaction on
\* its way, by a request that builds one, by a row that can be claimed.
Sender(t) == \E r \in Requests : pc[r] = "send" /\ seen[r] = t

Charging ==
    {t \in Txs :
        \/ tx[t] \in {"sent", "landed"}
        \/ row.status = "submitted" /\ row.sig = t
        \/ tx[t] = "signed" /\ Sender(t)}

Builders == {r \in Requests : pc[r] = "build"}

Free == row.status \in {"none", "pending", "failed"} \/ (row.status = "processing" /\ Builders = {})

Chances == Cardinality(Charging) + Cardinality(Builders) + (IF Free THEN 1 ELSE 0)

Accounted == IsFiniteSet(Builders) /\ Chances <= 1 + races

\* Each signed transaction has one sender; nobody waits for one he has not sent.
SendersKnown ==
    /\ row.sig \in Txs => tx[row.sig] # "none"
    /\ \A r \in Requests : pc[r] \in {"recover", "send", "wait"} => tx[seen[r]] # "none"
    /\ \A r \in Requests : pc[r] = "wait" => tx[seen[r]] # "signed"
    /\ \A r, q \in Requests : pc[r] = "send" /\ pc[q] = "send" /\ seen[r] = seen[q] => r = q

LEMMA InitAccounted == Init => Accounted /\ SendersKnown
  <1> SUFFICES ASSUME Init PROVE Accounted /\ SendersKnown
    OBVIOUS
  <1>1. Charging = {} /\ Builders = {} /\ Free /\ races = 0
    BY DEF Init, Charging, Builders, Free, Sender, Txs
  <1>2. Cardinality({}) = 0 /\ IsFiniteSet({})
    BY FS_EmptySet
  <1>3. SendersKnown
    BY Bounds DEF Init, SendersKnown, Txs
  <1> QED
    BY <1>1, <1>2, <1>3 DEF Accounted, Chances

\* Counting: a set that is cut down, that gains one member, that exchanges one.
LEMMA ChargingFinite == IsFiniteSet(Charging) /\ Cardinality(Charging) \in Nat
  <1>1. IsFiniteSet(Txs)
    BY Bounds, FS_Interval DEF Txs
  <1>2. Charging \subseteq Txs
    BY DEF Charging
  <1> QED
    BY <1>1, <1>2, FS_Subset, FS_CardinalityType

LEMMA CutDown ==
    ASSUME NEW S, NEW T, IsFiniteSet(S), T \subseteq S
    PROVE  IsFiniteSet(T) /\ Cardinality(T) \in Nat /\ Cardinality(T) <= Cardinality(S)
  BY FS_Subset, FS_CardinalityType

LEMMA OneLess ==
    ASSUME NEW S, NEW T, NEW a \in S, IsFiniteSet(S), T \subseteq S \ {a}
    PROVE  IsFiniteSet(T) /\ Cardinality(T) \in Nat /\ Cardinality(T) <= Cardinality(S) - 1
  <1>1. IsFiniteSet(S \ {a}) /\ Cardinality(S \ {a}) = Cardinality(S) - 1
    BY FS_RemoveElement
  <1> QED
    BY <1>1, CutDown

LEMMA OneMore ==
    ASSUME NEW S, NEW T, NEW b, IsFiniteSet(S), T \subseteq S \cup {b}
    PROVE  IsFiniteSet(T) /\ Cardinality(T) \in Nat /\ Cardinality(T) <= Cardinality(S) + 1
  <1>1. /\ IsFiniteSet(S \cup {b})
        /\ Cardinality(S \cup {b}) = IF b \in S THEN Cardinality(S) ELSE Cardinality(S) + 1
    BY FS_AddElement
  <1>2. Cardinality(S) \in Nat
    BY FS_CardinalityType
  <1>3. /\ IsFiniteSet(T) /\ Cardinality(T) \in Nat
        /\ Cardinality(T) <= Cardinality(S \cup {b})
    BY <1>1, CutDown
  <1> QED
    BY <1>1, <1>2, <1>3

\* The ways a step can move the chance to charge.
LEMMA Dropped ==
    ASSUME Accounted, races \in Nat, races' = races,
           Charging' \subseteq Charging, Builders' \subseteq Builders, Free' => Free
    PROVE  Accounted'
  <1>1. Cardinality(Charging') \in Nat /\ Cardinality(Charging') <= Cardinality(Charging)
    BY CutDown, ChargingFinite
  <1>2. IsFiniteSet(Builders') /\ Cardinality(Builders') \in Nat /\ Cardinality(Builders') <= Cardinality(Builders)
    BY CutDown DEF Accounted
  <1>3. Cardinality(Charging) \in Nat /\ Cardinality(Builders) \in Nat
    BY ChargingFinite, FS_CardinalityType DEF Accounted
  <1> QED
    BY <1>1, <1>2, <1>3 DEF Accounted, Chances

LEMMA Gained ==
    ASSUME Accounted, races \in Nat, races' = races + 1,
           \/ Charging' \subseteq Charging /\ Builders' \subseteq Builders
           \/ \E t : Charging' \subseteq Charging \cup {t} /\ Builders' \subseteq Builders /\ (Free' => Free)
           \/ \E r : Charging' \subseteq Charging /\ Builders' \subseteq Builders \cup {r} /\ (Free' => Free)
    PROVE  Accounted'
  <1>3. Cardinality(Charging) \in Nat /\ Cardinality(Builders) \in Nat /\ IsFiniteSet(Builders)
    BY ChargingFinite, FS_CardinalityType DEF Accounted
  <1>4. CASE Charging' \subseteq Charging /\ Builders' \subseteq Builders
    <2>1. Cardinality(Charging') \in Nat /\ Cardinality(Charging') <= Cardinality(Charging)
      BY <1>4, CutDown, ChargingFinite
    <2>2. IsFiniteSet(Builders') /\ Cardinality(Builders') \in Nat /\ Cardinality(Builders') <= Cardinality(Builders)
      BY <1>4, <1>3, CutDown
    <2> QED
      BY <2>1, <2>2, <1>3 DEF Accounted, Chances
  <1>5. ASSUME NEW t, Charging' \subseteq Charging \cup {t}, Builders' \subseteq Builders, Free' => Free
        PROVE  Accounted'
    <2>1. Cardinality(Charging') \in Nat /\ Cardinality(Charging') <= Cardinality(Charging) + 1
      BY <1>5, OneMore, ChargingFinite
    <2>2. IsFiniteSet(Builders') /\ Cardinality(Builders') \in Nat /\ Cardinality(Builders') <= Cardinality(Builders)
      BY <1>5, <1>3, CutDown
    <2> QED
      BY <2>1, <2>2, <1>3, <1>5 DEF Accounted, Chances
  <1>6. ASSUME NEW r, Charging' \subseteq Charging, Builders' \subseteq Builders \cup {r}, Free' => Free
        PROVE  Accounted'
    <2>1. Cardinality(Charging') \in Nat /\ Cardinality(Charging') <= Cardinality(Charging)
      BY <1>6, CutDown, ChargingFinite
    <2>2. IsFiniteSet(Builders') /\ Cardinality(Builders') \in Nat /\ Cardinality(Builders') <= Cardinality(Builders) + 1
      BY <1>6, <1>3, OneMore
    <2> QED
      BY <2>1, <2>2, <1>3, <1>6 DEF Accounted, Chances
  <1> QED
    BY <1>4, <1>5, <1>6

LEMMA ClaimedByOne ==
    ASSUME Accounted, races \in Nat, races' = races, NEW r,
           Charging' \subseteq Charging, Builders' \subseteq Builders \cup {r}, Free, ~Free'
    PROVE  Accounted'
  <1>1. Cardinality(Charging') \in Nat /\ Cardinality(Charging') <= Cardinality(Charging)
    BY CutDown, ChargingFinite
  <1>2. IsFiniteSet(Builders') /\ Cardinality(Builders') \in Nat /\ Cardinality(Builders') <= Cardinality(Builders) + 1
    BY OneMore DEF Accounted
  <1>3. Cardinality(Charging) \in Nat /\ Cardinality(Builders) \in Nat
    BY ChargingFinite, FS_CardinalityType DEF Accounted
  <1> QED
    BY <1>1, <1>2, <1>3 DEF Accounted, Chances

LEMMA BuiltOrGivenUp ==
    ASSUME Accounted, races \in Nat, races' \in {races, races + 1}, NEW r \in Builders, Builders' \subseteq Builders \ {r},
           \/ Charging' \subseteq Charging
           \/ \E t : Charging' \subseteq Charging \cup {t} /\ (Free' => Free)
    PROVE  Accounted'
  <1>2. IsFiniteSet(Builders') /\ Cardinality(Builders') \in Nat /\ Cardinality(Builders') <= Cardinality(Builders) - 1
    BY OneLess DEF Accounted
  <1>3. Cardinality(Charging) \in Nat /\ Cardinality(Builders) \in Nat
    BY ChargingFinite, FS_CardinalityType DEF Accounted
  <1>4. CASE Charging' \subseteq Charging
    <2>1. Cardinality(Charging') \in Nat /\ Cardinality(Charging') <= Cardinality(Charging)
      BY <1>4, CutDown, ChargingFinite
    <2> QED
      BY <2>1, <1>2, <1>3 DEF Accounted, Chances
  <1>5. ASSUME NEW t, Charging' \subseteq Charging \cup {t}, Free' => Free
        PROVE  Accounted'
    <2>1. Cardinality(Charging') \in Nat /\ Cardinality(Charging') <= Cardinality(Charging) + 1
      BY <1>5, OneMore, ChargingFinite
    <2> QED
      BY <2>1, <1>2, <1>3, <1>5 DEF Accounted, Chances
  <1> QED
    BY <1>4, <1>5

LEMMA TransactionGivenUp ==
    ASSUME Accounted, races \in Nat, races' = races, NEW t \in Charging,
           Charging' \subseteq Charging \ {t}, Builders' \subseteq Builders
    PROVE  Accounted'
  <1>1. Cardinality(Charging') \in Nat /\ Cardinality(Charging') <= Cardinality(Charging) - 1
    BY OneLess, ChargingFinite
  <1>2. IsFiniteSet(Builders') /\ Cardinality(Builders') \in Nat /\ Cardinality(Builders') <= Cardinality(Builders)
    BY CutDown DEF Accounted
  <1>3. Cardinality(Charging) \in Nat /\ Cardinality(Builders) \in Nat
    BY ChargingFinite, FS_CardinalityType DEF Accounted
  <1> QED
    BY <1>1, <1>2, <1>3 DEF Accounted, Chances

-----------------------------------------------------------------------------
\* A request that goes elsewhere, and neither claims, sends nor touches the row's
\* status and signature.
LEMMA BystanderAccounted ==
    ASSUME RequestsTyped, Accounted, NEW r \in Requests, NEW l \in Steps \ {"build", "send"},
           pc' = [pc EXCEPT ![r] = l], tx' = tx, races' = races,
           row'.sig = row.sig,
           row'.status = row.status \/ (row.status = "none" /\ row'.status = "pending"),
           seen' = seen \/ \E k : seen' = [seen EXCEPT ![r] = k]
    PROVE  Accounted'
  <1> USE DEF RequestsTyped, TypeOK
  <1>1. \A q \in Requests : pc'[q] \in {"build", "send"} => q # r /\ pc[q] = pc'[q] /\ seen'[q] = seen[q]
    OBVIOUS
  <1>2. Charging' \subseteq Charging
    BY <1>1 DEF Charging, Sender
  <1>3. Builders' = Builders \ {r} /\ races \in Nat
    BY <1>1 DEF Builders
  <1>4. CASE r \in Builders
    BY <1>2, <1>3, <1>4, BuiltOrGivenUp
  <1>5. CASE r \notin Builders
    <2>1. Free' => Free
      BY <1>3, <1>5 DEF Free
    <2> QED
      BY <1>2, <1>3, <2>1, Dropped
  <1> QED
    BY <1>4, <1>5

\* A request writes its error: what it gives up is its own chance to charge, or
\* the row it fails could be claimed already, or the step is counted as a race.
LEMMA FailsRowAccounted ==
    ASSUME RequestsTyped, Accounted, NEW r \in Requests, FailsRow(r), NEW l \in {"idle", "delete"},
           pc' = [pc EXCEPT ![r] = l], Charging' \subseteq Charging,
           row.status = "submitted" /\ row.sig = seen[r] => seen[r] \in Txs \ Charging'
    PROVE  Accounted'
  <1> USE DEF RequestsTyped, TypeOK
  <1>1. Builders' = Builders \ {r} /\ races \in Nat /\ races' \in {races, races + 1}
    BY DEF Builders, FailsRow, Raced
  <1>2. CASE pc[r] = "build"
    <2>1. r \in Builders
      BY <1>2 DEF Builders
    <2> QED
      BY <1>1, <2>1, BuiltOrGivenUp
  <1>3. CASE row.status = "failed"
    <2>1. races' = races /\ Free
      BY <1>3 DEF FailsRow, Raced, Free
    <2> QED
      BY <1>1, <2>1, Dropped
  <1>4. CASE row.status = "submitted" /\ row.sig = seen[r]
    <2>1. races' = races
      BY <1>4 DEF FailsRow, Raced, Undisturbed
    <2>2. seen[r] \in Charging /\ Charging' \subseteq Charging \ {seen[r]}
      BY <1>4 DEF Charging
    <2> QED
      BY <1>1, <2>1, <2>2, TransactionGivenUp
  <1>5. CASE pc[r] # "build" /\ row.status # "failed" /\ ~(row.status = "submitted" /\ row.sig = seen[r])
    <2>1. races' = races + 1
      BY <1>5 DEF FailsRow, Raced, Undisturbed
    <2> QED
      BY <1>1, <2>1, Gained
  <1> QED
    BY <1>2, <1>3, <1>4, <1>5

\* The row is confirmed: it cannot be claimed any more.
LEMMA ConfirmedAccounted ==
    ASSUME RequestsTyped, Accounted, NEW r \in Requests, pc[r] # "build",
           row' = Confirmed, tx' = tx, races' = races, pc' = [pc EXCEPT ![r] = "activate"],
           seen' = seen \/ \E k : seen' = [seen EXCEPT ![r] = k]
    PROVE  Accounted'
  <1> USE DEF RequestsTyped, TypeOK
  <1>0. row'.status = "confirmed"
    BY DEF Confirmed, Rows
  <1>1. \A q \in Requests : pc'[q] \in {"build", "send"} => q # r /\ pc[q] = pc'[q] /\ seen'[q] = seen[q]
    OBVIOUS
  <1>2. Charging' \subseteq Charging
    BY <1>0, <1>1 DEF Charging, Sender
  <1>3. Builders' \subseteq Builders /\ races \in Nat /\ ~Free'
    BY <1>0, <1>1 DEF Builders, Free
  <1> QED
    BY <1>2, <1>3, Dropped

\* A claim takes the row's chance, or shares that of the request it is taken from.
LEMMA ClaimAccounted ==
    ASSUME RequestsTyped, Accounted, NEW r \in Requests, Claim(r)
    PROVE  Accounted'
  <1> USE DEF RequestsTyped, TypeOK, Claim, Claimable, Goto, shop, mishaps
  <1>0. row'.status = "processing" /\ row'.sig = row.sig /\ races \in Nat
    BY DEF Rows
  <1>1. pc' = [pc EXCEPT ![r] = "build"] /\ tx' = tx /\ seen' = seen /\ pc[r] = "claim"
    OBVIOUS
  <1>2. Charging' \subseteq Charging
    BY <1>0, <1>1 DEF Charging, Sender
  <1>3. Builders' = Builders \cup {r} /\ r \in Builders'
    BY <1>1 DEF Builders
  <1>4. ~Free'
    BY <1>0, <1>3 DEF Free
  <1>5. CASE row.status # "processing" \/ \A q \in Requests : pc[q] # "build"
    <2>1. races' = races
      BY <1>5 DEF Raced
    <2>2. Free
      BY <1>5 DEF Free, Builders
    <2> QED
      BY <1>0, <1>2, <1>3, <1>4, <2>1, <2>2, ClaimedByOne
  <1>6. CASE ~(row.status # "processing" \/ \A q \in Requests : pc[q] # "build")
    <2>1. races' = races + 1
      BY <1>6 DEF Raced
    <2> QED
      BY <1>0, <1>2, <1>3, <1>4, <2>1, Gained
  <1> QED
    BY <1>5, <1>6

\* The builder's chance becomes that of the transaction it signs.
LEMMA RecordAccounted ==
    ASSUME RequestsTyped, Accounted, NEW r \in Requests, Record(r)
    PROVE  Accounted'
  <1> USE DEF RequestsTyped, TypeOK, Goto, shop, mishaps
  <1>1. PICK t \in Txs : /\ tx[t] = "none"
                         /\ tx' = [tx EXCEPT ![t] = "signed"]
                         /\ row' = Submitted(t)
                         /\ seen' = [seen EXCEPT ![r] = t]
    BY DEF Record
  <1>2. pc' = [pc EXCEPT ![r] = "send"] /\ pc[r] = "build" /\ races' = races /\ races \in Nat
    BY DEF Record
  <1>3. row'.status = "submitted" /\ row'.sig = t
    BY <1>1, SubmittedRow
  <1>4. r \in Builders /\ Builders' \subseteq Builders \ {r}
    BY <1>2 DEF Builders
  <1>5. \A q \in Requests : pc'[q] = "send" => q = r \/ (pc[q] = "send" /\ seen'[q] = seen[q])
    BY <1>1, <1>2
  <1>6. Charging' \subseteq Charging \cup {t}
    BY <1>1, <1>3, <1>5 DEF Charging, Sender
  <1>7. ~Free'
    BY <1>3 DEF Free
  <1> QED
    BY <1>2, <1>4, <1>6, <1>7, BuiltOrGivenUp

\* What is sent was signed by its sender, or stands in the row, or is counted.
LEMMA SendAccounted ==
    ASSUME RequestsTyped, Accounted, SendersKnown, NEW r \in Requests, Send(r)
    PROVE  Accounted'
  <1> USE DEF RequestsTyped, TypeOK, Goto, shop, mishaps, TransactionsKnown
  <1>1. /\ pc[r] = "send" /\ seen[r] \in Txs /\ tx[seen[r]] \in {"signed", "sent"}
        /\ tx' = [tx EXCEPT ![seen[r]] = "sent"] /\ pc' = [pc EXCEPT ![r] = "wait"]
        /\ row' = row /\ seen' = seen /\ races' = races /\ races \in Nat
    BY DEF Send
  <1>2. Charging' \subseteq Charging
    BY <1>1 DEF Charging, Sender
  <1>3. Builders' = Builders
    BY <1>1 DEF Builders
  <1>4. Free' => Free
    BY <1>1, <1>3 DEF Free
  <1> QED
    BY <1>1, <1>2, <1>3, <1>4, Dropped

LEMMA ResendAccounted ==
    ASSUME RequestsTyped, Accounted, NEW r \in Requests, Resend(r)
    PROVE  Accounted'
  <1> USE DEF RequestsTyped, TypeOK, Goto, shop, mishaps, TransactionsKnown
  <1>1. /\ pc[r] = "recover" /\ seen[r] \in Txs /\ pc' = [pc EXCEPT ![r] = "idle"]
        /\ row' = row /\ seen' = seen /\ races \in Nat
    BY DEF Resend
  <1>2. Builders' = Builders
    BY <1>1 DEF Builders
  <1>3. Free' => Free
    BY <1>1, <1>2 DEF Free
  <1>4. CASE tx[seen[r]] = "signed"
    <2>1. tx' = [tx EXCEPT ![seen[r]] = "sent"] /\ Raced(Undisturbed(r))
      BY <1>4 DEF Resend
    <2>2. Charging' \subseteq Charging \cup {seen[r]}
      BY <1>1, <2>1 DEF Charging, Sender
    <2>3. CASE Undisturbed(r)
      <3>1. seen[r] \in Charging
        BY <1>1, <2>3 DEF Undisturbed, Charging
      <3> QED
        BY <1>1, <1>2, <1>3, <2>1, <2>2, <2>3, <3>1, Dropped DEF Raced
    <2>4. CASE ~Undisturbed(r)
      BY <1>1, <1>2, <1>3, <2>1, <2>2, <2>4, Gained DEF Raced
    <2> QED
      BY <2>3, <2>4
  <1>5. CASE tx[seen[r]] # "signed"
    <2>1. tx' = tx /\ races' = races
      BY <1>5 DEF Resend
    <2>2. Charging' \subseteq Charging
      BY <1>1, <2>1 DEF Charging, Sender
    <2> QED
      BY <1>1, <1>2, <1>3, <2>1, <2>2, Dropped
  <1> QED
    BY <1>4, <1>5

LEMMA RpcFailsAccounted ==
    ASSUME RequestsTyped, Accounted, SendersKnown, NEW r \in Requests, RpcFails(r)
    PROVE  Accounted'
  <1> USE DEF RequestsTyped, TypeOK, Goto, shop, mishaps, TransactionsKnown
  <1>1. /\ pc[r] \in {"send", "wait"} /\ seen[r] \in Txs /\ pc' = [pc EXCEPT ![r] = "idle"]
        /\ seen' = seen /\ races \in Nat
        /\ tx' = tx \/ (tx[seen[r]] = "signed" /\ tx' = [tx EXCEPT ![seen[r]] = "sent"])
    BY DEF RpcFails
  <1>2. tx' # tx => pc[r] = "send" /\ tx[seen[r]] = "signed"
    BY <1>1 DEF SendersKnown
  <1>3. Builders' = Builders
    BY <1>1 DEF Builders
  <1>4. CASE row.status = "submitted"
    <2>1. row' = row /\ races' = races
      BY <1>4 DEF RpcFails
    <2>2. Charging' \subseteq Charging
      BY <1>1, <1>2, <2>1 DEF Charging, Sender
    <2>3. Free' => Free
      BY <1>3, <2>1 DEF Free
    <2> QED
      BY <1>1, <1>3, <2>1, <2>2, <2>3, Dropped
  <1>5. CASE row.status # "submitted"
    <2>1. FailsRow(r)
      BY <1>5 DEF RpcFails
    <2>2. row'.status = "failed"
      BY <2>1, FailedRow DEF FailsRow
    <2>3. Charging' \subseteq Charging
      BY <1>1, <1>2, <2>2 DEF Charging, Sender
    <2> QED
      BY <1>1, <1>5, <2>1, <2>3, FailsRowAccounted
  <1> QED
    BY <1>4, <1>5

\* One step for each action of a request.
LEMMA RequestAccounted ==
    ASSUME RequestsTyped, Accounted, SendersKnown, NEW r \in Requests, Create(r) \/ Step(r) \/ Crash(r)
    PROVE  Accounted'
  <1> USE DEF Goto, shop, mishaps
  <1>types. /\ tx \in [Txs -> TxStates] /\ pc \in [Requests -> Steps]
            /\ row \in Rows /\ races \in Nat
            /\ pc[r] \in {"recover", "send", "wait"} => seen[r] \in Txs /\ row.sig \in Txs
    BY DEF RequestsTyped, TypeOK, TransactionsKnown
  <1>steps. {"idle", "ensure", "recover", "claim", "wait", "delete", "activate"} \subseteq Steps \ {"build", "send"}
    BY DEF Steps
  <1>failed. ASSUME FailsRow(r), tx' = tx, seen' = seen, NEW l \in {"idle", "delete"},
                    pc' = [pc EXCEPT ![r] = l]
             PROVE  Charging' \subseteq Charging
    <2>1. row'.status = "failed"
      BY <1>failed, <1>types, FailedRow DEF FailsRow
    <2> QED
      BY <1>failed, <1>types, <2>1 DEF Charging, Sender
  <1>1. CASE Create(r)
    BY <1>1, <1>steps, BystanderAccounted DEF Create
  <1>2. CASE Ensure(r)
    <2>1. PICK l \in {"activate", "recover", "claim"} : pc' = [pc EXCEPT ![r] = l]
      BY <1>2 DEF Ensure
    <2>2. /\ tx' = tx /\ races' = races /\ seen' = [seen EXCEPT ![r] = row.sig]
          /\ row' = Linked(session)
      BY <1>2 DEF Ensure
    <2>3. /\ row'.sig = row.sig
          /\ row'.status = row.status \/ (row.status = "none" /\ row'.status = "pending")
      BY <2>2, <1>types DEF Linked, Rows
    <2> QED
      BY <2>1, <2>2, <2>3, <1>steps, BystanderAccounted
  <1>3. CASE EnsureRefused(r)
    BY <1>3, <1>steps, BystanderAccounted DEF EnsureRefused
  <1>4. CASE RecoverLanded(r)
    BY <1>4, ConfirmedAccounted DEF RecoverLanded
  <1>5. CASE RecoverErrored(r)
    <2>1. FailsRow(r) /\ tx' = tx /\ seen' = seen /\ pc' = [pc EXCEPT ![r] = "idle"] /\ seen[r] \in Txs
      BY <1>5, <1>types DEF RecoverErrored
    <2>2. row'.status = "failed"
      BY <2>1, <1>types, FailedRow DEF FailsRow
    <2>3. seen[r] \in Txs \ Charging'
      BY <1>5, <2>1, <2>2 DEF RecoverErrored, Charging
    <2> QED
      BY <2>1, <2>3, <1>failed, FailsRowAccounted
  <1>6. CASE Resend(r)
    BY <1>6, ResendAccounted
  <1>7. CASE Claim(r)
    BY <1>7, ClaimAccounted
  <1>8. CASE NotClaimed(r)
    BY <1>8, <1>steps, BystanderAccounted DEF NotClaimed
  <1>9. CASE Poor(r) \/ BuildFails(r)
    <2>1. CASE FailsRow(r)
      <3>1. PICK l \in {"idle", "delete"} : pc' = [pc EXCEPT ![r] = l]
        BY <1>9 DEF Poor, BuildFails
      <3>2. tx' = tx /\ seen' = seen /\ pc[r] = "build"
        BY <1>9 DEF Poor, BuildFails
      <3>3. Charging' \subseteq Charging
        BY <2>1, <3>1, <3>2, <1>failed
      <3>4. r \in Builders /\ Builders' \subseteq Builders \ {r}
        BY <3>1, <3>2, <1>types DEF Builders
      <3>5. races' \in {races, races + 1}
        BY <2>1 DEF FailsRow, Raced
      <3> QED
        BY <3>3, <3>4, <3>5, <1>types, BuiltOrGivenUp
    <2>2. CASE ~FailsRow(r)
      BY <1>9, <2>2, <1>steps, BystanderAccounted DEF Poor, BuildFails
    <2> QED
      BY <2>1, <2>2
  <1>10. CASE Record(r)
    BY <1>10, RecordAccounted
  <1>11. CASE Send(r)
    BY <1>11, SendAccounted
  <1>12. CASE AlreadyProcessed(r)
    <2>1. pc[r] = "send" /\ tx' = tx /\ tx[seen[r]] \in {"landed", "errored"}
      BY <1>12 DEF AlreadyProcessed
    <2>2. CASE row.status = "submitted" /\ tx[row.sig] = "errored"
      <3>1. row' = Failed /\ races' = races /\ seen' = seen /\ pc' = [pc EXCEPT ![r] = "idle"]
        BY <1>12, <2>2 DEF AlreadyProcessed
      <3>2. row'.status = "failed"
        BY <3>1, <1>types, FailedRow
      <3>3. row.sig \in Charging /\ Charging' \subseteq Charging \ {row.sig}
        BY <2>1, <2>2, <3>1, <3>2, <1>types DEF Charging, Sender
      <3>4. Builders' \subseteq Builders
        BY <3>1, <1>types DEF Builders
      <3> QED
        BY <3>1, <3>3, <3>4, <1>types, TransactionGivenUp
    <2>3. CASE row.status = "submitted" /\ tx[row.sig] = "landed"
      BY <1>12, <2>1, <2>3, ConfirmedAccounted DEF AlreadyProcessed
    <2>4. CASE row.status = "submitted" /\ tx[row.sig] \notin {"errored", "landed"}
      BY <1>12, <2>4, <1>steps, BystanderAccounted DEF AlreadyProcessed
    <2>5. CASE row.status # "submitted"
      <3>1. FailsRow(r) /\ seen' = seen /\ pc' = [pc EXCEPT ![r] = "idle"]
        BY <1>12, <2>5 DEF AlreadyProcessed
      <3> QED
        BY <2>1, <2>5, <3>1, <1>failed, FailsRowAccounted
    <2> QED
      BY <2>2, <2>3, <2>4, <2>5
  <1>13. CASE Refused(r)
    <2>1. FailsRow(r) /\ tx' = tx /\ seen' = seen /\ pc' = [pc EXCEPT ![r] = "idle"] /\ seen[r] \in Txs
      BY <1>13, <1>types DEF Refused
    <2>2. row'.status = "failed" /\ pc[r] = "send" /\ tx[seen[r]] \in {"signed", "expired"}
      BY <1>13, <2>1, <1>types, FailedRow DEF FailsRow, Refused
    <2>3. \A q \in Requests : pc'[q] = "send" => pc[q] = "send" /\ q # r /\ seen'[q] # seen[r]
      BY <2>1, <2>2, <1>types DEF SendersKnown
    <2>4. seen[r] \in Txs \ Charging'
      BY <2>1, <2>2, <2>3 DEF Charging, Sender
    <2> QED
      BY <2>1, <2>4, <1>failed, FailsRowAccounted
  <1>14. CASE RpcFails(r)
    BY <1>14, RpcFailsAccounted
  <1>15. CASE WaitLanded(r)
    BY <1>15, ConfirmedAccounted DEF WaitLanded
  <1>16. CASE WaitErrored(r)
    <2>1. FailsRow(r) /\ tx' = tx /\ seen' = seen /\ pc' = [pc EXCEPT ![r] = "idle"] /\ seen[r] \in Txs
      BY <1>16, <1>types DEF WaitErrored
    <2>2. row'.status = "failed"
      BY <2>1, <1>types, FailedRow DEF FailsRow
    <2>3. seen[r] \in Txs \ Charging'
      BY <1>16, <2>1, <2>2 DEF WaitErrored, Charging
    <2> QED
      BY <2>1, <2>3, <1>failed, FailsRowAccounted
  <1>17. CASE InProgress(r)
    BY <1>17, <1>steps, BystanderAccounted DEF InProgress
  <1>18. CASE Delete(r)
    <2>1. row'.status = row.status /\ row'.sig = row.sig
      BY <1>18, <1>types DEF Delete, Unlinked, Rows
    <2> QED
      BY <1>18, <2>1, <1>steps, BystanderAccounted DEF Delete
  <1>19. CASE Activate(r)
    BY <1>19, <1>steps, BystanderAccounted DEF Activate
  <1>20. CASE Crash(r)
    BY <1>20, <1>steps, BystanderAccounted DEF Crash
  <1> QED
    BY <1>1, <1>2, <1>3, <1>4, <1>5, <1>6, <1>7, <1>8, <1>9, <1>10, <1>11, <1>12, <1>13, <1>14,
       <1>15, <1>16, <1>17, <1>18, <1>19, <1>20 DEF Step

LEMMA WorldAccounted ==
    ASSUME RequestsTyped, Accounted, ClaimAges \/ \E t \in Txs : Settle(t)
    PROVE  Accounted'
  <1> USE DEF RequestsTyped, TypeOK
  <1>0. pc' = pc /\ seen' = seen /\ races' = races /\ races \in Nat /\ Builders' = Builders
    BY DEF ClaimAges, Settle, request, Builders
  <1>1. CASE ClaimAges
    <2>1. row'.status = row.status /\ row'.sig = row.sig /\ tx' = tx
      BY <1>1 DEF ClaimAges, Rows
    <2>2. Charging' \subseteq Charging /\ (Free' => Free)
      BY <1>0, <2>1 DEF Charging, Sender, Free
    <2> QED
      BY <1>0, <2>2, Dropped
  <1>2. ASSUME NEW t \in Txs, Settle(t) PROVE Accounted'
    <2>1. PICK v \in {"expired", "landed", "errored"} :
            /\ v = "landed" => tx[t] = "sent"
            /\ tx' = [tx EXCEPT ![t] = v]
      BY <1>2 DEF Settle
    <2>2. row' = row
      BY <1>2 DEF Settle
    <2>3. Charging' \subseteq Charging /\ (Free' => Free)
      BY <1>0, <2>1, <2>2 DEF Charging, Sender, Free
    <2> QED
      BY <1>0, <2>3, Dropped
  <1> QED
    BY <1>1, <1>2

\* Who sends what stays known.
LEMMA SendersStayKnown == RequestsTyped /\ SendersKnown /\ [Next]_vars => SendersKnown'
  <1> SUFFICES ASSUME RequestsTyped, SendersKnown, [Next]_vars PROVE SendersKnown'
    OBVIOUS
  <1> USE DEF RequestsTyped, TypeOK, SendersKnown, TransactionsKnown, Goto, shop, mishaps, request
  <1>kept. ASSUME NEW r \in Requests, NEW l \in Steps \ {"recover", "send", "wait"},
                  pc' = [pc EXCEPT ![r] = l], row'.sig = row.sig,
                  seen' = seen \/ \E k : seen' = [seen EXCEPT ![r] = k],
                  tx' = tx \/ (seen[r] \in Txs /\ tx' = [tx EXCEPT ![seen[r]] = "sent"])
           PROVE  SendersKnown'
    <2>1. \A q \in Requests : pc'[q] \in {"recover", "send", "wait"} => pc[q] = pc'[q] /\ seen'[q] = seen[q]
      BY <1>kept
    <2>2. \A t \in Txs : (tx[t] # "none" => tx'[t] # "none") /\ (tx'[t] = "signed" => tx[t] = "signed")
      BY <1>kept
    <2> QED
      BY <1>kept, <2>1, <2>2
  <1>failed. ASSUME row' = Failed PROVE row'.sig = row.sig
    BY <1>failed DEF Failed, Rows
  <1>confirmed. ASSUME row' = Confirmed PROVE row'.sig = row.sig
    BY <1>confirmed DEF Confirmed, Rows
  <1>steps. {"idle", "ensure", "claim", "build", "delete", "activate"} \subseteq Steps \ {"recover", "send", "wait"}
    BY DEF Steps
  <1>1. ASSUME NEW r \in Requests, Create(r) \/ Step(r) \/ Crash(r) PROVE SendersKnown'
    <2>1. CASE Create(r) \/ EnsureRefused(r) \/ NotClaimed(r) \/ InProgress(r) \/ Activate(r) \/ Crash(r)
      BY <2>1, <1>kept, <1>steps DEF Create, EnsureRefused, NotClaimed, InProgress, Activate, Crash
    <2>2. CASE RecoverErrored(r) \/ Poor(r) \/ Refused(r) \/ WaitErrored(r)
      BY <2>2, <1>kept, <1>steps, <1>failed DEF RecoverErrored, Poor, Refused, WaitErrored, FailsRow
    <2>3. CASE RecoverLanded(r) \/ WaitLanded(r)
      BY <2>3, <1>kept, <1>steps, <1>confirmed DEF RecoverLanded, WaitLanded
    <2>4. CASE BuildFails(r)
      BY <2>4, <1>kept, <1>steps, <1>failed DEF BuildFails, FailsRow
    <2>5. CASE Resend(r)
      BY <2>5, <1>kept, <1>steps DEF Resend
    <2>6. CASE Claim(r)
      <3>1. row'.sig = row.sig
        BY <2>6 DEF Claim, Rows
      <3> QED
        BY <2>6, <3>1, <1>kept, <1>steps DEF Claim
    <2>7. CASE AlreadyProcessed(r)
      <3>1. row'.sig = row.sig /\ tx' = tx
        BY <2>7, AlreadyProcessedIs, <1>failed, <1>confirmed DEF AlreadyProcessed
      <3> QED
        BY <2>7, <3>1, AlreadyProcessedIs, <1>kept, <1>steps
    <2>8. CASE RpcFails(r)
      <3>1. row'.sig = row.sig /\ pc' = [pc EXCEPT ![r] = "idle"] /\ seen' = seen /\ seen[r] \in Txs
        BY <2>8, <1>failed DEF RpcFails, FailsRow
      <3>2. tx' = tx \/ tx' = [tx EXCEPT ![seen[r]] = "sent"]
        BY <2>8 DEF RpcFails
      <3> QED
        BY <3>1, <3>2, <1>kept, <1>steps
    <2>9. CASE Delete(r)
      <3>1. row'.sig = row.sig
        BY <2>9 DEF Delete, Unlinked, Rows
      <3> QED
        BY <2>9, <3>1, <1>kept, <1>steps DEF Delete
    <2>10. CASE Ensure(r)
      <3>1. PICK l \in {"activate", "recover", "claim"} :
              pc' = [pc EXCEPT ![r] = l] /\ (l = "recover" => row.status = "submitted")
        BY <2>10 DEF Ensure
      <3>2. tx' = tx /\ seen' = [seen EXCEPT ![r] = row.sig] /\ row'.sig = row.sig
        BY <2>10 DEF Ensure, Linked, Rows
      <3> QED
        BY <3>1, <3>2
    <2>11. CASE Record(r)
      <3>1. PICK t \in Txs : /\ tx[t] = "none"
                             /\ tx' = [tx EXCEPT ![t] = "signed"]
                             /\ row' = Submitted(t)
                             /\ seen' = [seen EXCEPT ![r] = t]
        BY <2>11 DEF Record
      <3>2. pc' = [pc EXCEPT ![r] = "send"] /\ row'.sig = t
        BY <2>11, <3>1, SubmittedRow DEF Record
      <3>3. \A q \in Requests \ {r} : pc'[q] = pc[q] /\ seen'[q] = seen[q]
        BY <3>1, <3>2
      <3>4. \A q \in Requests \ {r} : pc[q] \in {"recover", "send", "wait"} =>
               seen[q] # t /\ tx'[seen[q]] = tx[seen[q]]
        BY <3>1
      <3>5. pc'[r] = "send" /\ seen'[r] = t /\ tx'[t] = "signed"
        BY <3>1, <3>2
      <3> QED
        BY <3>2, <3>3, <3>4, <3>5
    <2>12. CASE Send(r)
      <3>1. /\ pc[r] = "send" /\ seen[r] \in Txs /\ tx' = [tx EXCEPT ![seen[r]] = "sent"]
            /\ pc' = [pc EXCEPT ![r] = "wait"] /\ row' = row /\ seen' = seen
        BY <2>12 DEF Send
      <3>2. \A t \in Txs : (tx[t] # "none" => tx'[t] # "none") /\ (tx'[t] = "signed" => tx[t] = "signed")
        BY <3>1
      <3>3. tx'[seen[r]] = "sent"
        BY <3>1
      <3>4. \A q \in Requests \ {r} : pc'[q] = pc[q]
        BY <3>1
      <3> QED
        BY <3>1, <3>2, <3>3, <3>4
    <2> QED
      BY <1>1, <2>1, <2>2, <2>3, <2>4, <2>5, <2>6, <2>7, <2>8, <2>9, <2>10, <2>11, <2>12 DEF Step
  <1>2. CASE ClaimAges
    <2>1. row'.sig = row.sig /\ tx' = tx /\ pc' = pc /\ seen' = seen
      BY <1>2 DEF ClaimAges, Rows
    <2> QED
      BY <2>1
  <1>3. ASSUME NEW t \in Txs, Settle(t) PROVE SendersKnown'
    <2>1. PICK v \in {"expired", "landed", "errored"} : tx' = [tx EXCEPT ![t] = v]
      BY <1>3 DEF Settle
    <2>2. row' = row /\ pc' = pc /\ seen' = seen
      BY <1>3 DEF Settle
    <2> QED
      BY <2>1, <2>2
  <1>4. CASE UNCHANGED vars
    BY <1>4 DEF vars
  <1> QED
    BY <1>1, <1>2, <1>3, <1>4 DEF Next

THEOREM PaymentAccounted == Spec => [](Accounted /\ SendersKnown)
  <1>1. RequestsTyped /\ Accounted /\ SendersKnown /\ [Next]_vars => Accounted'
    <2> SUFFICES ASSUME RequestsTyped, Accounted, SendersKnown, [Next]_vars PROVE Accounted'
      OBVIOUS
    <2>1. CASE UNCHANGED vars
      BY <2>1 DEF vars, Accounted, Chances, Charging, Builders, Free, Sender
    <2> QED
      BY <2>1, RequestAccounted, WorldAccounted DEF Next
  <1> QED
    BY <1>1, InitAccounted, SendersStayKnown, PaymentTyped, PTL DEF Spec

\* A purchase is charged once, and once more for each race at most: whatever is
\* clicked again, crashes or fails, every transaction that lands had a chance to
\* charge that only a race can have added.
THEOREM PaymentChargesAreAccounted == Spec => []ChargesAreAccounted
  <1>1. RequestsTyped /\ Accounted => ChargesAreAccounted
    <2> SUFFICES ASSUME RequestsTyped, Accounted PROVE ChargesAreAccounted
      OBVIOUS
    <2>1. Landed \subseteq Charging
      BY DEF Landed, Charging
    <2>2. Cardinality(Landed) \in Nat /\ Cardinality(Landed) <= Cardinality(Charging)
      BY <2>1, CutDown, ChargingFinite
    <2>3. Cardinality(Charging) \in Nat /\ Cardinality(Builders) \in Nat /\ races \in Nat
      BY ChargingFinite, FS_CardinalityType DEF Accounted, RequestsTyped, TypeOK
    <2> QED
      BY <2>2, <2>3 DEF Accounted, Chances, ChargesAreAccounted
  <1> QED
    BY <1>1, PaymentTyped, PaymentAccounted, PTL

-----------------------------------------------------------------------------
PaidFor == row.status = "confirmed" \/ phase = "requested" => Landed # {}
NamesPaid == row.status = "confirmed" /\ races = 0 => row.sig \in Landed

\* Without a race the only transaction that has landed is the one of a row that
\* can still be confirmed.
LEMMA OnlyChance ==
    ASSUME RequestsTyped, Accounted, NamesPaid, races = 0, NEW t \in Txs, tx[t] = "landed"
    PROVE  row.status \in {"submitted", "confirmed"} /\ tx[row.sig] = "landed"
  <1>1. Cardinality(Charging) \in Nat /\ Cardinality(Builders) \in Nat /\ IsFiniteSet(Charging) /\ IsFiniteSet(Builders)
    BY ChargingFinite, FS_CardinalityType DEF Accounted
  <1>2. t \in Charging
    BY DEF Charging
  <1>3. Cardinality({t}) = 1 /\ IsFiniteSet({t})
    BY FS_Singleton
  <1>4. Cardinality({t}) <= Cardinality(Charging)
    BY <1>1, <1>2, CutDown
  <1>5. Cardinality(Charging) = 1 /\ Cardinality(Builders) = 0 /\ ~Free
    BY <1>1, <1>3, <1>4 DEF Accounted, Chances
  <1>6. Builders = {}
    BY <1>1, <1>5, FS_EmptySet
  <1>7. row.status \in {"submitted", "confirmed"}
    BY <1>5, <1>6 DEF Free, RequestsTyped, TypeOK, Rows, Statuses
  <1>8. {t} = Charging
    BY <1>1, <1>2, <1>3, <1>5, FS_Subset
  <1>9. CASE row.status = "submitted"
    <2>1. row.sig \in Charging
      BY <1>9 DEF Charging, RequestsTyped, TypeOK
    <2> QED
      BY <1>7, <1>8, <2>1
  <1>10. CASE row.status = "confirmed"
    BY <1>7, <1>10 DEF NamesPaid, Landed
  <1> QED
    BY <1>7, <1>9, <1>10

\* Nothing that has landed is taken back, and races are not forgotten.
LEMMA LandedStays ==
    ASSUME RequestsTyped, [Next]_vars
    PROVE  Landed \subseteq Landed' /\ races' \in {races, races + 1}
  <1> USE DEF RequestsTyped, TypeOK, shop, mishaps, request
  <1>send. ASSUME NEW r \in Requests, tx' = tx \/ (\E t \in Txs : tx[t] # "landed" /\ \E v : tx' = [tx EXCEPT ![t] = v])
           PROVE  Landed \subseteq Landed'
    BY <1>send DEF Landed
  <1>1. ASSUME NEW r \in Requests, Create(r) \/ Step(r) \/ Crash(r)
        PROVE  Landed \subseteq Landed' /\ races' \in {races, races + 1}
    <2>1. CASE Create(r) \/ Crash(r) \/ Ensure(r) \/ EnsureRefused(r) \/ RecoverLanded(r)
      BY <2>1, <1>send DEF Create, Crash, Ensure, EnsureRefused, RecoverLanded
    <2>2. CASE NotClaimed(r) \/ WaitLanded(r) \/ InProgress(r) \/ Delete(r) \/ Activate(r)
      BY <2>2, <1>send DEF NotClaimed, WaitLanded, InProgress, Delete, Activate
    <2>3. CASE RecoverErrored(r) \/ Poor(r) \/ Refused(r) \/ WaitErrored(r)
      BY <2>3, <1>send DEF RecoverErrored, Poor, Refused, WaitErrored, FailsRow, Raced
    <2>4. CASE Claim(r) \/ BuildFails(r)
      BY <2>4, <1>send DEF Claim, BuildFails, FailsRow, Raced
    <2>5. CASE AlreadyProcessed(r)
      <3>1. tx' = tx
        BY <2>5 DEF AlreadyProcessed
      <3>2. races' \in {races, races + 1}
        <4>1. CASE row.status = "submitted"
          BY <2>5, <4>1 DEF AlreadyProcessed
        <4>2. CASE row.status # "submitted"
          BY <2>5, <4>2 DEF AlreadyProcessed, FailsRow, Raced
        <4> QED
          BY <4>1, <4>2
      <3> QED
        BY <3>1, <3>2, <1>send
    <2>6. CASE Resend(r) \/ RpcFails(r)
      <3>1. seen[r] \in Txs
        BY <2>6 DEF Resend, RpcFails, TransactionsKnown
      <3>2. tx' = tx \/ (tx[seen[r]] # "landed" /\ tx' = [tx EXCEPT ![seen[r]] = "sent"])
        BY <2>6 DEF Resend, RpcFails
      <3>3. races' \in {races, races + 1}
        BY <2>6 DEF Resend, RpcFails, FailsRow, Raced
      <3> QED
        BY <3>1, <3>2, <3>3, <1>send
    <2>7. CASE Record(r) \/ Send(r)
      <3>1. PICK t \in Txs : tx[t] # "landed" /\ \E v : tx' = [tx EXCEPT ![t] = v]
        BY <2>7 DEF Record, Send, TransactionsKnown
      <3>2. races' = races
        BY <2>7 DEF Record, Send
      <3> QED
        BY <3>1, <3>2, <1>send
    <2> QED
      BY <1>1, <2>1, <2>2, <2>3, <2>4, <2>5, <2>6, <2>7 DEF Step
  <1>2. CASE ClaimAges
    BY <1>2 DEF ClaimAges, Landed
  <1>3. ASSUME NEW t \in Txs, Settle(t)
        PROVE  Landed \subseteq Landed' /\ races' \in {races, races + 1}
    BY <1>3 DEF Settle, Landed
  <1>4. CASE UNCHANGED vars
    BY <1>4 DEF vars, Landed
  <1> QED
    BY <1>1, <1>2, <1>3, <1>4 DEF Next

\* Only a request that has seen a transaction land confirms the row or, by the
\* row, sends the config to reconciliation.
LEMMA ConfirmedOnceLanded ==
    ASSUME RequestsTyped, NEW r \in Requests, Step(r)
    PROVE  /\ row'.status = "confirmed" =>
                 /\ row'.sig = row.sig
                 /\ row.status = "confirmed" \/ \E t \in Txs : tx[t] = "landed"
           /\ phase' = "requested" => phase = "requested" \/ row.status = "confirmed"
  <1> USE DEF shop
  <1>types. row \in Rows /\ (pc[r] \in {"recover", "send", "wait"} => seen[r] \in Txs /\ row.sig \in Txs)
    BY DEF RequestsTyped, TypeOK, TransactionsKnown
  <1>1. CASE RecoverLanded(r) \/ WaitLanded(r)
    BY <1>1, <1>types DEF RecoverLanded, WaitLanded, Recovered, Confirmed, Rows
  <1>2. CASE RecoverErrored(r) \/ Poor(r) \/ Refused(r) \/ WaitErrored(r)
    BY <1>2, FailsRowTyped DEF RecoverErrored, Poor, Refused, WaitErrored
  <1>3. CASE BuildFails(r) \/ RpcFails(r)
    BY <1>3, FailsRowTyped DEF BuildFails, RpcFails
  <1>4. CASE AlreadyProcessed(r)
    <2>1. CASE row.status = "submitted"
      BY <1>4, <2>1, <1>types DEF AlreadyProcessed, Confirmed, Failed, Rows
    <2>2. CASE row.status # "submitted"
      BY <1>4, <2>2, FailsRowTyped DEF AlreadyProcessed
    <2> QED
      BY <2>1, <2>2
  <1>5. CASE Ensure(r) \/ Claim(r) \/ Delete(r)
    BY <1>5, <1>types DEF Ensure, Claim, Delete, Linked, Unlinked, Rows
  <1>6. CASE Record(r)
    <2>1. PICK t \in Txs : row' = Submitted(t) /\ phase' = phase
      BY <1>6 DEF Record
    <2> QED
      BY <2>1, <1>types, SubmittedRow
  <1>7. CASE EnsureRefused(r) \/ Resend(r) \/ NotClaimed(r) \/ Send(r) \/ InProgress(r)
    BY <1>7 DEF EnsureRefused, Resend, NotClaimed, Send, InProgress
  <1>8. CASE Activate(r)
    BY <1>8 DEF Activate, MayActivate
  <1> QED
    BY <1>1, <1>2, <1>3, <1>4, <1>5, <1>6, <1>7, <1>8 DEF Step

LEMMA PaidKept ==
    ASSUME RequestsTyped, Accounted, PaidFor, NamesPaid, [Next]_vars
    PROVE  PaidFor' /\ NamesPaid'
  <1>1. Landed \subseteq Landed' /\ races' \in {races, races + 1} /\ races \in Nat
    BY LandedStays DEF RequestsTyped, TypeOK
  <1>2. /\ row'.status = "confirmed" =>
              /\ row'.sig = row.sig
              /\ row.status = "confirmed" \/ \E t \in Txs : tx[t] = "landed"
        /\ phase' = "requested" => phase = "requested" \/ row.status = "confirmed"
    <2>1. CASE \E r \in Requests : Step(r)
      BY <2>1, ConfirmedOnceLanded
    <2>2. CASE \E r \in Requests : Create(r) \/ Crash(r)
      BY <2>2 DEF Create, Crash, shop
    <2>3. CASE ClaimAges \/ \E t \in Txs : Settle(t)
      BY <2>3 DEF ClaimAges, Settle, shop, RequestsTyped, TypeOK, Rows
    <2>4. CASE UNCHANGED vars
      BY <2>4 DEF vars
    <2> QED
      BY <2>1, <2>2, <2>3, <2>4 DEF Next
  <1>3. PaidFor'
    BY <1>1, <1>2 DEF PaidFor, Landed
  <1>4. NamesPaid'
    <2>1. SUFFICES ASSUME row'.status = "confirmed", races' = 0 PROVE row'.sig \in Landed'
      BY DEF NamesPaid
    <2>2. races = 0
      BY <1>1, <2>1
    <2>3. CASE row.status = "confirmed"
      BY <1>1, <1>2, <2>1, <2>2, <2>3 DEF NamesPaid
    <2>4. CASE row.status # "confirmed"
      <3>1. tx[row.sig] = "landed" /\ row.status = "submitted"
        BY <1>2, <2>1, <2>2, <2>4, OnlyChance
      <3>2. row.sig \in Landed
        BY <3>1 DEF Landed, RequestsTyped, TypeOK
      <3> QED
        BY <1>1, <1>2, <2>1, <3>2
    <2> QED
      BY <2>3, <2>4
  <1> QED
    BY <1>3, <1>4

\* No row is confirmed and no config is provisioned without a transaction that has
\* landed; as long as there was no race, it is the one the row names.
THEOREM PaymentConfirmedHasLanded == Spec => []ConfirmedHasLanded
  <1>1. Init => PaidFor /\ NamesPaid
    BY DEF Init, PaidFor, NamesPaid
  <1>2. RequestsTyped /\ Accounted /\ PaidFor /\ NamesPaid /\ [Next]_vars => PaidFor' /\ NamesPaid'
    BY PaidKept
  <1>3. PaidFor /\ NamesPaid => ConfirmedHasLanded
    BY DEF PaidFor, NamesPaid, ConfirmedHasLanded
  <1> QED
    BY <1>1, <1>2, <1>3, PaymentTyped, PaymentAccounted, PTL DEF Spec
==============================================================================
