-------------------------- MODULE DoubleZeroRecovery --------------------------
(***************************************************************************)
(* The gate agent's guard of its DoubleZero tunnel.  Every heartbeat reads *)
(* the tunnel's status, looks the attached device up (or takes a cached    *)
(* answer), and decides under a lock whether to reconnect; a reconnect runs*)
(* beside the next heartbeats.  What must survive a restart is one file.   *)
(* Times are ages that stop growing once they have passed every limit.     *)
(***************************************************************************)
EXTENDS Naturals, FiniteSets

CONSTANTS
    Devices,
    NoDevice,
    Confirmation,  \* DoubleZeroRecoveryConfirmation
    Cooldown,      \* DoubleZeroRecoveryCooldown
    FreshWhenUp,   \* how long a looked-up device state is used while BGP is up
    FreshWhenDown, \* and while it is not
    MaxTroubles,   \* bound: changes of tunnel and devices from outside
    MaxRecoveryFaults     \* bound: crashes, failing commands and failing writes

ASSUME RecoveryAssumption ==
    /\ NoDevice \notin Devices
    /\ {Confirmation, Cooldown, FreshWhenUp, FreshWhenDown} \subseteq Nat
    /\ FreshWhenUp # 0 /\ FreshWhenDown <= FreshWhenUp
    /\ {MaxTroubles, MaxRecoveryFaults} \subseteq Nat

VARIABLES
    tunnel,   \* BGP and its routes: both, BGP alone, pending, or failed
    device,   \* the device the tunnel is attached to
    drained,  \* the devices that are drained
    good,     \* for how long the tunnel has been healthy
    record,   \* doubleZeroRecoveryRecord
    file,     \* doublezero-recovery.json
    reconnect, \* step of the running reconnect, or "idle"
    cached,   \* the device state last looked up
    reading,  \* what the heartbeat under way has read
    lastTry,  \* the age of the last reconnect
    forgot,   \* a restart found a record older than the last reconnect
    enabled,  \* DoubleZeroRecoveryEnabled
    troubles, recoveryFaults

worldState == <<tunnel, device, drained, good>>
memory == <<record, reconnect, cached, reading>>
attemptVars == <<lastTry, forgot>>
recoveryVars == <<worldState, memory, file, attemptVars, enabled, troubles, recoveryFaults>>

\* A heartbeat's commands take at most one unit of time.
Older(age, limit) == IF age <= limit THEN age + 1 ELSE age
Unset == Confirmation + Cooldown + 2
Since(age, limit) == IF age = Unset THEN Unset ELSE Older(age, limit)

States == {"not_required", "observing", "manual_required", "cooldown", "failed", "in_progress", "succeeded"}
Tunnels == {"ready", "sparse", "pending", "failed"}
Uncached == [device |-> NoDevice, state |-> "unknown", age |-> 0]
NoReading == [at |-> "none", tunnel |-> "pending", device |-> NoDevice, state |-> "unknown", age |-> 0]
FirstRecord == [state |-> "not_required", drainedSince |-> Unset, tried |-> Unset, outcome |-> "none"]

RecoveryRecord == [state : States, drainedSince : 0..Unset, tried : 0..Unset, outcome : {"none", "failed", "succeeded"}]

RecoveryTypeOK ==
    /\ tunnel \in Tunnels /\ device \in Devices \cup {NoDevice} /\ drained \subseteq Devices
    /\ good \in 0..FreshWhenUp + 1 /\ lastTry \in 0..Cooldown + 1 /\ forgot \in BOOLEAN
    /\ record \in RecoveryRecord /\ file \in RecoveryRecord
    /\ reconnect \in {"idle", "preflight", "disconnected", "connected"}
    /\ cached.age \in 0..FreshWhenUp
    /\ reading.at \in {"none", "status", "looked up"} /\ reading.age \in 0..1

RecoveryInit ==
    /\ tunnel = "ready" /\ device \in Devices /\ drained = {}
    /\ good = 0
    /\ record = FirstRecord /\ file = FirstRecord
    /\ reconnect = "idle" /\ cached = Uncached /\ reading = NoReading
    /\ lastTry = Cooldown + 1 /\ forgot = FALSE
    /\ enabled \in BOOLEAN
    /\ troubles = 0 /\ recoveryFaults = 0

TunnelIsHealthy == tunnel = "ready" /\ device \notin drained
Eligible == device # NoDevice /\ (device \in drained \/ tunnel = "failed")

-------------------------------------------------------------------------------
\* A command or a write fails, which the bound counts.
Failing(fails) == IF fails THEN recoveryFaults < MaxRecoveryFaults /\ recoveryFaults' = recoveryFaults + 1 ELSE UNCHANGED recoveryFaults

\* persistLocked: a failed write is logged, and the record stays in memory.
persist(new, lost) ==
    /\ record' = new
    /\ file' = IF lost THEN file ELSE new

\* What changes the tunnel changes since when it has been healthy.
TunnelBecomes(t, d, dr) ==
    /\ tunnel' = t /\ device' = d /\ drained' = dr
    /\ good' = IF TunnelIsHealthy /\ TunnelIsHealthy' THEN good ELSE 0

TunnelChanges ==
    /\ troubles < MaxTroubles
    /\ troubles' = troubles + 1
    /\ \/ \E t \in Tunnels \ {tunnel} : device # NoDevice /\ TunnelBecomes(t, device, drained)
       \/ \E d \in Devices : TunnelBecomes(tunnel, device, (drained \cup {d}) \ (drained \cap {d}))
    /\ UNCHANGED <<memory, file, attemptVars, enabled, recoveryFaults>>

Aged(r) == [r EXCEPT !.drainedSince = Since(@, Confirmation), !.tried = Since(@, Cooldown)]

ClockTicks ==
    /\ reading.age = 0
    /\ good' = IF TunnelIsHealthy THEN Older(good, FreshWhenUp) ELSE 0
    /\ record' = Aged(record)
    /\ file' = Aged(file)
    /\ cached' = IF cached = Uncached \/ cached.age = FreshWhenUp
                THEN Uncached ELSE [cached EXCEPT !.age = @ + 1]
    /\ reading' = IF reading.at = "none" THEN reading ELSE [reading EXCEPT !.age = 1]
    /\ lastTry' = Older(lastTry, Cooldown)
    /\ UNCHANGED <<tunnel, device, drained, reconnect, forgot, enabled, troubles, recoveryFaults>>

AgentRestarts ==
    /\ recoveryFaults < MaxRecoveryFaults
    /\ recoveryFaults' = recoveryFaults + 1
    /\ record' = file
    /\ reconnect' = "idle" /\ cached' = Uncached /\ reading' = NoReading
    /\ forgot' = (forgot \/ file.tried # record.tried)
    /\ UNCHANGED <<worldState, file, lastTry, enabled, troubles>>

-------------------------------------------------------------------------------
\* doubleZeroStatus: a command that fails leaves every field of the status empty.
ReadStatus(fails) ==
    /\ reading.at = "none"
    /\ Failing(fails)
    /\ reading' = [at |-> "status", state |-> "unknown", age |-> 0,
                   tunnel |-> IF fails THEN "pending" ELSE tunnel,
                   device |-> IF fails THEN NoDevice ELSE device]
    /\ UNCHANGED <<worldState, record, file, reconnect, cached, attemptVars, enabled, troubles>>

DeviceState(d) == IF d \in drained THEN "drained" ELSE "activated"
BgpUp(t) == t \in {"ready", "sparse"}
CacheIsFresh ==
    /\ cached.device = reading.device
    /\ cached.age - reading.age < (IF BgpUp(reading.tunnel) THEN FreshWhenUp ELSE FreshWhenDown)

\* readCurrentDeviceState: what the cache says, or a lookup that may fail.
readCurrentDeviceState(fails) ==
    /\ reading.at = "status"
    /\ LET asks == reading.device # NoDevice /\ ~CacheIsFresh
           answer == IF fails THEN "unknown" ELSE DeviceState(reading.device)
           says == CASE reading.device = NoDevice -> "unknown"
                     [] asks -> answer
                     [] OTHER -> cached.state
       IN /\ fails => asks
          /\ Failing(fails)
          /\ reading' = [reading EXCEPT !.at = "looked up", !.state = says]
          /\ cached' = IF asks /\ ~fails
                       THEN [device |-> reading.device, state |-> says, age |-> reading.age]
                       ELSE cached
    /\ UNCHANGED <<worldState, record, file, reconnect, attemptVars, enabled, troubles>>

-------------------------------------------------------------------------------
\* doubleZeroAutomaticRecoveryTrigger
Triggered == reading.state = "drained" \/ (reading.tunnel = "failed" /\ reading.device # NoDevice)
LooksHealthy == reading.tunnel = "ready" /\ reading.state # "drained"

\* The record as it was when the heartbeat began.
Bug_EveryTimeAnew == reading.age
SinceThen == IF record.drainedSince = Unset THEN reading.age ELSE record.drainedSince
Bug_NotAfterSuccess ==
    record.outcome = "failed" /\ record.tried # Unset /\ record.tried - reading.age < Cooldown
WaitThen == record.tried # Unset /\ record.tried - reading.age < Cooldown
IsConfirmed == SinceThen - reading.age >= Confirmation

\* shouldStartDoubleZeroRecovery, after the branches of Observe that come before it.
Starts ==
    /\ reading.at = "looked up" /\ reconnect = "idle"
    /\ ~LooksHealthy /\ Triggered /\ enabled /\ ~WaitThen /\ IsConfirmed

Attempt == [record EXCEPT !.state = "in_progress", !.drainedSince = SinceThen, !.outcome = "none",
                          !.tried = reading.age]

\* Observe, where it does not start a reconnect.
Judged ==
    CASE reconnect # "idle" -> [record EXCEPT !.state = "in_progress"]
      [] reconnect = "idle" /\ LooksHealthy ->
            [record EXCEPT !.state = "not_required", !.drainedSince = Unset]
      [] reconnect = "idle" /\ ~LooksHealthy /\ ~Triggered ->
            [record EXCEPT !.state = "manual_required", !.drainedSince = Unset]
      [] OTHER ->
            [record EXCEPT !.drainedSince = SinceThen,
                           !.state = CASE ~enabled -> "manual_required"
                                       [] enabled /\ WaitThen /\ record.outcome = "failed" -> "failed"
                                       [] enabled /\ WaitThen /\ record.outcome # "failed" -> "cooldown"
                                       [] OTHER -> "observing"]

Observe(lost) ==
    /\ reading.at = "looked up"
    /\ reading' = NoReading
    /\ LET new == IF Starts THEN Attempt ELSE Judged
       IN /\ lost => new # record
          /\ Failing(lost)
          /\ IF new = record THEN UNCHANGED <<record, file>> ELSE persist(new, lost)
    /\ IF Starts
       THEN reconnect' = "preflight" /\ lastTry' = reading.age /\ forgot' = FALSE
       ELSE UNCHANGED <<reconnect, attemptVars>>
    /\ UNCHANGED <<worldState, cached, enabled, troubles>>

-------------------------------------------------------------------------------
\* runRecovery, beside the heartbeats.
Finish(outcome, lost) ==
    /\ reconnect' = "idle"
    /\ persist([record EXCEPT !.state = outcome, !.outcome = outcome,
                              !.drainedSince = IF outcome = "succeeded" THEN Unset ELSE @], lost)
    /\ UNCHANGED <<cached, reading, attemptVars, enabled, troubles>>

\* The key is missing, or the command fails, early or late.
DisconnectFails ==
    /\ reconnect = "preflight"
    /\ Failing(TRUE)
    /\ TunnelBecomes(tunnel, device, drained) \/ TunnelBecomes("pending", NoDevice, drained)
    /\ Finish("failed", FALSE)

Disconnect ==
    /\ reconnect = "preflight"
    /\ reconnect' = "disconnected"
    /\ TunnelBecomes("pending", NoDevice, drained)
    /\ UNCHANGED <<record, file, cached, reading, attemptVars, enabled, troubles, recoveryFaults>>

ConnectFails ==
    /\ reconnect = "disconnected"
    /\ Failing(TRUE)
    /\ UNCHANGED worldState
    /\ Finish("failed", FALSE)

\* The client attaches to a device of its choice; BGP and routes follow or do not.
Connect ==
    /\ reconnect = "disconnected"
    /\ reconnect' = "connected"
    /\ \E d \in Devices, t \in Tunnels : TunnelBecomes(t, d, drained)
    /\ UNCHANGED <<record, file, cached, reading, attemptVars, enabled, troubles, recoveryFaults>>

\* The last look at the tunnel, when it is restored or the time is over.
Verify(lost) ==
    /\ reconnect = "connected"
    /\ Failing(lost)
    /\ Finish(IF TunnelIsHealthy THEN "succeeded" ELSE "failed", lost)
    /\ UNCHANGED worldState

RecoveryNext ==
    \/ TunnelChanges \/ ClockTicks \/ AgentRestarts
    \/ \E b \in BOOLEAN : ReadStatus(b) \/ readCurrentDeviceState(b) \/ Observe(b) \/ Verify(b)
    \/ DisconnectFails \/ Disconnect \/ ConnectFails \/ Connect

RecoverySpec == RecoveryInit /\ [][RecoveryNext]_recoveryVars

\* The loop of heartbeats and the running reconnect, where nothing fails.
HeartbeatStep == ReadStatus(FALSE) \/ readCurrentDeviceState(FALSE) \/ Observe(FALSE)
ReconnectStep == Disconnect \/ Connect \/ Verify(FALSE)

\* Both go on, and so does the clock.
RecoveryFairness ==
    WF_recoveryVars(HeartbeatStep) /\ WF_recoveryVars(ReconnectStep) /\ WF_recoveryVars(ClockTicks)

-------------------------------------------------------------------------------
Begins == reconnect = "idle" /\ reconnect' = "preflight"

\* Reconnects of one gate lie a cooldown apart, through crashes, lost commands and
\* overlapping heartbeats; only a record whose write failed can be forgotten
\* (Observe, persistLocked, newDoubleZeroRecoveryManager).
CooldownIsKept == [][Begins => forgot \/ lastTry - reading.age >= Cooldown]_recoveryVars

\* A tunnel is cut only if it was in trouble not longer ago than a looked-up
\* device state is used (readCurrentDeviceState, shouldStartDoubleZeroRecovery).
HealthyIsLeftAlone == [][Begins => ~(TunnelIsHealthy /\ good > FreshWhenUp)]_recoveryVars

\* A tunnel is cut for a reason, and not again and again.
ReconnectsAreJustified == CooldownIsKept /\ HealthyIsLeftAlone

\* Trouble that stays is treated, and no reconnect stays in progress for ever
\* (Observe, runRecovery): neither a stale record nor a restart blocks the guard.
TroubleIsTreated ==
    /\ enabled /\ Eligible ~> reconnect # "idle" \/ ~Eligible
    /\ []<>(record.state # "in_progress")
==============================================================================
