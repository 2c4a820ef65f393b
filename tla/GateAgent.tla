----------------------------- MODULE GateAgent ------------------------------
(***************************************************************************)
(* One assignment on the host of its gate: the state file, the kernel and  *)
(* the agent's two goroutines that touch them, from                        *)
(* apps/gate-agent/cmd/hyperspace-gate-agent/main.go.                      *)
(*                                                                         *)
(*   control lane   prepare, commit, revoke, one job at a time             *)
(*   telemetry      samples the traffic counter every minute               *)
(*                                                                         *)
(* The state file is rewritten in place (os.WriteFile truncates it first), *)
(* the kernel is changed by commands that may fail, and the agent may die  *)
(* or the host reboot between any two of them.                             *)
(*                                                                         *)
(* The counter stands for the accepted payload of an egress assignment,    *)
(* forwarded to and from the destination: the quantity that is charged.    *)
(* It is the sum of what the file remembers (CounterOffset, or             *)
(* CounterCheckpoint once revoked) and what the nftables rules count.      *)
(***************************************************************************)
EXTENDS Integers

CONSTANTS
    MaxGen,      \* bound: generations of the session
    MaxTraffic,  \* bound: units of payload forwarded
    MaxDeaths,   \* bound: the agent dies (the kernel stays as it is)
    MaxReboots,  \* bound: the host reboots (the kernel state is gone)
    MaxFaults,   \* bound: commands that make a commit fail
    MaxMishaps,  \* bound: deaths, reboots and failing commits together
    MaxIgnored,  \* bound: revocations with commands that fail, which is ignored
    MaxSamples,  \* bound: samples of the counter
    MayTear,     \* FALSE: no death between truncating and writing a file, nor
                 \*   between writing the offset and deleting the counted rules
    MayMisread   \* FALSE: listing the nftables rules never fails (it then
                 \*   counts as an empty list)

ASSUME AgentAssumption ==
    /\ {MaxGen, MaxTraffic, MaxDeaths, MaxReboots, MaxFaults,
         MaxMishaps, MaxIgnored, MaxSamples} \subseteq Nat
    /\ MaxGen > 0
    /\ {MayTear, MayMisread} \subseteq BOOLEAN

\* What the host's clock can reach: a sample or a revocation takes one tick.
MaxClock == MaxSamples + MaxGen + MaxDeaths + MaxReboots

\* An assignment.json that can be read.  gen is the generation its counters carry:
\* that of its network plan or, without one, of the counters it resumed, 0 if none;
\* taken is the time of the checkpoint and 0 without one.
States == [keys : BOOLEAN, committed : BOOLEAN, revoked : BOOLEAN,
           gen : 0..MaxGen, offset : Nat, checkpoint : Nat, taken : 0..MaxClock]
Unreadable == [readable |-> FALSE]  \* no file, or one cut short

VARIABLES
    wanted,     \* what the control plane's jobs ask for: "Applied" or "Revoked"
    gen,        \* the generation of the session's plan
    reported,   \* what it knows of this generation: "none", "prepared", "applied"
    file,       \* the state file
    links,      \* the WireGuard interfaces, routes and ip rules are there
    rules,      \* and the nftables rules
    bytes,      \* what the rules have counted
    lane,       \* where the control lane is; "down": the agent does not run
    next,       \* where it goes when the file is written
    mem,        \* the assignment state in its memory
    target,     \* the generation of the plan it commits
    serving,    \* start-up is over: telemetry runs, jobs are claimed
    peek,       \* the state telemetry has read and samples, or Unreadable
    clock,      \* of the host, as far as counters are stamped with it
    flight,     \* the sample sent last, until its request arrives
    stale,      \* the samples sent before it whose requests have not arrived
    mixed,      \* history: telemetry sent a sample while the control lane worked,
                \*   or one of a state file that was rewritten after it was read
    boot,       \* the host's boot id
    forwarded,  \* history: payload really accepted by the rules
    deaths, faults, ignored  \* what went wrong so far

control == <<wanted, gen, reported>>
kernel == <<links, rules, bytes>>
agent == <<lane, next, mem, target, serving>>
sent == <<flight, stale, mixed>>
telemetry == <<peek, clock, sent>>
hostVars == <<control, file, kernel, agent, telemetry, boot, forwarded, deaths, faults, ignored>>

Mishaps == deaths + faults + (boot - 1)

Lanes == {"down", "idle", "truncate", "write", "unrule", "configure", "teardown"}
Samples == [boot : 1..(MaxReboots + 1), gen : 0..MaxGen, at : 1..MaxClock, bytes : Nat]

HostTypeOK ==
    /\ wanted \in {"Applied", "Revoked"} /\ gen \in 1..MaxGen
    /\ reported \in {"none", "prepared", "applied"}
    /\ file \in States \cup {Unreadable}
    /\ links \in BOOLEAN /\ rules \in BOOLEAN /\ bytes \in 0..MaxTraffic
    /\ lane \in Lanes /\ next \in Lanes
    /\ mem \in States /\ target \in 0..MaxGen
    /\ serving \in BOOLEAN
    /\ peek \in States \cup {Unreadable}
    /\ clock \in 0..MaxClock /\ flight \cup stale \subseteq Samples /\ mixed \in BOOLEAN
    /\ boot \in 1..(MaxReboots + 1)
    /\ forwarded \in 0..MaxTraffic
    /\ deaths \in 0..MaxDeaths /\ faults \in 0..MaxFaults
    /\ ignored \in 0..MaxIgnored

-----------------------------------------------------------------------------
Readable == file # Unreadable

\* assignmentKernelStatePresent
Bug_LinksSuffice == links
KernelPresent == links /\ rules

\* readAssignmentCounter
Counting == {bytes} \cup (IF MayMisread THEN {0} ELSE {})

\* derivedAssignmentState: what revocation works with when there is no file.
Derived == [keys |-> FALSE, committed |-> FALSE, revoked |-> FALSE,
            gen |-> 0, offset |-> 0, checkpoint |-> 0, taken |-> 0]

\* reusablePreparedAssignment
Bug_RevokedIsReusable(f) == f.keys \/ f.revoked
Reusable(f) == ~f.revoked /\ f.keys

\* resumedCounterOffset
Bug_BothResumed == IF Readable THEN file.checkpoint + file.offset ELSE 0
Resumed ==
    IF ~Readable THEN 0 ELSE IF file.taken # 0 THEN file.checkpoint ELSE file.offset

ResumedGen == IF Readable THEN file.gen ELSE 0

HostInit ==
    /\ wanted = "Applied" /\ gen = 1 /\ reported = "none"
    /\ file = Unreadable
    /\ links = FALSE /\ rules = FALSE /\ bytes = 0
    /\ lane = "idle" /\ next = "idle" /\ mem = Derived /\ target = 0
    /\ serving = TRUE
    /\ peek = Unreadable /\ clock = 0 /\ flight = {} /\ stale = {} /\ mixed = FALSE
    /\ boot = 1
    /\ forwarded = 0
    /\ deaths = 0 /\ faults = 0 /\ ignored = 0

\* The jobs' side: a session is revoked, and provisioned again with a new plan
\* after the revocation was reported.
Revocation ==
    /\ wanted = "Applied"
    /\ wanted' = "Revoked"
    /\ UNCHANGED <<gen, reported, file, kernel, agent, telemetry, boot, forwarded, deaths, faults, ignored>>

Revoked == Readable /\ file.revoked /\ lane = "idle"

Reactivation ==
    /\ wanted = "Revoked" /\ Revoked
    /\ gen < MaxGen
    /\ wanted' = "Applied" /\ gen' = gen + 1 /\ reported' = "none"
    /\ UNCHANGED <<file, kernel, agent, telemetry, boot, forwarded, deaths, faults, ignored>>

-----------------------------------------------------------------------------
\* The control lane.

MayWork == serving /\ lane = "idle"

\* writeAssignmentState of mem, then on to l.
Save(l) == lane' = "truncate" /\ next' = l

Truncate ==
    /\ lane = "truncate"
    /\ file' = Unreadable
    /\ lane' = "write"
    /\ UNCHANGED <<control, kernel, next, mem, target, serving, telemetry, boot, forwarded, deaths, faults, ignored>>

Write ==
    /\ lane = "write"
    /\ file' = mem
    /\ lane' = next
    /\ UNCHANGED <<control, kernel, next, mem, target, telemetry, boot, forwarded, deaths, faults, ignored>>
    /\ serving' = (serving \/ next = "idle")

\* prepareAssignment when nothing can be reused, and when all can.  The job is
\* sent again until its success is reported.
ToPrepare == MayWork /\ wanted = "Applied" /\ reported = "none"
CanReuse == Readable /\ Reusable(file)

Prepare ==
    /\ ToPrepare /\ ~CanReuse
    /\ mem' = [Derived EXCEPT !.keys = TRUE, !.offset = Resumed, !.gen = ResumedGen]
    /\ Save("idle")
    /\ UNCHANGED <<control, file, kernel, target, serving, telemetry, boot, forwarded, deaths, faults, ignored>>

Prepared ==
    /\ ToPrepare /\ CanReuse
    /\ reported' = "prepared"
    /\ UNCHANGED <<wanted, gen, file, kernel, agent, telemetry, boot, forwarded, deaths, faults, ignored>>

\* commitAssignment up to the first write: the counters that the kernel is
\* about to lose are added to the offset.  The job may come again for a tunnel
\* that is up, after a report that was lost or a handle found missing.
CommitState(b) == [file EXCEPT !.offset = @ + b]

Commit ==
    /\ MayWork /\ wanted = "Applied" /\ reported # "none" /\ Readable
    /\ \E b \in Counting : mem' = CommitState(b)
    /\ target' = gen
    /\ Save("unrule")
    /\ UNCHANGED <<control, file, kernel, serving, telemetry, boot, forwarded, deaths, faults, ignored>>

\* Its success is reported, now or after another try.
Applied ==
    /\ wanted = "Applied" /\ reported = "prepared" /\ lane = "idle"
    /\ Readable /\ file.committed /\ file.gen = gen
    /\ reported' = "applied"
    /\ UNCHANGED <<wanted, gen, file, kernel, agent, telemetry, boot, forwarded, deaths, faults, ignored>>

\* deleteNftRules
DeleteRules ==
    /\ lane = "unrule"
    /\ \/ rules' = FALSE /\ bytes' = 0
       \/ MayMisread /\ UNCHANGED <<rules, bytes>>  \* none are found
    /\ lane' = "configure"
    /\ UNCHANGED <<control, file, links, next, mem, target, serving, telemetry, boot, forwarded, deaths, faults, ignored>>

\* commitEgress and the second write.
ConfigureOk ==
    /\ lane = "configure"
    /\ mem.keys
    /\ links' = TRUE /\ rules' = TRUE
    /\ mem' = [mem EXCEPT !.committed = TRUE, !.gen = target]
    /\ Save("idle")
    /\ UNCHANGED <<control, file, bytes, target, serving, telemetry, boot, forwarded, deaths, faults, ignored>>

\* It fails for want of a private key, or because a command fails; the
\* interfaces may then be up or gone, the rules are not complete.
ConfigureFails ==
    /\ lane = "configure"
    /\ IF mem.keys THEN /\ faults < MaxFaults /\ Mishaps < MaxMishaps
                        /\ faults' = faults + 1 /\ links' \in BOOLEAN
                   ELSE UNCHANGED <<faults, links>>
    /\ lane' = "idle"
    /\ serving' = TRUE
    /\ UNCHANGED <<control, file, rules, bytes, next, mem, target, telemetry, boot, forwarded, deaths, ignored>>

\* revokeAssignment: the counters first ...
RevokedState(f, b) == [f EXCEPT !.revoked = TRUE, !.keys = FALSE,
                                !.checkpoint = f.offset + b, !.taken = clock + 1]

Bug_FileFirst ==
    /\ MayWork /\ wanted = "Revoked"
    /\ Revoked => clock < MaxSamples
    /\ \E b \in Counting : mem' = RevokedState(IF Readable THEN file ELSE Derived, b)
    /\ clock' = clock + 1
    /\ Save("teardown")
    /\ UNCHANGED <<control, file, kernel, target, serving, peek, sent, boot, forwarded, deaths, faults, ignored>>

Bug_NeedsFile ==
    /\ MayWork /\ wanted = "Revoked" /\ Readable
    /\ Revoked => clock < MaxSamples
    /\ \E b \in Counting : mem' = RevokedState(file, b)
    /\ clock' = clock + 1
    /\ lane' = "teardown"
    /\ UNCHANGED <<control, file, kernel, next, target, serving, peek, sent, boot, forwarded, deaths, faults, ignored>>

Revoke ==
    /\ MayWork /\ wanted = "Revoked"
    /\ Revoked => clock < MaxSamples  \* again: the report was lost
    /\ \E b \in Counting : mem' = RevokedState(IF Readable THEN file ELSE Derived, b)
    /\ clock' = clock + 1
    /\ lane' = "teardown"
    /\ UNCHANGED <<control, file, kernel, next, target, serving, peek, sent, boot, forwarded, deaths, faults, ignored>>

\* ... then the kernel, whatever the commands answer, and the file last.
Teardown ==
    /\ lane = "teardown"
    /\ \/ links' = FALSE /\ rules' = FALSE /\ bytes' = 0 /\ UNCHANGED ignored
       \/ /\ ignored < MaxIgnored /\ ignored' = ignored + 1
          /\ links' \in {FALSE, links} /\ rules' \in {FALSE, rules}
          /\ bytes' = IF rules' THEN bytes ELSE 0
    /\ Save("idle")
    /\ UNCHANGED <<control, file, mem, target, serving, telemetry, boot, forwarded, deaths, faults>>

-----------------------------------------------------------------------------
\* Deaths and starts.

Down ==
    /\ lane # "down"
    /\ lane = "write" => MayTear
    /\ lane' = "down" /\ next' = "idle" /\ mem' = Derived /\ target' = 0
    /\ serving' = FALSE
    /\ peek' = Unreadable

AgentDies ==
    /\ deaths < MaxDeaths /\ Mishaps < MaxMishaps
    /\ lane = "unrule" => MayTear
    /\ Down
    /\ deaths' = deaths + 1
    /\ UNCHANGED <<control, file, kernel, clock, sent, boot, forwarded, faults, ignored>>

Reboot ==
    /\ boot <= MaxReboots /\ Mishaps < MaxMishaps
    /\ Down
    /\ links' = FALSE /\ rules' = FALSE /\ bytes' = 0
    /\ boot' = boot + 1
    /\ UNCHANGED <<control, file, clock, sent, forwarded, deaths, faults, ignored>>

\* rehydrateAssignmentsWith: at start-up a committed assignment whose kernel
\* state is gone is committed again from the file, before anything else runs.
ToRehydrate == Readable /\ file.committed /\ ~file.revoked /\ ~KernelPresent

AgentStarts ==
    /\ lane = "down"
    /\ IF ToRehydrate
       THEN (\E b \in Counting : mem' = CommitState(b)) /\ target' = file.gen /\ Save("unrule") /\ UNCHANGED serving
       ELSE lane' = "idle" /\ serving' = TRUE /\ UNCHANGED <<mem, target, next>>
    /\ UNCHANGED <<control, file, kernel, telemetry, boot, forwarded, deaths, faults, ignored>>

-----------------------------------------------------------------------------
\* Traffic and telemetry.

Traffic ==
    /\ KernelPresent
    /\ forwarded < MaxTraffic
    /\ bytes' = bytes + 1
    /\ forwarded' = forwarded + 1
    /\ UNCHANGED <<control, file, links, rules, agent, telemetry, boot, deaths, faults, ignored>>

\* assignmentCounters reads the file ...
Peek ==
    /\ serving /\ peek = Unreadable
    /\ Readable /\ (file.committed \/ file.taken # 0)
    /\ peek' = file
    /\ UNCHANGED <<control, file, kernel, agent, clock, sent, boot, forwarded, deaths, faults, ignored>>

\* ... and then the rules, unless the file has a checkpoint: that is sent with
\* its own time, again and again.
Readings(f) ==
    IF f.taken # 0
    THEN {[boot |-> boot, gen |-> f.gen, at |-> f.taken, bytes |-> f.checkpoint]}
    ELSE {[boot |-> boot, gen |-> f.gen, at |-> clock + 1, bytes |-> f.offset + b] : b \in Counting}

Sample ==
    /\ peek # Unreadable
    /\ IF peek.taken # 0 THEN UNCHANGED clock ELSE clock < MaxSamples /\ clock' = clock + 1
    /\ \E r \in Readings(peek) : flight' = {r} /\ stale' = stale \cup (flight \ {r})
    /\ mixed' = (mixed \/ lane # "idle" \/ peek # file)
    /\ peek' = Unreadable
    /\ UNCHANGED <<control, file, kernel, agent, boot, forwarded, deaths, faults, ignored>>

-----------------------------------------------------------------------------
LaneStep ==
    Truncate \/ Write \/ DeleteRules \/ ConfigureOk \/ ConfigureFails \/ Teardown

HostStep ==
    \/ Prepare \/ Prepared \/ Commit \/ Applied \/ Revoke \/ LaneStep
    \/ AgentDies \/ Reboot \/ AgentStarts
    \/ Traffic \/ Peek \/ Sample

HostNext == HostStep \/ Revocation \/ Reactivation

\* The control plane sends a prepare or revoke job until its success is reported
\* and a commit job whenever the tunnel is found missing (the failed commands
\* and deaths are bounded, and so are the tries they cost); systemd restarts the
\* agent.  Nothing is assumed of users, traffic and telemetry.
HostFairness ==
    /\ WF_hostVars(LaneStep) /\ WF_hostVars(AgentStarts)
    /\ WF_hostVars(Prepare) /\ WF_hostVars(Prepared) /\ WF_hostVars(Applied)
    /\ WF_hostVars(Commit /\ ~KernelPresent)
    /\ WF_hostVars(Revoke /\ ~Revoked)

HostSpec == HostInit /\ [][HostNext]_hostVars
FairHostSpec == HostSpec /\ HostFairness

-----------------------------------------------------------------------------
\* What the host promises.

\* An assignment whose file says it is revoked has no interface and no rule left
\* in the kernel: revokeAssignment takes the kernel state away before it writes
\* RevokedAt, and neither a repair nor a start-up brings it back.
RevokedIsClean == Readable /\ file.revoked => ~links /\ ~rules

\* The counter the agent would report never exceeds what was really forwarded,
\* over repairs, revocations, crashes and reboots: the offset takes over exactly
\* what deleting the rules forgets.
Held == IF file.taken # 0 THEN file.checkpoint ELSE file.offset + bytes
CounterIsHonest == Readable /\ lane \in {"idle", "down"} => Held <= forwarded

\* A tunnel that the control plane wants comes up, unless it is revoked first.
TunnelUp == links /\ rules
TunnelComesUp == wanted = "Applied" ~> (TunnelUp \/ wanted = "Revoked")

\* A tunnel that was reported applied comes back after whatever took it down:
\* rehydration at start-up and the repair jobs restore it from the file.
IsApplied == wanted = "Applied" /\ reported = "applied"
AppliedComesBack == IsApplied ~> (TunnelUp \/ wanted = "Revoked")

\* Whatever is wanted of the tunnel, commands that fail, deaths and reboots keep it
\* from nobody for ever, the first time and later.
TunnelIsServed == TunnelComesUp /\ AppliedComesBack

\* A revocation is carried out however often the agent dies under way.
RevocationCompletes == wanted = "Revoked" ~> (Readable /\ file.revoked)
=============================================================================
