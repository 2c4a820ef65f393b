------------------------- MODULE UsageMeteringProofs -------------------------
(***************************************************************************)
(* Proofs about UsageMetering and the host of GateAgent below it: a revoked*)
(* assignment leaves nothing in the kernel, the counter never exceeds what *)
(* was forwarded, and no session is charged more than that; over any       *)
(* number of generations, repairs, deaths and reboots, and any quotas.     *)
(*                                                                         *)
(* All are proved of hosts on which no teardown command fails unnoticed    *)
(* (Unnoticed); the counter also needs that the nftables rules can always  *)
(* be listed and that no death falls into a write of the file (Sound), and *)
(* so does the charge, which holds for as long as samples are taken and    *)
(* recorded in order.  The README says what happens otherwise.             *)
(***************************************************************************)
EXTENDS UsageMetering, FiniteSetTheorems, TLAPS

\* What the file may hold; no bounds.
AgentStates == [keys : BOOLEAN, committed : BOOLEAN, revoked : BOOLEAN,
                gen : Nat, offset : Nat, checkpoint : Nat, taken : Nat]

HostTyped ==
    /\ wanted \in {"Applied", "Revoked"} /\ gen \in Nat
    /\ file \in AgentStates \cup {Unreadable}
    /\ mem \in AgentStates /\ target \in Nat
    /\ links \in BOOLEAN /\ rules \in BOOLEAN
    /\ bytes \in Nat /\ forwarded \in Nat /\ clock \in Nat
    /\ lane \in Lanes /\ next \in Lanes

LEMMA DerivedIsState == Derived \in AgentStates
  BY DEF Derived, AgentStates

LEMMA ReadableIsState == ASSUME HostTyped, Readable PROVE file \in AgentStates
  BY DEF HostTyped, Readable

LEMMA CountingIsNat == ASSUME HostTyped, NEW b \in Counting PROVE b \in Nat
  BY DEF HostTyped, Counting

LEMMA ResumedIsNat == ASSUME HostTyped PROVE Resumed \in Nat
<1>1. CASE Readable
  BY <1>1, ReadableIsState DEF Resumed, AgentStates
<1>2. CASE ~Readable
  BY <1>2 DEF Resumed
<1>. QED
  BY <1>1, <1>2

LEMMA ResumedGenIsNat == ASSUME HostTyped PROVE ResumedGen \in Nat
<1>1. CASE Readable
  BY <1>1, ReadableIsState DEF ResumedGen, AgentStates
<1>2. CASE ~Readable
  BY <1>2 DEF ResumedGen
<1>. QED
  BY <1>1, <1>2

LEMMA PreparedState ==
    ASSUME NEW n \in Nat, NEW g \in Nat
    PROVE  LET m == [Derived EXCEPT !.keys = TRUE, !.offset = n, !.gen = g]
           IN  /\ m \in AgentStates
               /\ m.keys /\ ~m.revoked /\ ~m.committed /\ m.offset = n /\ m.gen = g
               /\ m.taken = 0 /\ m.checkpoint = 0
  BY DEF Derived, AgentStates

LEMMA CommittedState ==
    ASSUME NEW f \in AgentStates, f = file, NEW b \in Nat
    PROVE  /\ CommitState(b) \in AgentStates
           /\ CommitState(b).keys = f.keys
           /\ CommitState(b).revoked = f.revoked
           /\ CommitState(b).offset = f.offset + b
           /\ CommitState(b).taken = f.taken
           /\ CommitState(b).checkpoint = f.checkpoint
           /\ CommitState(b).gen = f.gen
  BY DEF CommitState, AgentStates

LEMMA RevokedStateIs ==
    ASSUME NEW f \in AgentStates, NEW b \in Nat, clock \in Nat
    PROVE  /\ RevokedState(f, b) \in AgentStates
           /\ RevokedState(f, b).revoked
           /\ ~RevokedState(f, b).keys
           /\ RevokedState(f, b).checkpoint = f.offset + b
           /\ RevokedState(f, b).offset = f.offset
           /\ RevokedState(f, b).taken = clock + 1
           /\ RevokedState(f, b).taken # 0
           /\ RevokedState(f, b).gen = f.gen
<1>1. f.offset + b \in Nat /\ clock + 1 \in Nat /\ clock + 1 # 0
  BY DEF AgentStates
<1> DEFINE m == [f EXCEPT !.revoked = TRUE, !.keys = FALSE,
                          !.checkpoint = f.offset + b, !.taken = clock + 1]
<1>2. m.revoked = TRUE /\ m.keys = FALSE /\ m.checkpoint = f.offset + b
      /\ m.offset = f.offset /\ m.taken = clock + 1 /\ m.gen = f.gen
  BY DEF AgentStates
<1>3. m \in AgentStates
  BY <1>1 DEF AgentStates
<1>4. RevokedState(f, b) = m
  BY DEF RevokedState
<1>. QED
  BY <1>1, <1>2, <1>3, <1>4

LEMMA ConfiguredState ==
    ASSUME mem \in AgentStates, target \in Nat
    PROVE  LET m == [mem EXCEPT !.committed = TRUE, !.gen = target]
           IN  /\ m \in AgentStates
               /\ m.keys = mem.keys /\ m.revoked = mem.revoked
               /\ m.offset = mem.offset /\ m.taken = mem.taken
               /\ m.checkpoint = mem.checkpoint /\ m.gen = target
  BY DEF AgentStates

\* A sample that arrives is the only step of the whole that no host takes.
RecordArrives ==
    UNCHANGED <<control, file, kernel, agent, peek, clock, boot, forwarded, deaths, faults, ignored>>

LEMMA MeteringStep ==
    ASSUME [Next]_vars
    PROVE  HostNext \/ UNCHANGED hostVars \/ RecordArrives
  BY DEF Next, vars, Record, RecordLate, Insert, EnforceQuota, RevokeByOwner, AdjustOnly, AdjustAndReactivate,
         HostNext, RecordArrives

LEMMA HostTypedStep ==
    ASSUME AgentAssumption, HostTyped, HostNext \/ UNCHANGED hostVars \/ RecordArrives
    PROVE  HostTyped'
<1> USE DEF Lanes
<1>1. CASE UNCHANGED hostVars \/ RecordArrives
  BY <1>1 DEF HostTyped, hostVars, RecordArrives, control, kernel, agent, telemetry
<1>2. CASE Revocation \/ Reactivation
  BY <1>2 DEF Revocation, Reactivation, HostTyped, kernel, agent, telemetry
<1>3. CASE Prepare
  <2>1. mem' \in AgentStates
    BY <1>3, ResumedIsNat, ResumedGenIsNat, PreparedState DEF Prepare
  <2>. QED
    BY <1>3, <2>1 DEF Prepare, Save, HostTyped, control, kernel, telemetry
<1>4. CASE Prepared \/ Applied
  BY <1>4 DEF Prepared, Applied, HostTyped, kernel, agent, telemetry
<1>5. CASE Commit
  <2>1. mem' \in AgentStates
    BY <1>5, ReadableIsState, CountingIsNat, CommittedState DEF Commit
  <2>. QED
    BY <1>5, <2>1 DEF Commit, Save, HostTyped, control, kernel, telemetry
<1>6. CASE Revoke
  <2>1. (IF Readable THEN file ELSE Derived) \in AgentStates
    BY ReadableIsState, DerivedIsState
  <2>2. clock \in Nat
    BY DEF HostTyped
  <2>3. mem' \in AgentStates
    BY <1>6, <2>1, <2>2, CountingIsNat, RevokedStateIs DEF Revoke
  <2>. QED
    BY <1>6, <2>3 DEF Revoke, HostTyped, control, kernel
<1>7. CASE Truncate \/ Write \/ DeleteRules \/ ConfigureFails \/ Teardown
  <2>1. file' \in AgentStates \cup {Unreadable}
    BY <1>7 DEF Truncate, Write, DeleteRules, ConfigureFails, Teardown, HostTyped
  <2>2. links' \in BOOLEAN /\ rules' \in BOOLEAN /\ bytes' \in Nat
    <3>1. CASE Truncate \/ Write
      BY <3>1 DEF Truncate, Write, HostTyped, kernel
    <3>4. CASE DeleteRules
      <4>1. links' = links /\ rules' \in {FALSE, rules} /\ bytes' \in {0, bytes}
        BY <3>4 DEF DeleteRules
      <4>2. links' \in BOOLEAN /\ rules' \in BOOLEAN
        BY <4>1, Zenon DEF HostTyped
      <4>. QED
        BY <4>1, <4>2 DEF HostTyped
    <3>2. CASE ConfigureFails
      BY <3>2 DEF ConfigureFails, HostTyped
    <3>3. CASE Teardown
      <4>1. links' \in {FALSE, links} /\ rules' \in {FALSE, rules} /\ bytes' \in {0, bytes}
        BY <3>3 DEF Teardown
      <4>2. links' \in BOOLEAN /\ rules' \in BOOLEAN
        BY <4>1, Zenon DEF HostTyped
      <4>. QED
        BY <4>1, <4>2 DEF HostTyped
    <3>. QED
      BY <1>7, <3>1, <3>2, <3>3, <3>4
  <2>3. lane' \in Lanes /\ next' \in Lanes
    BY <1>7 DEF Truncate, Write, DeleteRules, ConfigureFails, Teardown, HostTyped, Save
  <2>4. UNCHANGED <<control, mem, target, clock, forwarded>>
    BY <1>7 DEF Truncate, Write, DeleteRules, ConfigureFails, Teardown, telemetry
  <2>. QED
    BY <2>1, <2>2, <2>3, <2>4 DEF HostTyped, control
<1>8. CASE ConfigureOk
  <2>1. mem' \in AgentStates
    BY <1>8, ConfiguredState DEF ConfigureOk, HostTyped
  <2>. QED
    BY <1>8, <2>1 DEF ConfigureOk, Save, HostTyped, control, telemetry
<1>9. CASE AgentDies \/ Reboot
  <2>1. lane' = "down" /\ next' = "idle" /\ mem' \in AgentStates /\ target' = 0
    BY <1>9, DerivedIsState DEF AgentDies, Reboot, Down
  <2>2. /\ UNCHANGED <<control, file, clock, forwarded>>
        /\ UNCHANGED kernel \/ (links' = FALSE /\ rules' = FALSE /\ bytes' = 0)
    BY <1>9 DEF AgentDies, Reboot
  <2>3. links' \in BOOLEAN /\ rules' \in BOOLEAN /\ bytes' \in Nat
    <3>1. bytes' \in {0, bytes}
      BY <2>2 DEF kernel
    <3>2. links' \in {FALSE, links} /\ rules' \in {FALSE, rules}
      BY <2>2, Zenon DEF kernel
    <3>3. links' \in BOOLEAN /\ rules' \in BOOLEAN
      BY <3>2, Zenon DEF HostTyped
    <3>. QED
      BY <3>1, <3>3 DEF HostTyped
  <2>4. lane' \in Lanes /\ next' \in Lanes /\ target' \in Nat
    BY <2>1
  <2>. QED
    BY <2>1, <2>2, <2>3, <2>4 DEF HostTyped, control
<1>10. CASE AgentStarts
  <2>1. mem' \in AgentStates /\ target' \in Nat
    <3>1. CASE ToRehydrate
      <4>1. file \in AgentStates
        BY <3>1, ReadableIsState DEF ToRehydrate
      <4>2. file.gen \in Nat
        BY <4>1 DEF AgentStates
      <4>. QED
        BY <1>10, <3>1, <4>1, <4>2, CountingIsNat, CommittedState DEF AgentStarts
    <3>2. CASE ~ToRehydrate
      BY <1>10, <3>2 DEF AgentStarts, HostTyped
    <3>. QED
      BY <3>1, <3>2
  <2>. QED
    BY <1>10, <2>1 DEF AgentStarts, Save, HostTyped, control, kernel, telemetry
<1>11. CASE Traffic
  BY <1>11 DEF Traffic, HostTyped, control, agent, telemetry
<1>12. CASE Peek
  BY <1>12 DEF Peek, HostTyped, control, kernel, agent
<1>13. CASE Sample
  BY <1>13 DEF Sample, HostTyped, control, kernel, agent
<1>. QED
  BY <1>1, <1>2, <1>3, <1>4, <1>5, <1>6, <1>7, <1>8, <1>9, <1>10, <1>11, <1>12, <1>13
     DEF HostNext, HostStep, LaneStep

LEMMA HostTypedInit == ASSUME AgentAssumption, HostInit PROVE HostTyped
  BY DerivedIsState DEF HostInit, HostTyped, Lanes

------------------------------------------------------------------------------
(***************************************************************************)
(* RevokedIsClean.  What makes it inductive: a file that is revoked was    *)
(* written after the teardown, and a commit starts from one that is not.   *)
(***************************************************************************)
Writing == lane \in {"truncate", "write"}

CleanInv ==
    /\ RevokedIsClean
    /\ Writing => next \in {"idle", "unrule"}
    /\ Writing /\ mem.revoked => ~links /\ ~rules /\ wanted = "Revoked"
    /\ Writing /\ next = "unrule" => ~mem.revoked /\ (Readable => ~file.revoked)
    /\ lane \in {"unrule", "configure"} => ~mem.revoked /\ (Readable => ~file.revoked)
    /\ lane = "teardown" => wanted = "Revoked"
    /\ wanted = "Applied" /\ reported # "none" /\ Readable => ~file.revoked

\* Nothing fails unnoticed; then a teardown leaves the kernel clean.
Unnoticed == MaxIgnored = 0

LEMMA TeardownIsClean ==
    ASSUME ignored \in Nat, Unnoticed, Teardown
    PROVE  ~links' /\ ~rules' /\ bytes' = 0
<1>1. ~(ignored < MaxIgnored)
  BY DEF Unnoticed
<1>2. links' = FALSE /\ rules' = FALSE /\ bytes' = 0
  BY <1>1, Zenon DEF Teardown
<1>. QED
  BY <1>2, Zenon

LEMMA CleanStep ==
    ASSUME AgentAssumption, HostTyped, HostTyped', CleanInv, ignored \in Nat, Unnoticed,
           HostNext \/ UNCHANGED hostVars \/ RecordArrives
    PROVE  CleanInv'
<1> USE DEF CleanInv, RevokedIsClean, Writing, Readable
<1>1. CASE UNCHANGED hostVars \/ RecordArrives
  BY <1>1 DEF hostVars, RecordArrives, control, kernel, agent, telemetry
<1>2. CASE Revocation \/ Reactivation
  BY <1>2 DEF Revocation, Reactivation, Revoked, kernel, agent
<1>3. CASE Prepare
  <2>1. ~mem'.revoked
    BY <1>3, ResumedIsNat, ResumedGenIsNat, PreparedState DEF Prepare
  <2>2. lane' = "truncate" /\ next' = "idle" /\ UNCHANGED <<control, file, kernel>>
    BY <1>3 DEF Prepare, Save
  <2>. QED
    BY <2>1, <2>2 DEF control, kernel
<1>4. CASE Prepared
  BY <1>4 DEF Prepared, ToPrepare, MayWork, CanReuse, Reusable, kernel, agent
<1>5. CASE Applied
  BY <1>5 DEF Applied, kernel, agent
<1>6. CASE Commit
  <2>1. file \in AgentStates /\ ~file.revoked
    BY <1>6, ReadableIsState DEF Commit
  <2>2. ~mem'.revoked
    BY <1>6, <2>1, CountingIsNat, CommittedState DEF Commit
  <2>3. lane' = "truncate" /\ next' = "unrule" /\ UNCHANGED <<control, file, kernel>>
    BY <1>6 DEF Commit, Save
  <2>. QED
    BY <2>1, <2>2, <2>3 DEF control, kernel
<1>7. CASE Revoke
  <2>1. lane' = "teardown" /\ wanted = "Revoked" /\ UNCHANGED <<control, file, kernel>>
    BY <1>7 DEF Revoke
  <2>. QED
    BY <2>1 DEF control, kernel
<1>8. CASE Truncate
  BY <1>8 DEF Truncate, control, kernel
<1>9. CASE Write
  <2>1. /\ file' = mem /\ lane = "write" /\ lane' = next /\ next \in {"idle", "unrule"}
        /\ UNCHANGED <<control, kernel, mem>>
    BY <1>9 DEF Write
  <2>. QED
    BY <2>1 DEF control, kernel
<1>10. CASE DeleteRules
  BY <1>10 DEF DeleteRules, control
<1>11. CASE ConfigureOk
  <2>1. ~mem'.revoked
    BY <1>11, ConfiguredState DEF ConfigureOk, HostTyped
  <2>2. /\ lane = "configure" /\ lane' = "truncate" /\ next' = "idle"
        /\ UNCHANGED <<control, file>>
    BY <1>11 DEF ConfigureOk, Save
  <2>. QED
    BY <2>1, <2>2 DEF control
<1>12. CASE ConfigureFails
  BY <1>12 DEF ConfigureFails, control
<1>13. CASE Teardown
  <2>1. ~links' /\ ~rules'
    BY <1>13, TeardownIsClean
  <2>2. lane = "teardown" /\ lane' = "truncate" /\ next' = "idle" /\ UNCHANGED <<control, file, mem>>
    BY <1>13 DEF Teardown, Save
  <2>. QED
    BY <2>1, <2>2 DEF control
<1>14. CASE AgentDies \/ Reboot
  <2>1. lane' = "down" /\ UNCHANGED <<control, file>>
    BY <1>14 DEF AgentDies, Reboot, Down
  <2>2. UNCHANGED <<links, rules>> \/ (~links' /\ ~rules')
    BY <1>14 DEF AgentDies, Reboot, kernel
  <2>. QED
    BY <2>1, <2>2 DEF control
<1>15. CASE AgentStarts
  <2>1. UNCHANGED <<control, file, kernel>>
    BY <1>15 DEF AgentStarts
  <2>2. CASE ToRehydrate
    <3>1. file \in AgentStates /\ ~file.revoked
      BY <2>2, ReadableIsState DEF ToRehydrate
    <3>2. ~mem'.revoked /\ lane' = "truncate" /\ next' = "unrule"
      BY <1>15, <2>2, <3>1, CountingIsNat, CommittedState DEF AgentStarts, Save
    <3>. QED
      BY <2>1, <3>1, <3>2 DEF control, kernel
  <2>3. CASE ~ToRehydrate
    <3>1. lane' = "idle"
      BY <1>15, <2>3 DEF AgentStarts
    <3>. QED
      BY <2>1, <3>1 DEF control, kernel
  <2>. QED
    BY <2>2, <2>3
<1>16. CASE Traffic
  BY <1>16 DEF Traffic, control, agent
<1>17. CASE Peek \/ Sample
  BY <1>17 DEF Peek, Sample, control, kernel, agent
<1>. QED
  BY <1>1, <1>2, <1>3, <1>4, <1>5, <1>6, <1>7, <1>8, <1>9, <1>10, <1>11, <1>12, <1>13, <1>14,
     <1>15, <1>16, <1>17 DEF HostNext, HostStep, LaneStep

LEMMA IgnoredStep ==
    ASSUME ignored \in Nat, HostNext \/ UNCHANGED hostVars \/ RecordArrives
    PROVE  ignored' \in Nat
<1>1. ignored' \in {ignored, ignored + 1}
  BY DEF HostNext, HostStep, LaneStep, hostVars, RecordArrives, Revocation, Reactivation,
         Prepare, Prepared, Commit, Applied, Revoke, Truncate, Write, DeleteRules, ConfigureOk,
         ConfigureFails, Teardown, AgentDies, Reboot, AgentStarts, Traffic, Peek, Sample
<1>. QED
  BY <1>1

LEMMA HostTypes == Spec => [](HostTyped /\ ignored \in Nat)
<1>1. Init => HostTyped /\ ignored \in Nat
  <2>1. Init => HostInit /\ ignored = 0
    BY DEF Init, HostInit
  <2>. QED
    BY <2>1, AgentAssumption, HostTypedInit
<1>2. HostTyped /\ ignored \in Nat /\ [Next]_vars => HostTyped' /\ (ignored \in Nat)'
  BY AgentAssumption, MeteringStep, HostTypedStep, IgnoredStep
<1>. QED
  BY <1>1, <1>2, PTL DEF Spec

LEMMA CleanInductive == ASSUME Unnoticed PROVE Spec => []CleanInv
<1>1. Init => CleanInv
  BY DEF Init, HostInit, CleanInv, RevokedIsClean, Readable, Writing
<1>2. HostTyped /\ HostTyped' /\ ignored \in Nat /\ CleanInv /\ [Next]_vars => CleanInv'
  BY AgentAssumption, MeteringStep, CleanStep
<1>. QED
  BY <1>1, <1>2, HostTypes, PTL DEF Spec

\* A revoked assignment has no interface and no rule left, over any number of
\* generations, repairs, failed commands, torn files, deaths and reboots: all it
\* takes is that teardown commands do not fail unnoticed (revokeAssignment,
\* commitAssignment, rehydrateAssignmentsWith).
THEOREM MeteringRevokedIsClean == ASSUME Unnoticed PROVE Spec => []RevokedIsClean
<1>1. CleanInv => RevokedIsClean
  BY DEF CleanInv
<1>. QED
  BY <1>1, CleanInductive, PTL

------------------------------------------------------------------------------
(***************************************************************************)
(* CounterIsHonest.  The offset of a file and what the rules count are     *)
(* never two accounts of the same payload, except between the first write  *)
(* of a commit and the deletion of the rules, where no death may fall.     *)
(***************************************************************************)
\* A death never cuts the file short, and the rules can always be listed.
Sound == Unnoticed /\ MayTear = FALSE /\ MayMisread = FALSE

Fits(f) ==
    /\ f.offset + bytes <= forwarded
    /\ f.taken # 0 => f.checkpoint <= forwarded /\ f.offset <= f.checkpoint

Regular(f) ==
    /\ f.taken # 0 <=> f.revoked
    /\ f.keys <=> ~f.revoked

HonestInv ==
    /\ bytes <= forwarded
    /\ ~rules => bytes = 0
    /\ Readable => Regular(file)
    /\ lane \notin {"idle", "down"} => Regular(mem)
    /\ Readable /\ lane # "unrule" => Fits(file)
    /\ Readable /\ lane = "unrule" => file.offset <= forwarded
    /\ Writing /\ next = "idle" => Fits(mem)
    /\ Writing /\ next = "unrule" => mem.offset <= forwarded
    /\ lane = "unrule" => mem.offset <= forwarded
    /\ lane \in {"configure", "teardown"} => Fits(mem)

LEMMA CountingIsBytes == ASSUME MayMisread = FALSE PROVE Counting = {bytes}
  BY DEF Counting

\* Nothing but traffic moves forwarded; what only lowers bytes keeps the invariant.
LEMMA HonestKeeps ==
    ASSUME HostTyped, HonestInv, UNCHANGED <<file, mem, lane, next, rules, bytes, forwarded>>
    PROVE  HonestInv'
  BY DEF HonestInv, Fits, Regular, Writing, Readable

LEMMA HonestLane ==
    ASSUME AgentAssumption, Sound, HostTyped, HostTyped', CleanInv, HonestInv, ignored \in Nat,
           LaneStep
    PROVE  HonestInv'
<1>1. file \in AgentStates \cup {Unreadable} /\ mem \in AgentStates
      /\ bytes \in Nat /\ forwarded \in Nat
  BY DEF HostTyped
<1>2. CASE Truncate
  <2>1. /\ lane = "truncate" /\ lane' = "write" /\ ~Readable' /\ next' = next /\ mem' = mem
        /\ UNCHANGED <<links, rules, bytes, forwarded>>
    BY <1>2 DEF Truncate, kernel, Readable
  <2>. QED
    BY <2>1 DEF HonestInv, Writing, Fits, Regular
<1>3. CASE Write
  <2>1. /\ file' = mem /\ lane = "write" /\ lane' = next /\ next \in {"idle", "unrule"}
        /\ UNCHANGED <<links, rules, bytes, forwarded, mem>>
    BY <1>3 DEF Write, kernel, CleanInv, Writing
  <2>2. Regular(mem) /\ (next = "idle" => Fits(mem)) /\ (next = "unrule" => mem.offset <= forwarded)
    BY <2>1 DEF HonestInv, Writing
  <2>. QED
    BY <2>1, <2>2 DEF HonestInv, Writing, Fits, Regular
<1>4. CASE DeleteRules
  <2>1. /\ lane = "unrule" /\ lane' = "configure" /\ rules' = FALSE /\ bytes' = 0
        /\ UNCHANGED <<file, mem, forwarded>>
    BY <1>4, Zenon DEF DeleteRules, Sound
  <2>2. ~mem.revoked /\ (Readable => ~file.revoked)
    BY <2>1 DEF CleanInv
  <2>3. Regular(mem) /\ mem.offset <= forwarded
        /\ (Readable => Regular(file) /\ file.offset <= forwarded)
    BY <2>1 DEF HonestInv
  <2>4. Fits(mem)' /\ (Readable => Fits(file)')
    <3>1. mem.offset \in Nat
      BY <1>1 DEF AgentStates
    <3>2. Readable => file.offset \in Nat
      BY ReadableIsState DEF AgentStates
    <3>. QED
      BY <1>1, <2>1, <2>2, <2>3, <3>1, <3>2 DEF Fits, Regular
  <2>. QED
    BY <1>1, <2>1, <2>3, <2>4 DEF HonestInv, Writing, Regular, Readable
<1>5. CASE ConfigureOk
  <2>1. /\ lane = "configure" /\ lane' = "truncate" /\ next' = "idle" /\ rules' = TRUE
        /\ UNCHANGED <<file, bytes, forwarded>>
        /\ mem' = [mem EXCEPT !.committed = TRUE, !.gen = target]
    BY <1>5 DEF ConfigureOk, Save
  <2>2. /\ mem'.keys = mem.keys /\ mem'.revoked = mem.revoked /\ mem'.offset = mem.offset
        /\ mem'.taken = mem.taken /\ mem'.checkpoint = mem.checkpoint
    BY <2>1, <1>1, ConfiguredState DEF HostTyped
  <2>. QED
    BY <2>1, <2>2 DEF HonestInv, Writing, Fits, Regular, Readable
<1>6. CASE ConfigureFails
  <2>1. lane = "configure" /\ lane' = "idle" /\ UNCHANGED <<file, rules, bytes, forwarded, mem>>
    BY <1>6 DEF ConfigureFails
  <2>. QED
    BY <2>1 DEF HonestInv, Writing, Fits, Regular, Readable
<1>7. CASE Teardown
  <2>1. ~rules' /\ bytes' = 0
    BY <1>7, TeardownIsClean DEF Sound
  <2>2. /\ lane = "teardown" /\ lane' = "truncate" /\ next' = "idle"
        /\ UNCHANGED <<file, mem, forwarded>>
    BY <1>7 DEF Teardown, Save
  <2>3. Fits(mem) => Fits(mem)'
    BY <1>1, <2>1, <2>2 DEF Fits, AgentStates
  <2>4. Readable /\ Fits(file) => Fits(file)'
    BY <1>1, <2>1, <2>2, ReadableIsState DEF Fits, AgentStates
  <2>. QED
    BY <1>1, <2>1, <2>2, <2>3, <2>4 DEF HonestInv, Writing, Regular, Readable
<1>. QED
  BY <1>2, <1>3, <1>4, <1>5, <1>6, <1>7 DEF LaneStep

LEMMA HonestStep ==
    ASSUME AgentAssumption, Sound, HostTyped, HostTyped', CleanInv, HonestInv, ignored \in Nat,
           HostNext \/ UNCHANGED hostVars \/ RecordArrives
    PROVE  HonestInv'
<1>0. /\ file \in AgentStates \cup {Unreadable} /\ mem \in AgentStates
      /\ bytes \in Nat /\ forwarded \in Nat
  BY DEF HostTyped
<1>1. CASE UNCHANGED hostVars \/ RecordArrives
  BY <1>1, HonestKeeps DEF hostVars, RecordArrives, kernel, agent
<1>2. CASE Revocation \/ Reactivation
  BY <1>2, HonestKeeps DEF Revocation, Reactivation, kernel, agent
<1>3. CASE Prepared \/ Applied \/ Peek \/ Sample
  BY <1>3, HonestKeeps DEF Prepared, Applied, Peek, Sample, kernel, agent
<1>4. CASE LaneStep
  BY <1>4, HonestLane
<1>5. CASE Prepare
  <2>1. /\ lane = "idle" /\ lane' = "truncate" /\ next' = "idle" /\ ~CanReuse
        /\ UNCHANGED <<file, links, rules, bytes, forwarded>>
    BY <1>5 DEF Prepare, ToPrepare, MayWork, Save, kernel
  <2>2. /\ mem'.keys /\ ~mem'.revoked /\ mem'.offset = Resumed /\ mem'.taken = 0
    <3>1. Resumed \in Nat /\ ResumedGen \in Nat
      BY ResumedIsNat, ResumedGenIsNat
    <3>2. mem' = [Derived EXCEPT !.keys = TRUE, !.offset = Resumed, !.gen = ResumedGen]
      BY <1>5 DEF Prepare
    <3>. QED
      BY <3>2 DEF Derived
  <2>3. Resumed + bytes <= forwarded
    <3>1. CASE ~Readable
      BY <1>0, <3>1 DEF Resumed, HonestInv
    <3>2. CASE Readable
      <4>1. file \in AgentStates /\ Regular(file) /\ Fits(file)
        BY <2>1, <3>2, ReadableIsState DEF HonestInv
      <4>2. file.revoked /\ file.taken # 0
        BY <2>1, <3>2, <4>1 DEF CanReuse, Reusable, Regular
      <4>3. bytes = 0
        BY <3>2, <4>2 DEF CleanInv, RevokedIsClean, HonestInv
      <4>4. file.checkpoint \in Nat
        BY <4>1 DEF AgentStates
      <4>. QED
        BY <1>0, <3>2, <4>1, <4>2, <4>3, <4>4 DEF Resumed, Fits
    <3>. QED
      BY <3>1, <3>2
  <2>. QED
    BY <2>1, <2>2, <2>3 DEF HonestInv, Writing, Fits, Regular, Readable
<1>6. CASE Commit
  <2>1. /\ lane = "idle" /\ lane' = "truncate" /\ next' = "unrule" /\ Readable
        /\ UNCHANGED <<file, rules, bytes, forwarded>>
        /\ mem' = CommitState(bytes)
    BY <1>6, CountingIsBytes DEF Commit, MayWork, Save, kernel, Sound
  <2>2. file \in AgentStates /\ Regular(file) /\ Fits(file)
    BY <2>1, ReadableIsState DEF HonestInv
  <2>3. /\ mem'.keys = file.keys /\ mem'.revoked = file.revoked /\ mem'.taken = file.taken
        /\ mem'.offset = file.offset + bytes
    BY <1>0, <2>1, <2>2, CommittedState
  <2>. QED
    BY <2>1, <2>2, <2>3 DEF HonestInv, Writing, Fits, Regular, Readable
<1>7. CASE Revoke
  <2> DEFINE f == IF Readable THEN file ELSE Derived
  <2>1. /\ lane = "idle" /\ lane' = "teardown" /\ mem' = RevokedState(f, bytes)
        /\ UNCHANGED <<file, rules, bytes, forwarded, next>>
    BY <1>7, CountingIsBytes DEF Revoke, MayWork, kernel, Sound
  <2>2. f \in AgentStates
    BY ReadableIsState, DerivedIsState
  <2>3. f.offset + bytes <= forwarded /\ f.offset \in Nat
    <3>1. CASE Readable
      BY <2>1, <2>2, <3>1 DEF HonestInv, Fits, AgentStates
    <3>2. CASE ~Readable
      BY <1>0, <3>2 DEF HonestInv, Derived
    <3>. QED
      BY <3>1, <3>2
  <2> HIDE DEF f
  <2>4. clock \in Nat
    BY DEF HostTyped
  <2>5. /\ mem'.revoked /\ ~mem'.keys /\ mem'.checkpoint = f.offset + bytes
        /\ mem'.offset = f.offset /\ mem'.taken # 0
    BY <1>0, <2>1, <2>2, <2>4, RevokedStateIs
  <2>6. Fits(mem)' /\ Regular(mem)'
    BY <1>0, <2>1, <2>3, <2>5 DEF Fits, Regular
  <2>. QED
    BY <2>1, <2>6 DEF HonestInv, Writing, Fits, Regular, Readable
<1>8. CASE AgentDies \/ Reboot
  <2>1. lane # "write" /\ lane' = "down" /\ UNCHANGED <<file, forwarded>>
    BY <1>8 DEF AgentDies, Reboot, Down, Sound
  <2>2. \/ lane # "unrule" /\ UNCHANGED <<rules, bytes>>
        \/ rules' = FALSE /\ bytes' = 0
    BY <1>8 DEF AgentDies, Reboot, Sound, kernel
  <2>3. bytes' <= forwarded' /\ (~rules' => bytes' = 0)
    BY <1>0, <2>1, <2>2 DEF HonestInv
  <2>4. Readable => Fits(file)'
    <3>1. CASE lane # "unrule"
      BY <1>0, <2>1, <2>2, <3>1, ReadableIsState DEF HonestInv, Fits, AgentStates
    <3>2. CASE lane = "unrule"
      <4>1. Readable => file \in AgentStates /\ file.taken = 0 /\ file.offset <= forwarded
        BY <3>2, ReadableIsState DEF HonestInv, CleanInv, Regular
      <4>. QED
        BY <2>1, <2>2, <3>2, <4>1 DEF Fits, AgentStates
    <3>. QED
      BY <3>1, <3>2
  <2>. QED
    BY <2>1, <2>3, <2>4 DEF HonestInv, Writing, Regular, Readable
<1>9. CASE AgentStarts
  <2>1. lane = "down" /\ UNCHANGED <<file, rules, bytes, forwarded>>
    BY <1>9 DEF AgentStarts, kernel
  <2>2. CASE ToRehydrate
    <3>1. /\ lane' = "truncate" /\ next' = "unrule" /\ Readable /\ mem' = CommitState(bytes)
      BY <1>9, <2>2, CountingIsBytes DEF AgentStarts, ToRehydrate, Save, Sound
    <3>2. file \in AgentStates /\ Regular(file) /\ Fits(file)
      BY <2>1, <3>1, ReadableIsState DEF HonestInv
    <3>3. /\ mem'.keys = file.keys /\ mem'.revoked = file.revoked /\ mem'.taken = file.taken
          /\ mem'.offset = file.offset + bytes
      BY <1>0, <3>1, <3>2, CommittedState
    <3>. QED
      BY <2>1, <3>1, <3>2, <3>3 DEF HonestInv, Writing, Fits, Regular, Readable
  <2>3. CASE ~ToRehydrate
    <3>1. lane' = "idle"
      BY <1>9, <2>3 DEF AgentStarts
    <3>. QED
      BY <2>1, <3>1 DEF HonestInv, Writing, Fits, Regular, Readable
  <2>. QED
    BY <2>2, <2>3
<1>10. CASE Traffic
  <2>1. /\ rules /\ bytes' = bytes + 1 /\ forwarded' = forwarded + 1
        /\ UNCHANGED <<file, mem, lane, next, rules>>
    BY <1>10 DEF Traffic, KernelPresent, agent
  <2>2. ASSUME NEW f \in AgentStates, Fits(f) PROVE f.offset + bytes' <= forwarded'
               /\ (f.taken # 0 => f.checkpoint <= forwarded' /\ f.offset <= f.checkpoint)
    BY <1>0, <2>1, <2>2 DEF Fits, AgentStates
  <2>3. Readable /\ Fits(file) => Fits(file)'
    BY <2>1, <2>2, ReadableIsState DEF Fits
  <2>4. Fits(mem) => Fits(mem)'
    BY <1>0, <2>1, <2>2 DEF Fits
  <2>5. mem.offset \in Nat /\ (Readable => file.offset \in Nat)
    BY <1>0, ReadableIsState DEF AgentStates
  <2>. QED
    BY <1>0, <2>1, <2>3, <2>4, <2>5 DEF HonestInv, Writing, Regular, Readable
<1>. QED
  BY <1>1, <1>2, <1>3, <1>4, <1>5, <1>6, <1>7, <1>8, <1>9, <1>10 DEF HostNext, HostStep

LEMMA HonestInductive == ASSUME Sound PROVE Spec => []HonestInv
<1>1. Init => HonestInv
  BY DEF Init, HostInit, HonestInv, Readable, Writing
<1>2. HostTyped /\ HostTyped' /\ ignored \in Nat /\ CleanInv /\ HonestInv /\ [Next]_vars
        => HonestInv'
  BY AgentAssumption, MeteringStep, HonestStep
<1>3. Spec => []CleanInv
  BY CleanInductive DEF Sound
<1>. QED
  BY <1>1, <1>2, <1>3, HostTypes, PTL DEF Spec

\* The counter that the agent would report never exceeds what the rules let pass,
\* over any number of repairs, revocations, deaths and reboots (commitAssignment
\* folds the counted bytes into the offset before it deletes the rules).
THEOREM MeteringCounterIsHonest == ASSUME Sound PROVE Spec => []CounterIsHonest
<1>1. HonestInv => CounterIsHonest
  BY DEF HonestInv, CounterIsHonest, Fits, Held
<1>. QED
  BY <1>1, HonestInductive, PTL

------------------------------------------------------------------------------
(***************************************************************************)
(* NeverOvercharged.  What a session is charged for is the way its counter *)
(* went, and the counter goes up with the payload only: a worth is a value *)
(* the counter may be found to have, and its generation.  The host's steps *)
(* raise a worth by no more than what was forwarded, or move it to a later *)
(* generation; the control plane may still charge a worth's distance from  *)
(* the latest sample of its stream, that is of its boot and generation.    *)
(***************************************************************************)
Value(f) == IF f.taken # 0 THEN f.checkpoint ELSE f.offset + bytes

\* What the file on the disk may turn out to be worth, and the one being written.
FileWorth ==
    IF ~Readable THEN {}
    ELSE {<<IF lane = "unrule" THEN file.offset ELSE Value(file), file.gen>>}

MemWorth ==
    IF lane \in {"configure", "teardown"} \/ (Writing /\ next = "idle") THEN {<<Value(mem), mem.gen>>}
    ELSE IF lane = "unrule" \/ (Writing /\ next = "unrule") THEN {<<mem.offset, mem.gen>>}
    ELSE {}

Worths == FileWorth \cup MemWorth

LEMMA ValueIsNat == ASSUME HostTyped, NEW f \in AgentStates PROVE Value(f) \in Nat
  BY DEF HostTyped, Value, AgentStates

LEMMA WorthsTyped ==
    ASSUME HostTyped, NEW w \in Worths
    PROVE  w \in Nat \X Nat
<1>1. CASE w \in FileWorth
  <2>1. file \in AgentStates
    BY <1>1, ReadableIsState DEF FileWorth
  <2>. QED
    BY <1>1, <2>1, ValueIsNat DEF FileWorth, AgentStates
<1>2. CASE w \in MemWorth
  <2>1. mem \in AgentStates
    BY DEF HostTyped
  <2>. QED
    BY <1>2, <2>1, ValueIsNat DEF MemWorth, AgentStates
<1>. QED
  BY <1>1, <1>2 DEF Worths

LEMMA WorthsTypedNext == HostTyped' => (Worths \subseteq Nat \X Nat)'
<1>1. HostTyped => Worths \subseteq Nat \X Nat
  BY WorthsTyped
<1>. QED
  BY <1>1, PTL

GenInv ==
    /\ Readable => file.gen <= gen
    /\ lane \notin {"idle", "down"} => mem.gen <= gen
    /\ lane \in {"unrule", "configure"} \/ (Writing /\ next = "unrule") => mem.gen <= target /\ target <= gen
    /\ Writing => next \in {"idle", "unrule"}

LEMMA GenStep ==
    ASSUME HostTyped, HostTyped', GenInv, HostNext \/ UNCHANGED hostVars \/ RecordArrives
    PROVE  GenInv'
<1>0. gen \in Nat /\ mem \in AgentStates /\ target \in Nat /\ lane \in Lanes
  BY DEF HostTyped
<1>1. CASE UNCHANGED hostVars \/ RecordArrives
  BY <1>1 DEF hostVars, RecordArrives, control, kernel, agent, GenInv, Writing, Readable
<1>2. CASE Revocation \/ Reactivation
  <2>1. gen' \in {gen, gen + 1} /\ UNCHANGED <<file, lane, next, mem, target>>
    BY <1>2 DEF Revocation, Reactivation, agent
  <2>2. Readable => file.gen \in Nat
    BY ReadableIsState DEF AgentStates
  <2>3. mem.gen \in Nat
    BY <1>0 DEF AgentStates
  <2>. QED
    BY <1>0, <2>1, <2>2, <2>3 DEF GenInv, Writing, Readable
<1>3. CASE Prepared \/ Applied \/ Traffic \/ Peek \/ Sample
  BY <1>3 DEF Prepared, Applied, Traffic, Peek, Sample, control, agent, GenInv, Writing, Readable
<1>4. CASE Prepare
  <2>1. lane = "idle" /\ lane' = "truncate" /\ next' = "idle" /\ UNCHANGED <<file, gen>>
    BY <1>4 DEF Prepare, ToPrepare, MayWork, Save, control
  <2>2. mem'.gen = ResumedGen
    BY <1>4 DEF Prepare, Derived
  <2>3. ResumedGen <= gen
    BY <1>0 DEF ResumedGen, GenInv
  <2>. QED
    BY <2>1, <2>2, <2>3 DEF GenInv, Writing, Readable
<1>5. CASE Commit
  <2>1. /\ lane' = "truncate" /\ next' = "unrule" /\ Readable /\ target' = gen
        /\ UNCHANGED <<file, gen>>
    BY <1>5 DEF Commit, Save, control
  <2>2. mem'.gen = file.gen
    BY <1>5, <2>1, ReadableIsState, CountingIsNat, CommittedState DEF Commit
  <2>. QED
    BY <1>0, <2>1, <2>2 DEF GenInv, Writing, Readable
<1>6. CASE Revoke
  <2> DEFINE f == IF Readable THEN file ELSE Derived
  <2>1. lane' = "teardown" /\ UNCHANGED <<file, gen>>
    BY <1>6 DEF Revoke, control
  <2>2. f \in AgentStates /\ clock \in Nat
    BY ReadableIsState, DerivedIsState DEF HostTyped
  <2>3. f.gen <= gen
    BY <1>0 DEF GenInv, Derived
  <2>4. PICK b \in Counting : mem' = RevokedState(f, b)
    BY <1>6 DEF Revoke
  <2> HIDE DEF f
  <2>5. mem'.gen = f.gen
    BY <2>2, <2>4, CountingIsNat, RevokedStateIs
  <2>. QED
    BY <2>1, <2>3, <2>5 DEF GenInv, Writing, Readable
<1>7. CASE Truncate \/ Write \/ DeleteRules \/ ConfigureFails \/ Teardown
  <2>1. CASE Truncate
    BY <2>1 DEF Truncate, GenInv, Writing, Readable, control
  <2>2. CASE Write
    BY <2>2 DEF Write, GenInv, Writing, Readable, control
  <2>3. CASE DeleteRules
    BY <2>3 DEF DeleteRules, GenInv, Writing, Readable, control
  <2>4. CASE ConfigureFails
    BY <2>4 DEF ConfigureFails, GenInv, Writing, Readable, control
  <2>5. CASE Teardown
    BY <2>5 DEF Teardown, Save, GenInv, Writing, Readable, control
  <2>. QED
    BY <1>7, <2>1, <2>2, <2>3, <2>4, <2>5
<1>8. CASE ConfigureOk
  <2>1. /\ lane = "configure" /\ lane' = "truncate" /\ next' = "idle"
        /\ UNCHANGED <<file, gen, target>>
    BY <1>8 DEF ConfigureOk, Save, control
  <2>2. mem'.gen = target
    BY <1>8, <1>0, ConfiguredState DEF ConfigureOk
  <2>. QED
    BY <2>1, <2>2 DEF GenInv, Writing, Readable
<1>9. CASE AgentDies \/ Reboot
  BY <1>9 DEF AgentDies, Reboot, Down, control, GenInv, Writing, Readable
<1>10. CASE AgentStarts
  <2>1. UNCHANGED <<file, gen>>
    BY <1>10 DEF AgentStarts, control
  <2>2. CASE ToRehydrate
    <3>1. Readable /\ lane' = "truncate" /\ next' = "unrule" /\ target' = file.gen
      BY <1>10, <2>2 DEF AgentStarts, ToRehydrate, Save
    <3>2. file \in AgentStates
      BY <3>1, ReadableIsState
    <3>3. mem'.gen = file.gen /\ file.gen \in Nat
      BY <1>10, <2>2, <3>2, CountingIsNat, CommittedState DEF AgentStarts, AgentStates
    <3>. QED
      BY <1>0, <2>1, <3>1, <3>3 DEF GenInv, Writing, Readable
  <2>3. CASE ~ToRehydrate
    <3>1. lane' = "idle"
      BY <1>10, <2>3 DEF AgentStarts
    <3>. QED
      BY <2>1, <3>1 DEF GenInv, Writing, Readable
  <2>. QED
    BY <2>2, <2>3
<1>. QED
  BY <1>1, <1>2, <1>3, <1>4, <1>5, <1>6, <1>7, <1>8, <1>9, <1>10
     DEF HostNext, HostStep, LaneStep

\* A worth after a step comes of one before it.
Grows(h) ==
    \E w \in Worths : w[2] <= h[2] /\ (w[2] = h[2] => h[1] - w[1] <= forwarded' - forwarded)

Fresh == ~Readable /\ lane # "write"

LEMMA SameWorth ==
    ASSUME HostTyped, NEW h \in Worths, forwarded' >= forwarded, forwarded' \in Nat
    PROVE  Grows(h)
<1>1. h[1] \in Nat /\ h[2] \in Nat /\ forwarded \in Nat
  BY WorthsTyped DEF HostTyped
<1>. QED
  BY <1>1 DEF Grows

LEMMA WorthStep ==
    ASSUME Sound, HostTyped, HostTyped', ignored \in Nat, CleanInv, HonestInv, GenInv, ~Fresh,
           HostNext \/ UNCHANGED hostVars \/ RecordArrives,
           NEW h \in Worths'
    PROVE  Grows(h)
<1> DEFINE onDisk == <<IF lane = "unrule" THEN file.offset ELSE Value(file), file.gen>>
<1>0. /\ bytes \in Nat /\ forwarded \in Nat /\ forwarded' \in Nat /\ lane \in Lanes
      /\ mem \in AgentStates /\ mem' \in AgentStates /\ clock \in Nat
      /\ gen \in Nat /\ target \in Nat
  BY DEF HostTyped
<1>a. Readable => /\ onDisk \in Worths /\ FileWorth = {onDisk}
                  /\ file \in AgentStates /\ Regular(file)
  BY ReadableIsState DEF Worths, FileWorth, HonestInv
<1>b. Readable /\ file.revoked => bytes = 0
  BY DEF CleanInv, HonestInv, RevokedIsClean
<1>1. CASE UNCHANGED <<file, bytes, lane, next, mem, forwarded>>
  <2>1. Worths' = Worths
    BY <1>1 DEF Worths, FileWorth, MemWorth, Value, Writing, Readable
  <2>. QED
    BY <1>0, <1>1, <2>1, SameWorth
<1>2. CASE Traffic
  <2>1. /\ bytes' = bytes + 1 /\ forwarded' = forwarded + 1
        /\ UNCHANGED <<file, lane, next, mem>>
    BY <1>2 DEF Traffic, agent
  <2>2. CASE h \in FileWorth'
    <3>1. Readable /\ h = <<IF lane = "unrule" THEN file.offset ELSE Value(file)', file.gen>>
      BY <2>1, <2>2 DEF FileWorth, Readable
    <3>2. Value(file)' <= Value(file) + 1 /\ Value(file) \in Nat /\ Value(file)' \in Nat
      BY <1>0, <1>a, <2>1, <3>1 DEF Value, AgentStates
    <3>. QED
      BY <1>0, <1>a, <2>1, <3>1, <3>2 DEF Grows, AgentStates
  <2>3. CASE h \in MemWorth'
    <3>1. Value(mem)' <= Value(mem) + 1 /\ Value(mem) \in Nat /\ Value(mem)' \in Nat
      BY <1>0, <2>1 DEF Value, AgentStates
    <3>2. CASE lane \in {"configure", "teardown"} \/ (Writing /\ next = "idle")
      <4>1. h = <<Value(mem)', mem.gen>> /\ <<Value(mem), mem.gen>> \in Worths
        BY <2>1, <2>3, <3>2 DEF MemWorth, Worths, Writing
      <4>. QED
        BY <1>0, <2>1, <3>1, <4>1 DEF Grows, AgentStates
    <3>3. CASE ~(lane \in {"configure", "teardown"} \/ (Writing /\ next = "idle"))
      <4>1. h \in Worths
        BY <2>1, <2>3, <3>3 DEF MemWorth, Worths, Writing
      <4>. QED
        BY <1>0, <2>1, <4>1, SameWorth
    <3>. QED
      BY <3>2, <3>3
  <2>. QED
    BY <2>2, <2>3 DEF Worths
<1> HIDE DEF onDisk
<1>3. CASE Prepare
  <2>1. /\ lane = "idle" /\ lane' = "truncate" /\ next' = "idle"
        /\ UNCHANGED <<file, bytes, forwarded>> /\ Readable
    BY <1>3 DEF Prepare, ToPrepare, MayWork, Save, kernel, Fresh
  <2>2. mem' = [Derived EXCEPT !.keys = TRUE, !.offset = Resumed, !.gen = ResumedGen]
    BY <1>3 DEF Prepare
  <2>3. mem'.offset = Resumed /\ mem'.gen = file.gen /\ mem'.taken = 0
    BY <2>1, <2>2 DEF Derived, ResumedGen
  <2>4. Value(mem)' = Resumed + bytes
    BY <2>1, <2>3 DEF Value
  <2>5. Resumed + bytes = Value(file)
    BY <1>0, <1>a, <1>b, <2>1 DEF Resumed, Value, Regular, AgentStates
  <2>6. Value(file)' = Value(file)
    BY <2>1 DEF Value
  <2>7. h = <<Value(file), file.gen>>
    BY <2>1, <2>3, <2>4, <2>5, <2>6 DEF Worths, FileWorth, MemWorth, Readable, Writing
  <2>8. h \in Worths
    BY <2>1, <2>7 DEF Worths, FileWorth
  <2>. QED
    BY <1>0, <2>1, <2>8, SameWorth
<1>4. CASE Commit \/ (AgentStarts /\ ToRehydrate)
  <2>1. /\ lane \in {"idle", "down"} /\ lane' = "truncate" /\ next' = "unrule"
        /\ UNCHANGED <<file, bytes, forwarded>> /\ Readable /\ ~file.revoked
    BY <1>4 DEF Commit, AgentStarts, ToRehydrate, MayWork, Save, kernel, CleanInv
  <2>2. mem' = CommitState(bytes)
    BY <1>4, CountingIsBytes DEF Commit, AgentStarts, Sound
  <2>3. mem'.offset = file.offset + bytes /\ mem'.gen = file.gen
    BY <1>0, <1>a, <2>1, <2>2, CommittedState
  <2>4. file.offset + bytes = Value(file)
    BY <1>a, <2>1 DEF Value, Regular
  <2>5. Value(file)' = Value(file)
    BY <2>1 DEF Value
  <2>6. h = <<Value(file), file.gen>>
    BY <2>1, <2>3, <2>4, <2>5 DEF Worths, FileWorth, MemWorth, Readable, Writing
  <2>7. h \in Worths
    BY <2>1, <2>6 DEF Worths, FileWorth
  <2>. QED
    BY <1>0, <2>1, <2>7, SameWorth
<1>5. CASE Revoke
  <2> DEFINE b == bytes
  <2>1. /\ lane = "idle" /\ lane' = "teardown" /\ UNCHANGED <<file, bytes, forwarded>> /\ Readable
    BY <1>5 DEF Revoke, MayWork, kernel, Fresh
  <2>2. mem' = RevokedState(file, bytes)
    BY <1>5, <2>1, CountingIsBytes DEF Revoke, Sound
  <2>3. mem'.checkpoint = file.offset + bytes /\ mem'.taken # 0 /\ mem'.gen = file.gen
    BY <1>0, <1>a, <2>1, <2>2, RevokedStateIs
  <2>4. Value(mem)' = file.offset + bytes
    BY <2>3 DEF Value
  <2>5. file.offset + bytes <= Value(file)
    BY <1>0, <1>a, <1>b, <2>1 DEF Value, Regular, HonestInv, Fits, AgentStates
  <2>6. Value(file)' = Value(file)
    BY <2>1 DEF Value
  <2>7. h = <<Value(file), file.gen>> \/ h = <<file.offset + bytes, file.gen>>
    BY <2>1, <2>3, <2>4, <2>6 DEF Worths, FileWorth, MemWorth, Readable, Writing
  <2>8. <<Value(file), file.gen>> \in Worths /\ Value(file) \in Nat
    BY <1>a, <2>1, ValueIsNat DEF Worths, FileWorth
  <2>. QED
    BY <1>0, <1>a, <2>1, <2>5, <2>7, <2>8 DEF Grows, AgentStates
<1>6. CASE Truncate
  <2>1. /\ lane = "truncate" /\ lane' = "write" /\ ~Readable'
        /\ UNCHANGED <<bytes, forwarded, next, mem>>
    BY <1>6 DEF Truncate, kernel, Readable
  <2>2. h \in MemWorth
    BY <2>1 DEF Worths, FileWorth, MemWorth, Writing, Value
  <2>. QED
    BY <1>0, <2>1, <2>2, SameWorth DEF Worths
<1>7. CASE Write
  <2>1. /\ lane = "write" /\ next \in {"idle", "unrule"} /\ lane' = next /\ file' = mem
        /\ UNCHANGED <<bytes, forwarded, next, mem>>
    BY <1>7 DEF Write, kernel, CleanInv, Writing
  <2>2. h \in MemWorth
    BY <2>1 DEF Worths, FileWorth, MemWorth, Writing, Value
  <2>. QED
    BY <1>0, <2>1, <2>2, SameWorth DEF Worths
<1>8. CASE DeleteRules
  <2>1. /\ lane = "unrule" /\ lane' = "configure" /\ bytes' = 0
        /\ UNCHANGED <<file, forwarded, next, mem>>
    BY <1>8 DEF DeleteRules, Sound
  <2>2. Readable => file.taken = 0
    BY <1>a, <2>1 DEF CleanInv, Regular
  <2>3. mem.taken = 0
    BY <2>1 DEF CleanInv, HonestInv, Regular
  <2>4. Value(mem)' = mem.offset /\ (Readable => Value(file)' = file.offset)
    BY <1>0, <1>a, <2>1, <2>2, <2>3 DEF Value, AgentStates
  <2>5. h \in Worths
    BY <2>1, <2>4 DEF Worths, FileWorth, MemWorth, Readable, Writing
  <2>. QED
    BY <1>0, <2>1, <2>5, SameWorth
<1>9. CASE ConfigureOk
  <2>1. /\ lane = "configure" /\ lane' = "truncate" /\ next' = "idle"
        /\ UNCHANGED <<file, bytes, forwarded>>
    BY <1>9 DEF ConfigureOk, Save
  <2>2. mem' = [mem EXCEPT !.committed = TRUE, !.gen = target]
    BY <1>9 DEF ConfigureOk
  <2>3. mem'.gen = target /\ mem.gen <= target /\ mem'.offset = mem.offset
        /\ mem'.taken = mem.taken /\ mem'.checkpoint = mem.checkpoint
    BY <1>0, <2>1, <2>2, ConfiguredState DEF GenInv
  <2>4. Value(mem)' = Value(mem) /\ Value(file)' = Value(file)
    BY <2>1, <2>3 DEF Value
  <2>5. h \in FileWorth \/ h = <<Value(mem), target>>
    BY <2>1, <2>3, <2>4 DEF Worths, FileWorth, MemWorth, Readable, Writing
  <2>6. CASE h \in FileWorth
    BY <1>0, <2>1, <2>6, SameWorth DEF Worths
  <2>7. CASE h = <<Value(mem), target>>
    <3>1. <<Value(mem), mem.gen>> \in Worths /\ Value(mem) \in Nat
      BY <1>0, <2>1, ValueIsNat DEF Worths, MemWorth
    <3>. QED
      BY <1>0, <2>1, <2>3, <2>7, <3>1 DEF Grows, AgentStates
  <2>. QED
    BY <2>5, <2>6, <2>7
<1>10. CASE ConfigureFails \/ AgentDies \/ (AgentStarts /\ ~ToRehydrate)
  <2>1. /\ lane \notin {"write", "unrule"} /\ lane' \in {"idle", "down"}
        /\ UNCHANGED <<file, bytes, forwarded>>
    BY <1>10 DEF ConfigureFails, AgentDies, AgentStarts, Down, kernel, Sound
  <2>2. h \in FileWorth
    BY <2>1 DEF Worths, FileWorth, MemWorth, Readable, Writing, Value
  <2>. QED
    BY <1>0, <2>1, <2>2, SameWorth DEF Worths
<1>11. CASE Teardown
  <2>1. /\ lane = "teardown" /\ lane' = "truncate" /\ next' = "idle" /\ bytes' = 0
        /\ UNCHANGED <<file, forwarded, mem>>
    <3>1. ~(ignored < MaxIgnored)
      BY DEF Sound, Unnoticed
    <3>. QED
      BY <1>11, <3>1 DEF Teardown, Save
  <2>2. Value(mem)' <= Value(mem) /\ Value(mem) \in Nat /\ Value(mem)' \in Nat
    BY <1>0, <2>1 DEF Value, AgentStates
  <2>3. Readable => Value(file)' <= Value(file) /\ Value(file) \in Nat /\ Value(file)' \in Nat
    BY <1>0, <1>a, <2>1 DEF Value, AgentStates
  <2>4. \/ Readable /\ h = <<Value(file)', file.gen>>
        \/ h = <<Value(mem)', mem.gen>>
    BY <2>1 DEF Worths, FileWorth, MemWorth, Readable, Writing
  <2>5. /\ <<Value(mem), mem.gen>> \in Worths
        /\ Readable => <<Value(file), file.gen>> \in Worths
    BY <2>1 DEF Worths, FileWorth, MemWorth
  <2>. QED
    BY <1>0, <1>a, <2>1, <2>2, <2>3, <2>4, <2>5 DEF Grows, AgentStates
<1>12. CASE Reboot
  <2>1. lane # "write" /\ bytes' = 0 /\ lane' = "down" /\ UNCHANGED <<file, forwarded>>
    BY <1>12 DEF Reboot, Down, Sound
  <2>2. Readable /\ h = <<Value(file)', file.gen>>
    BY <2>1 DEF Worths, FileWorth, MemWorth, Readable, Writing
  <2>3. lane = "unrule" => file.taken = 0
    BY <1>a, <2>2 DEF CleanInv, Regular
  <2>4. LET v == IF lane = "unrule" THEN file.offset ELSE Value(file)
        IN  Value(file)' <= v /\ v \in Nat /\ Value(file)' \in Nat /\ <<v, file.gen>> \in Worths
    BY <1>0, <1>a, <2>1, <2>2, <2>3 DEF Value, AgentStates, Worths, FileWorth
  <2>. QED
    BY <1>0, <1>a, <2>1, <2>2, <2>4 DEF Grows, AgentStates
<1>13. CASE UNCHANGED hostVars \/ RecordArrives \/ Revocation \/ Reactivation
            \/ Prepared \/ Applied \/ Peek \/ Sample
  BY <1>1, <1>13 DEF hostVars, RecordArrives, Revocation, Reactivation, Prepared, Applied, Peek,
                     Sample, control, kernel, agent
<1>. QED
  BY <1>2, <1>3, <1>4, <1>5, <1>6, <1>7, <1>8, <1>9, <1>10, <1>11, <1>12, <1>13
     DEF HostNext, HostStep, LaneStep

\* Samples under way, and recorded: the one under way is the latest of all.
Latest(p) == p \in stored /\ \A q \in stored : SameStream(p, q) => q.at <= p.at
Sent == stored \cup flight
After(n) == n <= clock /\ \A p \in Sent : p.at <= n

SampleRecords == [boot : Nat, gen : Nat, at : Nat, bytes : Nat]

SampleTyped == Sent \subseteq SampleRecords /\ boot \in Nat /\ consumed \in Nat

FreshInv == Fresh => Sent = {}

OrderInv ==
    /\ \A s, t \in flight : s = t
    /\ \A s \in flight, p \in stored : p.boot <= s.boot /\ p.gen <= s.gen /\ p.at <= s.at
    /\ \A p \in Sent : p.boot <= boot /\ p.at <= clock
    /\ \A p \in Sent, w \in Worths : p.gen <= w[2]
    /\ Readable /\ file.taken # 0 => After(file.taken)
    /\ lane \notin {"idle", "down"} /\ mem.taken # 0 => After(mem.taken)
    /\ \A p \in stored : \E q \in stored : SameStream(p, q) /\ Latest(q)

ChargeInv ==
    /\ consumed <= forwarded
    /\ \A w \in Worths, p \in stored :
          Latest(p) /\ p.boot = boot /\ p.gen = w[2] => consumed + w[1] - p.bytes <= forwarded
    /\ \A w \in Worths, s \in flight :
          s.boot = boot /\ s.gen = w[2] => consumed + w[1] - s.bytes <= forwarded
    /\ \A s \in flight, p \in stored :
          Latest(p) /\ SameStream(p, s) => consumed + s.bytes - p.bytes <= forwarded

\* The host is left alone, and the sample sent last is still under way.
Still == RecordArrives /\ UNCHANGED flight

\* What the control plane does besides recording leaves samples and charge alone,
\* and so does a late sample that is not recorded.
LEMMA AccountStep ==
    ASSUME [Next]_vars, InOrder'
    PROVE  InOrder /\ (Record \/ ((HostNext \/ Still) /\ UNCHANGED <<stored, consumed>>))
<1>1. CASE UNCHANGED vars
  BY <1>1 DEF vars, account, hostVars, telemetry, sent, Still, RecordArrives, InOrder
<1>2. CASE Record
  BY <1>2 DEF Record, Insert, InOrder
<1>3. CASE RecordLate
  <2>1. PICK s \in stale : Insert(s) /\ late' = (late \/ IsNew(s)) /\ UNCHANGED flight
    BY <1>3 DEF RecordLate
  <2>2. ~late' /\ ~mixed'
    BY DEF InOrder
  <2>3. ~late /\ ~IsNew(s)
    BY <2>1, <2>2, Zenon
  <2>. QED
    BY <2>1, <2>2, <2>3 DEF Insert, Still, RecordArrives, InOrder
<1>4. CASE HostStep /\ UNCHANGED account
  <2>1. CASE Sample
    BY <1>4, <2>1 DEF Sample, account, InOrder, HostNext, HostStep
  <2>2. CASE ~Sample
    <3>1. mixed' = mixed
      BY <1>4, <2>2 DEF HostStep, LaneStep, Prepare, Prepared, Commit, Applied, Revoke, Truncate, Write,
              DeleteRules, ConfigureOk, ConfigureFails, Teardown, AgentDies, Reboot, AgentStarts,
              Traffic, Peek, telemetry, sent
    <3>. QED
      BY <1>4, <3>1 DEF account, InOrder, HostNext
  <2>. QED
    BY <2>1, <2>2
<1>5. CASE EnforceQuota \/ RevokeByOwner
  BY <1>5 DEF EnforceQuota, RevokeByOwner, Revocation, telemetry, sent, InOrder, HostNext
<1>6. CASE AdjustOnly \/ AdjustAndReactivate
  BY <1>6 DEF AdjustOnly, AdjustAndReactivate, Adjusted, Reactivation, hostVars, telemetry, sent,
              InOrder, HostNext, Still, RecordArrives
<1>. QED
  BY <1>1, <1>2, <1>3, <1>4, <1>5, <1>6 DEF Next

LEMMA QuietStep ==
    ASSUME HostTyped, HostTyped', boot \in Nat, HostNext \/ Still, ~Sample
    PROVE  /\ flight' = flight /\ boot' \in {boot, boot + 1}
           /\ clock' >= clock /\ forwarded' >= forwarded
<1>0. clock \in Nat /\ forwarded \in Nat
  BY DEF HostTyped
<1>1. CASE Still
  BY <1>0, <1>1 DEF Still, RecordArrives
<1>2. CASE Prepare \/ Prepared \/ Commit \/ Applied \/ Revoke
  BY <1>0, <1>2 DEF Prepare, Prepared, Commit, Applied, Revoke, telemetry, sent
<1>3. CASE LaneStep
  <2>1. UNCHANGED <<telemetry, boot, forwarded>>
    BY <1>3 DEF LaneStep, Truncate, Write, DeleteRules, ConfigureOk, ConfigureFails, Teardown
  <2>. QED
    BY <1>0, <2>1 DEF telemetry, sent
<1>4. CASE AgentDies \/ Reboot \/ AgentStarts \/ Traffic \/ Peek
  BY <1>0, <1>4 DEF AgentDies, Reboot, AgentStarts, Traffic, Peek, telemetry, sent
<1>5. CASE Revocation \/ Reactivation
  BY <1>0, <1>5 DEF Revocation, Reactivation, telemetry, sent
<1>. QED
  BY <1>1, <1>2, <1>3, <1>4, <1>5 DEF HostNext, HostStep

LEMMA StateIsReadable == ASSUME NEW m \in AgentStates PROVE m # Unreadable
<1>1. DOMAIN m = {"keys", "committed", "revoked", "gen", "offset", "checkpoint", "taken"}
  BY DEF AgentStates
<1>2. DOMAIN Unreadable = {"readable"}
  BY DEF Unreadable
<1>3. "keys" # "readable"
  OBVIOUS
<1>. QED
  BY <1>1, <1>2, <1>3

\* There is a file from the first one on, or one is being written.
LEMMA FreshStep ==
    ASSUME Sound, HostTyped, HostTyped', CleanInv, HostNext \/ Still, ~Sample
    PROVE  Fresh' => Fresh
<1>1. CASE Still \/ Prepared \/ Applied \/ Traffic \/ Revocation \/ Reactivation \/ Peek
  BY <1>1 DEF Still, RecordArrives, Prepared, Applied, Traffic, Revocation, Reactivation, Peek, agent,
              Readable, Fresh
<1>2. CASE Prepare \/ Commit \/ Revoke
  BY <1>2 DEF Prepare, ToPrepare, Commit, Revoke, MayWork, Save, Readable, Fresh
<1>3. CASE Truncate \/ DeleteRules \/ ConfigureOk \/ ConfigureFails \/ Teardown
  BY <1>3 DEF Truncate, DeleteRules, ConfigureOk, ConfigureFails, Teardown, Save, Readable, Fresh
<1>4. CASE Write
  <2>1. Readable'
    BY <1>4, StateIsReadable DEF Write, HostTyped, Readable
  <2>. QED
    BY <2>1 DEF Fresh
<1>5. CASE AgentDies \/ Reboot
  BY <1>5 DEF AgentDies, Reboot, Down, Sound, Readable, Fresh
<1>6. CASE AgentStarts
  BY <1>6 DEF AgentStarts, Save, Readable, Fresh
<1>. QED
  BY <1>1, <1>2, <1>3, <1>4, <1>5, <1>6 DEF HostNext, HostStep, LaneStep

LEMMA WorthsExist ==
    ASSUME CleanInv, ~Fresh
    PROVE  \E w \in Worths : TRUE
<1>1. CASE Readable
  BY <1>1 DEF Worths, FileWorth
<1>2. CASE ~Readable
  <2>1. lane = "write" /\ next \in {"idle", "unrule"}
    BY <1>2 DEF Fresh, CleanInv, Writing
  <2>. QED
    BY <2>1 DEF Worths, MemWorth, Writing
<1>. QED
  BY <1>1, <1>2

\* What the file or the memory says was checkpointed, it was after all samples.
StillAfter(n) == n <= clock' /\ \A p \in Sent' : p.at <= n

LEMMA StampStep ==
    ASSUME Sound, HostTyped, HostTyped', SampleTyped, OrderInv,
           HostNext \/ Still, ~Sample,
           flight' = flight, stored' = stored, clock' >= clock
    PROVE  /\ Readable' /\ file'.taken # 0 => StillAfter(file'.taken)
           /\ lane' \notin {"idle", "down"} /\ mem'.taken # 0 => StillAfter(mem'.taken)
<1>0. /\ clock \in Nat /\ clock' \in Nat /\ lane \in Lanes /\ mem \in AgentStates
      /\ Sent' = Sent
      /\ \A p \in Sent : p.at \in Nat /\ p.at <= clock
  BY DEF HostTyped, SampleTyped, SampleRecords, OrderInv, Sent
<1>1. ASSUME NEW n \in Nat, After(n) PROVE StillAfter(n)
  BY <1>0, <1>1 DEF After, StillAfter
<1>2. ASSUME UNCHANGED file
      PROVE  Readable' /\ file'.taken # 0 => StillAfter(file'.taken)
  <2>1. Readable => file.taken \in Nat
    BY ReadableIsState DEF AgentStates
  <2>. QED
    BY <1>1, <1>2, <2>1 DEF OrderInv, Readable
<1>3. ASSUME mem' = mem, lane \notin {"idle", "down"} PROVE mem'.taken # 0 => StillAfter(mem'.taken)
  BY <1>0, <1>1, <1>3 DEF OrderInv, AgentStates
<1>4. CASE UNCHANGED <<file, lane, mem>>
  BY <1>2, <1>3, <1>4
<1>5. CASE Prepare
  <2>1. UNCHANGED file /\ mem' = [Derived EXCEPT !.keys = TRUE, !.offset = Resumed, !.gen = ResumedGen]
    BY <1>5 DEF Prepare
  <2>2. mem'.taken = 0
    BY <2>1 DEF Derived
  <2>. QED
    BY <1>2, <2>1, <2>2
<1>6. CASE Commit \/ (AgentStarts /\ ToRehydrate)
  <2>1. UNCHANGED file /\ Readable /\ mem' = CommitState(bytes)
    BY <1>6, CountingIsBytes DEF Commit, AgentStarts, ToRehydrate, Sound
  <2>2. file \in AgentStates /\ bytes \in Nat
    BY <2>1, ReadableIsState DEF HostTyped
  <2>3. mem'.taken = file.taken /\ file.taken \in Nat
    BY <2>1, <2>2, CommittedState DEF AgentStates
  <2>. QED
    BY <1>2, <2>1, <2>3 DEF Readable
<1>7. CASE Revoke
  <2> DEFINE f == IF Readable THEN file ELSE Derived
  <2>1. UNCHANGED file /\ clock' = clock + 1 /\ mem' = RevokedState(f, bytes)
    BY <1>7, CountingIsBytes DEF Revoke, Sound
  <2>2. f \in AgentStates /\ bytes \in Nat
    BY ReadableIsState, DerivedIsState DEF HostTyped
  <2> HIDE DEF f
  <2>3. mem'.taken = clock'
    BY <1>0, <2>1, <2>2, RevokedStateIs
  <2>4. StillAfter(mem'.taken)
    BY <1>0, <2>1, <2>3 DEF StillAfter
  <2>. QED
    BY <1>2, <2>1, <2>4
<1>8. CASE Truncate \/ DeleteRules \/ ConfigureFails \/ Teardown
  <2>1. lane \notin {"idle", "down"} /\ mem' = mem /\ (Readable' => UNCHANGED file)
    BY <1>8 DEF Truncate, DeleteRules, ConfigureFails, Teardown, Readable
  <2>. QED
    BY <1>2, <1>3, <2>1
<1>9. CASE ConfigureOk
  <2>1. UNCHANGED file /\ mem' = [mem EXCEPT !.committed = TRUE, !.gen = target] /\ lane = "configure"
    BY <1>9 DEF ConfigureOk
  <2>2. mem'.taken = mem.taken /\ mem.taken \in Nat
    BY <1>0, <2>1 DEF AgentStates
  <2>. QED
    BY <1>1, <1>2, <2>1, <2>2 DEF OrderInv
<1>10. CASE Write
  <2>1. lane = "write" /\ mem' = mem /\ file' = mem
    BY <1>10 DEF Write
  <2>. QED
    BY <1>3, <2>1
<1>11. CASE AgentDies \/ Reboot \/ (AgentStarts /\ ~ToRehydrate)
  <2>1. UNCHANGED file /\ lane' \in {"idle", "down"}
    BY <1>11 DEF AgentDies, Reboot, Down, AgentStarts
  <2>. QED
    BY <1>2, <2>1
<1>12. CASE Still \/ Prepared \/ Applied \/ Traffic \/ Peek \/ Revocation \/ Reactivation
  BY <1>4, <1>12 DEF Still, RecordArrives, Prepared, Applied, Traffic, Peek, Revocation, Reactivation, agent
<1>. QED
  BY <1>5, <1>6, <1>7, <1>8, <1>9, <1>10, <1>11, <1>12 DEF HostNext, HostStep, LaneStep

MeteringInv == FreshInv /\ OrderInv /\ ChargeInv

HostInvs == HostTyped /\ ignored \in Nat /\ CleanInv /\ HonestInv /\ GenInv

LEMMA QuietKeeps ==
    ASSUME Sound, HostInvs, HostTyped', SampleTyped, MeteringInv,
           HostNext \/ Still, UNCHANGED <<stored, consumed>>, ~Sample
    PROVE  MeteringInv'
<1>0. /\ clock \in Nat /\ clock' \in Nat /\ forwarded \in Nat /\ forwarded' \in Nat
      /\ boot \in Nat /\ consumed \in Nat
      /\ \A p \in Sent : p.boot \in Nat /\ p.gen \in Nat /\ p.at \in Nat /\ p.bytes \in Nat
  BY DEF HostInvs, HostTyped, SampleTyped, SampleRecords
<1>1. /\ flight' = flight /\ Sent' = Sent /\ boot' \in {boot, boot + 1}
      /\ clock' >= clock /\ forwarded' >= forwarded
  BY <1>0, QuietStep DEF HostInvs, Sent
<1>2. Fresh' => Fresh
  BY FreshStep DEF HostInvs
<1>3. FreshInv'
  BY <1>1, <1>2 DEF FreshInv, MeteringInv
<1>4. ASSUME NEW h \in Worths', NEW p \in Sent
      PROVE  \E w \in Worths : /\ w \in Nat \X Nat /\ h \in Nat \X Nat
                               /\ p.gen <= w[2] /\ w[2] <= h[2]
                               /\ w[2] = h[2] => h[1] - w[1] <= forwarded' - forwarded
  <2>1. ~Fresh
    BY DEF FreshInv, MeteringInv
  <2>2. Grows(h)
    BY <2>1, WorthStep DEF HostInvs, Still
  <2>3. PICK w \in Worths : w[2] <= h[2] /\ (w[2] = h[2] => h[1] - w[1] <= forwarded' - forwarded)
    BY <2>2 DEF Grows
  <2>4. w \in Nat \X Nat
    BY WorthsTyped DEF HostInvs
  <2>5. h \in Nat \X Nat
    BY WorthsTypedNext
  <2>. QED
    BY <2>3, <2>4, <2>5 DEF OrderInv, MeteringInv
<1>5. OrderInv'
  <2>1. /\ Readable' /\ file'.taken # 0 => StillAfter(file'.taken)
        /\ lane' \notin {"idle", "down"} /\ mem'.taken # 0 => StillAfter(mem'.taken)
    BY <1>1, StampStep DEF HostInvs, MeteringInv
  <2>2. /\ (Readable /\ file.taken # 0 => After(file.taken))'
        /\ (lane \notin {"idle", "down"} /\ mem.taken # 0 => After(mem.taken))'
    BY <2>1 DEF After, StillAfter
  <2>3. \A p \in Sent' : p.boot <= boot' /\ p.at <= clock'
    BY <1>0, <1>1 DEF OrderInv, MeteringInv
  <2>4. \A p \in Sent', h \in Worths' : p.gen <= h[2]
    BY <1>0, <1>1, <1>4
  <2>5. /\ \A s, t \in flight' : s = t
        /\ \A s \in flight', p \in stored' : p.boot <= s.boot /\ p.gen <= s.gen /\ p.at <= s.at
        /\ \A p \in stored' : \E q \in stored' : SameStream(p, q) /\ Latest(q)'
    BY <1>1 DEF OrderInv, MeteringInv, Latest
  <2>. QED
    BY <2>2, <2>3, <2>4, <2>5 DEF OrderInv, SameStream
<1>6. ASSUME NEW h \in Worths', NEW p \in Sent, p.boot = boot', p.gen = h[2],
             \A w \in Worths : p.boot = boot /\ p.gen = w[2] => consumed + w[1] - p.bytes <= forwarded
      PROVE  consumed' + h[1] - p.bytes <= forwarded'
  <2>1. p.boot = boot
    BY <1>0, <1>1, <1>6 DEF OrderInv, MeteringInv
  <2>2. PICK w \in Worths : /\ w \in Nat \X Nat /\ h \in Nat \X Nat
                            /\ p.gen <= w[2] /\ w[2] <= h[2]
                            /\ w[2] = h[2] => h[1] - w[1] <= forwarded' - forwarded
    BY <1>4
  <2>3. w[2] = h[2]
    BY <1>6, <2>2
  <2>. QED
    BY <1>0, <1>6, <2>1, <2>2, <2>3
<1>7. ChargeInv'
  <2>1. consumed' <= forwarded'
    BY <1>0, <1>1 DEF ChargeInv, MeteringInv
  <2>2. \A h \in Worths', p \in stored' :
          Latest(p)' /\ p.boot = boot' /\ p.gen = h[2] => consumed' + h[1] - p.bytes <= forwarded'
    BY <1>6 DEF ChargeInv, MeteringInv, Latest, Sent
  <2>3. \A h \in Worths', s \in flight' :
          s.boot = boot' /\ s.gen = h[2] => consumed' + h[1] - s.bytes <= forwarded'
    BY <1>1, <1>6 DEF ChargeInv, MeteringInv, Sent
  <2>4. \A s \in flight', p \in stored' :
          Latest(p)' /\ SameStream(p, s) => consumed' + s.bytes - p.bytes <= forwarded'
    BY <1>0, <1>1 DEF ChargeInv, MeteringInv, Latest, Sent
  <2>. QED
    BY <2>1, <2>2, <2>3, <2>4 DEF ChargeInv, SameStream
<1>. QED
  BY <1>3, <1>5, <1>7 DEF MeteringInv

\* Telemetry sends what the file and the rules are worth.
LEMMA SampleIs ==
    ASSUME Sound, HostInvs, SampleTyped, MeteringInv, Sample, InOrder'
    PROVE  /\ lane = "idle" /\ Readable /\ file \in AgentStates
           /\ clock' \in Nat /\ clock' >= clock
           /\ \E s \in SampleRecords :
                 /\ flight' = {s} /\ s.boot = boot /\ s.gen = file.gen /\ s.bytes = Value(file)
                 /\ s.at <= clock'
                 /\ \A p \in Sent : p.at <= s.at
                 /\ file.taken # 0 => s.at = file.taken
<1>0. /\ clock \in Nat /\ boot \in Nat /\ bytes \in Nat
      /\ \A p \in Sent : p \in SampleRecords
  BY DEF HostInvs, HostTyped, SampleTyped
<1>1. peek = file /\ lane = "idle" /\ Readable /\ file \in AgentStates
  <2>1. ~(mixed \/ lane # "idle" \/ peek # file)
    BY Zenon DEF Sample, InOrder
  <2>2. peek # Unreadable
    BY DEF Sample
  <2>. QED
    BY <2>1, <2>2, ReadableIsState DEF Readable, HostInvs
<1>2. PICK s \in Readings(file) : flight' = {s}
  BY <1>1 DEF Sample
<1>3. /\ s \in SampleRecords /\ s.boot = boot /\ s.gen = file.gen /\ s.bytes = Value(file)
      /\ clock' \in Nat /\ clock' >= clock /\ s.at <= clock'
      /\ \A p \in Sent : p.at <= s.at
      /\ file.taken # 0 => s.at = file.taken
  <2>1. CASE file.taken # 0
    <3>1. s = [boot |-> boot, gen |-> file.gen, at |-> file.taken, bytes |-> file.checkpoint]
      BY <1>2, <2>1 DEF Readings
    <3>2. After(file.taken) /\ clock' = clock
      BY <1>1, <2>1 DEF OrderInv, MeteringInv, Sample
    <3>. QED
      BY <1>0, <1>1, <2>1, <3>1, <3>2 DEF After, Value, AgentStates, SampleRecords
  <2>2. CASE file.taken = 0
    <3>1. s = [boot |-> boot, gen |-> file.gen, at |-> clock + 1, bytes |-> file.offset + bytes]
      BY <1>2, <2>2, CountingIsBytes DEF Readings, Sound
    <3>2. clock' = clock + 1 /\ \A p \in Sent : p.at \in Nat /\ p.at <= clock
      BY <1>0, <1>1, <2>2 DEF OrderInv, MeteringInv, Sample, SampleRecords
    <3>. QED
      BY <1>0, <1>1, <2>2, <3>1, <3>2 DEF Value, AgentStates, SampleRecords
  <2>. QED
    BY <1>1, <2>1, <2>2 DEF AgentStates
<1>. QED
  BY <1>1, <1>2, <1>3

LEMMA SampleKeeps ==
    ASSUME Sound, HostInvs, SampleTyped, MeteringInv, Sample, InOrder', UNCHANGED <<stored, consumed>>
    PROVE  MeteringInv' /\ SampleTyped'
<1>0. /\ clock \in Nat /\ forwarded \in Nat /\ boot \in Nat /\ consumed \in Nat /\ bytes \in Nat
      /\ \A p \in Sent : p \in SampleRecords
      /\ \A p \in stored : p.boot \in Nat /\ p.gen \in Nat /\ p.at \in Nat /\ p.bytes \in Nat
  BY DEF HostInvs, HostTyped, SampleTyped, SampleRecords, Sent
<1>1. lane = "idle" /\ Readable /\ file \in AgentStates
  BY SampleIs
<1>2. Value(file) \in Nat
  BY <1>1, ValueIsNat DEF HostInvs
<1>3. UNCHANGED <<file, bytes, lane, next, mem, boot, forwarded>> /\ peek' = Unreadable
  BY DEF Sample, agent, kernel
<1>4. Worths = {<<Value(file), file.gen>>}
  BY <1>1 DEF Worths, FileWorth, MemWorth, Writing
<1>5. Worths' = Worths
  BY <1>3 DEF Worths, FileWorth, MemWorth, Value, Writing, Readable
<1>6. clock' \in Nat /\ clock' >= clock
  BY SampleIs
<1>7. PICK s \in SampleRecords :
         /\ flight' = {s} /\ s.boot = boot /\ s.gen = file.gen /\ s.bytes = Value(file)
         /\ s.at <= clock'
         /\ \A p \in Sent : p.at <= s.at
         /\ file.taken # 0 => s.at = file.taken
  BY SampleIs
<1>8. Sent' = stored \cup {s} /\ stored \subseteq Sent
  BY <1>7 DEF Sent
<1>9. SampleTyped'
  BY <1>0, <1>3, <1>6, <1>7, <1>8 DEF SampleTyped
<1>10. FreshInv'
  BY <1>1, <1>3 DEF FreshInv, Fresh, Readable
<1>11. OrderInv'
  <2>1. \A p \in stored : p.boot <= s.boot /\ p.gen <= s.gen /\ p.at <= s.at
    BY <1>0, <1>4, <1>7, <1>8 DEF OrderInv, MeteringInv
  <2>2. \A p \in Sent' : p.boot <= boot' /\ p.at <= clock'
    BY <1>0, <1>3, <1>6, <1>7, <1>8, <2>1 DEF SampleRecords
  <2>3. \A p \in Sent', w \in Worths' : p.gen <= w[2]
    <3>1. file.gen \in Nat
      BY <1>1 DEF AgentStates
    <3>. QED
      BY <1>4, <1>5, <1>7, <1>8, <2>1, <3>1
  <2>4. file.taken # 0 => file.taken <= clock' /\ \A p \in Sent' : p.at <= file.taken
    BY <1>0, <1>1, <1>6, <1>7, <1>8 DEF AgentStates
  <2>5. (Readable /\ file.taken # 0 => After(file.taken))'
    BY <1>3, <2>4 DEF After
  <2>6. \A p \in stored' : \E q \in stored' : SameStream(p, q) /\ Latest(q)'
    BY DEF OrderInv, MeteringInv, Latest
  <2>7. /\ \A t, u \in flight' : t = u
        /\ \A t \in flight', p \in stored' : p.boot <= t.boot /\ p.gen <= t.gen /\ p.at <= t.at
    BY <1>7, <2>1
  <2>. QED
    BY <1>1, <1>3, <2>2, <2>3, <2>5, <2>6, <2>7 DEF OrderInv, SameStream
<1>12. ChargeInv'
  <2>1. \A w \in Worths', p \in stored' :
          Latest(p)' /\ p.boot = boot' /\ p.gen = w[2] => consumed' + w[1] - p.bytes <= forwarded'
    BY <1>3, <1>5 DEF ChargeInv, MeteringInv, Latest
  <2>2. \A w \in Worths', t \in flight' :
          t.boot = boot' /\ t.gen = w[2] => consumed' + w[1] - t.bytes <= forwarded'
    BY <1>0, <1>2, <1>3, <1>4, <1>5, <1>6, <1>7 DEF ChargeInv, MeteringInv
  <2>3. \A t \in flight', p \in stored' :
          Latest(p)' /\ SameStream(p, t) => consumed' + t.bytes - p.bytes <= forwarded'
    BY <1>3, <1>4, <1>6, <1>7 DEF ChargeInv, MeteringInv, Latest, SameStream
  <2>. QED
    BY <1>3, <2>1, <2>2, <2>3 DEF ChargeInv, MeteringInv, SameStream
<1>. QED
  BY <1>9, <1>10, <1>11, <1>12 DEF MeteringInv

LEMMA MaxOfTwo ==
    ASSUME NEW a \in Int, NEW b \in Int
    PROVE  Max({a, b}) \in {a, b} /\ Max({a, b}) >= a /\ Max({a, b}) >= b
<1>1. \E x \in {a, b} : \A y \in {a, b} : x >= y
  OBVIOUS
<1>. QED
  BY <1>1 DEF Max

\* The difference from the sample before, which is the latest of its stream.
LEMMA DeltaIs ==
    ASSUME SampleTyped, OrderInv, NEW s \in flight, IsNew(s)
    PROVE  \/ Delta(s) = 0
           \/ \E p \in stored : Latest(p) /\ SameStream(p, s) /\ Delta(s) = s.bytes - p.bytes
                                /\ Delta(s) >= 0
<1>0. /\ s.bytes \in Int /\ s.at \in Int
      /\ \A p \in stored : p.bytes \in Int /\ p.at \in Int
  BY DEF SampleTyped, SampleRecords, Sent
<1>1. Earlier(s) = {p \in stored : SameStream(p, s)}
  <2>1. \A p \in stored : SameStream(p, s) => p.at < s.at
    BY <1>0 DEF IsNew, OrderInv, SameStream
  <2>. QED
    BY <2>1 DEF Earlier, SameStream
<1>2. CASE Earlier(s) = {}
  BY <1>2 DEF Delta
<1>3. CASE Earlier(s) # {}
  <2>1. \E p \in Earlier(s) : \A q \in Earlier(s) : q.at <= p.at
    BY <1>1, <1>3 DEF OrderInv, Latest, SameStream
  <2>2. Previous(s) \in Earlier(s) /\ \A q \in Earlier(s) : q.at <= Previous(s).at
    BY <2>1 DEF Previous
  <2>3. Previous(s) \in stored /\ SameStream(Previous(s), s) /\ Latest(Previous(s))
    BY <1>1, <2>2 DEF Latest, SameStream
  <2>4. Delta(s) = Max({s.bytes - Previous(s).bytes, 0})
    BY <1>3 DEF Delta
  <2>5. s.bytes - Previous(s).bytes \in Int
    BY <1>0, <2>3
  <2>6. Delta(s) \in {s.bytes - Previous(s).bytes, 0} /\ Delta(s) >= 0
    <3> DEFINE a == s.bytes - Previous(s).bytes
    <3> HIDE DEF a
    <3>1. a \in Int /\ Delta(s) = Max({a, 0})
      BY <2>4, <2>5 DEF a
    <3>2. Max({a, 0}) \in {a, 0} /\ Max({a, 0}) >= 0
      <4>1. a \in Int /\ 0 \in Int
        BY <3>1
      <4>. QED
        BY ONLY <4>1, MaxOfTwo
    <3>. QED
      BY <3>1, <3>2 DEF a
  <2>. QED
    BY <2>3, <2>6
<1>. QED
  BY <1>2, <1>3

\* Recording a sample charges no more than its worth went up.
LEMMA RecordKeeps ==
    ASSUME HostInvs, SampleTyped, MeteringInv, Record
    PROVE  MeteringInv' /\ SampleTyped'
<1>0. /\ forwarded \in Nat /\ boot \in Nat /\ consumed \in Nat
      /\ \A p \in Sent : p.boot \in Nat /\ p.gen \in Nat /\ p.at \in Nat /\ p.bytes \in Nat
      /\ \A w \in Worths : w \in Nat \X Nat
  BY WorthsTyped DEF HostInvs, HostTyped, SampleTyped, SampleRecords
<1>1. UNCHANGED <<file, bytes, lane, next, mem, boot, clock, forwarded, peek>>
  BY DEF Record, Insert, agent, kernel
<1>2. Worths' = Worths
  BY <1>1 DEF Worths, FileWorth, MemWorth, Value, Writing, Readable
<1>3. PICK s \in flight : /\ flight' = flight \ {s}
                          /\ IF IsNew(s)
                             THEN stored' = stored \cup {s} /\ consumed' = consumed + Delta(s)
                             ELSE UNCHANGED <<stored, consumed>>
  BY DEF Record, Insert
<1>4. flight' = {} /\ Sent' \subseteq Sent /\ s \in Sent
  BY <1>3 DEF OrderInv, MeteringInv, Sent
<1>5. FreshInv'
  BY <1>1, <1>4 DEF FreshInv, MeteringInv, Fresh, Readable
<1>6. \A p \in stored' : \E q \in stored' : SameStream(p, q) /\ Latest(q)'
  <2>1. CASE IsNew(s)
    <3>1. stored' = stored \cup {s}
      BY <1>3, <2>1
    <3>2. Latest(s)'
      BY <1>0, <1>4, <3>1 DEF Latest, OrderInv, MeteringInv, Sent
    <3>3. ASSUME NEW p \in stored', ~SameStream(p, s)
          PROVE  \E q \in stored' : SameStream(p, q) /\ Latest(q)'
      <4>1. PICK q \in stored : SameStream(p, q) /\ Latest(q)
        BY <3>1, <3>3 DEF OrderInv, MeteringInv, SameStream
      <4>2. Latest(q)'
        BY <3>1, <3>3, <4>1 DEF Latest, SameStream
      <4>. QED
        BY <3>1, <4>1, <4>2
    <3>. QED
      BY <3>1, <3>2, <3>3
  <2>2. CASE ~IsNew(s)
    <3>1. stored' = stored
      BY <1>3, <2>2
    <3>. QED
      BY <3>1 DEF OrderInv, MeteringInv, Latest
  <2>. QED
    BY <2>1, <2>2
<1>7. OrderInv'
  <2>1. /\ \A p \in Sent' : p.boot <= boot' /\ p.at <= clock'
        /\ \A p \in Sent', w \in Worths' : p.gen <= w[2]
    BY <1>1, <1>2, <1>4 DEF OrderInv, MeteringInv
  <2>2. /\ (Readable /\ file.taken # 0 => After(file.taken))'
        /\ (lane \notin {"idle", "down"} /\ mem.taken # 0 => After(mem.taken))'
    BY <1>1, <1>4 DEF OrderInv, MeteringInv, After, Readable
  <2>. QED
    BY <1>4, <1>6, <2>1, <2>2 DEF OrderInv, SameStream
<1>8. CASE ~IsNew(s)
  <2>1. stored' = stored /\ consumed' = consumed
    BY <1>3, <1>8
  <2>. QED
    BY <1>0, <1>1, <1>2, <1>4, <1>5, <1>7, <2>1 DEF ChargeInv, MeteringInv, Latest, SampleTyped
<1>9. CASE IsNew(s)
  <2>1. stored' = stored \cup {s} /\ consumed' = consumed + Delta(s)
    BY <1>3, <1>9
  <2>2. \/ Delta(s) = 0
        \/ \E p \in stored : Latest(p) /\ SameStream(p, s) /\ Delta(s) = s.bytes - p.bytes
                             /\ Delta(s) >= 0
    BY <1>9, DeltaIs DEF MeteringInv
  <2>3. Delta(s) \in Nat /\ consumed + Delta(s) <= forwarded
    BY <1>0, <1>4, <2>2 DEF ChargeInv, MeteringInv, Sent
  <2>4. ASSUME NEW w \in Worths, s.boot = boot, s.gen = w[2]
        PROVE  consumed + Delta(s) + w[1] - s.bytes <= forwarded
    <3>1. w[1] \in Nat
      BY <1>0
    <3>2. CASE Delta(s) = 0
      BY <1>0, <1>4, <2>4, <3>1, <3>2 DEF ChargeInv, MeteringInv
    <3>3. CASE Delta(s) # 0
      <4>1. PICK p \in stored : Latest(p) /\ SameStream(p, s) /\ Delta(s) = s.bytes - p.bytes
        BY <2>2, <3>3
      <4>2. consumed + w[1] - p.bytes <= forwarded
        BY <2>4, <4>1 DEF ChargeInv, MeteringInv, SameStream
      <4>. QED
        BY <1>0, <1>4, <3>1, <4>1, <4>2 DEF Sent
    <3>. QED
      BY <3>2, <3>3
  <2>5. ASSUME NEW w \in Worths, NEW p \in stored', Latest(p)', p.boot = boot, p.gen = w[2]
        PROVE  p = s /\ s.boot = boot /\ s.gen = w[2]
    <3>1. SUFFICES ASSUME p \in stored PROVE FALSE
      BY <2>1, <2>5
    <3>2. p.boot <= s.boot /\ p.gen <= s.gen /\ p.at <= s.at /\ s.boot <= boot /\ s.gen <= w[2]
      BY <1>4, <3>1 DEF OrderInv, MeteringInv
    <3>3. SameStream(p, s)
      BY <1>0, <1>4, <2>5, <3>1, <3>2 DEF SameStream, Sent
    <3>4. s.at <= p.at
      BY <2>1, <2>5, <3>3 DEF Latest, SameStream
    <3>5. p.at = s.at
      BY <1>0, <1>4, <3>1, <3>2, <3>4 DEF Sent
    <3>. QED
      BY <1>9, <3>1, <3>3, <3>5 DEF IsNew, SameStream
  <2>6. \A w \in Worths', p \in stored' :
          Latest(p)' /\ p.boot = boot' /\ p.gen = w[2] => consumed' + w[1] - p.bytes <= forwarded'
    <3>1. SUFFICES ASSUME NEW w \in Worths, NEW p \in stored', Latest(p)', p.boot = boot, p.gen = w[2]
                   PROVE  consumed + Delta(s) + w[1] - p.bytes <= forwarded
      BY <1>1, <1>2, <2>1
    <3>. QED
      BY <2>4, <2>5, <3>1
  <2>7. ChargeInv'
    BY <1>1, <1>4, <2>1, <2>3, <2>6 DEF ChargeInv
  <2>8. SampleTyped'
    BY <1>0, <1>1, <1>4, <2>1, <2>3 DEF SampleTyped
  <2>. QED
    BY <1>5, <1>7, <2>7, <2>8 DEF MeteringInv
<1>. QED
  BY <1>8, <1>9

MeteredInv == GenInv /\ (InOrder => SampleTyped /\ MeteringInv)

LEMMA MeteringInductive == ASSUME Sound PROVE Spec => []MeteredInv
<1>1. Init => MeteredInv
  <2>1. SUFFICES ASSUME Init PROVE MeteredInv
    OBVIOUS
  <2>2. ~Readable /\ lane = "idle" /\ Sent = {} /\ stored = {} /\ flight = {}
        /\ boot = 1 /\ consumed = 0 /\ forwarded = 0
    BY <2>1 DEF Init, HostInit, Readable, Sent
  <2>. QED
    BY <2>2 DEF MeteredInv, GenInv, SampleTyped, MeteringInv, FreshInv, OrderInv, ChargeInv, Worths,
                FileWorth, MemWorth, Writing, Fresh
<1>2. ASSUME HostTyped, HostTyped', ignored \in Nat, CleanInv, HonestInv, MeteredInv, [Next]_vars
      PROVE  MeteredInv'
  <2>1. HostInvs
    BY <1>2 DEF HostInvs, MeteredInv
  <2>2. GenInv'
    BY <1>2, MeteringStep, GenStep DEF MeteredInv
  <2>3. SUFFICES ASSUME InOrder' PROVE SampleTyped' /\ MeteringInv'
    BY <2>2 DEF MeteredInv
  <2>4. SampleTyped /\ MeteringInv
        /\ (Record \/ ((HostNext \/ Still) /\ UNCHANGED <<stored, consumed>>))
    BY <1>2, <2>3, AccountStep DEF MeteredInv
  <2>5. CASE Record
    BY <2>1, <2>4, <2>5, RecordKeeps
  <2>6. CASE (HostNext \/ Still) /\ UNCHANGED <<stored, consumed>> /\ Sample
    BY <1>2, <2>1, <2>3, <2>4, <2>6, SampleKeeps
  <2>7. CASE (HostNext \/ Still) /\ UNCHANGED <<stored, consumed>> /\ ~Sample
    <3>1. boot \in Nat
      BY <2>4 DEF SampleTyped
    <3>2. flight' = flight /\ boot' \in {boot, boot + 1}
      BY <1>2, <2>7, <3>1, QuietStep
    <3>3. SampleTyped'
      BY <2>4, <2>7, <3>1, <3>2 DEF SampleTyped, Sent
    <3>. QED
      BY <1>2, <2>1, <2>4, <2>7, <3>3, QuietKeeps
  <2>. QED
    BY <2>4, <2>5, <2>6, <2>7
<1>3. Spec => []CleanInv
  BY CleanInductive DEF Sound
<1>4. Spec => []HonestInv
  BY HonestInductive
<1>. QED
  BY <1>1, <1>2, <1>3, <1>4, HostTypes, PTL DEF Spec

\* For as long as no sample was taken across the control lane's work and none was
\* recorded behind its successor, what is charged was forwarded: neither a repair
\* that resets the counter, nor a reboot, a revocation, a reactivation, a lost sample
\* or a checkpoint that is sent again makes recordGateAssignmentCounter charge
\* payload twice; for any number of them, and with telemetry and the control lane
\* running side by side.
THEOREM MeteringNeverOvercharged == ASSUME Sound PROVE Spec => []NeverOvercharged
<1>1. MeteredInv => NeverOvercharged
  BY DEF MeteredInv, MeteringInv, ChargeInv, NeverOvercharged
<1>. QED
  BY <1>1, MeteringInductive, PTL
------------------------------------------------------------------------------
(***************************************************************************)
(* ChargedWithinRecorded.  Within a boot and a generation the counter goes *)
(* up and, once the assignment is revoked, may go down to the offset; it   *)
(* does not go up again, as the next commit is for a later generation      *)
(* (PlanInv).  So whenever a sample exceeds the one before it, that one    *)
(* was the highest (RiseInv), and what is charged lies above all units     *)
(* charged before.                                                         *)
(***************************************************************************)
\* The state the next sample will be taken from, and what it will say.
Meter == IF lane \in {"idle", "down"} THEN file ELSE mem

Metered ==
    IF lane = "unrule" \/ (Writing /\ next = "unrule") THEN mem.offset ELSE Value(Meter)

Live(f) == f.committed /\ ~f.revoked
Pending(f) == ~f.committed /\ ~f.revoked

\* What is prepared awaits a commit for a generation later than the one it resumed.
PlanInv ==
    /\ gen >= 1
    /\ Readable /\ Pending(file) => file.gen < gen
    /\ Readable /\ file.revoked /\ wanted = "Applied" => file.gen < gen
    /\ Writing /\ next = "idle" /\ Pending(mem) => mem.gen < gen
    /\ lane \in {"unrule", "configure"} \/ (Writing /\ next = "unrule") =>
          (Pending(mem) => mem.gen < target)
    /\ lane \in {"unrule", "configure"} => file = mem
    /\ lane = "teardown" => mem.revoked
    /\ deaths = 0 /\ (Fresh \/ Pending(Meter)) => ~rules

LEMMA DeathsStep ==
    ASSUME deaths \in Nat, HostNext \/ UNCHANGED hostVars \/ RecordArrives
    PROVE  deaths' \in Nat /\ (deaths' = 0 => deaths = 0 /\ ~AgentDies)
<1>1. CASE UNCHANGED hostVars \/ RecordArrives
  <2>1. deaths' = deaths
    BY <1>1 DEF hostVars, RecordArrives
  <2>2. ~AgentDies
    BY <2>1 DEF AgentDies
  <2>. QED
    BY <2>1, <2>2
<1>2. CASE AgentDies
  BY <1>2 DEF AgentDies
<1>3. CASE HostNext /\ ~AgentDies
  <2>1. deaths' = deaths
    BY <1>3 DEF HostNext, HostStep, LaneStep, Revocation, Reactivation, Prepare, Prepared, Commit,
                Applied, Revoke, Truncate, Write, DeleteRules, ConfigureOk, ConfigureFails, Teardown,
                Reboot, AgentStarts, Traffic, Peek, Sample
  <2>. QED
    BY <1>3, <2>1
<1>. QED
  BY <1>1, <1>2, <1>3

LEMMA PlanStep ==
    ASSUME Sound, HostInvs, HostTyped', deaths \in Nat, PlanInv,
           HostNext \/ UNCHANGED hostVars \/ RecordArrives
    PROVE  PlanInv'
<1>0. /\ gen \in Nat /\ target \in Nat /\ lane \in Lanes /\ mem \in AgentStates
      /\ bytes \in Nat /\ clock \in Nat /\ wanted \in {"Applied", "Revoked"}
      /\ Readable => file \in AgentStates /\ file.gen \in Nat /\ Regular(file)
      /\ mem.gen \in Nat
      /\ Readable /\ file.revoked => ~rules
      /\ deaths' = 0 => deaths = 0 /\ ~AgentDies
  BY DeathsStep, ReadableIsState DEF HostInvs, HostTyped, HonestInv, CleanInv, RevokedIsClean, AgentStates
<1> USE DEF PlanInv, Pending
<1>1. CASE UNCHANGED <<control, file, rules, lane, next, mem, target>>
  BY <1>0, <1>1 DEF control, Writing, Readable, Fresh, Meter
<1>2. CASE Revocation \/ Reactivation
  <2>1. /\ UNCHANGED <<file, rules, lane, next, mem, target>>
        /\ (wanted' = "Revoked" /\ gen' = gen) \/ gen' = gen + 1
    BY <1>2 DEF Revocation, Reactivation, kernel, agent
  <2>2. Readable => file.gen <= gen
    BY DEF HostInvs, GenInv
  <2>. QED
    BY <1>0, <2>1, <2>2 DEF Writing, Readable, Fresh, Meter
<1>3. CASE Prepare
  <2>1. /\ lane = "idle" /\ lane' = "truncate" /\ next' = "idle" /\ ~CanReuse /\ wanted = "Applied"
        /\ UNCHANGED <<control, file, rules>>
    BY <1>3 DEF Prepare, ToPrepare, MayWork, Save, kernel
  <2>2. mem'.gen = ResumedGen
    BY <1>3 DEF Prepare, Derived
  <2>3. Readable => file.revoked
    BY <1>0, <2>1 DEF CanReuse, Reusable, Regular
  <2>4. ResumedGen < gen
    BY <1>0, <2>1, <2>3 DEF ResumedGen
  <2>5. deaths = 0 => ~rules
    BY <1>0, <2>1, <2>3 DEF Fresh
  <2>. QED
    BY <1>0, <2>1, <2>2, <2>4, <2>5 DEF control, Writing, Readable, Fresh, Meter
<1>4. CASE Commit
  <2>1. /\ lane = "idle" /\ lane' = "truncate" /\ next' = "unrule" /\ Readable /\ target' = gen
        /\ mem' = CommitState(bytes) /\ UNCHANGED <<control, file, rules>>
    BY <1>4, CountingIsBytes DEF Commit, MayWork, Save, kernel, Sound
  <2>2. mem'.gen = file.gen /\ mem'.revoked = file.revoked
    BY <1>0, <2>1, CommittedState
  <2>3. mem'.committed = file.committed
    BY <1>0, <2>1 DEF CommitState, AgentStates
  <2>. QED
    BY <1>0, <2>1, <2>2, <2>3 DEF control, Writing, Readable, Fresh, Meter
<1>5. CASE AgentStarts
  <2>1. lane = "down" /\ UNCHANGED <<control, file, rules>>
    BY <1>5 DEF AgentStarts, kernel
  <2>2. CASE ToRehydrate
    <3>1. /\ lane' = "truncate" /\ next' = "unrule" /\ Readable /\ mem' = CommitState(bytes)
          /\ file.committed
      BY <1>5, <2>2, CountingIsBytes DEF AgentStarts, ToRehydrate, Save, Sound
    <3>2. mem'.committed = file.committed
      BY <1>0, <3>1 DEF CommitState, AgentStates
    <3>. QED
      BY <1>0, <2>1, <3>1, <3>2 DEF control, Writing, Readable, Fresh, Meter
  <2>3. CASE ~ToRehydrate
    <3>1. lane' = "idle"
      BY <1>5, <2>3 DEF AgentStarts
    <3>. QED
      BY <1>0, <2>1, <3>1 DEF control, Writing, Readable, Fresh, Meter
  <2>. QED
    BY <2>2, <2>3
<1>6. CASE Revoke
  <2> DEFINE f == IF Readable THEN file ELSE Derived
  <2>1. /\ lane = "idle" /\ lane' = "teardown" /\ mem' = RevokedState(f, bytes)
        /\ UNCHANGED <<control, file, rules>>
    BY <1>6, CountingIsBytes DEF Revoke, MayWork, kernel, Sound
  <2>2. f \in AgentStates
    BY ReadableIsState, DerivedIsState DEF HostInvs
  <2> HIDE DEF f
  <2>3. mem'.revoked
    BY <1>0, <2>1, <2>2, RevokedStateIs
  <2>. QED
    BY <1>0, <2>1, <2>3 DEF control, Writing, Readable, Fresh, Meter
<1>7. CASE Truncate
  <2>1. /\ lane = "truncate" /\ lane' = "write" /\ ~Readable'
        /\ UNCHANGED <<control, rules, next, mem, target>>
    BY <1>7 DEF Truncate, kernel, Readable
  <2>. QED
    BY <1>0, <2>1 DEF control, Writing, Fresh, Meter
<1>8. CASE Write
  <2>1. /\ lane = "write" /\ lane' = next /\ next \in {"idle", "unrule"} /\ file' = mem
        /\ UNCHANGED <<control, rules, next, mem, target>>
    BY <1>8 DEF Write, kernel, HostInvs, CleanInv, Writing
  <2>2. Readable'
    BY <1>0, <2>1, StateIsReadable DEF Readable
  <2>3. mem.revoked => wanted = "Revoked"
    BY <2>1 DEF HostInvs, CleanInv, Writing
  <2>4. next = "unrule" => (Pending(mem) => mem.gen < target)
    BY <2>1 DEF Writing
  <2>5. /\ next = "unrule" => mem.gen <= target /\ target <= gen
        /\ next = "idle" => (Pending(mem) => mem.gen < gen)
    BY <2>1 DEF HostInvs, GenInv, Writing
  <2>. QED
    BY <1>0, <2>1, <2>2, <2>3, <2>4, <2>5 DEF control, Writing, Fresh, Meter
<1>9. CASE DeleteRules
  <2>1. /\ lane = "unrule" /\ lane' = "configure" /\ rules' = FALSE
        /\ UNCHANGED <<control, file, next, mem, target>>
    BY <1>9, Zenon DEF DeleteRules, Sound
  <2>. QED
    BY <1>0, <2>1 DEF control, Writing, Readable, Fresh, Meter
<1>10. CASE ConfigureOk
  <2>1. /\ lane = "configure" /\ lane' = "truncate" /\ next' = "idle"
        /\ UNCHANGED <<control, file, target>>
        /\ mem' = [mem EXCEPT !.committed = TRUE, !.gen = target]
    BY <1>10 DEF ConfigureOk, Save
  <2>2. mem'.committed
    BY <1>0, <2>1 DEF AgentStates
  <2>3. Readable
    BY <1>0, <2>1, StateIsReadable DEF Readable
  <2>. QED
    BY <1>0, <2>1, <2>2, <2>3 DEF control, Writing, Readable, Fresh, Meter
<1>11. CASE ConfigureFails
  <2>1. lane = "configure" /\ lane' = "idle" /\ UNCHANGED <<control, file, rules, next, mem, target>>
    BY <1>11 DEF ConfigureFails
  <2>. QED
    BY <1>0, <2>1 DEF control, Writing, Readable, Fresh, Meter
<1>12. CASE Teardown
  <2>1. ~rules'
    BY <1>12, TeardownIsClean DEF Sound, HostInvs
  <2>2. /\ lane = "teardown" /\ lane' = "truncate" /\ next' = "idle"
        /\ UNCHANGED <<control, file, mem, target>>
    BY <1>12 DEF Teardown, Save
  <2>3. mem.revoked
    BY <2>2
  <2>. QED
    BY <1>0, <2>1, <2>2, <2>3 DEF control, Writing, Readable, Fresh, Meter
<1>13. CASE AgentDies \/ Reboot
  <2>1. lane' = "down" /\ UNCHANGED <<control, file>> /\ (AgentDies \/ ~rules')
    BY <1>13 DEF AgentDies, Reboot, Down
  <2>. QED
    BY <1>0, <2>1 DEF control, Writing, Readable, Fresh, Meter
<1>14. CASE UNCHANGED hostVars \/ RecordArrives \/ Prepared \/ Applied \/ Traffic \/ Peek \/ Sample
  <2>1. UNCHANGED <<file, rules, lane, next, mem, target, wanted, gen>>
    BY <1>14 DEF hostVars, RecordArrives, Prepared, Applied, Traffic, Peek, Sample, control, kernel, agent
  <2>. QED
    BY <1>0, <2>1 DEF Writing, Readable, Fresh, Meter
<1>. QED
  BY <1>2, <1>3, <1>4, <1>5, <1>6, <1>7, <1>8, <1>9, <1>10, <1>11, <1>12, <1>13, <1>14
     DEF HostNext, HostStep, LaneStep

\* What the next sample says goes up while the assignment is live and never after.
LEMMA MeterStep ==
    ASSUME Sound, HostInvs, HostTyped', deaths \in Nat, boot \in Nat, PlanInv, ~Fresh,
           deaths' = 0, boot' = boot, HostNext \/ Still
    PROVE  /\ Meter.gen <= Meter'.gen
           /\ Meter'.gen = Meter.gen =>
                 IF Live(Meter) THEN Metered <= Metered' ELSE ~Live(Meter') /\ Metered' <= Metered
<1>0. /\ mem \in AgentStates /\ mem.gen \in Nat /\ mem.offset \in Nat /\ mem.checkpoint \in Nat
      /\ bytes \in Nat /\ clock \in Nat /\ lane \in Lanes /\ target \in Nat
      /\ Readable => /\ file \in AgentStates /\ Regular(file)
                     /\ file.gen \in Nat /\ file.offset \in Nat /\ file.checkpoint \in Nat
      /\ lane \notin {"idle", "down"} => Regular(mem)
      /\ lane \in {"idle", "down"} => Readable
      /\ Readable /\ file.revoked => bytes = 0
      /\ deaths = 0 /\ ~AgentDies
  BY DeathsStep, ReadableIsState DEF Still, HostInvs, HostTyped, HonestInv, CleanInv, RevokedIsClean,
                                     AgentStates, Fresh
<1>1. Value(mem) \in Nat /\ (Readable => Value(file) \in Nat)
  BY <1>0, ValueIsNat DEF HostInvs
<1>2. Metered \in Nat /\ Meter.gen \in Nat
  BY <1>0, <1>1 DEF Metered, Meter
<1>3. CASE UNCHANGED <<file, bytes, lane, next, mem>>
  <2>1. Meter' = Meter /\ Metered' = Metered
    BY <1>3 DEF Meter, Metered, Value, Writing
  <2>. QED
    BY <1>2, <2>1 DEF Live
<1>4. CASE Traffic
  <2>1. bytes' = bytes + 1 /\ rules /\ UNCHANGED <<file, lane, next, mem>>
    BY <1>4 DEF Traffic, KernelPresent, agent
  <2>2. Meter' = Meter
    BY <2>1 DEF Meter
  <2>3. Metered' = Metered \/ (Meter.taken = 0 /\ Metered' = Metered + 1)
    BY <1>0, <2>1 DEF Metered, Meter, Value, Writing
  <2>4. ~Live(Meter) => Meter.revoked
    BY <1>0, <2>1 DEF PlanInv, Pending, Live
  <2>5. Regular(Meter)
    BY <1>0 DEF Meter
  <2>. QED
    BY <1>2, <2>2, <2>3, <2>4, <2>5 DEF Regular, Live
<1>5. CASE Prepare
  <2>1. /\ lane = "idle" /\ lane' = "truncate" /\ next' = "idle" /\ ~CanReuse
        /\ UNCHANGED <<file, bytes>>
        /\ mem' = [Derived EXCEPT !.keys = TRUE, !.offset = Resumed, !.gen = ResumedGen]
    BY <1>5 DEF Prepare, ToPrepare, MayWork, Save, kernel
  <2>2. file.revoked /\ file.taken # 0 /\ bytes = 0
    BY <1>0, <2>1 DEF CanReuse, Reusable, Regular
  <2>3. mem'.gen = file.gen /\ mem'.offset = file.checkpoint /\ mem'.taken = 0 /\ ~mem'.committed
    BY <1>0, <2>1, <2>2 DEF Derived, ResumedGen, Resumed
  <2>4. Meter = file /\ Meter' = mem' /\ Metered = file.checkpoint /\ Metered' = file.checkpoint
    BY <1>0, <2>1, <2>2, <2>3 DEF Meter, Metered, Value, Writing
  <2>. QED
    BY <1>0, <2>1, <2>2, <2>3, <2>4 DEF Live
<1>6. CASE Commit \/ (AgentStarts /\ ToRehydrate)
  <2>1. /\ lane \in {"idle", "down"} /\ lane' = "truncate" /\ next' = "unrule"
        /\ UNCHANGED <<file, bytes>> /\ Readable /\ ~file.revoked /\ mem' = CommitState(bytes)
    BY <1>6, CountingIsBytes DEF Commit, AgentStarts, ToRehydrate, MayWork, Save, kernel, CleanInv,
                                 HostInvs, Sound
  <2>2. mem'.offset = file.offset + bytes /\ mem'.gen = file.gen /\ mem'.revoked = file.revoked
    BY <1>0, <2>1, CommittedState
  <2>3. mem'.committed = file.committed
    BY <1>0, <2>1 DEF CommitState, AgentStates
  <2>4. file.taken = 0
    BY <1>0, <2>1 DEF Regular
  <2>5. Meter = file /\ Meter' = mem' /\ Metered = file.offset + bytes /\ Metered' = file.offset + bytes
    BY <2>1, <2>2, <2>4 DEF Meter, Metered, Value, Writing
  <2>. QED
    BY <1>0, <1>2, <2>2, <2>3, <2>5 DEF Live
<1>7. CASE Revoke
  <2>1. /\ lane = "idle" /\ lane' = "teardown" /\ UNCHANGED <<file, bytes>> /\ Readable
        /\ mem' = RevokedState(file, bytes)
    BY <1>0, <1>7, CountingIsBytes DEF Revoke, MayWork, kernel, Sound
  <2>2. mem'.revoked /\ mem'.gen = file.gen /\ mem'.checkpoint = file.offset + bytes /\ mem'.taken # 0
    <3>1. file \in AgentStates /\ bytes \in Nat /\ clock \in Nat
      BY <1>0, <2>1
    <3>. QED
      BY <2>1, <3>1, RevokedStateIs
  <2>3. Meter = file /\ Meter' = mem' /\ Metered = Value(file) /\ Metered' = file.offset + bytes
    BY <2>1, <2>2 DEF Meter, Metered, Value, Writing
  <2>4. ~file.revoked => Value(file) = file.offset + bytes
    BY <1>0, <2>1 DEF Value, Regular
  <2>5. file.revoked => file.offset + bytes <= Value(file)
    BY <1>0, <2>1 DEF Value, Regular, HostInvs, HonestInv, Fits
  <2>. QED
    BY <1>0, <1>2, <2>1, <2>2, <2>3, <2>4, <2>5 DEF Live
<1>8. CASE Truncate
  <2>1. lane = "truncate" /\ lane' = "write" /\ UNCHANGED <<bytes, next, mem>>
    BY <1>8 DEF Truncate, kernel
  <2>2. Meter' = Meter /\ Metered' = Metered
    BY <2>1 DEF Meter, Metered, Value, Writing
  <2>. QED
    BY <1>2, <2>2 DEF Live
<1>9. CASE Write
  <2>1. /\ lane = "write" /\ next \in {"idle", "unrule"} /\ lane' = next /\ file' = mem
        /\ UNCHANGED <<bytes, next, mem>>
    BY <1>9 DEF Write, kernel, CleanInv, HostInvs, Writing
  <2>2. Meter' = Meter /\ Metered' = Metered
    BY <2>1 DEF Meter, Metered, Value, Writing
  <2>. QED
    BY <1>2, <2>2 DEF Live
<1>10. CASE DeleteRules
  <2>1. lane = "unrule" /\ lane' = "configure" /\ bytes' = 0 /\ UNCHANGED <<next, mem>>
    BY <1>10 DEF DeleteRules, Sound
  <2>2. mem.taken = 0
    BY <1>0, <2>1 DEF Regular, CleanInv, HostInvs
  <2>3. Meter' = Meter /\ Metered' = Metered
    BY <1>0, <2>1, <2>2 DEF Meter, Metered, Value, Writing
  <2>. QED
    BY <1>2, <2>3 DEF Live
<1>11. CASE ConfigureOk
  <2>1. /\ lane = "configure" /\ lane' = "truncate" /\ next' = "idle" /\ bytes' = bytes
        /\ mem' = [mem EXCEPT !.committed = TRUE, !.gen = target]
    BY <1>11 DEF ConfigureOk, Save
  <2>2. /\ mem'.gen = target /\ mem.gen <= target /\ mem'.offset = mem.offset
        /\ mem'.taken = mem.taken /\ mem'.checkpoint = mem.checkpoint /\ ~mem.revoked
    BY <1>0, <2>1, ConfiguredState DEF HostInvs, GenInv, CleanInv
  <2>3. Meter = mem /\ Meter' = mem' /\ Metered' = Metered
    BY <2>1, <2>2 DEF Meter, Metered, Value, Writing
  <2>4. mem.gen = target => Live(mem)
    BY <1>0, <2>1, <2>2 DEF PlanInv, Pending, Live
  <2>. QED
    BY <1>0, <1>2, <2>2, <2>3, <2>4
<1>12. CASE ConfigureFails
  <2>1. lane = "configure" /\ lane' = "idle" /\ UNCHANGED <<file, bytes, next, mem>> /\ file = mem
    BY <1>12 DEF ConfigureFails, PlanInv
  <2>2. Meter' = Meter /\ Metered' = Metered
    BY <2>1 DEF Meter, Metered, Value, Writing
  <2>. QED
    BY <1>2, <2>2 DEF Live
<1>13. CASE Teardown
  <2>1. lane = "teardown" /\ lane' = "truncate" /\ next' = "idle" /\ mem' = mem /\ mem.revoked
    BY <1>13 DEF Teardown, Save, PlanInv
  <2>2. Meter' = Meter /\ Metered' = Metered
    BY <1>0, <2>1 DEF Meter, Metered, Value, Writing, Regular
  <2>. QED
    BY <1>2, <2>2 DEF Live
<1>14. CASE AgentStarts /\ ~ToRehydrate
  <2>1. lane = "down" /\ lane' = "idle" /\ UNCHANGED <<file, bytes>>
    BY <1>14 DEF AgentStarts, kernel
  <2>2. Meter' = Meter /\ Metered' = Metered
    BY <2>1 DEF Meter, Metered, Value, Writing
  <2>. QED
    BY <1>2, <2>2 DEF Live
<1>15. CASE Reboot
  BY <1>15 DEF Reboot
<1>16. CASE Still \/ Revocation \/ Reactivation \/ Prepared \/ Applied \/ Peek \/ Sample
  BY <1>3, <1>16 DEF Still, RecordArrives, Revocation, Reactivation, Prepared, Applied, Peek, Sample,
                     control, kernel, agent
<1>. QED
  BY <1>0, <1>4, <1>5, <1>6, <1>7, <1>8, <1>9, <1>10, <1>11, <1>12, <1>13, <1>14, <1>15, <1>16
     DEF HostNext, HostStep, LaneStep

\* The samples of the running stream, and those above all that were recorded of theirs.
Here(p) == p.boot = boot /\ p.gen = Meter.gen
IsHighest(p) == \A q \in stored : SameStream(q, p) => q.bytes <= p.bytes

\* A lower sample is the last word of its stream.
Settled(p) == IsHighest(p) \/ (~Live(Meter) /\ Metered <= p.bytes)

RiseInv ==
    /\ \A p \in Sent : Here(p) /\ (p \in flight \/ Latest(p)) => Settled(p)
    /\ Live(Meter) => \A p \in Sent : Here(p) => p.bytes <= Metered
    /\ \A s \in flight, p \in stored :
          Latest(p) /\ SameStream(p, s) /\ p.bytes < s.bytes => IsHighest(p)

BoundInv == \A p \in Sent : p.gen <= gen /\ p.bytes <= forwarded

RecordedInv ==
    /\ BoundInv
    /\ deaths = 0 => RiseInv /\ consumed <= Cardinality(Shown)

LEMMA MeterTyped ==
    ASSUME HostTyped, ~Fresh
    PROVE  Meter \in AgentStates /\ Meter.gen \in Nat /\ Metered \in Nat
<1>1. lane \in {"idle", "down"} => Readable
  BY DEF Fresh
<1>2. Meter \in AgentStates /\ mem \in AgentStates
  BY <1>1, ReadableIsState DEF Meter, HostTyped
<1>. QED
  BY <1>2, ValueIsNat DEF Metered, AgentStates

LEMMA MeterIsAWorth ==
    ASSUME HostTyped, CleanInv, ~Fresh
    PROVE  \E w \in Worths : w[2] = Meter.gen
<1>1. CASE lane \in {"idle", "down"}
  <2>1. Readable
    BY <1>1 DEF Fresh
  <2>2. <<Value(file), file.gen>> \in Worths
    BY <1>1, <2>1 DEF Worths, FileWorth
  <2>. QED
    BY <1>1, <2>2 DEF Meter
<1>2. CASE lane \notin {"idle", "down"}
  <2>1. \/ lane \in {"configure", "teardown"} \/ (Writing /\ next = "idle")
        \/ lane = "unrule" \/ (Writing /\ next = "unrule")
    BY <1>2 DEF HostTyped, Lanes, Writing, CleanInv
  <2>2. <<Value(mem), mem.gen>> \in Worths \/ <<mem.offset, mem.gen>> \in Worths
    BY <2>1 DEF Worths, MemWorth
  <2>. QED
    BY <1>2, <2>2 DEF Meter
<1>. QED
  BY <1>1, <1>2

LEMMA MeterTypedNext == HostTyped' /\ ~Fresh' => (Metered \in Nat)'
<1>1. HostTyped /\ ~Fresh => Metered \in Nat
  BY MeterTyped
<1>. QED
  BY <1>1, PTL

LEMMA QuietRises ==
    ASSUME Sound, HostInvs, HostTyped', SampleTyped, MeteringInv, deaths \in Nat, PlanInv, RiseInv,
           HostNext \/ Still, UNCHANGED <<stored, consumed>>, ~Sample, deaths' = 0
    PROVE  RiseInv'
<1>1. /\ flight' = flight /\ Sent' = Sent /\ stored' = stored /\ boot' \in {boot, boot + 1}
      /\ boot \in Nat
  BY QuietStep DEF HostInvs, SampleTyped, Sent
<1>2. \A p : IsHighest(p)' <=> IsHighest(p)
  BY <1>1 DEF IsHighest
<1>3. \A p : Latest(p)' <=> Latest(p)
  BY <1>1 DEF Latest
<1>4. ASSUME NEW p \in Sent, p.boot = boot', p.gen = Meter'.gen
      PROVE  /\ Here(p) /\ Metered \in Nat /\ Metered' \in Nat
             /\ IF Live(Meter) THEN Metered <= Metered' ELSE ~Live(Meter') /\ Metered' <= Metered
  <2>1. p.boot <= boot /\ p.boot \in Nat /\ p.gen \in Nat
    BY DEF MeteringInv, OrderInv, SampleTyped, SampleRecords
  <2>2. boot' = boot
    BY <1>1, <1>4, <2>1
  <2>3. ~Fresh
    BY DEF MeteringInv, FreshInv
  <2>4. p.gen <= Meter.gen
    BY <2>3, MeterIsAWorth DEF MeteringInv, OrderInv, HostInvs
  <2>6. /\ Meter.gen <= Meter'.gen
        /\ Meter'.gen = Meter.gen =>
              IF Live(Meter) THEN Metered <= Metered' ELSE ~Live(Meter') /\ Metered' <= Metered
    BY <1>1, <2>2, <2>3, MeterStep
  <2>7. Meter.gen \in Nat /\ Metered \in Nat
    BY <2>3, MeterTyped DEF HostInvs
  <2>8. Meter'.gen = Meter.gen
    BY <1>4, <2>1, <2>4, <2>6, <2>7
  <2>9. ~Fresh'
    BY <2>3, FreshStep DEF HostInvs
  <2>. QED
    BY <1>4, <2>2, <2>6, <2>7, <2>8, <2>9, MeterTypedNext DEF Here
<1>5. ASSUME NEW p \in Sent, Here(p)'
      PROVE  /\ Here(p) /\ Metered \in Nat /\ Metered' \in Nat
             /\ IF Live(Meter) THEN Metered <= Metered' ELSE ~Live(Meter)' /\ Metered' <= Metered
  BY <1>4, <1>5 DEF Here, Live
<1>6. \A p \in Sent : p.bytes \in Nat
  BY DEF SampleTyped, SampleRecords
<1>8. ASSUME NEW p \in Sent, Here(p)', Settled(p) PROVE Settled(p)'
  BY <1>2, <1>5, <1>6, <1>8 DEF Settled
<1>9. \A p \in Sent' : Here(p)' /\ (p \in flight' \/ Latest(p)') => Settled(p)'
  BY <1>1, <1>3, <1>5, <1>8 DEF RiseInv
<1>10. Live(Meter)' => \A p \in Sent' : Here(p)' => p.bytes <= Metered'
  BY <1>1, <1>5, <1>6 DEF RiseInv
<1>11. \A s \in flight', p \in stored' :
          Latest(p)' /\ SameStream(p, s) /\ p.bytes < s.bytes => IsHighest(p)'
  BY <1>1, <1>2, <1>3 DEF RiseInv
<1>. QED
  BY <1>9, <1>10, <1>11 DEF RiseInv, SameStream

\* The sample that telemetry sends says what the meter says.
LEMMA SampleRises ==
    ASSUME Sound, HostInvs, SampleTyped, MeteringInv, RiseInv, Sample, InOrder',
           UNCHANGED <<stored, consumed>>
    PROVE  RiseInv'
<1>1. PICK s \in SampleRecords :
         /\ flight' = {s} /\ s.boot = boot /\ s.gen = file.gen /\ s.bytes = Value(file)
  BY SampleIs
<1>2. /\ lane = "idle" /\ Readable /\ file \in AgentStates
      /\ UNCHANGED <<file, bytes, lane, next, mem, boot>>
  BY SampleIs DEF Sample, agent, kernel
<1>3. Meter' = Meter /\ Metered' = Metered /\ Meter = file /\ Metered = Value(file)
  BY <1>2 DEF Meter, Metered, Value, Writing
<1>4. Metered \in Nat /\ \A p \in Sent : p.bytes \in Nat
  BY <1>2, <1>3, ValueIsNat DEF HostInvs, SampleTyped, SampleRecords
<1>5. Here(s) /\ s.bytes = Metered /\ \A p : Here(p)' <=> Here(p)
  BY <1>1, <1>2, <1>3 DEF Here
<1>6. /\ \A p : IsHighest(p)' <=> IsHighest(p)
      /\ \A p : Latest(p)' <=> Latest(p)
  BY DEF IsHighest, Latest
<1>7. \A p : Settled(p)' <=> Settled(p)
  BY <1>3, <1>6 DEF Settled, Live
<1>8. \A p \in stored : SameStream(p, s) => Here(p)
  BY <1>5 DEF SameStream, Here
<1>9. Settled(s)
  <2>1. Live(Meter) => IsHighest(s)
    BY <1>5, <1>8 DEF IsHighest, RiseInv, Sent
  <2>. QED
    BY <1>4, <1>5, <2>1 DEF Settled
<1>10. ASSUME NEW p \in stored, Latest(p), SameStream(p, s), p.bytes < s.bytes PROVE IsHighest(p)
  <2>1. Settled(p)
    BY <1>8, <1>10 DEF RiseInv, Sent
  <2>2. p.bytes \in Nat
    BY <1>4 DEF Sent
  <2>. QED
    BY <1>4, <1>5, <1>10, <2>1, <2>2 DEF Settled
<1>11. \A p \in Sent' : Here(p)' /\ (p \in flight' \/ Latest(p)') => Settled(p)'
  BY <1>1, <1>5, <1>6, <1>7, <1>9 DEF RiseInv, Sent
<1>12. Live(Meter)' => \A p \in Sent' : Here(p)' => p.bytes <= Metered'
  BY <1>1, <1>3, <1>4, <1>5 DEF RiseInv, Sent, Live
<1>13. \A t \in flight', p \in stored' :
          Latest(p)' /\ SameStream(p, t) /\ p.bytes < t.bytes => IsHighest(p)'
  BY <1>1, <1>6, <1>10
<1>. QED
  BY <1>11, <1>12, <1>13 DEF RiseInv, SameStream

LEMMA RecordRises ==
    ASSUME HostInvs, SampleTyped, MeteringInv, RiseInv, Record
    PROVE  RiseInv'
<1>1. UNCHANGED <<file, bytes, lane, next, mem, boot>>
  BY DEF Record, Insert, agent, kernel
<1>2. PICK s \in flight : /\ flight' = flight \ {s}
                          /\ stored' = (IF IsNew(s) THEN stored \cup {s} ELSE stored)
  BY DEF Record, Insert
<1>3. flight' = {} /\ Sent' \subseteq Sent /\ s \in Sent /\ stored \subseteq Sent
  BY <1>2 DEF OrderInv, MeteringInv, Sent
<1>4. Meter' = Meter /\ Metered' = Metered /\ (\A p : Here(p)' <=> Here(p))
  BY <1>1 DEF Meter, Metered, Value, Writing, Here
<1>5. /\ s.bytes \in Nat /\ s.at \in Nat
      /\ \A p \in stored : p.at \in Nat
  BY <1>3 DEF SampleTyped, SampleRecords
<1>6. ASSUME NEW p \in Sent', Here(p)', Latest(p)' PROVE Settled(p)'
  <2>1. CASE ~IsNew(s)
    <3>1. stored' = stored
      BY <1>2, <2>1
    <3>. QED
      BY <1>3, <1>4, <1>6, <3>1 DEF RiseInv, Latest, Settled, IsHighest, Live, Sent
  <2>2. CASE IsNew(s)
    <3>1. stored' = stored \cup {s}
      BY <1>2, <2>2
    <3>2. CASE SameStream(p, s)
      <4>1. p = s
        <5>1. s.at <= p.at /\ p \in stored'
          BY <1>6, <3>1, <3>2 DEF Latest, SameStream
        <5>2. SUFFICES ASSUME p \in stored PROVE FALSE
          BY <3>1, <5>1
        <5>3. p.at <= s.at
          BY <5>2 DEF OrderInv, MeteringInv
        <5>. QED
          BY <1>5, <2>2, <3>2, <5>1, <5>2, <5>3 DEF IsNew, SameStream
      <4>2. Settled(s)
        BY <1>3, <1>4, <1>6, <4>1 DEF RiseInv
      <4>3. IsHighest(s) => IsHighest(s)'
        BY <1>5, <3>1 DEF IsHighest, SameStream
      <4>. QED
        BY <1>4, <4>1, <4>2, <4>3 DEF Settled, Live
    <3>3. CASE ~SameStream(p, s)
      <4>1. p \in stored /\ Latest(p) /\ Here(p)
        BY <1>4, <1>6, <3>1, <3>3 DEF Latest, SameStream
      <4>2. Settled(p)
        BY <1>3, <4>1 DEF RiseInv
      <4>3. IsHighest(p) => IsHighest(p)'
        BY <3>1, <3>3 DEF IsHighest, SameStream
      <4>. QED
        BY <1>4, <4>2, <4>3 DEF Settled, Live
    <3>. QED
      BY <3>2, <3>3
  <2>. QED
    BY <2>1, <2>2
<1>7. Live(Meter)' => \A p \in Sent' : Here(p)' => p.bytes <= Metered'
  BY <1>3, <1>4 DEF RiseInv, Live
<1>. QED
  BY <1>3, <1>6, <1>7 DEF RiseInv


LEMMA BoundStep ==
    ASSUME Sound, HostInvs, HostTyped', SampleTyped, MeteringInv, BoundInv, GenInv', InOrder',
           Record \/ ((HostNext \/ Still) /\ UNCHANGED <<stored, consumed>>)
    PROVE  BoundInv'
<1>0. gen \in Nat /\ gen' \in Nat /\ forwarded \in Nat /\ forwarded' \in Nat
      /\ \A p \in Sent : p.gen \in Nat /\ p.bytes \in Nat
  BY DEF HostInvs, HostTyped, SampleTyped, SampleRecords
<1>1. CASE Record
  BY <1>1 DEF Record, Insert, control, BoundInv, Sent
<1>2. CASE Sample /\ UNCHANGED <<stored, consumed>>
  <2>1. lane = "idle" /\ Readable /\ file \in AgentStates
        /\ \E s \in SampleRecords : flight' = {s} /\ s.gen = file.gen /\ s.bytes = Value(file)
    BY <1>2, SampleIs
  <2>2. file.gen <= gen /\ Value(file) <= forwarded
    BY <2>1 DEF HostInvs, GenInv, HonestInv, Fits, Value
  <2>3. gen' = gen /\ forwarded' = forwarded
    BY <1>2 DEF Sample, control
  <2>. QED
    BY <1>2, <2>1, <2>2, <2>3 DEF BoundInv, Sent
<1>3. CASE (HostNext \/ Still) /\ UNCHANGED <<stored, consumed>> /\ ~Sample
  <2>1. flight' = flight /\ forwarded' >= forwarded
    <3>1. HostTyped /\ boot \in Nat
      BY DEF HostInvs, SampleTyped
    <3>. QED
      BY <1>3, <3>1, QuietStep
  <2>2. gen' >= gen
    <3>1. CASE Revocation \/ Reactivation
      BY <1>0, <3>1 DEF Revocation, Reactivation
    <3>2. CASE Still
      BY <1>0, <3>2 DEF Still, RecordArrives, control
    <3>3. CASE HostStep /\ ~Sample
      <4>1. gen' = gen
        BY <3>3 DEF HostStep, LaneStep, Prepare, Prepared, Commit, Applied, Revoke, Truncate, Write,
              DeleteRules, ConfigureOk, ConfigureFails, Teardown, AgentDies, Reboot, AgentStarts,
              Traffic, Peek, control
      <4>. QED
        BY <1>0, <4>1
    <3>. QED
      BY <1>3, <3>1, <3>2, <3>3 DEF HostNext
  <2>. QED
    BY <1>0, <1>3, <2>1, <2>2 DEF BoundInv, Sent
<1>. QED
  BY <1>1, <1>2, <1>3

LEMMA ShownIsFinite ==
    ASSUME HostTyped, SampleTyped, OrderInv, BoundInv
    PROVE  IsFiniteSet(Shown)
<1> DEFINE All == ((0..boot) \X (0..gen)) \X (0..forwarded)
<1>1. gen \in Nat /\ forwarded \in Nat /\ boot \in Nat
  BY DEF HostTyped, SampleTyped
<1>2. IsFiniteSet(0..boot) /\ IsFiniteSet(0..gen) /\ IsFiniteSet(0..forwarded)
  BY <1>1, FS_Interval
<1>3. IsFiniteSet(All)
  BY <1>2, FS_Product
<1>4. ASSUME NEW x \in Shown PROVE x \in All
  <2>1. PICK t \in stored \X stored : x \in Span(t[1], t[2])
    BY DEF Shown
  <2>2. PICK n \in (t[1].bytes + 1)..t[2].bytes : x = <<<<t[1].boot, t[1].gen>>, n>>
    BY <2>1 DEF Span
  <2>3. t[1] \in Sent /\ t[2] \in Sent
    BY DEF Sent
  <2>4. /\ t[1].boot \in Nat /\ t[1].boot <= boot /\ t[1].gen \in Nat /\ t[1].gen <= gen
        /\ t[1].bytes \in Nat /\ t[2].bytes \in Nat /\ t[2].bytes <= forwarded
    BY <2>3 DEF SampleTyped, SampleRecords, OrderInv, BoundInv
  <2>5. t[1].boot \in 0..boot /\ t[1].gen \in 0..gen /\ n \in 0..forwarded
    BY <1>1, <2>2, <2>4
  <2>. QED
    BY <2>2, <2>5
<1>. QED
  BY <1>3, <1>4, FS_Subset

LEMMA ShownGrows == ASSUME stored \subseteq stored' PROVE Shown \subseteq Shown'
<1> DEFINE Pairs == {t \in stored \X stored : SameStream(t[1], t[2])}
           MorePairs == {t \in stored' \X stored' : SameStream(t[1], t[2])}
           Spans(T) == UNION {Span(t[1], t[2]) : t \in T}
<1>1. Shown = Spans(Pairs) /\ Shown' = Spans(MorePairs)
  BY DEF Shown, SameStream, Span
<1>2. Pairs \subseteq MorePairs
  OBVIOUS
<1>3. Spans(Pairs) \subseteq Spans(MorePairs)
  BY <1>2
<1> HIDE DEF Pairs, MorePairs, Spans
<1>. QED
  BY <1>1, <1>3

\* What lies above all that was recorded of a stream was not charged before.
LEMMA SpanIsNew ==
    ASSUME SampleTyped, NEW s \in SampleRecords, NEW p \in stored, SameStream(p, s), IsHighest(p),
           p.bytes <= s.bytes, stored' = stored \cup {s}, IsFiniteSet(Shown'), IsFiniteSet(Shown)
    PROVE  Cardinality(Shown) + (s.bytes - p.bytes) <= Cardinality(Shown')
<1> DEFINE New == Span(p, s)
<1>1. p \in SampleRecords /\ s.bytes \in Nat /\ p.bytes \in Nat
  BY DEF SampleTyped, Sent, SampleRecords
<1>2. IsFiniteSet(New) /\ Cardinality(New) = s.bytes - p.bytes
  <2>1. p.bytes + 1 \in Int /\ s.bytes \in Int
    BY <1>1
  <2>2. /\ IsFiniteSet((p.bytes + 1)..s.bytes)
        /\ Cardinality((p.bytes + 1)..s.bytes) =
              IF p.bytes + 1 > s.bytes THEN 0 ELSE s.bytes - (p.bytes + 1) + 1
    BY <2>1, FS_Interval
  <2>3. Cardinality((p.bytes + 1)..s.bytes) = s.bytes - p.bytes
    BY <1>1, <2>2
  <2>4. IsFiniteSet({<<p.boot, p.gen>>}) /\ Cardinality({<<p.boot, p.gen>>}) = 1
    BY FS_Singleton
  <2> DEFINE one == {<<p.boot, p.gen>>}
             many == (p.bytes + 1)..s.bytes
  <2>5. IsFiniteSet(one) /\ IsFiniteSet(many)
    BY <2>2, <2>4
  <2>6. New = one \X many
    BY DEF Span
  <2> HIDE DEF one, many, New
  <2>7. IsFiniteSet(New) /\ Cardinality(New) = Cardinality(one) * Cardinality(many)
    BY <2>5, <2>6, FS_Product
  <2>8. Cardinality(one) = 1 /\ Cardinality(many) = s.bytes - p.bytes
    BY <2>3, <2>4 DEF one, many
  <2>. QED
    BY <1>1, <2>7, <2>8
<1>3. New \cap Shown = {}
  <2>1. SUFFICES ASSUME NEW x \in New, x \in Shown PROVE FALSE
    OBVIOUS
  <2>2. PICK n \in (p.bytes + 1)..s.bytes : x = <<<<p.boot, p.gen>>, n>>
    BY <2>1 DEF Span
  <2>3. PICK t \in stored \X stored : SameStream(t[1], t[2]) /\ x \in Span(t[1], t[2])
    BY <2>1 DEF Shown
  <2>4. PICK m \in (t[1].bytes + 1)..t[2].bytes : x = <<<<t[1].boot, t[1].gen>>, m>>
    BY <2>3 DEF Span
  <2>5. m = n /\ t[1].boot = p.boot /\ t[1].gen = p.gen
    BY <2>2, <2>4
  <2>6. SameStream(t[2], p) /\ t[2] \in stored /\ t[1] \in stored
    BY <2>3, <2>5 DEF SameStream
  <2>7. t[2].bytes <= p.bytes /\ t[2].bytes \in Nat /\ t[1].bytes \in Nat
    BY <2>6 DEF IsHighest, SampleTyped, SampleRecords, Sent
  <2>. QED
    BY <1>1, <2>2, <2>4, <2>5, <2>7
<1>4. New \cup Shown \subseteq Shown'
  <2>1. <<p, s>> \in {t \in stored' \X stored' : SameStream(t[1], t[2])}
    OBVIOUS
  <2>2. Span(p, s) \subseteq Shown'
    BY <2>1 DEF Shown, SameStream, Span
  <2>. QED
    BY <2>2, ShownGrows
<1> HIDE DEF New
<1>5. /\ IsFiniteSet(Shown \cup New)
      /\ Cardinality(Shown \cup New) = Cardinality(Shown) + Cardinality(New) - Cardinality(Shown \cap New)
  BY <1>2, FS_Union
<1>6. Shown \cap New = {} /\ Shown \cup New \in SUBSET Shown'
  BY <1>3, <1>4
<1>7. Cardinality(Shown \cap New) = 0
  BY <1>6, FS_EmptySet
<1>8. Cardinality(Shown \cup New) <= Cardinality(Shown')
  BY <1>6, FS_Subset
<1>9. Cardinality(Shown) \in Nat /\ Cardinality(Shown') \in Nat
  BY FS_CardinalityType
<1>. QED
  BY <1>1, <1>2, <1>5, <1>7, <1>8, <1>9

LEMMA ShownIsFiniteNext ==
    (HostTyped /\ SampleTyped /\ OrderInv /\ BoundInv)' => IsFiniteSet(Shown')
<1>1. HostTyped /\ SampleTyped /\ OrderInv /\ BoundInv => IsFiniteSet(Shown)
  BY ShownIsFinite
<1>2. (HostTyped /\ SampleTyped /\ OrderInv /\ BoundInv => IsFiniteSet(Shown))'
  BY <1>1, PTL
<1>. QED
  BY <1>2

LEMMA RecordCharges ==
    ASSUME HostInvs, HostTyped', SampleTyped, SampleTyped', MeteringInv, MeteringInv', BoundInv,
           BoundInv', RiseInv, consumed <= Cardinality(Shown), Record
    PROVE  consumed' <= Cardinality(Shown')
<1>1. PICK s \in flight : IF IsNew(s)
                          THEN stored' = stored \cup {s} /\ consumed' = consumed + Delta(s)
                          ELSE UNCHANGED <<stored, consumed>>
  BY DEF Record, Insert
<1>2. IsFiniteSet(Shown) /\ IsFiniteSet(Shown')
  BY ShownIsFinite, ShownIsFiniteNext DEF HostInvs, MeteringInv
<1>3. /\ Cardinality(Shown) \in Nat /\ Cardinality(Shown') \in Nat /\ consumed \in Nat
      /\ s \in SampleRecords /\ s.bytes \in Nat
  BY <1>2, FS_CardinalityType DEF SampleTyped, Sent, SampleRecords
<1>4. stored \subseteq stored'
  BY <1>1
<1>5. Cardinality(Shown) <= Cardinality(Shown')
  <2>1. Shown \in SUBSET Shown'
    BY <1>4, ShownGrows
  <2>. QED
    BY <1>2, <2>1, FS_Subset
<1>6. CASE consumed' = consumed
  BY <1>3, <1>5, <1>6
<1>7. CASE consumed' # consumed
  <2>1. IsNew(s) /\ stored' = stored \cup {s} /\ consumed' = consumed + Delta(s)
    BY <1>1, <1>7
  <2>2. Delta(s) # 0
    BY <1>3, <1>7, <2>1
  <2>3. PICK p \in stored : Latest(p) /\ SameStream(p, s) /\ Delta(s) = s.bytes - p.bytes
                            /\ Delta(s) >= 0
    BY <2>1, <2>2, DeltaIs DEF MeteringInv
  <2>4. p.bytes \in Nat
    BY DEF SampleTyped, SampleRecords, Sent
  <2>5. p.bytes < s.bytes
    BY <1>3, <2>2, <2>3, <2>4
  <2>6. IsHighest(p)
    BY <2>3, <2>5 DEF RiseInv
  <2>7. Cardinality(Shown) + (s.bytes - p.bytes) <= Cardinality(Shown')
    BY <1>2, <1>3, <2>1, <2>3, <2>4, <2>5, <2>6, SpanIsNew
  <2>. QED
    BY <1>3, <2>1, <2>3, <2>4, <2>7
<1>. QED
  BY <1>6, <1>7

ChargedInv == deaths \in Nat /\ PlanInv /\ (InOrder => RecordedInv)

LEMMA RecordedInductive == ASSUME Sound PROVE Spec => []ChargedInv
<1>1. Init => ChargedInv
  <2>1. SUFFICES ASSUME Init PROVE ChargedInv
    OBVIOUS
  <2>2. /\ lane = "idle" /\ ~Readable /\ ~rules /\ gen = 1 /\ deaths = 0 /\ consumed = 0
        /\ stored = {} /\ Sent = {} /\ flight = {}
    BY <2>1 DEF Init, HostInit, Readable, Sent
  <2>3. Shown = {}
    BY <2>2 DEF Shown
  <2>4. Cardinality(Shown) = 0
    BY <2>3, FS_EmptySet
  <2>5. PlanInv
    BY <2>2 DEF PlanInv, Writing
  <2>. QED
    BY <2>2, <2>4, <2>5 DEF ChargedInv, RecordedInv, BoundInv, RiseInv
<1>2. ASSUME HostTyped, HostTyped', ignored \in Nat, CleanInv, HonestInv, MeteredInv, MeteredInv',
             ChargedInv, [Next]_vars
      PROVE  ChargedInv'
  <2>1. HostInvs
    BY <1>2 DEF HostInvs, MeteredInv
  <2>2. HostNext \/ UNCHANGED hostVars \/ RecordArrives
    BY <1>2, MeteringStep
  <2>3. deaths' \in Nat /\ (deaths' = 0 => deaths = 0)
    BY <1>2, <2>2, DeathsStep DEF ChargedInv
  <2>4. PlanInv'
    BY <1>2, <2>1, <2>2, PlanStep DEF ChargedInv
  <2>5. SUFFICES ASSUME InOrder' PROVE RecordedInv'
    BY <2>3, <2>4 DEF ChargedInv
  <2>6. /\ Record \/ ((HostNext \/ Still) /\ UNCHANGED <<stored, consumed>>)
        /\ SampleTyped /\ MeteringInv /\ RecordedInv
        /\ SampleTyped' /\ MeteringInv' /\ GenInv'
    BY <1>2, <2>5, AccountStep DEF ChargedInv, MeteredInv
  <2>7. BoundInv'
    BY <1>2, <2>1, <2>5, <2>6, BoundStep DEF RecordedInv
  <2>8. ASSUME deaths' = 0 PROVE RiseInv' /\ consumed' <= Cardinality(Shown')
    <3>1. RiseInv /\ consumed <= Cardinality(Shown) /\ BoundInv
      BY <2>3, <2>6, <2>8 DEF RecordedInv
    <3>2. CASE Record
      BY <1>2, <2>1, <2>6, <2>7, <3>1, <3>2, RecordRises, RecordCharges
    <3>3. CASE (HostNext \/ Still) /\ UNCHANGED <<stored, consumed>>
      <4>1. Shown' = Shown
        BY <3>3 DEF Shown, SameStream, Span
      <4>2. CASE Sample
        BY <2>1, <2>5, <2>6, <3>1, <3>3, <4>1, <4>2, SampleRises
      <4>3. CASE ~Sample
        BY <1>2, <2>1, <2>6, <2>8, <3>1, <3>3, <4>1, <4>3, QuietRises DEF ChargedInv
      <4>. QED
        BY <4>2, <4>3
    <3>. QED
      BY <2>6, <3>2, <3>3
  <2>. QED
    BY <2>7, <2>8 DEF RecordedInv
<1>3. Spec => []CleanInv
  BY CleanInductive DEF Sound
<1>4. Spec => []HonestInv
  BY HonestInductive
<1>. QED
  BY <1>1, <1>2, <1>3, <1>4, HostTypes, MeteringInductive, PTL DEF Spec

\* As long as samples are taken and recorded in order and the agent does not die,
\* each unit charged lies between two samples of one boot and generation and is
\* charged once: a checkpoint that a repeated revocation shrinks (revokeAssignment),
\* or that is sent for ever, is not charged again, over any number of generations,
\* repairs, failed commits and reboots.
THEOREM MeteringChargedWithinRecorded == ASSUME Sound PROVE Spec => []ChargedWithinRecorded
<1>1. ChargedInv => ChargedWithinRecorded
  BY DEF ChargedInv, RecordedInv, ChargedWithinRecorded
<1>. QED
  BY <1>1, RecordedInductive, PTL

==============================================================================
