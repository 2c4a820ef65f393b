-------------------------- MODULE AgentRolloutProofs --------------------------
(***************************************************************************)
(* Proofs about AgentRollout: a deployment of the agent succeeds only with *)
(* a proof that was sent after it was asked for, for any number of rows,   *)
(* heartbeats and failures; and the verdict on it is true of the host, of  *)
(* a gate's only row.                                                      *)
(***************************************************************************)
EXTENDS AgentRollout, FiniteSetTheorems, TLAPS

\* AgentRollout: what a heartbeat, and the worker's reading of it, may prove.

Stages == Ended \cup RollingBack \cup {"none", "queued", "verifying"}

RowsTyped ==
    /\ stage \in [Rollouts -> Stages]
    /\ target \in [Rollouts -> Artifacts]
    /\ fresh \in [Rollouts -> BOOLEAN]

\* A heartbeat that would make row d successful now was sent since it was requested.
HeartbeatProves ==
    \A d \in Rollouts :
        stage[d] = "verifying" /\ fresh[d] /\ seen.sha = target[d] /\ seen.health = "passed"
            => d \in proven

\* The same of the row that the worker has read, of which the target has stayed.
ViewProves ==
    view # NoView =>
        /\ view.row \in Rollouts /\ stage[view.row] # "none"
        /\ view.stage = "verifying" /\ view.fresh /\ view.seen.sha = target[view.row]
             /\ view.seen.health = "passed" => view.row \in proven

RolloutInv == RowsTyped /\ HeartbeatProves /\ ViewProves /\ SucceededWasProven

LEMMA RolloutInitially == RolloutInit => RolloutInv
BY RolloutAssumption DEF RolloutInit, RolloutInv, RowsTyped, HeartbeatProves, ViewProves,
    SucceededWasProven, Stages, Ended, RollingBack

\* A step that gives no row a new target, begins no verification but afresh, and
\* makes none successful that was not proven.
LEMMA RowsMoveKeeps ==
    ASSUME RolloutInv, RowsTyped', target' = target, seen' = seen, proven' = proven,
           view' = view \/ view' = NoView,
           \A d \in Rollouts :
               /\ stage'[d] = "none" => stage[d] = "none"
               /\ stage'[d] = "verifying" /\ fresh'[d] => stage[d] = "verifying" /\ fresh[d]
               /\ stage'[d] = "succeeded" => stage[d] = "succeeded" \/ d \in proven
    PROVE  RolloutInv'
<1>1. HeartbeatProves'
    BY DEF RolloutInv, HeartbeatProves
<1>2. ViewProves'
    BY DEF RolloutInv, ViewProves
<1>3. SucceededWasProven'
    BY DEF RolloutInv, SucceededWasProven
<1> QED
    BY <1>1, <1>2, <1>3 DEF RolloutInv

\* A new row, which no heartbeat has proven yet.
LEMMA InsertionKeeps ==
    ASSUME RolloutInv, NEW d \in Rollouts, NEW sha \in Artifacts, insertGateAgentDeployment(d, sha)
    PROVE  RolloutInv'
<1>1. /\ stage[d] = "none" /\ stage' = [stage EXCEPT ![d] = "queued"]
      /\ target' = [target EXCEPT ![d] = sha]
      /\ UNCHANGED <<fresh, seen, proven, view>>
    BY DEF insertGateAgentDeployment, seenVars
<1>2. RowsTyped'
    BY <1>1 DEF RolloutInv, RowsTyped, Stages
<1>3. \A e \in Rollouts : e # d => stage'[e] = stage[e] /\ target'[e] = target[e]
    BY <1>1 DEF RolloutInv, RowsTyped
<1>4. stage'[d] = "queued"
    BY <1>1 DEF RolloutInv, RowsTyped
<1>5. HeartbeatProves' /\ SucceededWasProven'
    BY <1>1, <1>3, <1>4 DEF RolloutInv, HeartbeatProves, SucceededWasProven
<1>6. ViewProves'
    BY <1>1, <1>3 DEF RolloutInv, ViewProves
<1> QED
    BY <1>2, <1>5, <1>6 DEF RolloutInv

\* An admin's rollback and every verdict of the worker.
LEMMA RollbackKeeps ==
    ASSUME RolloutInv, NEW d \in Rollouts, requestDeploymentRollback(d), seen' = seen,
           proven' = proven, view' = view \/ view' = NoView
    PROVE  RolloutInv'
<1>1. /\ stage' = [stage EXCEPT ![d] = "rollback_requested"] /\ UNCHANGED <<target, fresh>>
    BY DEF requestDeploymentRollback
<1>2. RowsTyped'
    BY <1>1 DEF RolloutInv, RowsTyped, Stages, RollingBack
<1>3. \A e \in Rollouts : stage'[e] = IF e = d THEN "rollback_requested" ELSE stage[e]
    BY <1>1 DEF RolloutInv, RowsTyped
<1> QED
    BY <1>1, <1>2, <1>3, RowsMoveKeeps

\* The worker judges the row it has read: its view proves it, if it is still fresh.
LEMMA VerdictKeeps ==
    ASSUME RolloutInv, reconcileGateAgentDeployments
    PROVE  RolloutInv'
<1> DEFINE d == view.row
<1>1. view # NoView /\ d \in Rollouts /\ seen' = seen /\ proven' = proven /\ view' = NoView
    BY DEF reconcileGateAgentDeployments, seenVars, RolloutInv, ViewProves
<1>2. ASSUME NEW phase \in {"rolled_back", "failed", "succeeded"}, NEW phases, Move(phases, phase),
             phase = "succeeded" => d \in proven
      PROVE  RolloutInv'
    <2>1. UNCHANGED <<target, fresh>>
        BY <1>2 DEF Move
    <2>2. RowsTyped'
        BY <1>1, <1>2, <2>1 DEF Move, RolloutInv, RowsTyped, Stages, Ended
    <2>3. \A e \in Rollouts : stage'[e] = stage[e] \/ (e = d /\ stage'[e] = phase)
        BY <1>1, <1>2 DEF Move, RolloutInv, RowsTyped
    <2> QED
        BY <1>1, <1>2, <2>1, <2>2, <2>3, RowsMoveKeeps
<1>3. ASSUME UNCHANGED <<stage, target, fresh>> PROVE RolloutInv'
    BY <1>1, <1>3, RowsMoveKeeps DEF RolloutInv, RowsTyped
<1>4. ASSUME RequestRollback PROVE RolloutInv'
    BY <1>1, <1>3, <1>4, RollbackKeeps DEF RequestRollback, rowVars
<1>5. ASSUME retryDeploymentRollback PROVE RolloutInv'
    BY <1>2, <1>3, <1>5 DEF retryDeploymentRollback, RollbackAgain
<1>6. \/ RequestRollback
      \/ /\ view.stage = "verifying" /\ view.seen.sha = target[d] /\ view.fresh
         /\ view.seen.health = "passed" /\ Move({"verifying"}, "succeeded")
      \/ Move({"verifying"} \cup RollingBack, "rolled_back")
      \/ Move({"queued", "verifying"} \cup RollingBack, "failed")
      \/ retryDeploymentRollback
      \/ UNCHANGED <<rowVars, work>>
    BY DEF reconcileGateAgentDeployments
<1> QED
    BY <1>1, <1>2, <1>3, <1>4, <1>5, <1>6 DEF RolloutInv, ViewProves, rowVars

\* A job report begins the verification of its row, not a fresh one.
LEMMA AnswerKeeps ==
    ASSUME RolloutInv, NEW answer \in answers, DeliverAnswer(answer)
    PROVE  RolloutInv'
<1> DEFINE d == answer.row
<1>1. UNCHANGED <<target, seen, proven, view>>
    BY DEF DeliverAnswer, seenVars
<1>2. ASSUME NEW phase \in {"verifying", "rolling_back", "failed"}, markDeploymentJobReported(d, phase)
      PROVE  RolloutInv'
    <2>1. CASE UNCHANGED <<stage, fresh>>
        BY <1>1, <2>1, RowsMoveKeeps DEF RolloutInv, RowsTyped
    <2>2. CASE /\ stage' = [stage EXCEPT ![d] = phase]
               /\ fresh' = [fresh EXCEPT ![d] = @ /\ phase # "verifying"]
        <3>1. RowsTyped'
            BY <1>1, <1>2, <2>2 DEF RolloutInv, RowsTyped, Stages, Ended, RollingBack
        <3>2. \A e \in Rollouts :
                /\ e # d => stage'[e] = stage[e] /\ fresh'[e] = fresh[e]
                /\ e = d => stage'[e] = phase /\ (phase = "verifying" => ~fresh'[e])
            BY <2>2 DEF RolloutInv, RowsTyped
        <3> QED
            BY <1>1, <1>2, <3>1, <3>2, RowsMoveKeeps
    <2> QED
        BY <1>2, <2>1, <2>2 DEF markDeploymentJobReported
<1>3. \/ markDeploymentJobReported(d, "verifying")
      \/ markDeploymentJobReported(d, "rolling_back")
      \/ markDeploymentJobReported(d, "failed")
      \/ UNCHANGED <<stage, fresh, overdue>>
    BY DEF DeliverAnswer
<1>4. CASE UNCHANGED <<stage, fresh, overdue>>
    BY <1>1, <1>4, RowsMoveKeeps DEF RolloutInv, RowsTyped
<1> QED
    BY <1>2, <1>3, <1>4

\* A heartbeat arrives, and proves what it proves; the worker reads a row with the
\* last heartbeat.
LEMMA SeenKeeps ==
    ASSUME RolloutInv,
           Heartbeat \/ \E d \in Rollouts : listDeploymentsForReconcile(d)
    PROVE  RolloutInv'
<1>1. CASE Heartbeat
    <2>1. /\ UNCHANGED <<stage, target, view>> /\ fresh' = [d \in Rollouts |-> TRUE]
          /\ seen'.sha = running /\ seen'.health = health
          /\ proven' = proven \cup {d \in Rollouts : Active(d) /\ running = target[d]
                                                       /\ health = "passed"}
        BY <1>1 DEF Heartbeat
    <2>2. RowsTyped'
        BY <2>1 DEF RolloutInv, RowsTyped
    <2>3. HeartbeatProves' /\ SucceededWasProven'
        BY <2>1 DEF RolloutInv, HeartbeatProves, SucceededWasProven, Active
    <2>4. ViewProves'
        BY <2>1 DEF RolloutInv, ViewProves
    <2> QED
        BY <2>2, <2>3, <2>4 DEF RolloutInv
<1>2. ASSUME NEW d \in Rollouts, listDeploymentsForReconcile(d) PROVE RolloutInv'
    <2>1. /\ UNCHANGED <<stage, target, fresh, seen, proven>> /\ Active(d)
          /\ view'.row = d /\ view'.stage = stage[d] /\ view'.seen = seen /\ view'.fresh = fresh[d]
        BY <1>2 DEF listDeploymentsForReconcile, rowVars, seenVars
    <2>2. RowsTyped' /\ HeartbeatProves' /\ SucceededWasProven'
        BY <2>1 DEF RolloutInv, RowsTyped, HeartbeatProves, SucceededWasProven
    <2>3. ViewProves'
        BY <2>1 DEF RolloutInv, HeartbeatProves, ViewProves, Active, RollingBack
    <2> QED
        BY <2>2, <2>3 DEF RolloutInv
<1> QED
    BY <1>1, <1>2

\* What happens on the host, to the jobs and to the deadlines.
LEMMA HostKeeps ==
    ASSUME RolloutInv, UNCHANGED <<stage, target, fresh, seen, proven, view>>
    PROVE  RolloutInv'
BY RowsMoveKeeps DEF RolloutInv, RowsTyped

LEMMA RolloutStepKeeps == RolloutInv /\ [RolloutNext]_rolloutVars => RolloutInv'
<1> SUFFICES ASSUME RolloutInv, [RolloutNext]_rolloutVars PROVE RolloutInv'
    OBVIOUS
<1>1. ASSUME NEW d \in Rollouts, NEW sha \in Artifacts, insertGateAgentDeployment(d, sha)
      PROVE  RolloutInv'
    BY <1>1, InsertionKeeps
<1>2. ASSUME NEW d \in Rollouts, AdminRollsBack(d) PROVE RolloutInv'
    BY <1>2, RollbackKeeps DEF AdminRollsBack, seenVars
<1>3. ASSUME NEW d \in Rollouts, listDeploymentsForReconcile(d) PROVE RolloutInv'
    BY <1>3, SeenKeeps
<1>4. ASSUME NEW d \in Rollouts,
             DeadlinePasses(d) \/ \E k \in Kinds : ClaimRolloutJob(d, k) \/ ExpireRolloutLease(d, k)
      PROVE  RolloutInv'
    BY <1>4, HostKeeps DEF DeadlinePasses, ClaimRolloutJob, ExpireRolloutLease, rowVars, seenVars
<1>5. CASE ExecuteRollout \/ GateLeaseExpires
           \/ \E status \in {"retryable_failed", "failed"} : ExecuteRolloutFails(status)
    BY <1>5, HostKeeps DEF ExecuteRollout, GateLeaseExpires, ExecuteRolloutFails, rowVars, seenVars
<1>6. ASSUME NEW answer \in answers, DeliverAnswer(answer) PROVE RolloutInv'
    BY <1>6, AnswerKeeps
<1>7. ASSUME NEW answer \in answers, LoseAnswer(answer) PROVE RolloutInv'
    BY <1>7, HostKeeps DEF LoseAnswer, rowVars, seenVars
<1>8. CASE HelperStep
    BY <1>8, HostKeeps DEF HelperStep, HelperWorks, HelperFails, Install, rollback_to, InstallUndone, HelperGivesUp,
        InstallConfirmed, Others, rowVars, seenVars
<1>9. CASE Heartbeat
    BY <1>9, SeenKeeps
<1>10. CASE reconcileGateAgentDeployments
    BY <1>10, VerdictKeeps
<1>11. CASE UNCHANGED rolloutVars
    BY <1>11, HostKeeps DEF rolloutVars, rowVars, seenVars
<1> QED
    BY <1>1, <1>2, <1>3, <1>4, <1>5, <1>6, <1>7, <1>8, <1>9, <1>10, <1>11
    DEF RolloutNext, RolloutWork, RolloutFault, HelperStep

\* A deployment is called successful only after a heartbeat that was sent since it was
\* requested, and named its release, had passed the health check
\* (reconcileGateAgentDeployments, recordGateHeartbeat, markDeploymentJobReported).
THEOREM RolloutSucceededWasProven == RolloutSpec => []SucceededWasProven
<1>1. RolloutSpec => []RolloutInv
    BY RolloutInitially, RolloutStepKeeps, PTL DEF RolloutSpec
<1>2. RolloutInv => SucceededWasProven
    BY DEF RolloutInv
<1> QED
    BY <1>1, <1>2, PTL

-------------------------------------------------------------------------------
\* AgentRollout: the verdict on a gate's only deployment.

\* The deploy job has been claimed, and its agent is through with it.
Executed(d) == work[d]["deploy"].claims # 0 /\ doing.kind # "deploy"

\* The helper that the job schedules, before and after it has swapped the binary.
Waits(d) == [kind |-> "deploy", row |-> d, claim |-> 1, at |-> "scheduled",
             sha |-> target[d], back |-> None]
Tries(d) == [kind |-> "deploy", row |-> d, claim |-> 1, at |-> "waiting",
             sha |-> target[d], back |-> Installed]

\* The target will not be installed any more; nor will it be undone.
Over(d) == Executed(d) /\ Waits(d) \notin helpers
Finished(d) == Over(d) /\ Tries(d) \notin helpers

JobRow == [phase : {"none", "queued", "leased", "done", "dead"},
           retries : Nat, claims : Nat, number : Nat]

\* Jobs, reports and helpers are what the only claim of the deploy job and any number of
\* rollbacks have left.
WorkTyped ==
    /\ stage \in [Rollouts -> Stages]
    /\ target \in [Rollouts -> Artifacts]
    /\ overdue \in [Rollouts -> BOOLEAN]
    /\ previous = [d \in Rollouts |-> Installed]
    /\ rollbacks \in [Rollouts -> Nat]
    /\ work \in [Rollouts -> [Kinds -> JobRow]]

DeployedOnce(d) ==
    /\ stage[d] = "none" => work[d]["deploy"].claims = 0 /\ work[d]["deploy"].phase = "none"
    /\ stage[d] = "verifying" => Executed(d)
    /\ doing # Unoccupied => doing.kind \in Kinds /\ doing.row = d
    /\ doing.kind = "deploy" => work[d]["deploy"].claims # 0 /\ doing.claim = 1
    /\ \A a \in answers : a.row = d /\ a.kind \in Kinds /\ (a.kind = "deploy" => Executed(d))

HelpersAre(d) ==
    /\ \A u \in helpers :
          \/ u \in {Waits(d), Tries(d)}
          \/ u.kind = "rollback" /\ u.row = d /\ u.at = "scheduled" /\ u.sha = Installed
    /\ Waits(d) \in helpers \/ Tries(d) \in helpers => Executed(d) /\ target[d] # Installed
    /\ Tries(d) \in helpers => Waits(d) \notin helpers

\* The target is installed once and taken off once; what was seen lags behind, but
\* not beyond the helper's waiting.
SeenLags(d) ==
    /\ running \in {Installed, target[d]}
    /\ running # Installed \/ seen.sha # Installed => Over(d)
    /\ running # Installed /\ seen.sha = Installed /\ d \notin crossed => Tries(d) \in helpers
    /\ failure # None \/ seen.failure # None => Finished(d) /\ (d \notin crossed => running = Installed)

\* No rollback has been asked for, and no verdict has crossed a swap.
Onward(d) == stage[d] \in {"none", "queued", "verifying", "succeeded"} /\ d \notin crossed
IsKept(d) == running # Installed \/ failure = target[d]

OnwardInstalls(d) ==
    Onward(d) =>
        /\ work[d]["rollback"].phase = "none"
        /\ doing.kind # "rollback"
        /\ \A a \in answers : a.kind # "rollback"
        /\ \A u \in helpers : u.kind # "rollback"
        /\ seen.sha # Installed => IsKept(d)
        /\ Tries(d) \in helpers => running # Installed
        /\ stage[d] = "succeeded" => running = target[d] \/ failure = target[d]

\* A rollback is under way or has come to its end, and nothing has crossed it.
BackIsBack(d) ==
    stage[d] \in RollingBack \cup {"rolled_back"} /\ d \notin crossed =>
        /\ Waits(d) \notin helpers
        /\ running # Installed => seen.sha # Installed
        /\ stage[d] = "rolled_back" => running = Installed

LateIsFinished(d) == stage[d] = "verifying" /\ overdue[d] => Finished(d)

\* What the worker has read of row and gate is still good for a verdict.
ViewIsGood(d) ==
    view # NoView =>
        /\ view.row = d
        /\ view.seen.sha # Installed =>
              /\ Over(d)
              /\ running # Installed /\ d \notin crossed => seen.sha # Installed
              /\ Onward(d) => IsKept(d)
        /\ view.seen.failure # None => Finished(d) /\ (d \notin crossed => running = Installed)
        /\ view.stage = "verifying" /\ view.overdue =>
              Finished(d) /\ (view.seen.sha = Installed /\ d \notin crossed => running = Installed)
        /\ view.stage \in RollingBack /\ d \notin crossed =>
              /\ stage[d] \in RollingBack \cup {"rolled_back", "failed"}
              /\ view.seen.sha = Installed => running = Installed

VerdictInv ==
    /\ WorkTyped
    /\ \A d \in Rollouts :
          /\ DeployedOnce(d) /\ HelpersAre(d) /\ SeenLags(d) /\ OnwardInstalls(d)
          /\ BackIsBack(d) /\ LateIsFinished(d) /\ ViewIsGood(d)

VerdictOf(d) ==
    /\ DeployedOnce(d) /\ HelpersAre(d) /\ SeenLags(d) /\ OnwardInstalls(d)
    /\ BackIsBack(d) /\ LateIsFinished(d) /\ ViewIsGood(d)

\* One row, whose deploy job is claimed once, on a host that is in time.
OneDeployment == Punctual /\ MaxClaims <= 1 /\ \E d : Rollouts = {d}

LEMMA JobTyped ==
    ASSUME NEW phase \in {"none", "queued"}, NEW number \in Nat
    PROVE  /\ Job(phase, number) \in JobRow /\ Job(phase, number).claims = 0
           /\ Job(phase, number).phase = phase
BY DEF Job, JobRow

\* The row of a job that is claimed.
Leased(job) == [job EXCEPT !.phase = "leased", !.claims = @ + 1]

LEMMA LeasedTyped ==
    ASSUME NEW job \in JobRow
    PROVE  Leased(job) \in JobRow /\ Leased(job).phase = "leased" /\ Leased(job).claims = job.claims + 1
<1> DEFINE n == job.claims + 1
<1>1. Leased(job) = [job EXCEPT !.phase = "leased", !.claims = n]
    BY DEF Leased
<1>2. n \in Nat
    BY DEF JobRow
<1> HIDE DEF n
<1>3. Leased(job) \in JobRow /\ Leased(job).phase = "leased" /\ Leased(job).claims = n
    BY <1>1, <1>2 DEF JobRow
<1> QED
    BY <1>3 DEF n

\* One row of one deployment's work changes.
LEMMA RowReplaced ==
    ASSUME WorkTyped, NEW d \in Rollouts, NEW k \in Kinds, NEW job \in JobRow,
           work' = [work EXCEPT ![d][k] = job]
    PROVE  /\ work' \in [Rollouts -> [Kinds -> JobRow]] /\ work'[d][k] = job
           /\ \A j \in Kinds \ {k} : work'[d][j] = work[d][j]
<1>1. work \in [Rollouts -> [Kinds -> JobRow]]
    BY DEF WorkTyped
<1> QED
    BY <1>1

LEMMA RollbackJobQueued ==
    ASSUME WorkTyped, NEW d \in Rollouts, NEW number \in Nat, work' = WithRollbackJob(d, number)
    PROVE  work' \in [Rollouts -> [Kinds -> JobRow]] /\ work'[d]["deploy"] = work[d]["deploy"]
<1>1. CASE work' = work
    BY <1>1 DEF WorkTyped
<1>2. CASE work' = [work EXCEPT ![d]["rollback"] = Job("queued", number)]
    <2>1. PICK job \in JobRow : job = Job("queued", number)
        BY JobTyped
    <2>2. work \in [Rollouts -> [Kinds -> JobRow]] /\ work' = [work EXCEPT ![d]["rollback"] = job]
        BY <1>2, <2>1 DEF WorkTyped
    <2> QED
        BY <2>2 DEF Kinds
<1> QED
    BY <1>1, <1>2 DEF WithRollbackJob

LEMMA VerdictInitially == RolloutInit => VerdictInv
<1> SUFFICES ASSUME RolloutInit PROVE VerdictInv
    OBVIOUS
<1>1. WorkTyped
    <2>1. work \in [Rollouts -> [Kinds -> JobRow]]
        BY JobTyped DEF RolloutInit
    <2> QED
        BY <2>1, RolloutAssumption DEF RolloutInit, WorkTyped, Stages, Ended, RollingBack
<1>2. ASSUME NEW d \in Rollouts PROVE VerdictOf(d)
    <2>1. /\ work[d]["deploy"].claims = 0 /\ work[d]["rollback"].phase = "none"
          /\ work[d]["deploy"].phase = "none"
          /\ stage[d] = "none" /\ previous[d] = Installed /\ ~overdue[d]
        BY DEF RolloutInit, Job, Kinds
    <2>2. doing.kind = "none"
        BY DEF RolloutInit, Unoccupied, None
    <2>3. DeployedOnce(d) /\ HelpersAre(d) /\ LateIsFinished(d) /\ ViewIsGood(d)
        BY <2>1, <2>2 DEF RolloutInit, DeployedOnce, HelpersAre, LateIsFinished, ViewIsGood
    <2>4. SeenLags(d) /\ OnwardInstalls(d) /\ BackIsBack(d)
        BY <2>1, <2>2 DEF RolloutInit, SeenLags, OnwardInstalls, BackIsBack, Onward, IsKept, RollingBack
    <2> QED
        BY <2>3, <2>4 DEF VerdictOf
<1> QED
    BY <1>1, <1>2 DEF VerdictInv, VerdictOf

\* A row is inserted: nothing has happened yet.
LEMMA InsertedVerdict ==
    ASSUME OneDeployment, WorkTyped, NEW d \in Rollouts, VerdictOf(d),
           NEW sha \in Artifacts, insertGateAgentDeployment(d, sha)
    PROVE  WorkTyped' /\ VerdictOf(d)'
<1>1. stage[d] = "none" /\ work[d]["deploy"].claims = 0 /\ ~Executed(d)
    BY DEF insertGateAgentDeployment, VerdictOf, DeployedOnce, Executed
<1>2. seen.sha = Installed /\ running = Installed /\ failure = None /\ seen.failure = None
    BY <1>1 DEF VerdictOf, SeenLags, Over, Finished
<1>3. \A u \in helpers : u.kind = "rollback" /\ u.row = d /\ u.at = "scheduled" /\ u.sha = Installed
    BY <1>1 DEF VerdictOf, HelpersAre
<1>4. /\ view # NoView => view.row = d /\ view.seen.sha = Installed /\ view.seen.failure = None
      /\ view # NoView => ~(view.stage = "verifying" /\ view.overdue)
      /\ view # NoView => ~(view.stage \in RollingBack /\ d \notin crossed)
    BY <1>1 DEF VerdictOf, ViewIsGood, Over, Finished, RollingBack
<1>5. /\ UNCHANGED <<doing, answers, helpers, running, failure, seen, view, overdue, rollbacks, crossed>>
      /\ stage' = [stage EXCEPT ![d] = "queued"] /\ target' = [target EXCEPT ![d] = sha]
      /\ previous' = [previous EXCEPT ![d] = seen.sha]
      /\ work' = [work EXCEPT ![d]["deploy"] = Job("queued", 0)]
    BY DEF insertGateAgentDeployment, hostVars, seenVars
<1>6. WorkTyped'
    <2>1. work' \in [Rollouts -> [Kinds -> JobRow]]
        BY <1>5, JobTyped, RowReplaced DEF Kinds
    <2> QED
        BY <1>2, <1>5, <2>1, RolloutAssumption DEF WorkTyped, Stages
<1>7. /\ work'[d]["deploy"].claims = 0 /\ work'[d]["rollback"] = work[d]["rollback"]
      /\ stage'[d] = "queued" /\ target'[d] = sha
    BY <1>5 DEF WorkTyped, Job, Kinds
<1>8. DeployedOnce(d)' /\ LateIsFinished(d)'
    BY <1>1, <1>5, <1>7 DEF VerdictOf, DeployedOnce, LateIsFinished, Executed
<1>9. HelpersAre(d)' /\ SeenLags(d)'
    BY <1>2, <1>3, <1>5, <1>7 DEF HelpersAre, SeenLags, Waits, Tries
<1>10. OnwardInstalls(d)' /\ BackIsBack(d)' /\ ViewIsGood(d)'
    BY <1>1, <1>2, <1>3, <1>4, <1>5, <1>7
    DEF VerdictOf, OnwardInstalls, BackIsBack, ViewIsGood, Onward, RollingBack, Tries
<1> QED
    BY <1>6, <1>8, <1>9, <1>10 DEF VerdictOf

\* A step that leaves rows, host and view alone, starts no rollback of its own and is
\* not through with less of the deploy job than before.
LEMMA JobsKeepVerdict ==
    ASSUME OneDeployment, WorkTyped, NEW d \in Rollouts, VerdictOf(d), DeployedOnce(d)', WorkTyped',
           UNCHANGED <<stage, target, previous, overdue, hostVars, seen, view, crossed>>,
           Executed(d) => Executed(d)',
           Onward(d) => /\ work'[d]["rollback"].phase = "none" /\ doing'.kind # "rollback"
                        /\ \A a \in answers' : a.kind # "rollback"
    PROVE  VerdictOf(d)'
<1> USE DEF hostVars
<1>1. HelpersAre(d)' /\ SeenLags(d)' /\ LateIsFinished(d)'
    BY DEF VerdictOf, HelpersAre, SeenLags, LateIsFinished, Over, Finished, Waits, Tries
<1>2. OnwardInstalls(d)' /\ BackIsBack(d)'
    BY DEF VerdictOf, OnwardInstalls, BackIsBack, Onward, IsKept, Waits, Tries
<1>3. ViewIsGood(d)'
    BY DEF VerdictOf, ViewIsGood, Onward, IsKept, Over, Finished, Waits, Tries
<1> QED
    BY <1>1, <1>2, <1>3 DEF VerdictOf

\* A job is claimed: the deploy job for the only time.
LEMMA ClaimedVerdict ==
    ASSUME OneDeployment, WorkTyped, NEW d \in Rollouts, VerdictOf(d),
           NEW k \in Kinds, ClaimRolloutJob(d, k)
    PROVE  WorkTyped' /\ VerdictOf(d)'
<1>1. /\ doing = Unoccupied /\ work[d][k].phase = "queued" /\ work[d][k].claims < MaxClaims
      /\ work' = [work EXCEPT ![d][k].phase = "leased", ![d][k].claims = @ + 1]
      /\ doing' = [kind |-> k, row |-> d, number |-> work[d][k].number,
                  claim |-> work[d][k].claims + 1]
      /\ UNCHANGED <<rowVars, answers, hostVars, seenVars, view, crossed>>
    BY DEF ClaimRolloutJob
<1>2. work[d][k].claims = 0
    <2>1. work[d][k].claims \in Nat
        BY DEF WorkTyped, JobRow
    <2> QED
        BY <1>1, <2>1, RolloutAssumption DEF OneDeployment
<1> DEFINE job == Leased(work[d][k])
<1>3. job \in JobRow /\ job.claims = 1 /\ job.phase = "leased"
    <2>1. work[d][k] \in JobRow
        BY DEF WorkTyped
    <2> QED
        BY <1>2, <2>1, LeasedTyped
<1>4. work' = [work EXCEPT ![d][k] = job]
    BY <1>1 DEF WorkTyped, Leased
<1> HIDE DEF job
<1>5. /\ WorkTyped' /\ work'[d][k].claims = 1 /\ work'[d][k].phase = "leased"
      /\ \A j \in Kinds \ {k} : work'[d][j] = work[d][j]
      /\ doing'.kind = k /\ doing'.row = d /\ doing'.claim = 1
    <2>1. /\ work' \in [Rollouts -> [Kinds -> JobRow]] /\ work'[d][k] = job
          /\ \A j \in Kinds \ {k} : work'[d][j] = work[d][j]
        BY <1>3, <1>4, RowReplaced
    <2>2. WorkTyped'
        BY <1>1, <2>1 DEF WorkTyped, rowVars
    <2> QED
        BY <1>1, <1>2, <1>3, <2>1, <2>2
<1>6. k = "deploy" => ~Executed(d)
    BY <1>2 DEF Executed
<1>7. Executed(d) => Executed(d)'
    BY <1>5, <1>6 DEF Executed, Kinds
<1>8. k = "deploy" => stage[d] # "none" /\ stage[d] # "verifying"
    BY <1>1, <1>6 DEF VerdictOf, DeployedOnce
<1>9. DeployedOnce(d)'
    <2>1. k = "rollback" => work'[d]["deploy"] = work[d]["deploy"]
        BY <1>5 DEF Kinds
    <2>2. stage' = stage /\ answers' = answers /\ k \in {"deploy", "rollback"}
        BY <1>1 DEF rowVars, Kinds
    <2>3. \A a \in answers' : a.row = d /\ a.kind \in Kinds /\ (a.kind = "deploy" => Executed(d)')
        BY <1>7, <2>2 DEF VerdictOf, DeployedOnce
    <2>4. stage'[d] = "verifying" => Executed(d)'
        BY <1>7, <2>2 DEF VerdictOf, DeployedOnce
    <2>5. stage'[d] = "none" => work'[d]["deploy"].claims = 0 /\ work'[d]["deploy"].phase = "none"
        BY <1>8, <2>1, <2>2 DEF VerdictOf, DeployedOnce
    <2>6. doing'.kind = "deploy" => work'[d]["deploy"].claims # 0 /\ doing'.claim = 1
        BY <1>5
    <2> QED
        BY <1>5, <2>3, <2>4, <2>5, <2>6 DEF DeployedOnce
<1>10. Onward(d) => k = "deploy"
    BY <1>1 DEF VerdictOf, OnwardInstalls, Kinds
<1> QED
    BY <1>1, <1>5, <1>7, <1>9, <1>10, JobsKeepVerdict
    DEF VerdictOf, OnwardInstalls, Kinds, rowVars, seenVars

\* A lease expires: the job may be claimed again, if it were claimed at all.
LEMMA ExpiredVerdict ==
    ASSUME OneDeployment, WorkTyped, NEW d \in Rollouts, VerdictOf(d),
           NEW k \in Kinds, ExpireRolloutLease(d, k)
    PROVE  WorkTyped' /\ VerdictOf(d)'
<1>1. /\ work[d][k].phase = "leased" /\ work' = [work EXCEPT ![d][k].phase = "queued"]
      /\ UNCHANGED <<rowVars, doing, answers, hostVars, seenVars, view, crossed>>
    BY DEF ExpireRolloutLease
<1> DEFINE job == [work[d][k] EXCEPT !.phase = "queued"]
<1>2. /\ job \in JobRow /\ job.claims = work[d][k].claims
      /\ work' = [work EXCEPT ![d][k] = job]
    <2>1. work[d][k] \in JobRow
        BY DEF WorkTyped
    <2>2. job \in JobRow /\ job.claims = work[d][k].claims
        BY <2>1 DEF JobRow
    <2> QED
        BY <1>1, <2>2 DEF WorkTyped
<1> HIDE DEF job
<1>3. WorkTyped' /\ work'[d][k] = job /\ \A j \in Kinds \ {k} : work'[d][j] = work[d][j]
    <2>1. /\ work' \in [Rollouts -> [Kinds -> JobRow]] /\ work'[d][k] = job
          /\ \A j \in Kinds \ {k} : work'[d][j] = work[d][j]
        BY <1>2, RowReplaced
    <2> QED
        BY <1>1, <2>1 DEF WorkTyped, rowVars
<1>4. /\ work'[d]["deploy"].claims = work[d]["deploy"].claims
      /\ work[d]["deploy"].phase = "none" => work'[d]["deploy"].phase = "none"
    BY <1>1, <1>2, <1>3 DEF Kinds
<1>5. Onward(d) => work'[d]["rollback"] = work[d]["rollback"]
    BY <1>1, <1>3 DEF Kinds, VerdictOf, OnwardInstalls
<1>6. Executed(d)' <=> Executed(d)
    BY <1>1, <1>4 DEF Executed
<1>7. DeployedOnce(d)'
    BY <1>1, <1>4, <1>6 DEF VerdictOf, DeployedOnce, rowVars
<1> QED
    BY <1>1, <1>3, <1>5, <1>6, <1>7, JobsKeepVerdict DEF VerdictOf, OnwardInstalls, rowVars, seenVars

\* The deploy job's helper is scheduled: nothing has been installed so far.
LEMMA ExecutedVerdict ==
    ASSUME OneDeployment, WorkTyped, NEW d \in Rollouts, VerdictOf(d),
           ExecuteRollout \/ \E status \in {"retryable_failed", "failed"} : ExecuteRolloutFails(status)
    PROVE  WorkTyped' /\ VerdictOf(d)'
<1>1. /\ doing # Unoccupied /\ doing' = Unoccupied
      /\ UNCHANGED <<rowVars, work, running, up, health, failure, seenVars, view, crossed>>
      /\ \E status \in {"succeeded", "retryable_failed", "failed"} : Answer(status)
    BY DEF ExecuteRollout, ExecuteRolloutFails, hostVars
<1>2. doing.kind \in Kinds /\ doing.row = d /\ doing'.kind = "none"
    BY <1>1 DEF VerdictOf, DeployedOnce, Unoccupied, None
<1>3. WorkTyped'
    BY <1>1 DEF WorkTyped, rowVars
<1>4. \A a \in answers' : a \in answers \/ (a.kind = doing.kind /\ a.row = d)
    BY <1>1, <1>2 DEF Answer
<1>5. doing.kind = "deploy" => Executed(d)' /\ ~Executed(d)
    BY <1>1, <1>2 DEF VerdictOf, DeployedOnce, Executed
<1>6. Executed(d) => Executed(d)'
    BY <1>1, <1>2 DEF Executed
<1>7. DeployedOnce(d)'
    BY <1>1, <1>2, <1>4, <1>5, <1>6 DEF VerdictOf, DeployedOnce, rowVars
<1>8. Onward(d) => /\ work'[d]["rollback"].phase = "none" /\ doing'.kind # "rollback"
                   /\ \A a \in answers' : a.kind # "rollback"
    BY <1>1, <1>2, <1>4 DEF VerdictOf, OnwardInstalls
<1>9. CASE helpers' = helpers
    BY <1>1, <1>3, <1>6, <1>7, <1>8, <1>9, JobsKeepVerdict DEF rowVars, hostVars, seenVars
<1>10. CASE /\ running # Wanted(d, doing.kind)
            /\ doing.kind = "deploy" => stage[d] \in {"queued", "verifying"}
            /\ helpers' = helpers \cup {[kind |-> doing.kind, row |-> d, claim |-> doing.claim,
                                         at |-> "scheduled", sha |-> Wanted(d, doing.kind),
                                         back |-> None]}
  <2>1. CASE doing.kind = "rollback"
    <3>1. ~Onward(d) /\ previous[d] = Installed
        BY <2>1 DEF VerdictOf, OnwardInstalls, WorkTyped
    <3>2. \A u \in helpers' :
            u \in helpers \/ (u.kind = "rollback" /\ u.row = d /\ u.at = "scheduled" /\ u.sha = Installed)
        BY <1>10, <2>1, <3>1 DEF Wanted
    <3>3. /\ Waits(d)' \in helpers' <=> Waits(d) \in helpers
          /\ Tries(d)' \in helpers' <=> Tries(d) \in helpers
        BY <1>1, <1>10, <2>1 DEF Waits, Tries, rowVars
    <3>4. Waits(d)' = Waits(d) /\ Tries(d)' = Tries(d)
        BY <1>1 DEF Waits, Tries, rowVars
    <3>5. (Over(d) => Over(d)') /\ (Finished(d) => Finished(d)')
        BY <1>6, <3>3 DEF Over, Finished
    <3>6. HelpersAre(d)' /\ SeenLags(d)' /\ LateIsFinished(d)'
        BY <1>1, <1>6, <3>2, <3>3, <3>4, <3>5 DEF VerdictOf, HelpersAre, SeenLags, LateIsFinished,
            rowVars, seenVars
    <3>7. OnwardInstalls(d)' /\ BackIsBack(d)' /\ ViewIsGood(d)'
        BY <1>1, <3>1, <3>3, <3>4, <3>5 DEF VerdictOf, OnwardInstalls, BackIsBack, ViewIsGood, Onward,
            rowVars, seenVars
    <3> QED
        BY <1>3, <1>7, <3>6, <3>7 DEF VerdictOf
  <2>2. CASE doing.kind = "deploy"
    <3>1. helpers' = helpers \cup {Waits(d)} /\ running # target[d] /\ stage[d] \in {"queued", "verifying"}
        BY <1>10, <2>2 DEF VerdictOf, DeployedOnce, Waits, Wanted
    <3>2. Waits(d) \notin helpers /\ Tries(d) \notin helpers /\ ~Executed(d)
        BY <1>5, <2>2 DEF VerdictOf, HelpersAre
    <3>3. /\ running = Installed /\ seen.sha = Installed /\ failure = None /\ seen.failure = None
          /\ target[d] # Installed
        BY <3>1, <3>2 DEF VerdictOf, SeenLags, Over, Finished
    <3>4. /\ view # NoView => view.row = d /\ view.seen.sha = Installed /\ view.seen.failure = None
          /\ view # NoView => ~(view.stage = "verifying" /\ view.overdue)
          /\ view # NoView => ~(view.stage \in RollingBack /\ d \notin crossed)
        BY <3>1, <3>2 DEF VerdictOf, ViewIsGood, Over, Finished, RollingBack
    <3>5. /\ Waits(d)' = Waits(d) /\ Tries(d)' = Tries(d) /\ Tries(d) \notin helpers'
          /\ Waits(d) \in helpers'
        BY <1>1, <3>1, <3>2 DEF Waits, Tries, rowVars
    <3>6. HelpersAre(d)' /\ SeenLags(d)'
        BY <1>1, <1>5, <2>2, <3>1, <3>3, <3>5 DEF VerdictOf, HelpersAre, SeenLags, rowVars, seenVars
    <3>7. ~(stage[d] = "verifying")
        BY <3>2 DEF VerdictOf, DeployedOnce
    <3>8. LateIsFinished(d)' /\ BackIsBack(d)' /\ ViewIsGood(d)'
        BY <1>1, <3>1, <3>3, <3>4, <3>7 DEF LateIsFinished, BackIsBack, ViewIsGood, RollingBack,
            rowVars, seenVars
    <3>9. OnwardInstalls(d)'
        BY <1>1, <1>8, <3>1, <3>3, <3>5 DEF VerdictOf, OnwardInstalls, Onward, IsKept, Waits,
            rowVars, seenVars
    <3> QED
        BY <1>3, <1>7, <3>6, <3>8, <3>9 DEF VerdictOf
  <2> QED
    BY <1>2, <2>1, <2>2 DEF Kinds
<1> QED
    BY <1>2, <1>9, <1>10 DEF ExecuteRollout, ExecuteRolloutFails, hostVars

\* A report is lost.
LEMMA LostVerdict ==
    ASSUME OneDeployment, WorkTyped, NEW d \in Rollouts, VerdictOf(d),
           NEW answer \in answers, LoseAnswer(answer)
    PROVE  WorkTyped' /\ VerdictOf(d)'
<1>1. answers' \subseteq answers /\ UNCHANGED <<rowVars, work, doing, hostVars, seenVars, view, crossed>>
    BY DEF LoseAnswer
<1>2. WorkTyped'
    BY <1>1 DEF WorkTyped, rowVars
<1>3. DeployedOnce(d)' /\ (Executed(d) => Executed(d)')
    BY <1>1 DEF VerdictOf, DeployedOnce, Executed, rowVars
<1> QED
    BY <1>1, <1>2, <1>3, JobsKeepVerdict DEF VerdictOf, OnwardInstalls, rowVars, seenVars

\* The row moves, while nothing happens on the host: it does not go on again once it has
\* turned back, and what is said of a rollback and of its end holds where it moved to.
LEMMA RowMovesVerdict ==
    ASSUME NEW d \in Rollouts, VerdictOf(d), DeployedOnce(d)',
           UNCHANGED <<target, doing, hostVars, seen>>,
           Executed(d) => Executed(d)',
           d \in crossed => d \in crossed',
           Onward(d)' => /\ Onward(d) /\ work'[d]["rollback"].phase = "none" /\ answers' \subseteq answers
                         /\ stage'[d] = "succeeded" => running = target[d] \/ failure = target[d],
           BackIsBack(d)', LateIsFinished(d)',
           \/ view' = NoView
           \/ /\ view' = view
              /\ stage[d] \in RollingBack \cup {"rolled_back", "failed"} /\ d \notin crossed' =>
                    stage'[d] \in RollingBack \cup {"rolled_back", "failed"}
    PROVE  VerdictOf(d)'
<1> USE DEF hostVars
<1>1. Waits(d)' = Waits(d) /\ Tries(d)' = Tries(d)
    BY DEF Waits, Tries
<1>2. (Over(d) => Over(d)') /\ (Finished(d) => Finished(d)')
    BY <1>1 DEF Over, Finished
<1>3. HelpersAre(d)' /\ SeenLags(d)'
    BY <1>1, <1>2 DEF VerdictOf, HelpersAre, SeenLags
<1>4. OnwardInstalls(d)'
    BY <1>1 DEF VerdictOf, OnwardInstalls, IsKept
<1>5. ViewIsGood(d)'
    BY <1>2 DEF VerdictOf, ViewIsGood, IsKept
<1> QED
    BY <1>3, <1>4, <1>5 DEF VerdictOf

\* A report is recorded.
LEMMA DeliveredVerdict ==
    ASSUME OneDeployment, WorkTyped, NEW d \in Rollouts, VerdictOf(d),
           NEW answer \in answers, DeliverAnswer(answer)
    PROVE  WorkTyped' /\ VerdictOf(d)'
<1> DEFINE k == answer.kind
           job == work[d][k]
<1>1. answer.row = d /\ k \in Kinds /\ (k = "deploy" => Executed(d))
    BY DEF VerdictOf, DeployedOnce
<1>2. /\ answers' \subseteq answers
      /\ work' = work \/ work' = [work EXCEPT ![d][k] = Reported(answer, job)]
      /\ crossed' = Crossed(k = "deploy" /\ stage[d] \in RollingBack, d)
      /\ UNCHANGED <<target, previous, rollbacks, doing, hostVars, seen, view>>
    BY <1>1 DEF DeliverAnswer, seenVars
<1>3. /\ Reported(answer, job) \in JobRow
      /\ Reported(answer, job).claims = job.claims
    <2>1. job \in JobRow
        BY <1>1 DEF WorkTyped
    <2>2. ASSUME NEW x \in JobRow
          PROVE  /\ Reported(answer, x) \in JobRow
                 /\ Reported(answer, x).claims = x.claims
        <3> DEFINE phase == CASE answer.status = "succeeded" -> "done"
                              [] Terminal(answer, x) -> "dead"
                              [] OTHER -> "queued"
                   n == IF answer.status = "retryable_failed" THEN x.retries + 1 ELSE x.retries
        <3>1. Reported(answer, x) = [x EXCEPT !.phase = phase, !.retries = n]
            BY DEF Reported
        <3>2. phase \in {"queued", "done", "dead"} /\ n \in Nat
            BY DEF JobRow
        <3> HIDE DEF phase, n
        <3> QED
            BY <3>1, <3>2 DEF JobRow
    <2> QED
        BY <2>1, <2>2
<1>4. /\ work'[d]["deploy"].claims = work[d]["deploy"].claims
      /\ \A j \in Kinds \ {k} : work'[d][j] = work[d][j]
      /\ work' \in [Rollouts -> [Kinds -> JobRow]]
    BY <1>1, <1>2, <1>3 DEF WorkTyped, Kinds
<1>5. \/ stage'[d] = stage[d] /\ stage' = stage /\ overdue' = overdue
      \/ /\ stage[d] \notin Ended /\ stage' \in [Rollouts -> Stages] /\ overdue' \in [Rollouts -> BOOLEAN]
         /\ ~overdue'[d]
         /\ stage'[d] \in {"verifying", "rolling_back", "failed"}
         /\ stage'[d] = "verifying" => k = "deploy"
         /\ stage'[d] = "rolling_back" => k = "rollback"
    <2>1. ASSUME NEW phase \in {"verifying", "rolling_back", "failed"}, markDeploymentJobReported(d, phase)
          PROVE  \/ stage' = stage /\ overdue' = overdue
                 \/ /\ stage[d] \notin Ended /\ stage' \in [Rollouts -> Stages]
                    /\ overdue' \in [Rollouts -> BOOLEAN]
                    /\ ~overdue'[d] /\ stage'[d] = phase
        BY <2>1 DEF markDeploymentJobReported, WorkTyped, Stages, Ended, RollingBack
    <2>2. \/ k = "deploy" /\ markDeploymentJobReported(d, "verifying")
          \/ k = "rollback" /\ markDeploymentJobReported(d, "rolling_back")
          \/ markDeploymentJobReported(d, "failed")
          \/ stage' = stage /\ overdue' = overdue
        BY <1>1 DEF DeliverAnswer
    <2> QED
        BY <2>1, <2>2
<1>6. WorkTyped'
    BY <1>2, <1>4, <1>5 DEF WorkTyped
<1>7. Executed(d)' <=> Executed(d)
    BY <1>2, <1>4 DEF Executed
<1>8. d \in crossed => d \in crossed'
    BY <1>2 DEF Crossed
<1>9. k = "deploy" /\ d \notin crossed' => stage[d] \notin RollingBack
    BY <1>2 DEF Crossed
<1>10. stage[d] \in Stages
    BY DEF WorkTyped
<1>11. Onward(d) => k = "deploy"
    BY <1>1 DEF VerdictOf, OnwardInstalls, Kinds
<1>12. Onward(d)' => Onward(d) /\ (stage'[d] = "succeeded" => stage[d] = "succeeded")
    BY <1>5, <1>8, <1>9, <1>10 DEF Onward, Stages, RollingBack, Ended
<1>13. DeployedOnce(d)'
    <2>1. k = "rollback" => work'[d]["deploy"] = work[d]["deploy"]
        BY <1>4 DEF Kinds
    <2>2. k = "deploy" => stage[d] # "none"
        BY <1>1 DEF VerdictOf, DeployedOnce, Executed
    <2>3. stage'[d] = "none" => work'[d]["deploy"].claims = 0 /\ work'[d]["deploy"].phase = "none"
        BY <1>1, <1>5, <2>1, <2>2 DEF VerdictOf, DeployedOnce, Kinds
    <2>4. stage'[d] = "verifying" => Executed(d)'
        BY <1>1, <1>5, <1>7 DEF VerdictOf, DeployedOnce
    <2> QED
        BY <1>2, <1>4, <1>7, <2>3, <2>4 DEF VerdictOf, DeployedOnce
<1>14. LateIsFinished(d)'
    BY <1>2, <1>5, <1>7 DEF VerdictOf, LateIsFinished, Finished, Over, Waits, Tries, hostVars
<1>15. stage'[d] \in RollingBack \cup {"rolled_back"} /\ d \notin crossed' =>
          /\ stage[d] \in RollingBack \cup {"rolled_back"} /\ d \notin crossed
          /\ stage'[d] = "rolled_back" => stage[d] = "rolled_back"
    BY <1>5, <1>8, <1>10, <1>11 DEF Onward, Stages, RollingBack, Ended
<1>16. BackIsBack(d)'
    BY <1>2, <1>15 DEF VerdictOf, BackIsBack, Waits, hostVars
<1>17. stage[d] \in RollingBack \cup {"rolled_back", "failed"} /\ d \notin crossed' =>
          stage'[d] \in RollingBack \cup {"rolled_back", "failed"}
    BY <1>5, <1>9 DEF RollingBack, Ended
<1>18. Onward(d)' => work'[d]["rollback"].phase = "none"
    BY <1>4, <1>11, <1>12 DEF VerdictOf, OnwardInstalls, Kinds
<1>19. Onward(d)' /\ stage'[d] = "succeeded" => running = target[d] \/ failure = target[d]
    BY <1>12 DEF VerdictOf, OnwardInstalls
<1> QED
    BY <1>2, <1>6, <1>7, <1>8, <1>12, <1>13, <1>14, <1>16, <1>17, <1>18, <1>19, RowMovesVerdict

\* What a helper's step leaves alone, and which helper takes it.
LEMMA HelperMoves ==
    ASSUME WorkTyped, NEW d \in Rollouts, VerdictOf(d),
           UNCHANGED <<rowVars, work, answers>>, doing' = doing \/ doing' = Unoccupied
    PROVE  /\ WorkTyped'
           /\ DeployedOnce(d)'
           /\ Waits(d)' = Waits(d) /\ Tries(d)' = Tries(d)
           /\ Executed(d) => Executed(d)'
           /\ doing'.kind = "rollback" => doing.kind = "rollback"
           /\ \A u \in helpers :
                 /\ u.row = d
                 /\ u.kind = "deploy" /\ u.at = "scheduled" => u = Waits(d)
                 /\ u.at = "waiting" => u = Tries(d)
                 /\ u.kind = "rollback" => u \notin {Waits(d), Tries(d)} /\ u.sha = Installed
                 /\ u.at = "scheduled" => u # Tries(d)
<1>1. WorkTyped'
    BY DEF WorkTyped, rowVars
<1>2. Waits(d)' = Waits(d) /\ Tries(d)' = Tries(d)
    BY DEF Waits, Tries, rowVars
<1>3. Executed(d) => Executed(d)'
    BY DEF Executed, Unoccupied, None
<1>4. doing' = Unoccupied => doing'.kind = "none"
    BY DEF Unoccupied, None
<1>5. DeployedOnce(d)'
    BY <1>3, <1>4 DEF VerdictOf, DeployedOnce, rowVars
<1>6. \A u \in helpers :
         /\ u.row = d
         /\ u.kind = "deploy" /\ u.at = "scheduled" => u = Waits(d)
         /\ u.at = "waiting" => u = Tries(d)
         /\ u.kind = "rollback" => u \notin {Waits(d), Tries(d)} /\ u.sha = Installed
         /\ u.at = "scheduled" => u # Tries(d)
    BY DEF VerdictOf, HelpersAre, Waits, Tries
<1> QED
    BY <1>1, <1>2, <1>3, <1>4, <1>5, <1>6

\* A helper gives up: it has changed nothing.
LEMMA GivenUpVerdict ==
    ASSUME WorkTyped, NEW d \in Rollouts, VerdictOf(d), NEW u, HelperGivesUp(u)
    PROVE  WorkTyped' /\ VerdictOf(d)'
<1>1. /\ u \in helpers /\ u.at = "scheduled" /\ helpers' = helpers \ {u}
      /\ UNCHANGED <<stage, target, overdue, work, answers, seen, view, doing, running, failure, crossed>>
      /\ UNCHANGED <<rowVars, work, answers>>
    BY DEF HelperGivesUp, Others, rowVars, seenVars
<1>2. /\ WorkTyped' /\ DeployedOnce(d)' /\ Waits(d)' = Waits(d) /\ Tries(d)' = Tries(d)
      /\ Executed(d) => Executed(d)'
      /\ u # Tries(d)
    BY <1>1, HelperMoves
<1>3. (Over(d) => Over(d)') /\ (Finished(d) => Finished(d)') /\ (Tries(d)' \in helpers' <=> Tries(d) \in helpers)
    BY <1>1, <1>2 DEF Over, Finished
<1>4. HelpersAre(d)' /\ SeenLags(d)' /\ LateIsFinished(d)'
    BY <1>1, <1>2, <1>3 DEF VerdictOf, HelpersAre, SeenLags, LateIsFinished
<1>5. OnwardInstalls(d)' /\ BackIsBack(d)'
    BY <1>1, <1>2, <1>3 DEF VerdictOf, OnwardInstalls, BackIsBack, Onward, IsKept
<1>6. ViewIsGood(d)'
    BY <1>1, <1>3 DEF VerdictOf, ViewIsGood, Onward, IsKept
<1> QED
    BY <1>2, <1>4, <1>5, <1>6 DEF VerdictOf

\* The target is installed, for the only time.
LEMMA InstalledVerdict ==
    ASSUME WorkTyped, NEW d \in Rollouts, VerdictOf(d), NEW u, NEW starts, NEW outcome,
           Install(u, starts, outcome)
    PROVE  WorkTyped' /\ VerdictOf(d)'
<1>1. /\ u \in helpers /\ u.kind = "deploy" /\ u.at = "scheduled"
      /\ helpers' = (helpers \ {u}) \cup {[u EXCEPT !.at = "waiting", !.back = running]}
      /\ running' = u.sha /\ doing' = Unoccupied
      /\ crossed' = Crossed(view # NoView, u.row)
      /\ UNCHANGED <<stage, target, overdue, work, answers, seen, view, failure>>
      /\ UNCHANGED <<rowVars, work, answers>>
    BY DEF Install, Swap, Others, rowVars, seenVars
<1>2. /\ WorkTyped' /\ DeployedOnce(d)' /\ Waits(d)' = Waits(d) /\ Tries(d)' = Tries(d)
      /\ Executed(d) => Executed(d)'
      /\ u = Waits(d) /\ u.row = d
      /\ doing'.kind = "rollback" => doing.kind = "rollback"
    BY <1>1, HelperMoves
<1>3. /\ running = Installed /\ seen.sha = Installed /\ failure = None /\ seen.failure = None
      /\ ~Over(d) /\ ~Finished(d) /\ Executed(d) /\ target[d] # Installed /\ Tries(d) \notin helpers
    BY <1>1, <1>2 DEF VerdictOf, SeenLags, HelpersAre, Over, Finished
<1>4. running' = target[d] /\ helpers' = (helpers \ {Waits(d)}) \cup {Tries(d)} /\ Waits(d) # Tries(d)
    <2>1. [Waits(d) EXCEPT !.at = "waiting", !.back = Installed] = Tries(d)
        <3> DEFINE w == [Waits(d) EXCEPT !.at = "waiting"]
        <3>1. w = [kind |-> "deploy", row |-> d, claim |-> 1, at |-> "waiting",
                   sha |-> target[d], back |-> None]
            BY DEF Waits
        <3>2. [Waits(d) EXCEPT !.at = "waiting", !.back = Installed] = [w EXCEPT !.back = Installed]
            BY DEF Waits
        <3> HIDE DEF w
        <3> QED
            BY <3>1, <3>2 DEF Tries
    <2>2. Waits(d).sha = target[d] /\ Waits(d).at = "scheduled" /\ Tries(d).at = "waiting"
        BY DEF Waits, Tries
    <2>3. running' = Waits(d).sha
          /\ helpers' = (helpers \ {Waits(d)}) \cup {[Waits(d) EXCEPT !.at = "waiting", !.back = Installed]}
        BY <1>1, <1>2, <1>3
    <2> QED
        BY <2>1, <2>2, <2>3
<1>5. Over(d)'
    BY <1>2, <1>3, <1>4 DEF Over
<1>6. HelpersAre(d)' /\ SeenLags(d)'
    BY <1>1, <1>2, <1>3, <1>4, <1>5 DEF VerdictOf, HelpersAre, SeenLags
<1>7. (d \in crossed => d \in crossed') /\ (view # NoView => d \in crossed')
    BY <1>1, <1>2 DEF Crossed
<1>8. LateIsFinished(d)' /\ BackIsBack(d)'
    BY <1>1, <1>2, <1>3, <1>7 DEF VerdictOf, LateIsFinished, BackIsBack
<1>9. OnwardInstalls(d)'
    BY <1>1, <1>2, <1>3, <1>4, <1>7 DEF VerdictOf, OnwardInstalls, Onward, Tries
<1>10. ViewIsGood(d)'
    BY <1>1, <1>3, <1>7 DEF VerdictOf, ViewIsGood, Onward
<1> QED
    BY <1>2, <1>6, <1>8, <1>9, <1>10 DEF VerdictOf

\* The control plane has seen the target, and the helper ends.
LEMMA ConfirmedVerdict ==
    ASSUME WorkTyped, NEW d \in Rollouts, VerdictOf(d), NEW u, InstallConfirmed(u)
    PROVE  WorkTyped' /\ VerdictOf(d)'
<1>1. /\ u \in helpers /\ u.at = "waiting" /\ helpers' = helpers \ {u} /\ failure' = None
      /\ seen.sha = u.sha
      /\ UNCHANGED <<stage, target, overdue, work, answers, seen, view, doing, running, crossed>>
      /\ UNCHANGED <<rowVars, work, answers>>
    BY DEF InstallConfirmed, Others, rowVars, seenVars
<1>2. /\ WorkTyped' /\ DeployedOnce(d)' /\ Waits(d)' = Waits(d) /\ Tries(d)' = Tries(d)
      /\ Executed(d) => Executed(d)'
      /\ u = Tries(d)
    BY <1>1, HelperMoves
<1>3. seen.sha = target[d] /\ target[d] # Installed /\ ~Finished(d)
    BY <1>1, <1>2 DEF VerdictOf, HelpersAre, Finished, Tries
<1>4. (Over(d) => Over(d)') /\ (Finished(d) => Finished(d)') /\ failure = None /\ seen.failure = None
    BY <1>1, <1>2, <1>3 DEF VerdictOf, SeenLags, Over, Finished
<1>5. HelpersAre(d)' /\ SeenLags(d)' /\ LateIsFinished(d)'
    BY <1>1, <1>2, <1>3, <1>4 DEF VerdictOf, HelpersAre, SeenLags, LateIsFinished
<1>6. Onward(d) => running = target[d] /\ running # Installed
    BY <1>1, <1>2 DEF VerdictOf, OnwardInstalls, SeenLags
<1>7. OnwardInstalls(d)' /\ BackIsBack(d)'
    BY <1>1, <1>2, <1>6 DEF VerdictOf, OnwardInstalls, BackIsBack, Onward, IsKept
<1>8. ViewIsGood(d)'
    BY <1>1, <1>3, <1>4, <1>6 DEF VerdictOf, ViewIsGood, Onward, IsKept
<1> QED
    BY <1>2, <1>5, <1>7, <1>8 DEF VerdictOf

\* The helper puts the previous binary back, or fails at it; its failure is to be seen.
LEMMA UndoneVerdict ==
    ASSUME WorkTyped, NEW d \in Rollouts, VerdictOf(d), NEW u, NEW sha, NEW starts, NEW outcome,
           InstallUndone(u, sha, starts, outcome)
    PROVE  WorkTyped' /\ VerdictOf(d)'
<1>1. /\ u \in helpers /\ u.at = "waiting" /\ helpers' = helpers \ {u} /\ failure' = u.sha
      /\ running' = sha /\ sha \in {u.back, running} /\ doing' = Unoccupied
      /\ crossed' = Crossed(sha # u.back, u.row)
      /\ UNCHANGED <<stage, target, overdue, work, answers, seen, view>>
      /\ UNCHANGED <<rowVars, work, answers>>
    BY DEF InstallUndone, Swap, Others, rowVars, seenVars
<1>2. /\ WorkTyped' /\ DeployedOnce(d)' /\ Waits(d)' = Waits(d) /\ Tries(d)' = Tries(d)
      /\ Executed(d) => Executed(d)'
      /\ u = Tries(d) /\ u.row = d
      /\ doing'.kind = "rollback" => doing.kind = "rollback"
    BY <1>1, HelperMoves
<1>3. /\ failure' = target[d] /\ running' \in {Installed, running}
      /\ d \in crossed => d \in crossed'
      /\ d \notin crossed' => running' = Installed /\ crossed' = crossed
    BY <1>1, <1>2 DEF Tries, Crossed
<1>4. Executed(d) /\ Waits(d) \notin helpers /\ ~Finished(d) /\ Over(d)' /\ Finished(d)'
    BY <1>1, <1>2 DEF VerdictOf, HelpersAre, Finished, Over
<1>5. HelpersAre(d)' /\ SeenLags(d)' /\ LateIsFinished(d)'
    BY <1>1, <1>2, <1>3, <1>4 DEF VerdictOf, HelpersAre, SeenLags, LateIsFinished
<1>6. OnwardInstalls(d)' /\ BackIsBack(d)'
    BY <1>1, <1>2, <1>3 DEF VerdictOf, OnwardInstalls, BackIsBack, Onward, IsKept
<1>7. ViewIsGood(d)'
    BY <1>1, <1>3, <1>4 DEF VerdictOf, ViewIsGood, Onward, IsKept
<1> QED
    BY <1>2, <1>5, <1>6, <1>7 DEF VerdictOf

\* A rollback's helper swaps the binary.
LEMMA RolledBackVerdict ==
    ASSUME WorkTyped, NEW d \in Rollouts, VerdictOf(d), NEW u, NEW starts, NEW outcome,
           rollback_to(u, starts, outcome)
    PROVE  WorkTyped' /\ VerdictOf(d)'
<1>1. /\ u \in helpers /\ u.kind = "rollback" /\ helpers' = helpers \ {u}
      /\ running' = u.sha /\ doing' = Unoccupied
      /\ crossed' = Crossed(view # NoView, u.row)
      /\ UNCHANGED <<stage, target, overdue, work, answers, seen, view, failure>>
      /\ UNCHANGED <<rowVars, work, answers>>
    BY DEF rollback_to, Swap, Others, rowVars, seenVars
<1>2. /\ WorkTyped' /\ DeployedOnce(d)' /\ Waits(d)' = Waits(d) /\ Tries(d)' = Tries(d)
      /\ Executed(d) => Executed(d)'
      /\ u \notin {Waits(d), Tries(d)} /\ u.row = d /\ running' = Installed
    BY <1>1, HelperMoves
<1>3. (Over(d) => Over(d)') /\ (Finished(d) => Finished(d)') /\ (Tries(d)' \in helpers' <=> Tries(d) \in helpers)
    BY <1>1, <1>2 DEF Over, Finished
<1>4. HelpersAre(d)' /\ SeenLags(d)' /\ LateIsFinished(d)'
    BY <1>1, <1>2, <1>3 DEF VerdictOf, HelpersAre, SeenLags, LateIsFinished
<1>5. (d \in crossed => d \in crossed') /\ (view # NoView => d \in crossed')
    BY <1>1, <1>2 DEF Crossed
<1>6. ~Onward(d)' /\ BackIsBack(d)'
    BY <1>1, <1>2, <1>5 DEF VerdictOf, OnwardInstalls, BackIsBack, Onward
<1>7. OnwardInstalls(d)' /\ ViewIsGood(d)'
    BY <1>1, <1>2, <1>3, <1>5, <1>6 DEF VerdictOf, OnwardInstalls, ViewIsGood
<1> QED
    BY <1>2, <1>4, <1>6, <1>7 DEF VerdictOf

\* A heartbeat arrives: what is seen now is what is there.
LEMMA SeenVerdict ==
    ASSUME WorkTyped, NEW d \in Rollouts, VerdictOf(d), Heartbeat
    PROVE  WorkTyped' /\ VerdictOf(d)'
<1>1. /\ seen'.sha = running /\ seen'.failure = failure
      /\ UNCHANGED <<stage, target, previous, rollbacks, overdue, work, doing, answers, helpers,
                     running, failure, view, crossed>>
    BY DEF Heartbeat, hostVars
<1>2. WorkTyped' /\ DeployedOnce(d)'
    BY <1>1 DEF VerdictOf, WorkTyped, DeployedOnce, Executed
<1>3. /\ Waits(d)' = Waits(d) /\ Tries(d)' = Tries(d) /\ (Over(d)' <=> Over(d))
      /\ Finished(d)' <=> Finished(d)
    BY <1>1 DEF Waits, Tries, Over, Finished, Executed
<1>4. HelpersAre(d)' /\ SeenLags(d)' /\ LateIsFinished(d)'
    BY <1>1, <1>3 DEF VerdictOf, HelpersAre, SeenLags, LateIsFinished, Executed
<1>5. OnwardInstalls(d)' /\ BackIsBack(d)' /\ ViewIsGood(d)'
    BY <1>1, <1>3 DEF VerdictOf, OnwardInstalls, BackIsBack, ViewIsGood, Onward, IsKept
<1> QED
    BY <1>2, <1>4, <1>5 DEF VerdictOf

\* The deadline passes, when no helper is under way.
LEMMA LateVerdict ==
    ASSUME OneDeployment, WorkTyped, NEW d \in Rollouts, VerdictOf(d), DeadlinePasses(d)
    PROVE  WorkTyped' /\ VerdictOf(d)'
<1>1. /\ overdue' = [overdue EXCEPT ![d] = TRUE]
      /\ \A u \in helpers : u.row # d
      /\ UNCHANGED <<stage, target, previous, rollbacks, work, doing, answers, hostVars, seen, view, crossed>>
    BY DEF DeadlinePasses, OneDeployment, seenVars
<1>2. WorkTyped' /\ DeployedOnce(d)' /\ (Executed(d)' <=> Executed(d))
    BY <1>1 DEF VerdictOf, WorkTyped, DeployedOnce, Executed
<1>3. Waits(d) \notin helpers /\ Tries(d) \notin helpers /\ Waits(d)' = Waits(d) /\ Tries(d)' = Tries(d)
    BY <1>1 DEF Waits, Tries
<1>4. LateIsFinished(d)'
    BY <1>1, <1>2, <1>3 DEF VerdictOf, DeployedOnce, LateIsFinished, Finished, Over, hostVars
<1>5. BackIsBack(d)' /\ (Onward(d)' <=> Onward(d))
    BY <1>1, <1>3 DEF VerdictOf, BackIsBack, Onward, hostVars
<1>6. Onward(d) => work'[d]["rollback"].phase = "none" /\ (stage'[d] = "succeeded" => running = target[d] \/ failure = target[d])
    BY <1>1 DEF VerdictOf, OnwardInstalls
<1> QED
    BY <1>1, <1>2, <1>4, <1>5, <1>6, RowMovesVerdict DEF VerdictOf

\* The worker reads the row and what was last seen of its gate.
LEMMA ReadVerdict ==
    ASSUME WorkTyped, NEW d \in Rollouts, VerdictOf(d), listDeploymentsForReconcile(d)
    PROVE  WorkTyped' /\ VerdictOf(d)'
<1>1. /\ view' = [row |-> d, stage |-> stage[d], seen |-> seen, fresh |-> fresh[d],
                  connected |-> connected, overdue |-> overdue[d], rollbacks |-> rollbacks[d]]
      /\ UNCHANGED <<stage, target, previous, rollbacks, overdue, work, doing, answers, helpers,
                     running, failure, seen, crossed>>
    BY DEF listDeploymentsForReconcile, rowVars, hostVars, seenVars
<1>2. WorkTyped' /\ DeployedOnce(d)'
    BY <1>1 DEF VerdictOf, WorkTyped, DeployedOnce, Executed
<1>3. /\ Waits(d)' = Waits(d) /\ Tries(d)' = Tries(d) /\ (Over(d)' <=> Over(d))
      /\ Finished(d)' <=> Finished(d)
    BY <1>1 DEF Waits, Tries, Over, Finished, Executed
<1>4. HelpersAre(d)' /\ SeenLags(d)' /\ LateIsFinished(d)' /\ OnwardInstalls(d)' /\ BackIsBack(d)'
    BY <1>1, <1>3 DEF VerdictOf, HelpersAre, SeenLags, LateIsFinished, Executed, OnwardInstalls,
        BackIsBack, Onward, IsKept
<1>5. /\ view'.row = d /\ view'.seen = seen /\ view'.stage = stage[d] /\ view'.overdue = overdue[d]
    BY <1>1
<1>6. seen.sha # Installed => Over(d) /\ (Onward(d) => IsKept(d))
    BY DEF VerdictOf, SeenLags, OnwardInstalls
<1>7. stage[d] = "verifying" /\ overdue[d] =>
        Finished(d) /\ (seen.sha = Installed /\ d \notin crossed => running = Installed)
    BY DEF VerdictOf, LateIsFinished, SeenLags, Finished
<1>8. ViewIsGood(d)'
    BY <1>1, <1>3, <1>5, <1>6, <1>7 DEF VerdictOf, ViewIsGood, SeenLags, BackIsBack, Onward, IsKept
<1> QED
    BY <1>2, <1>4, <1>8 DEF VerdictOf

\* A rollback is requested, when the target is installed or no helper is left to do so.
LEMMA RequestedVerdict ==
    ASSUME WorkTyped, NEW d \in Rollouts, VerdictOf(d), requestDeploymentRollback(d),
           UNCHANGED <<doing, answers, hostVars, seen>>, view' = view \/ view' = NoView,
           d \in crossed => d \in crossed',
           d \notin crossed' => Waits(d) \notin helpers /\ (running # Installed => seen.sha # Installed)
    PROVE  WorkTyped' /\ VerdictOf(d)'
<1>1. /\ stage' = [stage EXCEPT ![d] = "rollback_requested"]
      /\ rollbacks' = [rollbacks EXCEPT ![d] = 1] /\ overdue' = [overdue EXCEPT ![d] = FALSE]
      /\ work' = WithRollbackJob(d, 1) /\ UNCHANGED <<target, previous>>
      /\ stage[d] \in {"succeeded", "verifying", "failed"}
    BY DEF requestDeploymentRollback, Rollbackable
<1>2. WorkTyped' /\ work'[d]["deploy"] = work[d]["deploy"]
    <2>1. work' \in [Rollouts -> [Kinds -> JobRow]] /\ work'[d]["deploy"] = work[d]["deploy"]
        BY <1>1, RollbackJobQueued
    <2> QED
        BY <1>1, <2>1 DEF WorkTyped, Stages, RollingBack
<1>3. stage'[d] = "rollback_requested"
    BY <1>1 DEF WorkTyped
<1>4. Executed(d)' <=> Executed(d)
    BY <1>2 DEF Executed
<1>5. DeployedOnce(d)' /\ LateIsFinished(d)' /\ ~Onward(d)'
    BY <1>2, <1>3, <1>4 DEF VerdictOf, DeployedOnce, LateIsFinished, Onward
<1>6. BackIsBack(d)'
    BY <1>1, <1>3 DEF BackIsBack, Waits, hostVars
<1>7. stage'[d] \in RollingBack \cup {"rolled_back", "failed"}
    BY <1>3 DEF RollingBack
<1> QED
    BY <1>1, <1>2, <1>4, <1>5, <1>6, <1>7, RowMovesVerdict

\* The worker's verdict moves the row to its end.
LEMMA MovedVerdict ==
    ASSUME WorkTyped, NEW d \in Rollouts, VerdictOf(d), view.row = d, view' = NoView,
           UNCHANGED <<doing, answers, hostVars, seen, crossed>>,
           NEW phases \in SUBSET ({"queued", "verifying"} \cup RollingBack),
           NEW phase \in {"succeeded", "rolled_back", "failed"}, Move(phases, phase),
           phase = "succeeded" => /\ phases = {"verifying"}
                                  /\ Onward(d) => running = target[d] \/ failure = target[d],
           phase = "rolled_back" /\ d \notin crossed /\ stage[d] \in phases =>
              Waits(d) \notin helpers /\ running = Installed
    PROVE  WorkTyped' /\ VerdictOf(d)'
<1>1. /\ stage' = IF stage[d] \in phases THEN [stage EXCEPT ![d] = phase] ELSE stage
      /\ UNCHANGED <<target, previous, rollbacks, overdue, work>>
    BY DEF Move
<1>2. WorkTyped' /\ stage'[d] = IF stage[d] \in phases THEN phase ELSE stage[d]
    BY <1>1 DEF WorkTyped, Stages, Ended
<1>3. Executed(d)' <=> Executed(d)
    BY <1>1 DEF Executed
<1>4. DeployedOnce(d)' /\ LateIsFinished(d)'
    BY <1>1, <1>2, <1>3 DEF VerdictOf, DeployedOnce, LateIsFinished, Finished, Over, Waits, Tries, hostVars
<1>5. Onward(d)' => Onward(d) /\ (stage'[d] = "succeeded" => running = target[d] \/ failure = target[d])
    BY <1>2 DEF VerdictOf, OnwardInstalls, Onward
<1>6. BackIsBack(d)'
    BY <1>1, <1>2 DEF VerdictOf, BackIsBack, Waits, hostVars, RollingBack
<1>7. Onward(d) => work'[d]["rollback"].phase = "none"
    BY <1>1 DEF VerdictOf, OnwardInstalls
<1> QED
    BY <1>1, <1>2, <1>3, <1>4, <1>5, <1>6, <1>7, RowMovesVerdict

\* The worker judges the row it has read.
LEMMA JudgedVerdict ==
    ASSUME OneDeployment, WorkTyped, NEW d \in Rollouts, VerdictOf(d), reconcileGateAgentDeployments
    PROVE  WorkTyped' /\ VerdictOf(d)'
<1> DEFINE Ends == {"queued", "verifying"} \cup RollingBack
           Missing == view.seen.sha # previous[d] \/ ~view.connected
<1>1. /\ view # NoView /\ view.row = d /\ view' = NoView /\ previous[d] = Installed
      /\ UNCHANGED <<doing, answers, hostVars, seen, crossed>>
    BY DEF reconcileGateAgentDeployments, seenVars, VerdictOf, ViewIsGood, WorkTyped
<1>2. \/ /\ RequestRollback
         /\ \/ view.seen.sha = target[d]
            \/ view.stage = "verifying" /\ view.overdue
      \/ Move({"verifying"}, "succeeded") /\ view.seen.sha = target[d]
      \/ /\ Move({"verifying"} \cup RollingBack, "rolled_back") /\ view.seen.sha = Installed
         /\ \/ view.stage \in RollingBack
            \/ view.stage = "verifying" /\ (view.seen.failure = target[d] \/ view.overdue)
      \/ Move(Ends, "failed")
      \/ retryDeploymentRollback
      \/ UNCHANGED <<rowVars, work>>
    BY <1>1 DEF reconcileGateAgentDeployments, Restored
<1>3. target[d] \in Artifacts /\ target[d] # None
    BY RolloutAssumption DEF WorkTyped, None
<1>4. CASE UNCHANGED <<rowVars, work>>
  <2>1. /\ WorkTyped' /\ DeployedOnce(d)' /\ LateIsFinished(d)' /\ BackIsBack(d)' /\ (Onward(d)' <=> Onward(d))
        /\ Executed(d)' <=> Executed(d)
    BY <1>1, <1>4 DEF VerdictOf, WorkTyped, DeployedOnce, LateIsFinished, BackIsBack, Onward,
        Executed, Finished, Over, Waits, Tries, rowVars, hostVars
  <2>2. Onward(d) => work'[d]["rollback"].phase = "none" /\ (stage'[d] = "succeeded" => running = target[d] \/ failure = target[d])
    BY <1>4 DEF VerdictOf, OnwardInstalls, rowVars
  <2> QED
    BY <1>1, <1>4, <2>1, <2>2, RowMovesVerdict DEF rowVars
<1>5. CASE /\ RequestRollback
           /\ \/ view.seen.sha = target[d]
              \/ view.stage = "verifying" /\ view.overdue
  <2>1. Waits(d) \notin helpers /\ (running # Installed /\ d \notin crossed => seen.sha # Installed)
    <3>1. CASE view.stage = "verifying" /\ view.overdue
      BY <1>1, <3>1 DEF VerdictOf, ViewIsGood, SeenLags, Finished, Over
    <3>2. CASE view.seen.sha = target[d] /\ target[d] # Installed
      BY <1>1, <3>2 DEF VerdictOf, ViewIsGood, Over
    <3>3. CASE target[d] = Installed
      BY <3>3 DEF VerdictOf, HelpersAre, SeenLags
    <3> QED
      BY <1>5, <3>1, <3>2, <3>3
  <2> QED
    BY <1>1, <1>4, <1>5, <2>1, RequestedVerdict DEF RequestRollback
<1>6. CASE Move({"verifying"}, "succeeded") /\ view.seen.sha = target[d]
  <2>1. Onward(d) => running = target[d] \/ failure = target[d]
    BY <1>1, <1>6 DEF VerdictOf, ViewIsGood, SeenLags, IsKept
  <2> QED
    BY <1>1, <1>6, <2>1, MovedVerdict
<1>7. CASE /\ Move({"verifying"} \cup RollingBack, "rolled_back") /\ view.seen.sha = Installed
           /\ \/ view.stage \in RollingBack
              \/ view.stage = "verifying" /\ (view.seen.failure = target[d] \/ view.overdue)
  <2>1. d \notin crossed /\ stage[d] \in {"verifying"} \cup RollingBack =>
            Waits(d) \notin helpers /\ running = Installed
    <3>1. CASE view.stage = "verifying" /\ (view.seen.failure = target[d] \/ view.overdue)
      BY <1>1, <1>3, <1>7, <3>1 DEF VerdictOf, ViewIsGood, Finished, Over
    <3>2. CASE view.stage \in RollingBack
      BY <1>1, <1>7, <3>2 DEF VerdictOf, ViewIsGood, BackIsBack, RollingBack
    <3> QED
      BY <1>7, <3>1, <3>2
  <2> QED
    BY <1>1, <1>7, <2>1, MovedVerdict
<1>8. CASE Move(Ends, "failed")
  BY <1>1, <1>8, MovedVerdict
<1>9. CASE retryDeploymentRollback
  <2>1. CASE RollbackAgain(d) /\ stage[d] \in RollingBack
    <3>1. /\ rollbacks' = [rollbacks EXCEPT ![d] = @ + 1] /\ overdue' = [overdue EXCEPT ![d] = FALSE]
          /\ work' = WithRollbackJob(d, rollbacks[d] + 1) /\ UNCHANGED <<stage, target, previous>>
      BY <2>1 DEF RollbackAgain
    <3>2. WorkTyped' /\ work'[d]["deploy"] = work[d]["deploy"]
      <4>1. rollbacks[d] + 1 \in Nat
        BY DEF WorkTyped
      <4>2. work' \in [Rollouts -> [Kinds -> JobRow]] /\ work'[d]["deploy"] = work[d]["deploy"]
        BY <3>1, <4>1, RollbackJobQueued
      <4> QED
        BY <3>1, <4>1, <4>2 DEF WorkTyped
    <3>3. ~Onward(d)' /\ DeployedOnce(d)' /\ LateIsFinished(d)' /\ (Executed(d)' <=> Executed(d))
      BY <1>1, <2>1, <3>1, <3>2 DEF VerdictOf, DeployedOnce, LateIsFinished, Onward, Executed, RollingBack
    <3>4. BackIsBack(d)'
      BY <1>1, <3>1 DEF VerdictOf, BackIsBack, Waits, hostVars
    <3> QED
      BY <1>1, <3>1, <3>2, <3>3, <3>4, RowMovesVerdict
  <2> QED
    BY <1>1, <1>8, <1>9, <2>1 DEF retryDeploymentRollback
<1> QED
  BY <1>2, <1>4, <1>5, <1>6, <1>7, <1>8, <1>9

LEMMA VerdictStepKeeps ==
    ASSUME OneDeployment
    PROVE  VerdictInv /\ [RolloutNext]_rolloutVars => VerdictInv'
<1> SUFFICES ASSUME VerdictInv, [RolloutNext]_rolloutVars PROVE VerdictInv'
    OBVIOUS
<1>1. PICK d : Rollouts = {d}
    BY DEF OneDeployment
<1>2. d \in Rollouts /\ WorkTyped /\ VerdictOf(d) /\ \A e \in Rollouts : e = d
    BY <1>1 DEF VerdictInv, VerdictOf
<1>3. WorkTyped' /\ VerdictOf(d)'
  <2>1. CASE UNCHANGED rolloutVars
    <3>1. WorkTyped' /\ DeployedOnce(d)' /\ (Executed(d) => Executed(d)')
        BY <1>2, <2>1 DEF VerdictOf, WorkTyped, DeployedOnce, Executed, rolloutVars, rowVars
    <3> QED
        BY <1>2, <2>1, <3>1, JobsKeepVerdict DEF VerdictOf, OnwardInstalls, rolloutVars, rowVars, seenVars
  <2>2. ASSUME NEW sha \in Artifacts, insertGateAgentDeployment(d, sha) PROVE WorkTyped' /\ VerdictOf(d)'
    BY <1>2, <2>2, InsertedVerdict
  <2>3. CASE AdminRollsBack(d)
    <3>1. /\ requestDeploymentRollback(d) /\ crossed' = Crossed(\E u \in helpers : u.row = d, d)
          /\ UNCHANGED <<doing, answers, hostVars, seen, view>>
        BY <2>3 DEF AdminRollsBack, seenVars
    <3>2. d \in crossed => d \in crossed'
        BY <3>1 DEF Crossed
    <3>3. d \notin crossed' => Waits(d) \notin helpers /\ Tries(d) \notin helpers
        BY <3>1 DEF Crossed, Waits, Tries
    <3>4. d \notin crossed' => Waits(d) \notin helpers /\ (running # Installed => seen.sha # Installed)
        BY <1>2, <3>2, <3>3 DEF VerdictOf, SeenLags
    <3> QED
        BY <1>2, <3>1, <3>2, <3>4, RequestedVerdict
  <2>4. CASE DeadlinePasses(d) \/ listDeploymentsForReconcile(d)
    BY <1>2, <2>4, LateVerdict, ReadVerdict
  <2>5. ASSUME NEW k \in Kinds, ClaimRolloutJob(d, k) \/ ExpireRolloutLease(d, k)
        PROVE  WorkTyped' /\ VerdictOf(d)'
    BY <1>2, <2>5, ClaimedVerdict, ExpiredVerdict
  <2>6. CASE ExecuteRollout \/ \E status \in {"retryable_failed", "failed"} : ExecuteRolloutFails(status)
    BY <1>2, <2>6, ExecutedVerdict
  <2>7. ASSUME NEW answer \in answers, DeliverAnswer(answer) \/ LoseAnswer(answer)
        PROVE  WorkTyped' /\ VerdictOf(d)'
    BY <1>2, <2>7, DeliveredVerdict, LostVerdict
  <2>8. CASE HelperStep
    BY <1>2, <2>8, InstalledVerdict, RolledBackVerdict, UndoneVerdict, GivenUpVerdict, ConfirmedVerdict
    DEF HelperStep, HelperWorks, HelperFails
  <2>9. CASE Heartbeat
    BY <1>2, <2>9, SeenVerdict
  <2>10. CASE GateLeaseExpires
    <3>1. UNCHANGED <<stage, target, previous, rollbacks, overdue, work, doing, answers, hostVars, seen,
                      view, crossed>>
        BY <2>10 DEF GateLeaseExpires, rowVars
    <3>2. WorkTyped' /\ DeployedOnce(d)' /\ (Executed(d) => Executed(d)')
        BY <1>2, <3>1 DEF VerdictOf, WorkTyped, DeployedOnce, Executed
    <3> QED
        BY <1>2, <3>1, <3>2, JobsKeepVerdict DEF VerdictOf, OnwardInstalls
  <2>11. CASE reconcileGateAgentDeployments
    BY <1>2, <2>11, JudgedVerdict
  <2> QED
    BY <1>1, <2>1, <2>2, <2>3, <2>4, <2>5, <2>6, <2>7, <2>8, <2>9, <2>10, <2>11
    DEF RolloutNext, RolloutWork, RolloutFault, HelperStep
<1> QED
    BY <1>1, <1>3 DEF VerdictInv, VerdictOf

\* At rest the verdict on a gate's only deployment is true of its host, whatever fails,
\* whichever reports are lost or late, and however often an admin asks for a rollback:
\* if its deploy job is claimed once and helper and heartbeats are in time, and unless
\* a swap or a late report has crossed the verdict, or an installation that failed could
\* not be undone (reconcileGateAgentDeployments, markDeploymentJobReported, the
\* helper's install and rollback).
THEOREM RolloutVerdictIsTrue ==
    ASSUME OneDeployment
    PROVE  RolloutSpec => []VerdictIsTrue
<1>1. RolloutSpec => []VerdictInv
    BY VerdictInitially, VerdictStepKeeps, PTL DEF RolloutSpec
<1>2. VerdictInv => VerdictIsTrue
  <2>. SUFFICES ASSUME VerdictInv, NEW d \in Rollouts, d \notin crossed
                PROVE  /\ stage[d] = "succeeded" => running = target[d] \/ failure = target[d]
                       /\ stage[d] = "rolled_back" => running = previous[d]
    BY DEF VerdictIsTrue, IsTrueOfHost
  <2>. QED
    BY DEF VerdictInv, WorkTyped, OnwardInstalls, BackIsBack, Onward, SeenLags
<1> QED
    BY <1>1, <1>2, PTL
==============================================================================
