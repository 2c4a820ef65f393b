----------------------------- MODULE AgentRollout -----------------------------
(***************************************************************************)
(* Replacing the agent of one gate.  A deployment is a row whose phase the *)
(* worker moves by what the gate's heartbeats show; its jobs make the agent*)
(* schedule a helper on the host, half a minute later, that swaps the      *)
(* binary under the agent, waits for the control plane to see it and puts  *)
(* the previous one back when anything fails.  Worker, agent and helper    *)
(* only see each other's traces: heartbeats, reports and the helper's last *)
(* failure, which stays on the host until an installation succeeds.        *)
(***************************************************************************)
EXTENDS Integers, FiniteSets

CONSTANTS
    Rollouts,     \* gate_agent_deployments rows of the gate
    Artifacts,    \* releases, by their SHA-256
    Installed,    \* the artifact that runs at first
    Punctual,     \* helpers end, and the gate's lease expires, before a deadline
    MaxClaims     \* bound: claims of one job

ASSUME RolloutAssumption ==
    /\ Installed \in Artifacts
    /\ "none" \notin Artifacts
    /\ Punctual \in BOOLEAN
    /\ MaxClaims \in Nat

VARIABLES
    stage,      \* stage[d]: the row's phase, "none" while there is no row
    target,     \* target[d]: artifact of the row's release
    previous,   \* previous[d]: the artifact observed when it was requested
    rollbacks,  \* rollbacks[d]: rollback_attempt_count
    fresh,      \* fresh[d]: a heartbeat has come since staged_at
    overdue,    \* overdue[d]: verification_deadline_at has passed
    work,       \* work[d][k]: the latest job of kind k for the row
    doing,       \* the job the agent executes, or Unoccupied
    answers,    \* reports on their way
    running,    \* artifact installed on the host
    up,         \* its service runs
    health,     \* what its start-up reported: all self-tests and the rehydration
                \* passed, the rehydration failed, or neither
    helpers,    \* scheduled and running release helpers
    failure,    \* target of the helper's recorded failure, or None
    seen,       \* gate_status of the last heartbeat
    connected,  \* AgentConnected, with the gate's lease
    view,       \* the row as the worker has read it, or NoView
    latest,     \* the row that was made active last
    proven,     \* rows whose target was seen healthy since they were requested
    crossed     \* rows that were rolled back by an admin while a helper was under way,
                \* or set back to verifying by a report that came after that, or
                \* whose binary was swapped while the worker judged a row, or whose
                \* failed installation could not be undone

rowVars == <<stage, target, previous, rollbacks, fresh, overdue, latest>>
hostVars == <<running, up, health, helpers, failure>>
seenVars == <<seen, connected, proven>>
rolloutVars == <<rowVars, work, doing, answers, hostVars, seenVars, view, crossed>>

None == "none"
Kinds == {"deploy", "rollback"}
Ended == {"succeeded", "rolled_back", "failed"}
RollingBack == {"rollback_requested", "rolling_back"}
Active(d) == stage[d] \in {"queued", "verifying"} \cup RollingBack
Unoccupied == [kind |-> None]
NoView == [row |-> None]
Job(phase, number) == [phase |-> phase, retries |-> 0, claims |-> 0, number |-> number]

RolloutTypeOK ==
    /\ stage \in [Rollouts -> Ended \cup {"none", "queued", "verifying",
                                          "rollback_requested", "rolling_back"}]
    /\ target \in [Rollouts -> Artifacts]
    /\ previous \in [Rollouts -> Artifacts]
    /\ rollbacks \in [Rollouts -> 0..3]
    /\ fresh \in [Rollouts -> BOOLEAN]
    /\ overdue \in [Rollouts -> BOOLEAN]
    /\ work \in [Rollouts -> [Kinds ->
          [phase : {"none", "queued", "leased", "done", "dead"},
           retries : 0..2, claims : 0..MaxClaims, number : 0..3]]]
    /\ running \in Artifacts
    /\ failure \in Artifacts \cup {None}
    /\ seen.sha \in Artifacts

RolloutInit ==
    /\ stage = [d \in Rollouts |-> "none"]
    /\ target = [d \in Rollouts |-> Installed]
    /\ previous = [d \in Rollouts |-> Installed]
    /\ rollbacks = [d \in Rollouts |-> 0]
    /\ fresh = [d \in Rollouts |-> TRUE]
    /\ overdue = [d \in Rollouts |-> FALSE]
    /\ work = [d \in Rollouts |-> [k \in Kinds |-> Job("none", 0)]]
    /\ doing = Unoccupied
    /\ answers = {}
    /\ running = Installed
    /\ up = TRUE
    /\ health = "passed"
    /\ helpers = {}
    /\ failure = None
    /\ seen = [sha |-> Installed, health |-> "passed", failure |-> None]
    /\ connected = TRUE
    /\ view = NoView
    /\ latest = None
    /\ proven = {}
    /\ crossed = {}

Crossed(condition, d) == IF condition THEN crossed \cup {d} ELSE crossed

(***************************************************************************)
(* Deployments and rollbacks are requested.                                *)
(***************************************************************************)
insertGateAgentDeployment(d, sha) ==
    /\ stage[d] = "none"
    /\ \A e \in Rollouts : ~Active(e)
    /\ stage' = [stage EXCEPT ![d] = "queued"]
    /\ target' = [target EXCEPT ![d] = sha]
    /\ previous' = [previous EXCEPT ![d] = seen.sha]
    /\ latest' = d
    /\ work' = [work EXCEPT ![d]["deploy"] = Job("queued", 0)]
    /\ UNCHANGED <<rollbacks, fresh, overdue, doing, answers, hostVars, seenVars, view, crossed>>

WithRollbackJob(d, number) ==
    IF work[d]["rollback"].phase \in {"queued", "leased"}
    THEN work
    ELSE [work EXCEPT ![d]["rollback"] = Job("queued", number)]

Rollbackable(d) ==
    /\ stage[d] \in {"succeeded", "verifying", "failed"}
    /\ \A e \in Rollouts \ {d} : ~Active(e)

requestDeploymentRollback(d) ==
    /\ Rollbackable(d)
    /\ stage' = [stage EXCEPT ![d] = "rollback_requested"]
    /\ rollbacks' = [rollbacks EXCEPT ![d] = 1]
    /\ overdue' = [overdue EXCEPT ![d] = FALSE]
    /\ latest' = d
    /\ work' = WithRollbackJob(d, 1)
    /\ UNCHANGED <<target, previous, fresh>>

AdminRollsBack(d) ==
    /\ requestDeploymentRollback(d)
    /\ crossed' = Crossed(\E u \in helpers : u.row = d, d)
    /\ UNCHANGED <<doing, answers, hostVars, seenVars, view>>

(***************************************************************************)
(* The agent's jobs.                                                       *)
(***************************************************************************)
ClaimRolloutJob(d, k) ==
    /\ doing = Unoccupied
    /\ up
    /\ work[d][k].phase = "queued"
    /\ work[d][k].claims < MaxClaims
    /\ work' = [work EXCEPT ![d][k].phase = "leased", ![d][k].claims = @ + 1]
    /\ doing' = [kind |-> k, row |-> d, number |-> work[d][k].number,
                claim |-> work[d][k].claims + 1]
    /\ UNCHANGED <<rowVars, answers, hostVars, seenVars, view, crossed>>

ExpireRolloutLease(d, k) ==
    /\ work[d][k].phase = "leased"
    /\ work' = [work EXCEPT ![d][k].phase = "queued"]
    /\ UNCHANGED <<rowVars, doing, answers, hostVars, seenVars, view, crossed>>

Answer(status) ==
    answers' = answers \cup {[kind |-> doing.kind, row |-> doing.row,
                              number |-> doing.number, status |-> status]}

Wanted(d, k) == IF k = "deploy" THEN target[d] ELSE previous[d]

\* It is what already runs, or a helper is scheduled, in a unit of its own for
\* each attempt.  A release is only handed out while its deployment may need it.
ExecuteRollout ==
    LET d == doing.row
        sha == Wanted(d, doing.kind)
    IN  /\ doing # Unoccupied
        /\ \/ running = sha /\ UNCHANGED helpers
           \/ /\ running # sha
              /\ doing.kind = "deploy" => stage[d] \in {"queued", "verifying"}
              /\ helpers' = helpers \cup {[kind |-> doing.kind, row |-> d, claim |-> doing.claim,
                                           at |-> "scheduled", sha |-> sha, back |-> None]}
        /\ Answer("succeeded")
        /\ doing' = Unoccupied
        /\ UNCHANGED <<rowVars, work, running, up, health, failure, seenVars, view, crossed>>

\* Download, staging or scheduling fail; a release's metadata or self-test is wrong.
ExecuteRolloutFails(status) ==
    /\ doing # Unoccupied
    /\ running # Wanted(doing.row, doing.kind)
    /\ status \in {"retryable_failed", "failed"}
    /\ Answer(status)
    /\ doing' = Unoccupied
    /\ UNCHANGED <<rowVars, work, hostVars, seenVars, view, crossed>>

\* recordGateJobReport with markDeploymentJobReported.  Neither the job's phase
\* nor the attempt is compared.
Terminal(answer, job) ==
    answer.status = "failed" \/ (answer.status = "retryable_failed" /\ job.retries + 1 >= 2)

Reported(answer, job) ==
    [job EXCEPT !.phase = CASE answer.status = "succeeded" -> "done"
                            [] Terminal(answer, job) -> "dead"
                            [] OTHER -> "queued",
                !.retries = IF answer.status = "retryable_failed" THEN @ + 1 ELSE @]

RestagedAsFresh(d, phase) ==
    IF stage[d] \in Ended
    THEN UNCHANGED <<stage, fresh, overdue>>
    ELSE /\ stage' = [stage EXCEPT ![d] = phase]
         /\ overdue' = [overdue EXCEPT ![d] = FALSE]
         /\ UNCHANGED fresh

markDeploymentJobReported(d, phase) ==
    IF stage[d] \in Ended
    THEN UNCHANGED <<stage, fresh, overdue>>
    ELSE /\ stage' = [stage EXCEPT ![d] = phase]
         /\ fresh' = [fresh EXCEPT ![d] = @ /\ phase # "verifying"]
         /\ overdue' = [overdue EXCEPT ![d] = FALSE]

DeliverAnswer(answer) ==
    LET d == answer.row
        k == answer.kind
        job == work[d][k]
    IN  /\ answer \in answers
        /\ answers' = answers \ {answer}
        /\ work' = IF job.number = answer.number /\ job.retries < 2
                   THEN [work EXCEPT ![d][k] = Reported(answer, job)]
                   ELSE work
        /\ CASE answer.status = "succeeded" /\ k = "deploy" ->
                    markDeploymentJobReported(d, "verifying")
             [] answer.status = "succeeded" /\ k = "rollback" ->
                    markDeploymentJobReported(d, "rolling_back")
             [] Terminal(answer, job) -> markDeploymentJobReported(d, "failed")
             [] OTHER -> UNCHANGED <<stage, fresh, overdue>>
        /\ crossed' = Crossed(k = "deploy" /\ stage[d] \in RollingBack, d)
        /\ UNCHANGED <<target, previous, rollbacks, latest, doing, hostVars, seenVars, view>>

LoseAnswer(answer) ==
    /\ answer \in answers
    /\ answers' = answers \ {answer}
    /\ UNCHANGED <<rowVars, work, doing, hostVars, seenVars, view, crossed>>

(***************************************************************************)
(* The release helper on the host.                                         *)
(***************************************************************************)
\* The agent restarts: whatever it was doing is lost.
Swap(sha, starts, outcome) ==
    /\ running' = sha
    /\ up' = starts
    /\ health' = outcome
    /\ doing' = Unoccupied

Others == <<rowVars, work, answers, seenVars, view>>

\* The candidate is not what was announced, or does not pass its self-test.
HelperGivesUp(u) ==
    /\ u \in helpers
    /\ u.at = "scheduled"
    /\ helpers' = helpers \ {u}
    /\ UNCHANGED <<Others, doing, running, up, health, failure, crossed>>

Install(u, starts, outcome) ==
    /\ u \in helpers
    /\ u.kind = "deploy" /\ u.at = "scheduled"
    /\ helpers' = (helpers \ {u}) \cup {[u EXCEPT !.at = "waiting", !.back = running]}
    /\ Swap(u.sha, starts, outcome)
    /\ crossed' = Crossed(view # NoView, u.row)
    /\ UNCHANGED <<Others, failure>>

\* The control plane has seen the artifact.
InstallConfirmed(u) ==
    /\ u \in helpers
    /\ u.at = "waiting"
    /\ up
    /\ seen.sha = u.sha
    /\ helpers' = helpers \ {u}
    /\ failure' = None
    /\ UNCHANGED <<Others, doing, running, up, health, crossed>>

\* The service does not start, its self-test fails, or it is not seen in time: the
\* failure is recorded, then the previous release is activated.  That may fail as well:
\* what is installed stays, or nothing starts.
InstallUndone(u, sha, starts, outcome) ==
    /\ u \in helpers
    /\ u.at = "waiting"
    /\ sha \in {u.back, running}
    /\ helpers' = helpers \ {u}
    /\ failure' = u.sha
    /\ Swap(sha, starts, outcome)
    /\ crossed' = Crossed(sha # u.back, u.row)
    /\ UNCHANGED Others

rollback_to(u, starts, outcome) ==
    /\ u \in helpers
    /\ u.kind = "rollback"
    /\ helpers' = helpers \ {u}
    /\ Swap(u.sha, starts, outcome)
    /\ crossed' = Crossed(view # NoView, u.row)
    /\ UNCHANGED <<Others, failure>>

(***************************************************************************)
(* What the control plane sees.                                            *)
(***************************************************************************)
Heartbeat ==
    /\ up
    /\ seen' = [sha |-> running, health |-> health, failure |-> failure]
    /\ connected' = TRUE
    /\ fresh' = [d \in Rollouts |-> TRUE]
    /\ proven' = proven \cup {d \in Rollouts : Active(d) /\ running = target[d] /\ health = "passed"}
    /\ UNCHANGED <<stage, target, previous, rollbacks, overdue, latest, work, doing, answers,
                   hostVars, view, crossed>>

\* No heartbeat for a while: the service is down, or they are lost.
GateLeaseExpires ==
    /\ connected
    /\ connected' = FALSE
    /\ UNCHANGED <<rowVars, work, doing, answers, hostVars, seen, proven, view, crossed>>

\* Five minutes; a helper needs half a minute to begin and a few to end.
DeadlinePasses(d) ==
    /\ Active(d)
    /\ ~overdue[d]
    /\ Punctual => /\ \A u \in helpers : u.row # d
                   /\ connected => seen.sha = running
    /\ overdue' = [overdue EXCEPT ![d] = TRUE]
    /\ UNCHANGED <<stage, target, previous, rollbacks, fresh, latest, work, doing, answers,
                   hostVars, seenVars, view, crossed>>

(***************************************************************************)
(* reconcileGateAgentDeployments reads a row with what was last seen of its*)
(* gate, and acts on it with statements of their own, which look at the    *)
(* row's phase again.                                                      *)
(***************************************************************************)
listDeploymentsForReconcile(d) ==
    /\ view = NoView
    /\ Active(d)
    /\ view' = [row |-> d, stage |-> stage[d], seen |-> seen, fresh |-> fresh[d],
                connected |-> connected, overdue |-> overdue[d], rollbacks |-> rollbacks[d]]
    /\ UNCHANGED <<rowVars, work, doing, answers, hostVars, seenVars, crossed>>

Move(phases, phase) ==
    /\ stage' = IF stage[view.row] \in phases THEN [stage EXCEPT ![view.row] = phase] ELSE stage
    /\ UNCHANGED <<target, previous, rollbacks, fresh, overdue, latest, work>>

RequestRollback ==
    IF Rollbackable(view.row)
    THEN requestDeploymentRollback(view.row)
    ELSE UNCHANGED <<rowVars, work>>

RollbackAgain(d) ==
    /\ rollbacks' = [rollbacks EXCEPT ![d] = @ + 1]
    /\ overdue' = [overdue EXCEPT ![d] = FALSE]
    /\ work' = WithRollbackJob(d, rollbacks[d] + 1)
    /\ UNCHANGED <<stage, target, previous, fresh, latest>>

retryThenForget ==
    IF stage[view.row] \in RollingBack /\ rollbacks[view.row] < 3
    THEN RollbackAgain(view.row)
    ELSE UNCHANGED <<rowVars, work>>

retryDeploymentRollback ==
    IF view.rollbacks < 3 /\ stage[view.row] \in RollingBack /\ rollbacks[view.row] < 3
    THEN RollbackAgain(view.row)
    ELSE Move({"queued", "verifying"} \cup RollingBack, "failed")

\* The helper has restored the previous artifact, or never replaced it.
BackAtOnce == TRUE
Restored ==
    \/ view.fresh /\ view.seen.failure = target[view.row]
    \/ view.overdue

reconcileGateAgentDeployments ==
    LET d == view.row
        Shows(sha) == view.seen.sha = sha /\ view.connected
        Candidate == view.stage = "verifying"
        Arrived == Candidate /\ Shows(target[d]) /\ view.fresh
        Decided == Arrived /\ view.seen.health \in {"passed", "failed"}
        Back == Shows(previous[d])
    IN  /\ view # NoView
        /\ CASE Arrived /\ view.seen.health = "failed" -> RequestRollback
             [] Arrived /\ view.seen.health = "passed" -> Move({"verifying"}, "succeeded")
             [] ~Decided /\ view.stage \in RollingBack /\ Back ->
                    Move({"verifying"} \cup RollingBack, "rolled_back")
             [] ~Decided /\ Candidate /\ Back /\ Restored ->
                    Move({"verifying"} \cup RollingBack, "rolled_back")
             [] ~Decided /\ view.overdue /\ view.stage = "queued" ->
                    Move({"queued", "verifying"} \cup RollingBack, "failed")
             [] ~Decided /\ view.overdue /\ Candidate /\ ~Back -> RequestRollback
             [] ~Decided /\ view.overdue /\ view.stage \in RollingBack /\ ~Back ->
                    retryDeploymentRollback
             [] OTHER -> UNCHANGED <<rowVars, work>>
        /\ view' = NoView
        /\ UNCHANGED <<doing, answers, hostVars, seenVars, crossed>>

Outcomes == {"passed", "failed", "unproven"}

HelperWorks ==
    \E u \in helpers :
        \/ \E outcome \in Outcomes :
               Install(u, TRUE, outcome) \/ rollback_to(u, TRUE, outcome) \/ InstallUndone(u, u.back, TRUE, outcome)
        \/ InstallConfirmed(u)

\* What does not start reports nothing.
HelperFails ==
    \E u \in helpers :
        \/ HelperGivesUp(u)
        \/ Install(u, FALSE, "unproven") \/ rollback_to(u, FALSE, "unproven")
        \/ \E sha \in {u.back, running} : InstallUndone(u, sha, FALSE, "unproven")
        \/ \E outcome \in Outcomes : InstallUndone(u, running, TRUE, outcome)

HelperStep == HelperWorks \/ HelperFails

RolloutWork ==
    \/ \E d \in Rollouts :
           \/ \E sha \in Artifacts : insertGateAgentDeployment(d, sha)
           \/ AdminRollsBack(d)
           \/ DeadlinePasses(d)
           \/ listDeploymentsForReconcile(d)
           \/ \E k \in Kinds : ClaimRolloutJob(d, k)
    \/ ExecuteRollout
    \/ \E answer \in answers : DeliverAnswer(answer)
    \/ HelperWorks
    \/ Heartbeat
    \/ ~up /\ GateLeaseExpires
    \/ reconcileGateAgentDeployments

\* What can go wrong, for a harness that bounds how often it does.
RolloutFault ==
    \/ \E answer \in answers : LoseAnswer(answer)
    \/ \E d \in Rollouts, k \in Kinds : ExpireRolloutLease(d, k)
    \/ \E status \in {"retryable_failed", "failed"} : ExecuteRolloutFails(status)
    \/ HelperFails
    \/ up /\ GateLeaseExpires

RolloutNext == RolloutWork \/ RolloutFault

RolloutSpec == RolloutInit /\ [][RolloutNext]_rolloutVars

\* The worker's loop and the deadlines.  Nothing is assumed of gate and helper.
RolloutFairness ==
    /\ \A d \in Rollouts :
          WF_rolloutVars(DeadlinePasses(d)) /\ WF_rolloutVars(listDeploymentsForReconcile(d))
    /\ WF_rolloutVars(reconcileGateAgentDeployments)

------------------------------------------------------------------------------
\* docs/runbooks/deployment.md: success requires a heartbeat newer than
\* activation: no stale heartbeat, of an earlier run of the same artifact or of a
\* row read too early, makes a deployment successful.
SucceededWasProven == \A d \in Rollouts : stage[d] = "succeeded" => d \in proven

\* Everything has come to rest, and the gate has been seen since.
AtRest ==
    /\ helpers = {} /\ answers = {} /\ doing = Unoccupied /\ view = NoView
    /\ connected /\ up
    /\ \A d \in Rollouts, k \in Kinds : work[d][k].phase \notin {"queued", "leased"}
IsTrueOfHost(d) ==
    AtRest /\ latest = d /\ d \notin crossed =>
        /\ stage[d] = "succeeded" => running = target[d] \/ failure = target[d]
        /\ stage[d] = "rolled_back" => running = previous[d]

\* At rest the verdict on the last deployment is true of the host, unless a helper
\* swapped the binary after the verdict, or undid it and left its failure for everyone
\* to see (reconcileGateAgentDeployments, the helper's reports).
VerdictIsTrue == \A d \in Rollouts : IsTrueOfHost(d)

\* A deployment ends, whatever the gate does or fails to do: deadlines, the three
\* tries of a rollback and late reports cannot keep it active for ever, which
\* would keep the gate from being scheduled and from further deployments.
RolloutEnds == \A d \in Rollouts : Active(d) ~> ~Active(d)
==============================================================================
