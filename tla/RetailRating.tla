----------------------------- MODULE RetailRating -----------------------------
(***************************************************************************)
(* Which time of one session is charged, and under which plan.  A window   *)
(* to rate starts where the plan's assignment starts, the egress gate's    *)
(* last report of 'applied' came, or the last window of the session under  *)
(* the plan ended, whichever is last; it ends at the cutoff, the plan's    *)
(* end or the last report of a revocation, whichever is first.  The worker *)
(* lists the windows of all plans in one query, by their ends, and rates   *)
(* them in one transaction each; reports, plan changes and crashes come in *)
(* between.  Time is counted in units: unit t is the time from t to t+1.   *)
(***************************************************************************)
EXTENDS Integers, FiniteSetsExt, Sequences

CONSTANTS
    Plans,            \* billing plan versions
    Lag,              \* settlementLagSeconds, in units
    MaxTime,          \* bound: the clock
    MaxAssignments    \* bound: plan assignments of the account

ASSUME RatingAssumption ==
    /\ Lag \in Nat
    /\ MaxTime \in Nat
    /\ MaxAssignments \in Nat

VARIABLES
    clock,        \* now(), in units
    serving,      \* the egress assignment's last report was 'applied'
    appliedAt,    \* gate_assignment_status.applied_at, Never while NULL
    revokedAt,    \* gate_assignment_status.revoked_at, Never while NULL
    assignments,  \* billing_account_plan_assignments in the order they were made
    ratings,      \* retail_usage_ratings of the session
    batch         \* windows the worker has listed and not yet rated

ratingVars == <<clock, serving, appliedAt, revokedAt, assignments, ratings, batch>>

Never == -1
Forever == MaxTime + 1
Window == [plan : Plans, from : 0..MaxTime, to : 0..MaxTime]
Units(w) == {t \in 0..MaxTime : w.from <= t /\ t < w.to}

End(t) == IF t = Never THEN Forever ELSE t

RatingTypeOK ==
    /\ clock \in 0..MaxTime
    /\ serving \in BOOLEAN
    /\ appliedAt \in -1..MaxTime
    /\ revokedAt \in -1..MaxTime
    /\ assignments \in Seq([plan : Plans, from : 0..MaxTime, to : -1..MaxTime])
    /\ ratings \subseteq Window
    /\ batch \in Seq(Window)

\* ensurePrepaidBillingState gives an account its first plan.
RatingInit ==
    /\ clock = 0
    /\ serving = FALSE
    /\ appliedAt = Never
    /\ revokedAt = Never
    /\ \E plan \in Plans : assignments = <<[plan |-> plan, from |-> 0, to |-> Never]>>
    /\ ratings = {}
    /\ batch = <<>>

TimePasses ==
    /\ clock < MaxTime
    /\ clock' = clock + 1
    /\ UNCHANGED <<serving, appliedAt, revokedAt, assignments, ratings, batch>>

\* Also of an assignment that is applied already (a repaired drift, a repeated job).
markAssignmentAppliedFromReport ==
    /\ serving' = TRUE
    /\ appliedAt' = clock
    /\ UNCHANGED <<clock, revokedAt, assignments, ratings, batch>>

markAssignmentRevokedFromReport ==
    /\ appliedAt # Never
    /\ serving' = FALSE
    /\ revokedAt' = clock
    /\ UNCHANGED <<clock, appliedAt, assignments, ratings, batch>>

assignBillingPlan(plan) ==
    /\ Len(assignments) < MaxAssignments
    /\ assignments' = Append([assignments EXCEPT ![Len(assignments)].to = clock],
                             [plan |-> plan, from |-> clock, to |-> Never])
    /\ UNCHANGED <<clock, serving, appliedAt, revokedAt, ratings, batch>>

(***************************************************************************)
(* listRetailRatingCandidates                                              *)
(***************************************************************************)
\* Mutant: a window continues from the last window's start.
RatedFrom(plan) == Max({0} \cup {r.from : r \in {w \in ratings : w.plan = plan}})

RatedUntil(plan) == Max({0} \cup {r.to : r \in {w \in ratings : w.plan = plan}})

\* Mutant: the window runs on after the plan has ended.
WindowPastPlan(a, cutoff) ==
    [plan |-> a.plan,
     from |-> Max({a.from, appliedAt, RatedUntil(a.plan)}),
     to |-> Min({cutoff, End(revokedAt)})]

WindowOf(a, cutoff) ==
    [plan |-> a.plan,
     from |-> Max({a.from, appliedAt, RatedUntil(a.plan)}),
     to |-> Min({cutoff, End(a.to), End(revokedAt)})]

\* The join's own conditions compare with the same columns once more.
Candidates(cutoff) ==
    LET joined == {i \in DOMAIN assignments :
                     /\ assignments[i].from < (IF revokedAt = Never THEN cutoff ELSE revokedAt)
                     /\ End(assignments[i].to) > appliedAt}
    IN  IF appliedAt = Never
        THEN {}
        ELSE {w \in {WindowOf(assignments[i], cutoff) : i \in joined} : w.to > w.from}

\* Mutant: the windows are listed the newest first.
ByEndDescending(windows) ==
    {s \in [1..Cardinality(windows) -> windows] :
        /\ \A w \in windows : \E i \in DOMAIN s : s[i] = w
        /\ \A i, j \in DOMAIN s : i < j => s[i].to >= s[j].to}

ByEnd(windows) ==
    {s \in [1..Cardinality(windows) -> windows] :
        /\ \A w \in windows : \E i \in DOMAIN s : s[i] = w
        /\ \A i, j \in DOMAIN s : i < j => s[i].to <= s[j].to}

ListCandidates ==
    /\ batch = <<>>
    /\ clock >= Lag
    /\ Candidates(clock - Lag) # {}
    /\ batch' \in ByEnd(Candidates(clock - Lag))
    /\ UNCHANGED <<clock, serving, appliedAt, revokedAt, assignments, ratings>>

\* ON CONFLICT (session_id, window_start, window_end) DO NOTHING.
insertRetailUsageRating ==
    /\ batch # <<>>
    /\ batch' = Tail(batch)
    /\ ratings' = IF \E r \in ratings : r.from = Head(batch).from /\ r.to = Head(batch).to
                  THEN ratings
                  ELSE ratings \cup {Head(batch)}
    /\ UNCHANGED <<clock, serving, appliedAt, revokedAt, assignments>>

SettlementDies ==
    /\ batch # <<>>
    /\ batch' = <<>>
    /\ UNCHANGED <<clock, serving, appliedAt, revokedAt, assignments, ratings>>

RatingWork ==
    \/ TimePasses
    \/ markAssignmentAppliedFromReport
    \/ markAssignmentRevokedFromReport
    \/ \E plan \in Plans : assignBillingPlan(plan)
    \/ ListCandidates
    \/ insertRetailUsageRating

RatingNext == RatingWork \/ SettlementDies

RatingSpec == RatingInit /\ [][RatingNext]_ratingVars

------------------------------------------------------------------------------
\* No time is charged twice, though the table's key forbids only equal windows:
\* not across plan changes, returns to an earlier plan, repeated reports or a
\* settlement that died half way (settleRetailBilling).
NoTimeChargedTwice ==
    \A v, w \in ratings : v # w => Units(v) \cap Units(w) = {}

\* Time is charged by the plan that was in force.
ChargedByItsPlan ==
    \A w \in ratings : \E i \in DOMAIN assignments :
        /\ assignments[i].plan = w.plan
        /\ assignments[i].from <= w.from
        /\ w.to <= End(assignments[i].to)

\* When a settlement has rated all it listed, everything since the last report of
\* 'applied' up to its cutoff is charged: a plan change leaves no gap behind.
SettledUpTo(t) == appliedAt..(t - 1) \subseteq UNION {Units(w) : w \in ratings}
NothingLeftOut ==
    /\ appliedAt # Never /\ serving /\ revokedAt = Never
    /\ clock >= Lag
    /\ Candidates(clock - Lag) = {}
    => SettledUpTo(clock - Lag)

\* The windows that are charged cover the time a config was in use exactly: each
\* moment once and under the plan of that moment (listRatingCandidates).
WindowsAreExact == NoTimeChargedTwice /\ ChargedByItsPlan /\ NothingLeftOut
==============================================================================
