------------------------------ MODULE Transfers ------------------------------
(***************************************************************************)
(* Money leaving the custodial wallet of one account: the owner's          *)
(* withdrawal requests and the sweeps of spent cash to the treasury.  Both *)
(* are rows that the worker claims, signs, records as submitted, sends,    *)
(* and later settles by what the chain says of the recorded signature.     *)
(*                                                                         *)
(* The worker runs its loops one after the other, so one row is between    *)
(* its claim and its broadcast at a time (lane).  Every signing takes a    *)
(* new blockhash, so an earlier transaction of the same row is another     *)
(* transaction, which may still be executed.  The worker may die between   *)
(* any two of its database or RPC calls.                                   *)
(*                                                                         *)
(* The chain (not under src/) is modelled from what the loops ask of it: a *)
(* transaction whose blockhash has expired is never executed, expiry comes *)
(* before the ten minutes the loops wait, and the RPC's answers with       *)
(* searchTransactionHistory are final.                                     *)
(***************************************************************************)
EXTENDS Integers, FiniteSets

CONSTANTS
    Withdrawals,   \* withdrawal_requests rows of the account
    Sweeps,        \* billing_cash_sweep_requests rows of the account
    MaxTries       \* bound: transactions signed for one row

Orders == Withdrawals \cup Sweeps

ASSUME TransfersAssumption ==
    /\ Withdrawals \cap Sweeps = {}
    /\ MaxTries \in Nat \ {0}

VARIABLES
    status,    \* status[r]: status column of the row, "none" while there is no row
    due,       \* due[r]: the row waits for a time (eligible_at and the minute since
               \* updated_at, or next_attempt_at) and that time has come
    tries,     \* tries[r]: transactions signed so far; the last is the recorded one
    chain,     \* chain[r][i]: what became of the i-th transaction
    lane,      \* what the worker is doing, and on which row
    live       \* the account has a session that is neither revoked nor failed

transferVars == <<status, due, tries, chain, lane, live>>

Status == {"none", "cooldown", "ready", "pending", "processing", "submitted",
           "confirmed", "failed", "cancelled"}
TxState == {"none", "signed", "sent", "landed", "errored", "expired"}
Idle == [at |-> "idle"]
Lane == {Idle} \cup [at : {"claimed", "recorded"}, row : Orders]

TransfersTypeOK ==
    /\ status \in [Orders -> Status]
    /\ due \in [Orders -> BOOLEAN]
    /\ tries \in [Orders -> 0..MaxTries]
    /\ chain \in [Orders -> [1..MaxTries -> TxState]]
    /\ lane \in Lane
    /\ live \in BOOLEAN

TransfersInit ==
    /\ status = [r \in Orders |-> "none"]
    /\ due = [r \in Orders |-> FALSE]
    /\ tries = [r \in Orders |-> 0]
    /\ chain = [r \in Orders |-> [i \in 1..MaxTries |-> "none"]]
    /\ lane = Idle
    /\ live = FALSE

(***************************************************************************)
(* Rows are created.                                                       *)
(***************************************************************************)
CreateWithdrawal(r) ==
    /\ r \in Withdrawals
    /\ status[r] = "none"
    /\ ~live
    /\ status' = [status EXCEPT ![r] = "cooldown"]
    /\ UNCHANGED <<due, tries, chain, lane, live>>

\* next_attempt_at defaults to now(): a new sweep is due at once.
CreateSweep(r) ==
    /\ r \in Sweeps
    /\ status[r] = "none"
    /\ status' = [status EXCEPT ![r] = "pending"]
    /\ due' = [due EXCEPT ![r] = TRUE]
    /\ UNCHANGED <<tries, chain, lane, live>>

\* Mutant: a request that is being paid can be withdrawn too.
CancelAnyWithdrawal(r) ==
    /\ r \in Withdrawals
    /\ status[r] \in {"cooldown", "ready", "failed", "processing", "submitted"}
    /\ status' = [status EXCEPT ![r] = "cancelled"]
    /\ due' = [due EXCEPT ![r] = FALSE]
    /\ UNCHANGED <<tries, chain, lane, live>>

CancelWithdrawal(r) ==
    /\ r \in Withdrawals
    /\ status[r] \in {"cooldown", "ready", "failed"}
    /\ status' = [status EXCEPT ![r] = "cancelled"]
    /\ due' = [due EXCEPT ![r] = FALSE]
    /\ UNCHANGED <<tries, chain, lane, live>>

(***************************************************************************)
(* The worker claims a row.  Each look for a withdrawal first advances all *)
(* cooldowns: with a live session the cooldown starts again, though a row  *)
(* that is ready stays ready; without one the rows that are due get ready. *)
(***************************************************************************)
Advanced ==
    [r \in Orders |->
        IF r \in Withdrawals /\ status[r] \in {"cooldown", "failed"} /\ due[r] /\ ~live
        THEN "ready"
        ELSE status[r]]

Restarted ==
    [r \in Orders |->
        due[r] /\ Advanced[r] = status[r] /\ ~(live /\ status[r] = "cooldown")]

\* No row is ready after the advance: the transaction commits the advance alone.
AdvanceCooldowns ==
    /\ lane = Idle
    /\ \A r \in Orders : Advanced[r] # "ready"
    /\ due' = Restarted
    /\ UNCHANGED <<status, tries, chain, lane, live>>

ClaimWithdrawal(r) ==
    /\ lane = Idle
    /\ tries[r] < MaxTries
    /\ Advanced[r] = "ready"
    /\ status' = [Advanced EXCEPT ![r] = "processing"]
    /\ due' = Restarted
    /\ lane' = [at |-> "claimed", row |-> r]
    /\ UNCHANGED <<tries, chain, live>>

\* Mutant: only rows that were never tried are claimed.
ClaimFreshSweep(r) ==
    /\ lane = Idle
    /\ r \in Sweeps
    /\ tries[r] < MaxTries
    /\ status[r] = "pending"
    /\ due[r]
    /\ status' = [status EXCEPT ![r] = "processing"]
    /\ due' = [due EXCEPT ![r] = FALSE]
    /\ lane' = [at |-> "claimed", row |-> r]
    /\ UNCHANGED <<tries, chain, live>>

ClaimSweep(r) ==
    /\ lane = Idle
    /\ r \in Sweeps
    /\ tries[r] < MaxTries
    /\ status[r] \in {"pending", "failed"}
    /\ due[r]
    /\ status' = [status EXCEPT ![r] = "processing"]
    /\ due' = [due EXCEPT ![r] = FALSE]
    /\ lane' = [at |-> "claimed", row |-> r]
    /\ UNCHANGED <<tries, chain, live>>

(***************************************************************************)
(* The worker signs, records, sends.  An error before the record (no key,  *)
(* a wrong key, no blockhash) fails the row; one after it does not, since  *)
(* the transaction may have reached the network.                           *)
(***************************************************************************)
Fail(r) ==
    /\ status[r] \in {"processing", "submitted"}
    /\ status' = [status EXCEPT ![r] = "failed"]
    /\ due' = [due EXCEPT ![r] = FALSE]

SigningFails ==
    /\ lane.at = "claimed"
    /\ Fail(lane.row)
    /\ lane' = Idle
    /\ UNCHANGED <<tries, chain, live>>

RecordSubmission ==
    /\ lane.at = "claimed"
    /\ status[lane.row] = "processing"
    /\ status' = [status EXCEPT ![lane.row] = "submitted"]
    /\ tries' = [tries EXCEPT ![lane.row] = @ + 1]
    /\ chain' = [chain EXCEPT ![lane.row][tries[lane.row] + 1] = "signed"]
    /\ lane' = [at |-> "recorded", row |-> lane.row]
    /\ UNCHANGED <<due, live>>

\* The call may reach the network, also when it throws, or be lost.
Broadcast ==
    /\ lane.at = "recorded"
    /\ \/ /\ chain[lane.row][tries[lane.row]] = "signed"
          /\ chain' = [chain EXCEPT ![lane.row][tries[lane.row]] = "sent"]
       \/ UNCHANGED chain
    /\ lane' = Idle
    /\ UNCHANGED <<status, due, tries, live>>

LaneDies ==
    /\ lane # Idle
    /\ lane' = Idle
    /\ UNCHANGED <<status, due, tries, chain, live>>

(***************************************************************************)
(* The chain, and the clocks of the rows.                                  *)
(***************************************************************************)
Land(r, i) ==
    /\ chain[r][i] = "sent"
    /\ chain' = [chain EXCEPT ![r][i] = "landed"]
    /\ UNCHANGED <<status, due, tries, lane, live>>

ChainRejects(r, i) ==
    /\ chain[r][i] = "sent"
    /\ chain' = [chain EXCEPT ![r][i] = "errored"]
    /\ UNCHANGED <<status, due, tries, lane, live>>

BlockhashExpires(r, i) ==
    /\ chain[r][i] \in {"signed", "sent"}
    /\ chain' = [chain EXCEPT ![r][i] = "expired"]
    /\ UNCHANGED <<status, due, tries, lane, live>>

BecomesDue(r) ==
    /\ status[r] \in {"cooldown", "failed"}
    /\ ~due[r]
    /\ due' = [due EXCEPT ![r] = TRUE]
    /\ UNCHANGED <<status, tries, chain, lane, live>>

\* The owner opens the first configuration, or the last one ends.
SessionsChange ==
    /\ live' = ~live
    /\ UNCHANGED <<status, due, tries, chain, lane>>

(***************************************************************************)
(* The worker settles a submitted row by the recorded signature: executed  *)
(* and finalized, executed with an error, or not seen for ten minutes.     *)
(***************************************************************************)
\* Mutant: a transaction that may still be executed is given up.
FailedOrSlow(state) == state \in {"errored", "expired", "sent"}

ChainFailed(state) == state \in {"errored", "expired"}

ConfirmTransfer(r) ==
    /\ lane = Idle
    /\ status[r] = "submitted"
    /\ chain[r][tries[r]] = "landed"
    /\ status' = [status EXCEPT ![r] = "confirmed"]
    /\ UNCHANGED <<due, tries, chain, lane, live>>

FailTransfer(r) ==
    /\ lane = Idle
    /\ status[r] = "submitted"
    /\ ChainFailed(chain[r][tries[r]])
    /\ Fail(r)
    /\ UNCHANGED <<tries, chain, lane, live>>

TransfersWork ==
    \/ \E r \in Withdrawals : CreateWithdrawal(r) \/ CancelWithdrawal(r) \/ ClaimWithdrawal(r)
    \/ \E r \in Sweeps : CreateSweep(r) \/ ClaimSweep(r)
    \/ \E r \in Orders : BecomesDue(r) \/ ConfirmTransfer(r) \/ FailTransfer(r)
    \/ \E r \in Orders, i \in 1..MaxTries :
           Land(r, i) \/ ChainRejects(r, i) \/ BlockhashExpires(r, i)
    \/ AdvanceCooldowns
    \/ RecordSubmission
    \/ Broadcast
    \/ SessionsChange

\* What may go wrong on the worker's side.
TransferFault == SigningFails \/ LaneDies

TransfersNext == TransfersWork \/ TransferFault

TransfersSpec == TransfersInit /\ [][TransfersNext]_transferVars

\* The loops go on for ever, as do the clocks, and the chain decides on every
\* transaction.  With finitely many faults and tries every row has its turn.
TransfersFairness ==
    /\ \A r \in Orders :
          WF_transferVars(BecomesDue(r)) /\ WF_transferVars(ConfirmTransfer(r) \/ FailTransfer(r))
    /\ \A r \in Withdrawals : WF_transferVars(ClaimWithdrawal(r))
    /\ \A r \in Sweeps : WF_transferVars(ClaimSweep(r))
    /\ \A r \in Orders, i \in 1..MaxTries :
          WF_transferVars(Land(r, i) \/ ChainRejects(r, i) \/ BlockhashExpires(r, i))
    /\ WF_transferVars(RecordSubmission)
    /\ WF_transferVars(Broadcast)

------------------------------------------------------------------------------
\* Transactions of r that the chain has executed.
Arrived(r) == {i \in 1..MaxTries : chain[r][i] = "landed"}
Open(r) == status[r] \notin {"none", "cancelled", "confirmed"}

\* However often a row is retried, over crashes, lost broadcasts and expired
\* transactions, at most one of the transactions signed for it is executed, and
\* none of a row its owner cancelled (solana-withdrawal-loop.ts records the
\* signature before it sends, and retries only what cannot be executed any more).
PaidOnce ==
    \A r \in Orders :
        /\ Cardinality(Arrived(r)) <= 1
        /\ status[r] = "cancelled" => Arrived(r) = {}

\* What makes PaidOnce inductive: only the recorded transaction of a submitted
\* or confirmed row can be, or become, an executed one; all the others are dead.
OnlyRecordedIsAlive ==
    \A r \in Orders :
        /\ \A i \in 1..MaxTries :
              /\ i < tries[r] => ChainFailed(chain[r][i])
              /\ i > tries[r] => chain[r][i] = "none"
        /\ status[r] \in {"submitted", "confirmed"} => tries[r] > 0
        /\ tries[r] > 0 /\ status[r] \notin {"submitted", "confirmed"} =>
              ChainFailed(chain[r][tries[r]])
        /\ status[r] = "confirmed" => chain[r][tries[r]] = "landed"

LaneAgrees ==
    /\ lane.at = "claimed" => status[lane.row] = "processing" /\ tries[lane.row] < MaxTries
    /\ lane.at = "recorded" => status[lane.row] = "submitted"

\* A row is settled, has used the bound on tries up, or was left in processing by
\* a worker that died after the claim: no loop looks at such a row again.
LeftInProcessing(r) == status[r] = "processing" /\ (lane = Idle \/ lane.row # r)
ReachesAnEnd(r) == ~Open(r) \/ tries[r] = MaxTries \/ LeftInProcessing(r)

\* Every sweep, and every withdrawal once no session is live for good, is carried
\* through failures of signing, lost broadcasts and expired transactions to its
\* end (solana-withdrawal-loop.ts, solana-revenue-sweep-loop.ts).
TransfersSettle ==
    /\ \A r \in Sweeps : Open(r) ~> ReachesAnEnd(r)
    /\ <>[]~live => \A r \in Withdrawals : Open(r) ~> ReachesAnEnd(r)

\* The promise of PayOnce, with the rows' statuses read as its outcomes.
paidCount == [r \in Orders |-> Cardinality(Arrived(r))]
rowOutcome ==
    [r \in Orders |->
        CASE status[r] = "cancelled" -> "closed"
          [] status[r] = "confirmed" -> "acknowledged"
          [] OTHER -> "open"]

Promise == INSTANCE PayOnce WITH paid <- paidCount, outcome <- rowOutcome

\* Every step of the lanes is a step of PayOnce or changes nothing it speaks of:
\* no second payment, no acknowledgement of an unpaid row, no payment of a
\* cancelled one (confirmWithdrawal, cancelOwnedWithdrawal, the two loops).
PayOncePromise == Promise!Spec
==============================================================================
