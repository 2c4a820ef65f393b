------------------------- MODULE PrepaidAccountProofs -------------------------
(***************************************************************************)
(* Proofs about money and what is charged. The lanes of Transfers pay a    *)
(* row once and no cancelled row. Every step of PrepaidAccount is a step   *)
(* of these lanes, so what is proved of them holds of the account; its     *)
(* buckets, ledger and accrual agree; what is reserved and what the wallet *)
(* holds is what the rows still wait for; the deposit scan (DepositScan)   *)
(* credits every payment it passes, once; and the windows that             *)
(* RetailRating charges cover the time of a session exactly. For any       *)
(* number of rows, token accounts, payments and plan changes, any amounts  *)
(* and charges, any size of a cent and any lag.                            *)
(***************************************************************************)
EXTENDS DepositScan, PrepaidAccount, RetailRating, FiniteSetTheorems, TLAPS,
        WellFoundedInduction

USE TransfersAssumption

(***************************************************************************)
(* The lanes of Transfers: no row is paid twice, none that was cancelled   *)
(* is paid, and the lanes implement PayOnce.                               *)
(***************************************************************************)

\* The bound on tries holds because the claim checks it, hence LaneAgrees.
LEMMA TransfersTypes == TransfersSpec => [](TransfersTypeOK /\ LaneAgrees)
<1>1. TransfersInit => TransfersTypeOK
  <2> SUFFICES ASSUME TransfersInit PROVE TransfersTypeOK
    OBVIOUS
  <2>1. lane \in Lane /\ live \in BOOLEAN
    BY DEF TransfersInit, Lane
  <2>2. status \in [Orders -> Status] /\ due \in [Orders -> BOOLEAN]
    BY DEF TransfersInit, Status
  <2>3. tries \in [Orders -> 0..MaxTries]
    BY DEF TransfersInit
  <2>4. chain \in [Orders -> [1..MaxTries -> TxState]]
    BY DEF TransfersInit, TxState
  <2>. QED
    BY <2>1, <2>2, <2>3, <2>4 DEF TransfersTypeOK
<1>2. TransfersTypeOK /\ LaneAgrees /\ [TransfersNext]_transferVars => TransfersTypeOK'
  <2> SUFFICES ASSUME TransfersTypeOK, LaneAgrees, [TransfersNext]_transferVars
               PROVE  TransfersTypeOK'
    OBVIOUS
  <2> USE DEF TransfersTypeOK, Status, TxState
  <2>1. CASE UNCHANGED transferVars
    BY <2>1 DEF transferVars
  <2>2. ASSUME NEW r \in Withdrawals,
               CreateWithdrawal(r) \/ CancelWithdrawal(r)
        PROVE  TransfersTypeOK'
    BY <2>2 DEF CreateWithdrawal, CancelWithdrawal, Orders
  <2>3. Advanced \in [Orders -> Status] /\ Restarted \in [Orders -> BOOLEAN]
    BY DEF Advanced, Restarted
  <2>4. ASSUME NEW r \in Withdrawals, ClaimWithdrawal(r) PROVE TransfersTypeOK'
    <3>1. lane' \in Lane
      BY <2>4 DEF ClaimWithdrawal, Lane, Orders
    <3>2. status' \in [Orders -> Status]
      BY <2>3, <2>4 DEF ClaimWithdrawal, Orders
    <3>. QED
      BY <3>1, <3>2, <2>3, <2>4 DEF ClaimWithdrawal
  <2>5. ASSUME NEW r \in Sweeps, CreateSweep(r) PROVE TransfersTypeOK'
    BY <2>5 DEF CreateSweep, Orders
  <2>6. ASSUME NEW r \in Sweeps, ClaimSweep(r) PROVE TransfersTypeOK'
    <3>1. lane' \in Lane
      BY <2>6 DEF ClaimSweep, Lane, Orders
    <3>. QED
      BY <3>1, <2>6 DEF ClaimSweep, Orders
  <2>7. ASSUME NEW r \in Orders, BecomesDue(r) \/ ConfirmTransfer(r) \/ FailTransfer(r)
        PROVE  TransfersTypeOK'
    BY <2>7 DEF BecomesDue, ConfirmTransfer, FailTransfer, Fail
  <2>8. ASSUME NEW r \in Orders, NEW i \in 1..MaxTries,
               Land(r, i) \/ ChainRejects(r, i) \/ BlockhashExpires(r, i)
        PROVE  TransfersTypeOK'
    <3>1. PICK x \in TxState : chain' = [chain EXCEPT ![r][i] = x]
      BY <2>8 DEF Land, ChainRejects, BlockhashExpires
    <3>2. chain' \in [Orders -> [1..MaxTries -> TxState]]
      BY <3>1
    <3>. QED
      BY <3>2, <2>8 DEF Land, ChainRejects, BlockhashExpires
  <2>9. CASE AdvanceCooldowns
    BY <2>3, <2>9 DEF AdvanceCooldowns
  <2>10. CASE LaneDies \/ SessionsChange
    BY <2>10 DEF LaneDies, SessionsChange, Lane
  <2>11. ASSUME lane.at \in {"claimed", "recorded"} PROVE lane.row \in Orders
    BY <2>11 DEF Lane, Idle
  <2>12. CASE SigningFails
    <3>1. lane.row \in Orders /\ lane' \in Lane
      BY <2>11, <2>12 DEF SigningFails, Lane
    <3>2. status' \in [Orders -> Status] /\ due' \in [Orders -> BOOLEAN]
      BY <3>1, <2>12 DEF SigningFails, Fail
    <3>. QED
      BY <3>1, <3>2, <2>12 DEF SigningFails
  <2>13. CASE RecordSubmission
    <3>1. lane.row \in Orders
      BY <2>11, <2>13 DEF RecordSubmission
    <3>2. lane' \in Lane
      BY <3>1, <2>13 DEF RecordSubmission, Lane
    <3>3. status' \in [Orders -> Status]
      BY <3>1, <2>13 DEF RecordSubmission
    <3>4. tries' \in [Orders -> 0..MaxTries]
      BY <3>1, <2>13 DEF RecordSubmission, LaneAgrees
    <3>5. chain' \in [Orders -> [1..MaxTries -> TxState]]
      <4>1. chain' = [chain EXCEPT ![lane.row][tries[lane.row] + 1] = "signed"]
        BY <2>13 DEF RecordSubmission
      <4>2. PICK k : chain' = [chain EXCEPT ![lane.row][k] = "signed"]
        BY <4>1
      <4>. QED
        BY <3>1, <4>2
    <3>. QED
      BY <3>2, <3>3, <3>4, <3>5, <2>13 DEF RecordSubmission
  <2>14. CASE Broadcast
    <3>1. lane.row \in Orders
      BY <2>11, <2>14 DEF Broadcast
    <3>2. chain' \in [Orders -> [1..MaxTries -> TxState]]
      <4>1. CASE UNCHANGED chain
        BY <4>1
      <4>2. CASE chain' = [chain EXCEPT ![lane.row][tries[lane.row]] = "sent"]
        <5>1. PICK k : chain' = [chain EXCEPT ![lane.row][k] = "sent"]
          BY <4>2
        <5>. QED
          BY <3>1, <5>1
      <4>. QED
        BY <4>1, <4>2, <2>14 DEF Broadcast
    <3>3. lane' \in Lane
      BY <2>14 DEF Broadcast, Lane
    <3>. QED
      BY <3>2, <3>3, <2>14 DEF Broadcast
  <2>. QED
    BY <2>1, <2>2, <2>4, <2>5, <2>6, <2>7, <2>8, <2>9, <2>10, <2>12, <2>13, <2>14
       DEF TransfersNext, TransfersWork, TransferFault
<1>3. TransfersTypeOK /\ LaneAgrees /\ [TransfersNext]_transferVars => LaneAgrees'
  <2> SUFFICES ASSUME TransfersTypeOK, LaneAgrees, [TransfersNext]_transferVars
               PROVE  LaneAgrees'
    OBVIOUS
  <2>0. lane = Idle => lane.at \notin {"claimed", "recorded"}
    BY DEF Idle
  <2>1. ASSUME lane' = Idle PROVE LaneAgrees'
    BY <2>1 DEF LaneAgrees, Idle
  <2>2. ASSUME UNCHANGED <<tries, lane>>,
               \A r \in Orders : status[r] \in {"processing", "submitted"} =>
                                    status'[r] = status[r]
        PROVE  LaneAgrees'
    <3>1. lane.at \in {"claimed", "recorded"} => lane.row \in Orders
      BY DEF TransfersTypeOK, Lane, Idle
    <3>. QED
      BY <2>2, <3>1 DEF LaneAgrees
  <2>3. CASE UNCHANGED transferVars
    BY <2>2, <2>3 DEF transferVars
  <2>4. ASSUME NEW r \in Withdrawals, CreateWithdrawal(r) \/ CancelWithdrawal(r)
        PROVE  LaneAgrees'
    BY <2>2, <2>4 DEF CreateWithdrawal, CancelWithdrawal, TransfersTypeOK
  <2>5. ASSUME NEW r \in Withdrawals, ClaimWithdrawal(r) PROVE LaneAgrees'
    <3>1. lane' = [at |-> "claimed", row |-> r]
      BY <2>5 DEF ClaimWithdrawal
    <3>2. status'[r] = "processing"
      BY <2>5 DEF ClaimWithdrawal, Advanced, Orders
    <3>. QED
      BY <3>1, <3>2, <2>5 DEF ClaimWithdrawal, LaneAgrees
  <2>6. ASSUME NEW r \in Sweeps, CreateSweep(r) PROVE LaneAgrees'
    BY <2>2, <2>6 DEF CreateSweep, TransfersTypeOK
  <2>7. ASSUME NEW r \in Sweeps, ClaimSweep(r) PROVE LaneAgrees'
    <3>1. lane' = [at |-> "claimed", row |-> r]
      BY <2>7 DEF ClaimSweep
    <3>2. status'[r] = "processing"
      BY <2>7 DEF ClaimSweep, TransfersTypeOK, Orders
    <3>. QED
      BY <3>1, <3>2, <2>7 DEF ClaimSweep, LaneAgrees
  <2>8. ASSUME NEW r \in Orders, BecomesDue(r) PROVE LaneAgrees'
    BY <2>2, <2>8 DEF BecomesDue
  <2>9. ASSUME NEW r \in Orders, ConfirmTransfer(r) \/ FailTransfer(r)
        PROVE  LaneAgrees'
    BY <2>1, <2>9 DEF ConfirmTransfer, FailTransfer
  <2>10. ASSUME NEW r \in Orders, NEW i \in 1..MaxTries,
                Land(r, i) \/ ChainRejects(r, i) \/ BlockhashExpires(r, i)
         PROVE  LaneAgrees'
    BY <2>2, <2>10 DEF Land, ChainRejects, BlockhashExpires
  <2>11. CASE AdvanceCooldowns \/ SessionsChange
    BY <2>2, <2>11 DEF AdvanceCooldowns, SessionsChange
  <2>12. CASE SigningFails \/ Broadcast \/ LaneDies
    BY <2>1, <2>12 DEF SigningFails, Broadcast, LaneDies
  <2>13. CASE RecordSubmission
    <3>1. lane.row \in Orders
      BY <2>13 DEF RecordSubmission, TransfersTypeOK, Lane, Idle
    <3>2. lane' = [at |-> "recorded", row |-> lane.row]
      BY <2>13 DEF RecordSubmission
    <3>3. status'[lane.row] = "submitted"
      BY <3>1, <2>13 DEF RecordSubmission, TransfersTypeOK
    <3>. QED
      BY <3>2, <3>3 DEF LaneAgrees
  <2>. QED
    BY <2>3, <2>4, <2>5, <2>6, <2>7, <2>8, <2>9, <2>10, <2>11, <2>12, <2>13
       DEF TransfersNext, TransfersWork, TransferFault
<1>4. TransfersInit => LaneAgrees
  BY DEF TransfersInit, LaneAgrees, Idle
<1>. QED
  BY <1>1, <1>2, <1>3, <1>4, PTL DEF TransfersSpec

\* What OnlyRecordedIsAlive says of one row.
OnlyRecordedAliveOf(r) ==
    /\ \A i \in 1..MaxTries :
          /\ i < tries[r] => ChainFailed(chain[r][i])
          /\ i > tries[r] => chain[r][i] = "none"
    /\ status[r] \in {"submitted", "confirmed"} => tries[r] > 0
    /\ tries[r] > 0 /\ status[r] \notin {"submitted", "confirmed"} =>
          ChainFailed(chain[r][tries[r]])
    /\ status[r] = "confirmed" => chain[r][tries[r]] = "landed"

\* Retries stay apart: RecordSubmission leaves a processing row, all of whose
\* transactions are dead, and only FailTransfer, which asks the chain, leaves a
\* submitted row for a new try.
LEMMA TransfersRecorded ==
    ASSUME TransfersTypeOK, LaneAgrees, OnlyRecordedIsAlive, [TransfersNext]_transferVars
    PROVE  OnlyRecordedIsAlive'
<1> USE DEF TransfersTypeOK
<1>0. ASSUME NEW q \in Orders PROVE OnlyRecordedAliveOf(q)
  BY <1>0 DEF OnlyRecordedIsAlive, OnlyRecordedAliveOf
<1> SUFFICES ASSUME NEW q \in Orders PROVE OnlyRecordedAliveOf(q)'
  BY DEF OnlyRecordedIsAlive, OnlyRecordedAliveOf
<1>1. OnlyRecordedAliveOf(q)
  BY <1>0
<1>2. ASSUME status'[q] = status[q], tries'[q] = tries[q], chain'[q] = chain[q]
      PROVE  OnlyRecordedAliveOf(q)'
  BY <1>1, <1>2 DEF OnlyRecordedAliveOf, ChainFailed
\* The status moves among those of rows with no live transaction.
<1>3. ASSUME status[q] \notin {"submitted", "confirmed"},
             status'[q] \notin {"submitted", "confirmed"},
             tries'[q] = tries[q], chain'[q] = chain[q]
      PROVE  OnlyRecordedAliveOf(q)'
  BY <1>1, <1>3 DEF OnlyRecordedAliveOf, ChainFailed
<1>4. CASE UNCHANGED transferVars
  BY <1>2, <1>4 DEF transferVars
<1>5. ASSUME NEW r \in Withdrawals, CreateWithdrawal(r) \/ CancelWithdrawal(r)
      PROVE  OnlyRecordedAliveOf(q)'
  BY <1>2, <1>3, <1>5 DEF CreateWithdrawal, CancelWithdrawal
<1>6. ASSUME NEW r \in Withdrawals, ClaimWithdrawal(r) PROVE OnlyRecordedAliveOf(q)'
  <2>1. status' = [Advanced EXCEPT ![r] = "processing"] /\ UNCHANGED <<tries, chain>>
    BY <1>6 DEF ClaimWithdrawal
  <2>2. \/ status'[q] = status[q]
        \/ /\ status[q] \notin {"submitted", "confirmed"}
           /\ status'[q] \notin {"submitted", "confirmed"}
    BY <1>6, <2>1 DEF ClaimWithdrawal, Advanced, Orders
  <2>. QED
    BY <1>2, <1>3, <2>1, <2>2
<1>7. ASSUME NEW r \in Sweeps, CreateSweep(r) \/ ClaimSweep(r)
      PROVE  OnlyRecordedAliveOf(q)'
  BY <1>2, <1>3, <1>7 DEF CreateSweep, ClaimSweep
<1>8. ASSUME NEW r \in Orders, BecomesDue(r) PROVE OnlyRecordedAliveOf(q)'
  BY <1>2, <1>8 DEF BecomesDue
<1>9. ASSUME NEW r \in Orders, ConfirmTransfer(r) PROVE OnlyRecordedAliveOf(q)'
  <2>1. CASE r = q
    BY <1>1, <1>9, <2>1 DEF ConfirmTransfer, OnlyRecordedAliveOf, ChainFailed
  <2>2. CASE r # q
    BY <1>2, <1>9, <2>2 DEF ConfirmTransfer
  <2>. QED
    BY <2>1, <2>2
<1>10. ASSUME NEW r \in Orders, FailTransfer(r) PROVE OnlyRecordedAliveOf(q)'
  <2>1. CASE r = q
    BY <1>1, <1>10, <2>1 DEF FailTransfer, Fail, OnlyRecordedAliveOf, ChainFailed
  <2>2. CASE r # q
    BY <1>2, <1>10, <2>2 DEF FailTransfer, Fail
  <2>. QED
    BY <2>1, <2>2
<1>11. ASSUME NEW r \in Orders, NEW i \in 1..MaxTries,
              Land(r, i) \/ ChainRejects(r, i) \/ BlockhashExpires(r, i)
       PROVE  OnlyRecordedAliveOf(q)'
  <2>1. PICK x \in TxState : chain' = [chain EXCEPT ![r][i] = x]
    BY <1>11 DEF Land, ChainRejects, BlockhashExpires, TxState
  <2>2. UNCHANGED <<status, tries>> /\ chain[r][i] \in {"signed", "sent"}
    BY <1>11 DEF Land, ChainRejects, BlockhashExpires
  <2>3. CASE r = q
    <3>1. chain[q][i] \notin {"none", "landed", "errored", "expired"}
      BY <2>2, <2>3
    <3>2. i = tries[q] /\ status[q] = "submitted"
      BY <1>1, <3>1 DEF OnlyRecordedAliveOf, ChainFailed
    <3>3. \A k \in 1..MaxTries : k # i => chain'[q][k] = chain[q][k]
      BY <2>1, <2>3
    <3>. QED
      BY <1>1, <2>2, <3>2, <3>3 DEF OnlyRecordedAliveOf, ChainFailed
  <2>4. CASE r # q
    BY <1>2, <2>1, <2>2, <2>4
  <2>. QED
    BY <2>3, <2>4
<1>12. CASE AdvanceCooldowns \/ SessionsChange \/ LaneDies
  BY <1>2, <1>12 DEF AdvanceCooldowns, SessionsChange, LaneDies
<1>13. lane.at \in {"claimed", "recorded"} => lane.row \in Orders
  BY DEF Lane, Idle
<1>14. CASE SigningFails
  <2>1. status[lane.row] = "processing" /\ lane.row \in Orders
    BY <1>13, <1>14 DEF SigningFails, LaneAgrees
  <2>. QED
    BY <1>2, <1>3, <1>14, <2>1 DEF SigningFails, Fail
<1>15. CASE RecordSubmission
  <2> DEFINE r == lane.row
  <2>1. r \in Orders /\ status[r] = "processing" /\ tries[r] < MaxTries
    BY <1>13, <1>15 DEF RecordSubmission, LaneAgrees
  <2>2. CASE r = q
    <3>1. status'[q] = "submitted" /\ tries'[q] = tries[q] + 1
      BY <1>15, <2>1, <2>2 DEF RecordSubmission
    <3>2. \A k \in 1..MaxTries : k # tries[q] + 1 => chain'[q][k] = chain[q][k]
      BY <1>15, <2>1, <2>2 DEF RecordSubmission
    <3>3. \A k \in 1..tries[q] : ChainFailed(chain[q][k])
      BY <1>1, <2>1, <2>2 DEF OnlyRecordedAliveOf
    <3>. QED
      <4>1. tries[q] \in 0..MaxTries
        OBVIOUS
      <4>2. ASSUME NEW k \in 1..MaxTries
            PROVE  /\ k < tries'[q] => ChainFailed(chain'[q][k])
                   /\ k > tries'[q] => chain'[q][k] = "none"
        <5>1. CASE k <= tries[q]
          <6>1. k # tries[q] + 1 /\ k \in 1..tries[q] /\ ~(k > tries'[q])
            BY <3>1, <4>1, <5>1
          <6>. QED
            BY <3>2, <3>3, <6>1
        <5>2. CASE k > tries[q]
          <6>1. chain[q][k] = "none" /\ ~(k < tries'[q])
            BY <1>1, <3>1, <4>1, <5>2 DEF OnlyRecordedAliveOf
          <6>2. k > tries'[q] => k # tries[q] + 1
            BY <3>1, <4>1, <5>2
          <6>. QED
            BY <3>2, <6>1, <6>2
        <5>. QED
          BY <4>1, <5>1, <5>2
      <4>. QED
        BY <3>1, <4>1, <4>2 DEF OnlyRecordedAliveOf, ChainFailed
  <2>3. CASE r # q
    BY <1>2, <1>15, <2>1, <2>3 DEF RecordSubmission
  <2>. QED
    BY <2>2, <2>3
<1>16. CASE Broadcast
  <2> DEFINE r == lane.row
  <2>1. r \in Orders /\ status[r] = "submitted" /\ UNCHANGED <<status, tries>>
    BY <1>13, <1>16 DEF Broadcast, LaneAgrees
  <2>2. CASE UNCHANGED chain
    BY <1>2, <2>1, <2>2
  <2>3. CASE chain' = [chain EXCEPT ![r][tries[r]] = "sent"]
    <3>1. CASE r = q
      <4>1. \A k \in 1..MaxTries : k # tries[q] => chain'[q][k] = chain[q][k]
        BY <2>1, <2>3, <3>1
      <4>. QED
        BY <1>1, <2>1, <3>1, <4>1 DEF OnlyRecordedAliveOf, ChainFailed
    <3>2. CASE r # q
      BY <1>2, <2>1, <2>3, <3>2
    <3>. QED
      BY <3>1, <3>2
  <2>. QED
    BY <1>16, <2>2, <2>3 DEF Broadcast
<1>. QED
  BY <1>4, <1>5, <1>6, <1>7, <1>8, <1>9, <1>10, <1>11, <1>12, <1>14, <1>15, <1>16
     DEF TransfersNext, TransfersWork, TransferFault

\* All that is known of the rows, the chain and the lane, together.
TransfersInv == TransfersTypeOK /\ LaneAgrees /\ OnlyRecordedIsAlive

LEMMA TransfersInductive == TransfersSpec => []TransfersInv
<1>1. TransfersInit => OnlyRecordedIsAlive
  <2> SUFFICES ASSUME TransfersInit, NEW r \in Orders
               PROVE  OnlyRecordedAliveOf(r)
    BY DEF OnlyRecordedIsAlive, OnlyRecordedAliveOf
  <2>1. status[r] = "none" /\ tries[r] = 0
    BY DEF TransfersInit
  <2>2. \A i \in 1..MaxTries : chain[r][i] = "none"
    BY DEF TransfersInit
  <2>. QED
    BY <2>1, <2>2 DEF OnlyRecordedAliveOf
<1>2. TransfersTypeOK /\ LaneAgrees /\ OnlyRecordedIsAlive /\ [TransfersNext]_transferVars
        => OnlyRecordedIsAlive'
  BY TransfersRecorded
<1>. QED
  BY <1>1, <1>2, TransfersTypes, PTL DEF TransfersSpec, TransfersInv

\* The executed transactions of a row are none, or the recorded one of a row that
\* is submitted or confirmed.
LEMMA ArrivedIsRecorded ==
    ASSUME TransfersInv, NEW r \in Orders
    PROVE  \/ Arrived(r) = {}
           \/ /\ status[r] \in {"submitted", "confirmed"}
              /\ Arrived(r) = {tries[r]}
              /\ tries[r] \in 1..MaxTries
              /\ chain[r][tries[r]] = "landed"
<1>1. tries[r] \in 0..MaxTries
  BY DEF TransfersInv, TransfersTypeOK
<1>2. \A i \in 1..MaxTries : chain[r][i] = "landed" => i = tries[r]
  BY <1>1 DEF TransfersInv, OnlyRecordedIsAlive, ChainFailed
<1>3. CASE tries[r] > 0 /\ chain[r][tries[r]] = "landed"
  <2>1. status[r] \in {"submitted", "confirmed"}
    BY <1>3 DEF TransfersInv, OnlyRecordedIsAlive, ChainFailed
  <2>2. Arrived(r) = {tries[r]}
    BY <1>1, <1>2, <1>3 DEF Arrived
  <2>. QED
    BY <1>1, <1>3, <2>1, <2>2
<1>4. CASE ~(tries[r] > 0 /\ chain[r][tries[r]] = "landed")
  BY <1>1, <1>2, <1>4 DEF Arrived
<1>. QED
  BY <1>3, <1>4

\* No row is paid twice and no cancelled row is paid, whatever the number of rows,
\* of tries, of crashes and of lost broadcasts (solana-withdrawal-loop.ts,
\* solana-revenue-sweep-loop.ts: the signature is recorded before it is sent).
THEOREM TransfersPaidOnce == TransfersSpec => []PaidOnce
<1>1. TransfersInv => PaidOnce
  <2> SUFFICES ASSUME TransfersInv, NEW r \in Orders
               PROVE  /\ Cardinality(Arrived(r)) <= 1
                      /\ status[r] = "cancelled" => Arrived(r) = {}
    BY DEF PaidOnce
  <2>1. CASE Arrived(r) = {}
    BY <2>1, FS_EmptySet
  <2>2. CASE Arrived(r) = {tries[r]} /\ status[r] \in {"submitted", "confirmed"}
    BY <2>2, FS_Singleton
  <2>. QED
    BY <2>1, <2>2, ArrivedIsRecorded
<1>. QED
  BY <1>1, TransfersInductive, PTL

\* How often a row is paid, and its outcome, as PayOnce sees them.
LEMMA PaidCount ==
    ASSUME TransfersInv, NEW r \in Orders
    PROVE  /\ paidCount[r] \in {0, 1}
           /\ paidCount[r] = 1 <=> Arrived(r) # {}
           /\ paidCount[r] = 1 => status[r] \in {"submitted", "confirmed"}
           /\ status[r] = "confirmed" => paidCount[r] = 1
<1>1. paidCount[r] = Cardinality(Arrived(r))
  BY DEF paidCount
<1>2. CASE Arrived(r) = {}
  <2>1. paidCount[r] = 0
    BY <1>1, <1>2, FS_EmptySet
  <2>2. status[r] # "confirmed"
    <3>1. tries[r] \in 0..MaxTries
      BY DEF TransfersInv, TransfersTypeOK
    <3>2. SUFFICES ASSUME status[r] = "confirmed" PROVE FALSE
      OBVIOUS
    <3>3. tries[r] \in 1..MaxTries /\ chain[r][tries[r]] = "landed"
      BY <3>1, <3>2 DEF TransfersInv, OnlyRecordedIsAlive
    <3>. QED
      BY <1>2, <3>3 DEF Arrived
  <2>. QED
    BY <1>2, <2>1, <2>2
<1>3. CASE /\ Arrived(r) = {tries[r]}
           /\ status[r] \in {"submitted", "confirmed"}
  BY <1>1, <1>3, FS_Singleton
<1>. QED
  BY <1>2, <1>3, ArrivedIsRecorded

\* Each step of the lanes seen as a step of PayOnce: an execution pays, a
\* cancellation closes, a confirmation acknowledges, the rest stutters.
LEMMA TransfersStepPromise ==
    ASSUME TransfersInv, TransfersInv', [TransfersNext]_transferVars
    PROVE  [Promise!Next]_(Promise!payVars)
<1>0. /\ \A q \in Orders : Arrived(q) = {i \in 1..MaxTries : chain[q][i] = "landed"}
      /\ \A q \in Orders : Arrived(q)' = {i \in 1..MaxTries : chain'[q][i] = "landed"}
  BY DEF Arrived
<1>1. ASSUME \A q \in Orders : Arrived(q)' = Arrived(q) PROVE UNCHANGED paidCount
  BY <1>1 DEF paidCount
<1>2. ASSUME UNCHANGED chain PROVE UNCHANGED paidCount
  BY <1>1, <1>2 DEF Arrived
<1>3. ASSUME \A q \in Orders :
               \/ status'[q] = status[q]
               \/ /\ status[q] \notin {"cancelled", "confirmed"}
                  /\ status'[q] \notin {"cancelled", "confirmed"}
      PROVE  UNCHANGED rowOutcome
  BY <1>3 DEF rowOutcome
<1>4. ASSUME UNCHANGED paidCount, UNCHANGED rowOutcome
      PROVE  [Promise!Next]_(Promise!payVars)
  BY <1>4 DEF Promise!payVars
<1> USE DEF TransfersInv, TransfersTypeOK
<1>5. CASE UNCHANGED transferVars
  BY <1>2, <1>3, <1>4, <1>5 DEF transferVars
<1>6. ASSUME NEW r \in Withdrawals, CreateWithdrawal(r)
      PROVE  [Promise!Next]_(Promise!payVars)
  BY <1>2, <1>3, <1>4, <1>6 DEF CreateWithdrawal
<1>7. ASSUME NEW r \in Withdrawals, CancelWithdrawal(r)
      PROVE  [Promise!Next]_(Promise!payVars)
  <2>1. r \in Orders /\ UNCHANGED paidCount
    BY <1>2, <1>7 DEF CancelWithdrawal, Orders
  <2>2. paidCount[r] = 0 /\ rowOutcome[r] = "open"
    BY <1>7, <2>1, PaidCount DEF CancelWithdrawal, rowOutcome
  <2>3. status' = [status EXCEPT ![r] = "cancelled"]
    BY <1>7 DEF CancelWithdrawal
  <2>4. rowOutcome' = [rowOutcome EXCEPT ![r] = "closed"]
    BY <2>1, <2>3 DEF rowOutcome
  <2>5. Promise!Close(r)
    BY <2>1, <2>2, <2>4 DEF Promise!Close
  <2>. QED
    BY <2>1, <2>5 DEF Promise!Next
<1>8. ASSUME NEW r \in Withdrawals, ClaimWithdrawal(r)
      PROVE  [Promise!Next]_(Promise!payVars)
  <2>1. \A q \in Orders :
            \/ status'[q] = status[q]
            \/ /\ status[q] \notin {"cancelled", "confirmed"}
               /\ status'[q] \notin {"cancelled", "confirmed"}
    BY <1>8 DEF ClaimWithdrawal, Advanced, Orders
  <2>. QED
    BY <1>2, <1>3, <1>4, <1>8, <2>1 DEF ClaimWithdrawal
<1>9. ASSUME NEW r \in Sweeps, CreateSweep(r) \/ ClaimSweep(r)
      PROVE  [Promise!Next]_(Promise!payVars)
  BY <1>2, <1>3, <1>4, <1>9 DEF CreateSweep, ClaimSweep
<1>10. ASSUME NEW r \in Orders, BecomesDue(r) \/ FailTransfer(r)
       PROVE  [Promise!Next]_(Promise!payVars)
  BY <1>2, <1>3, <1>4, <1>10 DEF BecomesDue, FailTransfer, Fail
<1>11. ASSUME NEW r \in Orders, ConfirmTransfer(r)
       PROVE  [Promise!Next]_(Promise!payVars)
  <2>1. UNCHANGED paidCount
    BY <1>2, <1>11 DEF ConfirmTransfer
  <2>2. status' = [status EXCEPT ![r] = "confirmed"] /\ status[r] = "submitted"
    BY <1>11 DEF ConfirmTransfer
  <2>3. rowOutcome' = [rowOutcome EXCEPT ![r] = "acknowledged"] /\ rowOutcome[r] = "open"
    BY <2>2 DEF rowOutcome
  <2>4. status'[r] = "confirmed"
    BY <2>2
  <2>5. paidCount[r] = 1
    <3>1. tries[r] \in 1..MaxTries /\ chain[r][tries[r]] = "landed"
      BY <1>11, <2>2 DEF ConfirmTransfer, OnlyRecordedIsAlive
    <3>2. Arrived(r) # {}
      BY <3>1 DEF Arrived
    <3>. QED
      BY <3>2, PaidCount
  <2>6. Promise!Acknowledge(r)
    BY <2>1, <2>3, <2>5 DEF Promise!Acknowledge
  <2>. QED
    BY <2>6 DEF Promise!Next
<1>12. ASSUME NEW r \in Orders, NEW i \in 1..MaxTries, Land(r, i)
       PROVE  [Promise!Next]_(Promise!payVars)
  <2>1. UNCHANGED status /\ chain[r][i] = "sent" /\ chain' = [chain EXCEPT ![r][i] = "landed"]
    BY <1>12 DEF Land
  <2>2. UNCHANGED rowOutcome
    BY <2>1, <1>3
  <2>3. i = tries[r] /\ status[r] = "submitted"
    <3>1. tries[r] \in Nat /\ status[r] \in Status
      OBVIOUS
    <3>2. OnlyRecordedAliveOf(r)
      BY DEF OnlyRecordedIsAlive, OnlyRecordedAliveOf
    <3>3. ~(i < tries[r]) /\ ~(i > tries[r])
      <4>1. i < tries[r] => chain[r][i] \in {"errored", "expired"}
        BY <3>2 DEF OnlyRecordedAliveOf, ChainFailed
      <4>2. i > tries[r] => chain[r][i] = "none"
        BY <3>2 DEF OnlyRecordedAliveOf
      <4>. QED
        BY <2>1, <4>1, <4>2
    <3>4. i = tries[r]
      BY <3>1, <3>3
    <3>. QED
      BY <2>1, <3>2, <3>4 DEF OnlyRecordedAliveOf, ChainFailed
  <2>4. Arrived(r) = {}
    <3>1. chain[r][tries[r]] # "landed"
      BY <2>1, <2>3
    <3>. QED
      BY <3>1, ArrivedIsRecorded
  <2>5. Arrived(r)' = {i}
    BY <2>1, <2>4, <1>0
  <2>6. ASSUME NEW q \in Orders, q # r PROVE Arrived(q)' = Arrived(q)
    <3>1. chain'[q] = chain[q]
      BY <2>1, <2>6
    <3>. QED
      BY <3>1 DEF Arrived
  <2>7. paidCount[r] = 0 /\ Cardinality(Arrived(r)') = 1
    BY <2>4, <2>5, PaidCount, FS_Singleton
  <2>8. paidCount' = [paidCount EXCEPT ![r] = 1]
    BY <2>6, <2>7 DEF paidCount
  <2>9. rowOutcome[r] = "open"
    BY <2>3 DEF rowOutcome
  <2>10. Promise!Pay(r)
    BY <2>2, <2>7, <2>8, <2>9 DEF Promise!Pay
  <2>. QED
    BY <2>10 DEF Promise!Next
<1>13. ASSUME NEW r \in Orders, NEW i \in 1..MaxTries,
              ChainRejects(r, i) \/ BlockhashExpires(r, i)
       PROVE  [Promise!Next]_(Promise!payVars)
  <2>1. PICK x \in {"errored", "expired"} : chain' = [chain EXCEPT ![r][i] = x]
    BY <1>13 DEF ChainRejects, BlockhashExpires
  <2>2. UNCHANGED status /\ chain[r][i] # "landed"
    BY <1>13 DEF ChainRejects, BlockhashExpires
  <2>3. ASSUME NEW q \in Orders PROVE Arrived(q)' = Arrived(q)
    <3>1. \A k \in 1..MaxTries : chain'[q][k] = "landed" <=> chain[q][k] = "landed"
      BY <2>1, <2>2
    <3>. QED
      BY <3>1 DEF Arrived
  <2>. QED
    BY <1>1, <1>3, <1>4, <2>2, <2>3
<1>14. CASE AdvanceCooldowns \/ SessionsChange \/ LaneDies
  BY <1>2, <1>3, <1>4, <1>14 DEF AdvanceCooldowns, SessionsChange, LaneDies
<1>15. lane.at \in {"claimed", "recorded"} => lane.row \in Orders
  BY DEF Lane, Idle
<1>16. CASE SigningFails
  <2>1. status[lane.row] = "processing" /\ lane.row \in Orders
    BY <1>15, <1>16 DEF SigningFails, LaneAgrees
  <2>. QED
    BY <1>2, <1>3, <1>4, <1>16, <2>1 DEF SigningFails, Fail
<1>17. ASSUME NEW r \in Orders, NEW i, NEW x \in {"signed", "sent"},
              chain' = [chain EXCEPT ![r][i] = x],
              i \in 1..MaxTries => chain[r][i] # "landed"
       PROVE  UNCHANGED paidCount
  <2>1. ASSUME NEW q \in Orders PROVE Arrived(q)' = Arrived(q)
    <3>1. ASSUME NEW k \in 1..MaxTries
          PROVE  chain'[q][k] = "landed" <=> chain[q][k] = "landed"
      <4>1. CASE q = r /\ k = i
        BY <1>17, <4>1
      <4>2. CASE ~(q = r /\ k = i)
        BY <1>17, <4>2
      <4>. QED
        BY <4>1, <4>2
    <3>. QED
      BY <3>1 DEF Arrived
  <2>. QED
    BY <1>1, <2>1
<1>18. CASE RecordSubmission
  <2> DEFINE r == lane.row
  <2>1. r \in Orders /\ status[r] = "processing" /\ tries[r] < MaxTries
    BY <1>15, <1>18 DEF RecordSubmission, LaneAgrees
  <2>2. UNCHANGED rowOutcome
    BY <1>3, <1>18, <2>1 DEF RecordSubmission
  <2>3. chain[r][tries[r] + 1] = "none"
    BY <2>1 DEF OnlyRecordedIsAlive
  <2>4. UNCHANGED paidCount
    BY <1>17, <1>18, <2>1, <2>3 DEF RecordSubmission
  <2>. QED
    BY <1>4, <2>2, <2>4
<1>19. CASE Broadcast
  <2> DEFINE r == lane.row
  <2>1. r \in Orders /\ UNCHANGED status
    BY <1>15, <1>19 DEF Broadcast
  <2>2. CASE UNCHANGED chain
    BY <1>2, <1>3, <1>4, <2>1, <2>2
  <2>3. CASE /\ chain[r][tries[r]] = "signed"
             /\ chain' = [chain EXCEPT ![r][tries[r]] = "sent"]
    <3>1. UNCHANGED paidCount
      BY <1>17, <2>1, <2>3
    <3>. QED
      BY <1>3, <1>4, <2>1, <3>1
  <2>. QED
    BY <1>19, <2>2, <2>3 DEF Broadcast
<1>. QED
  BY <1>5, <1>6, <1>7, <1>8, <1>9, <1>10, <1>11, <1>12, <1>13, <1>14, <1>16, <1>18, <1>19
     DEF TransfersNext, TransfersWork, TransferFault

\* The lanes implement PayOnce: a row is paid at most once, acknowledged only
\* after it was paid, and never paid once its owner withdrew it.
THEOREM TransfersKeepPromise == TransfersSpec => PayOncePromise
<1>1. TransfersInit => Promise!Init
  <2> SUFFICES ASSUME TransfersInit PROVE Promise!Init
    OBVIOUS
  <2>1. \A r \in Orders : Arrived(r) = {} /\ status[r] = "none"
    BY DEF TransfersInit, Arrived
  <2>2. paidCount = [r \in Orders |-> 0]
    BY <2>1, FS_EmptySet DEF paidCount
  <2>3. rowOutcome = [r \in Orders |-> "open"]
    BY <2>1 DEF rowOutcome
  <2>. QED
    BY <2>2, <2>3 DEF Promise!Init
<1>2. TransfersInv /\ TransfersInv' /\ [TransfersNext]_transferVars
        => [Promise!Next]_(Promise!payVars)
  BY TransfersStepPromise
<1>. QED
  BY <1>1, <1>2, TransfersInductive, PTL DEF TransfersSpec, PayOncePromise, Promise!Spec

(***************************************************************************)
(* The account.                                                            *)
(***************************************************************************)
USE PrepaidAssumption

\* The account adds amounts to the lanes and takes no step the lanes do not have:
\* a suspension is, for them, a change of the sessions.
LEMMA PrepaidStepIsTransfersStep ==
    ASSUME [PrepaidNext]_prepaidVars, live \in BOOLEAN
    PROVE  [TransfersNext]_transferVars
<1>1. CASE UNCHANGED prepaidVars
  BY <1>1 DEF prepaidVars
<1>2. ASSUME NEW s \in Sweeps, NEW spent, SweepSpent(s, spent)
      PROVE  [TransfersNext]_transferVars
  BY <1>2 DEF SweepSpent, TransfersNext, TransfersWork, TransferFault
<1>3. ASSUME NEW s \in Sweeps, NEW charge \in Charges, settleRatingCandidate(s, charge)
      PROVE  [TransfersNext]_transferVars
  BY <1>2, <1>3 DEF settleRatingCandidate
<1>4. ASSUME NEW s \in Sweeps, NEW cents \in Amounts, creditDirectDeposit(s, cents)
      PROVE  [TransfersNext]_transferVars
  BY <1>2, <1>4 DEF creditDirectDeposit
<1>5. ASSUME NEW cents \in Amounts, grantPromotionalCredit(cents)
      PROVE  [TransfersNext]_transferVars
  BY <1>5 DEF grantPromotionalCredit
<1>6. CASE BalanceRestored \/ GraceStarts \/ GraceEnds
  BY <1>6 DEF BalanceRestored, GraceStarts, GraceEnds
<1>7. CASE Suspend
  BY <1>7 DEF Suspend, TransfersNext, TransfersWork, TransferFault, SessionsChange, transferVars
<1>8. ASSUME NEW r \in Withdrawals, NEW cents \in Amounts, createWithdrawalRequest(r, cents)
      PROVE  [TransfersNext]_transferVars
  BY <1>8 DEF createWithdrawalRequest, TransfersNext, TransfersWork, TransferFault
<1>9. ASSUME NEW r \in Withdrawals, cancelOwnedWithdrawal(r) \/ confirmWithdrawal(r)
      PROVE  [TransfersNext]_transferVars
  BY <1>9 DEF cancelOwnedWithdrawal, confirmWithdrawal, TransfersNext, TransfersWork, TransferFault, Orders
<1>10. ASSUME NEW r \in Sweeps, confirmCashSweep(r)
       PROVE  [TransfersNext]_transferVars
  BY <1>10 DEF confirmCashSweep, TransfersNext, TransfersWork, TransferFault, Orders
<1>11. ASSUME NEW r \in Orders, NEW i \in 1..MaxTries, Execute(r, i)
       PROVE  [TransfersNext]_transferVars
  BY <1>11 DEF Execute, TransfersNext, TransfersWork, TransferFault
<1>12. CASE LaneStep
  BY <1>12 DEF LaneStep, TransfersNext, TransfersWork, TransferFault
<1>. QED
  BY <1>1, <1>3, <1>4, <1>5, <1>6, <1>7, <1>8, <1>9, <1>10, <1>11, <1>12 DEF PrepaidNext

LEMMA LiveStays == live \in BOOLEAN /\ [TransfersNext]_transferVars => (live \in BOOLEAN)'
BY DEF TransfersNext, TransfersWork, TransferFault, transferVars, CreateWithdrawal, CancelWithdrawal, ClaimWithdrawal,
       CreateSweep, ClaimSweep, BecomesDue, ConfirmTransfer, FailTransfer, Land,
       ChainRejects, BlockhashExpires, AdvanceCooldowns, SigningFails, RecordSubmission,
       Broadcast, LaneDies, SessionsChange

LEMMA PrepaidImplementsTransfers == PrepaidSpec => TransfersSpec
<1>1. PrepaidInit => TransfersInit /\ live \in BOOLEAN
  BY DEF PrepaidInit, TransfersInit
<1>2. live \in BOOLEAN /\ [PrepaidNext]_prepaidVars => [TransfersNext]_transferVars
  BY PrepaidStepIsTransfersStep
<1>3. live \in BOOLEAN /\ [TransfersNext]_transferVars => (live \in BOOLEAN)'
  BY LiveStays
<1>. QED
  BY <1>1, <1>2, <1>3, PTL DEF PrepaidSpec, TransfersSpec

------------------------------------------------------------------------------
(***************************************************************************)
(* The bucket arithmetic.                                                  *)
(***************************************************************************)
Total(b) == b.cash + b.promotional - b.debt

\* A charge of so many cents lowers the balance by as many, moves no reservation,
\* and leaves reserved cash alone.
LEMMA ConsumeMoves ==
    ASSUME NEW b \in Buckets, NEW charge \in Nat, b.reserved <= b.cash
    PROVE  LET after == consumeBillingCharge(b, charge)
           IN  /\ after \in Buckets
               /\ after.reserved = b.reserved
               /\ after.reserved <= after.cash
               /\ after.cash <= b.cash
               /\ Total(after) = Total(b) - charge
<1> DEFINE promotional == Least(b.promotional, charge)
           spendable == IF b.cash >= b.reserved THEN b.cash - b.reserved ELSE 0
           cash == Least(spendable, charge - promotional)
           after == consumeBillingCharge(b, charge)
<1>1. b.cash \in Nat /\ b.promotional \in Nat /\ b.reserved \in Nat /\ b.debt \in Nat
  BY DEF Buckets
<1>2. /\ promotional \in Nat /\ promotional <= b.promotional /\ promotional <= charge
      /\ cash \in Nat /\ cash <= b.cash - b.reserved /\ cash <= charge - promotional
  BY <1>1 DEF Least
<1>3. /\ after.cash = b.cash - cash
      /\ after.promotional = b.promotional - promotional
      /\ after.reserved = b.reserved
      /\ after.debt = b.debt + (charge - promotional - cash)
  BY <1>1 DEF consumeBillingCharge, Buckets
<1> HIDE DEF promotional, cash
<1>4. /\ b.cash - cash \in Nat
      /\ b.promotional - promotional \in Nat
      /\ b.debt + (charge - promotional - cash) \in Nat
  BY <1>1, <1>2
<1>5. after \in Buckets
  BY <1>1, <1>4 DEF consumeBillingCharge, Buckets, cash, promotional
<1> HIDE DEF after
<1>6. /\ after.reserved <= after.cash
      /\ after.cash <= b.cash
      /\ Total(after) = Total(b) - charge
  BY <1>1, <1>2, <1>3 DEF Total
<1>. QED
  BY <1>3, <1>5, <1>6 DEF after

\* A credit raises the balance by what is credited, and lowers no bucket but debt.
LEMMA CreditMoves ==
    ASSUME NEW b \in Buckets, NEW credit \in Nat, NEW kind \in {"cash", "promotional"},
           b.reserved <= b.cash
    PROVE  LET after == applyBucketCredit(b, credit, kind)
           IN  /\ after \in Buckets
               /\ after.reserved <= after.cash
               /\ after.debt <= b.debt
               /\ Total(after) = Total(b) + credit
<1> DEFINE repaid == Least(b.debt, credit)
           rest == credit - repaid
           after == applyBucketCredit(b, credit, kind)
<1>1. b.cash \in Nat /\ b.promotional \in Nat /\ b.reserved \in Nat /\ b.debt \in Nat
  BY DEF Buckets
<1>2. repaid \in Nat /\ repaid <= b.debt /\ repaid <= credit /\ rest \in Nat
  BY <1>1 DEF Least
<1>3. /\ after.cash = b.cash + (IF kind = "cash" THEN rest ELSE 0)
      /\ after.promotional = b.promotional + (IF kind = "promotional" THEN rest ELSE 0)
      /\ after.reserved = b.reserved
      /\ after.debt = b.debt - repaid
  BY <1>1 DEF applyBucketCredit, Buckets
<1>4. /\ b.cash + (IF kind = "cash" THEN rest ELSE 0) \in Nat
      /\ b.promotional + (IF kind = "promotional" THEN rest ELSE 0) \in Nat
      /\ b.debt - repaid \in Nat
  BY <1>1, <1>2
<1>5. after \in Buckets
  BY <1>4 DEF applyBucketCredit, Buckets
<1> HIDE DEF after, repaid
<1>6. after.reserved <= after.cash /\ after.debt <= b.debt
  BY <1>1, <1>2, <1>3
<1>7. Total(after) = Total(b) + credit
  BY <1>1, <1>2, <1>3 DEF Total
<1>. QED
  BY <1>5, <1>6, <1>7 DEF after

LEMMA DivisionLeaves ==
    ASSUME NEW a \in Nat, NEW u \in Nat \ {0}
    PROVE  /\ a \div u \in Nat
           /\ a % u \in 0..(u - 1)
           /\ (a \div u) * u + (a % u) = a
  OBVIOUS

------------------------------------------------------------------------------
(***************************************************************************)
(* Sums of amounts.                                                        *)
(***************************************************************************)
LEMMA SumOfNone == \A f : IsFiniteSet(UnitsOf(f, {})) /\ SumOf(f, {}) = 0
BY FS_EmptySet DEF UnitsOf, SumOf

\* One more amount.
LEMMA SumOfMore ==
    ASSUME NEW f, NEW S, NEW x, x \notin S, f[x] \in Nat, IsFiniteSet(UnitsOf(f, S))
    PROVE  IsFiniteSet(UnitsOf(f, S \cup {x})) /\ SumOf(f, S \cup {x}) = SumOf(f, S) + f[x]
<1> DEFINE units == {x} \X (1..f[x])
<1>1. IsFiniteSet({x}) /\ Cardinality({x}) = 1
  BY FS_Singleton
<1>2. IsFiniteSet(1..f[x]) /\ Cardinality(1..f[x]) = f[x]
  <2>1. ASSUME NEW n \in Nat PROVE IsFiniteSet(1..n) /\ Cardinality(1..n) = n
    <3>0. 1 \in Int /\ n \in Int
      OBVIOUS
    <3>1. IsFiniteSet(1..n) /\ Cardinality(1..n) = IF 1 > n THEN 0 ELSE n - 1 + 1
      BY ONLY <3>0, FS_Interval
    <3> QED
      BY <3>1
  <2> QED
    BY <2>1
<1>3. IsFiniteSet(units) /\ Cardinality(units) = f[x]
  <2>1. IsFiniteSet(units) /\ Cardinality(units) = Cardinality({x}) * Cardinality(1..f[x])
    BY <1>1, <1>2, FS_Product
  <2> HIDE DEF units
  <2>2. Cardinality(units) = 1 * f[x]
    BY <1>1, <1>2, <2>1
  <2> QED
    BY <2>1, <2>2
<1>4. UnitsOf(f, S \cup {x}) = UnitsOf(f, S) \cup units
  BY DEF UnitsOf
<1>5. UnitsOf(f, S) \cap units = {}
  BY DEF UnitsOf
<1> HIDE DEF units
<1>6. Cardinality(UnitsOf(f, S)) \in Nat /\ Cardinality({}) = 0
  BY FS_CardinalityType, FS_EmptySet
<1>7. /\ IsFiniteSet(UnitsOf(f, S) \cup units)
      /\ Cardinality(UnitsOf(f, S) \cup units) =
           Cardinality(UnitsOf(f, S)) + Cardinality(units) - Cardinality(UnitsOf(f, S) \cap units)
  BY <1>3, FS_Union
<1>8. Cardinality(UnitsOf(f, S \cup {x})) = Cardinality(UnitsOf(f, S)) + f[x]
  <2>1. Cardinality(UnitsOf(f, S \cup {x})) = Cardinality(UnitsOf(f, S)) + f[x] - 0
    BY <1>3, <1>4, <1>5, <1>6, <1>7
  <2> QED
    BY <1>6, <2>1
<1> QED
  BY <1>4, <1>7, <1>8 DEF SumOf

\* One amount less.
LEMMA SumOfLess ==
    ASSUME NEW f, NEW S, NEW x \in S, f[x] \in Nat, IsFiniteSet(UnitsOf(f, S))
    PROVE  IsFiniteSet(UnitsOf(f, S \ {x})) /\ SumOf(f, S) = SumOf(f, S \ {x}) + f[x]
<1>1. UnitsOf(f, S \ {x}) \subseteq UnitsOf(f, S)
  BY DEF UnitsOf
<1>2. IsFiniteSet(UnitsOf(f, S \ {x}))
  BY <1>1, FS_Subset
<1>3. (S \ {x}) \cup {x} = S /\ x \notin S \ {x}
  OBVIOUS
<1> QED
  BY <1>2, <1>3, SumOfMore

\* Amounts that are not in the set do not count.
LEMMA SumOfSame ==
    ASSUME NEW f, NEW g, NEW S, \A x \in S : f[x] = g[x]
    PROVE  UnitsOf(f, S) = UnitsOf(g, S) /\ SumOf(f, S) = SumOf(g, S)
BY DEF UnitsOf, SumOf

\* The amount of one member changes from nothing.
LEMMA SumOfFilled ==
    ASSUME NEW f, NEW g, NEW S, NEW x \in S, f[x] = 0, g[x] \in Nat,
           \A y \in S \ {x} : f[y] = g[y], IsFiniteSet(UnitsOf(f, S))
    PROVE  IsFiniteSet(UnitsOf(g, S)) /\ SumOf(g, S) = SumOf(f, S) + g[x]
<1> DEFINE rest == S \ {x}
<1>1. rest \cup {x} = S /\ x \notin rest
  OBVIOUS
<1>2. IsFiniteSet(UnitsOf(f, rest)) /\ SumOf(f, S) = SumOf(f, rest) + f[x]
  <2>1. f[x] \in Nat
    OBVIOUS
  <2>. QED
    BY <2>1, SumOfLess
<1>3. UnitsOf(g, rest) = UnitsOf(f, rest) /\ SumOf(g, rest) = SumOf(f, rest)
  BY SumOfSame
<1> HIDE DEF rest
<1>4. IsFiniteSet(UnitsOf(g, rest \cup {x})) /\ SumOf(g, rest \cup {x}) = SumOf(g, rest) + g[x]
  BY <1>1, <1>2, <1>3, SumOfMore
<1>5. SumOf(f, rest) \in Nat
  BY <1>2, FS_CardinalityType DEF SumOf
<1>6. SumOf(f, S) = SumOf(g, rest)
  BY <1>2, <1>3, <1>5
<1>. QED
  BY <1>1, <1>4, <1>6

------------------------------------------------------------------------------
\* The account's own variables.
AccountTypeOK ==
    /\ buckets \in Buckets
    /\ remainder \in 0..(Unit - 1)
    /\ state \in {"active", "grace", "suspended"}
    /\ graceOver \in BOOLEAN
    /\ amount \in [Orders -> Nat]
    /\ wallet \in Int
    /\ credits \in 0..MaxCredits
    /\ ledger \in Int
    /\ rated \in Nat
    /\ charged \in Nat

\* All that is known of the account, together.
AccountInv == AccountTypeOK /\ ReservedIsCash /\ LedgerIsBalance /\ NoRoundingLoss

\* What moves no bucket, accrual or ledger keeps the invariant, once typed.
LEMMA AccountKeeps ==
    ASSUME AccountInv, AccountTypeOK', UNCHANGED <<buckets, remainder, ledger, rated, charged>>
    PROVE  AccountInv'
  BY DEF AccountInv, ReservedIsCash, LedgerIsBalance, NoRoundingLoss

LEMMA SweepTyped ==
    ASSUME AccountTypeOK, NEW s \in Sweeps, NEW spent \in Int, SweepSpent(s, spent)
    PROVE  amount' \in [Orders -> Nat]
<1>1. s \in Orders /\ amount \in [Orders -> Nat]
  BY DEF Orders, AccountTypeOK
<1>2. CASE spent > 0
  BY <1>1, <1>2 DEF SweepSpent
<1>3. CASE ~(spent > 0)
  BY <1>1, <1>3 DEF SweepSpent
<1>. QED
  BY <1>2, <1>3

LEMMA SettlementStep ==
    ASSUME AccountInv, NEW s \in Sweeps, NEW charge \in Charges, settleRatingCandidate(s, charge)
    PROVE  AccountInv'
<1> DEFINE accumulated == remainder + charge
           posted == accumulated \div Unit
           after == consumeBillingCharge(buckets, posted)
<1>0. AccountTypeOK /\ buckets \in Buckets /\ buckets.reserved <= buckets.cash
  BY DEF AccountInv, AccountTypeOK, ReservedIsCash
<1>1. accumulated \in Nat /\ Unit \in Nat \ {0} /\ charge \in Nat /\ remainder \in Nat
  BY <1>0 DEF AccountTypeOK
<1>2. /\ posted \in Nat
      /\ accumulated % Unit \in 0..(Unit - 1)
      /\ posted * Unit + (accumulated % Unit) = accumulated
  BY <1>1, DivisionLeaves
<1>3. /\ rated' = rated + charge
      /\ remainder' = accumulated % Unit
      /\ buckets' = after
      /\ ledger' = ledger - posted
      /\ charged' = charged + posted
      /\ SweepSpent(s, buckets.cash - after.cash)
      /\ UNCHANGED <<state, graceOver, wallet, credits>>
  BY DEF settleRatingCandidate
<1>4. /\ after \in Buckets
      /\ after.reserved <= after.cash
      /\ Total(after) = Total(buckets) - posted
  BY <1>0, <1>2, ConsumeMoves
<1> HIDE DEF after, posted
<1>5. after.cash \in Nat /\ buckets.cash \in Nat
  BY <1>0, <1>4 DEF Buckets
<1>6. amount' \in [Orders -> Nat]
  BY <1>0, <1>3, <1>5, SweepTyped
<1>7. AccountTypeOK'
  BY <1>0, <1>1, <1>2, <1>3, <1>4, <1>6 DEF AccountTypeOK
<1>8. ReservedIsCash'
  BY <1>3, <1>4 DEF ReservedIsCash
<1>9. LedgerIsBalance'
  <2>1. ledger = Total(buckets)
    BY DEF AccountInv, LedgerIsBalance, Total
  <2>2. ledger' = Total(buckets')
    BY <1>3, <1>4, <2>1
  <2>. QED
    BY <2>2 DEF LedgerIsBalance, Total
<1>10. NoRoundingLoss'
  <2>1. charged \in Nat /\ charged * Unit + remainder = rated
    BY <1>0 DEF AccountInv, NoRoundingLoss, AccountTypeOK
  <2>2. (charged + posted) * Unit = charged * Unit + posted * Unit
    BY <1>1, <1>2, <2>1
  <2>3. charged * Unit \in Int /\ posted * Unit \in Int
    BY <1>1, <1>2, <2>1
  <2>. QED
    BY <1>1, <1>2, <1>3, <2>1, <2>2, <2>3 DEF NoRoundingLoss
<1>. QED
  BY <1>7, <1>8, <1>9, <1>10 DEF AccountInv

LEMMA CreditStep ==
    ASSUME AccountInv, NEW cents \in Amounts,
           \/ \E s \in Sweeps : creditDirectDeposit(s, cents)
           \/ grantPromotionalCredit(cents)
    PROVE  AccountInv'
<1>0. AccountTypeOK /\ buckets \in Buckets /\ buckets.reserved <= buckets.cash
  BY DEF AccountInv, AccountTypeOK, ReservedIsCash
<1>1. PICK kind \in {"cash", "promotional"} :
          /\ buckets' = applyBucketCredit(buckets, cents, kind)
          /\ ledger' = ledger + cents
  BY DEF creditDirectDeposit, grantPromotionalCredit
<1>2. cents \in Nat
  OBVIOUS
<1>3. /\ buckets' \in Buckets
      /\ buckets'.reserved <= buckets'.cash
      /\ buckets'.debt <= buckets.debt
      /\ Total(buckets') = Total(buckets) + cents
  BY <1>0, <1>1, <1>2, CreditMoves
<1>4. UNCHANGED <<remainder, state, graceOver, rated, charged>>
  BY DEF creditDirectDeposit, grantPromotionalCredit
<1>5. credits' \in 0..MaxCredits /\ wallet' \in Int
  BY <1>0, <1>2 DEF creditDirectDeposit, grantPromotionalCredit, AccountTypeOK
<1>6. amount' \in [Orders -> Nat]
  <2>1. CASE grantPromotionalCredit(cents)
    BY <1>0, <2>1 DEF grantPromotionalCredit, AccountTypeOK
  <2>2. ASSUME NEW s \in Sweeps, creditDirectDeposit(s, cents)
        PROVE  amount' \in [Orders -> Nat]
    <3>1. SweepSpent(s, buckets.debt - buckets'.debt)
      BY <2>2 DEF creditDirectDeposit
    <3>2. buckets.debt - buckets'.debt \in Int
      BY <1>0, <1>3 DEF Buckets
    <3>. QED
      BY <1>0, <3>1, <3>2, SweepTyped
  <2>. QED
    BY <2>1, <2>2
<1>7. AccountTypeOK'
  BY <1>0, <1>1, <1>2, <1>3, <1>4, <1>5, <1>6 DEF AccountTypeOK
<1>8. LedgerIsBalance'
  <2>1. ledger = Total(buckets)
    BY DEF AccountInv, LedgerIsBalance, Total
  <2>2. ledger' = Total(buckets')
    BY <1>1, <1>3, <2>1
  <2>. QED
    BY <2>2 DEF LedgerIsBalance, Total
<1>9. ReservedIsCash' /\ NoRoundingLoss'
  BY <1>3, <1>4 DEF AccountInv, ReservedIsCash, NoRoundingLoss
<1>. QED
  BY <1>7, <1>8, <1>9 DEF AccountInv

LEMMA WithdrawalStep ==
    ASSUME AccountInv, NEW r \in Withdrawals,
           \/ \E cents \in Amounts : createWithdrawalRequest(r, cents)
           \/ cancelOwnedWithdrawal(r)
           \/ confirmWithdrawal(r)
    PROVE  AccountInv'
<1>0. /\ AccountTypeOK /\ buckets \in Buckets /\ buckets.reserved <= buckets.cash
      /\ r \in Orders /\ amount \in [Orders -> Nat] /\ amount[r] \in Nat
      /\ ledger = Total(buckets)
  BY DEF AccountInv, AccountTypeOK, ReservedIsCash, Orders, LedgerIsBalance, Total
<1>1. /\ buckets.cash \in Nat /\ buckets.promotional \in Nat
      /\ buckets.reserved \in Nat /\ buckets.debt \in Nat
  BY <1>0 DEF Buckets
<1>2. UNCHANGED <<remainder, state, graceOver, wallet, credits, rated, charged>>
  BY DEF createWithdrawalRequest, cancelOwnedWithdrawal, confirmWithdrawal
\* Each of the three moves cash and reservation, and the ledger with the cash.
<1>3. ASSUME NEW cash \in Nat, NEW reserved \in Nat, reserved <= cash,
             buckets' = [buckets EXCEPT !.cash = cash, !.reserved = reserved],
             ledger' = ledger - (buckets.cash - cash),
             amount' \in [Orders -> Nat]
      PROVE  AccountInv'
  <2>1. /\ buckets'.cash = cash /\ buckets'.reserved = reserved
        /\ buckets'.promotional = buckets.promotional /\ buckets'.debt = buckets.debt
    BY <1>0, <1>3 DEF Buckets
  <2>2. buckets' \in Buckets
    BY <1>0, <1>3 DEF Buckets
  <2>3. AccountTypeOK'
    <3>1. ledger' \in Int
      BY <1>0, <1>1, <1>3 DEF AccountTypeOK
    <3>. QED
      BY <1>0, <1>2, <1>3, <2>2, <3>1 DEF AccountTypeOK
  <2>4. LedgerIsBalance'
    BY <1>0, <1>1, <1>3, <2>1 DEF LedgerIsBalance, Total
  <2>5. ReservedIsCash' /\ NoRoundingLoss'
    BY <1>2, <1>3, <2>1 DEF AccountInv, ReservedIsCash, NoRoundingLoss
  <2>. QED
    BY <2>3, <2>4, <2>5 DEF AccountInv
<1>4. ASSUME NEW cents \in Amounts, createWithdrawalRequest(r, cents) PROVE AccountInv'
  <2>1. /\ buckets' = [buckets EXCEPT !.reserved = buckets.reserved + cents]
        /\ cents <= buckets.cash - buckets.reserved
        /\ amount' = [amount EXCEPT ![r] = cents]
        /\ ledger' = ledger
    BY <1>4 DEF createWithdrawalRequest
  <2>2. cents \in Nat /\ buckets.reserved + cents \in Nat
    BY <1>1
  <2>3. buckets' = [buckets EXCEPT !.cash = buckets.cash, !.reserved = buckets.reserved + cents]
    BY <1>0, <2>1 DEF Buckets
  <2>4. ledger' = ledger - (buckets.cash - buckets.cash)
    BY <1>0, <1>1, <2>1 DEF AccountTypeOK
  <2>5. amount' \in [Orders -> Nat] /\ buckets.reserved + cents <= buckets.cash
    BY <1>0, <1>1, <2>1, <2>2
  <2> DEFINE reserved == buckets.reserved + cents
  <2> HIDE DEF reserved
  <2>6. reserved \in Nat /\ reserved <= buckets.cash
        /\ buckets' = [buckets EXCEPT !.cash = buckets.cash, !.reserved = reserved]
    BY <2>2, <2>3, <2>5 DEF reserved
  <2>. QED
    BY <1>1, <1>3, <2>4, <2>5, <2>6
<1>5. CASE cancelOwnedWithdrawal(r)
  <2> DEFINE left == IF buckets.reserved >= amount[r] THEN buckets.reserved - amount[r] ELSE 0
  <2>1. buckets' = [buckets EXCEPT !.reserved = left] /\ UNCHANGED <<amount, ledger>>
    BY <1>5 DEF cancelOwnedWithdrawal
  <2>2. left \in Nat /\ left <= buckets.reserved
    BY <1>0, <1>1
  <2> HIDE DEF left
  <2>3. buckets' = [buckets EXCEPT !.cash = buckets.cash, !.reserved = left]
    BY <1>0, <2>1 DEF Buckets
  <2>4. ledger' = ledger - (buckets.cash - buckets.cash)
    BY <1>0, <1>1, <2>1 DEF AccountTypeOK
  <2>5. amount' \in [Orders -> Nat] /\ left <= buckets.cash
    BY <1>0, <1>1, <2>1, <2>2
  <2>. QED
    BY <1>1, <1>3, <2>2, <2>3, <2>4, <2>5
<1>6. CASE confirmWithdrawal(r)
  <2>1. /\ buckets.cash >= amount[r] /\ buckets.reserved >= amount[r]
        /\ buckets' = [buckets EXCEPT !.cash = buckets.cash - amount[r],
                                     !.reserved = buckets.reserved - amount[r]]
        /\ ledger' = ledger - amount[r]
        /\ UNCHANGED amount
    BY <1>6 DEF confirmWithdrawal, Reserved
  <2>2. /\ buckets.cash - amount[r] \in Nat /\ buckets.reserved - amount[r] \in Nat
        /\ buckets.reserved - amount[r] <= buckets.cash - amount[r]
        /\ amount[r] = buckets.cash - (buckets.cash - amount[r])
    BY <1>0, <1>1, <2>1
  <2>. QED
    BY <1>0, <1>3, <2>1, <2>2
<1>. QED
  BY <1>4, <1>5, <1>6

LEMMA AccountInitially == PrepaidInit => AccountInv
<1> SUFFICES ASSUME PrepaidInit PROVE AccountInv
  OBVIOUS
<1>1. buckets = [cash |-> 0, promotional |-> 0, reserved |-> 0, debt |-> 0]
  BY DEF PrepaidInit
<1>2. AccountTypeOK
  <2>1. buckets \in Buckets
    BY <1>1 DEF Buckets
  <2>2. amount \in [Orders -> Nat] /\ remainder \in 0..(Unit - 1)
    BY DEF PrepaidInit
  <2>3. state \in {"active", "grace", "suspended"} /\ graceOver \in BOOLEAN
    BY DEF PrepaidInit
  <2>4. /\ wallet \in Int /\ credits \in 0..MaxCredits
        /\ ledger \in Int /\ rated \in Nat /\ charged \in Nat
    BY DEF PrepaidInit
  <2>. QED
    BY <2>1, <2>2, <2>3, <2>4 DEF AccountTypeOK
<1>3. ReservedIsCash /\ LedgerIsBalance /\ NoRoundingLoss
  BY <1>1 DEF PrepaidInit, ReservedIsCash, LedgerIsBalance, NoRoundingLoss
<1>. QED
  BY <1>2, <1>3 DEF AccountInv

\* Also where only the lanes move.
LEMMA AccountStep ==
    AccountInv /\ ([PrepaidNext]_prepaidVars \/ UNCHANGED accountVars) => AccountInv'
<1> SUFFICES ASSUME AccountInv, [PrepaidNext]_prepaidVars \/ UNCHANGED accountVars PROVE AccountInv'
  OBVIOUS
<1>0. AccountTypeOK
  BY DEF AccountInv
<1>1. ASSUME UNCHANGED accountVars PROVE AccountInv'
  <2>1. AccountTypeOK'
    BY <1>0, <1>1 DEF AccountTypeOK, accountVars
  <2>. QED
    BY <1>1, <2>1, AccountKeeps DEF accountVars
<1>2. CASE UNCHANGED prepaidVars
  BY <1>1, <1>2 DEF prepaidVars
<1>3. CASE BalanceRestored \/ GraceStarts \/ GraceEnds \/ Suspend
  <2>1. /\ UNCHANGED <<buckets, remainder, amount, wallet, credits, ledger, rated, charged>>
        /\ state' \in {"active", "grace", "suspended"} /\ graceOver' \in BOOLEAN
    BY <1>0, <1>3 DEF BalanceRestored, GraceStarts, GraceEnds, Suspend, AccountTypeOK
  <2>2. AccountTypeOK'
    BY <1>0, <2>1 DEF AccountTypeOK
  <2>. QED
    BY <2>1, <2>2, AccountKeeps
<1>4. ASSUME NEW r \in Sweeps, confirmCashSweep(r) PROVE AccountInv'
  BY <1>1, <1>4 DEF confirmCashSweep
<1>5. ASSUME NEW r \in Orders, NEW i \in 1..MaxTries, Execute(r, i) PROVE AccountInv'
  <2>1. /\ UNCHANGED <<buckets, remainder, state, graceOver, amount, credits, ledger, rated, charged>>
        /\ wallet' = wallet - amount[r]
    BY <1>5 DEF Execute
  <2>2. AccountTypeOK'
    BY <1>0, <2>1 DEF AccountTypeOK
  <2>. QED
    BY <2>1, <2>2, AccountKeeps
<1>6. CASE LaneStep
  BY <1>1, <1>6 DEF LaneStep
<1>. QED
  BY <1>1, <1>2, <1>3, <1>4, <1>5, <1>6, SettlementStep, CreditStep, WithdrawalStep DEF PrepaidNext

LEMMA AccountInductive == PrepaidSpec => []AccountInv
BY AccountInitially, AccountStep, PTL DEF PrepaidSpec

\* Every variable keeps its type, also the tries of the lanes their bound.
THEOREM PrepaidTypes == PrepaidSpec => []PrepaidTypeOK
<1>1. AccountInv /\ TransfersTypeOK => PrepaidTypeOK
  BY DEF AccountInv, AccountTypeOK, PrepaidTypeOK
<1>. QED
  BY <1>1, AccountInductive, PrepaidImplementsTransfers, TransfersTypes, PTL

\* The append-only ledger and the overwritten buckets tell the same balance, for
\* any amounts, in any order of charges, credits, withdrawals and cancellations.
THEOREM PrepaidLedgerIsBalance == PrepaidSpec => []LedgerIsBalance
<1>1. AccountInv => LedgerIsBalance
  BY DEF AccountInv
<1>. QED
  BY <1>1, AccountInductive, PTL

\* Reserved cash is there: no charge takes it, whatever is charged.
THEOREM PrepaidReservedIsCash == PrepaidSpec => []ReservedIsCash
<1>1. AccountInv => ReservedIsCash
  BY DEF AccountInv
<1>. QED
  BY <1>1, AccountInductive, PTL

\* Posted cents and carried remainder are what was rated, for any size of a cent.
THEOREM PrepaidNoRoundingLoss == PrepaidSpec => []NoRoundingLoss
<1>1. AccountInv => NoRoundingLoss
  BY DEF AccountInv
<1>. QED
  BY <1>1, AccountInductive, PTL

\* The account pays no row twice: the amounts it adds to the lanes take nothing
\* away from what TransfersPaidOnce says of them.
THEOREM PrepaidPaidOnce == PrepaidSpec => []PaidOnce
  BY PrepaidImplementsTransfers, TransfersPaidOnce, PTL

\* The account, whatever it adds to the lanes, implements PayOnce: a withdrawal and a
\* sweep are paid at most once, acknowledged only when paid, not paid when cancelled.
THEOREM PrepaidKeepsPromise == PrepaidSpec => PayOncePromise
  BY PrepaidImplementsTransfers, TransfersKeepPromise, PTL

------------------------------------------------------------------------------
(***************************************************************************)
(* The money that rows wait for.                                           *)
(***************************************************************************)
Reserving == {r \in Withdrawals : Open(r)}
Unswept == {s \in Sweeps : Arrived(s) = {}}
PaidUnbooked == {r \in Withdrawals : Arrived(r) # {} /\ status[r] # "confirmed"}

MoneyInv ==
    /\ \A r \in Orders : status[r] = "none" => amount[r] = 0
    /\ \A S \in {Reserving, Unswept, PaidUnbooked} : IsFiniteSet(UnitsOf(amount, S))
    /\ buckets.reserved = SumOf(amount, Reserving)
    /\ wallet = buckets.cash + SumOf(amount, Unswept) - SumOf(amount, PaidUnbooked)

LEMMA MoneyIsNumbers ==
    ASSUME AccountInv, MoneyInv
    PROVE  /\ buckets.cash \in Nat /\ buckets.reserved \in Nat /\ wallet \in Int
           /\ SumOf(amount, Reserving) \in Nat /\ SumOf(amount, Unswept) \in Nat
           /\ SumOf(amount, PaidUnbooked) \in Nat
           /\ amount \in [Orders -> Nat] /\ buckets \in Buckets
<1>1. \A S : IsFiniteSet(UnitsOf(amount, S)) => SumOf(amount, S) \in Nat
  BY FS_CardinalityType DEF SumOf
<1>. QED
  BY <1>1 DEF AccountInv, AccountTypeOK, Buckets, MoneyInv

\* A step that leaves the rows' amounts alone, and of their statuses and transactions
\* all that the sums depend on.
Frame(q) ==
    /\ Arrived(q)' = Arrived(q)
    /\ \/ status'[q] = status[q]
       \/ /\ status[q] \in Status \ {"none", "cancelled", "confirmed"}
          /\ status'[q] \in Status \ {"none", "cancelled", "confirmed"}

LEMMA FrameKeepsSets ==
    ASSUME \A q \in Orders : Frame(q)
    PROVE  /\ Reserving' = Reserving /\ Unswept' = Unswept /\ PaidUnbooked' = PaidUnbooked
           /\ \A q \in Orders : status'[q] = "none" <=> status[q] = "none"
<1>1. /\ \A q \in Withdrawals : Frame(q)
      /\ \A q \in Sweeps : Frame(q)
  BY DEF Orders
<1>2. Reserving' = Reserving
  BY <1>1 DEF Reserving, Open, Frame
<1>3. Unswept' = Unswept
  BY <1>1 DEF Unswept, Frame
<1>4. PaidUnbooked' = PaidUnbooked
  BY <1>1 DEF PaidUnbooked, Frame
<1>. QED
  BY <1>2, <1>3, <1>4 DEF Frame

LEMMA FrameKeepsMoney ==
    ASSUME MoneyInv, \A q \in Orders : Frame(q), UNCHANGED <<amount, wallet>>,
           buckets'.cash = buckets.cash, buckets'.reserved = buckets.reserved
    PROVE  MoneyInv'
  BY FrameKeepsSets DEF MoneyInv

\* An action that leaves the chain alone changes no set of executed transactions.
LEMMA ChainAloneKeepsArrived == UNCHANGED chain => \A q : Arrived(q)' = Arrived(q)
  BY DEF Arrived

\* What a lane does to a row between its creation and its settlement is of no
\* consequence for the sums.
LEMMA LaneFrame ==
    ASSUME TransfersInv, LaneStep, NEW q \in Orders
    PROVE  Frame(q)
<1> USE DEF TransfersInv, TransfersTypeOK
<1>0. lane.at \in {"claimed", "recorded"} => lane.row \in Orders
  BY DEF Lane, Idle
<1>1. ASSUME status' = [status EXCEPT ![q] = status'[q]] \/ status' = status, TRUE PROVE TRUE
  OBVIOUS
<1>2. ASSUME NEW r \in Orders, NEW i, NEW x \in {"signed", "sent", "errored", "expired"},
             chain' = [chain EXCEPT ![r][i] = x],
             i \in 1..MaxTries => chain[r][i] # "landed"
      PROVE  Arrived(q)' = Arrived(q)
  <2>1. ASSUME NEW k \in 1..MaxTries
        PROVE  chain'[q][k] = "landed" <=> chain[q][k] = "landed"
    <3>1. CASE q = r /\ k = i
      BY <1>2, <3>1
    <3>2. CASE ~(q = r /\ k = i)
      BY <1>2, <3>2
    <3>. QED
      BY <3>1, <3>2
  <2>. QED
    BY <2>1 DEF Arrived
<1>3. ASSUME NEW r \in Withdrawals, ClaimWithdrawal(r) PROVE Frame(q)
  <2>1. status' = [Advanced EXCEPT ![r] = "processing"] /\ UNCHANGED chain /\ Advanced[r] = "ready"
    BY <1>3 DEF ClaimWithdrawal
  <2>2. \/ status'[q] = status[q]
        \/ /\ status[q] \in Status \ {"none", "cancelled", "confirmed"}
           /\ status'[q] \in Status \ {"none", "cancelled", "confirmed"}
    BY <2>1 DEF Advanced, Orders, Status
  <2>. QED
    BY <2>1, <2>2, ChainAloneKeepsArrived DEF Frame
<1>4. ASSUME NEW r \in Sweeps, ClaimSweep(r) PROVE Frame(q)
  <2>1. UNCHANGED chain /\ status[r] \in {"pending", "failed"} /\ status' = [status EXCEPT ![r] = "processing"]
    BY <1>4 DEF ClaimSweep
  <2>. QED
    BY <2>1, ChainAloneKeepsArrived DEF Frame, Status
<1>5. ASSUME NEW r \in Orders, BecomesDue(r) \/ FailTransfer(r) PROVE Frame(q)
  <2>1. UNCHANGED chain
    BY <1>5 DEF BecomesDue, FailTransfer
  <2>2. status' = status \/ (status[r] = "submitted" /\ status' = [status EXCEPT ![r] = "failed"])
    BY <1>5 DEF BecomesDue, FailTransfer, Fail
  <2>. QED
    BY <2>1, <2>2, ChainAloneKeepsArrived DEF Frame, Status
<1>6. ASSUME NEW r \in Orders, NEW i \in 1..MaxTries, ChainRejects(r, i) \/ BlockhashExpires(r, i)
      PROVE  Frame(q)
  <2>1. PICK x \in {"errored", "expired"} : chain' = [chain EXCEPT ![r][i] = x]
    BY <1>6 DEF ChainRejects, BlockhashExpires
  <2>2. UNCHANGED status /\ chain[r][i] # "landed"
    BY <1>6 DEF ChainRejects, BlockhashExpires
  <2>3. Arrived(q)' = Arrived(q)
    BY <1>2, <2>1, <2>2
  <2>. QED
    BY <2>2, <2>3 DEF Frame
<1>7. CASE AdvanceCooldowns \/ LaneDies \/ SessionsChange
  <2>1. UNCHANGED <<status, chain>>
    BY <1>7 DEF AdvanceCooldowns, LaneDies, SessionsChange
  <2>. QED
    BY <2>1, ChainAloneKeepsArrived DEF Frame
<1>8. CASE SigningFails
  <2>1. /\ UNCHANGED chain /\ status[lane.row] \in {"processing", "submitted"}
        /\ status' = [status EXCEPT ![lane.row] = "failed"]
    BY <1>8 DEF SigningFails, Fail
  <2>. QED
    BY <2>1, ChainAloneKeepsArrived DEF Frame, Status
<1>9. CASE RecordSubmission
  <2> DEFINE r == lane.row
  <2>1. r \in Orders /\ status[r] = "processing" /\ tries[r] < MaxTries
    BY <1>0, <1>9 DEF RecordSubmission, LaneAgrees
  <2>2. chain[r][tries[r] + 1] = "none"
    BY <2>1, TransfersAssumption DEF OnlyRecordedIsAlive
  <2>3. Arrived(q)' = Arrived(q)
    BY <1>2, <1>9, <2>1, <2>2 DEF RecordSubmission
  <2>4. status' = [status EXCEPT ![r] = "submitted"]
    BY <1>9 DEF RecordSubmission
  <2>. QED
    BY <2>1, <2>3, <2>4 DEF Frame, Status
<1>10. CASE Broadcast
  <2> DEFINE r == lane.row
  <2>1. r \in Orders /\ UNCHANGED status
    BY <1>0, <1>10 DEF Broadcast
  <2>2. CASE UNCHANGED chain
    BY <2>1, <2>2, ChainAloneKeepsArrived DEF Frame
  <2>3. CASE /\ chain[r][tries[r]] = "signed"
             /\ chain' = [chain EXCEPT ![r][tries[r]] = "sent"]
    <3>1. Arrived(q)' = Arrived(q)
      BY <1>2, <2>1, <2>3
    <3>. QED
      BY <2>1, <3>1 DEF Frame
  <2>. QED
    BY <1>10, <2>2, <2>3 DEF Broadcast
<1>. QED
  BY <1>3, <1>4, <1>5, <1>6, <1>7, <1>8, <1>9, <1>10 DEF LaneStep

LEMMA ArrivedOnlyIfRecorded ==
    ASSUME TransfersInv, NEW r \in Orders, status[r] \notin {"submitted", "confirmed"}
    PROVE  Arrived(r) = {}
  BY ArrivedIsRecorded

\* A sweep row takes over what a step takes from the cash, or adds to the wallet.
LEMMA SweepTakesOver ==
    ASSUME TransfersInv, AccountInv, MoneyInv, NEW s \in Sweeps, status[s] = "none",
           NEW spent \in Nat, SweepSpent(s, spent), buckets'.reserved = buckets.reserved,
           wallet' - buckets'.cash = wallet - buckets.cash + spent,
           wallet' \in Int, buckets'.cash \in Nat
    PROVE  MoneyInv'
<1>1. CASE spent = 0
  <2>1. UNCHANGED <<status, chain, amount>>
    BY <1>1 DEF SweepSpent, transferVars
  <2>2. \A q \in Orders : Frame(q)
    BY <2>1, ChainAloneKeepsArrived DEF Frame
  <2>. QED
    BY <1>1, <2>1, <2>2, FrameKeepsSets, MoneyIsNumbers DEF MoneyInv
<1>2. CASE spent > 0
  <2>1. /\ UNCHANGED chain /\ status' = [status EXCEPT ![s] = "pending"]
        /\ amount' = [amount EXCEPT ![s] = spent]
    BY <1>2 DEF SweepSpent, CreateSweep
  <2>2. s \in Orders /\ s \notin Withdrawals /\ Arrived(s) = {} /\ amount[s] = 0
    <3>1. s \in Orders /\ s \notin Withdrawals
      BY TransfersAssumption DEF Orders
    <3>. QED
      BY <3>1, ArrivedOnlyIfRecorded DEF MoneyInv
  <2>3. status \in [Orders -> Status] /\ amount \in [Orders -> Nat]
    BY MoneyIsNumbers DEF TransfersInv, TransfersTypeOK
  <2>4. /\ \A q \in Withdrawals : q \in Orders /\ status'[q] = status[q] /\ amount'[q] = amount[q]
        /\ \A q \in Sweeps \ {s} : q \in Orders /\ amount'[q] = amount[q]
        /\ amount'[s] = spent
    BY <2>1, <2>2, <2>3 DEF Orders
  <2>5. \A q : Arrived(q)' = Arrived(q)
    BY <2>1, ChainAloneKeepsArrived
  <2>6. Reserving' = Reserving /\ Unswept' = Unswept /\ PaidUnbooked' = PaidUnbooked /\ s \in Unswept
    BY <2>2, <2>4, <2>5 DEF Reserving, Unswept, PaidUnbooked, Open
  <2>7. \A q \in Orders : status'[q] = "none" => amount'[q] = 0
    BY <2>1, <2>3 DEF MoneyInv
  <2>8. /\ \A q \in Reserving : amount'[q] = amount[q]
        /\ \A q \in PaidUnbooked : amount'[q] = amount[q]
        /\ \A q \in Unswept \ {s} : amount'[q] = amount[q]
    BY <2>4 DEF Reserving, Unswept, PaidUnbooked
  <2> DEFINE before == amount
             after == amount'
             R == Reserving
             U == Unswept
             P == PaidUnbooked
  <2>9. /\ IsFiniteSet(UnitsOf(before, R)) /\ IsFiniteSet(UnitsOf(before, U))
        /\ IsFiniteSet(UnitsOf(before, P))
    BY DEF MoneyInv
  <2>10. /\ \A q \in R : after[q] = before[q]
         /\ \A q \in P : after[q] = before[q]
         /\ \A q \in U \ {s} : after[q] = before[q]
         /\ s \in U /\ before[s] = 0 /\ after[s] = spent
    BY <2>2, <2>4, <2>6, <2>8
  <2> HIDE DEF before, after, R, U, P
  <2>11. /\ UnitsOf(after, R) = UnitsOf(before, R) /\ SumOf(after, R) = SumOf(before, R)
         /\ UnitsOf(after, P) = UnitsOf(before, P) /\ SumOf(after, P) = SumOf(before, P)
    BY <2>10, SumOfSame
  <2>12. IsFiniteSet(UnitsOf(after, U)) /\ SumOf(after, U) = SumOf(before, U) + spent
    <3>1. after[s] \in Nat /\ before[s] = 0 /\ s \in U
      BY <2>10
    <3>2. IsFiniteSet(UnitsOf(after, U)) /\ SumOf(after, U) = SumOf(before, U) + after[s]
      BY <2>9, <2>10, <3>1, SumOfFilled
    <3>. QED
      BY <2>10, <3>2
  <2>13. /\ buckets.reserved = SumOf(before, R)
         /\ wallet = buckets.cash + SumOf(before, U) - SumOf(before, P)
         /\ SumOf(before, U) \in Nat /\ SumOf(before, P) \in Nat /\ buckets.cash \in Nat
    BY MoneyIsNumbers DEF MoneyInv, before, R, U, P
  <2>14. wallet' = buckets'.cash + SumOf(after, U) - SumOf(after, P)
    BY <2>11, <2>12, <2>13
  <2>15. buckets'.reserved = SumOf(after, R)
    BY <2>11, <2>13
  <2>16. IsFiniteSet(UnitsOf(after, R)) /\ IsFiniteSet(UnitsOf(after, P))
    BY <2>9, <2>11
  <2>. QED
    BY <2>6, <2>7, <2>12, <2>14, <2>15, <2>16 DEF MoneyInv, after, R, U, P
<1>. QED
  BY <1>1, <1>2

LEMMA ChargesMoveMoney ==
    ASSUME TransfersInv, AccountInv, MoneyInv, NEW s \in Sweeps, NEW charge \in Charges,
           settleRatingCandidate(s, charge)
    PROVE  MoneyInv'
<1> DEFINE posted == (remainder + charge) \div Unit
           after == consumeBillingCharge(buckets, posted)
<1>0. buckets \in Buckets /\ buckets.reserved <= buckets.cash /\ remainder \in Nat /\ charge \in Nat
      /\ wallet \in Int
  BY DEF AccountInv, AccountTypeOK, ReservedIsCash
<1>1. posted \in Nat
  <2>1. remainder + charge \in Nat /\ Unit \in Nat \ {0}
    BY <1>0
  <2>. QED
    BY <2>1, DivisionLeaves
<1>2. /\ buckets' = after /\ status[s] = "none" /\ wallet' = wallet
      /\ SweepSpent(s, buckets.cash - after.cash)
  BY DEF settleRatingCandidate
<1> HIDE DEF posted
<1>3. after \in Buckets /\ after.reserved = buckets.reserved /\ after.cash <= buckets.cash
  BY <1>0, <1>1, ConsumeMoves
<1> HIDE DEF after
<1>4. after.cash \in Nat /\ buckets.cash \in Nat /\ buckets.cash - after.cash \in Nat
  BY <1>0, <1>3 DEF Buckets
<1> DEFINE spent == buckets.cash - after.cash
<1>5. wallet' - buckets'.cash = wallet - buckets.cash + spent
  BY <1>0, <1>2, <1>4
<1>6. spent \in Nat /\ SweepSpent(s, spent) /\ buckets'.reserved = buckets.reserved /\ buckets'.cash \in Nat /\ wallet' \in Int
  BY <1>0, <1>2, <1>3, <1>4
<1> HIDE DEF spent
<1>. QED
  BY <1>2, <1>5, <1>6, SweepTakesOver

\* What a credit adds to the cash, and what it repays.
LEMMA CreditParts ==
    ASSUME NEW b \in Buckets, NEW credit \in Nat, NEW kind \in {"cash", "promotional"}
    PROVE  LET after == applyBucketCredit(b, credit, kind)
           IN  /\ after.cash \in Nat /\ after.reserved = b.reserved
               /\ b.debt - after.debt \in Nat
               /\ kind = "cash" => after.cash = b.cash + credit - (b.debt - after.debt)
               /\ kind = "promotional" => after.cash = b.cash
<1> DEFINE repaid == Least(b.debt, credit)
           rest == credit - repaid
           after == applyBucketCredit(b, credit, kind)
<1>1. b.cash \in Nat /\ b.promotional \in Nat /\ b.reserved \in Nat /\ b.debt \in Nat
  BY DEF Buckets
<1>2. repaid \in Nat /\ repaid <= b.debt /\ repaid <= credit /\ rest \in Nat
  BY <1>1 DEF Least
<1>3. /\ after.cash = b.cash + (IF kind = "cash" THEN rest ELSE 0)
      /\ after.reserved = b.reserved
      /\ after.debt = b.debt - repaid
  BY <1>1 DEF applyBucketCredit, Buckets
<1> HIDE DEF after, repaid
<1>. QED
  BY <1>1, <1>2, <1>3 DEF after

LEMMA CreditsMoveMoney ==
    ASSUME TransfersInv, AccountInv, MoneyInv, NEW cents \in Amounts,
           \/ \E s \in Sweeps : creditDirectDeposit(s, cents)
           \/ grantPromotionalCredit(cents)
    PROVE  MoneyInv'
<1>0. buckets \in Buckets /\ cents \in Nat /\ wallet \in Int /\ buckets.cash \in Nat
  BY DEF AccountInv, AccountTypeOK, Buckets
<1>1. ASSUME NEW s \in Sweeps, creditDirectDeposit(s, cents) PROVE MoneyInv'
  <2> DEFINE after == applyBucketCredit(buckets, cents, "cash")
             spent == buckets.debt - after.debt
  <2>1. buckets' = after /\ status[s] = "none" /\ wallet' = wallet + cents /\ SweepSpent(s, spent)
    BY <1>1 DEF creditDirectDeposit
  <2>2. /\ after.cash \in Nat /\ after.reserved = buckets.reserved /\ spent \in Nat
        /\ after.cash = buckets.cash + cents - spent
    BY <1>0, CreditParts
  <2> HIDE DEF after, spent
  <2>3. wallet' - buckets'.cash = wallet - buckets.cash + spent /\ wallet' \in Int
    BY <1>0, <2>1, <2>2
  <2>. QED
    BY <2>1, <2>2, <2>3, SweepTakesOver
<1>2. CASE grantPromotionalCredit(cents)
  <2> DEFINE after == applyBucketCredit(buckets, cents, "promotional")
  <2>1. buckets' = after /\ UNCHANGED <<status, chain, amount, wallet>>
    BY <1>2 DEF grantPromotionalCredit, transferVars
  <2>2. after.reserved = buckets.reserved /\ after.cash = buckets.cash
    BY <1>0, CreditParts
  <2> HIDE DEF after
  <2>3. \A q \in Orders : Frame(q)
    BY <2>1, ChainAloneKeepsArrived DEF Frame
  <2>. QED
    BY <2>1, <2>2, <2>3, FrameKeepsMoney
<1>. QED
  BY <1>1, <1>2

LEMMA WithdrawalsMoveMoney ==
    ASSUME TransfersInv, AccountInv, MoneyInv, NEW r \in Withdrawals,
           \/ \E cents \in Amounts : createWithdrawalRequest(r, cents)
           \/ cancelOwnedWithdrawal(r)
           \/ confirmWithdrawal(r)
    PROVE  MoneyInv'
<1> DEFINE before == amount
           R == Reserving
           U == Unswept
           P == PaidUnbooked
<1>0. /\ r \in Orders /\ r \notin Sweeps
      /\ status \in [Orders -> Status] /\ amount \in [Orders -> Nat] /\ buckets \in Buckets
      /\ buckets.cash \in Nat /\ buckets.reserved \in Nat /\ wallet \in Int
      /\ IsFiniteSet(UnitsOf(before, R)) /\ IsFiniteSet(UnitsOf(before, U))
      /\ IsFiniteSet(UnitsOf(before, P))
      /\ SumOf(before, R) \in Nat /\ SumOf(before, U) \in Nat /\ SumOf(before, P) \in Nat
      /\ buckets.reserved = SumOf(before, R)
      /\ wallet = buckets.cash + SumOf(before, U) - SumOf(before, P)
  BY MoneyIsNumbers, TransfersAssumption DEF Orders, TransfersInv, TransfersTypeOK, MoneyInv
<1>1. UNCHANGED chain /\ \A q : Arrived(q)' = Arrived(q)
  <2>1. UNCHANGED chain
    BY DEF createWithdrawalRequest, cancelOwnedWithdrawal, confirmWithdrawal,
           CreateWithdrawal, CancelWithdrawal, ConfirmTransfer
  <2>. QED
    BY <2>1, ChainAloneKeepsArrived
<1>2. UNCHANGED wallet /\ Unswept' = U
  BY <1>1 DEF createWithdrawalRequest, cancelOwnedWithdrawal, confirmWithdrawal, Unswept
<1>3. ASSUME NEW cents \in Amounts, createWithdrawalRequest(r, cents) PROVE MoneyInv'
  <2>1. /\ status[r] = "none" /\ status' = [status EXCEPT ![r] = "cooldown"]
        /\ amount' = [amount EXCEPT ![r] = cents]
        /\ buckets' = [buckets EXCEPT !.reserved = buckets.reserved + cents]
        /\ cents \in Nat
    BY <1>3 DEF createWithdrawalRequest, CreateWithdrawal
  <2>2. Arrived(r) = {} /\ r \notin R /\ r \notin U /\ r \notin P
    <3>1. Arrived(r) = {}
      BY <1>0, <2>1, ArrivedOnlyIfRecorded
    <3>. QED
      BY <1>0, <2>1, <3>1 DEF Reserving, Unswept, PaidUnbooked, Open
  <2>3. \A q \in Withdrawals \cup Sweeps :
            q # r => q \in Orders /\ status'[q] = status[q] /\ amount'[q] = amount[q]
    BY <1>0, <2>1 DEF Orders
  <2>4. status'[r] = "cooldown" /\ amount'[r] = cents
    BY <1>0, <2>1
  <2>5. Reserving' = R \cup {r}
    BY <2>3, <2>4 DEF Reserving, Open
  <2>6. PaidUnbooked' = P
    BY <1>1, <2>2, <2>3, <2>4 DEF PaidUnbooked
  <2>7. \A q \in Orders : status'[q] = "none" => amount'[q] = 0
    BY <2>3, <2>4 DEF MoneyInv, Orders
  <2>8. buckets'.reserved = buckets.reserved + cents /\ buckets'.cash = buckets.cash
    BY <1>0, <2>1 DEF Buckets
  <2> DEFINE after == amount'
  <2>9. /\ \A q \in R : after[q] = before[q]
        /\ \A q \in U : after[q] = before[q]
        /\ \A q \in P : after[q] = before[q]
        /\ after[r] = cents
    BY <2>2, <2>3, <2>4 DEF Reserving, Unswept, PaidUnbooked
  <2> HIDE DEF before, after, R, U, P
  <2>10. /\ UnitsOf(after, R) = UnitsOf(before, R) /\ SumOf(after, R) = SumOf(before, R)
         /\ UnitsOf(after, U) = UnitsOf(before, U) /\ SumOf(after, U) = SumOf(before, U)
         /\ UnitsOf(after, P) = UnitsOf(before, P) /\ SumOf(after, P) = SumOf(before, P)
    BY <2>9, SumOfSame
  <2>11. IsFiniteSet(UnitsOf(after, R \cup {r})) /\ SumOf(after, R \cup {r}) = SumOf(after, R) + after[r]
    <3>1. after[r] \in Nat /\ r \notin R /\ IsFiniteSet(UnitsOf(after, R))
      BY <1>0, <2>1, <2>2, <2>9, <2>10
    <3>. QED
      BY <3>1, SumOfMore
  <2>12. buckets'.reserved = SumOf(after, R \cup {r})
    BY <1>0, <2>8, <2>9, <2>10, <2>11
  <2>13. wallet' = buckets'.cash + SumOf(after, U) - SumOf(after, P)
    BY <1>0, <1>2, <2>8, <2>10
  <2>14. IsFiniteSet(UnitsOf(after, U)) /\ IsFiniteSet(UnitsOf(after, P))
    BY <1>0, <2>10
  <2>. QED
    BY <1>2, <2>5, <2>6, <2>7, <2>11, <2>12, <2>13, <2>14 DEF MoneyInv, after
<1>4. CASE cancelOwnedWithdrawal(r)
  <2>1. /\ status[r] \in {"cooldown", "ready", "failed"} /\ status' = [status EXCEPT ![r] = "cancelled"]
        /\ amount' = amount
        /\ buckets' = [buckets EXCEPT !.reserved = IF buckets.reserved >= amount[r]
                                                   THEN buckets.reserved - amount[r] ELSE 0]
    BY <1>4 DEF cancelOwnedWithdrawal, CancelWithdrawal
  <2>2. Arrived(r) = {} /\ r \in R /\ r \notin P
    <3>1. Arrived(r) = {}
      BY <1>0, <2>1, ArrivedOnlyIfRecorded
    <3>. QED
      BY <1>0, <2>1, <3>1 DEF Reserving, PaidUnbooked, Open
  <2>3. \A q \in Withdrawals : q # r => q \in Orders /\ status'[q] = status[q]
    BY <1>0, <2>1 DEF Orders
  <2>4. status'[r] = "cancelled"
    BY <1>0, <2>1
  <2>5. Reserving' = R \ {r}
    BY <2>3, <2>4 DEF Reserving, Open
  <2>6. PaidUnbooked' = P
    BY <1>1, <2>2, <2>3, <2>4 DEF PaidUnbooked
  <2>7. \A q \in Orders : status'[q] = "none" => amount'[q] = 0
    BY <1>0, <2>1, <2>4 DEF MoneyInv, Orders
  <2>8. before[r] \in Nat /\ before[r] = amount[r]
    BY <1>0
  <2> HIDE DEF before, R, U, P
  <2>9. IsFiniteSet(UnitsOf(before, R \ {r})) /\ SumOf(before, R) = SumOf(before, R \ {r}) + before[r]
    BY <1>0, <2>2, <2>8, SumOfLess
  <2>10. SumOf(before, R \ {r}) \in Nat
    BY <2>9, FS_CardinalityType DEF SumOf
  <2>11. buckets.reserved >= amount[r] /\ buckets.reserved - amount[r] = SumOf(before, R \ {r})
    BY <1>0, <2>8, <2>9, <2>10
  <2>12. buckets'.reserved = SumOf(before, R \ {r}) /\ buckets'.cash = buckets.cash
    BY <1>0, <2>1, <2>11 DEF Buckets
  <2>13. wallet' = buckets'.cash + SumOf(before, U) - SumOf(before, P)
    BY <1>0, <1>2, <2>12
  <2>14. amount' = before
    BY <2>1 DEF before
  <2>. QED
    BY <1>0, <1>2, <2>5, <2>6, <2>7, <2>9, <2>12, <2>13, <2>14 DEF MoneyInv
<1>5. CASE confirmWithdrawal(r)
  <2>1. /\ status[r] = "submitted" /\ status' = [status EXCEPT ![r] = "confirmed"]
        /\ chain[r][tries[r]] = "landed" /\ amount' = amount
        /\ buckets' = [buckets EXCEPT !.cash = buckets.cash - amount[r],
                                      !.reserved = buckets.reserved - amount[r]]
    BY <1>5 DEF confirmWithdrawal, ConfirmTransfer
  <2>2. Arrived(r) # {} /\ r \in R /\ r \in P
    <3>1. tries[r] \in 1..MaxTries
      BY <1>0, <2>1 DEF TransfersInv, TransfersTypeOK, OnlyRecordedIsAlive
    <3>2. Arrived(r) # {}
      BY <2>1, <3>1 DEF Arrived
    <3>. QED
      BY <1>0, <2>1, <3>2 DEF Reserving, PaidUnbooked, Open
  <2>3. \A q \in Withdrawals : q # r => q \in Orders /\ status'[q] = status[q]
    BY <1>0, <2>1 DEF Orders
  <2>4. status'[r] = "confirmed"
    BY <1>0, <2>1
  <2>5. Reserving' = R \ {r}
    BY <2>3, <2>4 DEF Reserving, Open
  <2>6. PaidUnbooked' = P \ {r}
    BY <1>1, <2>3, <2>4 DEF PaidUnbooked
  <2>7. \A q \in Orders : status'[q] = "none" => amount'[q] = 0
    BY <1>0, <2>1, <2>4 DEF MoneyInv, Orders
  <2>8. before[r] \in Nat /\ before[r] = amount[r]
    BY <1>0
  <2> HIDE DEF before, R, U, P
  <2>9. IsFiniteSet(UnitsOf(before, R \ {r})) /\ SumOf(before, R) = SumOf(before, R \ {r}) + before[r]
    BY <1>0, <2>2, <2>8, SumOfLess
  <2>10. IsFiniteSet(UnitsOf(before, P \ {r})) /\ SumOf(before, P) = SumOf(before, P \ {r}) + before[r]
    BY <1>0, <2>2, <2>8, SumOfLess
  <2>11. SumOf(before, R \ {r}) \in Nat /\ SumOf(before, P \ {r}) \in Nat
    BY <2>9, <2>10, FS_CardinalityType DEF SumOf
  <2>12. buckets'.reserved = buckets.reserved - amount[r] /\ buckets'.cash = buckets.cash - amount[r]
    BY <1>0, <2>1 DEF Buckets
  <2>13. buckets'.reserved = SumOf(before, R \ {r})
    BY <1>0, <2>8, <2>9, <2>11, <2>12
  <2>14. wallet' = buckets'.cash + SumOf(before, U) - SumOf(before, P \ {r})
    BY <1>0, <1>2, <2>8, <2>10, <2>11, <2>12
  <2>15. amount' = before
    BY <2>1 DEF before
  <2>. QED
    BY <1>0, <1>2, <2>5, <2>6, <2>7, <2>9, <2>10, <2>13, <2>14, <2>15 DEF MoneyInv
<1>. QED
  BY <1>3, <1>4, <1>5

\* The chain takes from the wallet what was still to be swept, or to be booked.
LEMMA ExecutionMovesMoney ==
    ASSUME TransfersInv, AccountInv, MoneyInv, NEW r \in Orders, NEW i \in 1..MaxTries, Execute(r, i)
    PROVE  MoneyInv'
<1> DEFINE before == amount
           R == Reserving
           U == Unswept
           P == PaidUnbooked
<1>0. /\ status \in [Orders -> Status] /\ amount \in [Orders -> Nat]
      /\ buckets.cash \in Nat /\ wallet \in Int
      /\ IsFiniteSet(UnitsOf(before, R)) /\ IsFiniteSet(UnitsOf(before, U))
      /\ IsFiniteSet(UnitsOf(before, P))
      /\ SumOf(before, R) \in Nat /\ SumOf(before, U) \in Nat /\ SumOf(before, P) \in Nat
      /\ buckets.reserved = SumOf(before, R)
      /\ wallet = buckets.cash + SumOf(before, U) - SumOf(before, P)
      /\ before[r] \in Nat /\ before[r] = amount[r]
  BY MoneyIsNumbers DEF TransfersInv, TransfersTypeOK, MoneyInv
<1>1. /\ chain[r][i] = "sent" /\ chain' = [chain EXCEPT ![r][i] = "landed"]
      /\ wallet' = wallet - amount[r] /\ UNCHANGED <<status, amount, buckets>>
  BY DEF Execute, Land
<1>2. chain \in [Orders -> [1..MaxTries -> TxState]] /\ tries[r] \in 0..MaxTries
  BY DEF TransfersInv, TransfersTypeOK
\* It is the recorded transaction of a submitted row.
<1>3. i = tries[r] /\ status[r] = "submitted"
  <2>1. OnlyRecordedAliveOf(r)
    BY DEF TransfersInv, OnlyRecordedIsAlive, OnlyRecordedAliveOf
  <2>2. ~(i < tries[r]) /\ ~(i > tries[r])
    BY <1>1, <2>1 DEF OnlyRecordedAliveOf, ChainFailed
  <2>3. i = tries[r]
    BY <1>2, <2>2
  <2>. QED
    BY <1>1, <2>1, <2>3 DEF OnlyRecordedAliveOf, ChainFailed
<1>4. Arrived(r) = {}
  <2>1. chain[r][tries[r]] # "landed"
    BY <1>1, <1>3
  <2>. QED
    BY <2>1, ArrivedIsRecorded
<1>5. i \in Arrived(r)' /\ \A q \in Orders : q # r => Arrived(q)' = Arrived(q)
  BY <1>1, <1>2 DEF Arrived
<1>6. Reserving' = R /\ \A q \in Orders : status'[q] = "none" => amount'[q] = 0
  BY <1>1 DEF Reserving, Open, MoneyInv
<1>7. amount' = before /\ buckets' = buckets
  BY <1>1
<1>8. CASE r \in Sweeps
  <2>1. r \notin Withdrawals /\ r \in U
    BY <1>4, <1>8, TransfersAssumption DEF Unswept
  <2>2. Unswept' = U \ {r}
    BY <1>5 DEF Unswept, Orders
  <2>3. PaidUnbooked' = P
    BY <1>1, <1>5, <2>1 DEF PaidUnbooked, Orders
  <2> HIDE DEF before, R, U, P
  <2>4. IsFiniteSet(UnitsOf(before, U \ {r})) /\ SumOf(before, U) = SumOf(before, U \ {r}) + before[r]
    BY <1>0, <2>1, SumOfLess
  <2>5. SumOf(before, U \ {r}) \in Nat
    BY <2>4, FS_CardinalityType DEF SumOf
  <2>6. wallet' = buckets'.cash + SumOf(before, U \ {r}) - SumOf(before, P)
    <3> DEFINE left == SumOf(before, U \ {r})
               a == before[r]
    <3>1. left \in Nat /\ a \in Nat /\ SumOf(before, U) = left + a
      BY <1>0, <2>4, <2>5
    <3>2. wallet' = wallet - a /\ buckets'.cash = buckets.cash
      BY <1>0, <1>1, <1>7
    <3> HIDE DEF left, a
    <3>3. wallet' = buckets'.cash + left - SumOf(before, P)
      BY <1>0, <3>1, <3>2
    <3>. QED
      BY <3>3 DEF left
  <2>. QED
    BY <1>0, <1>6, <1>7, <2>2, <2>3, <2>4, <2>6 DEF MoneyInv
<1>9. CASE r \in Withdrawals
  <2>1. r \notin Sweeps /\ r \notin P
    BY <1>4, <1>9, TransfersAssumption DEF PaidUnbooked
  <2>2. PaidUnbooked' = P \cup {r}
    BY <1>1, <1>3, <1>5, <1>9 DEF PaidUnbooked, Orders
  <2>3. Unswept' = U
    BY <1>5, <2>1 DEF Unswept, Orders
  <2> HIDE DEF before, R, U, P
  <2>4. IsFiniteSet(UnitsOf(before, P \cup {r})) /\ SumOf(before, P \cup {r}) = SumOf(before, P) + before[r]
    BY <1>0, <2>1, SumOfMore
  <2>5. wallet' = buckets'.cash + SumOf(before, U) - SumOf(before, P \cup {r})
    BY <1>0, <1>1, <1>7, <2>4
  <2>. QED
    BY <1>0, <1>6, <1>7, <2>2, <2>3, <2>4, <2>5 DEF MoneyInv
<1>. QED
  BY <1>8, <1>9 DEF Orders

LEMMA MoneyInitially == PrepaidInit => MoneyInv
<1> SUFFICES ASSUME PrepaidInit PROVE MoneyInv
  OBVIOUS
<1>1. /\ \A q \in Orders : status[q] = "none" /\ amount[q] = 0
      /\ wallet = 0 /\ buckets.cash = 0 /\ buckets.reserved = 0
  BY DEF PrepaidInit, TransfersInit
<1>2. ASSUME NEW S \in SUBSET Orders
      PROVE  IsFiniteSet(UnitsOf(amount, S)) /\ SumOf(amount, S) = 0
  <2>1. \A x \in S : 1..amount[x] = {}
    BY <1>1
  <2>2. UnitsOf(amount, S) = {}
    BY <2>1 DEF UnitsOf
  <2>. QED
    BY <2>2, FS_EmptySet DEF SumOf
<1>3. Reserving \in SUBSET Orders /\ Unswept \in SUBSET Orders /\ PaidUnbooked \in SUBSET Orders
  BY DEF Reserving, Unswept, PaidUnbooked, Orders
<1>. QED
  BY <1>1, <1>2, <1>3 DEF MoneyInv

LEMMA MoneyStep == TransfersInv /\ AccountInv /\ MoneyInv /\ [PrepaidNext]_prepaidVars => MoneyInv'
<1> SUFFICES ASSUME TransfersInv, AccountInv, MoneyInv, [PrepaidNext]_prepaidVars PROVE MoneyInv'
  OBVIOUS
<1>1. ASSUME UNCHANGED <<status, chain, amount, wallet, buckets>> PROVE MoneyInv'
  <2>1. \A q \in Orders : Frame(q)
    BY <1>1, ChainAloneKeepsArrived DEF Frame
  <2>. QED
    BY <1>1, <2>1, FrameKeepsMoney
<1>2. CASE UNCHANGED prepaidVars
  BY <1>1, <1>2 DEF prepaidVars, transferVars, accountVars
<1>3. CASE BalanceRestored \/ GraceStarts \/ GraceEnds \/ Suspend
  BY <1>1, <1>3 DEF BalanceRestored, GraceStarts, GraceEnds, Suspend, transferVars
<1>4. ASSUME NEW r \in Sweeps, confirmCashSweep(r) PROVE MoneyInv'
  <2>1. /\ UNCHANGED <<chain, amount, wallet, buckets>>
        /\ status' = [status EXCEPT ![r] = "confirmed"] /\ status[r] = "submitted"
    BY <1>4 DEF confirmCashSweep, ConfirmTransfer, accountVars
  <2>2. \A q : Arrived(q)' = Arrived(q)
    BY <2>1, ChainAloneKeepsArrived
  <2>3. status \in [Orders -> Status]
    BY DEF TransfersInv, TransfersTypeOK
  <2>4. \A q \in Withdrawals : status'[q] = status[q]
    BY <2>1, <2>3, TransfersAssumption DEF Orders
  <2>5. Reserving' = Reserving /\ Unswept' = Unswept /\ PaidUnbooked' = PaidUnbooked
    BY <2>2, <2>4 DEF Reserving, Unswept, PaidUnbooked, Open
  <2>6. \A q \in Orders : status'[q] = "none" => status[q] = "none"
    BY <2>1, <2>3
  <2>. QED
    BY <2>1, <2>5, <2>6 DEF MoneyInv
<1>5. CASE LaneStep
  <2>1. \A q \in Orders : Frame(q)
    BY <1>5, LaneFrame
  <2>2. UNCHANGED <<amount, wallet, buckets>>
    BY <1>5 DEF LaneStep, accountVars
  <2>. QED
    BY <2>1, <2>2, FrameKeepsMoney
<1>. QED
  BY <1>2, <1>3, <1>4, <1>5, ChargesMoveMoney, CreditsMoveMoney, WithdrawalsMoveMoney,
     ExecutionMovesMoney DEF PrepaidNext

\* What is reserved is exactly what the open withdrawals are for, and the wallet holds
\* the account's cash and what is still to be swept, less what was paid out and not yet
\* booked: for any number of rows and amounts, through every order of charges, credits,
\* withdrawals, cancellations, retries and failures (createWithdrawalRequest,
\* cancelOwnedWithdrawal, confirmWithdrawal, insertCashSweepRequest).
THEOREM PrepaidMoneyIsThere == PrepaidSpec => []MoneyIsThere
<1>1. MoneyInv => MoneyIsThere
  BY DEF MoneyInv, MoneyIsThere, ReservationsAddUp, WalletBacksCash, Reserving, Unswept, PaidUnbooked
<1>. QED
  BY <1>1, MoneyInitially, MoneyStep, AccountInductive, PrepaidImplementsTransfers,
     TransfersInductive, PTL DEF PrepaidSpec

\* The books balance, and the money they speak of is there: the four facts above, for
\* any amounts, rates and orders of ratings, credits, withdrawals and failures.
THEOREM PrepaidBooksBalance == PrepaidSpec => []BooksBalance
<1>1. LedgerIsBalance /\ ReservedIsCash /\ NoRoundingLoss /\ MoneyIsThere => BooksBalance
  BY DEF BooksBalance
<1>. QED
  BY <1>1, PrepaidLedgerIsBalance, PrepaidReservedIsCash, PrepaidNoRoundingLoss,
     PrepaidMoneyIsThere, PTL

------------------------------------------------------------------------------
(***************************************************************************)
(* The deposit scan.                                                       *)
(***************************************************************************)
CursorRows == [accounts : SUBSET TokenAccounts, latest : [TokenAccounts -> Nat]]
Scans ==
    {NoScan}
        \cup [at : {"between"}, todo : SUBSET TokenAccounts, row : CursorRows]
        \cup [at : {"walking"}, todo : SUBSET TokenAccounts, row : CursorRows,
              account : TokenAccounts, next : Nat, newest : Nat]

ScanTyped ==
    /\ history \in [TokenAccounts -> [Places -> Nat]]
    /\ height \in [TokenAccounts -> Nat]
    /\ opened \subseteq TokenAccounts
    /\ cursorRow \in CursorRows
    /\ scan \in Scans

\* Every payment among the first m transactions of account a has its receipt.
Receipted(a, m) == \A n \in Places : n <= m /\ history[a][n] > 0 => <<a, n>> \in receipts

CursorCovers ==
    \A a \in TokenAccounts :
        /\ cursorRow.latest[a] <= height[a]
        /\ height[a] - cursorRow.latest[a] <= MaxBurst
        /\ Receipted(a, cursorRow.latest[a])

\* What a scan is about to save: nothing it has not credited, or found credited.
ScanCovers ==
    scan # NoScan =>
        \A a \in TokenAccounts :
            /\ cursorRow.latest[a] <= scan.row.latest[a]
            /\ scan.row.latest[a] <= height[a]
            /\ Receipted(a, scan.row.latest[a])

WalkCovers ==
    scan.at = "walking" =>
        /\ scan.row.latest[scan.account] <= scan.newest
        /\ scan.newest <= height[scan.account]
        /\ scan.next <= scan.newest + 1
        /\ scan.next >= 1
        /\ Receipted(scan.account, scan.next - 1)

ScanInv == ScanTyped /\ CursorCovers /\ ScanCovers /\ WalkCovers

------------------------------------------------------------------------------
\* What the shapes of a scan say of its fields.
LEMMA ScanShapes ==
    ASSUME ScanTyped
    PROVE  /\ NoScan.at = "idle"
           /\ scan # NoScan => scan.row \in CursorRows /\ scan.todo \in SUBSET TokenAccounts
           /\ scan.at \in {"between", "walking"} => scan # NoScan
           /\ scan.at = "walking" => /\ scan.account \in TokenAccounts
                                     /\ scan.next \in Nat /\ scan.newest \in Nat
BY DEF ScanTyped, Scans, NoScan

LEMMA LargestOfTwo ==
    ASSUME NEW i \in Int, NEW j \in Int, j <= i
    PROVE  Max({i, j}) = i
BY DEF Max

\* The transactions newer than a cursor fit into the pages of a scan: it begins with
\* the first of them.
LEMMA LoadStep ==
    ASSUME DepositAssumption, MaxBurst <= Cap, ScanInv,
           NEW a \in TokenAccounts, LoadNewSignatures(a)
    PROVE  ScanInv'
<1>1. /\ scan.at = "between" /\ scan # NoScan /\ scan.row \in CursorRows /\ scan.todo \in SUBSET TokenAccounts
      /\ height[a] \in Nat /\ scan.row.latest[a] \in Nat /\ cursorRow.latest[a] \in Nat
  BY ScanShapes DEF ScanInv, ScanTyped, LoadNewSignatures, CursorRows
<1>2. height[a] - Cap <= scan.row.latest[a]
  BY <1>1 DEF ScanInv, CursorCovers, ScanCovers, DepositAssumption
<1>3. Max({scan.row.latest[a], height[a] - Cap}) = scan.row.latest[a]
  BY <1>1, <1>2, LargestOfTwo DEF DepositAssumption
<1>4. /\ scan' = [at |-> "walking", todo |-> scan.todo \ {a}, row |-> scan.row,
                  account |-> a, next |-> scan.row.latest[a] + 1, newest |-> height[a]]
      /\ UNCHANGED <<history, height, opened, cursorRow, receipts>>
  BY <1>3 DEF LoadNewSignatures
<1>5. ScanTyped'
  BY <1>1, <1>4 DEF ScanInv, ScanTyped, Scans
<1>6. CursorCovers'
  BY <1>4 DEF ScanInv, CursorCovers, Receipted
<1>7. scan'.at = "walking" /\ scan'.row = scan.row /\ scan'.account = a
      /\ scan'.next = scan.row.latest[a] + 1 /\ scan'.newest = height[a]
  BY <1>4
<1>8. ScanCovers'
  BY <1>1, <1>4, <1>7 DEF ScanInv, ScanCovers, Receipted
<1>9. WalkCovers'
  BY <1>1, <1>4, <1>7 DEF ScanInv, ScanCovers, WalkCovers, Receipted
<1>. QED
  BY <1>5, <1>6, <1>8, <1>9 DEF ScanInv

LEMMA CreditingStep ==
    ASSUME DepositAssumption, ScanInv, CreditDirectDeposit
    PROVE  ScanInv'
<1>1. /\ scan.at = "walking" /\ scan # NoScan /\ scan.next <= scan.newest
      /\ scan.row \in CursorRows /\ scan.account \in TokenAccounts /\ scan.next \in Nat /\ scan.newest \in Nat
  BY ScanShapes DEF ScanInv, CreditDirectDeposit
<1>2. /\ UNCHANGED <<history, height, opened, cursorRow>> /\ receipts \subseteq receipts'
      /\ history[scan.account][scan.next] > 0 => <<scan.account, scan.next>> \in receipts'
      /\ scan' = [scan EXCEPT !.next = @ + 1]
  BY DEF CreditDirectDeposit, AmountOf
<1>3. /\ scan' \in [at : {"walking"}, todo : SUBSET TokenAccounts, row : CursorRows,
                    account : TokenAccounts, next : Nat, newest : Nat]
      /\ scan'.row = scan.row /\ scan'.account = scan.account
      /\ scan'.next = scan.next + 1 /\ scan'.newest = scan.newest
  <2>1. scan \in [at : {"walking"}, todo : SUBSET TokenAccounts, row : CursorRows,
                  account : TokenAccounts, next : Nat, newest : Nat]
    BY <1>1 DEF ScanInv, ScanTyped, Scans, NoScan
  <2>. QED
    BY <1>2, <2>1
<1>4. ScanTyped'
  BY <1>2, <1>3 DEF ScanInv, ScanTyped, Scans
<1>5. \A a, m : Receipted(a, m) => Receipted(a, m)'
  BY <1>2 DEF Receipted
<1>6. CursorCovers'
  BY <1>2, <1>5 DEF ScanInv, CursorCovers
<1>7. ScanCovers'
  BY <1>1, <1>2, <1>3, <1>5 DEF ScanInv, ScanCovers
<1>8. Receipted(scan.account, scan.next - 1) /\ scan.next >= 1
  BY <1>1 DEF ScanInv, WalkCovers
<1>9. Receipted(scan.account, scan.next - 1)'
  BY <1>1, <1>2, <1>3, <1>8 DEF Receipted, Places
<1>10. WalkCovers'
  BY <1>1, <1>2, <1>3, <1>8, <1>9 DEF ScanInv, WalkCovers
<1>. QED
  BY <1>4, <1>6, <1>7, <1>10 DEF ScanInv
\* A new transaction is above every cursor.
LEMMA FinalizeStep ==
    ASSUME DepositAssumption, ScanInv, NEW a \in TokenAccounts, NEW paid \in Deposits, Finalize(a, paid)
    PROVE  ScanInv'
<1>1. /\ UNCHANGED <<cursorRow, scan, receipts>>
      /\ height[a] \in Nat /\ height' = [height EXCEPT ![a] = height[a] + 1]
      /\ height[a] - cursorRow.latest[a] < MaxBurst
      /\ history' = [history EXCEPT ![a] = [history[a] EXCEPT ![height[a] + 1] = paid]]
      /\ paid \in Nat /\ cursorRow \in CursorRows /\ MaxBurst \in Nat
  BY DEF DepositAssumption, ScanInv, ScanTyped, Finalize
<1>2. ScanTyped'
  <2>1. opened' \subseteq TokenAccounts
    BY DEF Finalize, ScanInv, ScanTyped
  <2>2. history' \in [TokenAccounts -> [Places -> Nat]] /\ height' \in [TokenAccounts -> Nat]
    <3>1. history[a] \in [Places -> Nat] /\ history \in [TokenAccounts -> [Places -> Nat]]
      BY DEF ScanInv, ScanTyped
    <3>2. [history[a] EXCEPT ![height[a] + 1] = paid] \in [Places -> Nat]
      BY <1>1, <3>1
    <3>3. history' \in [TokenAccounts -> [Places -> Nat]]
      BY <1>1, <3>1, <3>2
    <3>. QED
      BY <1>1, <3>3 DEF ScanInv, ScanTyped
  <2>. QED
    BY <1>1, <2>1, <2>2 DEF ScanInv, ScanTyped
<1>3. ASSUME NEW b \in TokenAccounts
      PROVE  /\ height[b] \in Nat /\ height'[b] \in Nat /\ height[b] <= height'[b]
             /\ height'[b] - height[b] = IF b = a THEN 1 ELSE 0
             /\ cursorRow.latest[b] \in Nat
  BY <1>1 DEF ScanInv, ScanTyped, CursorRows
<1>4. ASSUME NEW b \in TokenAccounts, NEW m \in Int, m <= height[b], Receipted(b, m)
      PROVE  Receipted(b, m)'
  <2>1. SUFFICES ASSUME NEW n \in Places, n <= m, history'[b][n] > 0 PROVE <<b, n>> \in receipts
    BY <1>1 DEF Receipted
  <2>2. history'[b][n] = history[b][n]
    <3>1. CASE b # a
      BY <1>1, <3>1 DEF ScanInv, ScanTyped
    <3>2. CASE b = a
      <4>1. n # height[a] + 1
        BY <1>1, <1>4, <2>1, <3>2 DEF Places
      <4>. QED
        BY <1>1, <3>2, <4>1 DEF ScanInv, ScanTyped
    <3>. QED
      BY <3>1, <3>2
  <2>. QED
    BY <1>4, <2>1, <2>2 DEF Receipted
<1>5. CursorCovers'
  <2>1. SUFFICES ASSUME NEW b \in TokenAccounts
                 PROVE  /\ cursorRow.latest[b] <= height'[b]
                        /\ height'[b] - cursorRow.latest[b] <= MaxBurst
                        /\ Receipted(b, cursorRow.latest[b])'
    BY <1>1 DEF CursorCovers
  <2>2. PICK m \in Nat : m = cursorRow.latest[b] /\ m = cursorRow'.latest[b]
    BY <1>1, <1>3
  <2>3. m <= height[b] /\ height[b] - m <= MaxBurst /\ Receipted(b, m)
    BY <2>2 DEF ScanInv, CursorCovers
  <2>4. Receipted(b, m)'
    BY <1>4, <2>3
  <2>5. Receipted(b, cursorRow.latest[b])'
    BY <2>2, <2>4 DEF Receipted
  <2>. QED
    BY <1>1, <1>3, <2>2, <2>3, <2>5
<1>6. ScanCovers'
  <2>1. SUFFICES ASSUME scan # NoScan, NEW b \in TokenAccounts
                 PROVE  /\ cursorRow.latest[b] <= scan.row.latest[b]
                        /\ scan.row.latest[b] <= height'[b]
                        /\ Receipted(b, scan.row.latest[b])'
    BY <1>1 DEF ScanCovers
  <2>2. PICK m \in Nat : m = scan.row.latest[b] /\ m = scan'.row.latest[b]
    BY <1>1, <2>1, ScanShapes DEF ScanInv, CursorRows
  <2>3. cursorRow.latest[b] <= m /\ m <= height[b] /\ Receipted(b, m)
    BY <2>1, <2>2 DEF ScanInv, ScanCovers
  <2>4. Receipted(b, m)'
    BY <1>4, <2>3
  <2>5. Receipted(b, scan.row.latest[b])'
    BY <2>2, <2>4 DEF Receipted
  <2>. QED
    BY <1>3, <2>2, <2>3, <2>5
<1>7. WalkCovers'
  <2>1. SUFFICES ASSUME scan.at = "walking" PROVE WalkCovers'
    BY <1>1 DEF WalkCovers
  <2>2. scan.account \in TokenAccounts /\ scan.next \in Nat /\ scan.newest \in Nat
    BY <2>1, ScanShapes DEF ScanInv
  <2>3. PICK m \in Int : m = scan.next - 1 /\ m = scan'.next - 1
    BY <1>1, <2>2
  <2>4. m <= height[scan.account] /\ Receipted(scan.account, m)
    BY <1>3, <2>1, <2>2, <2>3 DEF ScanInv, WalkCovers
  <2>5. PICK b \in TokenAccounts : b = scan.account
    BY <2>2
  <2>6. Receipted(b, m)'
    BY <1>4, <2>4, <2>5
  <2>7. Receipted(scan.account, scan.next - 1)'
    BY <1>1, <2>3, <2>5, <2>6 DEF Receipted
  <2>. QED
    BY <1>1, <1>3, <2>1, <2>2, <2>7 DEF ScanInv, WalkCovers
<1>. QED
  BY <1>2, <1>5, <1>6, <1>7 DEF ScanInv

\* A scan begins with the saved cursors, notes what it has walked and saves it whole.
LEMMA ScanSteps ==
    ASSUME DepositAssumption, ScanInv, BeginScan \/ EndAccount \/ RecordScanSuccess \/ ScanFails
    PROVE  ScanInv'
<1>0. UNCHANGED <<history, height, opened, receipts>>
  BY DEF BeginScan, EndAccount, RecordScanSuccess, ScanFails
<1>1. CASE BeginScan
  <2> DEFINE accounts == IF cursorRow.accounts # {} THEN cursorRow.accounts ELSE opened
             row == [cursorRow EXCEPT !.accounts = accounts]
  <2>1. accounts \in SUBSET TokenAccounts /\ row \in CursorRows /\ row.latest = cursorRow.latest
    BY DEF ScanInv, ScanTyped, CursorRows
  <2>2. scan' = [at |-> "between", todo |-> accounts, row |-> row] /\ cursorRow' = cursorRow
    BY <1>1 DEF BeginScan
  <2> HIDE DEF accounts, row
  <2>3. scan'.at = "between" /\ scan'.row = row
    BY <2>2
  <2>4. ScanTyped'
    BY <1>0, <2>1, <2>2 DEF ScanInv, ScanTyped, Scans
  <2>5. CursorCovers' /\ ScanCovers'
    BY <1>0, <2>1, <2>2, <2>3 DEF ScanInv, ScanTyped, CursorRows, CursorCovers, ScanCovers, Receipted
  <2>. QED
    BY <2>3, <2>4, <2>5 DEF ScanInv, WalkCovers
<1>2. CASE EndAccount
  <2> DEFINE row == [scan.row EXCEPT !.latest[scan.account] = scan.newest]
  <2>1. /\ scan.at = "walking" /\ scan # NoScan /\ scan.next > scan.newest /\ scan.row \in CursorRows
        /\ scan.account \in TokenAccounts /\ scan.next \in Nat /\ scan.newest \in Nat
        /\ scan.todo \in SUBSET TokenAccounts
    BY <1>2, ScanShapes DEF ScanInv, EndAccount
  <2>2. row \in CursorRows /\ row.latest = [scan.row.latest EXCEPT ![scan.account] = scan.newest]
    BY <2>1 DEF CursorRows
  <2>3. scan' = [at |-> "between", todo |-> scan.todo, row |-> row] /\ cursorRow' = cursorRow
    BY <1>2 DEF EndAccount
  <2> HIDE DEF row
  <2>4. scan'.at = "between" /\ scan'.row = row
    BY <2>3
  <2>5. ScanTyped'
    BY <1>0, <2>1, <2>2, <2>3 DEF ScanInv, ScanTyped, Scans
  <2>6. CursorCovers'
    BY <1>0, <2>3 DEF ScanInv, CursorCovers, Receipted
  <2>7. scan.next - 1 = scan.newest /\ Receipted(scan.account, scan.newest)
        /\ scan.row.latest[scan.account] <= scan.newest /\ scan.newest <= height[scan.account]
    BY <2>1 DEF ScanInv, WalkCovers
  <2>8. ASSUME NEW b \in TokenAccounts
        PROVE  cursorRow.latest[b] <= row.latest[b] /\ row.latest[b] <= height[b]
               /\ Receipted(b, row.latest[b])
    <3>1. cursorRow.latest[b] <= scan.row.latest[b] /\ scan.row.latest[b] <= height[b]
          /\ Receipted(b, scan.row.latest[b])
      BY <2>1 DEF ScanInv, ScanCovers
    <3>2. CASE b = scan.account
      <4>1. row.latest[b] = scan.newest
        BY <2>1, <2>2, <3>2 DEF CursorRows
      <4>2. cursorRow.latest[b] \in Nat /\ scan.row.latest[b] \in Nat
        BY <2>1 DEF ScanInv, ScanTyped, CursorRows
      <4>. QED
        BY <2>1, <2>7, <3>1, <3>2, <4>1, <4>2
    <3>3. CASE b # scan.account
      <4>1. row.latest[b] = scan.row.latest[b]
        BY <2>1, <2>2, <3>3 DEF CursorRows
      <4>. QED
        BY <3>1, <4>1
    <3>. QED
      BY <3>2, <3>3
  <2>9. ScanCovers'
    BY <1>0, <2>3, <2>4, <2>8 DEF ScanCovers, Receipted
  <2>. QED
    BY <2>4, <2>5, <2>6, <2>9 DEF ScanInv, WalkCovers
<1>3. CASE RecordScanSuccess
  <2>1. scan # NoScan /\ scan.row \in CursorRows /\ scan' = NoScan /\ cursorRow' = scan.row /\ NoScan.at = "idle"
    BY <1>3, ScanShapes DEF ScanInv, RecordScanSuccess
  <2>2. ScanTyped'
    BY <1>0, <2>1 DEF ScanInv, ScanTyped, Scans
  <2>3. CursorCovers'
    <3>1. SUFFICES ASSUME NEW b \in TokenAccounts
                   PROVE  /\ scan.row.latest[b] <= height[b]
                          /\ height[b] - scan.row.latest[b] <= MaxBurst
                          /\ Receipted(b, scan.row.latest[b])
      BY <1>0, <2>1 DEF CursorCovers, Receipted
    <3>2. height[b] \in Nat /\ scan.row.latest[b] \in Nat /\ cursorRow.latest[b] \in Nat
      BY <2>1 DEF ScanInv, ScanTyped, CursorRows
    <3>3. /\ cursorRow.latest[b] <= scan.row.latest[b] /\ scan.row.latest[b] <= height[b]
          /\ Receipted(b, scan.row.latest[b]) /\ height[b] - cursorRow.latest[b] <= MaxBurst
      BY <2>1 DEF ScanInv, ScanCovers, CursorCovers
    <3>. QED
      BY <3>2, <3>3 DEF DepositAssumption
  <2>. QED
    BY <2>1, <2>2, <2>3 DEF ScanInv, ScanCovers, WalkCovers
<1>4. CASE ScanFails
  <2>1. scan' = NoScan /\ cursorRow' = cursorRow /\ NoScan.at = "idle"
    BY <1>4, ScanShapes DEF ScanInv, ScanFails
  <2>2. ScanTyped' /\ CursorCovers'
    BY <1>0, <2>1 DEF ScanInv, ScanTyped, Scans, CursorCovers, Receipted
  <2>. QED
    BY <2>1, <2>2 DEF ScanInv, ScanCovers, WalkCovers
<1>. QED
  BY <1>1, <1>2, <1>3, <1>4

LEMMA ScanInvAlways == MaxBurst <= Cap /\ DepositSpec => []ScanInv
<1>1. DepositInit => ScanInv
  BY DepositAssumption DEF DepositInit, DepositAssumption, ScanInv, ScanTyped, CursorRows, Scans, Places,
     CursorCovers, ScanCovers, WalkCovers, Receipted, NoScan
<1>2. MaxBurst <= Cap /\ ScanInv /\ [DepositNext]_depositVars => ScanInv'
  <2> SUFFICES ASSUME MaxBurst <= Cap, ScanInv, [DepositNext]_depositVars PROVE ScanInv'
    OBVIOUS
  <2>1. CASE UNCHANGED depositVars
    BY <2>1 DEF depositVars, ScanInv, ScanTyped, CursorCovers, ScanCovers, WalkCovers, Receipted
  <2>2. CASE DepositNext
    BY <2>2, DepositAssumption, FinalizeStep, LoadStep, CreditingStep, ScanSteps DEF DepositNext, DepositWork, ScanStep
  <2>. QED
    BY <2>1, <2>2
<1>3. (MaxBurst <= Cap) => [](MaxBurst <= Cap)
  OBVIOUS
<1>. QED
  BY <1>1, <1>2, <1>3, PTL DEF DepositSpec

\* As long as no more transactions are finalized between two saved cursors than a scan
\* loads pages for, no cursor passes a payment that has no receipt, for any number of
\* token accounts and however often scans fail, at whatever step
\* (reconcileDirectSolanaDeposits, solana_deposit_scan_cursors).
THEOREM DepositsNothingSkipped == MaxBurst <= Cap /\ DepositSpec => []NothingSkipped
<1>1. ScanInv => NothingSkipped
  BY DEF ScanInv, CursorCovers, Receipted, NothingSkipped
<1>. QED
  BY <1>1, ScanInvAlways, PTL

\* What each transaction pays.
PaidBy == [sig \in Signatures |-> AmountOf(sig)]

LEMMA LargerIsOne ==
    ASSUME NEW i \in Int, NEW j \in Int
    PROVE  Max({i, j}) \in Int /\ i <= Max({i, j})
<1>1. CASE j <= i
  BY <1>1, LargestOfTwo
<1>2. CASE i <= j
  <2>1. Max({j, i}) = j /\ {i, j} = {j, i}
    BY <1>2, LargestOfTwo
  <2>. QED
    BY <1>2, <2>1
<1>. QED
  BY <1>1, <1>2

\* The scan credits what it walks over, and it walks over what is finalized.
DepositsInv ==
    /\ ScanTyped
    /\ \A a \in TokenAccounts : height[a] <= MaxHistory
    /\ scan.at = "walking" => scan.newest <= height[scan.account] /\ scan.next >= 1
    /\ \A sig \in receipts : sig \in Signatures /\ sig[2] <= height[sig[1]]
    /\ credited \in Nat
    /\ dust \in 0..(BaseUnits - 1)
    /\ IsFiniteSet(UnitsOf(PaidBy, receipts))
    /\ DepositsAddUp

LEMMA DepositsInitially == DepositInit => DepositsInv
<1> SUFFICES ASSUME DepositInit PROVE DepositsInv
  OBVIOUS
<1>1. receipts = {} /\ credited = 0 /\ dust = 0
  BY DEF DepositInit
<1>2. ScanTyped /\ \A a \in TokenAccounts : height[a] <= MaxHistory
  BY DepositAssumption DEF DepositInit, DepositAssumption, ScanTyped, CursorRows, Scans, Places
<1>3. scan.at # "walking"
  BY DEF DepositInit, NoScan
<1>4. IsFiniteSet(UnitsOf(PaidBy, receipts)) /\ SumOf(PaidBy, receipts) = 0
  BY <1>1, SumOfNone
<1>5. DepositsAddUp
  BY <1>1, <1>4, DepositAssumption DEF DepositsAddUp, DepositAssumption, PaidBy
<1>. QED
  BY <1>1, <1>2, <1>3, <1>4, <1>5, DepositAssumption DEF DepositsInv, DepositAssumption

\* The steps of a scan that credit nothing.
LEMMA WalkingKeepsSums ==
    ASSUME DepositsInv, UNCHANGED <<history, height, receipts, credited, dust>>, ScanTyped',
           scan'.at = "walking" => scan'.newest <= height[scan'.account] /\ scan'.next >= 1
    PROVE  DepositsInv'
<1>1. PaidBy' = PaidBy
  BY DEF PaidBy, AmountOf
<1>2. DepositsAddUp' /\ IsFiniteSet(UnitsOf(PaidBy, receipts))'
  <2>1. credited * BaseUnits + dust = SumOf(PaidBy, receipts) /\ IsFiniteSet(UnitsOf(PaidBy, receipts))
    BY DEF DepositsInv, DepositsAddUp, PaidBy
  <2>2. (credited * BaseUnits + dust = SumOf(PaidBy, receipts))' /\ IsFiniteSet(UnitsOf(PaidBy, receipts))'
    BY <1>1, <2>1
  <2>. QED
    BY <2>2 DEF DepositsAddUp, PaidBy
<1>. QED
  BY <1>2 DEF DepositsInv

LEMMA BeginKeeps == ASSUME DepositsInv, BeginScan PROVE DepositsInv'
<1> DEFINE accounts == IF cursorRow.accounts # {} THEN cursorRow.accounts ELSE opened
           row == [cursorRow EXCEPT !.accounts = accounts]
<1>1. accounts \in SUBSET TokenAccounts /\ row \in CursorRows
  BY DEF DepositsInv, ScanTyped, CursorRows
<1>2. /\ scan' = [at |-> "between", todo |-> accounts, row |-> row] 
      /\ UNCHANGED <<history, height, opened, cursorRow, receipts, credited, dust>>
  BY DEF BeginScan
<1> HIDE DEF accounts, row
<1>3. scan'.at = "between" /\ ScanTyped'
  BY <1>1, <1>2 DEF DepositsInv, ScanTyped, Scans
<1>. QED
  BY <1>2, <1>3, WalkingKeepsSums

LEMMA LoadKeeps == ASSUME DepositsInv, NEW a \in TokenAccounts, LoadNewSignatures(a) PROVE DepositsInv'
<1>1. /\ scan.at = "between" /\ scan # NoScan /\ scan.row \in CursorRows /\ scan.todo \in SUBSET TokenAccounts
      /\ height[a] \in Nat /\ scan.row.latest[a] \in Nat
  BY ScanShapes DEF DepositsInv, ScanTyped, LoadNewSignatures, CursorRows
<1> DEFINE oldest == Max({scan.row.latest[a], height[a] - Cap}) + 1
<1>2. oldest \in Nat /\ oldest >= 1
  <2>1. PICK i \in Nat, j \in Int : i = scan.row.latest[a] /\ j = height[a] - Cap
    BY <1>1, DepositAssumption DEF DepositAssumption
  <2>2. Max({i, j}) \in Int /\ i <= Max({i, j})
    BY LargerIsOne
  <2>3. oldest = Max({i, j}) + 1
    BY <2>1
  <2> HIDE DEF oldest
  <2>. QED
    BY <2>2, <2>3
<1>3. /\ scan' = [at |-> "walking", todo |-> scan.todo \ {a}, row |-> scan.row,
                  account |-> a, next |-> oldest, newest |-> height[a]]
      /\ UNCHANGED <<history, height, opened, cursorRow, receipts, credited, dust>>
  BY DEF LoadNewSignatures
<1> HIDE DEF oldest
<1>4. ScanTyped' /\ scan'.newest <= height[scan'.account] /\ scan'.next >= 1
  BY <1>1, <1>2, <1>3 DEF DepositsInv, ScanTyped, Scans
<1>. QED
  BY <1>3, <1>4, WalkingKeepsSums

LEMMA LeavingKeeps == ASSUME DepositsInv, EndAccount \/ RecordScanSuccess \/ ScanFails PROVE DepositsInv'
<1>0. UNCHANGED <<history, height, opened, receipts, credited, dust>>
  BY DEF EndAccount, RecordScanSuccess, ScanFails
<1>1. CASE EndAccount
  <2> DEFINE row == [scan.row EXCEPT !.latest[scan.account] = scan.newest]
  <2>1. /\ scan.at = "walking" /\ scan # NoScan /\ scan.row \in CursorRows
        /\ scan.account \in TokenAccounts /\ scan.newest \in Nat /\ scan.todo \in SUBSET TokenAccounts
    BY <1>1, ScanShapes DEF DepositsInv, EndAccount
  <2>2. row \in CursorRows
    BY <2>1 DEF CursorRows
  <2>3. scan' = [at |-> "between", todo |-> scan.todo, row |-> row] /\ cursorRow' = cursorRow
    BY <1>1 DEF EndAccount
  <2> HIDE DEF row
  <2>4. scan'.at = "between" /\ ScanTyped'
    BY <1>0, <2>1, <2>2, <2>3 DEF DepositsInv, ScanTyped, Scans
  <2>. QED
    BY <1>0, <2>4, WalkingKeepsSums
<1>2. CASE RecordScanSuccess \/ ScanFails
  <2>1. scan # NoScan /\ scan.row \in CursorRows /\ scan' = NoScan /\ NoScan.at = "idle"
        /\ cursorRow' \in {cursorRow, scan.row}
    BY <1>2, ScanShapes DEF DepositsInv, RecordScanSuccess, ScanFails
  <2>2. ScanTyped' /\ scan'.at # "walking"
    BY <1>0, <2>1 DEF DepositsInv, ScanTyped, Scans
  <2>. QED
    BY <1>0, <2>2, WalkingKeepsSums
<1>. QED
  BY <1>1, <1>2

\* A new transaction changes no amount that has its receipt.
LEMMA FinalizeKeeps ==
    ASSUME DepositsInv, NEW a \in TokenAccounts, NEW paid \in Deposits, Finalize(a, paid)
    PROVE  DepositsInv'
<1>1. /\ UNCHANGED <<cursorRow, scan, receipts, credited, dust>>
      /\ height[a] \in Nat /\ height[a] < MaxHistory /\ height' = [height EXCEPT ![a] = height[a] + 1]
      /\ history' = [history EXCEPT ![a] = [history[a] EXCEPT ![height[a] + 1] = paid]]
      /\ opened' = opened \cup {a}
      /\ paid \in Nat /\ MaxHistory \in Nat
      /\ history \in [TokenAccounts -> [Places -> Nat]] /\ height \in [TokenAccounts -> Nat]
  BY DepositAssumption DEF DepositAssumption, DepositsInv, ScanTyped, Finalize
<1>2. ScanTyped'
  <2>1. [history[a] EXCEPT ![height[a] + 1] = paid] \in [Places -> Nat]
    BY <1>1
  <2>2. history' \in [TokenAccounts -> [Places -> Nat]]
    BY <1>1, <2>1
  <2>. QED
    BY <1>1, <2>2 DEF DepositsInv, ScanTyped
<1>3. ASSUME NEW b \in TokenAccounts
      PROVE  height[b] <= height'[b] /\ height'[b] <= MaxHistory /\ height[b] \in Nat /\ height'[b] \in Nat
  BY <1>1 DEF DepositsInv
<1>4. scan'.at = "walking" => scan'.newest <= height'[scan'.account] /\ scan'.next >= 1
  <2>1. SUFFICES ASSUME scan.at = "walking" PROVE scan.newest <= height'[scan.account] /\ scan.next >= 1
    BY <1>1
  <2>2. scan.account \in TokenAccounts /\ scan.newest \in Nat /\ scan.newest <= height[scan.account] /\ scan.next >= 1
    BY <2>1, ScanShapes DEF DepositsInv
  <2>. QED
    BY <1>3, <2>2
<1>5. ASSUME NEW sig \in receipts
      PROVE  /\ sig \in Signatures /\ sig[2] <= height'[sig[1]]
             /\ history'[sig[1]][sig[2]] = history[sig[1]][sig[2]]
  <2>1. sig \in Signatures /\ sig[2] <= height[sig[1]]
    BY DEF DepositsInv
  <2>2. PICK b \in TokenAccounts, n \in Places : sig = <<b, n>>
    BY <2>1 DEF Signatures
  <2>3. n <= height[b] /\ n <= height'[b] /\ n \in Int
    BY <1>3, <2>1, <2>2 DEF Places
  <2>4. history'[b][n] = history[b][n]
    <3>1. CASE b # a
      BY <1>1, <3>1
    <3>2. CASE b = a
      <4>1. n # height[a] + 1
        BY <1>1, <2>3, <3>2
      <4>. QED
        BY <1>1, <3>2, <4>1
    <3>. QED
      BY <3>1, <3>2
  <2>. QED
    BY <2>1, <2>2, <2>3, <2>4
<1>6. \A sig \in receipts : PaidBy[sig] = PaidBy'[sig]
  BY <1>5 DEF PaidBy, AmountOf
<1>7. UnitsOf(PaidBy, receipts) = UnitsOf(PaidBy', receipts)
      /\ SumOf(PaidBy, receipts) = SumOf(PaidBy', receipts)
  <2> DEFINE f == PaidBy
             g == PaidBy'
  <2>1. \A sig \in receipts : f[sig] = g[sig]
    BY <1>6
  <2> HIDE DEF f, g
  <2>2. UnitsOf(f, receipts) = UnitsOf(g, receipts) /\ SumOf(f, receipts) = SumOf(g, receipts)
    BY <2>1, SumOfSame
  <2>. QED
    BY <2>2 DEF f, g
<1>8. DepositsAddUp' /\ IsFiniteSet(UnitsOf(PaidBy, receipts))'
  <2>1. credited * BaseUnits + dust = SumOf(PaidBy, receipts)
    BY DEF DepositsInv, DepositsAddUp, PaidBy
  <2>2. credited * BaseUnits + dust = SumOf(PaidBy', receipts)
    BY <1>7, <2>1
  <2>3. IsFiniteSet(UnitsOf(PaidBy', receipts))
    BY <1>7 DEF DepositsInv
  <2>4. (credited * BaseUnits + dust = SumOf(PaidBy, receipts))'
    BY <1>1, <2>2
  <2>. QED
    BY <1>1, <2>3, <2>4 DEF DepositsAddUp, PaidBy
<1>9. \A b \in TokenAccounts : height'[b] <= MaxHistory
  BY <1>3
<1>10. \A sig \in receipts' : sig \in Signatures /\ sig[2] <= height'[sig[1]]
  BY <1>1, <1>5
<1>. QED
  BY <1>1, <1>2, <1>4, <1>8, <1>9, <1>10 DEF DepositsInv

LEMMA CreditKeeps == ASSUME DepositsInv, CreditDirectDeposit PROVE DepositsInv'
<1> DEFINE sig == <<scan.account, scan.next>>
           total == dust + AmountOf(sig)
<1>1. /\ scan.at = "walking" /\ scan # NoScan /\ scan.next <= scan.newest
      /\ scan.account \in TokenAccounts /\ scan.next \in Nat /\ scan.newest \in Nat
      /\ scan.newest <= height[scan.account] /\ scan.next >= 1
      /\ height[scan.account] \in Nat /\ height[scan.account] <= MaxHistory
  BY ScanShapes DEF DepositsInv, ScanTyped, CreditDirectDeposit
<1>2. /\ UNCHANGED <<history, height, opened, cursorRow>>
      /\ scan' = [scan EXCEPT !.next = @ + 1]
  BY DEF CreditDirectDeposit
<1>3. /\ scan' \in [at : {"walking"}, todo : SUBSET TokenAccounts, row : CursorRows,
                    account : TokenAccounts, next : Nat, newest : Nat]
      /\ scan'.account = scan.account /\ scan'.next = scan.next + 1 /\ scan'.newest = scan.newest
  <2>1. scan \in [at : {"walking"}, todo : SUBSET TokenAccounts, row : CursorRows,
                  account : TokenAccounts, next : Nat, newest : Nat]
    BY <1>1 DEF DepositsInv, ScanTyped, Scans, NoScan
  <2>. QED
    BY <1>1, <1>2, <2>1
<1>4. ScanTyped'
  BY <1>2, <1>3 DEF DepositsInv, ScanTyped, Scans
<1>5. scan'.newest <= height'[scan'.account] /\ scan'.next >= 1
  BY <1>1, <1>2, <1>3
<1>6. sig \in Signatures /\ sig[2] <= height[sig[1]] /\ AmountOf(sig) \in Nat
  <2>1. scan.next \in Places /\ scan.next <= height[scan.account]
    BY <1>1, DepositAssumption DEF Places, DepositAssumption
  <2>. QED
    BY <1>1, <2>1 DEF Signatures, AmountOf, DepositsInv, ScanTyped
<1>7. CASE UNCHANGED <<receipts, credited, dust>>
  BY <1>2, <1>4, <1>5, <1>7, WalkingKeepsSums
<1>8. CASE /\ sig \notin receipts /\ receipts' = receipts \cup {sig}
           /\ dust' = total % BaseUnits /\ credited' = credited + total \div BaseUnits
  <2>1. PaidBy' = PaidBy
    BY <1>2 DEF PaidBy, AmountOf
  <2>2. PaidBy[sig] = AmountOf(sig)
    BY <1>6 DEF PaidBy
  <2>3. /\ dust \in Nat /\ credited \in Nat /\ IsFiniteSet(UnitsOf(PaidBy, receipts))
        /\ credited * BaseUnits + dust = SumOf(PaidBy, receipts)
        /\ BaseUnits \in Nat \ {0}
    BY DepositAssumption DEF DepositsInv, DepositsAddUp, PaidBy, DepositAssumption
  <2>4. /\ IsFiniteSet(UnitsOf(PaidBy, receipts \cup {sig}))
        /\ SumOf(PaidBy, receipts \cup {sig}) = SumOf(PaidBy, receipts) + AmountOf(sig)
    <3> DEFINE f == PaidBy
    <3>1. f[sig] \in Nat /\ f[sig] = AmountOf(sig) /\ IsFiniteSet(UnitsOf(f, receipts)) /\ sig \notin receipts
      BY <1>6, <1>8, <2>2, <2>3
    <3> HIDE DEF f, sig
    <3>2. IsFiniteSet(UnitsOf(f, receipts \cup {sig})) /\ SumOf(f, receipts \cup {sig}) = SumOf(f, receipts) + f[sig]
      BY <3>1, SumOfMore
    <3>. QED
      BY <3>1, <3>2 DEF f
  <2>5. total \in Nat
    BY <1>6, <2>3
  <2>6. PICK q \in Nat, m \in 0..(BaseUnits - 1) :
            q = total \div BaseUnits /\ m = total % BaseUnits /\ q * BaseUnits + m = total
    <3> HIDE DEF total
    <3>. QED
      BY <2>3, <2>5, DivisionLeaves
  <2>7. dust' = m /\ credited' = credited + q
    BY <1>8, <2>6
  <2>8. (credited + q) * BaseUnits + m = (credited * BaseUnits + dust) + AmountOf(sig)
    <3>1. (credited + q) * BaseUnits = credited * BaseUnits + q * BaseUnits
      BY <2>3
    <3>2. credited * BaseUnits \in Int /\ q * BaseUnits \in Int
      BY <2>3
    <3>3. q * BaseUnits + m = dust + AmountOf(sig)
      BY <2>6
    <3> HIDE DEF sig, total
    <3>. QED
      BY <1>6, <2>3, <3>1, <3>2, <3>3
  <2>9. credited' * BaseUnits + dust' = SumOf(PaidBy', receipts')
    BY <1>8, <2>1, <2>3, <2>4, <2>7, <2>8
  <2>10. DepositsAddUp'
    BY <2>9 DEF DepositsAddUp, PaidBy
  <2>11. IsFiniteSet(UnitsOf(PaidBy, receipts))'
    BY <1>8, <2>1, <2>4
  <2>12. \A s \in receipts' : s \in Signatures /\ s[2] <= height'[s[1]]
    BY <1>2, <1>6, <1>8 DEF DepositsInv
  <2>13. credited' \in Nat /\ dust' \in 0..(BaseUnits - 1)
    BY <2>3, <2>7
  <2>14. \A a \in TokenAccounts : height'[a] <= MaxHistory
    BY <1>2 DEF DepositsInv
  <2>. QED
    BY <1>4, <1>5, <2>10, <2>11, <2>12, <2>13, <2>14 DEF DepositsInv
<1>. QED
  BY <1>7, <1>8 DEF CreditDirectDeposit

LEMMA DepositsStep == DepositsInv /\ [DepositNext]_depositVars => DepositsInv'
<1> SUFFICES ASSUME DepositsInv, [DepositNext]_depositVars PROVE DepositsInv'
  OBVIOUS
<1>1. CASE UNCHANGED depositVars
  <2>1. UNCHANGED <<history, height, receipts, credited, dust>> /\ ScanTyped' /\ scan' = scan
    BY <1>1 DEF depositVars, DepositsInv, ScanTyped
  <2>. QED
    BY <2>1, WalkingKeepsSums DEF DepositsInv
<1>2. CASE DepositNext
  BY <1>2, FinalizeKeeps, BeginKeeps, LoadKeeps, CreditKeeps, LeavingKeeps DEF DepositNext, DepositWork, ScanStep
<1>. QED
  BY <1>1, <1>2

\* The credited cents and the remainder are exactly what the receipted transactions paid,
\* however much is paid between two scans and however often a scan fails or is repeated:
\* no payment is credited twice, and no fraction of a cent is lost
\* (creditDirectDeposit, convertDepositToBillingMinor).
THEOREM DepositsAreCreditedOnce == DepositSpec => []DepositsAddUp
<1>1. DepositsInv => DepositsAddUp
  BY DEF DepositsInv
<1>. QED
  BY <1>1, DepositsInitially, DepositsStep, PTL DEF DepositSpec

\* Every payment a cursor has passed is credited, once and in full, as long as no more
\* than Cap payments become final between two saved cursors.
THEOREM DepositsExact == MaxBurst <= Cap /\ DepositSpec => []DepositsAreExact
<1>1. DepositsAddUp /\ NothingSkipped => DepositsAreExact
  BY DEF DepositsAreExact
<1>. QED
  BY <1>1, DepositsAreCreditedOnce, DepositsNothingSkipped, PTL

------------------------------------------------------------------------------
\* No cursor, saved or about to be, is ahead of the chain; whatever MaxBurst is.
CursorsReached ==
    /\ \A a \in TokenAccounts : cursorRow.latest[a] <= height[a]
    /\ scan # NoScan => \A a \in TokenAccounts : scan.row.latest[a] <= height[a]

\* The chain grows and cursors go no further than what a scan has walked.
LEMMA CursorsAfter ==
    ASSUME DepositsInv, CursorsReached, [DepositNext]_depositVars
    PROVE  CursorsReached'
<1>1. /\ cursorRow \in CursorRows /\ height \in [TokenAccounts -> Nat]
      /\ scan # NoScan => scan.row \in CursorRows
  BY ScanShapes DEF DepositsInv, ScanTyped
<1>2. CASE \E a \in TokenAccounts, paid \in Deposits : Finalize(a, paid)
  <2>1. PICK a \in TokenAccounts : height' = [height EXCEPT ![a] = @ + 1]
                                   /\ scan' = scan /\ cursorRow' = cursorRow
    BY <1>2 DEF Finalize
  <2>2. ASSUME NEW b \in TokenAccounts, NEW n \in Nat, n <= height[b] PROVE n <= height'[b]
    BY <1>1, <2>1, <2>2
  <2>3. ASSUME NEW b \in TokenAccounts PROVE cursorRow.latest[b] <= height'[b]
    BY <1>1, <2>2 DEF CursorsReached, CursorRows
  <2>4. ASSUME scan # NoScan, NEW b \in TokenAccounts PROVE scan.row.latest[b] <= height'[b]
    BY <1>1, <2>2, <2>4 DEF CursorsReached, CursorRows
  <2>. QED
    BY <2>1, <2>3, <2>4 DEF CursorsReached
<1>3. CASE BeginScan
  <2> DEFINE accounts == IF cursorRow.accounts # {} THEN cursorRow.accounts ELSE opened
             row == [cursorRow EXCEPT !.accounts = accounts]
  <2>1. row.latest = cursorRow.latest
    BY <1>1 DEF CursorRows
  <2>2. scan' = [at |-> "between", todo |-> accounts, row |-> row]
        /\ UNCHANGED <<height, cursorRow>>
    BY <1>3 DEF BeginScan
  <2> HIDE DEF row, accounts
  <2>3. scan'.row = row
    BY <2>2
  <2>. QED
    BY <2>1, <2>2, <2>3 DEF CursorsReached
<1>4. CASE \E a \in TokenAccounts : LoadNewSignatures(a)
  <2>1. scan.at = "between" /\ scan'.row = scan.row /\ UNCHANGED <<height, cursorRow>>
    BY <1>4 DEF LoadNewSignatures
  <2>2. scan # NoScan
    BY <2>1, ScanShapes DEF DepositsInv
  <2>. QED
    BY <2>1, <2>2 DEF CursorsReached
<1>5. CASE CreditDirectDeposit
  <2>1. scan.at = "walking" /\ scan' = [scan EXCEPT !.next = @ + 1] /\ UNCHANGED <<height, cursorRow>>
    BY <1>5 DEF CreditDirectDeposit
  <2>2. scan # NoScan
    BY <2>1, ScanShapes DEF DepositsInv
  <2>3. scan'.row = scan.row
    BY <2>1, <2>2 DEF DepositsInv, ScanTyped, Scans
  <2>. QED
    BY <2>1, <2>2, <2>3 DEF CursorsReached
<1>6. CASE EndAccount
  <2> DEFINE row == [scan.row EXCEPT !.latest[scan.account] = scan.newest]
  <2>1. /\ scan.at = "walking" /\ scan # NoScan /\ scan.row \in CursorRows
        /\ scan.account \in TokenAccounts
    BY <1>6, ScanShapes DEF DepositsInv, EndAccount
  <2>2. row.latest = [scan.row.latest EXCEPT ![scan.account] = scan.newest]
    BY <2>1 DEF CursorRows
  <2>3. scan' = [at |-> "between", todo |-> scan.todo, row |-> row] /\ UNCHANGED <<height, cursorRow>>
    BY <1>6 DEF EndAccount
  <2> HIDE DEF row
  <2>4. scan'.row = row /\ scan.newest <= height[scan.account]
    BY <2>1, <2>3 DEF DepositsInv
  <2>5. ASSUME NEW b \in TokenAccounts PROVE row.latest[b] <= height[b]
    <3>1. scan.row.latest[b] <= height[b]
      BY <2>1 DEF CursorsReached
    <3>2. row.latest[b] = IF b = scan.account THEN scan.newest ELSE scan.row.latest[b]
      BY <2>1, <2>2 DEF CursorRows
    <3>. QED
      BY <2>4, <3>1, <3>2
  <2>. QED
    BY <2>3, <2>4, <2>5 DEF CursorsReached
<1>7. CASE RecordScanSuccess
  <2>1. scan # NoScan /\ scan' = NoScan /\ cursorRow' = scan.row /\ UNCHANGED height
    BY <1>7, ScanShapes DEF DepositsInv, RecordScanSuccess
  <2>. QED
    BY <2>1 DEF CursorsReached
<1>8. CASE ScanFails
  BY <1>8 DEF ScanFails, CursorsReached
<1>9. CASE UNCHANGED depositVars
  BY <1>9 DEF depositVars, CursorsReached
<1>. QED
  BY <1>2, <1>3, <1>4, <1>5, <1>6, <1>7, <1>8, <1>9 DEF DepositNext, DepositWork, ScanStep

\* No saved cursor is ever ahead of what is final on the chain, however much is paid
\* between two scans, and the rows of the scan keep their types
\* (reconcileDirectSolanaDeposits, solana_deposit_scan_cursors).
THEOREM DepositTypes == DepositSpec => []DepositTypeOK
<1>1. DepositInit => CursorsReached
  BY DEF DepositInit, CursorsReached
<1>2. ASSUME DepositsInv, CursorsReached PROVE DepositTypeOK
  <2>1. height \in [TokenAccounts -> 0..MaxHistory]
    BY <1>2, DepositAssumption DEF DepositsInv, ScanTyped, DepositAssumption
  <2>2. \A a \in TokenAccounts : /\ cursorRow.latest[a] \in Nat /\ height[a] \in 0..MaxHistory
                                 /\ cursorRow.latest[a] <= height[a]
    BY <1>2, <2>1 DEF DepositsInv, ScanTyped, CursorRows, CursorsReached
  <2>3. cursorRow.latest \in [TokenAccounts -> 0..MaxHistory]
    <3>1. \A a \in TokenAccounts : cursorRow.latest[a] \in 0..MaxHistory
      BY <2>2, DepositAssumption DEF DepositAssumption
    <3>2. cursorRow.latest \in [TokenAccounts -> Nat]
      BY <1>2 DEF DepositsInv, ScanTyped, CursorRows
    <3>. QED
      BY <3>1, <3>2
  <2>4. history \in [TokenAccounts -> [Places -> Nat]] /\ opened \subseteq TokenAccounts
        /\ cursorRow.accounts \subseteq TokenAccounts
    BY <1>2 DEF DepositsInv, ScanTyped, CursorRows
  <2>5. receipts \subseteq Signatures /\ credited \in Nat /\ dust \in 0..(BaseUnits - 1)
    BY <1>2 DEF DepositsInv
  <2>. QED
    BY <2>1, <2>3, <2>4, <2>5 DEF DepositTypeOK
<1>. QED
  BY <1>1, <1>2, CursorsAfter, DepositsInitially, DepositsStep, PTL DEF DepositSpec

------------------------------------------------------------------------------
(***************************************************************************)
(* Which time of a session is charged.                                     *)
(***************************************************************************)
\* What the sequence operators do to the elements: the rest need not open them.
LEMMA SequenceHas ==
    ASSUME NEW P, NEW s \in Seq(P)
    PROVE  /\ Len(s) \in Nat /\ DOMAIN s = 1..Len(s)
           /\ \A i \in DOMAIN s : s[i] \in P
  OBVIOUS

LEMMA AppendIs ==
    ASSUME NEW P, NEW s \in Seq(P), NEW e \in P
    PROVE  /\ Append(s, e) \in Seq(P) /\ Len(Append(s, e)) = Len(s) + 1
           /\ DOMAIN Append(s, e) = 1..(Len(s) + 1)
           /\ Append(s, e)[Len(s) + 1] = e
           /\ \A i \in 1..Len(s) : Append(s, e)[i] = s[i]
  OBVIOUS

LEMMA ReplaceIs ==
    ASSUME NEW P, NEW s \in Seq(P), NEW k \in DOMAIN s, NEW e \in P
    PROVE  LET r == [s EXCEPT ![k] = e]
           IN  /\ r \in Seq(P) /\ Len(r) = Len(s) /\ r[k] = e
               /\ \A i \in DOMAIN s : i # k => r[i] = s[i]
  OBVIOUS

LEMMA TailIs ==
    ASSUME NEW P, NEW s \in Seq(P), s # <<>>
    PROVE  /\ Tail(s) \in Seq(P) /\ Len(s) > 0 /\ Len(Tail(s)) = Len(s) - 1
           /\ DOMAIN Tail(s) = 1..(Len(s) - 1)
           /\ \A i \in 1..(Len(s) - 1) : Tail(s)[i] = s[i + 1]
           /\ Head(s) = s[1]
  OBVIOUS

LEMMA SequenceFrom ==
    ASSUME NEW P, NEW n \in Nat, NEW s \in [1..n -> P]
    PROVE  s \in Seq(P) /\ Len(s) = n
  OBVIOUS

LEMMA MaxOfThree ==
    ASSUME NEW i \in Int, NEW j \in Int, NEW k \in Int
    PROVE  /\ Max({i, j, k}) \in {i, j, k}
           /\ i <= Max({i, j, k}) /\ j <= Max({i, j, k}) /\ k <= Max({i, j, k})
<1>1. \E x \in {i, j, k} : \A y \in {i, j, k} : x >= y
  OBVIOUS
<1>. QED
  BY <1>1 DEF Max

LEMMA MinOfThree ==
    ASSUME NEW i \in Int, NEW j \in Int, NEW k \in Int
    PROVE  /\ Min({i, j, k}) \in {i, j, k}
           /\ Min({i, j, k}) <= i /\ Min({i, j, k}) <= j /\ Min({i, j, k}) <= k
<1>1. \E x \in {i, j, k} : \A y \in {i, j, k} : x <= y
  OBVIOUS
<1>. QED
  BY <1>1 DEF Min

LEMMA LeastNumber ==
    ASSUME NEW T \in SUBSET Nat, T # {}
    PROVE  \E m \in T : \A k \in T : m <= k
<1>1. PICK m \in T : \A k \in T : <<k, m>> \notin OpToRel(<, Nat)
  BY WFMin, NatLessThanWellFounded, Zenon
<1>2. \A k \in T : ~(k < m)
  BY <1>1, Zenon DEF OpToRel
<1>. QED
  BY <1>2

LEMMA GreatestNumber ==
    ASSUME NEW n \in Nat, NEW S \in SUBSET (0..n), S # {}
    PROVE  Max(S) \in S /\ \A y \in S : y <= Max(S)
<1> DEFINE T == {n - y : y \in S}
<1>1. T \in SUBSET Nat /\ T # {}
  <2>1. \A y \in S : y \in Int /\ 0 <= y /\ y <= n
    OBVIOUS
  <2>2. \A y \in S : n - y \in Nat
    BY <2>1
  <2>. QED
    BY <2>2
<1>2. PICK m \in T : \A k \in T : m <= k
  BY <1>1, LeastNumber
<1>3. PICK x \in S : m = n - x
  BY <1>2
<1>4. \A y \in S : n - y \in T
  OBVIOUS
<1>5. \A y \in S : x >= y
  <2>1. SUFFICES ASSUME NEW y \in S PROVE x >= y
    OBVIOUS
  <2>2. m <= n - y
    BY <1>2, <1>4
  <2>. QED
    BY <1>3, <2>2
<1>6. Max(S) \in S /\ \A y \in S : Max(S) >= y
  BY <1>5 DEF Max
<1>. QED
  BY <1>6

\* Moment t belongs to the i-th period; a window lies within it.
During(t, i) == assignments[i].from <= t /\ t < End(assignments[i].to)
Within(w, i) ==
    /\ assignments[i].plan = w.plan
    /\ assignments[i].from <= w.from
    /\ w.to <= End(assignments[i].to)

\* A plan's stretch of time, which ends in Never while the plan is the current one.
Period == [plan : Plans, from : 0..MaxTime, to : -1..MaxTime]

\* The periods of the plans follow each other, and every moment is in one.
PeriodsInv ==
    /\ clock \in 0..MaxTime
    /\ appliedAt \in -1..MaxTime /\ appliedAt <= clock
    /\ revokedAt \in -1..MaxTime
    /\ assignments \in Seq(Period)
    /\ Len(assignments) > 0 /\ assignments[Len(assignments)].to = Never
    /\ \A i \in DOMAIN assignments : assignments[i].from <= clock
    /\ \A i, j \in DOMAIN assignments :
           i < j => End(assignments[i].to) <= assignments[j].from
    /\ \A t \in 0..MaxTime : \E i \in DOMAIN assignments : During(t, i)

Charged == ratings \cup {batch[k] : k \in DOMAIN batch}
Meet(v, w) == v.from < w.to /\ w.from < v.to

\* What is charged, or about to be: windows of the past, each of one period, apart.
ChargedInv ==
    /\ ratings \subseteq Window
    /\ batch \in Seq(Window)
    /\ \A w \in Charged : /\ w.from < w.to /\ w.to <= clock
                          /\ \E i \in DOMAIN assignments : Within(w, i)
    /\ \A v, w \in Charged : v # w => ~Meet(v, w)

In(t, w) == w.from <= t /\ t < w.to

\* What a plan's rated windows have passed is charged, and what the windows of a batch
\* pass is charged once the batch has come to them.
CoveredInv ==
    revokedAt = Never =>
        \A i \in DOMAIN assignments, t \in 0..MaxTime :
            During(t, i) /\ appliedAt <= t =>
                /\ \A r \in ratings : r.plan = assignments[i].plan /\ t < r.to =>
                       \E w \in ratings : In(t, w)
                /\ \A k \in DOMAIN batch : batch[k].plan = assignments[i].plan /\ t < batch[k].to =>
                       \/ \E w \in ratings : In(t, w)
                       \/ \E m \in 1..k : In(t, batch[m])

RatingInv == PeriodsInv /\ ChargedInv /\ CoveredInv

LEMMA PeriodsTyped ==
    ASSUME RatingInv
    PROVE  \A i \in DOMAIN assignments :
               assignments[i] \in Period
<1>1. assignments \in Seq(Period)
  BY DEF RatingInv, PeriodsInv
<1>. QED
  BY <1>1, SequenceHas

LEMMA PeriodEnds ==
    ASSUME RatingInv, NEW i \in DOMAIN assignments
    PROVE  assignments[i].from \in Int /\ End(assignments[i].to) \in Int
<1>1. assignments[i] \in Period
  BY PeriodsTyped
<1>2. assignments[i].from \in Int /\ assignments[i].to \in Int /\ MaxTime \in Int
  BY <1>1, RatingAssumption DEF Period, RatingAssumption
<1>. QED
  BY <1>2 DEF End, Forever

LEMMA RatedUntilIs ==
    ASSUME RatingInv, NEW plan
    PROVE  /\ RatedUntil(plan) \in 0..clock
           /\ \A r \in ratings : r.plan = plan => r.to <= RatedUntil(plan)
           /\ \/ RatedUntil(plan) = 0
              \/ \E r \in ratings : r.plan = plan /\ r.to = RatedUntil(plan)
<1> DEFINE S == {0} \cup {r.to : r \in {w \in ratings : w.plan = plan}}
<1>1. S \in SUBSET (0..clock) /\ S # {} /\ clock \in Nat
  <2>1. clock \in Nat
    BY RatingAssumption DEF RatingInv, PeriodsInv, RatingAssumption
  <2>2. ASSUME NEW r \in ratings PROVE r.to \in 0..clock
    <3>1. r \in Window /\ r \in Charged
      BY DEF RatingInv, ChargedInv, Charged
    <3>2. r.to \in 0..MaxTime /\ r.to <= clock
      BY <3>1 DEF RatingInv, ChargedInv, Window
    <3>. QED
      BY <2>1, <3>2, RatingAssumption DEF RatingAssumption
  <2>. QED
    BY <2>1, <2>2
<1>2. Max(S) \in S /\ \A y \in S : y <= Max(S)
  <2> HIDE DEF S
  <2>. QED
    BY <1>1, GreatestNumber
<1>3. RatedUntil(plan) = Max(S)
  BY DEF RatedUntil
<1>. QED
  BY <1>1, <1>2, <1>3

\* The window that a listing makes of a period.
LEMMA WindowIs ==
    ASSUME RatingInv, NEW i \in DOMAIN assignments, NEW cutoff \in 0..clock, appliedAt # Never
    PROVE  LET w == WindowOf(assignments[i], cutoff)
           IN  /\ w \in Window /\ w.plan = assignments[i].plan
               /\ assignments[i].from <= w.from /\ appliedAt <= w.from
               /\ RatedUntil(assignments[i].plan) <= w.from
               /\ w.from \in {assignments[i].from, appliedAt, RatedUntil(assignments[i].plan)}
               /\ w.to <= cutoff /\ w.to <= End(assignments[i].to)
               /\ w.to \in {cutoff, End(assignments[i].to), End(revokedAt)}
<1> DEFINE a == assignments[i]
           w == WindowOf(a, cutoff)
           u == RatedUntil(a.plan)
           e == End(a.to)
           v == End(revokedAt)
<1>1. /\ a.plan \in Plans /\ a.from \in 0..MaxTime /\ a.from <= clock /\ a.to \in -1..MaxTime
      /\ clock \in 0..MaxTime /\ appliedAt \in 0..MaxTime /\ appliedAt <= clock
      /\ revokedAt \in -1..MaxTime
  <2>1. a \in Period /\ a.from <= clock
    BY PeriodsTyped DEF RatingInv, PeriodsInv
  <2>2. clock \in 0..MaxTime /\ appliedAt \in -1..MaxTime /\ appliedAt <= clock /\ revokedAt \in -1..MaxTime
    BY DEF RatingInv, PeriodsInv
  <2>3. appliedAt \in 0..MaxTime
    BY <2>2, RatingAssumption DEF Never, RatingAssumption
  <2>. QED
    BY <2>1, <2>2, <2>3 DEF Period
<1>2. u \in 0..clock
  BY RatedUntilIs
<1>3. e \in 0..(MaxTime + 1) /\ v \in 0..(MaxTime + 1)
  BY <1>1, RatingAssumption DEF End, Never, Forever, RatingAssumption
<1>4. /\ w.plan = a.plan /\ w.from = Max({a.from, appliedAt, u}) /\ w.to = Min({cutoff, e, v})
      /\ w = [plan |-> w.plan, from |-> w.from, to |-> w.to]
  BY DEF WindowOf
<1> HIDE DEF a, w, u, e, v
<1>5. /\ w.from \in {a.from, appliedAt, u} /\ a.from <= w.from /\ appliedAt <= w.from /\ u <= w.from
  BY <1>1, <1>2, <1>4, MaxOfThree
<1>6. /\ w.to \in {cutoff, e, v} /\ w.to <= cutoff /\ w.to <= e
  BY <1>1, <1>3, <1>4, MinOfThree
<1>7. w.from \in 0..MaxTime /\ w.to \in 0..MaxTime
  <2>1. MaxTime \in Nat /\ cutoff \in 0..MaxTime /\ u \in 0..MaxTime
    BY <1>1, <1>2, RatingAssumption DEF RatingAssumption
  <2>2. w.from \in 0..MaxTime
    BY <1>1, <1>5, <2>1
  <2>3. w.to \in Int /\ 0 <= w.to
    BY <1>3, <1>6, <2>1
  <2>. QED
    BY <1>6, <2>1, <2>2, <2>3
<1>8. w \in Window
  BY <1>1, <1>4, <1>7 DEF Window
<1>. QED
  BY <1>4, <1>5, <1>6, <1>8 DEF a, w, u, e, v

LEMMA RatingInitially == RatingInit => RatingInv
<1> SUFFICES ASSUME RatingInit PROVE RatingInv
  OBVIOUS
<1>1. PICK plan \in Plans : assignments = <<[plan |-> plan, from |-> 0, to |-> Never]>>
  BY DEF RatingInit
<1>2. clock = 0 /\ appliedAt = Never /\ revokedAt = Never /\ ratings = {} /\ batch = <<>>
  BY DEF RatingInit
<1>3. /\ Len(assignments) = 1 /\ DOMAIN assignments = {1}
      /\ assignments[1] = [plan |-> plan, from |-> 0, to |-> Never]
  BY <1>1
<1>4. assignments \in Seq(Period)
  <2>1. [plan |-> plan, from |-> 0, to |-> Never] \in Period
    BY RatingAssumption DEF Never, RatingAssumption, Period
  <2>. QED
    BY <1>1, <2>1
<1>5. \A t \in 0..MaxTime : During(t, 1)
  BY <1>3, RatingAssumption DEF During, End, Forever, RatingAssumption
<1>6. PeriodsInv
  BY <1>2, <1>3, <1>4, <1>5, RatingAssumption DEF PeriodsInv, Never, RatingAssumption
<1>7. ChargedInv /\ CoveredInv
  BY <1>2 DEF ChargedInv, CoveredInv, Charged
<1>. QED
  BY <1>6, <1>7 DEF RatingInv

\* Reports and time move no period and no window.
LEMMA ReportsKeepRates ==
    ASSUME RatingInv, UNCHANGED <<assignments, ratings, batch>>,
           clock' \in 0..MaxTime, clock <= clock',
           \/ UNCHANGED <<appliedAt, revokedAt>>
           \/ appliedAt' = clock /\ UNCHANGED revokedAt
           \/ revokedAt' = clock /\ UNCHANGED appliedAt
    PROVE  RatingInv'
<1>0. /\ clock \in 0..MaxTime /\ clock' \in Int /\ clock \in Int
      /\ appliedAt \in -1..MaxTime /\ appliedAt <= clock /\ revokedAt \in -1..MaxTime
  BY RatingAssumption DEF RatingInv, PeriodsInv, RatingAssumption
<1>1. /\ appliedAt' \in -1..MaxTime /\ appliedAt' <= clock' /\ revokedAt' \in -1..MaxTime
  BY <1>0, RatingAssumption DEF RatingAssumption
<1>2. ASSUME NEW i \in DOMAIN assignments
      PROVE  assignments[i].from \in Int /\ assignments[i].from <= clock'
  <2>1. assignments[i].from <= clock
    BY DEF RatingInv, PeriodsInv
  <2>2. assignments[i].from \in Int
    BY PeriodsTyped DEF Period
  <2>. QED
    BY <1>0, <2>1, <2>2
<1>3. PeriodsInv'
  BY <1>1, <1>2 DEF RatingInv, PeriodsInv, During
<1>4. ASSUME NEW w \in Charged PROVE w \in Window /\ w.to \in Int /\ w.to <= clock /\ w.to <= clock'
  <2>1. w \in Window
    BY DEF RatingInv, ChargedInv, Charged
  <2>2. w.to <= clock
    BY DEF RatingInv, ChargedInv
  <2>. QED
    BY <1>0, <2>1, <2>2 DEF Window
<1>5. Charged' = Charged
  BY DEF Charged
<1>6. ChargedInv'
  BY <1>4, <1>5 DEF RatingInv, ChargedInv, Within
<1>7. CoveredInv'
  <2>1. CASE UNCHANGED <<appliedAt, revokedAt>>
    BY <2>1 DEF RatingInv, CoveredInv, During
  <2>2. CASE appliedAt' = clock
    <3>1. ASSUME NEW t \in 0..MaxTime, appliedAt' <= t, NEW w \in Charged PROVE ~(t < w.to)
      BY <1>0, <1>4, <2>2, <3>1
    <3>2. \A r \in ratings : r \in Charged
      BY DEF Charged
    <3>3. \A k \in DOMAIN batch : batch[k] \in Charged
      BY DEF Charged
    <3>. QED
      BY <3>1, <3>2, <3>3 DEF CoveredInv
  <2>3. CASE revokedAt' = clock
    <3>1. revokedAt' # Never
      BY <1>0, <2>3 DEF Never
    <3>. QED
      BY <3>1 DEF CoveredInv
  <2>. QED
    BY <2>1, <2>2, <2>3
<1>. QED
  BY <1>3, <1>6, <1>7 DEF RatingInv

LEMMA PlanChangeKeepsRates ==
    ASSUME RatingInv, NEW plan \in Plans, assignBillingPlan(plan)
    PROVE  RatingInv'
<1> DEFINE new == [plan |-> plan, from |-> clock, to |-> Never]
           last == [assignments[Len(assignments)] EXCEPT !.to = clock]
           cut == [assignments EXCEPT ![Len(assignments)] = last]
<1>0. /\ assignments \in Seq(Period) /\ assignments[Len(assignments)].to = Never
      /\ Len(assignments) > 0 /\ clock \in 0..MaxTime /\ MaxTime \in Nat
  BY RatingAssumption DEF RatingInv, PeriodsInv, RatingAssumption
<1>2. /\ assignments' = Append(cut, new)
      /\ UNCHANGED <<clock, appliedAt, revokedAt, ratings, batch>>
  BY DEF assignBillingPlan
<1>3. last \in Period /\ new \in Period /\ Len(assignments) \in DOMAIN assignments
  <2>1. Len(assignments) \in DOMAIN assignments /\ assignments[Len(assignments)] \in Period
    BY <1>0, SequenceHas
  <2>2. clock \in -1..MaxTime /\ Never \in -1..MaxTime
    BY <1>0 DEF Never
  <2>. QED
    BY <1>0, <2>1, <2>2 DEF Period
<1>4. /\ cut \in Seq(Period) /\ Len(cut) = Len(assignments) /\ cut[Len(assignments)] = last
      /\ \A i \in DOMAIN assignments : i # Len(assignments) => cut[i] = assignments[i]
  <2> HIDE DEF last
  <2>. QED
    BY <1>0, <1>3, ReplaceIs
<1>5. PICK n \in Nat : n = Len(assignments)
  BY <1>0, SequenceHas
<1>1. /\ n > 0 /\ DOMAIN assignments = 1..n /\ assignments[n].to = Never
      /\ clock \in 0..MaxTime /\ clock \in Nat /\ MaxTime \in Nat
      /\ assignments' \in Seq(Period) /\ Len(assignments') = n + 1
      /\ DOMAIN assignments' = 1..(n + 1)
      /\ assignments'[n + 1] = new
      /\ \A i \in 1..n : assignments'[i] = cut[i]
  <2> HIDE DEF cut, new
  <2>. QED
    BY <1>0, <1>2, <1>3, <1>4, <1>5, SequenceHas, AppendIs
<1>6. /\ \A i \in 1..n : i # n => assignments'[i] = assignments[i]
      /\ assignments'[n].plan = assignments[n].plan /\ assignments'[n].from = assignments[n].from
      /\ assignments'[n].to = clock
      /\ assignments'[n + 1].plan = plan /\ assignments'[n + 1].from = clock
      /\ assignments'[n + 1].to = Never
  <2>1. assignments[n] \in Period
    <3>1. n \in DOMAIN assignments
      BY <1>1
    <3>. QED
      BY <3>1, PeriodsTyped
  <2>3. assignments'[n] = last
    <3> HIDE DEF cut, new, last
    <3>1. n \in 1..n /\ assignments'[n] = cut[n]
      BY <1>1
    <3>. QED
      BY <3>1, <1>4, <1>5
  <2>2. last.to = clock /\ last.plan = assignments[n].plan /\ last.from = assignments[n].from
    BY <1>5, <2>1 DEF Period
  <2>4. ASSUME NEW i \in 1..n, i # n PROVE assignments'[i] = assignments[i]
    <3> HIDE DEF cut, new, last
    <3>. QED
      BY <1>1, <1>4, <1>5, <2>4
  <2>5. /\ assignments'[n + 1].plan = plan /\ assignments'[n + 1].from = clock
        /\ assignments'[n + 1].to = Never
    BY <1>1
  <2>. QED
    <3> HIDE DEF cut, new, last
    <3>. QED
      BY <2>2, <2>3, <2>4, <2>5
<1> HIDE DEF cut, new, last
<1>7. /\ \A i \in 1..n : assignments'[i].plan = assignments[i].plan
      /\ \A i \in 1..n : assignments'[i].from = assignments[i].from
      /\ \A i \in 1..n : i # n => End(assignments'[i].to) = End(assignments[i].to)
      /\ End(assignments[n].to) = MaxTime + 1 /\ End(assignments'[n].to) = clock
      /\ End(assignments'[n + 1].to) = MaxTime + 1
  BY <1>1, <1>6 DEF End, Forever, Never
<1>8. ASSUME NEW i \in 1..n
      PROVE  /\ assignments[i].from \in 0..MaxTime /\ assignments[i].from <= clock
             /\ End(assignments[i].to) \in Int
  <2>1. assignments[i] \in Period /\ assignments[i].from <= clock
    BY <1>1, PeriodsTyped DEF RatingInv, PeriodsInv
  <2>2. assignments[i].from \in 0..MaxTime /\ assignments[i].to \in Int
    BY <1>1, <2>1 DEF Period
  <2>. QED
    BY <1>1, <2>1, <2>2 DEF End, Forever
<1>9. ASSUME NEW i \in 1..n, i # n PROVE End(assignments[i].to) <= clock
  <2>1. i < n /\ n \in 1..n /\ i \in DOMAIN assignments /\ n \in DOMAIN assignments
    BY <1>1, <1>9
  <2>2. End(assignments[i].to) <= assignments[n].from
    BY <2>1 DEF RatingInv, PeriodsInv
  <2>. QED
    BY <1>1, <1>8, <2>1, <2>2
\* A moment before the change is in the period it was in.
<1>10. ASSUME NEW t \in 0..MaxTime, NEW i \in 1..n
       PROVE  During(t, i)' <=> During(t, i) /\ t < clock
  <2>1. CASE i = n
    BY <1>1, <1>7, <2>1 DEF During
  <2>2. CASE i # n
    BY <1>1, <1>7, <1>8, <1>9, <2>2 DEF During
  <2>. QED
    BY <2>1, <2>2
<1>11. ASSUME NEW t \in 0..MaxTime PROVE During(t, n + 1)' <=> clock <= t
  BY <1>1, <1>6, <1>7 DEF During
<1>12. \A t \in 0..MaxTime : \E i \in 1..(n + 1) : During(t, i)'
  <2>1. SUFFICES ASSUME NEW t \in 0..MaxTime PROVE \E i \in 1..(n + 1) : During(t, i)'
    OBVIOUS
  <2>2. CASE t < clock
    <3>1. PICK i \in 1..n : During(t, i)
      BY <1>1 DEF RatingInv, PeriodsInv
    <3>2. i \in 1..(n + 1) /\ During(t, i)'
      BY <1>1, <1>10, <2>2, <3>1
    <3>. QED
      BY <3>2
  <2>3. CASE ~(t < clock)
    <3>1. During(t, n + 1)' /\ n + 1 \in 1..(n + 1)
      BY <1>1, <1>11, <2>3
    <3>. QED
      BY <3>1
  <2>. QED
    BY <2>2, <2>3
<1>13. ASSUME NEW i \in 1..(n + 1), NEW j \in 1..(n + 1), i < j
       PROVE  End(assignments'[i].to) <= assignments'[j].from
  <2>1. i \in 1..n
    BY <1>1, <1>13
  <2>2. CASE j = n + 1
    BY <1>1, <1>6, <1>7, <1>9, <2>1, <2>2
  <2>3. CASE j # n + 1
    <3>1. j \in 1..n /\ i # n /\ i \in DOMAIN assignments /\ j \in DOMAIN assignments
      BY <1>1, <1>13, <2>1, <2>3
    <3>2. End(assignments[i].to) <= assignments[j].from
      BY <1>13, <3>1 DEF RatingInv, PeriodsInv
    <3>. QED
      BY <1>7, <2>1, <3>1, <3>2
  <2>. QED
    BY <2>2, <2>3
<1>14. PeriodsInv'
  <2>1. ASSUME NEW i \in 1..(n + 1) PROVE assignments'[i].from <= clock
    <3>1. CASE i = n + 1
      BY <1>1, <1>6, <3>1
    <3>2. CASE i # n + 1
      <4>1. i \in 1..n
        BY <1>1, <3>2
      <4>. QED
        BY <1>7, <1>8, <4>1
    <3>. QED
      BY <3>1, <3>2
  <2>2. appliedAt' \in -1..MaxTime /\ appliedAt' <= clock' /\ revokedAt' \in -1..MaxTime /\ clock' = clock
    BY <1>2 DEF RatingInv, PeriodsInv
  <2>. QED
    <3>1. assignments'[Len(assignments')].to = Never /\ Len(assignments') > 0
      BY <1>1, <1>6
    <3>2. assignments' \in Seq(Period)
      BY <1>1
    <3>3. /\ \A i, j \in DOMAIN assignments' : i < j => End(assignments'[i].to) <= assignments'[j].from
          /\ \A t \in 0..MaxTime : \E i \in DOMAIN assignments' : During(t, i)'
      BY <1>1, <1>12, <1>13
    <3>. QED
      BY <1>1, <2>1, <2>2, <3>1, <3>2, <3>3 DEF PeriodsInv
<1>15. ChargedInv'
  <2>1. Charged' = Charged
    BY <1>2 DEF Charged
  <2>2. ASSUME NEW w \in Charged PROVE \E i \in DOMAIN assignments' : Within(w, i)'
    <3>1. PICK i \in 1..n : Within(w, i)
      BY <1>1 DEF RatingInv, ChargedInv
    <3>2. w.to <= clock
      BY DEF RatingInv, ChargedInv
    <3>3. Within(w, i)'
      BY <1>7, <3>1, <3>2 DEF Within
    <3>. QED
      BY <1>1, <1>5, <3>3
  <2>. QED
    BY <1>2, <2>1, <2>2 DEF RatingInv, ChargedInv
<1>16. CoveredInv'
  <2>1. SUFFICES ASSUME revokedAt = Never, NEW i \in 1..(n + 1), NEW t \in 0..MaxTime,
                        During(t, i)', appliedAt <= t
                 PROVE  /\ \A r \in ratings : r.plan = assignments'[i].plan /\ t < r.to =>
                               \E w \in ratings : In(t, w)
                        /\ \A k \in DOMAIN batch :
                               batch[k].plan = assignments'[i].plan /\ t < batch[k].to =>
                                 \/ \E w \in ratings : In(t, w)
                                 \/ \E m \in 1..k : In(t, batch[m])
    BY <1>1, <1>2 DEF CoveredInv
  <2>2. CASE i = n + 1
    <3>1. clock <= t
      BY <1>11, <2>1, <2>2
    <3>2. ASSUME NEW w \in Charged PROVE ~(t < w.to)
      <4>1. w \in Window /\ w.to <= clock
        BY DEF RatingInv, ChargedInv, Charged
      <4>. QED
        BY <1>1, <3>1, <4>1 DEF Window
    <3>3. /\ \A r \in ratings : r \in Charged
          /\ \A k \in DOMAIN batch : batch[k] \in Charged
      BY DEF Charged
    <3>. QED
      BY <3>2, <3>3
  <2>3. CASE i # n + 1
    <3>1. i \in 1..n
      BY <1>1, <2>3
    <3>2. During(t, i) /\ assignments'[i].plan = assignments[i].plan /\ i \in DOMAIN assignments
      BY <1>1, <1>7, <1>10, <2>1, <3>1
    <3>. QED
      BY <2>1, <3>2 DEF RatingInv, CoveredInv
  <2>. QED
    BY <2>2, <2>3
<1>. QED
  BY <1>14, <1>15, <1>16 DEF RatingInv

\* A listing: from here on its windows are in the batch, the earlier ones before.
LEMMA ListingKeepsRates ==
    ASSUME RatingInv, ListCandidates
    PROVE  RatingInv'
<1> DEFINE cutoff == clock - Lag
           W == Candidates(cutoff)
           N == Cardinality(W)
<1>1. /\ ratings \subseteq Window /\ clock \in 0..MaxTime /\ cutoff \in 0..clock
      /\ appliedAt \in -1..MaxTime /\ MaxTime \in Nat /\ clock \in Nat
      /\ assignments \in Seq(Period)
  BY RatingAssumption DEF RatingInv, PeriodsInv, ChargedInv, RatingAssumption, ListCandidates
<1>2. /\ batch = <<>> /\ W # {} /\ batch' \in ByEnd(W)
      /\ UNCHANGED <<clock, appliedAt, revokedAt, assignments, ratings>>
  BY DEF ListCandidates
<1>3. appliedAt # Never
  BY <1>2 DEF Candidates
<1>4. ASSUME NEW w \in W
      PROVE  \E i \in DOMAIN assignments : w = WindowOf(assignments[i], cutoff) /\ w.to > w.from
  BY <1>3 DEF Candidates
<1>5. IsFiniteSet(W) /\ N \in Nat
  <2> DEFINE I == DOMAIN assignments
             f == [i \in I |-> WindowOf(assignments[i], cutoff)]
             R == {f[i] : i \in I}
  <2>1. IsFiniteSet(I)
    BY <1>1, SequenceHas, FS_Interval
  <2>2. f \in Surjection(I, R)
    BY DEF Surjection
  <2>3. W \subseteq R
    BY <1>4
  <2> HIDE DEF f, R, I, W
  <2>4. IsFiniteSet(R)
    BY <2>1, <2>2, FS_Surjection
  <2>. QED
    BY <2>3, <2>4, FS_Subset, FS_CardinalityType
<1>6. ASSUME NEW w \in W
      PROVE  /\ w \in Window /\ w.from < w.to /\ w.to <= clock /\ w.to <= cutoff
             /\ \A r \in ratings : r.plan = w.plan => r.to <= w.from
             /\ appliedAt <= w.from
  <2>1. PICK i \in DOMAIN assignments : w = WindowOf(assignments[i], cutoff) /\ w.to > w.from
    BY <1>4
  <2>2. /\ w \in Window /\ w.plan = assignments[i].plan /\ w.to <= cutoff
        /\ RatedUntil(assignments[i].plan) <= w.from /\ appliedAt <= w.from
    BY <1>1, <1>3, <2>1, WindowIs
  <2>3. ASSUME NEW r \in ratings, r.plan = w.plan PROVE r.to <= w.from
    <3>1. r.to <= RatedUntil(w.plan) /\ RatedUntil(w.plan) \in 0..clock
      BY <2>3, RatedUntilIs
    <3>2. r.to \in Int /\ w.from \in Int
      BY <1>1, <2>2 DEF Window
    <3>. QED
      BY <2>2, <3>1, <3>2
  <2>4. w.from \in Int /\ w.to \in Int
    BY <2>2 DEF Window
  <2>. QED
    BY <1>1, <2>1, <2>2, <2>3, <2>4
<1>7. ASSUME NEW w \in W
      PROVE  \E i \in DOMAIN assignments : Within(w, i) /\ w = WindowOf(assignments[i], cutoff)
  <2>1. PICK i \in DOMAIN assignments : w = WindowOf(assignments[i], cutoff)
    BY <1>4
  <2>2. w.plan = assignments[i].plan /\ assignments[i].from <= w.from /\ w.to <= End(assignments[i].to)
    BY <1>1, <1>3, <2>1, WindowIs
  <2>. QED
    BY <2>1, <2>2 DEF Within
<1>8. /\ batch' \in [1..N -> W] /\ \A w \in W : \E k \in DOMAIN batch' : batch'[k] = w
      /\ \A j, k \in DOMAIN batch' : j < k => batch'[j].to <= batch'[k].to
  BY <1>2 DEF ByEnd
<1> HIDE DEF W, N
<1>9. batch' \in Seq(Window) /\ DOMAIN batch' = 1..N
  <2>1. \A w \in W : w \in Window
    BY <1>6
  <2>2. batch' \in [1..N -> Window]
    BY <1>8, <2>1
  <2>. QED
    BY <1>5, <1>8, <2>2, SequenceFrom
<1>10. Charged' = ratings \cup W /\ ratings \subseteq Charged
  BY <1>2, <1>8 DEF Charged
<1>11. ASSUME NEW i \in DOMAIN assignments, NEW j \in DOMAIN assignments,
              NEW v \in Window, NEW w \in Window, Within(v, i), Within(w, j), i # j
       PROVE  ~Meet(v, w)
  <2>0. i \in Int /\ j \in Int
    BY <1>1, SequenceHas
  <2>1. End(assignments[i].to) \in Int /\ End(assignments[j].to) \in Int
        /\ assignments[i].from \in Int /\ assignments[j].from \in Int
    BY PeriodEnds
  <2>2. /\ v.from \in Int /\ v.to \in Int /\ w.from \in Int /\ w.to \in Int
        /\ assignments[i].from <= v.from /\ v.to <= End(assignments[i].to)
        /\ assignments[j].from <= w.from /\ w.to <= End(assignments[j].to)
    BY <1>11 DEF Window, Within
  <2>3. i < j \/ j < i
    BY <1>11, <2>0
  <2>4. \/ End(assignments[i].to) <= assignments[j].from
        \/ End(assignments[j].to) <= assignments[i].from
    BY <2>3 DEF RatingInv, PeriodsInv
  <2>. QED
    BY <2>1, <2>2, <2>4 DEF Meet
<1>12. ASSUME NEW v \in ratings \cup W, NEW w \in W, v # w PROVE ~Meet(v, w) /\ ~Meet(w, v)
  <2>0. v \in Window /\ w \in Window
    BY <1>1, <1>6
  <2>1. PICK j \in DOMAIN assignments : Within(w, j) /\ w = WindowOf(assignments[j], cutoff)
    BY <1>7
  <2>2. CASE v \in ratings
    <3>1. PICK i \in DOMAIN assignments : Within(v, i)
      BY <1>10, <2>2 DEF RatingInv, ChargedInv
    <3>2. CASE i = j
      <4>1. v.plan = w.plan
        BY <2>1, <3>1, <3>2 DEF Within
      <4>2. v.to <= w.from
        BY <1>6, <2>2, <4>1
      <4>. QED
        BY <2>0, <4>2 DEF Meet, Window
    <3>3. CASE i # j
      BY <1>11, <2>0, <2>1, <3>1, <3>3
    <3>. QED
      BY <3>2, <3>3
  <2>3. CASE v \in W
    <3>1. PICK i \in DOMAIN assignments : Within(v, i) /\ v = WindowOf(assignments[i], cutoff)
      BY <1>7, <2>3
    <3>2. i # j
      BY <1>12, <2>1, <3>1
    <3>. QED
      BY <1>11, <2>0, <2>1, <3>1, <3>2
  <2>. QED
    BY <2>2, <2>3
<1>13. ChargedInv'
  <2>1. ASSUME NEW w \in ratings \cup W
        PROVE  w.from < w.to /\ w.to <= clock /\ \E i \in DOMAIN assignments : Within(w, i)
    BY <1>6, <1>7, <1>10 DEF RatingInv, ChargedInv
  <2>2. ASSUME NEW v \in ratings \cup W, NEW w \in ratings \cup W, v # w PROVE ~Meet(v, w)
    BY <1>10, <1>12, <2>2 DEF RatingInv, ChargedInv
  <2>. QED
    BY <1>1, <1>2, <1>9, <1>10, <2>1, <2>2 DEF ChargedInv, Within
\* What the window of a later period comes after.
<1>14. ASSUME revokedAt = Never, NEW i \in DOMAIN assignments, NEW t \in 0..MaxTime,
              During(t, i), appliedAt <= t, NEW k \in 1..N,
              batch'[k].plan = assignments[i].plan, t < batch'[k].to
       PROVE  (\E w \in ratings : In(t, w)) \/ (\E m \in 1..k : In(t, batch'[m]))
  <2> DEFINE plan == assignments[i].plan
             b == batch'[k]
             x == WindowOf(assignments[i], cutoff)
  <2>1. b \in W /\ b \in Window /\ b.to <= cutoff
    BY <1>6, <1>8, <1>9
  <2>2. CASE t < RatedUntil(plan)
    <3>1. PICK r \in ratings : r.plan = plan /\ r.to = RatedUntil(plan)
      BY <2>2, RatedUntilIs
    <3>2. t < r.to
      BY <2>2, <3>1
    <3>. QED
      BY <1>14, <3>1, <3>2 DEF RatingInv, CoveredInv
  <2>3. CASE ~(t < RatedUntil(plan))
    <3>1. /\ x \in Window /\ x.plan = plan
          /\ x.from \in {assignments[i].from, appliedAt, RatedUntil(plan)}
          /\ x.to <= cutoff /\ x.to <= End(assignments[i].to)
          /\ x.to \in {cutoff, End(assignments[i].to), End(revokedAt)}
      BY <1>1, <1>3, WindowIs
    <3>2. /\ RatedUntil(plan) \in Int /\ assignments[i].from <= t /\ t < End(assignments[i].to)
          /\ b.to \in Int /\ t < b.to /\ cutoff \in Int /\ t \in Int /\ t <= MaxTime
      BY <1>1, <1>14, <2>1, RatedUntilIs DEF During, Window
    <3>3. x.from <= t
      BY <1>14, <2>3, <3>1, <3>2
    <3>4. t < cutoff /\ t < End(revokedAt)
      <4>1. End(revokedAt) = MaxTime + 1
        BY <1>14 DEF End, Forever
      <4>2. MaxTime \in Int
        BY RatingAssumption DEF RatingAssumption
      <4>3. t < cutoff
        <5> HIDE DEF b
        <5>. QED
          BY <2>1, <3>2
      <4>. QED
        BY <3>2, <4>1, <4>2, <4>3
    <3>5. t < x.to
      BY <3>1, <3>2, <3>4
    <3>6. x \in W
      <4>1. x.to > x.from
        <5>1. x.to \in Int /\ x.from \in Int
          BY <3>1 DEF Window
        <5>. QED
          BY <3>2, <3>3, <3>5, <5>1
      <4>2. assignments[i].from < cutoff /\ End(assignments[i].to) > appliedAt
        <5>1. appliedAt \in Int
          BY <1>1
        <5>2. assignments[i].from \in Int /\ End(assignments[i].to) \in Int
          BY PeriodEnds
        <5>. QED
          BY <1>14, <3>2, <3>4, <5>1, <5>2
      <4> HIDE DEF x
      <4>3. x = WindowOf(assignments[i], cutoff)
        BY DEF x
      <4>. QED
        BY <1>3, <1>14, <4>1, <4>2, <4>3 DEF W, Candidates
    <3>7. PICK m \in 1..N : batch'[m] = x
      <4> HIDE DEF x
      <4>. QED
        BY <1>8, <1>9, <3>6
    <3>8. PICK j \in DOMAIN assignments : Within(b, j) /\ b = WindowOf(assignments[j], cutoff)
      <4> HIDE DEF b
      <4>. QED
        BY <1>7, <2>1
    <3>9. k \in Int /\ m \in Int /\ 1 <= k /\ 1 <= m /\ k \in DOMAIN batch' /\ m \in DOMAIN batch'
      <4> HIDE DEF x, b
      <4>. QED
        BY <1>5, <1>9
    <3>10. CASE j = i
      <4>1. b = x
        BY <3>8, <3>10
      <4>2. k \in 1..k
        BY <3>9
      <4>3. In(t, b)
        <5> HIDE DEF x, b
        <5>. QED
          BY <3>3, <3>5, <4>1 DEF In
      <4>. QED
        BY <4>2, <4>3
    <3>11. CASE j # i
      <4>0. i \in Int /\ j \in Int /\ x.to \in Int /\ b.from \in Int /\ b.from < b.to
        <5>1. DOMAIN assignments \subseteq Int
          BY <1>1, SequenceHas
        <5>2. i \in Int /\ j \in Int
          BY <5>1
        <5>3. x.to \in Int
          BY <3>1 DEF Window
        <5>4. b.from \in Int /\ b.from < b.to
          BY <1>6, <2>1 DEF Window
        <5>. QED
          BY <5>2, <5>3, <5>4
      <4>2. /\ End(assignments[i].to) \in Int /\ End(assignments[j].to) \in Int
            /\ assignments[i].from \in Int /\ assignments[j].from \in Int
        BY PeriodEnds
      <4>3. /\ assignments[j].from <= b.from /\ b.to <= End(assignments[j].to)
        BY <3>8 DEF Within
      <4>4. ~(j < i)
        <5>1. SUFFICES ASSUME j < i PROVE FALSE
          OBVIOUS
        <5>2. End(assignments[j].to) <= assignments[i].from
          BY <5>1 DEF RatingInv, PeriodsInv
        <5>. QED
          BY <3>2, <4>2, <4>3, <5>2
      <4>5. i < j
        BY <3>11, <4>0, <4>4
      <4>6. End(assignments[i].to) <= assignments[j].from
        BY <4>5 DEF RatingInv, PeriodsInv
      <4>7. x.to < b.to
        <5> HIDE DEF b, x
        <5>. QED
          BY <3>1, <3>2, <4>0, <4>2, <4>3, <4>6
      <4>8. ~(k < m)
        <5>1. SUFFICES ASSUME k < m PROVE FALSE
          OBVIOUS
        <5>2. b.to <= x.to
          BY <1>8, <3>7, <3>9, <5>1
        <5> HIDE DEF b, x
        <5>. QED
          BY <3>2, <4>0, <4>7, <5>2
      <4>9. m \in 1..k /\ In(t, batch'[m])
        <5> HIDE DEF b, x
        <5>1. In(t, batch'[m])
          BY <3>3, <3>5, <3>7 DEF In
        <5>2. m \in 1..k
          BY <3>9, <4>8
        <5>. QED
          BY <5>1, <5>2
      <4>. QED
        BY <4>9
    <3>. QED
      BY <3>10, <3>11
  <2>. QED
    BY <2>2, <2>3
<1>15. CoveredInv'
  <2>1. SUFFICES ASSUME revokedAt = Never, NEW i \in DOMAIN assignments, NEW t \in 0..MaxTime,
                        During(t, i), appliedAt <= t
                 PROVE  /\ \A r \in ratings : r.plan = assignments[i].plan /\ t < r.to =>
                               \E w \in ratings : In(t, w)
                        /\ \A k \in DOMAIN batch' :
                               batch'[k].plan = assignments[i].plan /\ t < batch'[k].to =>
                                 \/ \E w \in ratings : In(t, w)
                                 \/ \E m \in 1..k : In(t, batch'[m])
    BY <1>2 DEF CoveredInv, During, In
  <2>2. \A r \in ratings : r.plan = assignments[i].plan /\ t < r.to => \E w \in ratings : In(t, w)
    BY <2>1 DEF RatingInv, CoveredInv
  <2>. QED
    BY <1>9, <1>14, <2>1, <2>2
<1>16. PeriodsInv'
  BY <1>2 DEF RatingInv, PeriodsInv, During
<1>. QED
  BY <1>13, <1>15, <1>16 DEF RatingInv

\* A rated window is charged, and no other window of the table has its ends.
LEMMA InsertionKeepsRates ==
    ASSUME RatingInv, insertRetailUsageRating
    PROVE  RatingInv'
<1> DEFINE w == batch[1]
<1>1. /\ batch # <<>> /\ batch' = Tail(batch) /\ batch \in Seq(Window) /\ ratings \subseteq Window
      /\ UNCHANGED <<clock, appliedAt, revokedAt, assignments>>
  BY DEF insertRetailUsageRating, RatingInv, ChargedInv
<1>2. /\ Len(batch) \in Nat /\ Len(batch) > 0 /\ DOMAIN batch = 1..Len(batch)
      /\ batch' \in Seq(Window) /\ DOMAIN batch' = 1..(Len(batch) - 1)
      /\ \A k \in 1..(Len(batch) - 1) : batch'[k] = batch[k + 1]
      /\ Head(batch) = w
  BY <1>1, SequenceHas, TailIs
<1>3. 1 \in DOMAIN batch /\ w \in Window /\ w \in Charged
  <2>1. 1 \in DOMAIN batch
    BY <1>2
  <2>. QED
    BY <1>1, <2>1, SequenceHas DEF Charged
<1> HIDE DEF w
<1>4. ASSUME NEW r \in ratings, r.from = w.from, r.to = w.to PROVE r = w
  <2>1. r \in Charged /\ w.from < w.to
    BY <1>3 DEF Charged, RatingInv, ChargedInv
  <2>2. Meet(r, w)
    BY <1>4, <2>1 DEF Meet
  <2>. QED
    BY <1>3, <2>1, <2>2 DEF RatingInv, ChargedInv
<1>5. ratings' = ratings \cup {w}
  <2>1. CASE \E r \in ratings : r.from = w.from /\ r.to = w.to
    <3>1. w \in ratings
      BY <1>4, <2>1
    <3>. QED
      BY <1>2, <2>1, <3>1 DEF insertRetailUsageRating
  <2>2. CASE ~\E r \in ratings : r.from = w.from /\ r.to = w.to
    BY <1>2, <2>2 DEF insertRetailUsageRating
  <2>. QED
    BY <2>1, <2>2
<1>6. Charged' \subseteq Charged
  <2>1. \A k \in DOMAIN batch' : k + 1 \in DOMAIN batch /\ batch'[k] = batch[k + 1]
    BY <1>2
  <2>. QED
    BY <1>3, <1>5, <2>1 DEF Charged
<1>7. PeriodsInv'
  BY <1>1 DEF RatingInv, PeriodsInv, During
<1>8. ChargedInv'
  BY <1>1, <1>2, <1>3, <1>5, <1>6 DEF RatingInv, ChargedInv, Within
<1>9. CoveredInv'
  <2>1. SUFFICES ASSUME revokedAt = Never, NEW i \in DOMAIN assignments, NEW t \in 0..MaxTime,
                        During(t, i), appliedAt <= t
                 PROVE  /\ \A r \in ratings' : r.plan = assignments[i].plan /\ t < r.to =>
                               \E v \in ratings' : In(t, v)
                        /\ \A k \in DOMAIN batch' :
                               batch'[k].plan = assignments[i].plan /\ t < batch'[k].to =>
                                 \/ \E v \in ratings' : In(t, v)
                                 \/ \E m \in 1..k : In(t, batch'[m])
    BY <1>1 DEF CoveredInv, During, In
  <2>2. /\ \A r \in ratings : r.plan = assignments[i].plan /\ t < r.to =>
                               \E v \in ratings : In(t, v)
        /\ \A k \in DOMAIN batch : batch[k].plan = assignments[i].plan /\ t < batch[k].to =>
                                 \/ \E v \in ratings : In(t, v)
                                 \/ \E m \in 1..k : In(t, batch[m])
    BY <2>1 DEF RatingInv, CoveredInv
  <2>3. w.plan = assignments[i].plan /\ t < w.to => \E v \in ratings' : In(t, v)
    <3>1. \A m \in 1..1 : batch[m] = w
      BY DEF w
    <3>. QED
      BY <1>3, <1>5, <2>2, <3>1 DEF w
  <2>4. ASSUME NEW k \in DOMAIN batch', batch'[k].plan = assignments[i].plan, t < batch'[k].to
        PROVE  (\E v \in ratings' : In(t, v)) \/ (\E m \in 1..k : In(t, batch'[m]))
    <3>1. k + 1 \in DOMAIN batch /\ batch'[k] = batch[k + 1] /\ k \in Int
      BY <1>2
    <3>2. (\E v \in ratings : In(t, v)) \/ (\E m \in 1..(k + 1) : In(t, batch[m]))
      BY <2>2, <2>4, <3>1
    <3>3. CASE \E v \in ratings : In(t, v)
      BY <1>5, <3>3
    <3>4. ASSUME NEW m \in 1..(k + 1), In(t, batch[m])
          PROVE  (\E v \in ratings' : In(t, v)) \/ (\E q \in 1..k : In(t, batch'[q]))
      <4>1. CASE m = 1
        BY <1>5, <3>4, <4>1 DEF w
      <4>2. CASE m # 1
        <5>1. m - 1 \in 1..k /\ m - 1 \in 1..(Len(batch) - 1) /\ (m - 1) + 1 = m
          BY <1>2, <3>1, <4>2
        <5>2. batch'[m - 1] = batch[m]
          BY <1>2, <5>1
        <5>. QED
          BY <3>4, <5>1, <5>2
      <4>. QED
        BY <4>1, <4>2
    <3>. QED
      BY <3>2, <3>3, <3>4
  <2>. QED
    BY <1>5, <2>2, <2>3, <2>4
<1>. QED
  BY <1>7, <1>8, <1>9 DEF RatingInv

LEMMA DeathKeepsRates ==
    ASSUME RatingInv, SettlementDies
    PROVE  RatingInv'
<1>1. batch' = <<>> /\ UNCHANGED <<clock, appliedAt, revokedAt, assignments, ratings>>
  BY DEF SettlementDies
<1>2. DOMAIN batch' = {} /\ batch' \in Seq(Window) /\ Charged' \subseteq Charged
  BY <1>1 DEF Charged
<1>3. PeriodsInv' /\ ChargedInv'
  BY <1>1, <1>2 DEF RatingInv, PeriodsInv, ChargedInv, During, Within
<1>4. CoveredInv'
  BY <1>1, <1>2 DEF RatingInv, CoveredInv, During, In
<1>. QED
  BY <1>3, <1>4 DEF RatingInv

LEMMA RatingStep == RatingInv /\ [RatingNext]_ratingVars => RatingInv'
<1> SUFFICES ASSUME RatingInv, [RatingNext]_ratingVars PROVE RatingInv'
  OBVIOUS
<1>0. clock \in 0..MaxTime /\ MaxTime \in Nat
  BY RatingAssumption DEF RatingInv, PeriodsInv, RatingAssumption
<1>1. CASE UNCHANGED ratingVars
  BY <1>0, <1>1, ReportsKeepRates DEF ratingVars
<1>2. CASE TimePasses
  <2>1. clock' \in 0..MaxTime /\ clock <= clock'
    BY <1>0, <1>2 DEF TimePasses
  <2>. QED
    BY <1>2, <2>1, ReportsKeepRates DEF TimePasses
<1>3. CASE markAssignmentAppliedFromReport \/ markAssignmentRevokedFromReport
  BY <1>0, <1>3, ReportsKeepRates DEF markAssignmentAppliedFromReport, markAssignmentRevokedFromReport
<1>. QED
  BY <1>1, <1>2, <1>3, PlanChangeKeepsRates, ListingKeepsRates, InsertionKeepsRates,
     DeathKeepsRates DEF RatingNext, RatingWork

LEMMA SettledWhenNothingIsListed ==
    ASSUME RatingInv
    PROVE  NothingLeftOut
<1> SUFFICES ASSUME appliedAt # Never, serving, revokedAt = Never, clock >= Lag,
                    Candidates(clock - Lag) = {},
                    NEW t \in appliedAt..(clock - Lag - 1)
             PROVE  \E w \in ratings : t \in Units(w)
  BY DEF NothingLeftOut, SettledUpTo
<1> DEFINE cutoff == clock - Lag
<1>1. /\ clock \in 0..MaxTime /\ appliedAt \in -1..MaxTime /\ MaxTime \in Nat /\ Lag \in Nat
      /\ assignments \in Seq(Period)
  BY RatingAssumption DEF RatingInv, PeriodsInv, RatingAssumption
<1>2. cutoff \in 0..clock /\ t \in 0..MaxTime /\ t < cutoff /\ appliedAt <= t
  BY <1>1 DEF Never
<1>3. PICK i \in DOMAIN assignments : During(t, i)
  BY <1>2 DEF RatingInv, PeriodsInv
<1> DEFINE plan == assignments[i].plan
           x == WindowOf(assignments[i], cutoff)
<1>4. /\ x \in Window
      /\ x.from \in {assignments[i].from, appliedAt, RatedUntil(plan)}
      /\ x.to \in {cutoff, End(assignments[i].to), End(revokedAt)}
  BY <1>2, WindowIs
<1>5. RatedUntil(plan) \in Int
  BY <1>1, RatedUntilIs
<1>6. t < RatedUntil(plan)
  <2>1. SUFFICES ASSUME ~(t < RatedUntil(plan)) PROVE FALSE
    OBVIOUS
  <2>2. assignments[i].from <= t /\ t < End(assignments[i].to) /\ t < End(revokedAt)
    BY <1>1, <1>2, <1>3 DEF During, End, Forever
  <2>3. x.from <= t
    BY <1>2, <1>4, <1>5, <2>1, <2>2
  <2>4. t < x.to
    BY <1>2, <1>4, <2>2
  <2>5. x.from \in Int /\ x.to \in Int /\ t \in Int
    BY <1>2, <1>4 DEF Window
  <2>6. x.to > x.from
    BY <2>3, <2>4, <2>5
  <2>7. assignments[i].from < cutoff /\ End(assignments[i].to) > appliedAt
    <3>1. assignments[i].from \in Int /\ End(assignments[i].to) \in Int
      BY PeriodEnds
    <3>2. appliedAt \in Int /\ cutoff \in Int
      BY <1>1, <1>2
    <3>. QED
      BY <1>2, <2>2, <2>5, <3>1, <3>2
  <2> HIDE DEF x
  <2>8. x = WindowOf(assignments[i], cutoff)
    BY DEF x
  <2>9. x \in Candidates(cutoff)
    BY <2>6, <2>7, <2>8 DEF Candidates
  <2>. QED
    BY <2>9
<1>7. PICK r \in ratings : r.plan = plan /\ r.to = RatedUntil(plan)
  BY <1>2, <1>6, RatedUntilIs
<1>8. PICK w \in ratings : In(t, w)
  <2>1. t < r.to
    BY <1>6, <1>7
  <2>. QED
    BY <1>2, <1>3, <1>7, <2>1 DEF RatingInv, CoveredInv
<1>. QED
  BY <1>2, <1>8 DEF In, Units

\* The windows that are charged cover the time a config was in use exactly: no moment
\* twice, each under the plan that was in force, and none left out once all that is
\* listed is rated; for any number of plans, plan changes, reports, repeated reports and
\* settlements that die half way (listRetailRatingCandidates, insertRetailUsageRating).
THEOREM RatingWindowsAreExact == RatingSpec => []WindowsAreExact
<1>1. ASSUME RatingInv PROVE NoTimeChargedTwice /\ ChargedByItsPlan
  <2>1. \A r \in ratings : r \in Charged /\ r \in Window
    BY <1>1 DEF Charged, RatingInv, ChargedInv
  <2>2. ASSUME NEW v \in ratings, NEW w \in ratings, v # w PROVE Units(v) \cap Units(w) = {}
    <3>1. ~Meet(v, w)
      BY <1>1, <2>1, <2>2 DEF RatingInv, ChargedInv
    <3>2. v.from \in Int /\ v.to \in Int /\ w.from \in Int /\ w.to \in Int
      BY <2>1 DEF Window
    <3>. QED
      BY <3>1, <3>2 DEF Meet, Units
  <2>3. ChargedByItsPlan
    BY <1>1, <2>1 DEF RatingInv, ChargedInv, ChargedByItsPlan, Within
  <2>. QED
    BY <2>2, <2>3 DEF NoTimeChargedTwice
<1>2. RatingInv => WindowsAreExact
  BY <1>1, SettledWhenNothingIsListed DEF WindowsAreExact
<1>. QED
  BY <1>2, RatingInitially, RatingStep, PTL DEF RatingSpec

\* The moments, periods and windows keep their types: a report sets a moment to now, a
\* plan ends now, and no window lies beyond the clock.
THEOREM RatingTypes == RatingSpec => []RatingTypeOK
<1>1. RatingInit => serving \in BOOLEAN
  BY DEF RatingInit
<1>2. serving \in BOOLEAN /\ [RatingNext]_ratingVars => (serving \in BOOLEAN)'
  BY DEF RatingNext, RatingWork, ratingVars, TimePasses, markAssignmentAppliedFromReport,
     markAssignmentRevokedFromReport, assignBillingPlan, ListCandidates,
     insertRetailUsageRating, SettlementDies
<1>3. RatingInv /\ serving \in BOOLEAN => RatingTypeOK
  BY DEF RatingInv, PeriodsInv, ChargedInv, Period, RatingTypeOK
<1>. QED
  BY <1>1, <1>2, <1>3, RatingInitially, RatingStep, PTL DEF RatingSpec
==============================================================================
