--------------------------- MODULE PrepaidAccount ---------------------------
(***************************************************************************)
(* The prepaid balance of one account in enforce mode, with a token (not   *)
(* native) deposit asset: its four buckets, the ledger they summarise, the *)
(* charge accrual with its sub-cent remainder, the grace and suspension    *)
(* state, and the account's custodial wallet.  The transfers that leave    *)
(* the wallet, withdrawals and sweeps, are those of Transfers; here they   *)
(* get their amounts and their effect on the buckets.                      *)
(*                                                                         *)
(* Every action is one transaction of the code, which locks the bucket row *)
(* before it reads it; only the chain's and the clock's steps are not.     *)
(* Amounts are whole cents; a deposit's own sub-cent remainder belongs to  *)
(* DepositScan.                                                            *)
(***************************************************************************)
EXTENDS Transfers, FiniteSetsExt, Sums

CONSTANTS
    Unit,         \* microminor units per cent (MICROMINOR_PER_MINOR)
    Charges,      \* charges of a rated window, in microminor units
    Amounts,      \* amounts of deposits, grants and withdrawals, in cents
    Minimum,      \* minimumWithdrawalMinor of the account's plan
    MaxCredits,   \* bound: deposits and grants
    MaxRated      \* bound: the sum of the rated charges

ASSUME PrepaidAssumption ==
    /\ Unit \in Nat \ {0}
    /\ Charges \subseteq Nat
    /\ Amounts \subseteq Nat \ {0}
    /\ Minimum \in Nat
    /\ MaxCredits \in Nat
    /\ MaxRated \in Nat

VARIABLES
    buckets,      \* billing_balance_buckets row
    remainder,    \* billing_account_accruals.microminor_remainder
    state,        \* billing_account_states.state
    graceOver,    \* suspension_due_at has passed
    amount,       \* amount[r]: amount_minor of the row
    wallet,       \* cents' worth of tokens in the custodial wallet
    credits,      \* deposits and grants so far
    ledger,       \* sum of the billing_ledger_entries of the account
    rated,        \* sum of the charges of all rated windows, in microminor units
    charged       \* sum of the usage charges posted to the ledger, in cents

accountVars == <<buckets, remainder, state, graceOver, amount, wallet, credits,
                 ledger, rated, charged>>
prepaidVars == <<transferVars, accountVars>>

Buckets == [cash : Nat, promotional : Nat, reserved : Nat, debt : Nat]

PrepaidTypeOK ==
    /\ TransfersTypeOK
    /\ buckets \in Buckets
    /\ remainder \in 0..(Unit - 1)
    /\ state \in {"active", "grace", "suspended"}
    /\ graceOver \in BOOLEAN
    /\ amount \in [Orders -> Nat]
    /\ wallet \in Int
    /\ credits \in 0..MaxCredits
    /\ ledger \in Int
    /\ rated \in Nat
    /\ charged \in Nat

PrepaidInit ==
    /\ TransfersInit
    /\ buckets = [cash |-> 0, promotional |-> 0, reserved |-> 0, debt |-> 0]
    /\ remainder = 0
    /\ state = "active"
    /\ graceOver = FALSE
    /\ amount = [r \in Orders |-> 0]
    /\ wallet = 0
    /\ credits = 0
    /\ ledger = 0
    /\ rated = 0
    /\ charged = 0

(***************************************************************************)
(* The bucket arithmetic.                                                  *)
(***************************************************************************)
Least(a, b) == IF a <= b THEN a ELSE b

\* Mutant: a charge takes reserved cash as well.
consumeAnyCash(b, charge) ==
    LET promotional == Least(b.promotional, charge)
        cash == Least(b.cash, charge - promotional)
    IN  [b EXCEPT !.promotional = @ - promotional,
                  !.cash = @ - cash,
                  !.debt = @ + (charge - promotional - cash)]

\* A charge takes promotional credit, then cash that is not reserved, then debt.
consumeBillingCharge(b, charge) ==
    LET promotional == Least(b.promotional, charge)
        spendable == IF b.cash >= b.reserved THEN b.cash - b.reserved ELSE 0
        cash == Least(spendable, charge - promotional)
    IN  [b EXCEPT !.promotional = @ - promotional,
                  !.cash = @ - cash,
                  !.debt = @ + (charge - promotional - cash)]

\* Mutant: what repays debt is credited as well.
applyWholeCredit(b, credit, kind) ==
    [b EXCEPT !.debt = @ - Least(@, credit),
              !.cash = @ + (IF kind = "cash" THEN credit ELSE 0),
              !.promotional = @ + (IF kind = "promotional" THEN credit ELSE 0)]

\* A credit repays debt first; the rest goes to its bucket.
applyBucketCredit(b, credit, kind) ==
    LET repaid == Least(b.debt, credit)
        rest == credit - repaid
    IN  [b EXCEPT !.debt = @ - repaid,
                  !.cash = @ + (IF kind = "cash" THEN rest ELSE 0),
                  !.promotional = @ + (IF kind = "promotional" THEN rest ELSE 0)]

availableBillingBalance(b) == b.cash + b.promotional - b.reserved - b.debt

(***************************************************************************)
(* Charges and credits.                                                    *)
(***************************************************************************)
\* A sweep row is written for the cash a charge or a deposit has made the
\* operator's, unless that is nothing; its source is unique, so s is fresh.
SweepSpent(s, spent) ==
    IF spent > 0
    THEN CreateSweep(s) /\ amount' = [amount EXCEPT ![s] = spent]
    ELSE UNCHANGED <<transferVars, amount>>

\* Mutant: the fraction of a cent left over from the last window is dropped.
settleWithoutRemainder(s, charge) ==
    LET accumulated == charge
        posted == accumulated \div Unit
        after == consumeBillingCharge(buckets, posted)
    IN  /\ rated + charge <= MaxRated
        /\ status[s] = "none"
        /\ rated' = rated + charge
        /\ remainder' = accumulated % Unit
        /\ buckets' = after
        /\ ledger' = ledger - posted
        /\ charged' = charged + posted
        /\ SweepSpent(s, buckets.cash - after.cash)
        /\ UNCHANGED <<state, graceOver, wallet, credits>>

\* Mutant: the whole accrual is carried over.
settleUnreduced(s, charge) ==
    LET accumulated == remainder + charge
        posted == accumulated \div Unit
        after == consumeBillingCharge(buckets, posted)
    IN  /\ rated + charge <= MaxRated
        /\ status[s] = "none"
        /\ rated' = rated + charge
        /\ remainder' = accumulated
        /\ buckets' = after
        /\ ledger' = ledger - posted
        /\ charged' = charged + posted
        /\ SweepSpent(s, buckets.cash - after.cash)
        /\ UNCHANGED <<state, graceOver, wallet, credits>>

\* Mutant: the charge is swept, also what was paid by credit or debt.
sweepWholeCharge(s, charge) ==
    LET accumulated == remainder + charge
        posted == accumulated \div Unit
        after == consumeBillingCharge(buckets, posted)
    IN  /\ rated + charge <= MaxRated
        /\ status[s] = "none"
        /\ rated' = rated + charge
        /\ remainder' = accumulated % Unit
        /\ buckets' = after
        /\ ledger' = ledger - posted
        /\ charged' = charged + posted
        /\ SweepSpent(s, posted)
        /\ UNCHANGED <<state, graceOver, wallet, credits>>

settleRatingCandidate(s, charge) ==
    LET accumulated == remainder + charge
        posted == accumulated \div Unit
        after == consumeBillingCharge(buckets, posted)
    IN  /\ rated + charge <= MaxRated
        /\ status[s] = "none"
        /\ rated' = rated + charge
        /\ remainder' = accumulated % Unit
        /\ buckets' = after
        /\ ledger' = ledger - posted
        /\ charged' = charged + posted
        /\ SweepSpent(s, buckets.cash - after.cash)
        /\ UNCHANGED <<state, graceOver, wallet, credits>>

creditDirectDeposit(s, credit) ==
    LET after == applyBucketCredit(buckets, credit, "cash")
    IN  /\ credits < MaxCredits
        /\ status[s] = "none"
        /\ credits' = credits + 1
        /\ wallet' = wallet + credit
        /\ buckets' = after
        /\ ledger' = ledger + credit
        /\ SweepSpent(s, buckets.debt - after.debt)
        /\ UNCHANGED <<remainder, state, graceOver, rated, charged>>

grantPromotionalCredit(credit) ==
    /\ credits < MaxCredits
    /\ credits' = credits + 1
    /\ buckets' = applyBucketCredit(buckets, credit, "promotional")
    /\ ledger' = ledger + credit
    /\ UNCHANGED <<transferVars, remainder, state, graceOver, amount, wallet, rated, charged>>

(***************************************************************************)
(* The account's state follows its balance.                                *)
(***************************************************************************)
BalanceRestored ==
    /\ availableBillingBalance(buckets) >= 0
    /\ state # "active"
    /\ state' = "active"
    /\ graceOver' = FALSE
    /\ UNCHANGED <<transferVars, buckets, remainder, amount, wallet, credits, ledger, rated, charged>>

GraceStarts ==
    /\ availableBillingBalance(buckets) < 0
    /\ state = "active"
    /\ state' = "grace"
    /\ graceOver' = FALSE
    /\ UNCHANGED <<transferVars, buckets, remainder, amount, wallet, credits, ledger, rated, charged>>

GraceEnds ==
    /\ state = "grace"
    /\ ~graceOver
    /\ graceOver' = TRUE
    /\ UNCHANGED <<transferVars, buckets, remainder, state, amount, wallet, credits, ledger, rated, charged>>

\* Every session of the account is set to be revoked.
Suspend ==
    /\ availableBillingBalance(buckets) < 0
    /\ state = "grace"
    /\ graceOver
    /\ state' = "suspended"
    /\ live' = FALSE
    /\ UNCHANGED <<status, due, tries, chain, lane>>
    /\ UNCHANGED <<buckets, remainder, graceOver, amount, wallet, credits, ledger, rated, charged>>

(***************************************************************************)
(* Withdrawals.                                                            *)
(***************************************************************************)
createWithdrawalRequest(r, cents) ==
    /\ buckets.debt = 0
    /\ cents >= Minimum
    /\ cents <= buckets.cash - buckets.reserved
    /\ CreateWithdrawal(r)
    /\ amount' = [amount EXCEPT ![r] = cents]
    /\ buckets' = [buckets EXCEPT !.reserved = @ + cents]
    /\ UNCHANGED <<remainder, state, graceOver, wallet, credits, ledger, rated, charged>>

\* Mutant: the reservation of a cancelled request stays.
cancelWithoutRelease(r) ==
    /\ CancelWithdrawal(r)
    /\ UNCHANGED accountVars

cancelOwnedWithdrawal(r) ==
    /\ CancelWithdrawal(r)
    /\ buckets' = [buckets EXCEPT
                      !.reserved = IF @ >= amount[r] THEN @ - amount[r] ELSE 0]
    /\ UNCHANGED <<remainder, state, graceOver, amount, wallet, credits, ledger, rated, charged>>

\* The transaction throws, and nothing changes, when the reservation is not there.
Reserved(r) == buckets.cash >= amount[r] /\ buckets.reserved >= amount[r]

confirmWithdrawal(r) ==
    /\ r \in Withdrawals
    /\ Reserved(r)
    /\ ConfirmTransfer(r)
    /\ buckets' = [buckets EXCEPT !.cash = @ - amount[r], !.reserved = @ - amount[r]]
    /\ ledger' = ledger - amount[r]
    /\ UNCHANGED <<remainder, state, graceOver, amount, wallet, credits, rated, charged>>

confirmCashSweep(r) ==
    /\ r \in Sweeps
    /\ ConfirmTransfer(r)
    /\ UNCHANGED accountVars

\* A token transfer without the tokens is executed with an error.
Execute(r, i) ==
    /\ wallet >= amount[r]
    /\ Land(r, i)
    /\ wallet' = wallet - amount[r]
    /\ UNCHANGED <<buckets, remainder, state, graceOver, amount, credits, ledger, rated, charged>>

\* The steps of the lanes, the chain and the clocks that move no money.
LaneStep ==
    /\ \/ \E r \in Withdrawals : ClaimWithdrawal(r)
       \/ \E r \in Sweeps : ClaimSweep(r)
       \/ \E r \in Orders : BecomesDue(r) \/ FailTransfer(r)
       \/ \E r \in Orders, i \in 1..MaxTries : ChainRejects(r, i) \/ BlockhashExpires(r, i)
       \/ AdvanceCooldowns
       \/ SigningFails
       \/ RecordSubmission
       \/ Broadcast
       \/ LaneDies
       \/ SessionsChange
    /\ UNCHANGED accountVars

PrepaidNext ==
    \/ \E s \in Sweeps, charge \in Charges : settleRatingCandidate(s, charge)
    \/ \E s \in Sweeps, cents \in Amounts : creditDirectDeposit(s, cents)
    \/ \E cents \in Amounts : grantPromotionalCredit(cents)
    \/ BalanceRestored \/ GraceStarts \/ GraceEnds \/ Suspend
    \/ \E r \in Withdrawals, cents \in Amounts : createWithdrawalRequest(r, cents)
    \/ \E r \in Withdrawals : cancelOwnedWithdrawal(r) \/ confirmWithdrawal(r)
    \/ \E r \in Sweeps : confirmCashSweep(r)
    \/ \E r \in Orders, i \in 1..MaxTries : Execute(r, i)
    \/ LaneStep

PrepaidSpec == PrepaidInit /\ [][PrepaidNext]_prepaidVars

------------------------------------------------------------------------------
\* The ledger, which is only ever appended to, and the buckets, which are
\* overwritten, tell the same balance after any order of charges, credits,
\* withdrawals and cancellations (settleRatingCandidate, creditDirectDeposit,
\* applyBillingCredit, confirmWithdrawal).
LedgerIsBalance ==
    ledger = buckets.cash + buckets.promotional - buckets.debt

\* No charge and no withdrawal takes cash that an earlier withdrawal has
\* reserved, so "withdrawal reservation invariant failed" is never thrown
\* (confirmWithdrawal) and the CHECK on the bucket row never fires.
ReservedIsCash == buckets.reserved <= buckets.cash

\* What is reserved is exactly what the open withdrawals are for: no
\* cancellation, failure or retry releases a reservation twice or leaks it.
ReservationsAddUp ==
    buckets.reserved = SumOf(amount, {r \in Withdrawals : Open(r)})

\* The custodial wallet holds the account's cash and what is still to be swept:
\* whatever the order of charges, sweeps, deposits and payouts, no transfer the
\* worker signs finds the tokens gone.
WalletBacksCash ==
    wallet = buckets.cash
             + SumOf(amount, {s \in Sweeps : Arrived(s) = {}})
             - SumOf(amount, {r \in Withdrawals : Arrived(r) # {} /\ status[r] # "confirmed"})

\* Charging window by window loses nothing and invents nothing: what was posted
\* and the accrued remainder are what was rated (lockBillingAccrual).
NoRoundingLoss == charged * Unit + remainder = rated

\* The account's books balance, through every order of ratings, credits, sweeps,
\* withdrawals and failures (settleRatingCandidate, consumeBillingCharge); and the money
\* they speak of is there, once for each of those who wait for it
\* (createWithdrawalRequest, cancelOwnedWithdrawal, insertCashSweepRequest).
MoneyIsThere == ReservationsAddUp /\ WalletBacksCash
BooksBalance == LedgerIsBalance /\ ReservedIsCash /\ NoRoundingLoss /\ MoneyIsThere

\* docs/architecture/retail-billing.md:99: "The cooldown restarts whenever an
\* active config appears", so no withdrawal goes out while a config is active.
CooldownRestarts ==
    [][\A r \in Withdrawals :
          status[r] # "processing" /\ status'[r] = "processing" => ~live]_prepaidVars
==============================================================================
