----------------------------- MODULE DepositScan -----------------------------
(***************************************************************************)
(* The backfill scan that credits direct deposits to one custodial wallet. *)
(* A scan walks the wallet's token accounts: of each it loads the finalized*)
(* signatures that are newer than the account's cursor, newest first and   *)
(* at most Cap of them, credits them one transaction each, oldest first,   *)
(* and at its end saves all cursors at once.  An unreadable transaction, an*)
(* RPC error or a crash ends the scan with the cursors as they were, so the*)
(* next one meets credited signatures again; the receipt's unique signature*)
(* keeps them from being credited twice.  The token accounts are looked up *)
(* until a scan has found some, and then remembered.                       *)
(*                                                                         *)
(* The worker's loops run one after the other: there is one scan at a time.*)
(* A signature is a pair of its account and its place in the account's     *)
(* finalized history; the history only grows.                              *)
(***************************************************************************)
EXTENDS Integers, FiniteSetsExt, Sums

CONSTANTS
    TokenAccounts,   \* token accounts the wallet may come to have
    Cap,             \* signaturePageSize * maxSignaturePages
    BaseUnits,       \* solanaTokenBaseUnitsPerBillingMinor
    Deposits,        \* amounts of a transaction, in base units; 0: pays nothing
    MaxHistory,      \* bound: finalized transactions of one account
    MaxBurst         \* bound: of those, the ones newer than the saved cursor

ASSUME DepositAssumption ==
    /\ Cap \in Nat \ {0}
    /\ BaseUnits \in Nat \ {0}
    /\ Deposits \subseteq Nat
    /\ MaxHistory \in Nat
    /\ MaxBurst \in Nat

VARIABLES
    history,     \* history[a][n]: amount paid by the n-th transaction of a
    height,      \* height[a]: finalized transactions of a
    opened,      \* token accounts that exist on the chain
    cursorRow,   \* solana_deposit_scan_cursors row: accounts and latest[a]
    scan,        \* the running scan, or NoScan
    receipts,    \* signatures with a solana_payment_receipts row
    credited,    \* credited cents: the top-ups in the ledger
    dust         \* solana_deposit_remainders.remainder_base_units

depositVars == <<history, height, opened, cursorRow, scan, receipts, credited, dust>>

Places == 1..MaxHistory
Signatures == TokenAccounts \X Places
NoScan == [at |-> "idle"]
AmountOf(sig) == history[sig[1]][sig[2]]

DepositTypeOK ==
    /\ history \in [TokenAccounts -> [Places -> Nat]]
    /\ height \in [TokenAccounts -> 0..MaxHistory]
    /\ opened \subseteq TokenAccounts
    /\ cursorRow.accounts \subseteq TokenAccounts
    /\ cursorRow.latest \in [TokenAccounts -> 0..MaxHistory]
    /\ receipts \subseteq Signatures
    /\ credited \in Nat
    /\ dust \in 0..(BaseUnits - 1)

DepositInit ==
    /\ history = [a \in TokenAccounts |-> [n \in Places |-> 0]]
    /\ height = [a \in TokenAccounts |-> 0]
    /\ opened = {}
    /\ cursorRow = [accounts |-> {}, latest |-> [a \in TokenAccounts |-> 0]]
    /\ scan = NoScan
    /\ receipts = {}
    /\ credited = 0
    /\ dust = 0

\* The first transaction of a token account creates it.
Finalize(a, paid) ==
    /\ height[a] < MaxHistory
    /\ height[a] - cursorRow.latest[a] < MaxBurst
    /\ opened' = opened \cup {a}
    /\ height' = [height EXCEPT ![a] = @ + 1]
    /\ history' = [history EXCEPT ![a][height[a] + 1] = paid]
    /\ UNCHANGED <<cursorRow, scan, receipts, credited, dust>>

\* todo: accounts still to be walked; row: the row the scan will save.
BeginScan ==
    LET accounts == IF cursorRow.accounts # {} THEN cursorRow.accounts ELSE opened
    IN  /\ scan = NoScan
        /\ scan' = [at |-> "between", todo |-> accounts,
                    row |-> [cursorRow EXCEPT !.accounts = accounts]]
        /\ UNCHANGED <<history, height, opened, cursorRow, receipts, credited, dust>>

\* The pages newer than the cursor, newest first, at most Cap signatures: the
\* walk begins at the oldest of them.
LoadNewSignatures(a) ==
    LET oldest == Max({scan.row.latest[a], height[a] - Cap}) + 1
    IN  /\ scan.at = "between"
        /\ a \in scan.todo
        /\ scan' = [at |-> "walking", todo |-> scan.todo \ {a}, row |-> scan.row,
                    account |-> a, next |-> oldest, newest |-> height[a]]
        /\ UNCHANGED <<history, height, opened, cursorRow, receipts, credited, dust>>

\* Mutant: the receipt is not looked for.
CreditEveryPayment ==
    LET sig == <<scan.account, scan.next>>
        total == dust + AmountOf(sig)
    IN  /\ scan.at = "walking"
        /\ scan.next <= scan.newest
        /\ scan' = [scan EXCEPT !.next = @ + 1]
        /\ \/ /\ AmountOf(sig) > 0
              /\ receipts' = receipts \cup {sig}
              /\ dust' = total % BaseUnits
              /\ credited' = credited + total \div BaseUnits
           \/ /\ AmountOf(sig) = 0
              /\ UNCHANGED <<receipts, credited, dust>>
        /\ UNCHANGED <<history, height, opened, cursorRow>>

\* Mutant: a receipt that exists already ends the scan with an error.
CreditOnlyNew ==
    LET sig == <<scan.account, scan.next>>
        total == dust + AmountOf(sig)
    IN  /\ scan.at = "walking"
        /\ scan.next <= scan.newest
        /\ sig \notin receipts
        /\ scan' = [scan EXCEPT !.next = @ + 1]
        /\ receipts' = receipts \cup (IF AmountOf(sig) > 0 THEN {sig} ELSE {})
        /\ dust' = total % BaseUnits
        /\ credited' = credited + total \div BaseUnits
        /\ UNCHANGED <<history, height, opened, cursorRow>>

\* One signature: a payment is credited unless it has its receipt already.
CreditDirectDeposit ==
    LET sig == <<scan.account, scan.next>>
        total == dust + AmountOf(sig)
    IN  /\ scan.at = "walking"
        /\ scan.next <= scan.newest
        /\ scan' = [scan EXCEPT !.next = @ + 1]
        /\ \/ /\ AmountOf(sig) > 0
              /\ sig \notin receipts
              /\ receipts' = receipts \cup {sig}
              /\ dust' = total % BaseUnits
              /\ credited' = credited + total \div BaseUnits
           \/ /\ AmountOf(sig) = 0 \/ sig \in receipts
              /\ UNCHANGED <<receipts, credited, dust>>
        /\ UNCHANGED <<history, height, opened, cursorRow>>

\* Mutant: the cursor is set to what is newest by now.
EndAtNewest ==
    /\ scan.at = "walking"
    /\ scan.next > scan.newest
    /\ scan' = [at |-> "between", todo |-> scan.todo,
                row |-> [scan.row EXCEPT !.latest[scan.account] = height[scan.account]]]
    /\ UNCHANGED <<history, height, opened, cursorRow, receipts, credited, dust>>

EndAccount ==
    /\ scan.at = "walking"
    /\ scan.next > scan.newest
    /\ scan' = [at |-> "between", todo |-> scan.todo,
                row |-> [scan.row EXCEPT !.latest[scan.account] = scan.newest]]
    /\ UNCHANGED <<history, height, opened, cursorRow, receipts, credited, dust>>

RecordScanSuccess ==
    /\ scan.at = "between"
    /\ scan.todo = {}
    /\ cursorRow' = scan.row
    /\ scan' = NoScan
    /\ UNCHANGED <<history, height, opened, receipts, credited, dust>>

\* A transaction that is not readable yet, an RPC error, a crash.
ScanFails ==
    /\ scan # NoScan
    /\ scan' = NoScan
    /\ UNCHANGED <<history, height, opened, cursorRow, receipts, credited, dust>>

\* A scan goes on to its end.
ScanStep ==
    \/ \E a \in TokenAccounts : LoadNewSignatures(a)
    \/ CreditDirectDeposit
    \/ EndAccount
    \/ RecordScanSuccess

\* All that happens but failures.
DepositWork ==
    \/ \E a \in TokenAccounts, paid \in Deposits : Finalize(a, paid)
    \/ BeginScan
    \/ ScanStep

DepositNext == DepositWork \/ ScanFails

DepositSpec == DepositInit /\ [][DepositNext]_depositVars

------------------------------------------------------------------------------
\* Credits and remainder are what the receipted transactions paid: over retried
\* scans and crashes no payment is credited twice or rounded away
\* (creditDirectDeposit, convertDepositToBillingMinor).
DepositsAddUp ==
    credited * BaseUnits + dust = SumOf([sig \in Signatures |-> AmountOf(sig)], receipts)

\* docs/runbooks/milestone3-billing-and-wallets.md:36: "Pagination provides
\* backfill after worker or RPC downtime": a cursor never passes a payment that
\* has not been credited, whatever fails in between.  It holds as long as no more
\* than Cap transactions are finalized between two saved cursors.
NothingSkipped ==
    \A a \in TokenAccounts, n \in Places :
        n <= cursorRow.latest[a] /\ history[a][n] > 0 => <<a, n>> \in receipts

\* What the scan has passed is credited, once and in full (reconcileDirectSolanaDeposits).
DepositsAreExact == DepositsAddUp /\ NothingSkipped

\* The loop runs again and again, also after a failure (next_scan_at,
\* directDepositRetryDelaySeconds), and failures are finitely many.
DepositFairness == WF_depositVars(BeginScan) /\ WF_depositVars(ScanStep)

\* A payment to a token account the wallet's scans know is credited in the end,
\* through any number of failed scans (reconcileDirectSolanaDeposits).
PaymentsAreCredited ==
    \A sig \in Signatures :
        sig[1] \in cursorRow.accounts /\ AmountOf(sig) > 0 ~> sig \in receipts
==============================================================================
