--------------------------- MODULE ConfigPayment ----------------------------
(***************************************************************************)
(* One purchase of a VPN config: a click on Confirm carries the UUID of    *)
(* the purchase, creates its session and charges the customer's custodial  *)
(* wallet with a Solana transaction (sessions.routes.ts,                   *)
(* services/solana-config-payment.ts, solana-config-payment-repository.ts, *)
(* payment-session.scenario.ts).  Clicks are repeated, overlap, and end in *)
(* a crash of the API or an RPC error; the payment row is all they share.  *)
(* Every statement on the row is atomic, nothing holds it between two.     *)
(***************************************************************************)
EXTENDS Integers, FiniteSets

CONSTANTS
    Requests,    \* clicks that can be at work at the same time
    MaxTx,       \* bound: transactions signed
    MaxPoor,     \* bound: times the wallet lacks the funds
    MaxErrors,   \* bound: RPC errors and refused transactions
    MaxCrashes,  \* bound: requests that end with their API process
    MaxSlow      \* bound: claims that grow old while their request is at work

ASSUME PaymentAssumption ==
    {MaxTx, MaxPoor, MaxErrors, MaxCrashes, MaxSlow} \subseteq Nat /\ MaxTx > 0

VARIABLES
    session,  \* id of the purchase's session, 0: none
    phase,    \* its phase, as far as payment goes
    created,  \* sessions created so far
    row,      \* the payment row
    tx,       \* the transactions on their way through the cluster
    pc,       \* what a request does next
    sid,      \* the session a request works for
    seen,     \* the transaction it signed or read from the row
    poor, errors, crashes, slow,
    races     \* history: steps that gave up what still charges, or took it up again

vars == <<session, phase, created, row, tx, pc, sid, seen, poor, errors, crashes, slow, races>>
shop == <<session, phase, created>>
request == <<pc, sid, seen>>
mishaps == <<poor, errors, crashes, slow>>

Txs == 1..MaxTx
TxStates == {"none", "signed", "sent", "landed", "errored", "expired"}
Statuses == {"none", "pending", "processing", "submitted", "confirmed", "failed"}
Steps == {"idle", "ensure", "recover", "claim", "build", "send", "wait", "delete", "activate"}

\* sig is the last recorded transaction, link the session, old: the claim is
\* more than two minutes old.
Rows == [status : Statuses, sig : 0..MaxTx, link : Nat, old : BOOLEAN]

TypeOK ==
    /\ session \in Nat /\ created \in Nat
    /\ phase \in {"payment_pending", "requested"}
    /\ row \in Rows
    /\ row.status \in {"submitted", "confirmed"} => row.sig \in Txs
    /\ tx \in [Txs -> TxStates]
    /\ pc \in [Requests -> Steps]
    /\ sid \in [Requests -> Nat]
    /\ seen \in [Requests -> 0..MaxTx]
    /\ poor \in 0..MaxPoor /\ errors \in 0..MaxErrors /\ crashes \in 0..MaxCrashes
    /\ slow \in 0..MaxSlow
    /\ races \in Nat

Init ==
    /\ session = 0 /\ phase = "payment_pending" /\ created = 0
    /\ row = [status |-> "none", sig |-> 0, link |-> 0, old |-> FALSE]
    /\ tx = [t \in Txs |-> "none"]
    /\ pc = [r \in Requests |-> "idle"]
    /\ sid = [r \in Requests |-> 0]
    /\ seen = [r \in Requests |-> 0]
    /\ poor = 0 /\ errors = 0 /\ crashes = 0 /\ slow = 0 /\ races = 0

Goto(r, l) == pc' = [pc EXCEPT ![r] = l]

-----------------------------------------------------------------------------
\* The statements on the row; none but the claim looks at the status.

Linked(s) == [row EXCEPT !.link = s, !.status = IF @ = "none" THEN "pending" ELSE @]
Bug_ClaimSubmitted == row.status \in {"pending", "processing", "failed", "submitted"}
Claimable == row.status \in {"pending", "failed"} \/ (row.status = "processing" /\ row.old)
Submitted(t) == [row EXCEPT !.status = "submitted", !.sig = t]
Confirmed == [row EXCEPT !.status = "confirmed"]
Failed == [row EXCEPT !.status = "failed"]
Bug_LinkKept == row
Unlinked == [row EXCEPT !.link = 0]

\* The row is as request r left it.
Undisturbed(r) ==
    \/ row.status = "processing" /\ pc[r] = "build"
    \/ row.status = "submitted" /\ row.sig = seen[r]

Raced(harmless) == races' = IF harmless THEN races ELSE races + 1

\* failSolanaConfigPayment compares neither status nor signature: a race, when
\* another request has moved the row on.
FailsRow(r) == row' = Failed /\ Raced(row.status = "failed" \/ Undisturbed(r))

-----------------------------------------------------------------------------
\* A click: createSession finds the session of the UUID or creates it.
Create(r) ==
    /\ pc[r] = "idle"
    /\ IF session # 0 THEN UNCHANGED shop
       ELSE /\ created' = created + 1 /\ session' = created + 1
            /\ phase' = "payment_pending"
    /\ sid' = [sid EXCEPT ![r] = session']
    /\ Goto(r, "ensure")
    /\ UNCHANGED <<row, tx, seen, mishaps, races>>

\* ensureSolanaConfigPayment: the row is inserted or linked to the session.
Ensure(r) ==
    /\ pc[r] = "ensure"
    /\ session = sid[r] /\ row.link \in {0, session}
    /\ row' = Linked(session)
    /\ seen' = [seen EXCEPT ![r] = row.sig]
    /\ Goto(r, CASE row.status = "confirmed" -> "activate"
                 [] row.status = "submitted" -> "recover"
                 [] OTHER -> "claim")
    /\ UNCHANGED <<shop, tx, sid, mishaps, races>>

\* The session was deleted meanwhile, or the row belongs to another one.
EnsureRefused(r) ==
    /\ pc[r] = "ensure"
    /\ ~(session = sid[r] /\ row.link \in {0, session})
    /\ Goto(r, "idle")
    /\ UNCHANGED <<shop, row, tx, sid, seen, mishaps, races>>

\* recoverSubmittedPayment, on the transaction that was read before.
Bug_SentIsEnough(t) == tx[t] \in {"sent", "landed"}
Recovered(t) == tx[t] = "landed"

RecoverLanded(r) ==
    /\ pc[r] = "recover" /\ Recovered(seen[r])
    /\ row' = Confirmed
    /\ Goto(r, "activate")
    /\ UNCHANGED <<shop, tx, sid, seen, mishaps, races>>

RecoverErrored(r) ==
    /\ pc[r] = "recover" /\ tx[seen[r]] = "errored"
    /\ FailsRow(r)
    /\ Goto(r, "idle")
    /\ UNCHANGED <<shop, tx, sid, seen, mishaps>>

\* While its blockhash is valid the transaction is sent again, from the row's copy
\* that was read before, even if it was given up since; an expired one is left to
\* manual review.
Resend(r) ==
    /\ pc[r] = "recover" /\ tx[seen[r]] \in {"signed", "sent", "expired"}
    /\ IF tx[seen[r]] = "signed"
       THEN tx' = [tx EXCEPT ![seen[r]] = "sent"] /\ Raced(Undisturbed(r))
       ELSE UNCHANGED <<tx, races>>
    /\ Goto(r, "idle")
    /\ UNCHANGED <<shop, row, sid, seen, mishaps>>

-----------------------------------------------------------------------------
\* claimSolanaConfigPaymentProcessing; whoever has held the claim for two minutes
\* loses it, and goes on if it is still at work.
Claim(r) ==
    /\ pc[r] = "claim" /\ Claimable
    /\ Raced(row.status # "processing" \/ \A q \in Requests : pc[q] # "build")
    /\ row' = [row EXCEPT !.status = "processing", !.old = FALSE]
    /\ Goto(r, "build")
    /\ UNCHANGED <<shop, tx, sid, seen, mishaps>>

NotClaimed(r) ==
    /\ pc[r] = "claim" /\ ~Claimable
    /\ IF row.status = "confirmed"
       THEN Goto(r, "activate") /\ seen' = [seen EXCEPT ![r] = row.sig]
       ELSE Goto(r, "idle") /\ UNCHANGED seen
    /\ UNCHANGED <<shop, row, tx, sid, mishaps, races>>

\* The wallet lacks the funds.
Poor(r) ==
    /\ pc[r] = "build" /\ poor < MaxPoor
    /\ FailsRow(r)
    /\ poor' = poor + 1
    /\ Goto(r, "delete")
    /\ UNCHANGED <<shop, tx, sid, seen, errors, crashes, slow>>

\* The treasury is not ready, or an RPC call fails before anything is signed.
BuildFails(r) ==
    /\ pc[r] = "build" /\ errors < MaxErrors
    /\ \/ FailsRow(r)
       \/ row.status = "submitted" /\ UNCHANGED <<row, races>>
    /\ errors' = errors + 1
    /\ Goto(r, "idle")
    /\ UNCHANGED <<shop, tx, sid, seen, poor, crashes, slow>>

\* The transaction is signed with a fresh blockhash and recorded ...
Record(r) ==
    /\ pc[r] = "build"
    /\ \E t \in Txs :
        /\ tx[t] = "none" /\ \A u \in 1..(t - 1) : tx[u] # "none"
        /\ tx' = [tx EXCEPT ![t] = "signed"]
        /\ row' = Submitted(t)
        /\ seen' = [seen EXCEPT ![r] = t]
    /\ Goto(r, "send")
    /\ UNCHANGED <<shop, sid, mishaps, races>>

\* ... before it is sent.
Send(r) ==
    /\ pc[r] = "send" /\ tx[seen[r]] \in {"signed", "sent"}
    /\ tx' = [tx EXCEPT ![seen[r]] = "sent"]
    /\ Goto(r, "wait")
    /\ UNCHANGED <<shop, row, sid, seen, mishaps, races>>

\* Another request sent it first: the row's transaction is looked up.  A row
\* that is not 'submitted' any more is failed, whatever it says.
AlreadyProcessed(r) ==
    /\ pc[r] = "send" /\ tx[seen[r]] \in {"landed", "errored"}
    /\ IF row.status = "submitted"
       THEN /\ UNCHANGED races
            /\ CASE tx[row.sig] = "errored" -> row' = Failed /\ Goto(r, "idle") /\ UNCHANGED seen
                 [] tx[row.sig] = "landed" ->
                       row' = Confirmed /\ Goto(r, "activate") /\ seen' = [seen EXCEPT ![r] = row.sig]
                 [] OTHER -> Goto(r, "idle") /\ UNCHANGED <<row, seen>>
       ELSE FailsRow(r) /\ Goto(r, "idle") /\ UNCHANGED seen
    /\ UNCHANGED <<shop, tx, sid, mishaps>>

\* Preflight refuses it: it was not sent.
Refused(r) ==
    /\ pc[r] = "send" /\ tx[seen[r]] \in {"signed", "expired"}
    /\ IF tx[seen[r]] = "expired" THEN UNCHANGED errors ELSE errors < MaxErrors /\ errors' = errors + 1
    /\ FailsRow(r)
    /\ Goto(r, "idle")
    /\ UNCHANGED <<shop, tx, sid, seen, poor, crashes, slow>>

\* An RPC error while sending or waiting; the transaction may be under way.
RpcFails(r) ==
    /\ pc[r] \in {"send", "wait"} /\ errors < MaxErrors
    /\ tx' \in {tx} \cup (IF tx[seen[r]] = "signed" THEN {[tx EXCEPT ![seen[r]] = "sent"]} ELSE {})
    /\ IF row.status = "submitted" THEN UNCHANGED <<row, races>> ELSE FailsRow(r)
    /\ errors' = errors + 1
    /\ Goto(r, "idle")
    /\ UNCHANGED <<shop, sid, seen, poor, crashes, slow>>

WaitLanded(r) ==
    /\ pc[r] = "wait" /\ tx[seen[r]] = "landed"
    /\ row' = Confirmed
    /\ Goto(r, "activate")
    /\ UNCHANGED <<shop, tx, sid, seen, mishaps, races>>

WaitErrored(r) ==
    /\ pc[r] = "wait" /\ tx[seen[r]] = "errored"
    /\ FailsRow(r)
    /\ Goto(r, "idle")
    /\ UNCHANGED <<shop, tx, sid, seen, mishaps>>

\* Ten seconds are over: the customer is asked to retry.
InProgress(r) ==
    /\ pc[r] = "wait" /\ tx[seen[r]] \in {"sent", "expired"}
    /\ Goto(r, "idle")
    /\ UNCHANGED <<shop, row, tx, sid, seen, mishaps, races>>

-----------------------------------------------------------------------------
\* deleteUnpaidSession; the row's session_id is set to NULL with it.
Delete(r) ==
    /\ pc[r] = "delete"
    /\ IF session = sid[r] /\ phase = "payment_pending"
       THEN session' = 0 /\ row' = Unlinked
       ELSE UNCHANGED <<session, row>>
    /\ Goto(r, "idle")
    /\ UNCHANGED <<phase, created, tx, sid, seen, mishaps, races>>

\* activatePaidSession, with the signature the charge returned.
MayActivate(r) ==
    /\ session = sid[r] /\ row.link = session
    /\ row.status = "confirmed" /\ row.sig = seen[r]

Activate(r) ==
    /\ pc[r] = "activate"
    /\ phase' = IF MayActivate(r) THEN "requested" ELSE phase
    /\ Goto(r, "idle")
    /\ UNCHANGED <<session, created, row, tx, sid, seen, mishaps, races>>

-----------------------------------------------------------------------------
\* What happens around the requests: API processes die, claims grow old,
\* transactions land, fail on chain or expire.

Crash(r) ==
    /\ pc[r] # "idle" /\ crashes < MaxCrashes
    /\ Goto(r, "idle")
    /\ crashes' = crashes + 1
    /\ UNCHANGED <<shop, row, tx, sid, seen, poor, errors, slow, races>>

ClaimAges ==
    /\ row.status = "processing" /\ ~row.old
    /\ row' = [row EXCEPT !.old = TRUE]
    /\ IF \A r \in Requests : pc[r] # "build" THEN UNCHANGED slow
       ELSE slow < MaxSlow /\ slow' = slow + 1
    /\ UNCHANGED <<shop, tx, request, poor, errors, crashes, races>>

Settle(t) ==
    /\ tx[t] \in {"signed", "sent"}
    /\ \E s \in {"expired"} \cup (IF tx[t] = "sent" THEN {"landed", "errored"} ELSE {}) :
        tx' = [tx EXCEPT ![t] = s]
    /\ UNCHANGED <<shop, row, request, mishaps, races>>

Step(r) ==
    \/ Ensure(r) \/ EnsureRefused(r)
    \/ RecoverLanded(r) \/ RecoverErrored(r) \/ Resend(r)
    \/ Claim(r) \/ NotClaimed(r) \/ Poor(r) \/ BuildFails(r) \/ Record(r)
    \/ Send(r) \/ AlreadyProcessed(r) \/ Refused(r) \/ RpcFails(r)
    \/ WaitLanded(r) \/ WaitErrored(r) \/ InProgress(r)
    \/ Delete(r) \/ Activate(r)

Next ==
    \/ \E r \in Requests : Create(r) \/ Step(r) \/ Crash(r)
    \/ ClaimAges
    \/ \E t \in Txs : Settle(t)

Spec == Init /\ [][Next]_vars

\* Requests go on, claims grow old; the customer clicks again as long as there
\* is no config.
Fairness ==
    /\ \A r \in Requests : WF_vars(Step(r)) /\ WF_vars(Create(r) /\ phase # "requested")
    /\ WF_vars(ClaimAges)

FairSpec == Spec /\ Fairness

-----------------------------------------------------------------------------
Landed == {t \in Txs : tx[t] = "landed"}

\* What the runbook says of a purchase: whatever is clicked again, crashes or is
\* answered too late, the price is taken from the wallet once.
AtMostOneCharge == Cardinality(Landed) <= 1

\* What the code keeps of it: a purchase is charged once, and once more only for
\* each time a claim was taken from a request still at work, an error was written
\* over what another request had made of the row, or a transaction was sent again
\* that the row had given up.  Repeated clicks, crashes and RPC errors charge nothing.
ChargesAreAccounted == Cardinality(Landed) <= 1 + races

\* No row is confirmed and no config goes to reconciliation without a transaction
\* that has landed; without a race it is the one the row names.
ConfirmedHasLanded ==
    /\ row.status = "confirmed" \/ phase = "requested" => Landed # {}
    /\ row.status = "confirmed" /\ races = 0 => row.sig \in Landed

\* A customer who paid gets the config, also when the session was deleted
\* meanwhile or the request that paid never came back; a race may leave the
\* payment with a row that has forgotten it.
PaidIsActivated == Landed # {} ~> phase = "requested" \/ races > 0
=============================================================================
