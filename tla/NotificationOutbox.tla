-------------------------- MODULE NotificationOutbox --------------------------
(***************************************************************************)
(* billing_notification_outbox: events write a row in the transaction that *)
(* makes them true, under a key that keeps repetitions out; the worker     *)
(* claims one row at a time, hands it to the mail provider and notes the   *)
(* outcome.  It may die in between: a row left in sending is claimed again *)
(* after ten minutes.  The provider may take a mail and still let the call *)
(* fail; no idempotency key is sent with it.                               *)
(***************************************************************************)
EXTENDS Naturals

CONSTANTS
    Events,       \* dedupe keys
    MaxMails      \* bound: mails of one event handed to the provider

ASSUME OutboxAssumption == MaxMails \in Nat

VARIABLES
    outbox,      \* outbox[e]: the row's status, "none" while there is no row
    outboxDue,   \* outboxDue[e]: next_attempt_at, or the ten minutes, have passed
    mails,       \* mails[e]: mails of e the provider has taken
    courier      \* the row the worker is busy with, and how far it is

outboxVars == <<outbox, outboxDue, mails, courier>>

OutboxStatus == {"none", "pending", "sending", "failed", "sent"}
Resting == [at |-> "resting"]

OutboxTypeOK ==
    /\ outbox \in [Events -> OutboxStatus]
    /\ outboxDue \in [Events -> BOOLEAN]
    /\ mails \in [Events -> 0..MaxMails]
    /\ courier \in {Resting} \cup [at : {"claimed", "accepted", "refused"}, event : Events]

OutboxInit ==
    /\ outbox = [e \in Events |-> "none"]
    /\ outboxDue = [e \in Events |-> FALSE]
    /\ mails = [e \in Events |-> 0]
    /\ courier = Resting

\* ON CONFLICT (dedupe_key) DO NOTHING; a new row is due at once.
enqueueBillingNotification(e) ==
    /\ outbox[e] = "none"
    /\ outbox' = [outbox EXCEPT ![e] = "pending"]
    /\ outboxDue' = [outboxDue EXCEPT ![e] = TRUE]
    /\ UNCHANGED <<mails, courier>>

\* Mutant: a row left in sending is not claimed again.
claimUnclaimed(e) ==
    /\ courier = Resting
    /\ outbox[e] \in {"pending", "failed"}
    /\ outboxDue[e]
    /\ outbox' = [outbox EXCEPT ![e] = "sending"]
    /\ outboxDue' = [outboxDue EXCEPT ![e] = FALSE]
    /\ courier' = [at |-> "claimed", event |-> e]
    /\ UNCHANGED mails

claimBillingNotification(e) ==
    /\ courier = Resting
    /\ outbox[e] \in {"pending", "failed", "sending"}
    /\ outboxDue[e]
    /\ outbox' = [outbox EXCEPT ![e] = "sending"]
    /\ outboxDue' = [outboxDue EXCEPT ![e] = FALSE]
    /\ courier' = [at |-> "claimed", event |-> e]
    /\ UNCHANGED mails

\* The provider takes the mail or not; the call returns or throws, and after a
\* mail was taken it may do either.
SendMail(taken, answered) ==
    /\ courier.at = "claimed"
    /\ answered => taken
    /\ mails[courier.event] < MaxMails
    /\ mails' = [mails EXCEPT ![courier.event] = @ + (IF taken THEN 1 ELSE 0)]
    /\ courier' = [courier EXCEPT !.at = IF answered THEN "accepted" ELSE "refused"]
    /\ UNCHANGED <<outbox, outboxDue>>

\* Mutant: a call that threw counts as delivered.
markSentAnyway ==
    /\ courier.at \in {"accepted", "refused"}
    /\ outbox' = [outbox EXCEPT ![courier.event] = "sent"]
    /\ courier' = Resting
    /\ UNCHANGED <<outboxDue, mails>>

markBillingNotificationSent ==
    /\ courier.at = "accepted"
    /\ outbox' = [outbox EXCEPT ![courier.event] = "sent"]
    /\ courier' = Resting
    /\ UNCHANGED <<outboxDue, mails>>

\* Also after a mail was accepted, when the update to sent throws.
markBillingNotificationFailed ==
    /\ courier.at \in {"accepted", "refused"}
    /\ outbox' = [outbox EXCEPT ![courier.event] = "failed"]
    /\ courier' = Resting
    /\ UNCHANGED <<outboxDue, mails>>

CourierDies ==
    /\ courier # Resting
    /\ courier' = Resting
    /\ UNCHANGED <<outbox, outboxDue, mails>>

\* The row's backoff, or the ten minutes of a row left in sending, are over.
NotificationBecomesDue(e) ==
    /\ outbox[e] \in {"failed", "sending"}
    /\ courier = Resting
    /\ ~outboxDue[e]
    /\ outboxDue' = [outboxDue EXCEPT ![e] = TRUE]
    /\ UNCHANGED <<outbox, mails, courier>>

OutboxWork ==
    \/ \E e \in Events :
           \/ enqueueBillingNotification(e)
           \/ claimBillingNotification(e)
           \/ NotificationBecomesDue(e)
    \/ \E taken \in BOOLEAN : SendMail(taken, TRUE)
    \/ markBillingNotificationSent
    \/ courier.at = "refused" /\ markBillingNotificationFailed

\* What may go wrong: the provider or the database, or the worker dies.
OutboxFault ==
    \/ CourierDies
    \/ \E taken \in BOOLEAN : SendMail(taken, FALSE)
    \/ courier.at = "accepted" /\ markBillingNotificationFailed

OutboxNext == OutboxWork \/ OutboxFault

OutboxSpec == OutboxInit /\ [][OutboxNext]_outboxVars

\* The loop goes on, and faults are finitely many.
OutboxFairness ==
    /\ \A e \in Events :
          WF_outboxVars(NotificationBecomesDue(e)) /\ WF_outboxVars(claimBillingNotification(e))
    /\ WF_outboxVars(SendMail(TRUE, TRUE))
    /\ WF_outboxVars(markBillingNotificationSent)
    /\ WF_outboxVars(courier.at = "refused" /\ markBillingNotificationFailed)

------------------------------------------------------------------------------
\* Every event is mailed and closed in the end, also when the worker died while
\* it was sending, and none is closed for good without its mail
\* (claimBillingNotification, markBillingNotificationFailed).
EventsAreMailed ==
    \A e \in Events : outbox[e] = "pending" ~> outbox[e] = "sent" /\ mails[e] > 0
==============================================================================
