------------------------------- MODULE PayOnce -------------------------------
(***************************************************************************)
(* What the payout lanes promise about money that leaves a custodial       *)
(* wallet: a request is paid at most once, it is acknowledged only after   *)
(* it was paid, and a request its owner withdrew is never paid at all.     *)
(* The lanes of Transfers are shown to implement this.                     *)
(***************************************************************************)
EXTENDS Naturals

CONSTANT Orders

VARIABLES
    paid,     \* paid[r]: how many transfers of r the chain has executed
    outcome   \* "open", "closed" (withdrawn by its owner) or "acknowledged"

payVars == <<paid, outcome>>

Init ==
    /\ paid = [r \in Orders |-> 0]
    /\ outcome = [r \in Orders |-> "open"]

Pay(r) ==
    /\ paid[r] = 0
    /\ outcome[r] = "open"
    /\ paid' = [paid EXCEPT ![r] = 1]
    /\ UNCHANGED outcome

Close(r) ==
    /\ paid[r] = 0
    /\ outcome[r] = "open"
    /\ outcome' = [outcome EXCEPT ![r] = "closed"]
    /\ UNCHANGED paid

Acknowledge(r) ==
    /\ paid[r] = 1
    /\ outcome[r] = "open"
    /\ outcome' = [outcome EXCEPT ![r] = "acknowledged"]
    /\ UNCHANGED paid

Next == \E r \in Orders : Pay(r) \/ Close(r) \/ Acknowledge(r)

Spec == Init /\ [][Next]_payVars
==============================================================================
