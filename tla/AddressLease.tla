---------------------------- MODULE AddressLease ----------------------------
(***************************************************************************)
(* What the client address leases promise to the rest of the system: a     *)
(* session holds at most one address, an address is held by at most one    *)
(* session, and a held address never changes under its holder.  How an     *)
(* address is found, and when it is given back, is left to the modules     *)
(* that implement this one.  (Two unique partial indexes of migration 0007 *)
(* state the same promise in SQL.)                                         *)
(***************************************************************************)
CONSTANTS
    Holders,  \* who may hold an address
    Space,    \* the addresses
    Free      \* the value of lease[h] when h holds none

VARIABLE lease

Held == {lease[h] : h \in Holders} \ {Free}

Init == lease = [h \in Holders |-> Free]

\* A holder without an address gets one nobody holds.
Grant(h, a) ==
    /\ lease[h] = Free
    /\ a \notin Held
    /\ lease' = [lease EXCEPT ![h] = a]

\* Any set of holders gives its addresses back (one transaction may release
\* the leases of several sessions).
Return(H) == lease' = [h \in Holders |-> IF h \in H THEN Free ELSE lease[h]]

Next ==
    \/ \E h \in Holders, a \in Space : Grant(h, a)
    \/ \E H \in SUBSET Holders : Return(H)

Spec == Init /\ [][Next]_lease
=============================================================================
