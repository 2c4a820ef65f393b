---------------------------- MODULE AddressPool ----------------------------
(***************************************************************************)
(* The allocator of WireGuard client addresses: resources/addresses/ of    *)
(* packages/control-plane/src (allocator.ts, repository.ts), over the      *)
(* tables of migration 0007.                                               *)
(*                                                                         *)
(* A scheduling transaction takes the row locks of the sessions it         *)
(* schedules, then calls ensureClientAddressLease for one after the other. *)
(* The first call that has to allocate locks every pool row FOR UPDATE, so *)
(* one transaction at a time allocates; releases take no pool lock and run *)
(* in the middle of a scan, which is why the scan is modelled insert by    *)
(* insert.  The transaction may be rolled back (an exception while a later *)
(* session of the batch is scheduled).                                     *)
(*                                                                         *)
(* A definition named Bug_X, here and in the other modules, is a plausible *)
(* mistake in the definition that follows it; no action uses it.           *)
(*                                                                         *)
(* An address is a pair <<pool, offset>>: the pools are disjoint CIDR      *)
(* blocks, and CIDR parsing and dotted-quad formatting are left out.       *)
(***************************************************************************)
EXTENDS Integers

CONSTANTS
    Sessions,   \* session ids
    NumPools,   \* number of enabled pools, in (priority, name) order
    PoolSize,   \* PoolSize[p]: the addresses of pool p, 2^(32 - prefix)
    InitOffset  \* InitOffset[p]: next_offset at the start (1 unless edited)

Pools == 1..NumPools

ASSUME PoolAssumption ==
    /\ NumPools \in Nat
    /\ PoolSize \in [Pools -> Nat \ {0}]
    /\ InitOffset \in [Pools -> Nat]

Offsets(p) == 0..(PoolSize[p] - 1)
Addresses == UNION {{p} \X Offsets(p) : p \in Pools}
NoAddress == <<0, 0>>

VARIABLES
    lease,       \* lease[s]: the address of s's row with released_at NULL, or NoAddress
    nextOffset,  \* nextOffset[p]: address_pools.next_offset
    open,        \* some transaction holds the pool locks
    outcome,     \* what that transaction did for each session so far
    undo,        \* the offsets its rollback restores
    scanFor,     \* the session it runs a scan for: {} or a singleton
    pool,        \* the scan's pool
    attempt,     \* and its attempt inside that pool
    taken         \* history: the addresses the current scan found taken

txVars == <<open, outcome, undo>>
scanVars == <<scanFor, pool, attempt>>
poolVars == <<lease, nextOffset, txVars, scanVars, taken>>

Outcomes == {"none", "granted", "exhausted"}

PoolTypeOK ==
    /\ lease \in [Sessions -> Addresses \cup {NoAddress}]
    /\ nextOffset \in [Pools -> Nat]
    /\ open \in BOOLEAN
    /\ outcome \in [Sessions -> Outcomes]
    /\ undo \in [Pools -> Nat]
    /\ scanFor \in SUBSET Sessions
    /\ pool \in Nat
    /\ attempt \in Nat
    /\ taken \in SUBSET Addresses

-----------------------------------------------------------------------------
Untouched == [s \in Sessions |-> "none"]

\* The addresses the active-address index refuses.
Held == {lease[s] : s \in Sessions} \ {NoAddress}

\* findActiveClientAddressLease found no row.
Bug_NeverLooked(s) == TRUE
NeedsLease(s) == lease[s] = NoAddress

\* The first pool of the (priority, name) order.
Bug_LastPoolFirst == NumPools
FirstPool == 1

\* The offset of the current attempt.
Bug_StartAtLast == (nextOffset[pool] + PoolSize[pool] - 1) % PoolSize[pool]
StartOffset == nextOffset[pool] % PoolSize[pool]

Offset == (StartOffset + attempt) % PoolSize[pool]

\* The pool's last attempt.
Bug_StopAtEnd == Offset + 1 = PoolSize[pool]
LastAttempt == attempt + 1 = PoolSize[pool]

PoolInit ==
    /\ lease = [s \in Sessions |-> NoAddress]
    /\ nextOffset = InitOffset
    /\ open = FALSE
    /\ outcome = Untouched
    /\ undo = nextOffset
    /\ scanFor = {}
    /\ pool = 1
    /\ attempt = 0
    /\ taken = {}

\* ensureClientAddressLease of a session without a lease: the pools are locked
\* (if this transaction does not hold them yet) and the scan starts.  A session
\* that has a lease gets it back at once and nothing changes.
BeginPick(s) ==
    /\ scanFor = {}
    /\ NeedsLease(s)
    /\ outcome[s] = "none"
    /\ open' = TRUE
    /\ undo' = IF open THEN undo ELSE nextOffset
    /\ scanFor' = {s}
    /\ pool' = FirstPool
    /\ attempt' = 0
    /\ taken' = {}
    /\ UNCHANGED <<lease, nextOffset, outcome>>

\* INSERT ... ON CONFLICT DO NOTHING found the address taken: next attempt.
ProbeTaken ==
    /\ scanFor # {}
    /\ pool \in Pools
    /\ <<pool, Offset>> \in Held
    /\ taken' = taken \cup {<<pool, Offset>>}
    /\ IF LastAttempt
       THEN attempt' = 0 /\ pool' = pool + 1
       ELSE attempt' = attempt + 1 /\ pool' = pool
    /\ UNCHANGED <<lease, nextOffset, txVars, scanFor>>

\* The insert succeeded: the cursor moves past the granted offset.
ProbeFree(s) ==
    /\ scanFor = {s}
    /\ pool \in Pools
    /\ <<pool, Offset>> \notin Held
    /\ lease' = [lease EXCEPT ![s] = <<pool, Offset>>]
    /\ nextOffset' = [nextOffset EXCEPT ![pool] = (Offset + 1) % PoolSize[pool]]
    /\ outcome' = [outcome EXCEPT ![s] = "granted"]
    /\ scanFor' = {}
    /\ UNCHANGED <<open, undo, pool, attempt, taken>>

\* Every pool is scanned: null, and the session is failed by the caller.
ScanExhausted(s) ==
    /\ scanFor = {s}
    /\ pool \notin Pools
    /\ outcome' = [outcome EXCEPT ![s] = "exhausted"]
    /\ scanFor' = {}
    /\ UNCHANGED <<lease, nextOffset, open, undo, pool, attempt, taken>>

CommitTx ==
    /\ open
    /\ scanFor = {}
    /\ open' = FALSE
    /\ outcome' = Untouched
    /\ UNCHANGED <<lease, nextOffset, undo, scanVars, taken>>

RollbackTx ==
    /\ open
    /\ open' = FALSE
    /\ outcome' = Untouched
    /\ lease' = [s \in Sessions |-> IF outcome[s] = "granted" THEN NoAddress ELSE lease[s]]
    /\ nextOffset' = undo
    /\ scanFor' = {}
    /\ UNCHANGED <<undo, pool, attempt, taken>>

\* releaseClientAddressLease, in the transaction that revokes or fails s.  It
\* holds s's row lock, so s is not one of the sessions being scheduled.
Release(s) ==
    /\ lease[s] # NoAddress
    /\ outcome[s] = "none"
    /\ lease' = [lease EXCEPT ![s] = NoAddress]
    /\ UNCHANGED <<nextOffset, txVars, scanVars, taken>>

PoolNext ==
    \/ ProbeTaken
    \/ CommitTx
    \/ RollbackTx
    \/ \E s \in Sessions : BeginPick(s) \/ ProbeFree(s) \/ ScanExhausted(s) \/ Release(s)

PoolSpec == PoolInit /\ [][PoolNext]_poolVars

-----------------------------------------------------------------------------
\* Each address is held by at most one session, whatever the cursors say and
\* however releases and rollbacks interleave with a scan
\* (client_address_leases_active_address_idx).
ActiveLeaseUnique ==
    \A s, t \in Sessions : lease[s] = lease[t] /\ lease[s] # NoAddress => s = t

\* "No WireGuard client address is currently available" is said only when the
\* scan has really met every address of every pool and found it taken: the
\* wrap-around of the cursor skips none.
ExhaustionIsReal ==
    [][\A s \in Sessions :
         outcome[s] = "none" /\ outcome'[s] = "exhausted" => taken = Addresses]_poolVars

GrantStep(s) == outcome[s] = "none" /\ outcome'[s] = "granted"

\* A pool is used only when every address of the pools before it was taken.
PriorityRespected ==
    [][\A s \in Sessions : GrantStep(s) =>
         \A a \in Addresses : a[1] < lease'[s][1] => a \in taken]_poolVars

\* The address just behind a pool's cursor, the one it granted last, is granted
\* again only when every other address of that pool was taken: a peer that is
\* still being torn down keeps its address to itself as long as the pool allows.
LastGrantedIsLastChoice ==
    [][\A s \in Sessions : GrantStep(s) =>
         LET p == lease'[s][1] IN
         (lease'[s][2] + 1) % PoolSize[p] = nextOffset[p] % PoolSize[p] =>
            \A o \in Offsets(p) \ {lease'[s][2]} : <<p, o>> \in taken]_poolVars

\* The scan as a whole: it begins behind the address granted last, skips none, and
\* goes to the next pool or gives up when it has met all (ensureClientAddressLease).
ScanIsExact == ExhaustionIsReal /\ PriorityRespected /\ LastGrantedIsLastChoice

\* The allocator implements the promise of AddressLease.
LeaseTable == INSTANCE AddressLease
    WITH Holders <- Sessions, Space <- Addresses, Free <- NoAddress
LeasePromise == LeaseTable!Spec
=============================================================================
