--------------------------- MODULE SessionAdmission ---------------------------
(***************************************************************************)
(* One account asks for sessions.  Each call of the API is a transaction   *)
(* that locks the account's row, looks for the request among the sessions  *)
(* that exist, counts twice and inserts (createRequestedSessionWith-       *)
(* AbuseControls).  Meanwhile sessions are paid for or deleted, end, are   *)
(* reactivated by an administrator and hidden by their owner, and none of  *)
(* that takes the account's lock.                                          *)
(***************************************************************************)
EXTENDS Naturals, FiniteSets

CONSTANTS
    Callers,      \* calls that can be at work at the same time
    AskedFor,     \* the create request ids
    MaxActive,    \* maxActiveSessionsPerAccount
    MaxRecent,    \* maxSessionCreatesPerWindow
    RateWindow,   \* sessionCreateWindowSeconds
    MaxElapsed,   \* bound: the time
    MaxSessions,  \* bound: sessions inserted
    MaxLifted     \* bound: reactivations

ASSUME AdmissionAssumption ==
    {MaxActive, MaxRecent, RateWindow, MaxElapsed, MaxSessions, MaxLifted} \subseteq Nat

VARIABLES
    rows,      \* the sessions of the account
    calls,     \* what each call does next
    lock,      \* the call that holds the account's row, or {}
    hiding,    \* sessions whose owner's request to hide them read them as over
    raced,     \* sessions that were reactivated after such a read
    lifted,    \* reactivations so far
    inserted,  \* sessions so far; the next id
    clashes,   \* calls that died of the unique index
    elapsed    \* the time

admissionVars == <<rows, calls, lock, hiding, raced, lifted, inserted, clashes, elapsed>>
lifeVars == <<hiding, raced, lifted>>

\* A session's phase, as far as admission tells phases apart: 'exhausted' and
\* 'revoked' stand for revoked, the first after traffic_quota_exhausted, and failed.
RowPhases == {"payment_pending", "live", "exhausted", "revoked"}
Over == {"exhausted", "revoked"}
NoCall == [pc |-> "idle"]

AdmissionTypeOK ==
    /\ \A s \in rows : /\ s.id \in 1..MaxSessions
                       /\ s.request \in AskedFor
                       /\ s.created \in 0..MaxElapsed
                       /\ s.phase \in RowPhases
                       /\ s.hidden \in BOOLEAN
    /\ \A c \in Callers :
           \/ calls[c] = NoCall
           \/ /\ calls[c].pc \in {"find", "active", "recent", "insert"}
              /\ calls[c].request \in AskedFor
              /\ calls[c].now \in 0..elapsed
    /\ lock \subseteq Callers
    /\ hiding \cup raced \subseteq 1..MaxSessions
    /\ lifted \in 0..MaxLifted /\ inserted \in 0..MaxSessions
    /\ clashes \in Nat /\ elapsed \in 0..MaxElapsed

AdmissionInit ==
    /\ rows = {}
    /\ calls = [c \in Callers |-> NoCall]
    /\ lock = {}
    /\ hiding = {} /\ raced = {}
    /\ lifted = 0 /\ inserted = 0 /\ clashes = 0 /\ elapsed = 0

GoOn(c, step) == calls' = [calls EXCEPT ![c].pc = step]

\* The transaction ends: it answers, is refused or dies, and gives up its lock.
EndCall(c) ==
    /\ calls' = [calls EXCEPT ![c] = NoCall]
    /\ lock' = lock \ {c}

-------------------------------------------------------------------------------
\* now() is the start of the transaction, before it waits for the lock.
BeginCall(c, request) ==
    /\ calls[c] = NoCall
    /\ calls' = [calls EXCEPT ![c] = [pc |-> "find", request |-> request, now |-> elapsed]]
    /\ UNCHANGED <<rows, lock, lifeVars, inserted, clashes, elapsed>>

AdmissionDies(c) ==
    /\ calls[c] # NoCall
    /\ EndCall(c)
    /\ UNCHANGED <<rows, lifeVars, inserted, clashes, elapsed>>

\* findSessionIdByCreateRequest, the index it is read from and its mutant.
OfRequest(request) == {s \in rows : s.request = request}
OfRequestVisible(request) == {s \in rows : s.request = request /\ ~s.hidden}
SessionOfRequest(request) == OfRequest(request)

findUnlocked(c) ==
    /\ calls[c].pc = "find"
    /\ IF SessionOfRequest(calls[c].request) # {}
       THEN EndCall(c)
       ELSE GoOn(c, "active") /\ lock' = lock \cup {c}
    /\ UNCHANGED <<rows, lifeVars, inserted, clashes, elapsed>>

\* lockAccountForSessionCreate, and the session the request already has.
lockAndFind(c) ==
    /\ calls[c].pc = "find"
    /\ lock = {}
    /\ IF SessionOfRequest(calls[c].request) # {}
       THEN EndCall(c)
       ELSE GoOn(c, "active") /\ lock' = {c}
    /\ UNCHANGED <<rows, lifeVars, inserted, clashes, elapsed>>

NonTerminal == {s \in rows : ~s.hidden /\ s.phase \notin Over}

countNonTerminal(c) ==
    /\ calls[c].pc = "active"
    /\ IF Cardinality(NonTerminal) >= MaxActive
       THEN EndCall(c)
       ELSE GoOn(c, "recent") /\ UNCHANGED lock
    /\ UNCHANGED <<rows, lifeVars, inserted, clashes, elapsed>>

RecentVisible(now) == {s \in rows : s.created + RateWindow >= now /\ ~s.hidden}
Recent(now) == {s \in rows : s.created + RateWindow >= now}

\* The path is chosen between this count and the insertion; without one it ends.
countRecent(c) ==
    /\ calls[c].pc = "recent"
    /\ \/ GoOn(c, "insert") /\ Cardinality(Recent(calls[c].now)) < MaxRecent /\ UNCHANGED lock
       \/ EndCall(c)
    /\ UNCHANGED <<rows, lifeVars, inserted, clashes, elapsed>>

\* A paid session waits for its payment, a free or granted one does not.
insertRequestedSession(c) ==
    /\ calls[c].pc = "insert"
    /\ inserted < MaxSessions
    /\ IF OfRequest(calls[c].request) # {}
       THEN clashes' = clashes + 1 /\ UNCHANGED <<rows, inserted>>
       ELSE /\ \E phase \in {"payment_pending", "live"} :
                   rows' = rows \cup {[id |-> inserted + 1, request |-> calls[c].request,
                                       created |-> calls[c].now, phase |-> phase, hidden |-> FALSE]}
            /\ inserted' = inserted + 1
            /\ UNCHANGED clashes
    /\ EndCall(c)
    /\ UNCHANGED <<lifeVars, elapsed>>

-------------------------------------------------------------------------------
Become(s, phase) == rows' = (rows \ {s}) \cup {[s EXCEPT !.phase = phase]}

activatePaidSession(s) ==
    /\ s.phase = "payment_pending"
    /\ Become(s, "live")
    /\ UNCHANGED <<calls, lock, lifeVars, inserted, clashes, elapsed>>

deleteUnpaidSession(s) ==
    /\ s.phase = "payment_pending"
    /\ rows' = rows \ {s}
    /\ UNCHANGED <<calls, lock, lifeVars, inserted, clashes, elapsed>>

\* Revoked by its owner or the system, or failed.
EndSession(s) ==
    /\ s.phase \notin Over
    /\ \E phase \in Over : Become(s, phase)
    /\ UNCHANGED <<calls, lock, lifeVars, inserted, clashes, elapsed>>

\* adjustSessionTrafficQuota, which locks the session and looks at no limit.
Reactivate(s) ==
    /\ s.phase = "exhausted"
    /\ ~s.hidden
    /\ lifted < MaxLifted
    /\ Become(s, "live")
    /\ lifted' = lifted + 1
    /\ raced' = IF s.id \in hiding THEN raced \cup {s.id} ELSE raced
    /\ UNCHANGED <<calls, lock, hiding, inserted, clashes, elapsed>>

canHideStarted(s) == ~s.hidden /\ s.phase # "payment_pending"
canHideSession(s) == ~s.hidden /\ s.phase \in Over

\* deleteOwnedHiddenSession: findOwnedSessionVisibilityForUpdate takes no lock ...
ReadVisibility(s) ==
    /\ canHideSession(s)
    /\ hiding' = hiding \cup {s.id}
    /\ UNCHANGED <<rows, calls, lock, raced, lifted, inserted, clashes, elapsed>>

\* ... and hideOwnedSession does not look again.
hideOwnedSession(s) ==
    /\ s.id \in hiding
    /\ rows' = (rows \ {s}) \cup {[s EXCEPT !.hidden = TRUE]}
    /\ hiding' = hiding \ {s.id}
    /\ UNCHANGED <<calls, lock, raced, lifted, inserted, clashes, elapsed>>

AdmissionTick ==
    /\ elapsed < MaxElapsed
    /\ elapsed' = elapsed + 1
    /\ UNCHANGED <<rows, calls, lock, lifeVars, inserted, clashes>>

AdmissionNext ==
    \/ \E c \in Callers :
           \/ \E request \in AskedFor : BeginCall(c, request)
           \/ AdmissionDies(c) \/ lockAndFind(c) \/ countNonTerminal(c) \/ countRecent(c)
           \/ insertRequestedSession(c)
    \/ \E s \in rows :
           \/ activatePaidSession(s) \/ deleteUnpaidSession(s) \/ EndSession(s) \/ Reactivate(s)
           \/ ReadVisibility(s) \/ hideOwnedSession(s)
    \/ AdmissionTick

AdmissionSpec == AdmissionInit /\ [][AdmissionNext]_admissionVars

-------------------------------------------------------------------------------
\* Calls that run at once do not take an account over its limit of active sessions;
\* only an administrator does who reactivates one (countNonTerminalSessionsForAccount).
ActiveLimitHolds == Cardinality(NonTerminal) <= MaxActive + lifted

\* No stretch of time as long as the window has more creations than it may, though
\* a call counts long after its now() was fixed, behind calls that began later
\* (countRecentSessionCreatesForAccount).
CreateRateHolds ==
    \A t \in 0..MaxElapsed :
        Cardinality({s \in rows : s.created \in t..(t + RateWindow)}) <= MaxRecent

\* A retry finds the session of its request, whatever became of it: no call fails at
\* the unique index (findSessionIdByCreateRequest).
RetriesResume == clashes = 0

\* All controls of admission at once: the account's row lock, two counts and the
\* unique index hold them against calls that overlap, die and are tried again
\* (createRequestedSessionWithAbuseControls).
AdmissionIsControlled == ActiveLimitHolds /\ CreateRateHolds /\ RetriesResume

\* A hidden session is over, unless an administrator reactivated it after the owner's
\* request had read it (canHideSession, deleteOwnedHiddenSession).
HiddenIsOver == \A s \in rows : s.hidden /\ s.phase \notin Over => s.id \in raced
===============================================================================
