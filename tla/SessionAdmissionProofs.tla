------------------------ MODULE SessionAdmissionProofs ------------------------
(***************************************************************************)
(* Proofs about what a new session is given: its place (SessionAdmission)  *)
(* and its address (AddressPool).                                          *)
(*                                                                         *)
(* The limits hold for any number of calls at once, any limits, windows    *)
(* and times, and however sessions end, are reactivated, deleted and       *)
(* hidden meanwhile: a call counts under the account's lock and inserts    *)
(* under it, and what others do without the lock never adds to what it has *)
(* counted, except that an administrator reactivates a session.            *)
(*                                                                         *)
(* The allocator gives each address to one session, and its scans skip     *)
(* none, for every set of sessions and every configuration of pools.       *)
(***************************************************************************)
EXTENDS SessionAdmission, AddressPool, FiniteSetTheorems, TLAPS

RowRecords == [id : Nat, request : AskedFor, created : Nat, phase : RowPhases, hidden : BOOLEAN]
CallRecords == [pc : {"find", "active", "recent", "insert"}, request : AskedFor, now : Nat]

AdmissionTyped ==
    /\ rows \subseteq RowRecords /\ IsFiniteSet(rows)
    /\ calls \in [Callers -> CallRecords \cup {NoCall}]
    /\ hiding \cup raced \subseteq Nat
    /\ lifted \in Nat /\ inserted \in Nat /\ clashes \in Nat /\ elapsed \in Nat

\* Ids are never used again.
IdsAreNew ==
    /\ \A s \in rows : s.id <= inserted
    /\ \A s, t \in rows : s.id = t.id => s = t
    /\ \A i \in hiding \cup raced : i <= inserted

\* Who has found and counted holds the lock, and what it found and counted stays.
FoundStays ==
    \A c \in Callers : calls[c].pc \in {"active", "recent", "insert"} =>
        lock = {c} /\ OfRequest(calls[c].request) = {}
ActiveStays ==
    \A c \in Callers : calls[c].pc \in {"recent", "insert"} =>
        Cardinality(NonTerminal) < MaxActive + lifted
RecentStays ==
    \A c \in Callers : calls[c].pc = "insert" =>
        Cardinality(Recent(calls[c].now)) < MaxRecent

Created(t) == {s \in rows : s.created \in t..(t + RateWindow)}
RateAlways == \A t \in Nat : Cardinality(Created(t)) <= MaxRecent

\* What was read as over is over, or was reactivated since.
HidingIsOver == \A s \in rows : s.id \in hiding /\ s.phase \notin Over => s.id \in raced

------------------------------------------------------------------------------
\* A set in which one element takes the place of another, or is lost.
LEMMA ReplaceOne ==
    ASSUME NEW S, IsFiniteSet(S), NEW T, NEW s, NEW r,
           T \subseteq (S \ {s}) \cup {r}, r \in T => s \in S
    PROVE  IsFiniteSet(T) /\ Cardinality(T) <= Cardinality(S)
<1>0. Cardinality(S) \in Nat
  BY FS_CardinalityType
<1>1. /\ IsFiniteSet(S \ {s})
      /\ Cardinality(S \ {s}) = IF s \in S THEN Cardinality(S) - 1 ELSE Cardinality(S)
  BY FS_RemoveElement
<1>2. CASE r \in T
  <2> DEFINE U == S \ {s}
  <2>1. IsFiniteSet(U) /\ Cardinality(U) = Cardinality(S) - 1 /\ T \in SUBSET (U \cup {r})
    BY <1>1, <1>2
  <2> HIDE DEF U
  <2>2. IsFiniteSet(U \cup {r}) /\ Cardinality(U \cup {r}) <= Cardinality(U) + 1
    BY <1>0, <2>1, FS_AddElement
  <2>3. IsFiniteSet(T) /\ Cardinality(T) <= Cardinality(U \cup {r})
    BY <2>1, <2>2, FS_Subset
  <2>4. Cardinality(T) \in Nat /\ Cardinality(U \cup {r}) \in Nat
    BY <2>2, <2>3, FS_CardinalityType
  <2>. QED
    BY <1>0, <2>1, <2>2, <2>3, <2>4
<1>3. CASE r \notin T
  <2>1. T \in SUBSET S
    BY <1>3
  <2>. QED
    BY <2>1, FS_Subset
<1>. QED
  BY <1>2, <1>3

LEMMA AddOne ==
    ASSUME NEW S, IsFiniteSet(S), NEW T, NEW r, T \subseteq S \cup {r}
    PROVE  IsFiniteSet(T) /\ Cardinality(T) <= Cardinality(S) + 1
<1>0. Cardinality(S) \in Nat
  BY FS_CardinalityType
<1> DEFINE U == S \cup {r}
<1>1. IsFiniteSet(U) /\ Cardinality(U) <= Cardinality(S) + 1 /\ T \in SUBSET U
  <2>1. /\ IsFiniteSet(S \cup {r})
        /\ Cardinality(S \cup {r}) = IF r \in S THEN Cardinality(S) ELSE Cardinality(S) + 1
    BY FS_AddElement
  <2>. QED
    BY <1>0, <2>1
<1> HIDE DEF U
<1>2. IsFiniteSet(T) /\ Cardinality(T) <= Cardinality(U)
  BY <1>1, FS_Subset
<1>3. Cardinality(T) \in Nat /\ Cardinality(U) \in Nat
  BY <1>1, <1>2, FS_CardinalityType
<1>. QED
  BY <1>0, <1>1, <1>2, <1>3

------------------------------------------------------------------------------
AdmissionInv ==
    /\ AdmissionTyped
    /\ IdsAreNew
    /\ FoundStays
    /\ ActiveStays
    /\ RecentStays
    /\ ActiveLimitHolds
    /\ RateAlways
    /\ RetriesResume
    /\ HiddenIsOver
    /\ HidingIsOver

\* The counts are of finite sets.
LEMMA CountsAreFinite ==
    ASSUME AdmissionTyped
    PROVE  /\ IsFiniteSet(NonTerminal) /\ Cardinality(NonTerminal) \in Nat
           /\ \A n : IsFiniteSet(Recent(n)) /\ Cardinality(Recent(n)) \in Nat
           /\ \A n : IsFiniteSet(Created(n)) /\ Cardinality(Created(n)) \in Nat
<1>1. ASSUME NEW T \in SUBSET rows PROVE IsFiniteSet(T) /\ Cardinality(T) \in Nat
  <2>1. IsFiniteSet(rows)
    BY DEF AdmissionTyped
  <2>2. IsFiniteSet(T)
    BY <2>1, FS_Subset
  <2>. QED
    BY <2>2, FS_CardinalityType
<1>2. NonTerminal \in SUBSET rows /\ \A n : Recent(n) \in SUBSET rows /\ Created(n) \in SUBSET rows
  BY DEF NonTerminal, Recent, Created
<1>. QED
  BY <1>1, <1>2

LEMMA CountsAreFiniteNext ==
    AdmissionTyped' => /\ (Cardinality(NonTerminal) \in Nat)'
              /\ (\A n : Cardinality(Recent(n)) \in Nat /\ Cardinality(Created(n)) \in Nat)'
<1>1. AdmissionTyped => /\ Cardinality(NonTerminal) \in Nat
               /\ \A n : Cardinality(Recent(n)) \in Nat /\ Cardinality(Created(n)) \in Nat
  BY CountsAreFinite
<1>. QED
  BY <1>1, PTL

\* A step of the life of one session: it is changed or deleted.
LEMMA RowStep ==
    ASSUME AdmissionAssumption, AdmissionInv, NEW s \in rows, NEW r \in RowRecords,
           r.id = s.id, r.request = s.request, r.created = s.created,
           rows' = rows \ {s} \/ rows' = (rows \ {s}) \cup {r},
           UNCHANGED <<calls, lock, inserted, clashes, elapsed>>,
           (hiding \cup raced)' \subseteq Nat,
           \/ /\ lifted' = lifted
              /\ ~r.hidden /\ r.phase \notin Over => ~s.hidden /\ s.phase \notin Over
           \/ lifted' = lifted + 1
    PROVE  AdmissionTyped' /\ FoundStays' /\ ActiveStays' /\ RecentStays' /\ ActiveLimitHolds' /\ RateAlways'
<1>0. /\ MaxActive \in Nat /\ MaxRecent \in Nat /\ lifted \in Nat /\ IsFiniteSet(rows)
      /\ rows' \subseteq (rows \ {s}) \cup {r}
  BY DEF AdmissionAssumption, AdmissionInv, AdmissionTyped
<1>1. AdmissionTyped'
  <2>1. IsFiniteSet(rows')
    BY <1>0, AddOne
  <2>. QED
    BY <1>0, <2>1 DEF AdmissionInv, AdmissionTyped
<1>2. FoundStays'
  BY <1>0 DEF AdmissionInv, FoundStays, OfRequest
<1>3. Cardinality(NonTerminal') <= Cardinality(NonTerminal) + (lifted' - lifted)
  <2>1. NonTerminal' \subseteq (NonTerminal \ {s}) \cup {r} /\ IsFiniteSet(NonTerminal)
    BY <1>0, CountsAreFinite DEF AdmissionInv, NonTerminal
  <2>2. CASE lifted' = lifted
    <3>1. r \in NonTerminal' => s \in NonTerminal
      BY <2>2, <1>0 DEF NonTerminal
    <3>2. Cardinality(NonTerminal') <= Cardinality(NonTerminal)
      BY <2>1, <3>1, ReplaceOne
    <3>. QED
      BY <1>0, <2>2, <3>2, CountsAreFinite DEF AdmissionInv
  <2>3. CASE lifted' = lifted + 1
    <3>1. Cardinality(NonTerminal') <= Cardinality(NonTerminal) + 1
      BY <2>1, AddOne
    <3>. QED
      BY <1>0, <2>3, <3>1
  <2>. QED
    BY <2>2, <2>3
<1>4. Cardinality(NonTerminal) \in Nat /\ Cardinality(NonTerminal') \in Nat /\ lifted' \in Nat
  <2>1. AdmissionTyped' => (Cardinality(NonTerminal) \in Nat)'
    BY CountsAreFiniteNext
  <2>. QED
    BY <1>1, <2>1, CountsAreFinite DEF AdmissionInv, AdmissionTyped
<1>5. ActiveStays' /\ ActiveLimitHolds'
  BY <1>0, <1>3, <1>4 DEF AdmissionInv, ActiveStays, ActiveLimitHolds
<1>6. ASSUME NEW n \in Nat
      PROVE  /\ Cardinality(Recent(n)') <= Cardinality(Recent(n))
             /\ Cardinality(Created(n)') <= Cardinality(Created(n))
  <2>1. /\ Recent(n)' \subseteq (Recent(n) \ {s}) \cup {r}
        /\ r \in Recent(n)' => s \in Recent(n)
        /\ Created(n)' \subseteq (Created(n) \ {s}) \cup {r}
        /\ r \in Created(n)' => s \in Created(n)
    BY <1>0 DEF Recent, Created
  <2>2. IsFiniteSet(Recent(n)) /\ IsFiniteSet(Created(n))
    BY CountsAreFinite DEF AdmissionInv
  <2>. QED
    BY <2>1, <2>2, ReplaceOne
<1>7. ASSUME NEW n \in Nat
      PROVE  /\ Cardinality(Recent(n)) \in Nat /\ Cardinality(Recent(n)') \in Nat
             /\ Cardinality(Created(n)) \in Nat /\ Cardinality(Created(n)') \in Nat
  BY <1>1, CountsAreFinite, CountsAreFiniteNext DEF AdmissionInv
<1>8. RecentStays'
  <2>1. SUFFICES ASSUME NEW c \in Callers, calls[c].pc = "insert"
                 PROVE  Cardinality(Recent(calls[c].now)') < MaxRecent
    BY DEF RecentStays
  <2>2. PICK n \in Nat : n = calls[c].now /\ n = calls'[c].now
    <3>1. calls[c] \in CallRecords \cup {NoCall}
      BY DEF AdmissionInv, AdmissionTyped
    <3>2. calls[c] # NoCall
      BY <2>1 DEF NoCall
    <3>3. calls[c].now \in Nat
      BY <3>1, <3>2 DEF CallRecords
    <3>. QED
      BY <3>3
  <2>3. Recent(calls[c].now) = Recent(n) /\ Recent(calls[c].now)' = Recent(n)'
    BY <2>2 DEF Recent
  <2>4. Cardinality(Recent(n)) < MaxRecent
    BY <2>1, <2>3 DEF AdmissionInv, RecentStays
  <2>. QED
    BY <1>0, <1>6, <1>7, <2>3, <2>4
<1>9. RateAlways'
  <2>1. SUFFICES ASSUME NEW n \in Nat PROVE Cardinality(Created(n)') <= MaxRecent
    BY DEF RateAlways
  <2>2. Cardinality(Created(n)) <= MaxRecent
    BY DEF AdmissionInv, RateAlways
  <2>. QED
    BY <1>0, <1>6, <1>7, <2>2
<1>. QED
  BY <1>1, <1>2, <1>5, <1>8, <1>9

\* The insertion: it counts itself in, where it counted before.
LEMMA InsertStep ==
    ASSUME AdmissionAssumption, AdmissionInv, NEW c \in Callers, insertRequestedSession(c)
    PROVE  AdmissionInv'
<1>0. /\ MaxActive \in Nat /\ MaxRecent \in Nat /\ RateWindow \in Nat /\ IsFiniteSet(rows)
      /\ lifted \in Nat /\ inserted \in Nat /\ clashes \in Nat /\ lifted' = lifted
      /\ hiding' = hiding /\ raced' = raced /\ elapsed' = elapsed
  BY DEF AdmissionAssumption, AdmissionInv, AdmissionTyped, insertRequestedSession, lifeVars
<1>1. calls[c].pc = "insert" /\ lock = {c} /\ OfRequest(calls[c].request) = {}
  BY DEF insertRequestedSession, AdmissionInv, FoundStays
<1>2. calls[c].request \in AskedFor /\ calls[c].now \in Nat
  <2>1. calls[c] \in CallRecords \cup {NoCall} /\ calls[c] # NoCall
    BY <1>1 DEF AdmissionInv, AdmissionTyped, NoCall
  <2>. QED
    BY <2>1 DEF CallRecords
<1>3. PICK phase \in {"payment_pending", "live"} :
        rows' = rows \cup {[id |-> inserted + 1, request |-> calls[c].request,
                            created |-> calls[c].now, phase |-> phase, hidden |-> FALSE]}
  BY <1>1 DEF insertRequestedSession
<1> DEFINE r == [id |-> inserted + 1, request |-> calls[c].request,
                 created |-> calls[c].now, phase |-> phase, hidden |-> FALSE]
<1>4. /\ r \in RowRecords /\ rows' = rows \cup {r}
      /\ r.id = inserted + 1 /\ r.created = calls[c].now /\ ~r.hidden /\ r.phase \notin Over
  BY <1>0, <1>2, <1>3 DEF RowRecords, RowPhases, Over
<1> HIDE DEF r
<1>5. /\ inserted' = inserted + 1 /\ clashes' = clashes
      /\ calls' = [calls EXCEPT ![c] = NoCall] /\ lock' = lock \ {c}
  BY <1>1 DEF insertRequestedSession, EndCall
<1>6. AdmissionTyped'
  <2>1. IsFiniteSet(rows')
    BY <1>0, <1>4, AddOne
  <2>. QED
    BY <1>0, <1>4, <1>5, <2>1 DEF AdmissionInv, AdmissionTyped
<1>7. IdsAreNew'
  <2>1. \A s \in rows : s.id \in Nat /\ s.id <= inserted
    BY DEF AdmissionInv, AdmissionTyped, RowRecords, IdsAreNew
  <2>2. \A i \in hiding \cup raced : i <= inserted'
    BY <1>0, <1>5 DEF AdmissionInv, IdsAreNew, AdmissionTyped
  <2>. QED
    BY <1>0, <1>4, <1>5, <2>1, <2>2 DEF AdmissionInv, IdsAreNew
<1>8. \A d \in Callers : calls'[d].pc \notin {"active", "recent", "insert"}
  <2>1. ASSUME NEW d \in Callers, d # c PROVE calls[d].pc \notin {"active", "recent", "insert"}
    BY <1>1, <2>1 DEF AdmissionInv, FoundStays
  <2>2. calls'[c] = NoCall /\ \A d \in Callers : d # c => calls'[d] = calls[d]
    BY <1>5 DEF AdmissionInv, AdmissionTyped
  <2>. QED
    BY <2>1, <2>2 DEF NoCall
<1>9. FoundStays' /\ ActiveStays' /\ RecentStays'
  BY <1>8 DEF FoundStays, ActiveStays, RecentStays
<1>10. ActiveLimitHolds'
  <2>1. Cardinality(NonTerminal) < MaxActive + lifted
    BY <1>1 DEF AdmissionInv, ActiveStays
  <2>2. NonTerminal' \subseteq NonTerminal \cup {r}
    BY <1>4 DEF NonTerminal
  <2>3. Cardinality(NonTerminal') <= Cardinality(NonTerminal) + 1
    BY <2>2, CountsAreFinite, AddOne DEF AdmissionInv
  <2>4. Cardinality(NonTerminal) \in Nat /\ Cardinality(NonTerminal') \in Nat
    BY <1>6, CountsAreFinite, CountsAreFiniteNext DEF AdmissionInv
  <2>. QED
    BY <1>0, <2>1, <2>3, <2>4 DEF ActiveLimitHolds
<1>11. RateAlways'
  <2>1. SUFFICES ASSUME NEW n \in Nat PROVE Cardinality(Created(n)') <= MaxRecent
    BY DEF RateAlways
  <2>2. Cardinality(Created(n)') \in Nat /\ Cardinality(Created(n)) \in Nat
    BY <1>6, CountsAreFinite, CountsAreFiniteNext DEF AdmissionInv
  <2>3. CASE calls[c].now \in n..(n + RateWindow)
    <3>1. PICK now \in Nat : now = calls[c].now
      BY <1>2
    <3>2. Created(n)' \subseteq Recent(now) \cup {r}
      BY <1>0, <1>4, <2>3, <3>1 DEF Created, Recent, AdmissionInv, AdmissionTyped, RowRecords
    <3>3. IsFiniteSet(Recent(now)) /\ Cardinality(Recent(now)) \in Nat
      BY CountsAreFinite DEF AdmissionInv
    <3>4. Cardinality(Created(n)') <= Cardinality(Recent(now)) + 1
      BY <3>2, <3>3, AddOne
    <3>5. Cardinality(Recent(now)) < MaxRecent
      BY <1>1, <3>1 DEF AdmissionInv, RecentStays
    <3>. QED
      BY <1>0, <2>2, <3>3, <3>4, <3>5
  <2>4. CASE calls[c].now \notin n..(n + RateWindow)
    <3>1. Created(n)' = Created(n)
      BY <1>4, <2>4 DEF Created
    <3>. QED
      BY <3>1 DEF AdmissionInv, RateAlways
  <2>. QED
    BY <2>3, <2>4
<1>12. RetriesResume' /\ HiddenIsOver' /\ HidingIsOver'
  <2>1. r.id \notin hiding
    BY <1>0, <1>4 DEF AdmissionInv, IdsAreNew
  <2>. QED
    BY <1>0, <1>4, <1>5, <2>1 DEF AdmissionInv, RetriesResume, HiddenIsOver, HidingIsOver
<1>. QED
  BY <1>6, <1>7, <1>9, <1>10, <1>11, <1>12 DEF AdmissionInv
\* Ids, and what is hidden or about to be, after a change of one session.
LEMMA LifeStep ==
    ASSUME AdmissionAssumption, AdmissionInv, NEW s \in rows, NEW r \in RowRecords,
           r.id = s.id, r.request = s.request, r.created = s.created,
           rows' = rows \ {s} \/ rows' = (rows \ {s}) \cup {r},
           UNCHANGED <<calls, lock, inserted, clashes, elapsed>>,
           raced \subseteq raced', raced' \subseteq raced \cup hiding, hiding' \subseteq hiding,
           r.phase \notin Over /\ s.phase \in Over /\ s.id \in hiding => s.id \in raced',
           r.phase \notin Over /\ s.phase \in Over => ~r.hidden,
           r.hidden => s.hidden \/ s.id \in hiding,
           \/ /\ lifted' = lifted
              /\ ~r.hidden /\ r.phase \notin Over => ~s.hidden /\ s.phase \notin Over
           \/ lifted' = lifted + 1
    PROVE  AdmissionInv'
<1>1. (hiding \cup raced)' \subseteq Nat
  BY DEF AdmissionInv, AdmissionTyped
<1>2. AdmissionTyped' /\ FoundStays' /\ ActiveStays' /\ RecentStays' /\ ActiveLimitHolds' /\ RateAlways'
  BY <1>1, RowStep
<1>3. IdsAreNew'
  BY DEF AdmissionInv, IdsAreNew
<1>4. HidingIsOver'
  <2>1. SUFFICES ASSUME NEW t \in rows', t.id \in hiding', t.phase \notin Over
                 PROVE  t.id \in raced'
    BY DEF HidingIsOver
  <2>2. CASE t \in rows
    BY <2>1, <2>2 DEF AdmissionInv, HidingIsOver
  <2>3. CASE t = r
    <3>1. CASE s.phase \in Over
      BY <2>1, <2>3, <3>1
    <3>2. CASE s.phase \notin Over
      BY <2>1, <2>3, <3>2 DEF AdmissionInv, HidingIsOver
    <3>. QED
      BY <3>1, <3>2
  <2>. QED
    BY <2>1, <2>2, <2>3
<1>5. HiddenIsOver'
  <2>1. SUFFICES ASSUME NEW t \in rows', t.hidden, t.phase \notin Over
                 PROVE  t.id \in raced'
    BY DEF HiddenIsOver
  <2>2. CASE t \in rows
    BY <2>1, <2>2 DEF AdmissionInv, HiddenIsOver
  <2>3. CASE t = r
    <3>1. s.phase \notin Over /\ (s.hidden \/ s.id \in hiding)
      BY <2>1, <2>3
    <3>. QED
      BY <2>3, <3>1 DEF AdmissionInv, HiddenIsOver, HidingIsOver
  <2>. QED
    BY <2>1, <2>2, <2>3
<1>6. RetriesResume'
  BY DEF AdmissionInv, RetriesResume
<1>. QED
  BY <1>2, <1>3, <1>4, <1>5, <1>6 DEF AdmissionInv

\* A session that becomes something else keeps who it is.
LEMMA Becoming ==
    ASSUME AdmissionInv, NEW s \in rows, NEW phase \in RowPhases, NEW h \in BOOLEAN
    PROVE  /\ [s EXCEPT !.phase = phase] \in RowRecords /\ [s EXCEPT !.hidden = h] \in RowRecords
           /\ s \in RowRecords
BY DEF AdmissionInv, AdmissionTyped, RowRecords

LEMMA SessionSteps ==
    ASSUME AdmissionAssumption, AdmissionInv, NEW s \in rows,
           \/ activatePaidSession(s) \/ deleteUnpaidSession(s) \/ EndSession(s)
           \/ Reactivate(s) \/ hideOwnedSession(s)
    PROVE  AdmissionInv'
<1>0. s \in RowRecords
  BY DEF AdmissionInv, AdmissionTyped
<1>1. CASE activatePaidSession(s)
  <2> DEFINE r == [s EXCEPT !.phase = "live"]
  <2>1. r \in RowRecords /\ r.id = s.id /\ r.request = s.request /\ r.created = s.created
        /\ r.hidden = s.hidden
    BY <1>0 DEF RowRecords, RowPhases
  <2>2. rows' = (rows \ {s}) \cup {r} /\ s.phase \notin Over
    BY <1>1 DEF activatePaidSession, Become, Over
  <2> HIDE DEF r
  <2>. QED
    BY <1>1, <2>1, <2>2, LifeStep DEF activatePaidSession, lifeVars
<1>2. CASE deleteUnpaidSession(s)
  BY <1>0, <1>2, LifeStep DEF deleteUnpaidSession, lifeVars
<1>3. CASE EndSession(s)
  <2>1. PICK phase \in Over : Become(s, phase)
    BY <1>3 DEF EndSession
  <2> DEFINE r == [s EXCEPT !.phase = phase]
  <2>2. r \in RowRecords /\ r.id = s.id /\ r.request = s.request /\ r.created = s.created
        /\ r.hidden = s.hidden /\ r.phase \in Over
    BY <1>0 DEF RowRecords, RowPhases, Over
  <2>3. rows' = (rows \ {s}) \cup {r}
    BY <2>1 DEF Become
  <2> HIDE DEF r
  <2>. QED
    BY <1>3, <2>2, <2>3, LifeStep DEF EndSession, lifeVars
<1>4. CASE Reactivate(s)
  <2> DEFINE r == [s EXCEPT !.phase = "live"]
  <2>1. r \in RowRecords /\ r.id = s.id /\ r.request = s.request /\ r.created = s.created
        /\ ~r.hidden
    BY <1>0, <1>4 DEF RowRecords, RowPhases, Reactivate
  <2>2. rows' = (rows \ {s}) \cup {r} /\ (s.id \in hiding => s.id \in raced')
        /\ raced \subseteq raced' /\ raced' \subseteq raced \cup hiding
    BY <1>4 DEF Reactivate, Become
  <2> HIDE DEF r
  <2>. QED
    BY <1>4, <2>1, <2>2, LifeStep DEF Reactivate
<1>5. CASE hideOwnedSession(s)
  <2> DEFINE r == [s EXCEPT !.hidden = TRUE]
  <2>1. r \in RowRecords /\ r.id = s.id /\ r.request = s.request /\ r.created = s.created
        /\ r.hidden /\ r.phase = s.phase
    BY <1>0 DEF RowRecords
  <2>2. rows' = (rows \ {s}) \cup {r} /\ s.id \in hiding /\ hiding' \subseteq hiding
    BY <1>5 DEF hideOwnedSession
  <2> HIDE DEF r
  <2>. QED
    BY <1>5, <2>1, <2>2, LifeStep DEF hideOwnedSession
<1>. QED
  BY <1>1, <1>2, <1>3, <1>4, <1>5
\* Steps of the calls that do not insert, of the clock and of a request to hide.
LEMMA QuietStep ==
    ASSUME AdmissionAssumption, AdmissionInv,
           UNCHANGED <<rows, raced, lifted, inserted, clashes>>,
           elapsed' \in Nat,
           calls' \in [Callers -> CallRecords \cup {NoCall}],
           \A i \in hiding' \ hiding : \A s \in rows : s.id = i => s.phase \in Over,
           hiding' \ hiding \subseteq {s.id : s \in rows},
           FoundStays', ActiveStays', RecentStays'
    PROVE  AdmissionInv'
<1>1. \A i \in hiding' \ hiding : i \in Nat /\ i <= inserted
  BY DEF AdmissionInv, AdmissionTyped, IdsAreNew, RowRecords
<1>2. AdmissionTyped'
  BY <1>1 DEF AdmissionInv, AdmissionTyped
<1>3. IdsAreNew'
  BY <1>1 DEF AdmissionInv, IdsAreNew
<1>4. HidingIsOver' /\ HiddenIsOver' /\ RetriesResume'
  BY DEF AdmissionInv, HidingIsOver, HiddenIsOver, RetriesResume
<1>5. ActiveLimitHolds'
  BY DEF AdmissionInv, ActiveLimitHolds, NonTerminal
<1>6. RateAlways'
  BY DEF AdmissionInv, RateAlways, Created
<1>. QED
  BY <1>2, <1>3, <1>4, <1>5, <1>6 DEF AdmissionInv

\* What the calls have found and counted, when one of them goes on or ends.
LEMMA CallStep ==
    ASSUME AdmissionAssumption, AdmissionInv, NEW c \in Callers, NEW call \in CallRecords \cup {NoCall},
           UNCHANGED <<rows, hiding, raced, lifted, inserted, clashes, elapsed>>,
           calls' = [calls EXCEPT ![c] = call],
           lock' = lock \/ (lock' = lock \ {c} /\ call = NoCall) \/ (lock = {} /\ lock' = {c}),
           call.pc \in {"active", "recent", "insert"} =>
               lock' = {c} /\ OfRequest(call.request) = {},
           call.pc \in {"recent", "insert"} => Cardinality(NonTerminal) < MaxActive + lifted,
           call.pc = "insert" => Cardinality(Recent(call.now)) < MaxRecent
    PROVE  AdmissionInv'
<1>1. calls' \in [Callers -> CallRecords \cup {NoCall}] /\ calls'[c] = call
      /\ \A d \in Callers : d # c => calls'[d] = calls[d]
  BY DEF AdmissionInv, AdmissionTyped
<1>2. FoundStays'
  <2>1. SUFFICES ASSUME NEW d \in Callers, calls'[d].pc \in {"active", "recent", "insert"}
                 PROVE  lock' = {d} /\ OfRequest(calls'[d].request) = {}
    BY DEF FoundStays, OfRequest
  <2>2. CASE d = c
    BY <1>1, <2>1, <2>2
  <2>3. CASE d # c
    <3>1. calls'[d] = calls[d] /\ lock = {d} /\ OfRequest(calls[d].request) = {}
      BY <1>1, <2>1, <2>3 DEF AdmissionInv, FoundStays
    <3>. QED
      BY <2>3, <3>1
  <2>. QED
    BY <2>2, <2>3
<1>3. NonTerminal' = NonTerminal
  BY DEF NonTerminal
<1>4. ActiveStays'
  <2>1. SUFFICES ASSUME NEW d \in Callers, calls'[d].pc \in {"recent", "insert"}
                 PROVE  Cardinality(NonTerminal) < MaxActive + lifted
    BY <1>3 DEF ActiveStays
  <2>. QED
    BY <1>1, <2>1 DEF AdmissionInv, ActiveStays
<1>5. RecentStays'
  <2>1. SUFFICES ASSUME NEW d \in Callers, calls'[d].pc = "insert"
                 PROVE  Cardinality(Recent(calls'[d].now)) < MaxRecent
    BY DEF RecentStays, Recent
  <2>2. CASE d = c
    BY <1>1, <2>1, <2>2
  <2>3. CASE d # c
    BY <1>1, <2>1, <2>3 DEF AdmissionInv, RecentStays
  <2>. QED
    BY <2>2, <2>3
<1>. QED
  BY <1>1, <1>2, <1>4, <1>5, QuietStep DEF AdmissionInv, AdmissionTyped

\* A call at work has a request and a time.
LEMMA AtWork ==
    ASSUME AdmissionInv, NEW c \in Callers, calls[c] # NoCall,
           NEW step \in {"find", "active", "recent", "insert"}
    PROVE  /\ calls[c] \in CallRecords
           /\ [calls[c] EXCEPT !.pc = step] \in CallRecords
           /\ [calls[c] EXCEPT !.pc = step].pc = step
           /\ [calls[c] EXCEPT !.pc = step].request = calls[c].request
           /\ [calls[c] EXCEPT !.pc = step].now = calls[c].now
<1>1. calls[c] \in CallRecords
  BY DEF AdmissionInv, AdmissionTyped
<1>. QED
  BY <1>1 DEF CallRecords

LEMMA EndStep ==
    ASSUME AdmissionAssumption, AdmissionInv, NEW c \in Callers, EndCall(c),
           UNCHANGED <<rows, hiding, raced, lifted, inserted, clashes, elapsed>>
    PROVE  AdmissionInv'
<1>1. NoCall.pc = "idle"
  BY DEF NoCall
<1>. QED
  BY <1>1, CallStep DEF EndCall

LEMMA GoOnStep ==
    ASSUME AdmissionAssumption, AdmissionInv, NEW c \in Callers, calls[c] # NoCall,
           NEW step \in {"active", "recent", "insert"}, GoOn(c, step),
           UNCHANGED <<rows, hiding, raced, lifted, inserted, clashes, elapsed>>,
           lock' = lock \/ (lock = {} /\ lock' = {c}),
           lock' = {c} /\ OfRequest(calls[c].request) = {},
           step \in {"recent", "insert"} => Cardinality(NonTerminal) < MaxActive + lifted,
           step = "insert" => Cardinality(Recent(calls[c].now)) < MaxRecent
    PROVE  AdmissionInv'
<1> DEFINE call == [calls[c] EXCEPT !.pc = step]
<1>1. /\ call \in CallRecords /\ call.pc = step
      /\ call.request = calls[c].request /\ call.now = calls[c].now
  <2>1. step \in {"find", "active", "recent", "insert"}
    OBVIOUS
  <2>. QED
    BY <2>1, AtWork
<1>2. calls' = [calls EXCEPT ![c] = call]
  BY DEF GoOn
<1> HIDE DEF call
<1>. QED
  BY <1>1, <1>2, CallStep

LEMMA CallSteps ==
    ASSUME AdmissionAssumption, AdmissionInv, NEW c \in Callers,
           \/ \E request \in AskedFor : BeginCall(c, request)
           \/ AdmissionDies(c) \/ lockAndFind(c) \/ countNonTerminal(c) \/ countRecent(c)
    PROVE  AdmissionInv'
<1>0. MaxActive \in Nat /\ MaxRecent \in Nat /\ lifted \in Nat /\ NoCall.pc = "idle"
      /\ Cardinality(NonTerminal) \in Nat
  BY CountsAreFinite DEF AdmissionAssumption, AdmissionInv, AdmissionTyped, NoCall
<1>1. ASSUME NEW request \in AskedFor, BeginCall(c, request) PROVE AdmissionInv'
  <2> DEFINE call == [pc |-> "find", request |-> request, now |-> elapsed]
  <2>1. call \in CallRecords /\ call.pc = "find"
    BY DEF AdmissionInv, AdmissionTyped, CallRecords
  <2>2. calls' = [calls EXCEPT ![c] = call] /\ lock' = lock
        /\ UNCHANGED <<rows, hiding, raced, lifted, inserted, clashes, elapsed>>
    BY <1>1 DEF BeginCall, lifeVars
  <2> HIDE DEF call
  <2>. QED
    BY <2>1, <2>2, CallStep
<1>2. CASE AdmissionDies(c)
  BY <1>2, EndStep DEF AdmissionDies, lifeVars
<1>3. CASE lockAndFind(c)
  <2>1. calls[c] # NoCall
    BY <1>0, <1>3 DEF lockAndFind
  <2>2. CASE EndCall(c)
    BY <1>3, <2>2, EndStep DEF lockAndFind, lifeVars
  <2>3. CASE OfRequest(calls[c].request) = {} /\ GoOn(c, "active") /\ lock' = {c}
    BY <1>3, <2>1, <2>3, GoOnStep DEF lockAndFind, lifeVars
  <2>. QED
    BY <1>3, <2>2, <2>3 DEF lockAndFind, SessionOfRequest
<1>4. CASE countNonTerminal(c)
  <2>1. calls[c] # NoCall /\ lock = {c} /\ OfRequest(calls[c].request) = {}
    BY <1>0, <1>4 DEF countNonTerminal, AdmissionInv, FoundStays
  <2>2. CASE EndCall(c)
    BY <1>4, <2>2, EndStep DEF countNonTerminal, lifeVars
  <2>3. CASE ~(Cardinality(NonTerminal) >= MaxActive) /\ GoOn(c, "recent") /\ lock' = lock
    <3>1. Cardinality(NonTerminal) < MaxActive + lifted
      BY <1>0, <2>3
    <3>. QED
      BY <1>4, <2>1, <2>3, <3>1, GoOnStep DEF countNonTerminal, lifeVars
  <2>. QED
    BY <1>4, <2>2, <2>3 DEF countNonTerminal
<1>5. CASE countRecent(c)
  <2>1. calls[c] # NoCall /\ lock = {c} /\ OfRequest(calls[c].request) = {}
        /\ Cardinality(NonTerminal) < MaxActive + lifted
    BY <1>0, <1>5 DEF countRecent, AdmissionInv, FoundStays, ActiveStays
  <2>2. CASE EndCall(c)
    BY <1>5, <2>2, EndStep DEF countRecent, lifeVars
  <2>3. CASE Cardinality(Recent(calls[c].now)) < MaxRecent /\ GoOn(c, "insert") /\ lock' = lock
    BY <1>5, <2>1, <2>3, GoOnStep DEF countRecent, lifeVars
  <2>. QED
    BY <1>5, <2>2, <2>3 DEF countRecent
<1>. QED
  BY <1>1, <1>2, <1>3, <1>4, <1>5

LEMMA OtherSteps ==
    ASSUME AdmissionAssumption, AdmissionInv,
           AdmissionTick \/ \E s \in rows : ReadVisibility(s)
    PROVE  AdmissionInv'
<1>1. UNCHANGED <<rows, calls, lock, lifted>>
  BY DEF AdmissionTick, ReadVisibility, lifeVars
<1>2. FoundStays' /\ ActiveStays' /\ RecentStays'
  BY <1>1 DEF AdmissionInv, FoundStays, ActiveStays, RecentStays, OfRequest, NonTerminal, Recent
<1>3. calls' \in [Callers -> CallRecords \cup {NoCall}]
  BY <1>1 DEF AdmissionInv, AdmissionTyped
<1>4. CASE AdmissionTick
  <2>1. elapsed' \in Nat /\ UNCHANGED <<rows, raced, hiding, lifted, inserted, clashes>>
    BY <1>4 DEF AdmissionTick, AdmissionInv, AdmissionTyped, lifeVars
  <2>. QED
    BY <1>2, <1>3, <2>1, QuietStep
<1>5. ASSUME NEW s \in rows, ReadVisibility(s) PROVE AdmissionInv'
  <2>1. elapsed' \in Nat /\ UNCHANGED <<rows, raced, lifted, inserted, clashes>>
    BY <1>5 DEF ReadVisibility, AdmissionInv, AdmissionTyped
  <2>2. \A t \in rows : t.id = s.id => t.phase \in Over
    BY <1>5 DEF ReadVisibility, canHideSession, AdmissionInv, IdsAreNew
  <2>3. hiding' \ hiding \subseteq {s.id}
    BY <1>5 DEF ReadVisibility
  <2>. QED
    BY <1>2, <1>3, <2>1, <2>2, <2>3, QuietStep
<1>. QED
  BY <1>4, <1>5

------------------------------------------------------------------------------
LEMMA AdmissionInvInitial == ASSUME AdmissionAssumption, AdmissionInit PROVE AdmissionInv
<1>1. IsFiniteSet({}) /\ Cardinality({}) = 0
  BY FS_EmptySet
<1>2. NonTerminal = {} /\ (\A n : Created(n) = {}) /\ MaxActive \in Nat /\ MaxRecent \in Nat
  BY DEF AdmissionInit, AdmissionAssumption, NonTerminal, Created
<1>3. \A c \in Callers : calls[c].pc = "idle"
  BY DEF AdmissionInit, NoCall
<1>4. AdmissionTyped
  BY <1>1 DEF AdmissionInit, AdmissionTyped
<1>5. FoundStays /\ ActiveStays /\ RecentStays
  BY <1>3 DEF FoundStays, ActiveStays, RecentStays
<1>6. ActiveLimitHolds /\ RateAlways
  BY <1>1, <1>2 DEF ActiveLimitHolds, RateAlways, AdmissionInit
<1>. QED
  BY <1>4, <1>5, <1>6 DEF AdmissionInv, AdmissionInit, IdsAreNew, RetriesResume, HiddenIsOver, HidingIsOver

LEMMA AdmissionInvInductive ==
    ASSUME AdmissionAssumption, AdmissionInv, [AdmissionNext]_admissionVars
    PROVE  AdmissionInv'
<1>1. ASSUME NEW c \in Callers, insertRequestedSession(c) PROVE AdmissionInv'
  BY <1>1, InsertStep
<1>2. ASSUME NEW c \in Callers,
             \/ \E request \in AskedFor : BeginCall(c, request)
             \/ AdmissionDies(c) \/ lockAndFind(c) \/ countNonTerminal(c) \/ countRecent(c)
      PROVE AdmissionInv'
  BY <1>2, CallSteps
<1>3. ASSUME NEW s \in rows,
             \/ activatePaidSession(s) \/ deleteUnpaidSession(s) \/ EndSession(s)
             \/ Reactivate(s) \/ hideOwnedSession(s)
      PROVE AdmissionInv'
  BY <1>3, SessionSteps
<1>4. CASE AdmissionTick \/ \E s \in rows : ReadVisibility(s)
  BY <1>4, OtherSteps
<1>5. CASE UNCHANGED admissionVars
  <2>1. UNCHANGED <<rows, raced, hiding, lifted, inserted, clashes, calls, lock, elapsed>>
    BY <1>5 DEF admissionVars
  <2>2. FoundStays' /\ ActiveStays' /\ RecentStays'
    BY <2>1 DEF AdmissionInv, FoundStays, ActiveStays, RecentStays, OfRequest, NonTerminal, Recent
  <2>3. calls' \in [Callers -> CallRecords \cup {NoCall}] /\ elapsed' \in Nat
    BY <2>1 DEF AdmissionInv, AdmissionTyped
  <2>. QED
    BY <2>1, <2>2, <2>3, QuietStep
<1>. QED
  BY <1>1, <1>2, <1>3, <1>4, <1>5 DEF AdmissionNext

LEMMA RateIsControlled == ASSUME RateAlways PROVE CreateRateHolds
BY DEF RateAlways, CreateRateHolds, Created

LEMMA AdmissionInvAlways == AdmissionSpec => []AdmissionInv
<1>1. AdmissionInit => AdmissionInv
  BY AdmissionInvInitial, AdmissionAssumption
<1>2. AdmissionInv /\ [AdmissionNext]_admissionVars => AdmissionInv'
  BY AdmissionInvInductive, AdmissionAssumption
<1>. QED
  BY <1>1, <1>2, PTL DEF AdmissionSpec

\* For any number of calls at once, any limits and any window: the account keeps to
\* its limit of active sessions and its rate of creations, and no retry dies of the
\* unique index (createRequestedSessionWithAbuseControls).
THEOREM AdmissionControlsHold == AdmissionSpec => []AdmissionIsControlled
<1>1. AdmissionInv => AdmissionIsControlled
  BY RateIsControlled DEF AdmissionInv, AdmissionIsControlled
<1>. QED
  BY <1>1, AdmissionInvAlways, PTL

\* The bounds that TLC counts under, and what they bound.
Bounded ==
    /\ \A s \in rows : s.created <= elapsed
    /\ \A c \in Callers : calls[c] # NoCall => calls[c].now <= elapsed
    /\ lock \subseteq Callers
    /\ lifted <= MaxLifted /\ inserted <= MaxSessions /\ elapsed <= MaxElapsed
    /\ \A s \in rows : s.id >= 1
    /\ \A i \in hiding \cup raced : i >= 1

LEMMA BoundedStays ==
    ASSUME AdmissionInv, Bounded, [AdmissionNext]_admissionVars
    PROVE  Bounded'
<1>0. /\ \A s \in rows : s \in RowRecords
      /\ calls \in [Callers -> CallRecords \cup {NoCall}]
      /\ lifted \in Nat /\ inserted \in Nat /\ elapsed \in Nat
      /\ MaxLifted \in Nat /\ MaxSessions \in Nat /\ MaxElapsed \in Nat
  BY AdmissionAssumption DEF AdmissionAssumption, AdmissionInv, AdmissionTyped
<1>1. ASSUME NEW c \in Callers, calls[c] # NoCall
      PROVE  calls[c] \in CallRecords /\ calls[c].now \in Nat /\ calls[c].now <= elapsed
  BY <1>0, <1>1 DEF Bounded, CallRecords
<1>2. CASE UNCHANGED admissionVars
  BY <1>2 DEF Bounded, admissionVars
\* What only moves a call on, or ends it.
<1>3. ASSUME NEW c \in Callers, UNCHANGED <<rows, lifeVars, inserted, elapsed>>,
             EndCall(c) \/ \E step : GoOn(c, step) /\ calls[c] # NoCall, lock' \subseteq lock \cup {c}
      PROVE  Bounded'
  <2>1. UNCHANGED <<rows, hiding, raced, lifted, inserted, elapsed>>
    BY <1>3 DEF lifeVars
  <2>2. ASSUME NEW d \in Callers, calls'[d] # NoCall PROVE calls'[d].now <= elapsed
    <3>1. CASE d # c
      <4>1. calls'[d] = calls[d]
        BY <1>0, <1>3, <3>1 DEF EndCall, GoOn
      <4>. QED
        BY <1>1, <2>2, <4>1
    <3>2. CASE d = c
      <4>1. PICK step : GoOn(c, step) /\ calls[c] # NoCall
        <5>1. ~EndCall(c)
          BY <1>0, <2>2, <3>2 DEF EndCall
        <5>. QED
          BY <1>3, <5>1
      <4>2. calls'[c] = [calls[c] EXCEPT !.pc = step]
        BY <1>0, <4>1 DEF GoOn
      <4>3. calls[c] \in CallRecords /\ calls[c].now <= elapsed
        BY <1>1, <4>1
      <4>4. calls'[c].now = calls[c].now
        BY <4>2, <4>3 DEF CallRecords
      <4>. QED
        BY <3>2, <4>3, <4>4
    <3>. QED
      BY <3>1, <3>2
  <2>. QED
    BY <1>3, <2>1, <2>2 DEF Bounded
<1>4. ASSUME NEW c \in Callers, NEW request \in AskedFor, BeginCall(c, request) PROVE Bounded'
  <2>1. /\ calls' = [calls EXCEPT ![c] = [pc |-> "find", request |-> request, now |-> elapsed]]
        /\ UNCHANGED <<rows, lock, hiding, raced, lifted, inserted, elapsed>>
    BY <1>4 DEF BeginCall, lifeVars
  <2>2. ASSUME NEW d \in Callers, calls'[d] # NoCall PROVE calls'[d].now <= elapsed
    <3>1. CASE d # c
      BY <1>0, <1>1, <2>1, <2>2, <3>1
    <3>2. CASE d = c
      <4>1. calls'[d].now = elapsed
        BY <1>0, <2>1, <3>2
      <4>. QED
        BY <1>0, <4>1
    <3>. QED
      BY <3>1, <3>2
  <2>. QED
    BY <2>1, <2>2 DEF Bounded
<1>5. ASSUME NEW c \in Callers, AdmissionDies(c) PROVE Bounded'
  BY <1>3, <1>5 DEF AdmissionDies, EndCall
<1>6. ASSUME NEW c \in Callers, lockAndFind(c) PROVE Bounded'
  <2>1. calls[c] # NoCall
    BY <1>6 DEF lockAndFind, NoCall
  <2>. QED
    BY <1>3, <1>6, <2>1 DEF lockAndFind, EndCall
<1>7. ASSUME NEW c \in Callers, countNonTerminal(c) PROVE Bounded'
  <2>1. calls[c] # NoCall
    BY <1>7 DEF countNonTerminal, NoCall
  <2>. QED
    BY <1>3, <1>7, <2>1 DEF countNonTerminal, EndCall
<1>8. ASSUME NEW c \in Callers, countRecent(c) PROVE Bounded'
  <2>1. calls[c] # NoCall
    BY <1>8 DEF countRecent, NoCall
  <2>. QED
    BY <1>3, <1>8, <2>1 DEF countRecent, EndCall
<1>9. ASSUME NEW c \in Callers, insertRequestedSession(c) PROVE Bounded'
  <2>1. /\ inserted < MaxSessions /\ EndCall(c) /\ calls[c] # NoCall
        /\ UNCHANGED <<hiding, raced, lifted, elapsed>>
        /\ inserted' \in {inserted, inserted + 1}
    BY <1>9 DEF insertRequestedSession, NoCall, lifeVars
  <2>2. ASSUME NEW s \in rows' PROVE s.created <= elapsed /\ s.id >= 1
    <3>1. CASE s \in rows
      BY <3>1 DEF Bounded
    <3>2. CASE s \notin rows
      <4>1. PICK phase \in {"payment_pending", "live"} :
                s = [id |-> inserted + 1, request |-> calls[c].request,
                     created |-> calls[c].now, phase |-> phase, hidden |-> FALSE]
        BY <1>9, <2>2, <3>2 DEF insertRequestedSession
      <4>2. s.id = inserted + 1 /\ s.created = calls[c].now
        BY <4>1
      <4>. QED
        BY <1>0, <1>1, <2>1, <4>2
    <3>. QED
      BY <3>1, <3>2
  <2>3. ASSUME NEW d \in Callers, calls'[d] # NoCall PROVE calls'[d].now <= elapsed
    <3>1. d # c /\ calls'[d] = calls[d]
      BY <1>0, <2>1, <2>3 DEF EndCall
    <3>. QED
      BY <1>1, <2>3, <3>1
  <2>4. lock' \subseteq Callers /\ inserted' <= MaxSessions
    BY <1>0, <2>1 DEF EndCall, Bounded
  <2>. QED
    BY <2>1, <2>2, <2>3, <2>4 DEF Bounded
\* A session in another state is as old as it was.
<1>10. ASSUME NEW s \in rows, NEW r, r.created = s.created, r.id = s.id,
              rows' \subseteq rows \cup {r}, UNCHANGED <<calls, lock, inserted, elapsed>>,
              lifted' <= MaxLifted, \A i \in hiding' \cup raced' : i >= 1
       PROVE  Bounded'
  <2>1. ASSUME NEW u \in rows' PROVE u.created <= elapsed /\ u.id >= 1
    BY <1>10 DEF Bounded
  <2>. QED
    BY <1>10, <2>1 DEF Bounded
<1>11. ASSUME NEW s \in rows PROVE s.id >= 1 /\ s \in RowRecords
  BY <1>0 DEF Bounded
<1>12. ASSUME NEW s \in rows, NEW phase \in RowPhases, Become(s, phase),
              UNCHANGED <<calls, lock, inserted, elapsed>>,
              lifted' <= MaxLifted, \A i \in hiding' \cup raced' : i >= 1
       PROVE  Bounded'
  <2> DEFINE r == [s EXCEPT !.phase = phase]
  <2>1. r.created = s.created /\ r.id = s.id
    BY <1>11 DEF RowRecords
  <2>2. rows' \subseteq rows \cup {r}
    BY <1>12 DEF Become
  <2> HIDE DEF r
  <2>. QED
    BY <1>10, <1>12, <2>1, <2>2
<1>13. ASSUME NEW s \in rows, activatePaidSession(s) \/ deleteUnpaidSession(s) \/ EndSession(s)
       PROVE  Bounded'
  <2>1. UNCHANGED <<calls, lock, hiding, raced, lifted, inserted, elapsed>>
    BY <1>13 DEF activatePaidSession, deleteUnpaidSession, EndSession, lifeVars
  <2>2. lifted' <= MaxLifted /\ \A i \in hiding' \cup raced' : i >= 1
    BY <2>1 DEF Bounded
  <2>3. CASE deleteUnpaidSession(s)
    BY <1>10, <2>1, <2>2, <2>3 DEF deleteUnpaidSession
  <2>4. ASSUME ~deleteUnpaidSession(s) PROVE \E phase \in RowPhases : Become(s, phase)
    BY <1>13, <2>4 DEF activatePaidSession, EndSession, Over, RowPhases
  <2>. QED
    BY <1>12, <2>1, <2>2, <2>3, <2>4
<1>14. ASSUME NEW s \in rows, Reactivate(s) PROVE Bounded'
  <2>1. /\ lifted < MaxLifted /\ lifted' = lifted + 1 /\ hiding' = hiding
        /\ raced' \subseteq raced \cup {s.id} /\ Become(s, "live")
        /\ UNCHANGED <<calls, lock, inserted, elapsed>>
    BY <1>14 DEF Reactivate
  <2>2. \A i \in hiding' \cup raced' : i >= 1
    BY <1>11, <2>1 DEF Bounded
  <2>3. lifted' <= MaxLifted /\ "live" \in RowPhases
    BY <1>0, <2>1 DEF RowPhases
  <2>. QED
    BY <1>12, <2>1, <2>2, <2>3
<1>15. ASSUME NEW s \in rows, hideOwnedSession(s) PROVE Bounded'
  <2> DEFINE r == [s EXCEPT !.hidden = TRUE]
  <2>1. r.created = s.created /\ r.id = s.id
    BY <1>11 DEF RowRecords
  <2>2. /\ rows' \subseteq rows \cup {r} /\ hiding' \subseteq hiding
        /\ UNCHANGED <<calls, lock, raced, lifted, inserted, elapsed>>
    BY <1>15 DEF hideOwnedSession
  <2>3. lifted' <= MaxLifted /\ \A i \in hiding' \cup raced' : i >= 1
    BY <2>2 DEF Bounded
  <2> HIDE DEF r
  <2>. QED
    BY <1>10, <2>1, <2>2, <2>3
<1>16. ASSUME NEW s \in rows, ReadVisibility(s) PROVE Bounded'
  <2>1. hiding' = hiding \cup {s.id} /\ UNCHANGED <<rows, calls, lock, raced, lifted, inserted, elapsed>>
    BY <1>16 DEF ReadVisibility
  <2>2. \A i \in hiding' \cup raced' : i >= 1
    BY <1>11, <2>1 DEF Bounded
  <2>. QED
    BY <2>1, <2>2 DEF Bounded
<1>17. CASE AdmissionTick
  <2>1. /\ elapsed < MaxElapsed /\ elapsed' = elapsed + 1
        /\ UNCHANGED <<rows, calls, lock, hiding, raced, lifted, inserted>>
    BY <1>17 DEF AdmissionTick, lifeVars
  <2>2. \A s \in rows : s.created <= elapsed + 1
    BY <1>0 DEF Bounded, RowRecords
  <2>3. \A c \in Callers : calls[c] # NoCall => calls[c].now <= elapsed + 1
    BY <1>0, <1>1
  <2>. QED
    BY <1>0, <2>1, <2>2, <2>3 DEF Bounded
<1>. QED
  BY <1>2, <1>4, <1>5, <1>6, <1>7, <1>8, <1>9, <1>13, <1>14, <1>15, <1>16, <1>17 DEF AdmissionNext

\* Types of admission: a call and the session it inserts are as old as the start of the
\* call's transaction at most, and ids come one by one (insertRequestedSession).
THEOREM AdmissionTypes == AdmissionSpec => []AdmissionTypeOK
<1>1. AdmissionInit => Bounded
  BY AdmissionAssumption DEF AdmissionAssumption, AdmissionInit, Bounded, NoCall
<1>2. ASSUME AdmissionInv, Bounded PROVE AdmissionTypeOK
  <2>1. /\ rows \subseteq RowRecords /\ calls \in [Callers -> CallRecords \cup {NoCall}]
        /\ hiding \cup raced \subseteq Nat
        /\ lifted \in Nat /\ inserted \in Nat /\ clashes \in Nat /\ elapsed \in Nat
        /\ MaxLifted \in Nat /\ MaxSessions \in Nat /\ MaxElapsed \in Nat
    BY <1>2, AdmissionAssumption DEF AdmissionAssumption, AdmissionInv, AdmissionTyped
  <2>2. ASSUME NEW s \in rows
        PROVE  /\ s.id \in 1..MaxSessions /\ s.request \in AskedFor /\ s.created \in 0..MaxElapsed
               /\ s.phase \in RowPhases /\ s.hidden \in BOOLEAN
    <3>1. /\ s.id \in Nat /\ s.request \in AskedFor /\ s.created \in Nat
          /\ s.phase \in RowPhases /\ s.hidden \in BOOLEAN
      BY <2>1 DEF RowRecords
    <3>2. s.id >= 1 /\ s.id <= inserted /\ s.created <= elapsed
      BY <1>2 DEF Bounded, AdmissionInv, IdsAreNew
    <3>3. inserted <= MaxSessions /\ elapsed <= MaxElapsed
      BY <1>2 DEF Bounded
    <3>. QED
      BY <2>1, <3>1, <3>2, <3>3
  <2>3. ASSUME NEW c \in Callers, calls[c] # NoCall
        PROVE  /\ calls[c].pc \in {"find", "active", "recent", "insert"}
               /\ calls[c].request \in AskedFor /\ calls[c].now \in 0..elapsed
    <3>1. calls[c] \in CallRecords /\ calls[c].now <= elapsed
      BY <1>2, <2>1, <2>3 DEF Bounded
    <3>. QED
      BY <2>1, <3>1 DEF CallRecords
  <2>4. ASSUME NEW i \in hiding \cup raced PROVE i \in 1..MaxSessions
    BY <1>2, <2>1 DEF Bounded, AdmissionInv, IdsAreNew
  <2>5. lifted \in 0..MaxLifted /\ inserted \in 0..MaxSessions /\ elapsed \in 0..MaxElapsed
        /\ lock \subseteq Callers
    BY <1>2, <2>1 DEF Bounded
  <2>. QED
    BY <2>1, <2>2, <2>3, <2>4, <2>5 DEF AdmissionTypeOK
<1>. QED
  BY <1>1, <1>2, AdmissionInvAlways, BoundedStays, PTL DEF AdmissionSpec

\* A hidden session is over, unless it was reactivated between the two statements of
\* its owner's request (deleteOwnedHiddenSession).
THEOREM AdmissionHiddenIsOver == AdmissionSpec => []HiddenIsOver
<1>1. AdmissionInv => HiddenIsOver
  BY DEF AdmissionInv
<1>. QED
  BY <1>1, AdmissionInvAlways, PTL

-------------------------------------------------------------------------------
\* AddressPool.

\* The offset a scan probes is one of the pool's, wherever the cursor stands.
LEMMA OffsetInPool ==
    ASSUME PoolTypeOK, pool \in Pools
    PROVE  Offset \in Offsets(pool) /\ <<pool, Offset>> \in Addresses
<1>1. PoolSize[pool] \in Nat \ {0} /\ nextOffset[pool] \in Nat /\ attempt \in Nat
  BY PoolAssumption DEF PoolTypeOK
<1>2. StartOffset \in Nat
  BY <1>1 DEF StartOffset
<1>3. Offset \in Offsets(pool)
  BY <1>1, <1>2 DEF Offset, Offsets
<1>4. <<pool, Offset>> \in {pool} \X Offsets(pool)
  BY <1>3
<1>. QED
  BY <1>3, <1>4 DEF Addresses

\* No address is the null value: pools are numbered from one.
LEMMA NoneIsNoAddress == NoAddress \notin Addresses
<1>1. \A p \in Pools : NoAddress \notin {p} \X Offsets(p)
  BY PoolAssumption DEF NoAddress, Pools
<1>. QED
  BY <1>1 DEF Addresses

\* Every variable keeps its type.
THEOREM AllocatorTypeOK == PoolSpec => []PoolTypeOK
<1>1. PoolInit => PoolTypeOK
  <2> SUFFICES ASSUME PoolInit PROVE PoolTypeOK
    OBVIOUS
  <2>1. outcome \in [Sessions -> Outcomes] /\ open \in BOOLEAN
    BY DEF PoolInit, Untouched, Outcomes
  <2>2. nextOffset \in [Pools -> Nat] /\ undo \in [Pools -> Nat]
    BY PoolAssumption DEF PoolInit
  <2>. QED
    BY <2>1, <2>2 DEF PoolInit, PoolTypeOK
<1>2. PoolTypeOK /\ [PoolNext]_poolVars => PoolTypeOK'
  <2> SUFFICES ASSUME PoolTypeOK, [PoolNext]_poolVars PROVE PoolTypeOK'
    OBVIOUS
  <2> USE DEF PoolTypeOK, Outcomes
  <2>1. ASSUME NEW s \in Sessions, BeginPick(s) PROVE PoolTypeOK'
    BY <2>1 DEF BeginPick, NeedsLease, FirstPool
  <2>2. CASE ProbeTaken
    <3>1. <<pool, Offset>> \in Addresses
      BY <2>2, OffsetInPool DEF ProbeTaken
    <3>2. pool' \in Nat /\ attempt' \in Nat
      BY <2>2 DEF ProbeTaken
    <3>. QED
      BY <2>2, <3>1, <3>2 DEF ProbeTaken, txVars
  <2>3. ASSUME NEW s \in Sessions, ProbeFree(s) PROVE PoolTypeOK'
    <3>1. <<pool, Offset>> \in Addresses /\ Offset \in Nat
      BY <2>3, OffsetInPool, PoolAssumption DEF ProbeFree, Offsets
    <3>2. PoolSize[pool] \in Nat \ {0}
      BY <2>3, PoolAssumption DEF ProbeFree
    <3>3. (Offset + 1) % PoolSize[pool] \in Nat
      BY <3>1, <3>2
    <3>4. lease' \in [Sessions -> Addresses \cup {NoAddress}]
      BY <2>3, <3>1 DEF ProbeFree
    <3>5. nextOffset' \in [Pools -> Nat]
      BY <2>3, <3>3 DEF ProbeFree
    <3>. QED
      BY <2>3, <3>4, <3>5 DEF ProbeFree
  <2>4. ASSUME NEW s \in Sessions, ScanExhausted(s) PROVE PoolTypeOK'
    BY <2>4 DEF ScanExhausted
  <2>5. CASE CommitTx
    BY <2>5 DEF CommitTx, Untouched, scanVars
  <2>6. CASE RollbackTx
    BY <2>6 DEF RollbackTx, Untouched
  <2>7. ASSUME NEW s \in Sessions, Release(s) PROVE PoolTypeOK'
    BY <2>7 DEF Release, txVars, scanVars
  <2>8. CASE UNCHANGED poolVars
    BY <2>8 DEF poolVars, txVars, scanVars
  <2>. QED
    BY <2>1, <2>2, <2>3, <2>4, <2>5, <2>6, <2>7, <2>8 DEF PoolNext
<1>. QED
  BY <1>1, <1>2, PTL DEF PoolSpec

\* Two sessions never hold the same address: the only step that gives an
\* address out is an insert that met no holder, and every other step keeps or
\* clears leases.
THEOREM AllocatorLeaseUnique == PoolSpec => []ActiveLeaseUnique
<1>1. PoolInit => ActiveLeaseUnique
  BY DEF PoolInit, ActiveLeaseUnique
<1>2. PoolTypeOK /\ ActiveLeaseUnique /\ [PoolNext]_poolVars => ActiveLeaseUnique'
  <2> SUFFICES ASSUME PoolTypeOK, ActiveLeaseUnique, [PoolNext]_poolVars
               PROVE  ActiveLeaseUnique'
    OBVIOUS
  <2> USE DEF ActiveLeaseUnique, PoolTypeOK
  <2>1. ASSUME NEW s \in Sessions, ProbeFree(s) PROVE ActiveLeaseUnique'
    <3>1. \A t \in Sessions : lease[t] # <<pool, Offset>> \/ lease[t] = NoAddress
      BY <2>1 DEF ProbeFree, Held
    <3>2. <<pool, Offset>> # NoAddress
      BY <2>1, OffsetInPool, NoneIsNoAddress DEF ProbeFree
    <3>. QED
      BY <2>1, <3>1, <3>2 DEF ProbeFree
  <2>2. CASE RollbackTx
    BY <2>2 DEF RollbackTx
  <2>3. ASSUME NEW s \in Sessions, Release(s) PROVE ActiveLeaseUnique'
    BY <2>3 DEF Release
  <2>4. CASE UNCHANGED lease
    BY <2>4
  <2>. QED
    BY <2>1, <2>2, <2>3, <2>4
       DEF PoolNext, poolVars, BeginPick, ProbeTaken, ScanExhausted, CommitTx
<1>. QED
  BY <1>1, <1>2, AllocatorTypeOK, PTL DEF PoolSpec

\* A session whose scan runs has no lease: the call checked it, and nobody else
\* schedules that session meanwhile (its row is locked).
PoolScanInv == \A s \in scanFor : lease[s] = NoAddress

LEMMA ScannedHasNoLease == PoolSpec => []PoolScanInv
<1>1. PoolInit => PoolScanInv
  BY DEF PoolInit, PoolScanInv
<1>2. PoolTypeOK /\ PoolScanInv /\ [PoolNext]_poolVars => PoolScanInv'
  <2> SUFFICES ASSUME PoolTypeOK, PoolScanInv, [PoolNext]_poolVars PROVE PoolScanInv'
    OBVIOUS
  <2> USE DEF PoolScanInv, PoolTypeOK
  <2>1. ASSUME NEW s \in Sessions, BeginPick(s) PROVE PoolScanInv'
    BY <2>1 DEF BeginPick, NeedsLease, FirstPool
  <2>2. ASSUME NEW s \in Sessions, Release(s) PROVE PoolScanInv'
    BY <2>2 DEF Release, scanVars
  <2>3. CASE scanFor' = {}
    BY <2>3
  <2>4. CASE UNCHANGED <<lease, scanFor>>
    BY <2>4
  <2>. QED
    BY <2>1, <2>2, <2>3, <2>4
       DEF PoolNext, poolVars, scanVars, ProbeTaken, ProbeFree, ScanExhausted, CommitTx, RollbackTx
<1>. QED
  BY <1>1, <1>2, AllocatorTypeOK, PTL DEF PoolSpec

\* The allocator implements AddressLease: an insert that meets no holder is a
\* Grant, a release and a rollback are Returns, everything else stutters.
THEOREM AllocatorKeepsPromise == PoolSpec => LeasePromise
<1>1. PoolInit => LeaseTable!Init
  BY DEF PoolInit, LeaseTable!Init
<1>2. PoolTypeOK /\ PoolScanInv /\ [PoolNext]_poolVars => [LeaseTable!Next]_lease
  <2> SUFFICES ASSUME PoolTypeOK, PoolScanInv, [PoolNext]_poolVars
               PROVE  LeaseTable!Next \/ UNCHANGED lease
    OBVIOUS
  <2>1. ASSUME NEW s \in Sessions, ProbeFree(s) PROVE LeaseTable!Next
    <3>1. LeaseTable!Grant(s, <<pool, Offset>>)
      BY <2>1 DEF ProbeFree, PoolScanInv, Held, LeaseTable!Grant, LeaseTable!Held
    <3>2. <<pool, Offset>> \in Addresses
      BY <2>1, OffsetInPool DEF ProbeFree
    <3>. QED
      BY <3>1, <3>2 DEF LeaseTable!Next
  <2>2. CASE RollbackTx
    <3> DEFINE H == {s \in Sessions : outcome[s] = "granted"}
    <3>1. LeaseTable!Return(H)
      BY <2>2 DEF RollbackTx, LeaseTable!Return
    <3>. QED
      BY <3>1 DEF LeaseTable!Next
  <2>3. ASSUME NEW s \in Sessions, Release(s) PROVE LeaseTable!Next
    <3>1. LeaseTable!Return({s})
      BY <2>3 DEF Release, LeaseTable!Return, PoolTypeOK
    <3>. QED
      BY <3>1 DEF LeaseTable!Next
  <2>4. CASE UNCHANGED lease
    BY <2>4
  <2>. QED
    BY <2>1, <2>2, <2>3, <2>4
       DEF PoolNext, poolVars, BeginPick, ProbeTaken, ScanExhausted, CommitTx
<1>. QED
  BY <1>1, <1>2, AllocatorTypeOK, ScannedHasNoLease, PTL
     DEF PoolSpec, LeasePromise, LeaseTable!Spec

\* A remainder of less than twice the divisor, which is all a scan ever takes.
LEMMA WrapsOnce ==
    ASSUME NEW n \in Nat \ {0}, NEW x \in Nat, x < n + n
    PROVE  x % n = (IF x < n THEN x ELSE x - n) /\ x % n \in 0..(n - 1)
OBVIOUS

\* The offset that attempt k of a scan from offset o of n tries.
Tried(o, k, n) == ((o % n) + k) % n

\* The attempts of a pool try every offset: the one before the first is tried last.
LEMMA AllAreTried ==
    ASSUME NEW n \in Nat \ {0}, NEW o \in Nat, NEW x \in 0..(n - 1)
    PROVE  /\ \E k \in 0..(n - 1) : x = Tried(o, k, n)
           /\ \A k \in 0..(n - 1) : (Tried(o, k, n) + 1) % n = o % n => k = n - 1
<1>1. o % n \in 0..(n - 1)
  OBVIOUS
<1> DEFINE start == o % n
<1>2. start \in 0..(n - 1)
  BY <1>1
<1> HIDE DEF start
<1>3. \A k \in 0..(n - 1) :
        (start + k) % n = (IF start + k < n THEN start + k ELSE start + k - n)
  <2> TAKE k \in 0..(n - 1)
  <2> DEFINE y == start + k
  <2>1. y \in Nat /\ y < n + n
    BY <1>2
  <2> HIDE DEF y
  <2>2. y % n = IF y < n THEN y ELSE y - n
    BY <2>1, WrapsOnce
  <2>. QED
    BY <1>2, <2>2 DEF y
<1>4. \E k \in 0..(n - 1) : x = (start + k) % n
  <2> DEFINE k == IF start <= x THEN x - start ELSE x - start + n
  <2>1. k \in 0..(n - 1)
    BY <1>2
  <2>2. x = (IF start + k < n THEN start + k ELSE start + k - n)
    BY <1>2
  <2> HIDE DEF k
  <2>3. x = (start + k) % n
    BY <1>3, <2>1, <2>2
  <2>. QED
    BY <2>1, <2>3
<1>5. ASSUME NEW k \in 0..(n - 1), (((start + k) % n) + 1) % n = start PROVE k = n - 1
  <2> DEFINE here == IF start + k < n THEN start + k ELSE start + k - n
  <2>1. (here + 1) % n = start
    BY <1>3, <1>5
  <2>2. here \in 0..(n - 1) /\ here + 1 \in Nat /\ here + 1 < n + n
    BY <1>2
  <2>3. (here + 1) % n = (IF here + 1 < n THEN here + 1 ELSE here + 1 - n)
    <3> DEFINE y == here + 1
    <3>1. y \in Nat /\ y < n + n
      BY <2>2
    <3> HIDE DEF y
    <3>2. y % n = IF y < n THEN y ELSE y - n
      BY <3>1, WrapsOnce
    <3>. QED
      BY <2>2, <3>2 DEF y
  <2>4. CASE start + k < n
    BY <1>2, <2>1, <2>3, <2>4
  <2>5. CASE start + k >= n
    <3>1. here = start + k - n
      BY <1>2, <2>5
    <3> HIDE DEF here
    <3>2. here + 1 < n
      BY <1>2, <3>1
    <3>3. here + 1 = start
      BY <2>1, <2>3, <3>2
    <3>. QED
      BY <1>2, <3>1, <3>3
  <2>. QED
    BY <1>2, <2>4, <2>5
<1>. QED
  BY <1>4, <1>5 DEF Tried, start

\* What a scan has found taken: all that lies before it, and nothing was skipped.
PoolScanCovers ==
    scanFor # {} =>
        /\ pool \in 1..(NumPools + 1)
        /\ pool \in Pools => attempt < PoolSize[pool]
        /\ \A a \in Addresses : a[1] < pool => a \in taken
        /\ pool \in Pools =>
             \A k \in 0..(attempt - 1) : <<pool, Tried(nextOffset[pool], k, PoolSize[pool])>> \in taken

LEMMA CoversInitially == PoolInit => PoolScanCovers
BY DEF PoolInit, PoolScanCovers

\* An address is one of its pool's.
LEMMA AddressParts ==
    ASSUME NEW a \in Addresses
    PROVE  a[1] \in Pools /\ a[2] \in Offsets(a[1]) /\ a = <<a[1], a[2]>>
BY DEF Addresses

\* One more address was found taken: the scan goes on behind it.
LEMMA TakenCovers ==
    ASSUME PoolTypeOK, PoolScanCovers, ProbeTaken
    PROVE  PoolScanCovers'
<1>1. /\ pool \in Pools /\ pool \in Nat /\ attempt \in Nat /\ attempt < PoolSize[pool]
      /\ PoolSize[pool] \in Nat \ {0} /\ nextOffset[pool] \in Nat /\ NumPools \in Nat
  BY PoolAssumption DEF ProbeTaken, PoolScanCovers, PoolTypeOK
<1> DEFINE tried(k) == <<pool, Tried(nextOffset[pool], k, PoolSize[pool])>>
<1>2. UNCHANGED nextOffset /\ taken' = taken \cup {tried(attempt)}
  BY DEF ProbeTaken, Offset, StartOffset, Tried
<1>3. \A k \in 0..attempt : tried(k) \in taken'
  <2> TAKE k \in 0..attempt
  <2>1. CASE k = attempt
    BY <1>2, <2>1
  <2>2. CASE k # attempt
    <3>1. k \in 0..(attempt - 1)
      BY <1>1, <2>2
    <3>. QED
      BY <1>1, <1>2, <3>1 DEF PoolScanCovers, ProbeTaken
  <2>. QED
    BY <2>1, <2>2
<1>4. \A a \in Addresses : a[1] < pool => a \in taken'
  BY <1>2 DEF PoolScanCovers, ProbeTaken
<1>5. CASE LastAttempt
  <2>1. pool' = pool + 1 /\ attempt' = 0 /\ attempt = PoolSize[pool] - 1
    BY <1>1, <1>5 DEF ProbeTaken, LastAttempt
  <2>2. ASSUME NEW a \in Addresses, a[1] < pool' PROVE a \in taken'
    <3>1. a[1] \in Pools /\ a[2] \in Offsets(a[1]) /\ a = <<a[1], a[2]>>
      BY AddressParts
    <3>2. CASE a[1] = pool
      <4>1. a[2] \in 0..(PoolSize[pool] - 1)
        BY <3>1, <3>2 DEF Offsets
      <4>2. PICK k \in 0..(PoolSize[pool] - 1) : a[2] = Tried(nextOffset[pool], k, PoolSize[pool])
        BY <1>1, <4>1, AllAreTried
      <4>3. k \in 0..attempt
        BY <2>1
      <4>4. tried(k) \in taken'
        BY <1>3, <4>3
      <4>. QED
        BY <3>1, <3>2, <4>2, <4>4
    <3>3. CASE a[1] < pool
      BY <1>4, <3>3
    <3>. QED
      BY <1>1, <2>1, <2>2, <3>1, <3>2, <3>3 DEF Pools
  <2>3. pool' \in 1..(NumPools + 1) /\ (pool' \in Pools => attempt' < PoolSize[pool'])
    BY <1>1, <2>1, PoolAssumption DEF Pools
  <2>4. 0..(attempt' - 1) = {}
    BY <2>1
  <2>. QED
    BY <2>2, <2>3, <2>4 DEF PoolScanCovers
<1>6. CASE ~LastAttempt
  <2>1. pool' = pool /\ attempt' = attempt + 1 /\ attempt' < PoolSize[pool]
    BY <1>1, <1>6 DEF ProbeTaken, LastAttempt
  <2>2. 0..(attempt' - 1) = 0..attempt
    BY <1>1, <2>1
  <2>3. pool \in 1..(NumPools + 1)
    BY <1>1 DEF Pools
  <2>. QED
    BY <1>2, <1>3, <1>4, <2>1, <2>2, <2>3 DEF PoolScanCovers
<1>. QED
  BY <1>5, <1>6

LEMMA ScanStepCovers == PoolTypeOK /\ PoolScanCovers /\ [PoolNext]_poolVars => PoolScanCovers'
<1> SUFFICES ASSUME PoolTypeOK, PoolScanCovers, [PoolNext]_poolVars PROVE PoolScanCovers'
  OBVIOUS
<1>1. CASE ProbeTaken
  BY <1>1, TakenCovers
<1>2. ASSUME NEW s \in Sessions, BeginPick(s) PROVE PoolScanCovers'
  <2>1. pool' = 1 /\ attempt' = 0
    BY <1>2 DEF BeginPick, FirstPool
  <2>2. NumPools \in Nat /\ (1 \in Pools => PoolSize[1] \in Nat \ {0})
    BY PoolAssumption
  <2>3. \A a \in Addresses : ~(a[1] < 1)
    BY AddressParts DEF Pools
  <2>4. 0..(attempt' - 1) = {}
    BY <2>1
  <2>5. 1 \in 1..(NumPools + 1)
    BY <2>2
  <2>. QED
    BY <2>1, <2>2, <2>3, <2>4, <2>5 DEF PoolScanCovers
<1>3. ASSUME NEW s \in Sessions, Release(s) PROVE PoolScanCovers'
  BY <1>3 DEF Release, PoolScanCovers, scanVars
<1>4. CASE scanFor' = {}
  BY <1>4 DEF PoolScanCovers
<1>5. CASE UNCHANGED poolVars
  BY <1>5 DEF PoolScanCovers, poolVars, scanVars
<1>. QED
  BY <1>1, <1>2, <1>3, <1>4, <1>5 DEF PoolNext, ProbeFree, ScanExhausted, CommitTx, RollbackTx, scanVars

\* The scan always covers what lies behind it.
LEMMA ScanHolds == PoolSpec => [](PoolTypeOK /\ PoolScanCovers)
BY AllocatorTypeOK, CoversInitially, ScanStepCovers, PTL DEF PoolSpec

\* Only the scan's own steps say how it ended.
LEMMA OutcomeOfStep ==
    ASSUME PoolTypeOK, [PoolNext]_poolVars, NEW s \in Sessions, outcome[s] = "none"
    PROVE  /\ outcome'[s] = "exhausted" => ScanExhausted(s)
           /\ outcome'[s] = "granted" => ProbeFree(s)
<1>1. outcome \in [Sessions -> Outcomes]
  BY DEF PoolTypeOK
<1>2. CASE outcome' = outcome \/ outcome' = Untouched
  BY <1>2 DEF Untouched
<1>3. ASSUME NEW t \in Sessions, ProbeFree(t) \/ ScanExhausted(t)
      PROVE  /\ outcome'[s] = "exhausted" => ScanExhausted(s)
             /\ outcome'[s] = "granted" => ProbeFree(s)
  <2>1. CASE s = t
    BY <1>1, <1>3, <2>1 DEF ProbeFree, ScanExhausted
  <2>2. CASE s # t
    BY <1>1, <1>3, <2>2 DEF ProbeFree, ScanExhausted
  <2>. QED
    BY <2>1, <2>2
<1>. QED
  BY <1>2, <1>3 DEF PoolNext, poolVars, txVars, BeginPick, ProbeTaken, CommitTx, RollbackTx, Release

\* A scan behind the last pool has met every address.
LEMMA ExhaustedMetAll ==
    ASSUME PoolTypeOK, PoolScanCovers, NEW s \in Sessions, ScanExhausted(s)
    PROVE  taken = Addresses
<1>1. NumPools \in Nat /\ pool = NumPools + 1
  BY PoolAssumption DEF ScanExhausted, PoolScanCovers, Pools
<1>2. \A a \in Addresses : a[1] < pool
  BY <1>1, AddressParts DEF Pools
<1>. QED
  BY <1>2 DEF ScanExhausted, PoolScanCovers, PoolTypeOK

\* A granted address has those before it taken.
LEMMA GrantedInOrder ==
    ASSUME PoolTypeOK, PoolScanCovers, NEW s \in Sessions, ProbeFree(s)
    PROVE  /\ \A a \in Addresses : a[1] < lease'[s][1] => a \in taken
           /\ LET p == lease'[s][1]
              IN (lease'[s][2] + 1) % PoolSize[p] = nextOffset[p] % PoolSize[p] =>
                   \A o \in Offsets(p) \ {lease'[s][2]} : <<p, o>> \in taken
<1>1. lease'[s] = <<pool, Offset>>
  BY DEF ProbeFree, PoolTypeOK
<1>2. /\ pool \in Pools /\ attempt \in Nat /\ attempt < PoolSize[pool]
      /\ PoolSize[pool] \in Nat \ {0} /\ nextOffset[pool] \in Nat
      /\ scanFor # {}
  BY PoolAssumption DEF ProbeFree, PoolScanCovers, PoolTypeOK
<1>3. \A a \in Addresses : a[1] < pool => a \in taken
  BY <1>2 DEF PoolScanCovers
<1> DEFINE n == PoolSize[pool]
           tried(k) == Tried(nextOffset[pool], k, n)
<1>4. Offset = tried(attempt)
  BY DEF Offset, StartOffset, Tried
<1>5. ASSUME (Offset + 1) % n = nextOffset[pool] % n, NEW o \in Offsets(pool) \ {Offset}
      PROVE  <<pool, o>> \in taken
  <2>1. o \in 0..(n - 1) /\ attempt \in 0..(n - 1)
    BY <1>2 DEF Offsets
  <2>2. attempt = n - 1
    BY <1>2, <1>4, <1>5, <2>1, AllAreTried
  <2>3. PICK k \in 0..(n - 1) : o = tried(k)
    BY <1>2, <2>1, AllAreTried
  <2>4. k # attempt
    BY <1>4, <2>3
  <2>5. k \in 0..(attempt - 1)
    BY <1>2, <2>2, <2>4
  <2>. QED
    BY <1>2, <2>3, <2>5 DEF PoolScanCovers
<1>. QED
  BY <1>1, <1>3, <1>5

\* A scan gives up only when every address of every pool was found taken, uses a pool
\* only when those before it are full, and grants the address just behind the cursor
\* last of all (ensureClientAddressLease).
THEOREM AllocatorScanIsExact == PoolSpec => ScanIsExact
<1>1. PoolTypeOK /\ PoolScanCovers /\ [PoolNext]_poolVars
        => [\A s \in Sessions :
              outcome[s] = "none" /\ outcome'[s] = "exhausted" => taken = Addresses]_poolVars
  BY OutcomeOfStep, ExhaustedMetAll
<1>2. PoolTypeOK /\ PoolScanCovers /\ [PoolNext]_poolVars
        => [\A s \in Sessions : GrantStep(s) =>
              \A a \in Addresses : a[1] < lease'[s][1] => a \in taken]_poolVars
  BY OutcomeOfStep, GrantedInOrder DEF GrantStep
<1>3. PoolTypeOK /\ PoolScanCovers /\ [PoolNext]_poolVars
        => [\A s \in Sessions : GrantStep(s) =>
              LET p == lease'[s][1] IN
              (lease'[s][2] + 1) % PoolSize[p] = nextOffset[p] % PoolSize[p] =>
                 \A o \in Offsets(p) \ {lease'[s][2]} : <<p, o>> \in taken]_poolVars
  BY OutcomeOfStep, GrantedInOrder DEF GrantStep
<1>4. PoolSpec => ExhaustionIsReal
  BY <1>1, ScanHolds, PTL DEF PoolSpec, ExhaustionIsReal
<1>5. PoolSpec => PriorityRespected
  BY <1>2, ScanHolds, PTL DEF PoolSpec, PriorityRespected
<1>6. PoolSpec => LastGrantedIsLastChoice
  BY <1>3, ScanHolds, PTL DEF PoolSpec, LastGrantedIsLastChoice
<1>. QED
  BY <1>4, <1>5, <1>6 DEF ScanIsExact
==============================================================================
