----------------------------- MODULE ProbeProofs -----------------------------
(***************************************************************************)
(* Proofs about the probes of the gates: the sockets that a heartbeat      *)
(* reports are read (ProbeServer); a measurement that was acknowledged is  *)
(* in the journal or delivered, and cycles of one key are apart            *)
(* (ProbeQueue); a trading probe or benchmark is kept with the revision    *)
(* that was measured (ProbeJobs).  For any number of transports, tasks,    *)
(* jobs, workers and failures, and any order of late and repeated calls.   *)
(***************************************************************************)
EXTENDS ProbeServer, ProbeQueue, ProbeJobs, FiniteSetTheorems, WellFoundedInduction, TLAPS

-------------------------------------------------------------------------------
\* ProbeServer: what holds between the map of listeners, the sockets and their loops.

Uses == Interfaces \cup {NoInterface}
Listeners == [conn : Sockets \cup {NoSocket}, interface : Uses, ready : BOOLEAN]
Synchronisations ==
    [at : {"idle", "ensure", "close", "bind", "listening"}, desired : [Transports -> Uses],
     left : SUBSET Transports, of : Transports \cup {NoTransport}]

ServerTyped ==
    /\ interface \in [Transports -> Uses]
    /\ listeners \in [Transports -> Listeners]
    /\ conns \subseteq Sockets /\ exits \subseteq Sockets
    /\ loops \in [Sockets -> Transports \cup {NoTransport}]
    /\ syncing \in Synchronisations
    /\ syncing.of = NoTransport <=> syncing.at \in {"idle", "ensure"}

\* The entry of transport t, while the synchronisation is not at step at of it.
Past(t, at) == ~(syncing.at = at /\ syncing.of = t)

\* A socket of the map is read by the loop of its transport, but for the moment before
\* that loop is started, and is open, but for the moment before it is replaced.
EntriesAreRead ==
    \A t \in Transports : listeners[t].conn # NoSocket =>
        /\ Past(t, "listening") => loops[listeners[t].conn] = t
        /\ ~Past(t, "listening") =>
             loops[listeners[t].conn] = NoTransport /\ listeners[t].conn \notin exits
        /\ Past(t, "bind") => listeners[t].conn \in conns
EntriesAreHonest ==
    \A t \in Transports :
        /\ listeners[t].ready => listeners[t].conn # NoSocket
        /\ ~Past(t, "listening") => listeners[t].conn # NoSocket
        /\ ~Past(t, "bind") => listeners[t].conn \notin conns
\* Only a loop reports its end.
ExitsAreLoops == \A s \in exits : loops[s] # NoTransport
\* An open socket is in the map or about to be closed.
NoneIsLost == \A s \in conns : s \in exits \/ \E t \in Transports : listeners[t].conn = s

ServerInv == ServerTyped /\ EntriesAreRead /\ EntriesAreHonest /\ ExitsAreLoops /\ NoneIsLost

\* The empty entry.
LEMMA NoListenerIsOne == NoListener \in Listeners
BY DEF NoListener, Listeners, Uses

LEMMA ServerInitially == ServerInit => ServerInv
<1> SUFFICES ASSUME ServerInit PROVE ServerInv
    OBVIOUS
<1> USE DEF ServerInit
<1>1. NotSyncing \in Synchronisations /\ NotSyncing.at = "idle" /\ NotSyncing.of = NoTransport
    BY DEF NotSyncing, Synchronisations, Uses
<1>2. ServerTyped
    BY <1>1, NoListenerIsOne DEF ServerTyped, Uses
<1>3. \A t \in Transports : listeners[t] = NoListener /\ Past(t, "listening") /\ Past(t, "bind")
    BY <1>1 DEF Past
<1>4. NoListener.conn = NoSocket /\ ~NoListener.ready
    BY DEF NoListener
<1>5. EntriesAreRead /\ EntriesAreHonest
    BY <1>3, <1>4 DEF EntriesAreRead, EntriesAreHonest
<1> QED
    BY <1>2, <1>5 DEF ServerInv, ExitsAreLoops, NoneIsLost

\* Two entries never share a socket.
LEMMA EntriesAreApart ==
    ASSUME ServerInv, NEW t \in Transports, NEW u \in Transports, t # u,
           listeners[t].conn # NoSocket
    PROVE  listeners[t].conn # listeners[u].conn
<1>1. t # NoTransport /\ u # NoTransport
    BY ProbeServerAssumption
<1>2. Past(t, "listening") \/ Past(u, "listening")
    BY DEF Past
<1> QED
    BY <1>1, <1>2 DEF ServerInv, EntriesAreRead

------------------------------------------------------------------------------
\* Steps that leave the entries and the sockets alone.
LEMMA InterfaceKeeps ==
    ASSUME ServerInv, InterfaceChanges
    PROVE  ServerInv'
<1>1. UNCHANGED <<listeners, conns, loops, exits, syncing>>
    BY DEF InterfaceChanges
<1>2. interface' \in [Transports -> Uses]
    BY DEF InterfaceChanges, ServerInv, ServerTyped, Uses
<1>3. ServerTyped'
    BY <1>1, <1>2 DEF ServerInv, ServerTyped
<1> QED
    BY <1>1, <1>3 DEF ServerInv, EntriesAreRead, EntriesAreHonest, ExitsAreLoops, NoneIsLost, Past

LEMMA BeginSyncKeeps ==
    ASSUME ServerInv, BeginSync
    PROVE  ServerInv'
<1>1. UNCHANGED <<interface, listeners, conns, loops, exits>>
    BY DEF BeginSync
<1>2. probeServerBindings \in [Transports -> Uses]
    BY DEF probeServerBindings, ServerInv, ServerTyped, Uses
<1>3. syncing' \in Synchronisations /\ syncing'.at = "ensure" /\ syncing'.of = NoTransport
    BY <1>2 DEF BeginSync, Synchronisations, Desired
<1>4. ServerTyped'
    BY <1>1, <1>3 DEF ServerInv, ServerTyped
<1>5. syncing.at = "idle"
    BY DEF BeginSync
<1>6. \A t \in Transports : (Past(t, "listening") /\ Past(t, "bind"))
                             /\ (Past(t, "listening") /\ Past(t, "bind"))'
    BY <1>3, <1>5 DEF Past
<1> QED
    BY <1>1, <1>4, <1>6 DEF ServerInv, EntriesAreRead, EntriesAreHonest, ExitsAreLoops, NoneIsLost

\* The synchronisation takes up an entry.
LEMMA EnsureKeeps ==
    ASSUME ServerInv, NEW t \in Transports, ensureListener(t)
    PROVE  ServerInv'
<1>1. UNCHANGED <<interface, listeners, conns, loops, exits>> /\ syncing.at = "ensure"
    BY DEF ensureListener
<1>2. syncing \in Synchronisations /\ syncing.of = NoTransport /\ t # NoTransport
    BY <1>1, ProbeServerAssumption DEF ServerInv, ServerTyped
<1>3. /\ syncing' \in Synchronisations
      /\ \/ syncing'.at = "ensure" /\ syncing'.of = NoTransport
         \/ syncing'.at = "close" /\ syncing'.of = t
         \/ syncing'.at = "bind" /\ syncing'.of = t /\ listeners[t].conn = NoSocket
    BY <1>2 DEF ensureListener, Synchronisations
<1>4. ServerTyped'
    BY <1>1, <1>2, <1>3 DEF ServerInv, ServerTyped
<1>5. \A u \in Transports :
        /\ Past(u, "listening") /\ Past(u, "bind") /\ Past(u, "listening")'
        /\ ~Past(u, "bind")' => u = t /\ listeners[t].conn = NoSocket
    BY <1>1, <1>3 DEF Past
<1>6. NoSocket \notin conns
    BY ProbeServerAssumption DEF ServerInv, ServerTyped
<1> QED
    BY <1>1, <1>4, <1>5, <1>6 DEF ServerInv, EntriesAreRead, EntriesAreHonest, ExitsAreLoops, NoneIsLost

\* The agent dies, or the old socket is closed.
LEMMA CloseKeeps ==
    ASSUME ServerInv, CloseOld
    PROVE  ServerInv'
<1> DEFINE u == syncing.of
           s == listeners[u].conn
<1>1. /\ syncing.at = "close" /\ u \in Transports /\ syncing \in Synchronisations
      /\ listeners \in [Transports -> Listeners]
    BY DEF CloseOld, ServerInv, ServerTyped, Synchronisations
<1>2. CASE s = NoSocket
    <2>1. /\ listeners' = [t \in Transports |-> NoListener] /\ conns' = {} /\ exits' = {}
          /\ loops' = [r \in Sockets |-> NoTransport] /\ syncing' = NotSyncing
          /\ interface' = interface
        BY <1>2 DEF CloseOld
    <2>2. NotSyncing \in Synchronisations /\ NotSyncing.at = "idle" /\ NotSyncing.of = NoTransport
        BY DEF NotSyncing, Synchronisations, Uses
    <2>3. ServerTyped'
        BY <2>1, <2>2, NoListenerIsOne DEF ServerInv, ServerTyped
    <2>4. NoListener.conn = NoSocket /\ ~NoListener.ready
        BY DEF NoListener
    <2>5. \A t \in Transports : (Past(t, "listening") /\ Past(t, "bind"))'
        BY <2>1, <2>2 DEF Past
    <2>6. (EntriesAreRead /\ EntriesAreHonest)'
        BY <2>1, <2>4, <2>5 DEF EntriesAreRead, EntriesAreHonest
    <2> QED
        BY <2>1, <2>3, <2>6 DEF ServerInv, ExitsAreLoops, NoneIsLost
<1>3. CASE s # NoSocket
    <2>1. /\ conns' = conns \ {s} /\ syncing' = [syncing EXCEPT !.at = "bind"]
          /\ UNCHANGED <<interface, listeners, loops, exits>>
        BY <1>3 DEF CloseOld
    <2>2. syncing' \in Synchronisations /\ syncing'.at = "bind" /\ syncing'.of = u
        BY <1>1, <2>1 DEF Synchronisations
    <2>3. ServerTyped'
        BY <1>1, <2>1, <2>2, ProbeServerAssumption DEF ServerInv, ServerTyped
    <2>4. \A t \in Transports :
            /\ Past(t, "listening") /\ Past(t, "bind") /\ Past(t, "listening")'
            /\ Past(t, "bind")' <=> t # u
        BY <1>1, <2>2 DEF Past
    <2>5. \A t \in Transports : t # u => listeners[t].conn # s
        BY <1>1, <1>3, EntriesAreApart
    <2>6. (EntriesAreRead /\ EntriesAreHonest)'
        BY <1>1, <2>1, <2>4, <2>5 DEF ServerInv, EntriesAreRead, EntriesAreHonest
    <2> QED
        BY <2>1, <2>3, <2>6 DEF ServerInv, ExitsAreLoops, NoneIsLost
<1> QED
    BY <1>2, <1>3

\* What comes after a bind: nothing is at work on any entry.
LEMMA EnsuredAgain ==
    ASSUME ServerInv, syncing.at \in {"bind", "listening"}
    PROVE  Ensured \in Synchronisations /\ Ensured.at = "ensure" /\ Ensured.of = NoTransport
BY DEF Ensured, ServerInv, ServerTyped, Synchronisations

\* The entry is left empty: its old socket has been closed.
LEMMA BindFailsKeeps ==
    ASSUME ServerInv, BindFails
    PROVE  ServerInv'
<1> DEFINE u == syncing.of
           entry == [NoListener EXCEPT !.interface = syncing.desired[u]]
<1>1. /\ syncing.at = "bind" /\ u \in Transports /\ syncing \in Synchronisations
      /\ listeners \in [Transports -> Listeners]
    BY DEF BindFails, ServerInv, ServerTyped, Synchronisations
<1>2. /\ listeners' = [listeners EXCEPT ![u] = entry] /\ syncing' = Ensured
      /\ UNCHANGED <<interface, conns, loops, exits>>
    BY DEF BindFails
<1>3. entry \in Listeners /\ entry.conn = NoSocket /\ ~entry.ready
    BY <1>1 DEF Listeners, NoListener, Synchronisations
<1> HIDE DEF entry
<1>4. ServerTyped'
    BY <1>1, <1>2, <1>3, EnsuredAgain DEF ServerInv, ServerTyped
<1>5. \A t \in Transports :
        /\ Past(t, "listening") /\ (Past(t, "listening") /\ Past(t, "bind"))'
        /\ t # u => Past(t, "bind") /\ listeners'[t] = listeners[t]
    BY <1>1, <1>2, EnsuredAgain DEF Past
<1>6. listeners'[u] = entry /\ ~Past(u, "bind")
    BY <1>1, <1>2 DEF Past
<1>7. (EntriesAreRead /\ EntriesAreHonest)'
    BY <1>2, <1>3, <1>5, <1>6 DEF ServerInv, EntriesAreRead, EntriesAreHonest
<1>8. NoneIsLost'
    BY <1>1, <1>2, <1>5, <1>6 DEF ServerInv, EntriesAreHonest, NoneIsLost
<1> QED
    BY <1>2, <1>4, <1>7, <1>8 DEF ServerInv, ExitsAreLoops

\* The entry has a new socket, which no loop reads yet.
LEMMA BindKeeps ==
    ASSUME ServerInv, Bind
    PROVE  ServerInv'
<1> DEFINE u == syncing.of
           s == CHOOSE r \in Unused : TRUE
           entry == [conn |-> s, interface |-> syncing.desired[u], ready |-> TRUE]
<1>1. /\ syncing.at = "bind" /\ u \in Transports /\ syncing \in Synchronisations
      /\ listeners \in [Transports -> Listeners]
    BY DEF Bind, ServerInv, ServerTyped, Synchronisations
<1>2. /\ listeners' = [listeners EXCEPT ![u] = entry] /\ conns' = conns \cup {s}
      /\ syncing' = [syncing EXCEPT !.at = "listening"]
      /\ UNCHANGED <<interface, loops, exits>>
    BY DEF Bind
<1>3. s \in Unused
    BY DEF Bind
<1> HIDE DEF s
<1>4. /\ s \in Sockets \ conns /\ loops[s] = NoTransport /\ s \notin exits /\ s # NoSocket
      /\ \A t \in Transports : listeners[t].conn # s
    BY <1>3, ProbeServerAssumption DEF Unused
<1>5. entry \in Listeners /\ entry.conn = s
    BY <1>1, <1>4 DEF Listeners, Synchronisations
<1> HIDE DEF entry
<1>6. syncing' \in Synchronisations /\ syncing'.at = "listening" /\ syncing'.of = u
    BY <1>1, <1>2 DEF Synchronisations
<1>7. ServerTyped'
    BY <1>1, <1>2, <1>4, <1>5, <1>6, ProbeServerAssumption DEF ServerInv, ServerTyped
<1>8. \A t \in Transports :
        /\ Past(t, "listening") /\ Past(t, "bind")'
        /\ t # u => Past(t, "bind") /\ Past(t, "listening")' /\ listeners'[t] = listeners[t]
    BY <1>1, <1>2, <1>6 DEF Past
<1>9. listeners'[u] = entry /\ ~Past(u, "bind") /\ ~Past(u, "listening")'
    BY <1>1, <1>2, <1>6 DEF Past
<1>10. (EntriesAreRead /\ EntriesAreHonest)'
    BY <1>2, <1>4, <1>5, <1>8, <1>9 DEF ServerInv, EntriesAreRead, EntriesAreHonest
<1>11. NoneIsLost'
    BY <1>1, <1>2, <1>5, <1>8, <1>9 DEF ServerInv, EntriesAreHonest, NoneIsLost
<1> QED
    BY <1>2, <1>7, <1>10, <1>11 DEF ServerInv, ExitsAreLoops

\* The loop of the new socket is started.
LEMMA StartKeeps ==
    ASSUME ServerInv, startProbeServerLoop
    PROVE  ServerInv'
<1> DEFINE u == syncing.of
           s == listeners[u].conn
<1>1. syncing.at = "listening" /\ u \in Transports /\ listeners \in [Transports -> Listeners]
    BY DEF startProbeServerLoop, ServerInv, ServerTyped, Synchronisations
<1>2. /\ loops' = [loops EXCEPT ![s] = u] /\ syncing' = Ensured
      /\ UNCHANGED <<interface, listeners, conns, exits>>
    BY DEF startProbeServerLoop
<1>3. s \in Sockets /\ s \notin exits /\ s \in conns
    BY <1>1 DEF ServerInv, EntriesAreHonest, EntriesAreRead, Past, Listeners
<1>4. ServerTyped'
    BY <1>1, <1>2, <1>3, EnsuredAgain DEF ServerInv, ServerTyped
<1>5. \A t \in Transports :
        /\ Past(t, "bind") /\ (Past(t, "listening") /\ Past(t, "bind"))'
        /\ t # u => Past(t, "listening") /\ listeners[t].conn # s
    BY <1>1, <1>2, <1>3, EnsuredAgain, EntriesAreApart, ProbeServerAssumption DEF Past
<1>6. loops \in [Sockets -> Transports \cup {NoTransport}]
    BY DEF ServerInv, ServerTyped
<1>7. \A t \in Transports : listeners[t].conn # NoSocket => loops'[listeners[t].conn] = t
    <2> SUFFICES ASSUME NEW t \in Transports, listeners[t].conn # NoSocket
                 PROVE  loops'[listeners[t].conn] = t
        OBVIOUS
    <2>1. listeners[t].conn \in Sockets
        BY <1>1 DEF Listeners
    <2>2. t # u => loops[listeners[t].conn] = t
        BY <1>5 DEF ServerInv, EntriesAreRead
    <2> QED
        BY <1>2, <1>5, <1>6, <2>1, <2>2
<1>8. (EntriesAreRead /\ EntriesAreHonest)'
    BY <1>2, <1>5, <1>7 DEF ServerInv, EntriesAreRead, EntriesAreHonest
<1>9. ExitsAreLoops'
    BY <1>2, <1>3, <1>6 DEF ServerInv, ServerTyped, ExitsAreLoops
<1> QED
    BY <1>2, <1>4, <1>8, <1>9 DEF ServerInv, NoneIsLost

\* Entries go with their sockets, which no other entry has.
LEMMA PruneKeeps ==
    ASSUME ServerInv, Prune
    PROVE  ServerInv'
<1> DEFINE gone == Transports \ Desired(syncing.desired)
<1>1. /\ conns' = conns \ {listeners[t].conn : t \in gone}
      /\ listeners' = [t \in Transports |-> IF t \in gone THEN NoListener ELSE listeners[t]]
      /\ syncing.at = "ensure" /\ syncing' = NotSyncing
      /\ UNCHANGED <<interface, loops, exits>>
    BY DEF Prune
<1>2. listeners \in [Transports -> Listeners] /\ gone \subseteq Transports
    BY DEF ServerInv, ServerTyped
<1> HIDE DEF gone
<1>3. NotSyncing \in Synchronisations /\ NotSyncing.at = "idle" /\ NotSyncing.of = NoTransport
    BY DEF NotSyncing, Synchronisations, Uses
<1>4. ServerTyped'
    BY <1>1, <1>2, <1>3, NoListenerIsOne DEF ServerInv, ServerTyped
<1>5. \A t \in Transports : /\ Past(t, "listening") /\ Past(t, "bind")
                             /\ (Past(t, "listening") /\ Past(t, "bind"))'
    BY <1>1, <1>3 DEF Past
<1>6. NoListener.conn = NoSocket /\ ~NoListener.ready
    BY DEF NoListener
<1>7. \A t \in Transports : t \notin gone /\ listeners[t].conn # NoSocket =>
            listeners[t].conn \notin {listeners[v].conn : v \in gone}
    BY <1>2, EntriesAreApart
<1>8. (EntriesAreRead /\ EntriesAreHonest)'
    BY <1>1, <1>2, <1>5, <1>6, <1>7 DEF ServerInv, EntriesAreRead, EntriesAreHonest
<1>9. NoneIsLost'
    BY <1>1, <1>2 DEF ServerInv, NoneIsLost
<1> QED
    BY <1>1, <1>4, <1>8, <1>9 DEF ServerInv, ExitsAreLoops

\* A loop ends: its entry knows it when the loop reports it.
LEMMA ReadFailsKeeps ==
    ASSUME ServerInv, NEW s \in Sockets, ReadFails(s)
    PROVE  ServerInv'
<1>1. /\ loops[s] # NoTransport /\ exits' = exits \cup {s}
      /\ UNCHANGED <<interface, listeners, conns, loops, syncing>>
    BY DEF ReadFails
<1>2. ServerTyped'
    BY <1>1 DEF ServerInv, ServerTyped
<1>3. EntriesAreRead'
    BY <1>1 DEF ServerInv, EntriesAreRead, Past
<1>4. (EntriesAreHonest /\ ExitsAreLoops /\ NoneIsLost)'
    BY <1>1 DEF ServerInv, EntriesAreHonest, ExitsAreLoops, NoneIsLost, Past
<1> QED
    BY <1>2, <1>3, <1>4 DEF ServerInv

\* A loop takes out its own socket, whatever the entry holds by then.
LEMMA ExitKeeps ==
    ASSUME ServerInv, NEW s \in Sockets, markListenerExited(s)
    PROVE  ServerInv'
<1> DEFINE u == loops[s]
<1>1. /\ s \in exits /\ exits' = exits \ {s} /\ conns' = conns \ {s}
      /\ loops' = [loops EXCEPT ![s] = NoTransport]
      /\ UNCHANGED <<interface, syncing>>
    BY DEF markListenerExited
<1>2. /\ u \in Transports /\ s # NoSocket
      /\ listeners \in [Transports -> Listeners] /\ loops \in [Sockets -> Transports \cup {NoTransport}]
    BY <1>1, ProbeServerAssumption DEF ServerInv, ServerTyped, ExitsAreLoops
<1>3. \A t \in Transports : listeners[t].conn = s => t = u /\ Past(t, "listening")
    BY <1>1, <1>2 DEF ServerInv, EntriesAreRead
<1>4. \A t \in Transports :
        /\ listeners'[t] \in Listeners
        /\ listeners[t].conn # s => listeners'[t] = listeners[t]
        /\ listeners[t].conn = s => listeners'[t].conn = NoSocket /\ ~listeners'[t].ready
    <2>1. CASE ~IsItsListener(s)
        BY <1>2, <1>3, <2>1 DEF markListenerExited, IsItsListener
    <2>2. CASE IsItsListener(s)
        <3>1. listeners' = [listeners EXCEPT ![u].ready = FALSE, ![u].conn = NoSocket]
            BY <2>2 DEF markListenerExited
        <3>2. listeners[u] \in Listeners /\ listeners[u].conn = s
            BY <1>2, <2>2 DEF IsItsListener
        <3>3. \A t \in Transports : t # u => listeners'[t] = listeners[t]
            BY <1>2, <3>1
        <3>4. listeners'[u] = [[listeners[u] EXCEPT !.ready = FALSE] EXCEPT !.conn = NoSocket]
            BY <1>2, <3>1
        <3>5. listeners'[u] \in Listeners /\ listeners'[u].conn = NoSocket /\ ~listeners'[u].ready
            BY <3>2, <3>4 DEF Listeners
        <3> QED
            BY <1>2, <1>3, <3>2, <3>3, <3>5
    <2> QED
        BY <2>1, <2>2
<1>5. listeners' \in [Transports -> Listeners]
    BY <1>2, <1>4 DEF markListenerExited
<1>6. ServerTyped'
    BY <1>1, <1>2, <1>5 DEF ServerInv, ServerTyped
<1>7. \A t \in Transports : (Past(t, "listening")' <=> Past(t, "listening"))
                             /\ (Past(t, "bind")' <=> Past(t, "bind"))
    BY <1>1 DEF Past
<1>8. \A r \in Sockets : r # s => loops'[r] = loops[r]
    BY <1>1, <1>2
<1>9. EntriesAreRead'
    <2> SUFFICES ASSUME NEW t \in Transports, listeners'[t].conn # NoSocket
                 PROVE  /\ Past(t, "listening") => loops'[listeners'[t].conn] = t
                        /\ ~Past(t, "listening") =>
                             /\ loops'[listeners'[t].conn] = NoTransport
                             /\ listeners'[t].conn \notin exits'
                        /\ Past(t, "bind") => listeners'[t].conn \in conns'
        BY <1>7 DEF EntriesAreRead
    <2>1. listeners[t].conn # s /\ listeners'[t] = listeners[t]
        BY <1>4
    <2>2. listeners[t].conn \in Sockets
        BY <1>2, <2>1 DEF Listeners
    <2> QED
        BY <1>1, <1>8, <2>1, <2>2 DEF ServerInv, EntriesAreRead
<1>10. EntriesAreHonest'
    <2> SUFFICES ASSUME NEW t \in Transports
                 PROVE  /\ listeners'[t].ready => listeners'[t].conn # NoSocket
                        /\ ~Past(t, "listening") => listeners'[t].conn # NoSocket
                        /\ ~Past(t, "bind") => listeners'[t].conn \notin conns'
        BY <1>7 DEF EntriesAreHonest
    <2>1. NoSocket \notin conns'
        BY <1>1, ProbeServerAssumption DEF ServerInv, ServerTyped
    <2> QED
        BY <1>1, <1>3, <1>4, <2>1 DEF ServerInv, EntriesAreHonest
<1>11. ExitsAreLoops'
    BY <1>1, <1>8 DEF ServerInv, ServerTyped, ExitsAreLoops
<1>12. NoneIsLost'
    BY <1>1, <1>4 DEF ServerInv, NoneIsLost
<1> QED
    BY <1>6, <1>9, <1>10, <1>11, <1>12 DEF ServerInv

LEMMA ServerStepKeeps == ServerInv /\ [ServerNext]_serverVars => ServerInv'
<1> SUFFICES ASSUME ServerInv, [ServerNext]_serverVars PROVE ServerInv'
    OBVIOUS
<1>1. CASE UNCHANGED serverVars
    BY <1>1 DEF ServerInv, ServerTyped, EntriesAreRead, EntriesAreHonest, ExitsAreLoops, NoneIsLost,
        Past, serverVars
<1>2. CASE InterfaceChanges
    BY <1>2, InterfaceKeeps
<1>3. CASE BeginSync \/ \E t \in Transports : ensureListener(t)
    BY <1>3, BeginSyncKeeps, EnsureKeeps
<1>4. CASE CloseOld
    BY <1>4, CloseKeeps
<1>5. CASE BindFails \/ Bind
    BY <1>5, BindFailsKeeps, BindKeeps
<1>6. CASE startProbeServerLoop \/ Prune
    BY <1>6, StartKeeps, PruneKeeps
<1>7. CASE \E s \in Sockets : ReadFails(s) \/ markListenerExited(s)
    BY <1>7, ReadFailsKeeps, ExitKeeps
<1> QED
    BY <1>1, <1>2, <1>3, <1>4, <1>5, <1>6, <1>7 DEF ServerNext

LEMMA ServerInvMeans == ServerInv => ListenersAreTrue
<1> SUFFICES ASSUME ServerInv PROVE ListenersAreTrue
    OBVIOUS
<1>1. ASSUME NEW t \in Transports, listeners[t].ready, syncing.of # t
      PROVE  listeners[t].conn \in conns /\ loops[listeners[t].conn] = t
    BY <1>1 DEF ServerInv, EntriesAreRead, EntriesAreHonest, Past
<1> QED
    BY <1>1 DEF ListenersAreTrue, ServerInv, NoneIsLost

\* A listener that a heartbeat reports as ready has an open socket that its loop reads,
\* unless the synchronisation is just at work on it, and no open socket is beside the
\* map, in every order of closings, exits and new bindings (ensureListener,
\* markListenerExited, sync).
THEOREM ServerListenersAreTrue == ServerSpec => []ListenersAreTrue
<1>1. ServerSpec => []ServerInv
    BY ServerInitially, ServerStepKeeps, PTL DEF ServerSpec
<1> QED
    BY <1>1, ServerInvMeans, PTL

LEMMA ServerInvTypes == ServerInv => ServerTypeOK
<1> SUFFICES ASSUME ServerInv PROVE ServerTypeOK
    OBVIOUS
<1>1. ServerTyped
    BY DEF ServerInv
<1>2. ASSUME NEW t \in Transports
      PROVE  /\ listeners[t].conn \in Sockets \cup {NoSocket}
             /\ listeners[t].ready => listeners[t].conn # NoSocket
    <2>1. listeners[t] \in Listeners
        BY <1>1 DEF ServerTyped
    <2>2. listeners[t].ready => listeners[t].conn # NoSocket
        BY DEF ServerInv, EntriesAreHonest
    <2> QED
        BY <2>1, <2>2 DEF Listeners
<1>3. syncing.at \in {"idle", "ensure", "close", "bind", "listening", "prune"}
    BY <1>1 DEF ServerTyped, Synchronisations
<1> QED
    BY <1>1, <1>2, <1>3 DEF ServerTyped, Uses, ServerTypeOK

\* Types of the probe servers: an entry that is ready has a socket, wherever a bind
\* fails, a loop ends or the interfaces change (ensureListener, markListenerExited).
THEOREM ServerTypes == ServerSpec => []ServerTypeOK
<1>1. ServerSpec => []ServerInv
    BY ServerInitially, ServerStepKeeps, PTL DEF ServerSpec
<1> QED
    BY <1>1, ServerInvTypes, PTL


-------------------------------------------------------------------------------
\* ProbeQueue: the documents of a key's tasks against the reports of their claims.

USE DEF Tasks

ReportsOf(n) == [task : 1..n, claim : 1..MaxAttempts, at : Clock, retry : BOOLEAN]
DeliveriesOf(n) == {Nothing} \cup [task : 1..n, next : {"event", "schedule", "mark"}]

CatalogTyped ==
    /\ version \in 1..Len(Core) /\ catalog \in 0..version /\ snapshots \subseteq 1..version
    /\ scheduling \in Nat /\ queueFaults \in 0..MaxQueueFaults

QueueTyped ==
    /\ tasks \in Seq(Task) /\ Len(tasks) <= MaxCycles
    /\ schedule \in 0..Len(tasks)
    /\ delivering \in [Workers -> DeliveriesOf(Len(tasks))]
    /\ reports \subseteq ReportsOf(Len(tasks))

\* What holds of the document doc of task t.
DocSound(t, doc) ==
    /\ doc.claim = doc.attempts /\ doc.reported <= doc.claim
    /\ doc.phase = "queued" => doc.active /\ doc.attempts < MaxAttempts
    /\ doc.phase = "leased" => doc.active /\ doc.reported < doc.claim
    /\ doc.pending => doc.phase = "completed"
    /\ doc.phase = "completed" /\ ~doc.active => doc.cold
    /\ doc.phase = "completed" /\ doc.event # 0 /\ ~doc.pending => t \in delivered

\* What the last report on doc left behind is what a report says of itself.
ReportHeard(r, doc) ==
    /\ r.claim <= doc.claim
    /\ r.claim = doc.claim /\ doc.reported = doc.claim /\ ~r.retry =>
         doc.phase = "completed" /\ doc.event = r.at
WasSent(t, doc) ==
    doc.reported = doc.claim /\ doc.claim # 0 => \E r \in reports : r.task = t /\ r.claim = doc.claim

DocsSound == \A t \in Tasks : DocSound(t, tasks[t]) /\ WasSent(t, tasks[t])
ReportsSound ==
    /\ \A r, s \in reports : r.task = s.task /\ r.claim = s.claim => r = s
    /\ \A r \in reports : ReportHeard(r, tasks[r.task])
CarriedIsKept ==
    \A w \in Workers : delivering[w] # Nothing =>
        LET doc == tasks[delivering[w].task]
        IN /\ doc.phase = "completed"
           /\ delivering[w].next # "event" /\ doc.event # 0 => delivering[w].task \in delivered
AckedIsSettled ==
    /\ acked \subseteq reports
    /\ \A r \in acked :
        LET doc == tasks[r.task]
        IN doc.phase = "completed" /\ doc.reported = r.claim /\ doc.event = r.at

QueueInv == CatalogTyped /\ QueueTyped /\ DocsSound /\ ReportsSound /\ CarriedIsKept /\ AckedIsSettled

------------------------------------------------------------------------------
LEMMA QueueInitially == QueueInit => QueueInv
<1> SUFFICES ASSUME QueueInit PROVE QueueInv
    OBVIOUS
<1> USE DEF QueueInit
<1>1. Len(Core) \in Nat \ {0}
    BY QueueAssumption
<1>2. CatalogTyped
    BY <1>1, QueueAssumption DEF CatalogTyped
<1>3. QueueTyped
    BY QueueAssumption DEF QueueTyped, DeliveriesOf, ReportsOf
<1>4. DocsSound /\ ReportsSound /\ AckedIsSettled
    BY DEF DocsSound, ReportsSound, AckedIsSettled
<1>5. CarriedIsKept
    BY DEF CarriedIsKept
<1> QED
    BY <1>2, <1>3, <1>4, <1>5 DEF QueueInv

LEMMA QueueInvMeans == QueueInv => QueueTypeOK /\ AcknowledgedIsKept
<1> SUFFICES ASSUME QueueInv PROVE QueueTypeOK /\ AcknowledgedIsKept
    OBVIOUS
<1>1. QueueTypeOK
    BY QueueAssumption DEF QueueInv, CatalogTyped, QueueTyped, QueueTypeOK, DeliveriesOf, Nothing
<1>2. ASSUME NEW r \in acked PROVE tasks[r.task].pending \/ r.task \in delivered
    <2>1. r \in reports /\ r.task \in Tasks /\ r.at \in Clock
        BY DEF QueueInv, AckedIsSettled, QueueTyped, ReportsOf
    <2>2. r.at # 0
        BY <2>1, QueueAssumption
    <2> QED
        BY <2>1, <2>2 DEF QueueInv, AckedIsSettled, DocsSound, DocSound
<1>3. AcknowledgedIsKept
    BY <1>2 DEF QueueInv, AckedIsSettled, AcknowledgedIsKept
<1> QED
    BY <1>1, <1>3

LEMMA WantedIsNat == QueueInv => Wanted \in Nat
BY QueueAssumption DEF QueueInv, CatalogTyped, Wanted

------------------------------------------------------------------------------
\* What a document may become without disturbing what was settled.
Follows(old, new) ==
    /\ old.claim <= new.claim
    /\ old.phase = "completed" =>
         new.phase = "completed" /\ new.event = old.event /\ new.reported = old.reported

\* A document that follows on another one disturbs nothing that was settled.
LEMMA BecomesKeeps ==
    ASSUME QueueInv, NEW t \in Tasks, NEW doc \in Task, Becomes(t, doc), reports' = reports,
           DocSound(t, doc), Follows(tasks[t], doc), WasSent(t, doc),
           \A r \in reports : r.task = t => ReportHeard(r, doc)
    PROVE  /\ CatalogTyped' /\ QueueTyped' /\ DocsSound' /\ ReportsSound' /\ CarriedIsKept'
           /\ Len(tasks') = Len(tasks) /\ tasks'[t] = doc
           /\ acked' = acked => AckedIsSettled'
<1>1. /\ tasks' \in Seq(Task) /\ Len(tasks') = Len(tasks) /\ Len(tasks) \in Nat
      /\ tasks'[t] = doc
      /\ \A u \in Tasks : u # t => tasks'[u] = tasks[u]
    BY DEF Becomes, QueueInv, QueueTyped
<1>2. UNCHANGED <<catalogVars, resultVars, scheduling, delivering, queueFaults>>
    BY DEF Becomes
<1>3. CatalogTyped'
    BY <1>2 DEF QueueInv, CatalogTyped, catalogVars
<1>4. QueueTyped'
    BY <1>1, <1>2 DEF QueueInv, QueueTyped, resultVars
<1>5. DocsSound'
    <2> SUFFICES ASSUME NEW u \in Tasks'
                 PROVE  (DocSound(u, tasks[u]) /\ WasSent(u, tasks[u]))'
        BY DEF DocsSound
    <2>1. u \in Tasks
        BY <1>1
    <2>2. CASE u = t
        BY <2>2, <1>1, <1>2 DEF DocSound, WasSent, resultVars
    <2>3. CASE u # t
        <3>1. tasks'[u] = tasks[u] /\ DocSound(u, tasks[u]) /\ WasSent(u, tasks[u])
            BY <2>1, <2>3, <1>1 DEF QueueInv, DocsSound
        <3> QED
            BY <3>1, <1>2 DEF DocSound, WasSent, resultVars
    <2> QED
        BY <2>2, <2>3
<1>6. ReportsSound'
    <2>1. ASSUME NEW r \in reports PROVE ReportHeard(r, tasks'[r.task])
        <3>1. r.task \in Tasks
            BY DEF QueueInv, QueueTyped, ReportsOf
        <3> QED
            BY <3>1, <1>1 DEF QueueInv, ReportsSound
    <2> QED
        BY <2>1 DEF QueueInv, ReportsSound, ReportHeard
<1>7. CarriedIsKept'
    <2> SUFFICES ASSUME NEW w \in Workers, delivering[w] # Nothing
                 PROVE  LET now == tasks'[delivering[w].task]
                        IN /\ now.phase = "completed"
                           /\ delivering[w].next # "event" /\ now.event # 0
                                => delivering[w].task \in delivered
        BY <1>2 DEF CarriedIsKept, resultVars
    <2>1. delivering[w].task \in Tasks
        BY DEF QueueInv, QueueTyped, DeliveriesOf
    <2>2. LET was == tasks[delivering[w].task]
          IN /\ was.phase = "completed"
             /\ delivering[w].next # "event" /\ was.event # 0 => delivering[w].task \in delivered
        BY DEF QueueInv, CarriedIsKept
    <2> QED
        BY <2>1, <2>2, <1>1 DEF Follows
<1>8. ASSUME acked' = acked PROVE AckedIsSettled'
    <2>1. ASSUME NEW r \in acked
          PROVE  LET now == tasks'[r.task]
                 IN now.phase = "completed" /\ now.reported = r.claim /\ now.event = r.at
        <3>1. r.task \in Tasks
            BY DEF QueueInv, AckedIsSettled, QueueTyped, ReportsOf
        <3>2. LET was == tasks[r.task]
              IN was.phase = "completed" /\ was.reported = r.claim /\ was.event = r.at
            BY DEF QueueInv, AckedIsSettled
        <3> QED
            BY <3>1, <3>2, <1>1 DEF Follows
    <2> QED
        BY <1>8, <2>1 DEF QueueInv, AckedIsSettled
<1> QED
    BY <1>1, <1>3, <1>4, <1>5, <1>6, <1>7, <1>8

\* What is known of a document.
LEMMA DocKnown ==
    ASSUME QueueInv, NEW t \in Tasks
    PROVE  /\ tasks[t] \in Task /\ DocSound(t, tasks[t]) /\ WasSent(t, tasks[t])
           /\ \A r \in reports : r.task = t => ReportHeard(r, tasks[t])
BY DEF QueueInv, QueueTyped, DocsSound, ReportsSound

\* The document a claim writes.
Claimed(old) == [old EXCEPT !.phase = "leased", !.attempts = @ + 1, !.claim = old.attempts + 1,
                            !.expired = FALSE]
LEMMA ClaimedIs ==
    ASSUME NEW old \in Task, old.attempts + 1 \in 0..MaxAttempts
    PROVE  /\ Claimed(old) \in Task /\ Claimed(old).phase = "leased"
           /\ Claimed(old).attempts = old.attempts + 1 /\ Claimed(old).claim = old.attempts + 1
           /\ Claimed(old).reported = old.reported /\ Claimed(old).active = old.active
           /\ Claimed(old).event = old.event /\ Claimed(old).pending = old.pending
           /\ Claimed(old).cold = old.cold
<1>1. old.attempts \in 0..MaxAttempts
    BY DEF Task
<1> QED
    BY <1>1 DEF Claimed, Task

\* A step of a document that no report is about.
LEMMA DocStepKeeps ==
    ASSUME QueueInv, NEW t \in Tasks,
           \/ claim(t) \/ ClaimExpires(t) \/ Requeue(t) \/ ReleaseKey(t) \/ Cancel(t) \/ CoolsDown(t)
    PROVE  QueueInv'
<1>1. PICK doc :
        /\ Becomes(t, doc) /\ reports' = reports /\ acked' = acked
        /\ doc \in Task /\ DocSound(t, doc) /\ Follows(tasks[t], doc) /\ WasSent(t, doc)
        /\ \A r \in reports : r.task = t => ReportHeard(r, doc)
    <2>1. /\ tasks[t] \in Task /\ DocSound(t, tasks[t]) /\ WasSent(t, tasks[t])
          /\ \A r \in reports : r.task = t => ReportHeard(r, tasks[t])
        BY DocKnown
    <2>2. \A r \in reports : r.claim \in 1..MaxAttempts
        BY DEF QueueInv, QueueTyped, ReportsOf
    <2>3. CASE claim(t)
        <3> DEFINE doc == Claimed(tasks[t])
        <3>1. Becomes(t, doc) /\ reports' = reports /\ acked' = acked
            BY <2>3 DEF claim, Claimed
        <3>2. tasks[t].phase = "queued" /\ tasks[t].attempts \in 0..MaxAttempts
            BY <2>1, <2>3 DEF claim, Task
        <3>3. tasks[t].attempts + 1 \in 0..MaxAttempts
            BY <2>1, <3>2, QueueAssumption DEF DocSound
        <3>4. /\ doc \in Task /\ doc.phase = "leased" /\ doc.attempts = tasks[t].attempts + 1
              /\ doc.claim = tasks[t].attempts + 1 /\ doc.reported = tasks[t].reported
              /\ doc.active = tasks[t].active /\ doc.event = tasks[t].event
              /\ doc.pending = tasks[t].pending /\ doc.cold = tasks[t].cold
            BY <2>1, <3>3, ClaimedIs
        <3> HIDE DEF doc
        <3>0. tasks[t].attempts \in Int /\ tasks[t].claim \in Int /\ tasks[t].reported \in Int
            BY <2>1 DEF Task
        <3>5. DocSound(t, doc)
            <4>1. tasks[t].claim = tasks[t].attempts /\ tasks[t].reported <= tasks[t].claim
                  /\ tasks[t].active
                BY <2>1, <3>2 DEF DocSound
            <4>2. doc.claim = doc.attempts /\ doc.reported < doc.claim
                BY <3>0, <3>4, <4>1
            <4>3. doc.reported \in Int /\ doc.claim \in Int /\ ~doc.pending
                BY <2>1, <3>0, <3>2, <3>4 DEF DocSound
            <4> QED
                BY <3>4, <4>1, <4>2, <4>3 DEF DocSound
        <3>6. Follows(tasks[t], doc)
            BY <2>1, <3>0, <3>2, <3>4 DEF DocSound, Follows
        <3>7. doc.claim = tasks[t].claim + 1 /\ doc.reported # doc.claim
            BY <2>1, <3>0, <3>2, <3>4 DEF DocSound
        <3>8. WasSent(t, doc)
            BY <3>7 DEF WasSent
        <3>9. \A r \in reports : r.task = t => ReportHeard(r, doc)
            BY <2>1, <2>2, <3>0, <3>4, <3>7 DEF ReportHeard
        <3> QED
            BY ONLY <3>1, <3>4, <3>8, <3>5, <3>6, <3>9
    <2>4. CASE ClaimExpires(t)
        <3> DEFINE doc == [tasks[t] EXCEPT !.expired = TRUE]
        <3>1. Becomes(t, doc) /\ reports' = reports /\ acked' = acked
            BY <2>4 DEF ClaimExpires
        <3>2. doc \in Task
            BY <2>1, <2>4, QueueAssumption DEF Task, ClaimExpires, DocSound
        <3>3. DocSound(t, doc)
            BY <2>1, <2>4, QueueAssumption DEF Task, ClaimExpires, DocSound
        <3>4. Follows(tasks[t], doc)
            BY <2>1, <2>4, QueueAssumption DEF Task, ClaimExpires, DocSound, Follows
        <3>5. WasSent(t, doc) /\ \A r \in reports : r.task = t => ReportHeard(r, doc)
            BY <2>1 DEF Task, WasSent, ReportHeard
        <3> HIDE DEF doc
        <3> QED
            BY ONLY <3>1, <3>2, <3>5, <3>3, <3>4
    <2>5. CASE Requeue(t)
        <3> DEFINE doc == IF tasks[t].attempts < MaxAttempts THEN Again(tasks[t])
                                                             ELSE Completed(tasks[t], 0)
        <3>1. Becomes(t, doc) /\ reports' = reports /\ acked' = acked
            BY <2>5 DEF Requeue
        <3>2. doc \in Task
            BY <2>1, <2>5, QueueAssumption DEF Task, Requeue, Again, Completed, DocSound
        <3>3. DocSound(t, doc)
            BY <2>1, <2>5, QueueAssumption DEF Task, Requeue, Again, Completed, DocSound
        <3>4. Follows(tasks[t], doc)
            BY <2>1, <2>5, QueueAssumption DEF Task, Requeue, Again, Completed, DocSound, Follows
        <3>5. WasSent(t, doc) /\ \A r \in reports : r.task = t => ReportHeard(r, doc)
            BY <2>1, <2>5, <2>2 DEF Task, WasSent, ReportHeard, Requeue, Again, Completed
        <3> HIDE DEF doc
        <3> QED
            BY ONLY <3>1, <3>2, <3>5, <3>3, <3>4
    <2>6. CASE ReleaseKey(t)
        <3> DEFINE doc == [tasks[t] EXCEPT !.active = FALSE]
        <3>1. Becomes(t, doc) /\ reports' = reports /\ acked' = acked
            BY <2>6 DEF ReleaseKey
        <3>2. doc \in Task
            BY <2>1, <2>6, QueueAssumption DEF Task, ReleaseKey, IntervalIsOver, DocSound
        <3>3. DocSound(t, doc)
            BY <2>1, <2>6, QueueAssumption DEF Task, ReleaseKey, IntervalIsOver, DocSound
        <3>4. Follows(tasks[t], doc)
            BY <2>1, <2>6, QueueAssumption DEF Task, ReleaseKey, IntervalIsOver, DocSound, Follows
        <3>5. WasSent(t, doc) /\ \A r \in reports : r.task = t => ReportHeard(r, doc)
            BY <2>1 DEF Task, WasSent, ReportHeard
        <3> HIDE DEF doc
        <3> QED
            BY ONLY <3>1, <3>2, <3>5, <3>3, <3>4
    <2>7. CASE Cancel(t)
        <3> DEFINE doc == [tasks[t] EXCEPT !.phase = "cancelled", !.active = FALSE]
        <3>1. Becomes(t, doc) /\ reports' = reports /\ acked' = acked
            BY <2>7 DEF Cancel
        <3>2. doc \in Task
            BY <2>1, <2>7, QueueAssumption DEF Task, Cancel, DocSound
        <3>3. DocSound(t, doc)
            BY <2>1, <2>7, QueueAssumption DEF Task, Cancel, DocSound
        <3>4. Follows(tasks[t], doc)
            BY <2>1, <2>7, QueueAssumption DEF Task, Cancel, DocSound, Follows
        <3>5. WasSent(t, doc) /\ \A r \in reports : r.task = t => ReportHeard(r, doc)
            BY <2>1, <2>7 DEF Task, WasSent, ReportHeard, Cancel
        <3> HIDE DEF doc
        <3> QED
            BY ONLY <3>1, <3>2, <3>5, <3>3, <3>4
    <2>8. CASE CoolsDown(t)
        <3> DEFINE doc == [tasks[t] EXCEPT !.cold = TRUE]
        <3>1. Becomes(t, doc) /\ reports' = reports /\ acked' = acked
            BY <2>8 DEF CoolsDown
        <3>2. doc \in Task
            BY <2>1, <2>8, QueueAssumption DEF Task, CoolsDown, DocSound
        <3>3. DocSound(t, doc)
            BY <2>1, <2>8, QueueAssumption DEF Task, CoolsDown, DocSound
        <3>4. Follows(tasks[t], doc)
            BY <2>1, <2>8, QueueAssumption DEF Task, CoolsDown, DocSound, Follows
        <3>5. WasSent(t, doc) /\ \A r \in reports : r.task = t => ReportHeard(r, doc)
            BY <2>1 DEF Task, WasSent, ReportHeard
        <3> HIDE DEF doc
        <3> QED
            BY ONLY <3>1, <3>2, <3>5, <3>3, <3>4
    <2> QED
        BY <2>3, <2>4, <2>5, <2>6, <2>7, <2>8
<1> QED
    BY <1>1, BecomesKeeps DEF QueueInv

\* What the report r leaves of the task it holds, and marking of a delivered one.
Answered(old, r) ==
    [IF r.retry /\ old.attempts < MaxAttempts THEN Again(old) ELSE Completed(old, r.at)
     EXCEPT !.reported = r.claim]
Marked(old) == [old EXCEPT !.pending = FALSE]

LEMMA AgainIs ==
    ASSUME NEW old \in Task
    PROVE  /\ Again(old) \in Task /\ Again(old).phase = "queued" /\ ~Again(old).expired
           /\ Again(old).active = old.active /\ Again(old).attempts = old.attempts
           /\ Again(old).claim = old.claim /\ Again(old).event = old.event
           /\ Again(old).pending = old.pending /\ Again(old).cold = old.cold
BY DEF Again, Task

LEMMA CompletedIs ==
    ASSUME NEW old \in Task, NEW at \in Clock
    PROVE  /\ Completed(old, at) \in Task /\ Completed(old, at).phase = "completed"
           /\ Completed(old, at).event = at /\ Completed(old, at).pending
           /\ Completed(old, at).active = old.active /\ Completed(old, at).attempts = old.attempts
           /\ Completed(old, at).claim = old.claim /\ Completed(old, at).cold = old.cold
BY DEF Completed, Task

LEMMA ReportedIs ==
    ASSUME NEW half \in Task, NEW c \in 0..MaxAttempts, NEW new, new = [half EXCEPT !.reported = c]
    PROVE  /\ new \in Task /\ new.reported = c
           /\ new.phase = half.phase /\ new.active = half.active /\ new.attempts = half.attempts
           /\ new.claim = half.claim /\ new.event = half.event
           /\ new.pending = half.pending /\ new.cold = half.cold
BY DEF Task

LEMMA AnsweredIs ==
    ASSUME NEW old \in Task, NEW r, r.claim \in 1..MaxAttempts, r.at \in Clock, r.retry \in BOOLEAN
    PROVE  /\ Answered(old, r) \in Task
           /\ Answered(old, r).reported = r.claim /\ Answered(old, r).claim = old.claim
           /\ Answered(old, r).attempts = old.attempts /\ Answered(old, r).active = old.active
           /\ Answered(old, r).cold = old.cold
           /\ r.retry /\ old.attempts < MaxAttempts =>
                /\ Answered(old, r).phase = "queued" /\ Answered(old, r).event = old.event
                /\ Answered(old, r).pending = old.pending
           /\ ~(r.retry /\ old.attempts < MaxAttempts) =>
                /\ Answered(old, r).phase = "completed" /\ Answered(old, r).event = r.at
                /\ Answered(old, r).pending
<1> DEFINE again == r.retry /\ old.attempts < MaxAttempts
           half == IF again THEN Again(old) ELSE Completed(old, r.at)
<1>1. /\ half \in Task /\ half.claim = old.claim /\ half.attempts = old.attempts
      /\ half.active = old.active /\ half.cold = old.cold
      /\ again => half.phase = "queued" /\ half.event = old.event /\ half.pending = old.pending
      /\ ~again => half.phase = "completed" /\ half.event = r.at /\ half.pending
    BY AgainIs, CompletedIs
<1>2. Answered(old, r) = [half EXCEPT !.reported = r.claim]
    BY DEF Answered
<1>3. r.claim \in 0..MaxAttempts
    BY QueueAssumption DEF QueueAssumption
<1> HIDE DEF again, half
<1>4. PICK new : new = Answered(old, r)
    OBVIOUS
<1>5. /\ new \in Task /\ new.reported = r.claim
      /\ new.phase = half.phase /\ new.active = half.active /\ new.attempts = half.attempts
      /\ new.claim = half.claim /\ new.event = half.event
      /\ new.pending = half.pending /\ new.cold = half.cold
    BY <1>1, <1>2, <1>3, <1>4, ReportedIs
<1> QED
    BY <1>1, <1>4, <1>5 DEF again

LEMMA MarkedIs ==
    ASSUME NEW old \in Task
    PROVE  /\ Marked(old) \in Task /\ ~Marked(old).pending
           /\ Marked(old).phase = old.phase /\ Marked(old).active = old.active
           /\ Marked(old).attempts = old.attempts /\ Marked(old).claim = old.claim
           /\ Marked(old).reported = old.reported /\ Marked(old).event = old.event
           /\ Marked(old).cold = old.cold
BY DEF Marked, Task

\* A report is taken, replayed or ignored.
LEMMA ReportKeeps ==
    ASSUME QueueInv, NEW r \in reports, report(r)
    PROVE  QueueInv'
<1> DEFINE t == r.task
           old == tasks[t]
           holds == old.claim = r.claim /\ old.phase = "leased" /\ ~old.expired
           requeue == r.retry /\ old.attempts < MaxAttempts
           replayed == old.claim = r.claim /\ old.phase # "leased" /\ old.reported = r.claim
           doc == IF holds THEN Answered(old, r) ELSE old
<1>1. /\ t \in Tasks /\ r.claim \in 1..MaxAttempts /\ r.at \in Clock /\ r.retry \in BOOLEAN
      /\ r.at \in Nat \ {0}
    BY QueueAssumption DEF QueueInv, QueueTyped, ReportsOf
<1>2. Becomes(t, doc) /\ reports' = reports
    BY DEF report, Answered
<1>3. /\ old \in Task /\ DocSound(t, old) /\ WasSent(t, old)
      /\ \A s \in reports : s.task = t => ReportHeard(s, old)
    BY <1>1, DocKnown
<1>4. ASSUME holds
      PROVE  /\ doc \in Task /\ doc.reported = r.claim /\ doc.claim = r.claim
             /\ doc.attempts = old.attempts /\ doc.active = old.active /\ doc.cold = old.cold
             /\ requeue => doc.phase = "queued" /\ doc.pending = old.pending
             /\ ~requeue => doc.phase = "completed" /\ doc.event = r.at /\ doc.pending
    <2>1. doc = Answered(old, r) /\ old.claim = r.claim
        BY <1>4
    <2> HIDE DEF doc, old
    <2> QED
        BY <1>1, <1>3, <2>1, AnsweredIs
<1>5. doc \in Task /\ DocSound(t, doc) /\ Follows(old, doc) /\ WasSent(t, doc)
    <2>1. CASE ~holds
        <3>1. doc = old
            BY <2>1
        <3>2. Follows(old, old)
            BY <1>3 DEF Follows, Task
        <3> QED
            BY <1>3, <3>1, <3>2
    <2>2. CASE holds
        <3>1. /\ old.phase = "leased" /\ old.claim = r.claim /\ old.active /\ ~old.pending
              /\ old.claim = old.attempts /\ old.claim \in Nat
            BY <2>2, <1>3 DEF DocSound, Task
        <3>2. requeue => doc.active /\ doc.attempts < MaxAttempts /\ ~doc.pending
            BY <1>4, <2>2, <3>1
        <3>6. r.claim <= doc.claim /\ doc.claim = doc.attempts
            <4>1. doc.claim = r.claim /\ doc.attempts = old.attempts /\ r.claim \in Int
                BY <1>1, <1>4, <2>2
            <4> QED
                BY <3>1, <4>1
        <3> HIDE DEF doc, old, holds, requeue
        <3>3. DocSound(t, doc)
            <4>1. CASE requeue
                BY <1>4, <2>2, <3>2, <3>6, <4>1 DEF DocSound
            <4>2. CASE ~requeue
                BY <1>4, <2>2, <3>1, <3>6, <4>2 DEF DocSound
            <4> QED
                BY <4>1, <4>2
        <3>4. Follows(old, doc)
            BY <1>4, <2>2, <3>1 DEF Follows
        <3>5. WasSent(t, doc)
            BY <1>4, <2>2 DEF WasSent
        <3> QED
            BY <1>4, <2>2, <3>3, <3>4, <3>5
    <2> QED
        BY <2>1, <2>2
<1>6. ASSUME NEW s \in reports, s.task = t PROVE ReportHeard(s, doc)
    <2>1. ReportHeard(s, old)
        BY <1>3, <1>6
    <2>2. CASE ~holds
        BY <2>1, <2>2
    <2>3. CASE holds
        <3>1. s.claim = r.claim => s = r
            BY <1>6 DEF QueueInv, ReportsSound
        <3>2. s.claim <= old.claim
            BY <2>1 DEF ReportHeard
        <3>3. doc.claim = r.claim
            BY <1>4, <2>3
        <3>4. ~r.retry => doc.phase = "completed" /\ doc.event = r.at
            BY <1>4, <2>3
        <3> QED
            BY <3>1, <3>2, <3>3, <3>4, <2>3 DEF ReportHeard
    <2> QED
        BY <2>2, <2>3
<1>7. /\ CatalogTyped' /\ QueueTyped' /\ DocsSound' /\ ReportsSound' /\ CarriedIsKept'
      /\ tasks'[t] = doc
      /\ acked' = acked => AckedIsSettled'
    <2> HIDE DEF doc, old
    <2> QED
        BY <1>1, <1>2, <1>5, <1>6, BecomesKeeps DEF old
<1>8. AckedIsSettled'
    <2>1. CASE acked' = acked
        BY <1>7, <2>1
    <2>2. CASE acked' # acked
        <3>1. acked' = acked \cup {r} /\ ((holds /\ ~requeue) \/ (replayed /\ ~r.retry))
            BY <2>2 DEF report
        <3>2. doc.phase = "completed" /\ doc.reported = r.claim /\ doc.event = r.at
            <4>1. CASE holds /\ ~requeue
                BY <4>1, <1>4
            <4>2. CASE replayed /\ ~r.retry
                BY <4>2, <1>3 DEF ReportHeard
            <4> QED
                BY <3>1, <4>1, <4>2
        <3>3. ASSUME NEW s \in acked
              PROVE  LET now == tasks'[s.task]
                     IN now.phase = "completed" /\ now.reported = s.claim /\ now.event = s.at
            <4>1. s.task \in Tasks
                BY DEF QueueInv, AckedIsSettled, QueueTyped, ReportsOf
            <4>2. LET was == tasks[s.task]
                  IN was.phase = "completed" /\ was.reported = s.claim /\ was.event = s.at
                BY DEF QueueInv, AckedIsSettled
            <4>3. s.task # t => tasks'[s.task] = tasks[s.task]
                BY <1>1, <1>2, <4>1 DEF Becomes, QueueInv, QueueTyped
            <4>4. CASE s.task = t
                <5>1. old.phase = "completed" /\ old.reported = s.claim /\ old.event = s.at
                    BY <4>2, <4>4
                <5> HIDE DEF doc, old
                <5>2. doc.phase = "completed" /\ doc.reported = s.claim /\ doc.event = s.at
                    BY <1>5, <5>1 DEF Follows
                <5> QED
                    BY <1>7, <4>4, <5>2
            <4> QED
                BY <4>2, <4>3, <4>4
        <3> QED
            BY <3>1, <3>2, <3>3, <1>2, <1>7 DEF QueueInv, AckedIsSettled
    <2> QED
        BY <2>1, <2>2
<1> QED
    BY <1>7, <1>8 DEF QueueInv

\* An agent reports on the claim it holds: no claim has two reports.
LEMMA SendReportKeeps ==
    ASSUME QueueInv, NEW t \in Tasks, SendReport(t)
    PROVE  QueueInv'
<1>1. PICK at \in Clock, retry \in BOOLEAN :
        /\ \A r \in reports : r.task = t => r.claim # tasks[t].claim
        /\ reports' = reports \cup {[task |-> t, claim |-> tasks[t].claim, at |-> at, retry |-> retry]}
    BY DEF SendReport
<1> DEFINE new == [task |-> t, claim |-> tasks[t].claim, at |-> at, retry |-> retry]
<1>2. UNCHANGED <<catalogVars, tasks, resultVars, scheduling, delivering, acked, queueFaults>>
    BY DEF SendReport
<1>3. tasks[t] \in Task /\ tasks[t].claim # 0 /\ DocSound(t, tasks[t]) /\ WasSent(t, tasks[t])
    BY DocKnown DEF SendReport
<1>4. CatalogTyped' /\ CarriedIsKept'
    BY <1>2 DEF QueueInv, CatalogTyped, CarriedIsKept, catalogVars, resultVars
<1>5. QueueTyped'
    <2>1. new \in ReportsOf(Len(tasks))
        BY <1>3, QueueAssumption DEF ReportsOf, Task
    <2> QED
        BY <2>1, <1>1, <1>2 DEF QueueInv, QueueTyped, resultVars
<1>6. DocsSound'
    BY <1>1, <1>2 DEF QueueInv, DocsSound, DocSound, WasSent, resultVars
<1>7. ReportsSound'
    <2>1. tasks[t].reported # tasks[t].claim
        BY <1>1, <1>3 DEF WasSent
    <2>2. ReportHeard(new, tasks[t])
        BY <2>1, <1>3 DEF ReportHeard, Task
    <2>3. ASSUME NEW r \in reports' PROVE ReportHeard(r, tasks[r.task])
        BY <2>2, <1>1 DEF QueueInv, ReportsSound
    <2>4. ASSUME NEW r \in reports', NEW s \in reports', r.task = s.task, r.claim = s.claim
          PROVE  r = s
        BY <2>4, <1>1 DEF QueueInv, ReportsSound
    <2> QED
        BY <2>3, <2>4, <1>2 DEF ReportsSound, ReportHeard
<1>8. AckedIsSettled'
    BY <1>1, <1>2 DEF QueueInv, AckedIsSettled
<1> QED
    BY <1>4, <1>5, <1>6, <1>7, <1>8 DEF QueueInv

\* enqueue appends a fresh document; the others stay as they are.
LEMMA EnqueueKeeps ==
    ASSUME QueueInv, enqueue
    PROVE  QueueInv'
<1> USE DEF enqueue
<1>1. CASE UNCHANGED tasks
    <2>1. QueueTyped'
        BY <1>1 DEF QueueInv, QueueTyped, resultVars
    <2>2. DocsSound' /\ ReportsSound'
        BY <1>1 DEF QueueInv, DocsSound, DocSound, WasSent, ReportsSound, ReportHeard, resultVars
    <2>3. CarriedIsKept' /\ AckedIsSettled'
        BY <1>1 DEF QueueInv, CarriedIsKept, AckedIsSettled, resultVars
    <2>4. CatalogTyped'
        BY <1>1 DEF QueueInv, CatalogTyped, catalogVars
    <2> QED
        BY <2>1, <2>2, <2>3, <2>4 DEF QueueInv
<1>2. CASE ~UNCHANGED tasks
    <2> DEFINE new == [phase |-> "queued", active |-> TRUE, revision |-> scheduling, attempts |-> 0,
                       claim |-> 0, expired |-> FALSE, reported |-> 0, event |-> 0,
                       pending |-> FALSE, cold |-> FALSE]
               n == Len(tasks)
    <2>1. tasks' = Append(tasks, new) /\ n < MaxCycles
        BY <1>2
    <2>2. new \in Task
        BY QueueAssumption DEF Task, QueueInv, CatalogTyped
    <2>3. /\ tasks' \in Seq(Task) /\ n \in Nat /\ Len(tasks') = n + 1 /\ tasks'[n + 1] = new
          /\ \A u \in Tasks : tasks'[u] = tasks[u]
        BY <2>1, <2>2 DEF QueueInv, QueueTyped
    <2>4. UNCHANGED <<catalogVars, resultVars, delivering, reports, acked, queueFaults>>
        OBVIOUS
    <2>5. CatalogTyped'
        BY <2>4 DEF QueueInv, CatalogTyped, catalogVars
    <2>6. QueueTyped'
        BY <2>1, <2>3, <2>4, QueueAssumption
            DEF QueueInv, QueueTyped, ReportsOf, DeliveriesOf, resultVars
    <2>7. DocsSound'
        <3>1. DocSound(n + 1, new) /\ WasSent(n + 1, new)
            BY QueueAssumption DEF DocSound, WasSent
        <3> SUFFICES ASSUME NEW u \in 1..(n + 1)
                     PROVE  (DocSound(u, tasks[u]) /\ WasSent(u, tasks[u]))'
            BY <2>3 DEF DocsSound
        <3>2. CASE u = n + 1
            BY <3>1, <3>2, <2>3, <2>4 DEF DocSound, WasSent, resultVars
        <3>3. CASE u # n + 1
            <4>1. u \in Tasks
                BY <3>3, <2>3
            <4> QED
                BY <4>1, <2>3, <2>4 DEF QueueInv, DocsSound, DocSound, WasSent, resultVars
        <3> QED
            BY <3>2, <3>3
    <2>8. \A r \in reports : r.task \in Tasks
        BY DEF QueueInv, QueueTyped, ReportsOf
    <2>9. ReportsSound' /\ AckedIsSettled'
        BY <2>3, <2>4, <2>8 DEF QueueInv, ReportsSound, ReportHeard, AckedIsSettled
    <2>10. \A w \in Workers : delivering[w] # Nothing => delivering[w].task \in Tasks
        BY DEF QueueInv, QueueTyped, DeliveriesOf
    <2>11. CarriedIsKept'
        BY <2>3, <2>4, <2>10 DEF QueueInv, CarriedIsKept, resultVars
    <2> QED
        BY <2>5, <2>6, <2>7, <2>9, <2>11 DEF QueueInv
<1> QED
    BY <1>1, <1>2

------------------------------------------------------------------------------
\* Steps that leave the tasks alone.
LEMMA CatalogStepKeeps ==
    ASSUME QueueInv, CoreChanges \/ ReadCore \/ (\E v \in snapshots : replaceCatalog(v)) \/ FindDue
    PROVE  QueueInv'
<1>1. UNCHANGED <<tasks, resultVars, delivering, reports, acked, queueFaults>>
    BY DEF CoreChanges, ReadCore, replaceCatalog, FindDue
<1>2. CatalogTyped'
    <2> USE QueueAssumption DEF QueueInv, CatalogTyped
    <2>1. CASE CoreChanges
        BY <2>1 DEF CoreChanges
    <2>2. CASE ReadCore
        BY <2>2 DEF ReadCore
    <2>3. CASE \E v \in snapshots : replaceCatalog(v)
        BY <2>3 DEF replaceCatalog
    <2>4. CASE FindDue
        BY <2>4, WantedIsNat DEF FindDue, catalogVars
    <2> QED
        BY <2>1, <2>2, <2>3, <2>4
<1>3. (QueueTyped /\ DocsSound /\ ReportsSound /\ CarriedIsKept /\ AckedIsSettled)'
    BY <1>1 DEF QueueInv, QueueTyped, DocsSound, DocSound, WasSent, ReportsSound, ReportHeard,
                CarriedIsKept, AckedIsSettled, resultVars
<1> QED
    BY <1>2, <1>3 DEF QueueInv

\* A worker carries a completed task through its steps.
LEMMA DeliveryKeeps ==
    ASSUME QueueInv, NEW w \in Workers,
           \/ \E t \in Tasks : BeginDelivery(w, t)
           \/ DeliverEvent(w) \/ DeliverSchedule(w) \/ DeliveryBreaks(w)
    PROVE  QueueInv'
<1>1. UNCHANGED <<catalogVars, tasks, scheduling, reports, acked>> /\ delivered \subseteq delivered'
    BY DEF BeginDelivery, DeliverEvent, DeliverSchedule, DeliveryBreaks, resultVars
<1>2. /\ delivering \in [Workers -> DeliveriesOf(Len(tasks))]
      /\ Len(tasks) \in Nat
    BY DEF QueueInv, QueueTyped
<1>3. delivering[w] # Nothing => delivering[w].task \in Tasks
    BY <1>2 DEF DeliveriesOf
<1>4. queueFaults' \in 0..MaxQueueFaults
    BY QueueAssumption DEF QueueInv, CatalogTyped, BeginDelivery, DeliverEvent, DeliverSchedule,
       DeliveryBreaks, QueueFault
<1>5. CatalogTyped'
    BY <1>1, <1>4 DEF QueueInv, CatalogTyped, catalogVars
<1>6. delivering' \in [Workers -> DeliveriesOf(Len(tasks))] /\ schedule' \in 0..Len(tasks)
    <2>1. CASE \E t \in Tasks : BeginDelivery(w, t)
        BY <2>1, <1>2 DEF BeginDelivery, DeliveriesOf, QueueInv, QueueTyped, resultVars
    <2>2. CASE DeliverEvent(w)
        BY <2>2, <1>2 DEF DeliverEvent, DeliveriesOf, QueueInv, QueueTyped, Nothing
    <2>3. CASE DeliverSchedule(w)
        BY <2>3, <1>2 DEF DeliverSchedule, DeliveriesOf, QueueInv, QueueTyped, Nothing
    <2>4. CASE DeliveryBreaks(w)
        BY <2>4, <1>2 DEF DeliveryBreaks, DeliveriesOf, QueueInv, QueueTyped, resultVars
    <2> QED
        BY <2>1, <2>2, <2>3, <2>4
<1>7. QueueTyped'
    BY <1>1, <1>6 DEF QueueInv, QueueTyped
<1>8. DocsSound' /\ ReportsSound' /\ AckedIsSettled'
    BY <1>1 DEF QueueInv, DocsSound, DocSound, WasSent, ReportsSound, ReportHeard, AckedIsSettled
<1>9. CarriedIsKept'
    <2> SUFFICES ASSUME NEW v \in Workers, delivering'[v] # Nothing
                 PROVE  LET doc == tasks[delivering'[v].task]
                        IN /\ doc.phase = "completed"
                           /\ delivering'[v].next # "event" /\ doc.event # 0
                                => delivering'[v].task \in delivered'
        BY <1>1 DEF CarriedIsKept
    <2>1. delivering[v] # Nothing =>
            LET doc == tasks[delivering[v].task]
            IN /\ doc.phase = "completed"
               /\ delivering[v].next # "event" /\ doc.event # 0 => delivering[v].task \in delivered
        BY DEF QueueInv, CarriedIsKept
    <2>2. CASE v # w
        <3>1. delivering'[v] = delivering[v]
            BY <2>2, <1>2 DEF BeginDelivery, DeliverEvent, DeliverSchedule, DeliveryBreaks
        <3> QED
            BY <3>1, <2>1, <1>1
    <2>3. CASE v = w /\ \E t \in Tasks : BeginDelivery(w, t)
        <3>1. PICK t \in Tasks : BeginDelivery(w, t)
            BY <2>3
        <3>2. delivering'[v] = [task |-> t, next |-> "event"] /\ tasks[t].pending
            BY <3>1, <2>3, <1>2 DEF BeginDelivery
        <3>3. tasks[t].phase = "completed"
            BY <3>2, DocKnown DEF DocSound
        <3> QED
            BY <3>2, <3>3
    <2>4. CASE v = w /\ DeliverEvent(w)
        <3>1. /\ delivering[w] # Nothing /\ delivering'[v].task = delivering[w].task
              /\ tasks[delivering[w].task].event # 0 => delivering[w].task \in delivered'
            BY <2>4, <1>2 DEF DeliverEvent, Nothing, DeliveriesOf
        <3> QED
            BY <3>1, <2>1, <2>4
    <2>5. CASE v = w /\ DeliverSchedule(w)
        <3>1. /\ delivering[w] # Nothing /\ delivering'[v].task = delivering[w].task
              /\ delivering[w].next # "event"
            BY <2>5, <1>2 DEF DeliverSchedule, Nothing, DeliveriesOf
        <3> QED
            BY <3>1, <2>1, <2>5, <1>1
    <2>6. CASE v = w /\ DeliveryBreaks(w)
        BY <2>6, <1>2 DEF DeliveryBreaks
    <2> QED
        BY <2>2, <2>3, <2>4, <2>5, <2>6
<1> QED
    BY <1>5, <1>7, <1>8, <1>9 DEF QueueInv

\* The last of them: what is no longer pending has been delivered.
LEMMA MarkKeeps ==
    ASSUME QueueInv, NEW w \in Workers, MarkDelivered(w)
    PROVE  QueueInv'
<1> DEFINE t == delivering[w].task
           doc == Marked(tasks[t])
<1>1. delivering[w] # Nothing /\ delivering[w].next # "event"
    BY DEF MarkDelivered, Nothing
<1>2. t \in Tasks /\ Len(tasks) \in Nat /\ delivering \in [Workers -> DeliveriesOf(Len(tasks))]
    BY <1>1 DEF QueueInv, QueueTyped, DeliveriesOf
<1>3. /\ tasks[t] \in Task /\ DocSound(t, tasks[t]) /\ WasSent(t, tasks[t])
      /\ \A r \in reports : r.task = t => ReportHeard(r, tasks[t])
    BY <1>2, DocKnown
<1>4. tasks[t].phase = "completed" /\ (tasks[t].event # 0 => t \in delivered)
    BY <1>1 DEF QueueInv, CarriedIsKept
<1>5. /\ doc \in Task /\ ~doc.pending /\ doc.phase = tasks[t].phase
      /\ doc.active = tasks[t].active /\ doc.attempts = tasks[t].attempts
      /\ doc.claim = tasks[t].claim /\ doc.reported = tasks[t].reported
      /\ doc.event = tasks[t].event /\ doc.cold = tasks[t].cold
    BY <1>3, MarkedIs
<1> HIDE DEF doc
<1>6. /\ DocSound(t, doc) /\ WasSent(t, doc) /\ Follows(tasks[t], doc)
      /\ \A r \in reports : r.task = t => ReportHeard(r, doc)
    <2>1. DocSound(t, doc) /\ WasSent(t, doc)
        BY <1>3, <1>4, <1>5 DEF DocSound, WasSent
    <2>2. Follows(tasks[t], doc)
        <3>1. tasks[t].claim \in Int /\ tasks[t].attempts \in Int
            BY <1>3 DEF Task
        <3> QED
            BY <1>4, <1>5, <3>1 DEF Follows
    <2>3. \A r \in reports : r.task = t => ReportHeard(r, doc)
        BY <1>3, <1>5 DEF ReportHeard
    <2> QED
        BY <2>1, <2>2, <2>3
<1>7. /\ tasks' \in Seq(Task) /\ Len(tasks') = Len(tasks) /\ tasks'[t] = doc
      /\ \A u \in Tasks : u # t => tasks'[u] = tasks[u]
    <2>1. tasks' = [tasks EXCEPT ![t] = doc] /\ tasks \in Seq(Task)
        BY <1>2, <1>3 DEF MarkDelivered, QueueInv, QueueTyped, Marked, doc
    <2> QED
        BY <2>1, <1>2, <1>5
<1>8. /\ UNCHANGED <<catalogVars, resultVars, scheduling, reports, acked, queueFaults>>
      /\ delivering' = [delivering EXCEPT ![w] = Nothing]
    BY DEF MarkDelivered
<1>9. CatalogTyped'
    BY <1>8 DEF QueueInv, CatalogTyped, catalogVars
<1>10. QueueTyped'
    BY <1>2, <1>7, <1>8 DEF QueueInv, QueueTyped, DeliveriesOf, resultVars
<1>11. DocsSound'
    <2> SUFFICES ASSUME NEW u \in Tasks PROVE (DocSound(u, tasks[u]) /\ WasSent(u, tasks[u]))'
        BY <1>7 DEF DocsSound
    <2>1. CASE u = t
        BY <2>1, <1>5, <1>6, <1>7, <1>8 DEF DocSound, WasSent, resultVars
    <2>2. CASE u # t
        BY <2>2, <1>7, <1>8 DEF QueueInv, DocsSound, DocSound, WasSent, resultVars
    <2> QED
        BY <2>1, <2>2
<1>12. ReportsSound'
    <2>1. \A r \in reports : r.task \in Tasks
        BY DEF QueueInv, QueueTyped, ReportsOf
    <2>2. \A r \in reports : ReportHeard(r, tasks'[r.task])
        BY <2>1, <1>6, <1>7 DEF QueueInv, ReportsSound
    <2> QED
        BY <2>2, <1>8 DEF QueueInv, ReportsSound, ReportHeard
<1>13. AckedIsSettled'
    <2>1. \A r \in acked : r.task \in Tasks
        BY DEF QueueInv, QueueTyped, ReportsOf, AckedIsSettled
    <2> QED
        BY <2>1, <1>5, <1>7, <1>8 DEF QueueInv, AckedIsSettled
<1>14. CarriedIsKept'
    <2> SUFFICES ASSUME NEW v \in Workers, delivering'[v] # Nothing
                 PROVE  LET now == tasks'[delivering'[v].task]
                        IN /\ now.phase = "completed"
                           /\ delivering'[v].next # "event" /\ now.event # 0
                                => delivering'[v].task \in delivered
        BY <1>8 DEF CarriedIsKept, resultVars
    <2>1. delivering'[v] = delivering[v] /\ delivering[v].task \in Tasks
        BY <1>2, <1>8 DEF DeliveriesOf
    <2>2. doc.phase = tasks[t].phase /\ doc.event = tasks[t].event
        BY <1>5
    <2> QED
        <3>1. LET was == tasks[delivering[v].task]
              IN /\ was.phase = "completed"
                 /\ delivering[v].next # "event" /\ was.event # 0 => delivering[v].task \in delivered
            BY <2>1 DEF QueueInv, CarriedIsKept
        <3> HIDE DEF doc
        <3> QED
            BY <3>1, <2>1, <2>2, <1>7
<1> QED
    BY <1>9, <1>10, <1>11, <1>12, <1>13, <1>14 DEF QueueInv

LEMMA QueueStepKeeps == QueueInv /\ [QueueNext]_queueVars => QueueInv'
<1> SUFFICES ASSUME QueueInv, [QueueNext]_queueVars PROVE QueueInv'
    OBVIOUS
<1>1. CASE UNCHANGED queueVars
    BY <1>1 DEF QueueInv, CatalogTyped, QueueTyped, DocsSound, DocSound, WasSent, ReportsSound,
        ReportHeard, CarriedIsKept, AckedIsSettled, queueVars, catalogVars, resultVars
<1>2. CASE CoreChanges \/ ReadCore \/ (\E v \in snapshots : replaceCatalog(v)) \/ FindDue
    BY <1>2, CatalogStepKeeps
<1>3. CASE enqueue
    BY <1>3, EnqueueKeeps
<1>4. ASSUME NEW w \in Workers,
             \/ \E t \in Tasks : BeginDelivery(w, t)
             \/ DeliverEvent(w) \/ DeliverSchedule(w) \/ DeliveryBreaks(w)
      PROVE  QueueInv'
    BY <1>4, DeliveryKeeps
<1>5. ASSUME NEW w \in Workers, MarkDelivered(w) PROVE QueueInv'
    BY <1>5, MarkKeeps
<1>6. ASSUME NEW t \in Tasks,
             \/ claim(t) \/ ClaimExpires(t) \/ Requeue(t) \/ ReleaseKey(t) \/ Cancel(t) \/ CoolsDown(t)
      PROVE  QueueInv'
    BY <1>6, DocStepKeeps
<1>7. ASSUME NEW t \in Tasks, SendReport(t) PROVE QueueInv'
    BY <1>7, SendReportKeeps
<1>8. ASSUME NEW r \in reports, report(r) PROVE QueueInv'
    BY <1>8, ReportKeeps
<1> QED
    BY <1>1, <1>2, <1>3, <1>4, <1>5, <1>6, <1>7, <1>8 DEF QueueNext

LEMMA QueueHolds == QueueSpec => []QueueInv
BY QueueInitially, QueueStepKeeps, PTL DEF QueueSpec

\* A result that was acknowledged belongs to the completion it reported, and is in the
\* journal or delivered, through replays, late reports, requeues and failing deliveries
\* (complete, deliver in mongo.ts).
THEOREM QueueAcknowledgedIsKept == QueueSpec => [](QueueTypeOK /\ AcknowledgedIsKept)
BY QueueHolds, QueueInvMeans, PTL

\* Only enqueue makes the queue longer, and only when no task of the key is active.
LEMMA CyclesStayApart ==
    ASSUME QueueInv, [QueueNext]_queueVars, Len(tasks') > Len(tasks)
    PROVE  \A t \in Tasks :
             tasks[t].phase = "completed" /\ tasks[t].revision = tasks'[Len(tasks')].revision
                 => tasks[t].cold
<1>1. tasks \in Seq(Task) /\ Len(tasks) \in Nat
    BY DEF QueueInv, QueueTyped
<1>2. \A t \in Tasks : \A doc : Becomes(t, doc) => Len(tasks') = Len(tasks)
    BY <1>1 DEF Becomes
<1>3. ~UNCHANGED tasks
    BY <1>1
<1>4. \A w \in Workers : ~MarkDelivered(w)
    BY <1>1 DEF MarkDelivered
<1>5. \A r \in reports : ~report(r)
    <2>1. \A r \in reports : r.task \in Tasks
        BY DEF QueueInv, QueueTyped, ReportsOf
    <2> QED
        BY <1>1, <1>2, <2>1 DEF report
<1>6. \A t \in Tasks : ~(claim(t) \/ ClaimExpires(t) \/ Requeue(t) \/ ReleaseKey(t) \/ Cancel(t)
                          \/ CoolsDown(t))
    BY <1>1, <1>2 DEF claim, ClaimExpires, Requeue, ReleaseKey, Cancel, CoolsDown
<1>7. enqueue
    BY <1>3, <1>4, <1>5, <1>6 DEF QueueNext, queueVars, CoreChanges, ReadCore, replaceCatalog,
        FindDue, BeginDelivery, DeliverEvent, DeliverSchedule, DeliveryBreaks, SendReport
<1>8. \A t \in Tasks : ~tasks[t].active
    BY <1>3, <1>7 DEF enqueue
<1> QED
    BY <1>8 DEF QueueInv, DocsSound, DocSound

\* A cycle of a key begins only when the interval since the last one of the revision is
\* over, although enqueue works on an old reading of the schedule (enqueue, deliver).
THEOREM QueueCyclesAreApart == QueueSpec => CyclesAreApart
<1>1. QueueInv /\ [QueueNext]_queueVars
        => [Len(tasks') > Len(tasks) =>
              \A t \in Tasks :
                tasks[t].phase = "completed" /\ tasks[t].revision = tasks'[Len(tasks')].revision
                    => tasks[t].cold]_queueVars
    BY CyclesStayApart
<1> QED
    BY <1>1, QueueHolds, PTL DEF QueueSpec, CyclesAreApart

------------------------------------------------------------------------------
\* ProbeQueue: the list of the newest results.

LEMMA SomeLeast ==
    ASSUME NEW T \in SUBSET Nat, T # {}
    PROVE  \E m \in T : \A k \in T : m <= k
<1>1. PICK m \in T : \A k \in T : <<k, m>> \notin OpToRel(<, Nat)
  BY WFMin, NatLessThanWellFounded, Zenon
<1>2. \A k \in T : ~(k < m)
  BY <1>1, Zenon DEF OpToRel
<1>. QED
  BY <1>2

Entries == [task : Nat, at : Nat]
Above(es, e) == {d \in es : Newer(d, e)}

\* How many results of es are newer than e.
LEMMA RankIs ==
    ASSUME NEW es \in SUBSET Entries, IsFiniteSet(es), NEW e
    PROVE  IsFiniteSet(Above(es, e)) /\ Cardinality(Above(es, e)) \in Nat
BY FS_Subset, FS_CardinalityType DEF Above

LEMMA RankGrows ==
    ASSUME NEW es \in SUBSET Entries, NEW fs \in SUBSET Entries, NEW e, NEW f, IsFiniteSet(fs), IsFiniteSet(es),
           Above(es, e) \subseteq Above(fs, f)
    PROVE  Cardinality(Above(es, e)) <= Cardinality(Above(fs, f))
BY RankIs, FS_Subset

LEMMA NewerIsOrder ==
    /\ \A d \in Entries : ~Newer(d, d)
    /\ \A c, d, e \in Entries : Newer(c, d) /\ Newer(d, e) => Newer(c, e)
    /\ \A d, e \in Entries : d = e \/ Newer(d, e) \/ Newer(e, d)
<1>1. \A d, e \in Entries : d.at = e.at /\ d.task = e.task => d = e
    BY DEF Entries
<1>2. \A d \in Entries : d.at \in Nat /\ d.task \in Nat
    BY DEF Entries
<1> QED
    BY <1>1, <1>2 DEF Newer

\* A result that is not among the newest has the newest of them, Latest in number, above it.
LEMMA NewestAreAbove ==
    ASSUME NEW es \in SUBSET Entries, IsFiniteSet(es), NEW e \in es, e \notin Newest(es)
    PROVE  \E d \in es : /\ d = e \/ Newer(d, e)
                         /\ Above(es, d) \subseteq Newest(es)
                         /\ ~(Cardinality(Above(es, d)) < Latest)
<1> DEFINE Rank(d) == Cardinality(Above(es, d))
           Old == es \ Newest(es)
           T == {Rank(d) : d \in Old}
<1>1. \A d : Rank(d) \in Nat
    BY RankIs
<1>2. T \in SUBSET Nat /\ T # {}
    BY <1>1
<1>3. PICK m \in T : \A k \in T : m <= k
    BY <1>2, SomeLeast
<1>4. PICK d \in Old : m = Rank(d)
    BY <1>3
<1>5. \A c \in Old : Rank(d) <= Rank(c)
    BY <1>3, <1>4
<1>6. ~(Rank(d) < Latest)
    BY <1>4 DEF Newest, Above
<1>7. ASSUME NEW c \in es, NEW b \in es, Newer(c, b) PROVE Rank(c) < Rank(b)
    <2>1. Above(es, c) \subseteq Above(es, b) /\ c \in Above(es, b) /\ c \notin Above(es, c)
        BY <1>7, NewerIsOrder DEF Above
    <2>2. IsFiniteSet(Above(es, b)) /\ Rank(c) <= Rank(b)
        BY <2>1, RankIs, RankGrows
    <2>3. Rank(c) # Rank(b)
        BY <2>1, <2>2, FS_Subset
    <2> HIDE DEF Rank
    <2> QED
        BY <2>2, <2>3, <1>1
<1>8. Above(es, d) \subseteq Newest(es)
    <2> SUFFICES ASSUME NEW c \in es, Newer(c, d), c \notin Newest(es) PROVE FALSE
        BY DEF Above
    <2>1. Rank(c) < Rank(d) /\ Rank(d) <= Rank(c)
        BY <1>4, <1>5, <1>7
    <2> HIDE DEF Rank
    <2> QED
        BY <2>1, <1>1
<1>9. d = e \/ Newer(d, e)
    <2> SUFFICES ASSUME Newer(e, d) PROVE FALSE
        BY <1>4, NewerIsOrder
    <2>1. Rank(e) < Rank(d) /\ Rank(d) <= Rank(e)
        BY <1>4, <1>5, <1>7
    <2> HIDE DEF Rank
    <2> QED
        BY <2>1, <1>1
<1> QED
    BY <1>4, <1>6, <1>8, <1>9

\* Keeping only the newest loses nothing for the next result.
LEMMA NewestOfMore ==
    ASSUME NEW es \in SUBSET Entries, IsFiniteSet(es), NEW x \in Entries
    PROVE  Newest(Newest(es) \cup {x}) = Newest(es \cup {x})
<1> DEFINE few == Newest(es) \cup {x}
           all == es \cup {x}
<1>1. few \subseteq all /\ few \subseteq Entries /\ all \subseteq Entries
    BY DEF Newest
<1>2. IsFiniteSet(all) /\ IsFiniteSet(few)
    BY <1>1, FS_AddElement, FS_Subset
<1>3. \A e : Cardinality(Above(few, e)) \in Nat /\ Cardinality(Above(all, e)) \in Nat
    BY <1>1, <1>2, RankIs
<1>4. Latest \in Nat
    BY QueueAssumption
<1>5. ASSUME NEW e \in Newest(all) PROVE e \in Newest(few)
    <2>1. e \in all /\ Cardinality(Above(all, e)) < Latest
        BY <1>5 DEF Newest, Above
    <2>2. e \in few
        <3>1. CASE e = x
            BY <3>1
        <3>2. CASE e \in es
            <4>1. Cardinality(Above(es, e)) <= Cardinality(Above(all, e))
                BY <1>1, <1>2, RankGrows DEF Above
            <4>2. Cardinality(Above(es, e)) \in Nat
                BY RankIs
            <4>3. Cardinality(Above(es, e)) < Latest
                BY <4>1, <4>2, <2>1, <1>3, <1>4
            <4> QED
                BY <3>2, <4>3 DEF Newest, Above
        <3> QED
            BY <2>1, <3>1, <3>2
    <2>3. Cardinality(Above(few, e)) <= Cardinality(Above(all, e))
        BY <1>1, <1>2, RankGrows DEF Above
    <2>4. Cardinality(Above(few, e)) < Latest
        BY <2>1, <2>3, <1>3, <1>4
    <2> QED
        BY <2>2, <2>4 DEF Newest, Above
<1>6. ASSUME NEW e \in Newest(few) PROVE e \in Newest(all)
    <2>1. e \in few /\ e \in all /\ Cardinality(Above(few, e)) < Latest
        BY <1>1, <1>6 DEF Newest, Above
    <2>2. Above(all, e) \subseteq few
        <3> SUFFICES ASSUME NEW c \in es, Newer(c, e), c \notin Newest(es) PROVE FALSE
            BY DEF Above
        <3>1. PICK d \in es : /\ d = c \/ Newer(d, c)
                              /\ Above(es, d) \subseteq Newest(es)
                              /\ ~(Cardinality(Above(es, d)) < Latest)
            BY NewestAreAbove
        <3>2. Newer(d, e)
            BY <3>1, <1>1, <2>1, NewerIsOrder
        <3>3. Above(es, d) \subseteq Above(few, e)
            BY <3>1, <3>2, <1>1, <2>1, NewerIsOrder DEF Above
        <3>4. Cardinality(Above(es, d)) <= Cardinality(Above(few, e))
            BY <3>3, <1>1, <1>2, RankGrows
        <3>5. Cardinality(Above(es, d)) \in Nat
            BY RankIs
        <3> QED
            BY <3>1, <3>4, <3>5, <2>1, <1>3, <1>4
    <2>3. Above(all, e) = Above(few, e)
        BY <2>2, <1>1 DEF Above
    <2> QED
        BY <2>1, <2>3 DEF Newest, Above
<1> QED
    BY <1>5, <1>6

\* A completed task keeps its result.
LEMMA CompletedStays ==
    ASSUME QueueInv, [QueueNext]_queueVars, NEW t \in Tasks, tasks[t].phase = "completed"
    PROVE  t \in Tasks' /\ tasks'[t].phase = "completed" /\ tasks'[t].event = tasks[t].event
<1> DEFINE Kept == t \in Tasks' /\ tasks'[t].phase = "completed" /\ tasks'[t].event = tasks[t].event
<1>1. tasks \in Seq(Task) /\ Len(tasks) \in Nat /\ tasks[t] \in Task
    <2>1. tasks \in Seq(Task)
        BY DEF QueueInv, QueueTyped
    <2> QED
        BY <2>1
<1>2. CASE UNCHANGED tasks
    BY <1>2
<1>3. CASE enqueue
    <2>1. tasks' = tasks \/ \E new : tasks' = Append(tasks, new)
        BY <1>3 DEF enqueue
    <2>2. ASSUME NEW new, tasks' = Append(tasks, new) PROVE Kept
        BY <1>1, <2>2
    <2> QED
        BY <2>1, <2>2, <1>2
<1>4. ASSUME NEW u \in Tasks, NEW doc, Becomes(u, doc),
             u = t => doc.phase = "completed" /\ doc.event = tasks[t].event
      PROVE  Kept
    <2>1. tasks' = [tasks EXCEPT ![u] = doc]
        BY <1>4 DEF Becomes
    <2>2. t \in Tasks' /\ (u # t => tasks'[t] = tasks[t]) /\ (u = t => tasks'[t] = doc)
        BY <1>1, <2>1
    <2> QED
        BY <1>4, <2>2
<1>5. ASSUME NEW u \in Tasks,
             \/ claim(u) \/ ClaimExpires(u) \/ Requeue(u) \/ ReleaseKey(u) \/ Cancel(u) \/ CoolsDown(u)
      PROVE  Kept
    <2>1. tasks[u] \in Task
        BY DEF QueueInv, QueueTyped
    <2>2. CASE claim(u) \/ ClaimExpires(u) \/ Requeue(u) \/ Cancel(u)
        <3>1. u # t
            BY <2>2 DEF claim, ClaimExpires, Requeue, Cancel
        <3> QED
            BY <2>2, <3>1, <1>4 DEF claim, ClaimExpires, Requeue, Cancel
    <2>3. CASE ReleaseKey(u)
        BY <2>1, <2>3, <1>4 DEF ReleaseKey, Task
    <2>4. CASE CoolsDown(u)
        BY <2>1, <2>4, <1>4 DEF CoolsDown, Task
    <2> QED
        BY <1>5, <2>2, <2>3, <2>4
<1>6. ASSUME NEW r \in reports, report(r) PROVE Kept
    <2>1. r.task \in Tasks
        BY DEF QueueInv, QueueTyped, ReportsOf
    <2>2. PICK doc : Becomes(r.task, doc) /\ (tasks[r.task].phase # "leased" => doc = tasks[r.task])
        BY <1>6 DEF report
    <2> QED
        BY <2>1, <2>2, <1>4
<1>7. ASSUME NEW w \in Workers, MarkDelivered(w) PROVE Kept
    <2> DEFINE u == delivering[w].task
    <2>1. tasks' = [tasks EXCEPT ![u] = Marked(tasks[u])]
        BY <1>1, <1>7 DEF MarkDelivered, Marked
    <2>2. Marked(tasks[t]).phase = "completed" /\ Marked(tasks[t]).event = tasks[t].event
        BY <1>1, MarkedIs
    <2> HIDE DEF u
    <2>3. Len(tasks') = Len(tasks) /\ (u = t => tasks'[t] = Marked(tasks[t])) /\ (u # t => tasks'[t] = tasks[t])
        BY <1>1, <2>1
    <2> QED
        BY <2>2, <2>3
<1> QED
    BY <1>2, <1>3, <1>5, <1>6, <1>7 DEF QueueNext, queueVars, CoreChanges, ReadCore, replaceCatalog,
        FindDue, BeginDelivery, DeliverEvent, DeliverSchedule, DeliveryBreaks, SendReport

ResultOf(t) == [task |-> t, at |-> tasks[t].event]
LatestInv ==
    /\ delivered \subseteq Tasks
    /\ \A t \in delivered : tasks[t].phase = "completed"
    /\ LatestIsExact

LEMMA ResultsAreEntries ==
    ASSUME QueueInv, LatestInv
    PROVE  /\ Results \in SUBSET Entries /\ IsFiniteSet(Results)
           /\ \A t \in Tasks : ResultOf(t) \in Entries
<1>1. tasks \in Seq(Task) /\ Len(tasks) \in Nat
    BY DEF QueueInv, QueueTyped
<1>2. ASSUME NEW t \in Tasks PROVE t \in Nat /\ tasks[t].event \in Nat
    <2>1. t \in Nat /\ tasks[t] \in Task
        BY <1>1
    <2>2. tasks[t].event \in {0} \cup Clock
        BY <2>1 DEF Task
    <2>3. \A c \in Clock : c \in Nat
        BY QueueAssumption
    <2> QED
        BY <2>1, <2>2, <2>3
<1>3. IsFiniteSet(delivered)
    <2>1. IsFiniteSet(1..Len(tasks))
        BY <1>1, FS_Interval
    <2> QED
        BY <2>1, FS_Subset DEF LatestInv
<1> DEFINE f == [t \in delivered |-> ResultOf(t)]
<1>4. f \in Surjection(delivered, Results)
    BY DEF Surjection, Results, ResultOf
<1>5. IsFiniteSet(Results)
    BY <1>3, <1>4, FS_Surjection
<1>6. \A t \in Tasks : ResultOf(t) \in Entries
    BY <1>2 DEF ResultOf, Entries
<1>7. Results = {ResultOf(t) : t \in delivered}
    BY DEF Results, ResultOf
<1>8. Results \in SUBSET Entries
    BY <1>6, <1>7 DEF LatestInv
<1> QED
    BY <1>5, <1>6, <1>8

\* A result that is delivered, for the first time or again, joins the newest.
LEMMA DeliveryKeepsLatest ==
    ASSUME QueueInv, LatestInv, NEW w \in Workers, DeliverEvent(w)
    PROVE  LatestInv'
<1> DEFINE t == delivering[w].task
           x == ResultOf(t)
           kept == {e \in recent : e.task # t}
<1>1. /\ delivering[w] # Nothing /\ t \in Tasks
      /\ UNCHANGED tasks
    BY DEF DeliverEvent, Nothing, QueueInv, QueueTyped, DeliveriesOf
<1>2. tasks[t].phase = "completed"
    BY <1>1 DEF QueueInv, CarriedIsKept
<1>3. CASE tasks[t].event = 0
    BY <1>1, <1>3 DEF DeliverEvent, LatestInv, LatestIsExact, Results
<1>4. CASE tasks[t].event # 0
    <2>1. recent' = Newest(kept \cup {x}) /\ delivered' = delivered \cup {t}
        BY <1>4 DEF DeliverEvent, ResultOf
    <2>2. Results' = Results \cup {x}
        BY <1>1, <2>1 DEF Results, ResultOf
    <2>3. recent = Newest(Results)
        BY DEF LatestInv, LatestIsExact
    <2>4. \A e \in recent : e.task = t => e = x
        <3>1. recent \subseteq Results
            BY <2>3 DEF Newest
        <3>2. \A e \in Results : e = ResultOf(e.task)
            BY DEF Results, ResultOf
        <3> QED
            BY <3>1, <3>2
    <2>5. x.task = t
        BY DEF ResultOf
    <2>6. kept \cup {x} = Newest(Results) \cup {x}
        BY <2>3, <2>4, <2>5
    <2>7. x \in Entries /\ Results \in SUBSET Entries /\ IsFiniteSet(Results)
        BY <1>1, ResultsAreEntries
    <2> HIDE DEF x, kept, t
    <2>8. recent' = Newest(Results')
        BY <2>1, <2>2, <2>6, <2>7, NewestOfMore
    <2>9. LatestIsExact'
        BY <2>8 DEF LatestIsExact, Newest, Newer
    <2> QED
        BY <2>1, <2>9, <1>1, <1>2 DEF LatestInv
<1> QED
    BY <1>3, <1>4

LEMMA LatestStepKeeps == QueueInv /\ LatestInv /\ [QueueNext]_queueVars => LatestInv'
<1> SUFFICES ASSUME QueueInv, LatestInv, [QueueNext]_queueVars PROVE LatestInv'
    OBVIOUS
<1>1. CASE \E w \in Workers : DeliverEvent(w)
    BY <1>1, DeliveryKeepsLatest
<1>2. CASE UNCHANGED <<recent, delivered>>
    <2>1. \A t \in delivered : /\ t \in Tasks' /\ tasks'[t].phase = "completed"
                               /\ tasks'[t].event = tasks[t].event
        BY CompletedStays DEF LatestInv
    <2>2. Results' = Results
        BY <1>2, <2>1 DEF Results
    <2> QED
        BY <1>2, <2>1, <2>2 DEF LatestInv, LatestIsExact, Newest, Newer
<1>3. \/ \E w \in Workers : DeliverEvent(w)
      \/ UNCHANGED <<recent, delivered>>
    BY DEF QueueNext, queueVars, CoreChanges, ReadCore, replaceCatalog, FindDue, enqueue, claim,
        SendReport, ClaimExpires, report, Requeue, ReleaseKey, Cancel, CoolsDown, Becomes,
        BeginDelivery, DeliverSchedule, MarkDelivered, DeliveryBreaks, resultVars
<1> QED
    BY <1>1, <1>2, <1>3

\* The list of a route holds exactly its newest results, each once: what the list has let go
\* of is never missed, whatever is delivered late, again, or out of order
\* (MongoMeasurementStore.deliver).
THEOREM QueueLatestIsExact == QueueSpec => []LatestIsExact
<1>1. QueueInit => LatestInv
    BY DEF QueueInit, LatestInv, LatestIsExact, Newest, Results
<1>2. LatestInv => LatestIsExact
    BY DEF LatestInv
<1> QED
    BY <1>1, <1>2, QueueHolds, LatestStepKeeps, PTL DEF QueueSpec

\* What was measured and acknowledged is kept, and the newest is shown: the two together.
THEOREM QueueMeasurementsAreKept == QueueSpec => []MeasurementsAreKept
<1>1. AcknowledgedIsKept /\ LatestIsExact => MeasurementsAreKept
    BY DEF MeasurementsAreKept
<1> QED
    BY <1>1, QueueAcknowledgedIsKept, QueueLatestIsExact, PTL

HIDE DEF Tasks

-------------------------------------------------------------------------------
\* ProbeJobs: the rows of a pair's jobs against the revisions of its target.

JobAnswers(n) == [job : 1..n, attempt : Nat, measured : 1..MaxRevisions, outcome : ReportOutcomes]

JobsTyped ==
    /\ kind \in {"trading", "benchmark"} /\ withStore \in BOOLEAN
    /\ target \in [revision : 1..MaxRevisions, enabled : BOOLEAN]
    /\ probeJobs \in Seq(ProbeJob) /\ Len(probeJobs) <= MaxProbeJobs
    /\ answers \subseteq JobAnswers(Len(probeJobs))
    /\ accepted \subseteq JobAnswers(Len(probeJobs))
    /\ latestRow \in [revision : 0..MaxRevisions, measured : 0..MaxRevisions, recent : BOOLEAN]
    /\ snapshot \in [Schedulers -> [due : BOOLEAN, revision : 0..MaxRevisions]]
    /\ carrying \in [Schedulers -> [ids : SUBSET ProbeRows, done : 0..Len(probeJobs)]]
    /\ journal \subseteq ProbeRows /\ arrived \subseteq ProbeRows
    /\ probeFaults \in 0..MaxProbeFaults

\* A job is asked for at the target's revision of some time, measured at a later one,
\* and reported later still.
RevisionsAreOrdered ==
    /\ \A v \in Schedulers : snapshot[v].revision <= target.revision /\ (snapshot[v].due => snapshot[v].revision # 0)
    /\ \A j \in ProbeRows : probeJobs[j].revision <= target.revision
    /\ \A a \in answers : probeJobs[a.job].revision <= a.measured /\ a.measured <= target.revision
    /\ latestRow.revision <= latestRow.measured /\ latestRow.measured <= target.revision

TakenAreOver == kind = "trading" => \A a \in accepted : probeJobs[a.job].phase = "succeeded"
CarriedHasArrived == \A v \in Schedulers : carrying[v].done # 0 => carrying[v].done \in arrived

QueuedMayBeTried ==
    kind = "trading" =>
        \A j \in ProbeRows : probeJobs[j].phase = "queued" => probeJobs[j].retries < MaxProbeRetries

ProbeJobsInv ==
    JobsTyped /\ QueuedMayBeTried /\ RevisionsAreOrdered /\ TakenAreOver /\ CarriedHasArrived /\ ResultsAreKept

LEMMA ProbeJobsInitially == ProbeJobsInit => ProbeJobsInv
<1> SUFFICES ASSUME ProbeJobsInit PROVE ProbeJobsInv
    OBVIOUS
<1> USE ProbeJobsAssumption DEF ProbeJobsInit
<1>1. JobsTyped
    BY DEF JobsTyped, JobAnswers, ProbeRows, Unread, NothingCarried
<1>2. RevisionsAreOrdered
    BY DEF RevisionsAreOrdered, Unread, ProbeRows
<1>3. QueuedMayBeTried /\ TakenAreOver /\ CarriedHasArrived /\ ResultsAreKept
    BY DEF QueuedMayBeTried, ProbeRows, TakenAreOver, CarriedHasArrived, ResultsAreKept, NothingCarried
<1> QED
    BY <1>1, <1>2, <1>3 DEF ProbeJobsInv

LEMMA ProbeJobsInvMeans == ProbeJobsInv => ProbeJobsTypeOK /\ ProbeResultsAreTrue
BY ProbeJobsAssumption DEF ProbeJobsInv, JobsTyped, RevisionsAreOrdered, ProbeJobsTypeOK, RevisionIsMeasured,
    ProbeResultsAreTrue

------------------------------------------------------------------------------
\* The target and its interval.
LEMMA TargetKeeps ==
    ASSUME ProbeJobsInv, TargetChanges \/ Enabling \/ IntervalPasses
    PROVE  ProbeJobsInv'
<1>1. /\ UNCHANGED <<kind, withStore, probeJobs, snapshot, answers, journal, carrying, arrived,
                     accepted, probeFaults>>
      /\ target'.revision >= target.revision /\ latestRow'.revision = latestRow.revision
      /\ latestRow'.measured = latestRow.measured
      /\ target' \in [revision : 1..MaxRevisions, enabled : BOOLEAN]
      /\ latestRow' \in [revision : 0..MaxRevisions, measured : 0..MaxRevisions, recent : BOOLEAN]
    <2>1. /\ target \in [revision : 1..MaxRevisions, enabled : BOOLEAN]
          /\ latestRow \in [revision : 0..MaxRevisions, measured : 0..MaxRevisions, recent : BOOLEAN]
          /\ MaxRevisions \in Nat
        BY ProbeJobsAssumption DEF ProbeJobsInv, JobsTyped
    <2>2. CASE TargetChanges
        BY <2>1, <2>2 DEF TargetChanges
    <2>3. CASE Enabling
        <3>1. target'.revision = target.revision /\ latestRow'.revision = latestRow.revision
                /\ latestRow'.measured = latestRow.measured
            BY <2>1, <2>3 DEF Enabling
        <3>2. target.revision \in Nat
            BY <2>1
        <3>3. /\ target' \in [revision : 1..MaxRevisions, enabled : BOOLEAN]
              /\ latestRow' \in [revision : 0..MaxRevisions, measured : 0..MaxRevisions, recent : BOOLEAN]
            BY <2>1, <2>3 DEF Enabling
        <3> QED
            BY <2>3, <3>1, <3>2, <3>3 DEF Enabling
    <2>4. CASE IntervalPasses
        <3>1. target'.revision = target.revision /\ latestRow'.revision = latestRow.revision
                /\ latestRow'.measured = latestRow.measured
            BY <2>1, <2>4 DEF IntervalPasses
        <3>2. target.revision \in Nat
            BY <2>1
        <3>3. /\ target' \in [revision : 1..MaxRevisions, enabled : BOOLEAN]
              /\ latestRow' \in [revision : 0..MaxRevisions, measured : 0..MaxRevisions, recent : BOOLEAN]
            BY <2>1, <2>4 DEF IntervalPasses
        <3> QED
            BY <2>4, <3>1, <3>2, <3>3 DEF IntervalPasses
    <2> QED
        BY <2>2, <2>3, <2>4
<1>2. JobsTyped'
    BY <1>1 DEF ProbeJobsInv, JobsTyped, ProbeRows
<1>3. RevisionsAreOrdered'
    <2>1. /\ \A v \in Schedulers : snapshot[v].revision \in Nat
          /\ \A j \in ProbeRows : probeJobs[j].revision \in Nat
          /\ \A a \in answers : a.measured \in Nat
        <3>1. \A v \in Schedulers : snapshot[v].revision \in Nat
            BY ProbeJobsAssumption DEF ProbeJobsInv, JobsTyped
        <3>2. \A j \in ProbeRows : probeJobs[j] \in ProbeJob
            BY DEF ProbeJobsInv, JobsTyped, ProbeRows
        <3>3. \A a \in answers : a.measured \in Nat
            BY ProbeJobsAssumption DEF ProbeJobsInv, JobsTyped, JobAnswers
        <3> QED
            BY <3>1, <3>2, <3>3, ProbeJobsAssumption DEF ProbeJob
    <2> QED
        <3>1. target.revision \in Nat /\ target'.revision \in Nat /\ latestRow.measured \in Nat
            BY <1>1, ProbeJobsAssumption DEF ProbeJobsInv, JobsTyped
        <3>2. ProbeRows' = ProbeRows
            BY <1>1 DEF ProbeRows
        <3>3. /\ \A v \in Schedulers : snapshot'[v].revision <= target'.revision
                                      /\ (snapshot'[v].due => snapshot'[v].revision # 0)
              /\ \A j \in ProbeRows : probeJobs'[j].revision <= target'.revision
            BY <1>1, <2>1, <3>1 DEF ProbeJobsInv, RevisionsAreOrdered
        <3>4. \A a \in answers' : probeJobs'[a.job].revision <= a.measured /\ a.measured <= target'.revision
            BY <1>1, <2>1, <3>1 DEF ProbeJobsInv, RevisionsAreOrdered
        <3>5. latestRow'.revision <= latestRow'.measured /\ latestRow'.measured <= target'.revision
            BY <1>1, <3>1 DEF ProbeJobsInv, RevisionsAreOrdered
        <3> QED
            BY <3>2, <3>3, <3>4, <3>5 DEF RevisionsAreOrdered
<1>4. QueuedMayBeTried' /\ TakenAreOver' /\ CarriedHasArrived' /\ ResultsAreKept'
    BY <1>1 DEF ProbeJobsInv, QueuedMayBeTried, ProbeRows, TakenAreOver, CarriedHasArrived, ResultsAreKept
<1> QED
    BY <1>2, <1>3, <1>4 DEF ProbeJobsInv

\* A scheduler reads what is due, and inserts it later.
LEMMA ReadDueKeeps ==
    ASSUME ProbeJobsInv, NEW v \in Schedulers, ReadDue(v)
    PROVE  ProbeJobsInv'
<1>1. /\ UNCHANGED <<kind, withStore, target, probeJobs, answers, latestRow, journal, carrying,
                     arrived, accepted, probeFaults>>
      /\ snapshot' = [snapshot EXCEPT ![v] = [due |-> TRUE, revision |-> target.revision]]
    BY DEF ReadDue
<1>2. JobsTyped'
    BY <1>1, ProbeJobsAssumption DEF ProbeJobsInv, JobsTyped, ProbeRows
<1>3. RevisionsAreOrdered'
    BY <1>1, ProbeJobsAssumption DEF ProbeJobsInv, JobsTyped, RevisionsAreOrdered, ProbeRows
<1>4. QueuedMayBeTried' /\ TakenAreOver' /\ CarriedHasArrived' /\ ResultsAreKept'
    BY <1>1 DEF ProbeJobsInv, QueuedMayBeTried, ProbeRows, TakenAreOver, CarriedHasArrived, ResultsAreKept
<1> QED
    BY <1>2, <1>3, <1>4 DEF ProbeJobsInv

LEMMA InsertDueKeeps ==
    ASSUME ProbeJobsInv, NEW v \in Schedulers, InsertDue(v)
    PROVE  ProbeJobsInv'
<1>1. /\ UNCHANGED <<kind, withStore, target, answers, latestRow, journal, carrying, arrived,
                     accepted, probeFaults>>
      /\ snapshot' = [snapshot EXCEPT ![v] = Unread]
    BY DEF InsertDue
<1> DEFINE n == Len(probeJobs)
           new == [phase |-> "queued", revision |-> snapshot[v].revision, retries |-> 0,
                   open |-> {}, expired |-> FALSE, failures |-> 0]
<1>2. n \in Nat /\ probeJobs \in Seq(ProbeJob)
    BY DEF ProbeJobsInv, JobsTyped
<1>3. snapshot' \in [Schedulers -> [due : BOOLEAN, revision : 0..MaxRevisions]]
    BY <1>1, ProbeJobsAssumption DEF ProbeJobsInv, JobsTyped, Unread
<1>4. \A u \in Schedulers : snapshot'[u].revision <= target.revision /\ (snapshot'[u].due => snapshot'[u].revision # 0)
    BY <1>1, ProbeJobsAssumption DEF ProbeJobsInv, JobsTyped, RevisionsAreOrdered, Unread
<1>5. CASE UNCHANGED probeJobs
    <2>1. JobsTyped' /\ RevisionsAreOrdered'
        BY <1>1, <1>3, <1>4, <1>5 DEF ProbeJobsInv, JobsTyped, RevisionsAreOrdered, ProbeRows
    <2>2. QueuedMayBeTried' /\ TakenAreOver' /\ CarriedHasArrived' /\ ResultsAreKept'
        BY <1>1, <1>5 DEF ProbeJobsInv, QueuedMayBeTried, ProbeRows, TakenAreOver, CarriedHasArrived, ResultsAreKept
    <2> QED
        BY <2>1, <2>2 DEF ProbeJobsInv
<1>6. CASE ~UNCHANGED probeJobs
    <2>1. snapshot[v].due /\ probeJobs' = Append(probeJobs, new) /\ n < MaxProbeJobs
        BY <1>6 DEF InsertDue
    <2>2. new \in ProbeJob /\ new.revision <= target.revision /\ new.retries < MaxProbeRetries
        <3>1. snapshot[v].revision \in 1..MaxRevisions /\ snapshot[v].revision <= target.revision
            BY <2>1, ProbeJobsAssumption DEF ProbeJobsInv, JobsTyped, RevisionsAreOrdered
        <3> QED
            BY <3>1, ProbeJobsAssumption DEF ProbeJob, ActivePhases
    <2> HIDE DEF new
    <2>3. /\ probeJobs' \in Seq(ProbeJob) /\ Len(probeJobs') = n + 1 /\ probeJobs'[n + 1] = new
          /\ \A j \in ProbeRows : probeJobs'[j] = probeJobs[j]
        BY <1>2, <2>1, <2>2 DEF ProbeRows
    <2>4. \A a \in answers \cup accepted : a.job \in ProbeRows
        BY DEF ProbeJobsInv, JobsTyped, JobAnswers, ProbeRows
    <2>5. JobsTyped'
        <3>1. /\ ProbeRows \subseteq ProbeRows' /\ 0..n \subseteq 0..Len(probeJobs')
              /\ JobAnswers(n) \subseteq JobAnswers(Len(probeJobs'))
            BY <1>2, <2>3 DEF ProbeRows, JobAnswers
        <3>2. carrying' \in [Schedulers -> [ids : SUBSET ProbeRows', done : 0..Len(probeJobs')]]
            BY <1>1, <3>1 DEF ProbeJobsInv, JobsTyped
        <3> QED
            BY <1>1, <1>2, <1>3, <2>1, <2>3, <3>1, <3>2, ProbeJobsAssumption DEF ProbeJobsInv, JobsTyped
    <2>6. RevisionsAreOrdered'
        <3>1. \A j \in ProbeRows' : probeJobs'[j].revision <= target.revision
            BY <1>2, <2>2, <2>3 DEF ProbeJobsInv, RevisionsAreOrdered, ProbeRows
        <3> QED
            BY <1>1, <1>4, <2>3, <2>4, <3>1 DEF ProbeJobsInv, RevisionsAreOrdered
    <2>7. TakenAreOver'
        BY <1>1, <2>3, <2>4 DEF ProbeJobsInv, TakenAreOver
    <2>9. CarriedHasArrived'
        BY <1>1 DEF ProbeJobsInv, CarriedHasArrived
    <2>10. ResultsAreKept'
        BY <1>1 DEF ProbeJobsInv, ResultsAreKept
    <2>8. QueuedMayBeTried'
        <3>1. \A j \in ProbeRows' : j \in ProbeRows \/ probeJobs'[j] = new
            BY <1>2, <2>3 DEF ProbeRows
        <3> QED
            BY <1>1, <2>2, <2>3, <3>1 DEF ProbeJobsInv, QueuedMayBeTried
    <2> QED
        BY <2>5, <2>6, <2>7, <2>8, <2>9, <2>10 DEF ProbeJobsInv
<1> QED
    BY <1>5, <1>6

------------------------------------------------------------------------------
\* One job becomes another one.
LEMMA JobBecomesShape ==
    ASSUME ProbeJobsInv, NEW j \in ProbeRows, NEW job \in ProbeJob, JobBecomes(j, job)
    PROVE  /\ probeJobs' \in Seq(ProbeJob) /\ Len(probeJobs') = Len(probeJobs)
           /\ probeJobs'[j] = job
           /\ \A i \in ProbeRows : i # j => probeJobs'[i] = probeJobs[i]
           /\ UNCHANGED <<kind, withStore, target, snapshot, carrying, arrived, probeFaults>>
           /\ ProbeRows' = ProbeRows
BY DEF ProbeJobsInv, JobsTyped, JobBecomes, ProbeRows

\* A job becomes another one of its revision; a trading job only until it has been taken.
LEMMA JobStepKeeps ==
    ASSUME ProbeJobsInv, NEW j \in ProbeRows, NEW job \in ProbeJob, JobBecomes(j, job),
           job.revision = probeJobs[j].revision,
           kind = "trading" => /\ probeJobs[j].phase # "succeeded"
                               /\ job.phase = "queued" => job.retries < MaxProbeRetries,
           UNCHANGED <<latestRow, journal, accepted>>,
           \A a \in answers' : a \in answers \/ (a \in JobAnswers(Len(probeJobs)) /\ a.measured = target.revision)
    PROVE  ProbeJobsInv'
<1>1. /\ probeJobs' \in Seq(ProbeJob) /\ Len(probeJobs') = Len(probeJobs)
      /\ probeJobs'[j] = job
      /\ \A i \in ProbeRows : i # j => probeJobs'[i] = probeJobs[i]
      /\ UNCHANGED <<kind, withStore, target, snapshot, carrying, arrived, probeFaults>>
      /\ ProbeRows' = ProbeRows
    BY JobBecomesShape
<1>2. \A i \in ProbeRows : probeJobs'[i].revision = probeJobs[i].revision
    BY <1>1
<1>3. \A a \in answers' \cup accepted : a.job \in ProbeRows
    BY DEF ProbeJobsInv, JobsTyped, JobAnswers, ProbeRows
<1>4. JobsTyped'
    BY <1>1 DEF ProbeJobsInv, JobsTyped
<1>5. RevisionsAreOrdered'
    <2>1. /\ \A i \in ProbeRows' : probeJobs'[i].revision <= target.revision
          /\ \A a \in answers' : probeJobs'[a.job].revision <= a.measured /\ a.measured <= target.revision
        <3>1. \A i \in ProbeRows' : probeJobs'[i].revision <= target.revision
            BY <1>1, <1>2 DEF ProbeJobsInv, RevisionsAreOrdered
        <3>2. ASSUME NEW a \in answers'
              PROVE  probeJobs'[a.job].revision <= a.measured /\ a.measured <= target.revision
            <4>1. CASE a \in answers
                BY <4>1, <1>2, <1>3 DEF ProbeJobsInv, RevisionsAreOrdered
            <4>2. CASE a.measured = target.revision
                <5>1. target.revision \in Nat
                    BY ProbeJobsAssumption DEF ProbeJobsInv, JobsTyped
                <5> QED
                    BY <5>1, <4>2, <1>1, <1>3, <3>1
            <4> QED
                BY <4>1, <4>2
        <3> QED
            BY <3>1, <3>2
    <2> QED
        BY <2>1, <1>1 DEF ProbeJobsInv, RevisionsAreOrdered
<1>6. TakenAreOver'
    BY <1>1, <1>3 DEF ProbeJobsInv, TakenAreOver
<1>7. CarriedHasArrived' /\ ResultsAreKept'
    BY <1>1 DEF ProbeJobsInv, CarriedHasArrived, ResultsAreKept
<1>8. QueuedMayBeTried'
    BY <1>1 DEF ProbeJobsInv, QueuedMayBeTried
<1> QED
    BY <1>4, <1>5, <1>6, <1>7, <1>8 DEF ProbeJobsInv

\* A job is claimed: it is measured at the revision of that time.
LEMMA ClaimProbeKeeps ==
    ASSUME ProbeJobsInv, NEW j \in ProbeRows, ClaimProbe(j)
    PROVE  ProbeJobsInv'
<1>1. probeJobs[j] \in ProbeJob /\ probeJobs[j].phase = "queued" /\ probeJobs[j].retries < MaxProbeRetries
    BY DEF ProbeJobsInv, JobsTyped, QueuedMayBeTried, ProbeRows, ClaimProbe
<1> DEFINE attempt == probeJobs[j].retries + 1
           job == [probeJobs[j] EXCEPT !.phase = "leased", !.retries = attempt,
                                       !.open = @ \cup {attempt}, !.expired = FALSE]
           New(outcome) == [job |-> j, attempt |-> attempt, measured |-> target.revision, outcome |-> outcome]
<1>2. PICK outcome \in ReportOutcomes :
            /\ JobBecomes(j, job) /\ UNCHANGED <<latestRow, journal, accepted>>
            /\ answers' = answers \cup {New(outcome)}
    BY DEF ClaimProbe
<1> DEFINE new == New(outcome)
<1>7. answers' = answers \cup {new}
    BY <1>2
<1>3. attempt \in 1..MaxProbeRetries
    BY <1>1, ProbeJobsAssumption DEF ProbeJob
<1>4. new \in JobAnswers(Len(probeJobs)) /\ new.measured = target.revision
    BY <1>3, ProbeJobsAssumption DEF ProbeJobsInv, JobsTyped, JobAnswers, ProbeRows
<1> HIDE DEF attempt, new
<1>5. job \in ProbeJob /\ job.revision = probeJobs[j].revision /\ job.phase = "leased"
    <2>1. attempt \in 0..MaxProbeRetries
        BY <1>3
    <2>2. probeJobs[j].open \cup {attempt} \in SUBSET (1..MaxProbeRetries)
        BY <1>1, <1>3 DEF ProbeJob
    <2> QED
        BY <1>1, <2>1, <2>2 DEF ProbeJob, ActivePhases
<1> HIDE DEF job
<1>6. JobBecomes(j, job) /\ UNCHANGED <<latestRow, journal, accepted>>
    BY <1>2
<1> HIDE DEF New
<1> QED
    BY <1>1, <1>7, <1>4, <1>5, <1>6, JobStepKeeps

\* A lease ends: the job is tried again or is over.
LEMMA ProbeLeaseKeeps ==
    ASSUME ProbeJobsInv, NEW j \in ProbeRows, ProbeLeaseExpires(j) \/ RequeueProbe(j)
    PROVE  ProbeJobsInv'
<1>1. probeJobs[j] \in ProbeJob /\ probeJobs[j].phase = "leased"
    BY DEF ProbeJobsInv, JobsTyped, ProbeRows, ProbeLeaseExpires, RequeueProbe
<1>2. PICK job : /\ job \in ProbeJob /\ JobBecomes(j, job) /\ job.revision = probeJobs[j].revision
                 /\ kind = "trading" /\ job.phase = "queued" => job.retries < MaxProbeRetries
                 /\ UNCHANGED <<latestRow, journal, accepted, answers>>
    <2>1. CASE ProbeLeaseExpires(j)
        <3> DEFINE job == [probeJobs[j] EXCEPT !.expired = TRUE]
        <3>1. job \in ProbeJob /\ job.revision = probeJobs[j].revision /\ job.phase = "leased"
            BY <1>1 DEF ProbeJob
        <3>2. JobBecomes(j, job) /\ UNCHANGED <<latestRow, journal, accepted, answers>>
            BY <2>1 DEF ProbeLeaseExpires
        <3> HIDE DEF job
        <3> QED
            BY ONLY <3>1, <3>2
    <2>2. CASE RequeueProbe(j)
        <3> DEFINE job == [probeJobs[j] EXCEPT !.expired = FALSE,
                             !.phase = IF kind = "trading" /\ probeJobs[j].retries >= MaxProbeRetries THEN "dead" ELSE "queued"]
        <3>1. /\ job \in ProbeJob /\ job.revision = probeJobs[j].revision
              /\ kind = "trading" /\ job.phase = "queued" => job.retries < MaxProbeRetries
            <4>1. job \in ProbeJob /\ job.revision = probeJobs[j].revision
                BY <1>1 DEF ProbeJob, ActivePhases
            <4>2. kind = "trading" /\ job.phase = "queued" => ~(probeJobs[j].retries >= MaxProbeRetries)
                BY <1>1 DEF ProbeJob
            <4>3. job.retries = probeJobs[j].retries /\ job.retries \in Nat /\ MaxProbeRetries \in Nat
                BY <1>1, ProbeJobsAssumption DEF ProbeJob
            <4> HIDE DEF job
            <4> QED
                BY <4>1, <4>2, <4>3
        <3>2. JobBecomes(j, job) /\ UNCHANGED <<latestRow, journal, accepted, answers>>
            BY <2>2 DEF RequeueProbe
        <3> HIDE DEF job
        <3> QED
            BY ONLY <3>1, <3>2
    <2> QED
        BY <2>1, <2>2
<1> QED
    BY <1>1, <1>2, JobStepKeeps

\* A report is taken, if its claim still holds: the job is over with it.
LEMMA ReportProbeKeeps ==
    ASSUME ProbeJobsInv, NEW a \in answers, ReportProbe(a)
    PROVE  ProbeJobsInv'
<1> DEFINE j == a.job
           job == [probeJobs[j] EXCEPT !.phase = "succeeded", !.expired = FALSE,
                                       !.open = IF kind = "trading" THEN @ \ {a.attempt} ELSE {}]
<1>1. j \in ProbeRows /\ a \in JobAnswers(Len(probeJobs))
    BY DEF ProbeJobsInv, JobsTyped, JobAnswers, ProbeRows
<1>2. probeJobs[j] \in ProbeJob
    BY <1>1 DEF ProbeJobsInv, JobsTyped, ProbeRows
<1>3. answers' \subseteq answers
    BY DEF ReportProbe
<1>4. CASE ~Takes(a)
    <2>1. UNCHANGED <<kind, withStore, target, probeJobs, snapshot, carrying, arrived, probeFaults,
                      latestRow, journal, accepted>>
        BY <1>4 DEF ReportProbe
    <2>2. JobsTyped'
        BY <1>3, <2>1 DEF ProbeJobsInv, JobsTyped, ProbeRows
    <2>3. RevisionsAreOrdered'
        BY <1>3, <2>1 DEF ProbeJobsInv, RevisionsAreOrdered, ProbeRows
    <2>4. QueuedMayBeTried' /\ TakenAreOver' /\ CarriedHasArrived' /\ ResultsAreKept'
        BY <2>1 DEF ProbeJobsInv, QueuedMayBeTried, ProbeRows, TakenAreOver, CarriedHasArrived, ResultsAreKept
    <2> QED
        BY <2>2, <2>3, <2>4 DEF ProbeJobsInv
<1>5. CASE Takes(a)
    <2>1. /\ JobBecomes(j, job) /\ accepted' = accepted \cup {a}
          /\ latestRow' = [revision |-> probeJobs[j].revision, measured |-> a.measured, recent |-> TRUE]
          /\ journal' = IF withStore THEN journal \cup {j} ELSE journal
        BY <1>5 DEF ReportProbe, RecordedRevision
    <2>2. job \in ProbeJob /\ job.revision = probeJobs[j].revision /\ job.phase = "succeeded"
        BY <1>2 DEF ProbeJob
    <2> HIDE DEF job
    <2>3. /\ probeJobs' \in Seq(ProbeJob) /\ Len(probeJobs') = Len(probeJobs)
          /\ probeJobs'[j] = job
          /\ \A i \in ProbeRows : i # j => probeJobs'[i] = probeJobs[i]
          /\ UNCHANGED <<kind, withStore, target, snapshot, carrying, arrived, probeFaults>>
          /\ ProbeRows' = ProbeRows
        BY <1>1, <2>1, <2>2, JobBecomesShape
    <2>4. probeJobs[j].revision \in 1..MaxRevisions /\ a.measured \in 1..MaxRevisions
        BY <1>1, <1>2 DEF ProbeJob, JobAnswers
    <2>5. JobsTyped'
        <3>1. latestRow' \in [revision : 0..MaxRevisions, measured : 0..MaxRevisions, recent : BOOLEAN]
            BY <2>1, <2>4, ProbeJobsAssumption
        <3>2. accepted' \subseteq JobAnswers(Len(probeJobs))
            BY <1>1, <2>1 DEF ProbeJobsInv, JobsTyped
        <3>3. journal' \subseteq ProbeRows
            BY <1>1, <2>1 DEF ProbeJobsInv, JobsTyped
        <3> QED
            BY <1>3, <2>3, <3>1, <3>2, <3>3 DEF ProbeJobsInv, JobsTyped
    <2>6. RevisionsAreOrdered'
        <3>1. \A i \in ProbeRows : probeJobs'[i].revision = probeJobs[i].revision
            BY <2>2, <2>3
        <3>2. \A b \in answers : b.job \in ProbeRows
            BY DEF ProbeJobsInv, JobsTyped, JobAnswers, ProbeRows
        <3>3. probeJobs[j].revision <= a.measured /\ a.measured <= target.revision
            BY DEF ProbeJobsInv, RevisionsAreOrdered
        <3> QED
            BY <1>3, <2>1, <2>3, <3>1, <3>2, <3>3 DEF ProbeJobsInv, RevisionsAreOrdered
    <2>7. \A b \in accepted : b.job \in ProbeRows
        BY DEF ProbeJobsInv, JobsTyped, JobAnswers, ProbeRows
    <2>8. TakenAreOver' /\ QueuedMayBeTried'
        BY <2>1, <2>2, <2>3, <2>7 DEF ProbeJobsInv, TakenAreOver, QueuedMayBeTried
    <2>9. CarriedHasArrived'
        BY <2>3 DEF ProbeJobsInv, CarriedHasArrived
    <2>10. ResultsAreKept'
        <3>1. kind = "trading" => \A b \in accepted : b.job # j
            BY <1>5 DEF Takes, ProbeJobsInv, TakenAreOver
        <3> QED
            BY <2>1, <2>3, <3>1 DEF ProbeJobsInv, ResultsAreKept
    <2> QED
        BY <2>5, <2>6, <2>8, <2>9, <2>10 DEF ProbeJobsInv
<1> QED
    BY <1>4, <1>5

\* A benchmark failed: only its row is changed.
LEMMA ReportFailureKeeps ==
    ASSUME ProbeJobsInv, NEW a \in answers, ReportFailure(a)
    PROVE  ProbeJobsInv'
<1> DEFINE j == a.job
           again == a.outcome = "retryable_failed" /\ probeJobs[j].failures + 1 < MaxProbeRetries
           job == [probeJobs[j] EXCEPT
                      !.phase = IF again THEN "queued" ELSE "dead", !.open = {}, !.expired = FALSE,
                      !.failures = IF again THEN @ + 1 ELSE @]
<1>1. j \in ProbeRows /\ kind # "trading"
    BY DEF ProbeJobsInv, JobsTyped, JobAnswers, ProbeRows, ReportFailure
<1>2. probeJobs[j] \in ProbeJob
    BY <1>1 DEF ProbeJobsInv, JobsTyped, ProbeRows
<1>3. JobBecomes(j, job) /\ UNCHANGED <<answers, latestRow, journal, accepted>>
    BY DEF ReportFailure
<1>4. job \in ProbeJob /\ job.revision = probeJobs[j].revision
    <2>1. CASE again
        <3>1. probeJobs[j].failures + 1 \in 0..MaxProbeRetries
            BY <1>2, <2>1, ProbeJobsAssumption DEF ProbeJob
        <3>2. job = [probeJobs[j] EXCEPT !.phase = "queued", !.open = {}, !.expired = FALSE,
                                         !.failures = probeJobs[j].failures + 1]
            BY <2>1
        <3> QED
            BY <1>2, <3>1, <3>2 DEF ProbeJob, ActivePhases
    <2>2. CASE ~again
        <3>1. job = [probeJobs[j] EXCEPT !.phase = "dead", !.open = {}, !.expired = FALSE]
            BY <1>2, <2>2 DEF ProbeJob
        <3> QED
            BY <1>2, <3>1 DEF ProbeJob, ActivePhases
    <2> QED
        BY <2>1, <2>2
<1> HIDE DEF job
<1> QED
    BY <1>1, <1>3, <1>4, JobStepKeeps

------------------------------------------------------------------------------
\* A row leaves the outbox only when the store has it.
LEMMA OutboxKeeps ==
    ASSUME ProbeJobsInv, NEW v \in Schedulers,
           ReadOutbox(v) \/ Deliver(v) \/ DeleteDelivered(v) \/ DeliverFails(v)
    PROVE  ProbeJobsInv'
<1>1. /\ UNCHANGED <<kind, withStore, target, probeJobs, snapshot, answers, latestRow, accepted>>
      /\ arrived \subseteq arrived'
    BY DEF ReadOutbox, Deliver, DeleteDelivered, DeliverFails
<1>2. /\ carrying \in [Schedulers -> [ids : SUBSET ProbeRows, done : 0..Len(probeJobs)]]
      /\ journal \subseteq ProbeRows /\ arrived \subseteq ProbeRows
    BY DEF ProbeJobsInv, JobsTyped
<1>3. /\ carrying' \in [Schedulers -> [ids : SUBSET ProbeRows, done : 0..Len(probeJobs)]]
      /\ journal' \subseteq ProbeRows /\ arrived' \subseteq ProbeRows
      /\ probeFaults' \in 0..MaxProbeFaults
    <2>1. 0 \in 0..Len(probeJobs) /\ probeFaults \in 0..MaxProbeFaults
        BY DEF ProbeJobsInv, JobsTyped
    <2>2. CASE ReadOutbox(v)
        BY <2>1, <2>2, <1>2 DEF ReadOutbox
    <2>3. CASE Deliver(v)
        <3>1. PICK id \in carrying[v].ids : /\ arrived' = arrived \cup {id}
                                            /\ carrying' = [carrying EXCEPT ![v].done = id]
            BY <2>3 DEF Deliver
        <3>2. id \in ProbeRows /\ id \in 0..Len(probeJobs)
            BY <1>2 DEF ProbeRows
        <3> QED
            BY <2>1, <2>3, <3>1, <3>2, <1>2 DEF Deliver
    <2>4. CASE DeleteDelivered(v)
        BY <2>1, <2>4, <1>2 DEF DeleteDelivered
    <2>5. CASE DeliverFails(v)
        BY <2>1, <2>5, <1>2, ProbeJobsAssumption DEF DeliverFails, NothingCarried, AfterFailure, ProbeFault
    <2> QED
        BY <2>2, <2>3, <2>4, <2>5
<1>4. JobsTyped'
    BY <1>1, <1>3 DEF ProbeJobsInv, JobsTyped, ProbeRows
<1>5. RevisionsAreOrdered' /\ QueuedMayBeTried' /\ TakenAreOver'
    BY <1>1 DEF ProbeJobsInv, RevisionsAreOrdered, QueuedMayBeTried, TakenAreOver, ProbeRows
<1>6. CarriedHasArrived'
    <2>1. ASSUME NEW u \in Schedulers, u # v PROVE carrying'[u] = carrying[u]
        BY <2>1, <1>2 DEF ReadOutbox, Deliver, DeleteDelivered, DeliverFails
    <2>2. carrying'[v].done # 0 => carrying'[v].done \in arrived'
        <3>1. CASE ReadOutbox(v)
            BY <3>1, <1>1, <1>2 DEF ReadOutbox, ProbeJobsInv, CarriedHasArrived
        <3>2. CASE Deliver(v)
            BY <3>2, <1>2 DEF Deliver
        <3>3. CASE DeleteDelivered(v)
            BY <3>3, <1>2 DEF DeleteDelivered
        <3>4. CASE DeliverFails(v)
            BY <3>4, <1>2 DEF DeliverFails, NothingCarried
        <3> QED
            BY <3>1, <3>2, <3>3, <3>4
    <2> QED
        BY <1>1, <2>1, <2>2 DEF ProbeJobsInv, CarriedHasArrived
<1>7. ResultsAreKept'
    <2>1. journal \subseteq journal' \cup arrived'
        BY <1>1 DEF ReadOutbox, Deliver, DeleteDelivered, DeliverFails, AfterFailure, ProbeJobsInv,
            CarriedHasArrived
    <2> QED
        BY <1>1, <2>1 DEF ProbeJobsInv, ResultsAreKept
<1> QED
    BY <1>4, <1>5, <1>6, <1>7 DEF ProbeJobsInv

LEMMA ProbeJobsStepKeeps == ProbeJobsInv /\ [ProbeJobsNext]_jobsVars => ProbeJobsInv'
<1> SUFFICES ASSUME ProbeJobsInv, [ProbeJobsNext]_jobsVars PROVE ProbeJobsInv'
    OBVIOUS
<1>1. CASE UNCHANGED jobsVars
    BY <1>1 DEF ProbeJobsInv, JobsTyped, RevisionsAreOrdered, QueuedMayBeTried, TakenAreOver,
        CarriedHasArrived, ResultsAreKept, jobsVars, ProbeRows
<1>2. CASE TargetChanges \/ Enabling \/ IntervalPasses
    BY <1>2, TargetKeeps
<1>3. ASSUME NEW v \in Schedulers, ReadDue(v) PROVE ProbeJobsInv'
    BY <1>3, ReadDueKeeps
<1>4. ASSUME NEW v \in Schedulers, InsertDue(v) PROVE ProbeJobsInv'
    BY <1>4, InsertDueKeeps
<1>5. ASSUME NEW v \in Schedulers,
             ReadOutbox(v) \/ Deliver(v) \/ DeleteDelivered(v) \/ DeliverFails(v)
      PROVE  ProbeJobsInv'
    BY <1>5, OutboxKeeps
<1>6. ASSUME NEW j \in ProbeRows, ClaimProbe(j) PROVE ProbeJobsInv'
    BY <1>6, ClaimProbeKeeps
<1>7. ASSUME NEW j \in ProbeRows, ProbeLeaseExpires(j) \/ RequeueProbe(j) PROVE ProbeJobsInv'
    BY <1>7, ProbeLeaseKeeps
<1>8. ASSUME NEW a \in answers, ReportProbe(a) PROVE ProbeJobsInv'
    BY <1>8, ReportProbeKeeps
<1>9. ASSUME NEW a \in answers, ReportFailure(a) PROVE ProbeJobsInv'
    BY <1>9, ReportFailureKeeps
<1> QED
    BY <1>1, <1>2, <1>3, <1>4, <1>5, <1>6, <1>7, <1>8, <1>9 DEF ProbeJobsNext

\* What is recorded under the target's present revision was measured at it (what is
\* recorded under an older one may have been measured at a newer, when the target was
\* edited between scheduling and claim); a job's result is taken once, and is in the
\* outbox or in the store (claimTradingProbeJob, recordTradingProbeJobReport, the
\* outbox's batches).
THEOREM ProbeResultsAreKept == ProbeJobsSpec => [](ProbeJobsTypeOK /\ ProbeResultsAreTrue)
<1>1. ProbeJobsSpec => []ProbeJobsInv
    BY ProbeJobsInitially, ProbeJobsStepKeeps, PTL DEF ProbeJobsSpec
<1> QED
    BY <1>1, ProbeJobsInvMeans, PTL
==============================================================================
