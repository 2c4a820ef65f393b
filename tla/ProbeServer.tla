----------------------------- MODULE ProbeServer -----------------------------
(***************************************************************************)
(* The gate agent's UDP probe servers, one for each transport whose        *)
(* interface is there.  A goroutine looks at the interfaces every few      *)
(* seconds and opens, replaces and closes sockets; each socket has a loop  *)
(* of its own that ends with its first read error and says so.  A map from *)
(* transports to listeners, under a lock, is what heartbeats report.       *)
(***************************************************************************)
EXTENDS Naturals, FiniteSets

CONSTANTS
    Transports,
    Public,        \* the transport that is preferred when both use one interface
    Interfaces,    \* interfaces, each with its index
    Sockets,       \* bound: names for the sockets in use at a time
    NoInterface, NoSocket, NoTransport,
    MaxServerFaults  \* bound: changes of interfaces, read errors and failing binds

ASSUME ProbeServerAssumption ==
    /\ Public \in Transports
    /\ NoInterface \notin Interfaces /\ NoSocket \notin Sockets /\ NoTransport \notin Transports
    /\ MaxServerFaults \in Nat

VARIABLES
    interface,  \* interface[t]: what transport t would use now
    listeners,  \* listeners[t]: its entry in the map, or NoListener
    conns,      \* sockets that are open
    loops,      \* loops[s]: the transport whose loop reads s, or NoTransport
    exits,      \* sockets whose loop has ended and not reported it
    syncing,    \* the synchronisation under way
    serverFaults

serverVars == <<interface, listeners, conns, loops, exits, syncing, serverFaults>>

NoListener == [conn |-> NoSocket, interface |-> NoInterface, ready |-> FALSE]
NotSyncing == [at |-> "idle", desired |-> [t \in Transports |-> NoInterface], left |-> {}, of |-> NoTransport]

ServerTypeOK ==
    /\ interface \in [Transports -> Interfaces \cup {NoInterface}]
    /\ \A t \in Transports :
        /\ listeners[t].conn \in Sockets \cup {NoSocket}
        /\ listeners[t].ready => listeners[t].conn # NoSocket
    /\ conns \subseteq Sockets /\ exits \subseteq Sockets
    /\ loops \in [Sockets -> Transports \cup {NoTransport}]
    /\ syncing.at \in {"idle", "ensure", "close", "bind", "listening", "prune"}

ServerInit ==
    /\ interface \in [Transports -> Interfaces \cup {NoInterface}]
    /\ listeners = [t \in Transports |-> NoListener]
    /\ conns = {} /\ exits = {}
    /\ loops = [s \in Sockets |-> NoTransport]
    /\ syncing = NotSyncing
    /\ serverFaults = 0

ServerFault == serverFaults < MaxServerFaults /\ serverFaults' = serverFaults + 1

InterfaceChanges ==
    /\ ServerFault
    /\ \E t \in Transports, i \in Interfaces \cup {NoInterface} :
        i # interface[t] /\ interface' = [interface EXCEPT ![t] = i]
    /\ UNCHANGED <<listeners, conns, loops, exits, syncing>>

-------------------------------------------------------------------------------
\* probeServerBindings, with the duplicates left out.
probeServerBindings ==
    [t \in Transports |-> IF t # Public /\ interface[t] = interface[Public]
                          THEN NoInterface ELSE interface[t]]
Desired(d) == {t \in Transports : d[t] # NoInterface}

BeginSync ==
    /\ syncing.at = "idle"
    /\ syncing' = [at |-> "ensure", desired |-> probeServerBindings, of |-> NoTransport,
                   left |-> Desired(probeServerBindings)]
    /\ UNCHANGED <<interface, listeners, conns, loops, exits, serverFaults>>

Bug_OnlyIfChanged(t) == listeners[t].interface # syncing.desired[t]
listenerNeedsRestart(t) ==
    ~listeners[t].ready \/ listeners[t].interface # syncing.desired[t]

\* ensureListener, up to its unlock: what it has read of the entry is used later.
ensureListener(t) ==
    /\ syncing.at = "ensure" /\ t \in syncing.left
    /\ syncing' = IF ~listenerNeedsRestart(t)
                  THEN [syncing EXCEPT !.left = @ \ {t}]
                  ELSE [syncing EXCEPT !.left = @ \ {t}, !.of = t,
                          !.at = IF listeners[t].conn = NoSocket THEN "bind" ELSE "close"]
    /\ UNCHANGED <<interface, listeners, conns, loops, exits, serverFaults>>

\* The old socket is closed without the lock: its loop may have taken the socket
\* out of the entry meanwhile, and then the call has no receiver and the agent dies.
CloseOld ==
    /\ syncing.at = "close"
    /\ IF listeners[syncing.of].conn = NoSocket
       THEN /\ listeners' = [t \in Transports |-> NoListener]
            /\ conns' = {} /\ exits' = {}
            /\ loops' = [s \in Sockets |-> NoTransport]
            /\ syncing' = NotSyncing
       ELSE /\ conns' = conns \ {listeners[syncing.of].conn}
            /\ syncing' = [syncing EXCEPT !.at = "bind"]
            /\ UNCHANGED <<listeners, loops, exits>>
    /\ UNCHANGED <<interface, serverFaults>>

Unused == {s \in Sockets \ conns : loops[s] = NoTransport /\ s \notin exits
                                  /\ \A t \in Transports : listeners[t].conn # s}

Ensured == [syncing EXCEPT !.at = "ensure", !.of = NoTransport]
InterfaceIsThere == syncing.of # NoTransport /\ interface[syncing.of] = syncing.desired[syncing.of]

\* listenUDPWithOptions and the new entry: binding fails where the interface is gone.
BindFails ==
    /\ syncing.at = "bind"
    /\ IF InterfaceIsThere THEN ServerFault ELSE UNCHANGED serverFaults
    /\ listeners' = [listeners EXCEPT ![syncing.of] =
                        [NoListener EXCEPT !.interface = syncing.desired[syncing.of]]]
    /\ syncing' = Ensured
    /\ UNCHANGED <<interface, conns, loops, exits>>

Bind ==
    /\ syncing.at = "bind" /\ InterfaceIsThere /\ Unused # {}
    /\ LET s == CHOOSE u \in Unused : TRUE
       IN /\ conns' = conns \cup {s}
          /\ listeners' = [listeners EXCEPT ![syncing.of] =
                               [conn |-> s, interface |-> syncing.desired[syncing.of], ready |-> TRUE]]
    /\ syncing' = [syncing EXCEPT !.at = "listening"]
    /\ UNCHANGED <<interface, loops, exits, serverFaults>>

startProbeServerLoop ==
    /\ syncing.at = "listening"
    /\ loops' = [loops EXCEPT ![listeners[syncing.of].conn] = syncing.of]
    /\ syncing' = Ensured
    /\ UNCHANGED <<interface, listeners, conns, exits, serverFaults>>

\* The rest of sync: entries of transports that are not desired go.
Prune ==
    /\ syncing.at = "ensure" /\ syncing.left = {}
    /\ LET gone == Transports \ Desired(syncing.desired)
       IN /\ conns' = conns \ {listeners[t].conn : t \in gone}
          /\ listeners' = [t \in Transports |-> IF t \in gone THEN NoListener ELSE listeners[t]]
    /\ syncing' = NotSyncing
    /\ UNCHANGED <<interface, loops, exits, serverFaults>>

-------------------------------------------------------------------------------
\* A loop's read fails because its socket was closed, or by itself.
ReadFails(s) ==
    /\ loops[s] # NoTransport /\ s \notin exits
    /\ IF s \in conns THEN ServerFault ELSE UNCHANGED serverFaults
    /\ exits' = exits \cup {s}
    /\ UNCHANGED <<interface, listeners, conns, loops, syncing>>

\* markListenerExited, and the loop closes its socket.
Bug_WhateverItHolds(s) == listeners[loops[s]].conn # NoSocket
IsItsListener(s) == listeners[loops[s]].conn = s

markListenerExited(s) ==
    /\ s \in exits
    /\ listeners' = IF IsItsListener(s)
                    THEN [listeners EXCEPT ![loops[s]].ready = FALSE, ![loops[s]].conn = NoSocket]
                    ELSE listeners
    /\ exits' = exits \ {s}
    /\ conns' = conns \ {s}
    /\ loops' = [loops EXCEPT ![s] = NoTransport]
    /\ UNCHANGED <<interface, syncing, serverFaults>>

ServerNext ==
    \/ InterfaceChanges
    \/ BeginSync \/ CloseOld \/ BindFails \/ Bind \/ startProbeServerLoop \/ Prune
    \/ \E t \in Transports : ensureListener(t)
    \/ \E s \in Sockets : ReadFails(s) \/ markListenerExited(s)

\* The synchronisation's steps, where no bind fails that could succeed, and those of
\* loops whose socket was closed.
SyncStep ==
    \/ BeginSync \/ CloseOld \/ Bind \/ (~InterfaceIsThere /\ BindFails)
    \/ startProbeServerLoop \/ Prune
    \/ \E t \in Transports : ensureListener(t)
LoopStep == \E s \in Sockets : (s \notin conns /\ ReadFails(s)) \/ markListenerExited(s)

\* The ticker ticks, and goroutines are not held up for ever.
ServerFairness == WF_serverVars(SyncStep) /\ WF_serverVars(LoopStep)

ServerSpec == ServerInit /\ [][ServerNext]_serverVars /\ ServerFairness

-------------------------------------------------------------------------------
\* What a heartbeat reports as ready has an open socket and a loop that reads it
\* or is about to report its end, unless the synchronisation is just at work on
\* it; and no socket stays open beside the map, whatever the order of closings,
\* exits and new bindings (ensureListener, markListenerExited, sync).
ListenersAreTrue ==
    /\ \A t \in Transports :
        listeners[t].ready /\ syncing.of # t =>
            listeners[t].conn \in conns /\ loops[listeners[t].conn] = t
    /\ \A s \in conns : s \in exits \/ \E t \in Transports : listeners[t].conn = s

Serves(t) ==
    /\ listeners[t].ready /\ listeners[t].interface = interface[t]
    /\ listeners[t].conn \in conns /\ loops[listeners[t].conn] = t

\* A transport whose interface stays is served again, and one that has none stops
\* being reported, after interfaces, sockets and bindings have failed (sync).
ServersComeBack ==
    \A t \in Transports :
        <>[](IF probeServerBindings[t] # NoInterface THEN Serves(t) ELSE listeners[t] = NoListener)
===============================================================================
