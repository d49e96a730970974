----------------------------- MODULE ApiSessions -----------------------------
(***************************************************************************)
(* Diagnostic sessions of the API service: routes/diagnostics.js, the      *)
(* DiagnosticRuntime that gives each session a simulator and its live data *)
(* timer (lib/runtime.js), the web sockets that subscribe to it            *)
(* (server.js) and the JSON store (lib/db.js).                             *)
(*                                                                         *)
(* One event loop: a handler runs without interruption between two awaits. *)
(* Only a scan has awaits that matter, one after each of its stages.       *)
(***************************************************************************)
EXTENDS SequencesExt, Naturals

CONSTANTS
    Users, Sockets,
    MaxSessions,    \* bound: sessions ever created
    MaxRestarts     \* bound: restarts of the service

ASSUME ApiAssumption == MaxSessions \in Nat /\ MaxRestarts \in Nat

Ids == 1 .. MaxSessions

VARIABLES
    store,      \* collection('sessions'): the ids in their order
    session,    \* session[i]: the session's object, also after it left the store
    live,       \* runtime.live[i], and whether its interval is set
    scans,      \* scans[i]: how many scan() of session i are going on
    socket,     \* socket[c]: the connection, and _meta.sessions
    disk,       \* what the last flush() wrote
    restarts,
    deleted,    \* history: ids DELETE answered with { deleted: true } since the start
    orphans     \* history: sessions that were scanning when the service stopped

apiVars == <<store, session, live, scans, socket, disk, restarts, deleted, orphans>>

Detached == [on |-> FALSE, subscribers |-> {}, interval |-> FALSE]

SessionState == [user : Users \cup {"nobody"},
                 status : {"none", "created", "scanning", "completed", "failed"}]
LiveState == [on : BOOLEAN, subscribers : SUBSET Sockets, interval : BOOLEAN]

ApiTypeOK ==
    /\ store \in Seq(Ids) /\ IsInjective(store)
    /\ session \in [Ids -> SessionState]
    /\ live \in [Ids -> LiveState]
    /\ \A i \in Ids : live[i].on \/ live[i] = Detached
    /\ scans \in [Ids -> Nat]
    /\ socket \in [Sockets -> [state : {"none", "open", "closed"}, sessions : SUBSET Ids]]
    /\ disk.session \in [Ids -> SessionState]
    /\ deleted \subseteq Ids /\ orphans \subseteq Ids /\ restarts \in 0 .. MaxRestarts

ApiInit ==
    /\ store = <<>>
    /\ session = [i \in Ids |-> [user |-> "nobody", status |-> "none"]]
    /\ live = [i \in Ids |-> Detached]
    /\ scans = [i \in Ids |-> 0]
    /\ socket = [c \in Sockets |-> [state |-> "none", sessions |-> {}]]
    /\ disk = [store |-> store, session |-> session]
    /\ restarts = 0 /\ deleted = {} /\ orphans = {}

-----------------------------------------------------------------------------
(* The routes.                                                             *)

\* mine(req), as the places of the user's sessions in the store.
Mine(u) == {p \in DOMAIN store : session[store[p]].user = u}

IsMine(u, i) == \E p \in Mine(u) : store[p] = i

Attached(i) == [live EXCEPT ![i].on = TRUE]

CreateSession(u) ==
    \E i \in Ids :
        /\ session[i].status = "none" /\ \A j \in Ids : j < i => session[j].status # "none"
        /\ session' = [session EXCEPT ![i] = [user |-> u, status |-> "created"]]
        /\ store' = Append(store, i)
        /\ live' = Attached(i)
    /\ UNCHANGED <<scans, socket, disk, restarts, deleted, orphans>>

\* Every route on one session makes sure that it has its simulator.
UseSession(u, i) ==
    /\ IsMine(u, i) /\ ~live[i].on
    /\ live' = Attached(i)
    /\ UNCHANGED <<store, session, scans, socket, disk, restarts, deleted, orphans>>

\* The position among the user's own sessions is removed from everybody's.
DeleteSession(u, i) ==
    \E p \in Mine(u) :
        /\ store[p] = i
        /\ live' = [live EXCEPT ![i] = Detached]
        /\ store' = RemoveAt(store, Cardinality({q \in Mine(u) : q <= p}))
        /\ deleted' = deleted \cup {i}
        /\ UNCHANGED <<session, scans, socket, disk, restarts, orphans>>

-----------------------------------------------------------------------------
(* scan()                                                                  *)

\* Mutant: the status is written by the first stage, after an await.
StartScanLate(u, i) ==
    /\ IsMine(u, i) /\ session[i].status # "scanning" /\ scans[i] < 2
    /\ UNCHANGED session
    /\ live' = Attached(i)
    /\ scans' = [scans EXCEPT ![i] = @ + 1]
    /\ UNCHANGED <<store, socket, disk, restarts, deleted, orphans>>

StartScan(u, i) ==
    /\ IsMine(u, i) /\ session[i].status # "scanning"
    /\ session' = [session EXCEPT ![i].status = "scanning"]
    /\ live' = Attached(i)
    /\ scans' = [scans EXCEPT ![i] = @ + 1]
    /\ UNCHANGED <<store, socket, disk, restarts, deleted, orphans>>

\* All stages went through, or one threw.  The object is written, whether or
\* not it is still in the store.
EndScan(i, status) ==
    /\ scans[i] > 0
    /\ session' = [session EXCEPT ![i].status = status]
    /\ scans' = [scans EXCEPT ![i] = @ - 1]
    /\ UNCHANGED <<store, live, socket, disk, restarts, deleted, orphans>>

-----------------------------------------------------------------------------
(* Web sockets.                                                            *)

Accept(c) ==
    /\ socket[c].state = "none"
    /\ socket' = [socket EXCEPT ![c].state = "open"]
    /\ UNCHANGED <<store, session, live, scans, disk, restarts, deleted, orphans>>

WithSubscriber(entries, i, c) ==
    [entries EXCEPT ![i] = [on |-> TRUE, subscribers |-> @.subscribers \cup {c}, interval |-> TRUE]]

SubscribeSocket(c, i) ==
    /\ socket[c].state = "open" /\ i \in ToSet(store)
    /\ live' = WithSubscriber(live, i, c)
    /\ socket' = [socket EXCEPT ![c].sessions = @ \cup {i}]
    /\ UNCHANGED <<store, session, scans, disk, restarts, deleted, orphans>>

\* Mutant: the interval goes on after the last subscriber left.
UnsubscribedTicking(entry, c) == [entry EXCEPT !.subscribers = @ \ {c}]

Unsubscribed(entry, c) ==
    [entry EXCEPT !.subscribers = @ \ {c}, !.interval = @ /\ entry.subscribers \ {c} # {}]

UnsubscribeSocket(c, i) ==
    /\ socket[c].state = "open" /\ i \in socket[c].sessions
    /\ live' = [live EXCEPT ![i] = Unsubscribed(@, c)]
    /\ socket' = [socket EXCEPT ![c].sessions = @ \ {i}]
    /\ UNCHANGED <<store, session, scans, disk, restarts, deleted, orphans>>

LeftBy(c) == [i \in Ids |-> IF i \in socket[c].sessions THEN Unsubscribed(live[i], c) ELSE live[i]]

CloseSocket(c) ==
    /\ socket[c].state = "open"
    /\ live' = LeftBy(c)
    /\ socket' = [socket EXCEPT ![c].state = "closed"]
    /\ UNCHANGED <<store, session, scans, disk, restarts, deleted, orphans>>

\* handleData() decodes a whole chunk before its messages are dispatched: a
\* subscription in the chunk of the close frame comes after onClose().  One such
\* message is enough to keep a timer.
CloseAndSubscribe(c, i) ==
    /\ socket[c].state = "open" /\ i \in ToSet(store)
    /\ live' = WithSubscriber(LeftBy(c), i, c)
    /\ socket' = [socket EXCEPT ![c] = [state |-> "closed", sessions |-> @.sessions \cup {i}]]
    /\ UNCHANGED <<store, session, scans, disk, restarts, deleted, orphans>>

-----------------------------------------------------------------------------
(* The store and the process.                                              *)

Flush ==
    /\ disk' = [store |-> store, session |-> session]
    /\ disk' # disk
    /\ UNCHANGED <<store, session, live, scans, socket, restarts, deleted, orphans>>

\* The process ends and starts again: only the file is left.
Restart ==
    /\ restarts < MaxRestarts
    /\ restarts' = restarts + 1
    /\ store' = disk.store /\ session' = disk.session
    /\ live' = [i \in Ids |-> Detached]
    /\ scans' = [i \in Ids |-> 0]
    /\ socket' = [c \in Sockets |-> [socket[c] EXCEPT !.state = IF @ = "none" THEN @ ELSE "closed"]]
    /\ deleted' = {}
    /\ orphans' = {i \in Ids : disk.session[i].status = "scanning"}
    /\ UNCHANGED disk

ApiNext ==
    \/ \E u \in Users : CreateSession(u)
    \/ \E u \in Users, i \in Ids : UseSession(u, i) \/ DeleteSession(u, i) \/ StartScan(u, i)
    \/ \E i \in Ids : EndScan(i, "completed") \/ EndScan(i, "failed")
    \/ \E c \in Sockets : Accept(c) \/ CloseSocket(c)
    \/ \E c \in Sockets, i \in Ids : SubscribeSocket(c, i) \/ UnsubscribeSocket(c, i) \/ CloseAndSubscribe(c, i)
    \/ Flush \/ Restart

ApiSpec == ApiInit /\ [][ApiNext]_apiVars

-----------------------------------------------------------------------------
\* A session says that it is scanning exactly while its one scan goes on,
\* whatever is deleted, subscribed or stored meanwhile.  A session that was
\* scanning when the service stopped says so for ever: nothing resumes it.
ScanningIsRunning ==
    \A i \in Ids : scans[i] = IF session[i].status = "scanning" /\ i \notin orphans THEN 1 ELSE 0

\* The live data timer of a session runs exactly while somebody subscribes.
TicksForSubscribers == \A i \in Ids : live[i].interval <=> live[i].subscribers # {}

\* docs/openapi.json:58: DELETE removes that session.
DeletedIsGone == \A i \in deleted : i \notin ToSet(store)
=============================================================================
