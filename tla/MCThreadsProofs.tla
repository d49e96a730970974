-------------------------- MODULE MCThreadsProofs --------------------------
(***************************************************************************)
(* Machine-checked facts about the API service (its sessions, its UDS      *)
(* console and its PostgreSQL store) and about the log store, for every    *)
(* value of their constants; and about MCThreads, whose behaviours are     *)
(* behaviours of each of its components.                                   *)
(***************************************************************************)
EXTENDS MCThreads, ThreadsProofs, TransferProofs

-----------------------------------------------------------------------------
(* ApiSessions.                                                            *)

\* The part of the type invariant the proofs need: not the store, whose order
\* decides only which session a step is about.
SessionsTyped ==
    /\ session \in [Ids -> SessionState] /\ disk.session \in [Ids -> SessionState]
    /\ live \in [Ids -> LiveState]
    /\ scans \in [Ids -> Nat]

\* What the routes write into a session, its simulator and its scans is typed.
LEMMA SessionUpdates ==
    ASSUME SessionsTyped, NEW i \in Ids
    PROVE  /\ Attached(i) \in [Ids -> LiveState]
           /\ \A u \in Users : [session EXCEPT ![i] = [user |-> u, status |-> "created"]] \in [Ids -> SessionState]
           /\ \A st \in {"scanning", "completed", "failed"} :
                 [session EXCEPT ![i].status = st] \in [Ids -> SessionState]
           /\ [scans EXCEPT ![i] = @ + 1] \in [Ids -> Nat]
           /\ scans[i] > 0 => [scans EXCEPT ![i] = @ - 1] \in [Ids -> Nat]
<1>1. Attached(i) \in [Ids -> LiveState]
  BY DEF SessionsTyped, LiveState, Attached
<1>2. ASSUME NEW u \in Users
      PROVE  [session EXCEPT ![i] = [user |-> u, status |-> "created"]] \in [Ids -> SessionState]
  BY DEF SessionsTyped, SessionState
<1>3. ASSUME NEW st \in {"scanning", "completed", "failed"}
      PROVE  [session EXCEPT ![i].status = st] \in [Ids -> SessionState]
  <2>1. [session[i] EXCEPT !.status = st] \in SessionState
    BY DEF SessionsTyped, SessionState
  <2> QED BY <2>1 DEF SessionsTyped
<1>4. [scans EXCEPT ![i] = @ + 1] \in [Ids -> Nat]
  BY DEF SessionsTyped
<1>5. scans[i] > 0 => [scans EXCEPT ![i] = @ - 1] \in [Ids -> Nat]
  BY DEF SessionsTyped
<1> QED BY <1>1, <1>2, <1>3, <1>4, <1>5

\* Every route, scan, socket and restart keeps the types.
LEMMA SessionsStepTyped ==
    ASSUME SessionsTyped, ApiNext
    PROVE  SessionsTyped'
<1> USE DEF SessionsTyped, LiveState
<1>1. ASSUME NEW u \in Users, CreateSession(u) PROVE SessionsTyped'
  <2>1. PICK i \in Ids : /\ session' = [session EXCEPT ![i] = [user |-> u, status |-> "created"]]
                         /\ live' = Attached(i)
    BY <1>1 DEF CreateSession
  <2> QED BY <1>1, <2>1, SessionUpdates DEF CreateSession
<1>2. ASSUME NEW u \in Users, NEW i \in Ids, UseSession(u, i) PROVE SessionsTyped'
  BY <1>2, SessionUpdates DEF UseSession
<1>3. ASSUME NEW u \in Users, NEW i \in Ids, DeleteSession(u, i) PROVE SessionsTyped'
  BY <1>3 DEF DeleteSession, Detached
<1>4. ASSUME NEW u \in Users, NEW i \in Ids, StartScan(u, i) PROVE SessionsTyped'
  BY <1>4, SessionUpdates DEF StartScan
<1>5. ASSUME NEW i \in Ids, EndScan(i, "completed") \/ EndScan(i, "failed") PROVE SessionsTyped'
  <2>1. PICK st \in {"completed", "failed"} : EndScan(i, st)
    BY <1>5
  <2> QED BY <2>1, SessionUpdates DEF EndScan
<1>6. ASSUME NEW c \in Sockets, Accept(c) PROVE SessionsTyped'
  BY <1>6 DEF Accept
<1>7. ASSUME NEW c \in Sockets, CloseSocket(c) PROVE SessionsTyped'
  BY <1>7 DEF CloseSocket, LeftBy, Unsubscribed
<1>8. ASSUME NEW c \in Sockets, NEW i \in Ids, SubscribeSocket(c, i) PROVE SessionsTyped'
  BY <1>8 DEF SubscribeSocket, WithSubscriber
<1>9. ASSUME NEW c \in Sockets, NEW i \in Ids, UnsubscribeSocket(c, i) PROVE SessionsTyped'
  BY <1>9 DEF UnsubscribeSocket, Unsubscribed
<1>10. ASSUME NEW c \in Sockets, NEW i \in Ids, CloseAndSubscribe(c, i) PROVE SessionsTyped'
  <2>1. LeftBy(c) \in [Ids -> LiveState]
    BY DEF LeftBy, Unsubscribed
  <2> QED BY <1>10, <2>1 DEF CloseAndSubscribe, WithSubscriber
<1>11. CASE Flush
  BY <1>11 DEF Flush
<1>12. CASE Restart
  BY <1>12 DEF Restart, Detached
<1> QED BY <1>1, <1>2, <1>3, <1>4, <1>5, <1>6, <1>7, <1>8, <1>9, <1>10, <1>11, <1>12 DEF ApiNext

LEMMA SessionsInitTyped == ApiInit => SessionsTyped
  BY DEF ApiInit, SessionsTyped, SessionState, LiveState, Detached

-----------------------------------------------------------------------------
(* The live data timer.                                                    *)

\* A subscription starts the timer, and the last one's end stops it.
LEMMA TicksStep ==
    ASSUME SessionsTyped, TicksForSubscribers, ApiNext
    PROVE  TicksForSubscribers'
<1> USE DEF SessionsTyped, LiveState, TicksForSubscribers
<1>1. CASE UNCHANGED live
  BY <1>1
<1>2. ASSUME NEW i \in Ids, live' = Attached(i) PROVE TicksForSubscribers'
  BY <1>2 DEF Attached
<1>3. ASSUME NEW i \in Ids, live' = [live EXCEPT ![i] = Detached] PROVE TicksForSubscribers'
  BY <1>3 DEF Detached
<1>4. ASSUME NEW c \in Sockets, CloseSocket(c) PROVE TicksForSubscribers'
  BY <1>4 DEF CloseSocket, LeftBy, Unsubscribed
<1>5. ASSUME NEW c \in Sockets, NEW i \in Ids, SubscribeSocket(c, i) PROVE TicksForSubscribers'
  BY <1>5 DEF SubscribeSocket, WithSubscriber
<1>6. ASSUME NEW c \in Sockets, NEW i \in Ids, UnsubscribeSocket(c, i) PROVE TicksForSubscribers'
  BY <1>6 DEF UnsubscribeSocket, Unsubscribed
<1>7. ASSUME NEW c \in Sockets, NEW i \in Ids, CloseAndSubscribe(c, i) PROVE TicksForSubscribers'
  <2>1. /\ LeftBy(c) \in [Ids -> LiveState]
        /\ \A j \in Ids : LeftBy(c)[j].interval <=> LeftBy(c)[j].subscribers # {}
    BY DEF LeftBy, Unsubscribed
  <2> QED BY <1>7, <2>1 DEF CloseAndSubscribe, WithSubscriber
<1>8. CASE Restart
  BY <1>8 DEF Restart, Detached
<1> QED BY <1>1, <1>2, <1>3, <1>4, <1>5, <1>6, <1>7, <1>8
        DEF ApiNext, CreateSession, UseSession, DeleteSession, StartScan, EndScan, Accept, Flush

\* The live data timer of a session runs exactly while somebody subscribes:
\* none is left behind by a deletion, a closed socket or a restart.
THEOREM TicksForSubscribersAlways == ApiSpec => []TicksForSubscribers
<1>1. ApiInit => TicksForSubscribers
  BY DEF ApiInit, TicksForSubscribers, Detached
<1>2. SessionsTyped /\ TicksForSubscribers /\ [ApiNext]_apiVars => SessionsTyped' /\ TicksForSubscribers'
  BY SessionsStepTyped, TicksStep DEF SessionsTyped, TicksForSubscribers, apiVars
<1> QED BY <1>1, <1>2, SessionsInitTyped, PTL DEF ApiSpec

-----------------------------------------------------------------------------
(* Scans.                                                                  *)

\* ScanningIsRunning is not inductive: a session the stopped service was
\* scanning must stay one that no scan can be started on, or ended.
ScanInv == ScanningIsRunning /\ \A i \in Ids : i \in orphans => session[i].status = "scanning"

\* A session's status and the number of its scans change together.
LEMMA ScanStep ==
    ASSUME SessionsTyped, ScanInv, ApiNext
    PROVE  ScanInv'
<1> USE DEF SessionsTyped, SessionState, ScanInv, ScanningIsRunning
<1>1. CASE UNCHANGED <<session, scans, orphans>>
  BY <1>1
<1>2. ASSUME NEW u \in Users, CreateSession(u) PROVE ScanInv'
  BY <1>2 DEF CreateSession
<1>3. ASSUME NEW u \in Users, NEW i \in Ids, StartScan(u, i) PROVE ScanInv'
  <2>1. scans[i] = 0 /\ i \notin orphans
    BY <1>3 DEF StartScan
  <2> QED BY <1>3, <2>1 DEF StartScan
<1>4. ASSUME NEW i \in Ids, EndScan(i, "completed") \/ EndScan(i, "failed") PROVE ScanInv'
  <2>1. scans[i] = 1 /\ i \notin orphans
    BY <1>4 DEF EndScan
  <2>2. session'[i].status # "scanning" /\ scans'[i] = 0 /\ orphans' = orphans
    BY <1>4, <2>1 DEF EndScan
  <2>3. \A j \in Ids \ {i} : session'[j] = session[j] /\ scans'[j] = scans[j]
    BY <1>4 DEF EndScan
  <2> QED BY <2>1, <2>2, <2>3
<1>5. CASE Restart
  BY <1>5 DEF Restart
<1> QED BY <1>1, <1>2, <1>3, <1>4, <1>5
        DEF ApiNext, UseSession, DeleteSession, Accept, CloseSocket, SubscribeSocket,
            UnsubscribeSocket, CloseAndSubscribe, Flush

\* A session says that it is scanning exactly while its one scan goes on, but
\* for those that were scanning when the service stopped.
THEOREM ScanningIsRunningAlways == ApiSpec => []ScanningIsRunning
<1>1. ApiInit => ScanInv
  BY DEF ApiInit, ScanInv, ScanningIsRunning
<1>2. SessionsTyped /\ ScanInv /\ [ApiNext]_apiVars => SessionsTyped' /\ ScanInv'
  BY SessionsStepTyped, ScanStep DEF SessionsTyped, ScanInv, ScanningIsRunning, apiVars
<1>3. ScanInv => ScanningIsRunning
  BY DEF ScanInv
<1> QED BY <1>1, <1>2, <1>3, SessionsInitTyped, PTL DEF ApiSpec

-----------------------------------------------------------------------------
(* ApiSessions: the store.                                                 *)

\* A store lists sessions that were created, each once.
Listed(st, ss) ==
    /\ st \in Seq(Ids) /\ IsInjective(st)
    /\ \A p \in DOMAIN st : ss[st[p]].status # "none"

ApiTyped ==
    /\ SessionsTyped
    /\ Listed(store, session) /\ Listed(disk.store, disk.session)
    /\ \A i \in Ids : live[i].on \/ live[i] = Detached
    /\ socket \in [Sockets -> [state : {"none", "open", "closed"}, sessions : SUBSET Ids]]
    /\ deleted \subseteq Ids /\ orphans \subseteq Ids /\ restarts \in 0 .. MaxRestarts

\* A session that was created is never again one that was not.
LEMMA StillListed ==
    ASSUME SessionsTyped, Listed(store, session), NEW i \in Ids, NEW r, r.status # "none",
           session' = [session EXCEPT ![i] = r]
    PROVE  Listed(store, session')
<1> SUFFICES ASSUME NEW p \in DOMAIN store PROVE session'[store[p]].status # "none"
  BY DEF Listed
<1>1. store[p] \in Ids
  BY DEF Listed
<1> QED BY <1>1 DEF SessionsTyped, Listed

\* A new session is the last of the store.
LEMMA CreatedListed ==
    ASSUME SessionsTyped, Listed(store, session), NEW i \in Ids, session[i].status = "none"
    PROVE  Append(store, i) \in Seq(Ids) /\ IsInjective(Append(store, i))
           /\ \A p \in DOMAIN Append(store, i) : \/ p \in DOMAIN store /\ Append(store, i)[p] = store[p]
                                                 \/ Append(store, i)[p] = i
<1> DEFINE n == Len(store)
           t == Append(store, i)
<1>1. n \in Nat /\ DOMAIN store = 1 .. n /\ store \in Seq(Ids)
  BY DEF Listed
<1>2. /\ t \in Seq(Ids) /\ DOMAIN t = 1 .. n + 1 /\ t[n + 1] = i
      /\ \A p \in 1 .. n : t[p] = store[p]
  BY <1>1
<1>3. \A p \in 1 .. n : store[p] # i
  BY <1>1 DEF Listed
<1> HIDE DEF n, t
<1>4. \A p \in 1 .. n + 1 : p \in 1 .. n \/ p = n + 1
  BY <1>1
<1>5. IsInjective(t)
  <2> SUFFICES ASSUME NEW p \in 1 .. n + 1, NEW q \in 1 .. n + 1, t[p] = t[q] PROVE p = q
    BY <1>2 DEF IsInjective
  <2>1. CASE p \in 1 .. n /\ q \in 1 .. n
    BY <1>1, <1>2, <2>1 DEF Listed, IsInjective
  <2> QED BY <1>2, <1>3, <1>4, <2>1
<1> QED BY <1>1, <1>2, <1>4, <1>5 DEF t

\* The position among a user's sessions is one in the store.
LEMMA PositionInStore ==
    ASSUME Listed(store, session), NEW u \in Users, NEW p \in Mine(u)
    PROVE  Cardinality({q \in Mine(u) : q <= p}) \in 1 .. Len(store)
<1> DEFINE B == {q \in Mine(u) : q <= p}
           n == Len(store)
<1>1. n \in Nat /\ DOMAIN store = 1 .. n
  BY DEF Listed
<1>2. B \subseteq 1 .. n /\ p \in B
  <2>1. p \in 1 .. n
    BY <1>1 DEF Mine
  <2> QED BY <1>1, <2>1 DEF Mine
<1>3. IsFiniteSet(1 .. n) /\ Cardinality(1 .. n) = n
  <2> HIDE DEF n
  <2>1. n \in Int /\ 1 \in Int
    BY <1>1
  <2>2. IsFiniteSet(1 .. n) /\ Cardinality(1 .. n) = IF 1 > n THEN 0 ELSE n - 1 + 1
    BY <2>1, FS_Interval
  <2> QED BY <1>1, <2>2
<1> HIDE DEF B
<1>4. IsFiniteSet(B) /\ Cardinality(B) <= n
  BY <1>2, <1>3, FS_Subset
<1>5. Cardinality(B) \in Nat /\ Cardinality(B) # 0
  BY <1>2, <1>4, FS_CardinalityType, FS_EmptySet
<1> QED BY <1>1, <1>4, <1>5 DEF B

\* One of the store's entries less.
LEMMA RemovedListed ==
    ASSUME Listed(store, session), NEW k \in 1 .. Len(store)
    PROVE  Listed(RemoveAt(store, k), session)
<1> DEFINE n == Len(store)
           t == RemoveAt(store, k)
           at(j) == IF j < k THEN j ELSE j + 1
<1>1. n \in Nat /\ DOMAIN store = 1 .. n /\ store \in Seq(Ids) /\ k \in 1 .. n
  BY DEF Listed
<1>2. t \in Seq(Ids) /\ DOMAIN t = 1 .. n - 1 /\ \A j \in 1 .. n - 1 : t[j] = store[at(j)]
  BY <1>1, RemovedElements
<1> HIDE DEF t, n
<1>3. \A j \in 1 .. n - 1 : at(j) \in 1 .. n
  BY <1>1
<1>4. \A j, h \in 1 .. n - 1 : at(j) = at(h) => j = h
  BY <1>1
<1> HIDE DEF at
<1>5. IsInjective(t)
  BY <1>1, <1>2, <1>3, <1>4 DEF Listed, IsInjective
<1>6. \A j \in DOMAIN t : session[t[j]].status # "none"
  BY <1>1, <1>2, <1>3 DEF Listed
<1> QED BY <1>2, <1>5, <1>6 DEF Listed, t

\* What the routes write into a session.
LEMMA SessionWrites ==
    ASSUME ApiTyped, ApiNext
    PROVE  \/ UNCHANGED <<store, session>>
           \/ \E i \in Ids, u \in Users :
                 /\ session[i].status = "none" /\ store' = Append(store, i)
                 /\ session' = [session EXCEPT ![i] = [user |-> u, status |-> "created"]]
           \/ \E i \in Ids, st \in {"scanning", "completed", "failed"} :
                 store' = store /\ session' = [session EXCEPT ![i].status = st]
           \/ \E u \in Users : \E p \in Mine(u) :
                 store' = RemoveAt(store, Cardinality({q \in Mine(u) : q <= p})) /\ session' = session
           \/ store' = disk.store /\ session' = disk.session
<1> DEFINE Created == \E i \in Ids, u \in Users :
                 /\ session[i].status = "none" /\ store' = Append(store, i)
                 /\ session' = [session EXCEPT ![i] = [user |-> u, status |-> "created"]]
           Marked == \E i \in Ids, st \in {"scanning", "completed", "failed"} :
                 store' = store /\ session' = [session EXCEPT ![i].status = st]
           Removed == \E u \in Users : \E p \in Mine(u) :
                 store' = RemoveAt(store, Cardinality({q \in Mine(u) : q <= p})) /\ session' = session
           Kept == UNCHANGED <<store, session>>
           FromDisk == store' = disk.store /\ session' = disk.session
<1>1. ASSUME NEW u \in Users, CreateSession(u) PROVE Created
  BY <1>1 DEF CreateSession
<1>2. ASSUME NEW u \in Users, NEW i \in Ids, DeleteSession(u, i) PROVE Removed
  BY <1>2 DEF DeleteSession
<1>3. ASSUME NEW u \in Users, NEW i \in Ids, StartScan(u, i) PROVE Marked
  BY <1>3 DEF StartScan
<1>4. ASSUME NEW i \in Ids, EndScan(i, "completed") \/ EndScan(i, "failed") PROVE Marked
  BY <1>4 DEF EndScan
<1>5. Restart => FromDisk
  BY DEF Restart
<1>6. ASSUME NEW u \in Users, NEW i \in Ids, UseSession(u, i) PROVE Kept
  BY <1>6 DEF UseSession
<1>7. ASSUME NEW c \in Sockets, Accept(c) \/ CloseSocket(c) PROVE Kept
  BY <1>7 DEF Accept, CloseSocket
<1>8. ASSUME NEW c \in Sockets, NEW i \in Ids,
             SubscribeSocket(c, i) \/ UnsubscribeSocket(c, i) \/ CloseAndSubscribe(c, i)
      PROVE  Kept
  BY <1>8 DEF SubscribeSocket, UnsubscribeSocket, CloseAndSubscribe
<1>9. Flush => Kept
  BY DEF Flush
<1> HIDE DEF Created, Marked, Removed, Kept, FromDisk
<1>10. Created \/ Marked \/ Removed \/ Kept \/ FromDisk
  BY <1>1, <1>2, <1>3, <1>4, <1>5, <1>6, <1>7, <1>8, <1>9 DEF ApiNext
<1> QED BY <1>10 DEF Created, Marked, Removed, Kept, FromDisk

\* The store goes on listing sessions that were created, each once.
LEMMA ListedStep ==
    ASSUME ApiTyped, ApiNext
    PROVE  Listed(store, session)' /\ Listed(disk.store, disk.session)'
<1>1. SessionsTyped /\ Listed(store, session) /\ Listed(disk.store, disk.session)
  BY DEF ApiTyped
<1>2. Listed(store', session')
  <2>1. CASE UNCHANGED <<store, session>>
    BY <1>1, <2>1
  <2>2. ASSUME NEW i \in Ids, NEW u \in Users, session[i].status = "none", store' = Append(store, i),
               session' = [session EXCEPT ![i] = [user |-> u, status |-> "created"]]
        PROVE  Listed(store', session')
    <3>1. PICK r : r = [user |-> u, status |-> "created"]
      OBVIOUS
    <3>2. r.status # "none" /\ session' = [session EXCEPT ![i] = r]
      BY <2>2, <3>1
    <3>3. Listed(store, session')
      BY <1>1, <3>2, StillListed
    <3>4. session'[i] = r
      BY <1>1, <3>2 DEF SessionsTyped
    <3> QED BY <1>1, <2>2, <3>2, <3>3, <3>4, CreatedListed DEF Listed
  <2>3. ASSUME NEW i \in Ids, NEW st \in {"scanning", "completed", "failed"},
               store' = store, session' = [session EXCEPT ![i].status = st]
        PROVE  Listed(store', session')
    <3>1. PICK r : r = [session[i] EXCEPT !.status = st]
      OBVIOUS
    <3>2. session[i] \in SessionState
      BY <1>1 DEF SessionsTyped
    <3>3. r.status = st
      BY <3>1, <3>2 DEF SessionState
    <3>4. r.status # "none" /\ session' = [session EXCEPT ![i] = r]
      BY <2>3, <3>1, <3>3
    <3> QED BY <1>1, <2>3, <3>4, StillListed
  <2>4. ASSUME NEW u \in Users, NEW p \in Mine(u), session' = session,
               store' = RemoveAt(store, Cardinality({q \in Mine(u) : q <= p}))
        PROVE  Listed(store', session')
    <3>1. PICK k \in 1 .. Len(store) : store' = RemoveAt(store, k)
      BY <1>1, <2>4, PositionInStore
    <3> QED BY <1>1, <2>4, <3>1, RemovedListed
  <2>5. CASE store' = disk.store /\ session' = disk.session
    BY <1>1, <2>5
  <2> QED BY <2>1, <2>2, <2>3, <2>4, <2>5, SessionWrites
<1>3. Listed(disk'.store, disk'.session)
  <2>1. CASE disk' = disk
    BY <1>1, <2>1
  <2>2. CASE disk' = [store |-> store, session |-> session]
    BY <1>1, <2>2
  <2> QED BY <2>1, <2>2 DEF ApiNext, CreateSession, UseSession, DeleteSession, StartScan, EndScan, Accept,
             CloseSocket, SubscribeSocket, UnsubscribeSocket, CloseAndSubscribe, Flush, Restart
<1> QED BY <1>2, <1>3

\* A simulator that is gone has no subscribers and no timer.
LEMMA DetachedStep ==
    ASSUME SessionsTyped, ApiNext, \A i \in Ids : live[i].on \/ live[i] = Detached
    PROVE  \A i \in Ids : live'[i].on \/ live'[i] = Detached
<1> DEFINE Fine(l) == l.on \/ l = Detached
           AllFine == \A j \in Ids : Fine(live'[j])
<1>1. \A i \in Ids : live[i] \in LiveState /\ Fine(live[i])
  BY DEF SessionsTyped
<1>2. ASSUME NEW c \in Sockets, NEW l \in LiveState, Fine(l)
      PROVE  Fine(Unsubscribed(l, c))
  <2> DEFINE w == Unsubscribed(l, c)
  <2>1. w \in LiveState /\ (w.on <=> l.on) /\ w.subscribers = l.subscribers \ {c} /\ (w.interval => l.interval)
    BY DEF Unsubscribed, LiveState
  <2> HIDE DEF w
  <2>2. CASE l.on
    BY <2>1, <2>2 DEF w
  <2>3. CASE ~l.on
    <3>1. l = Detached
      BY <1>2, <2>3
    <3>2. ~w.on /\ w.subscribers = {} /\ ~w.interval
      BY <2>1, <3>1 DEF Detached
    <3>3. PICK o \in BOOLEAN, a \in SUBSET Sockets, v \in BOOLEAN :
              w = [on |-> o, subscribers |-> a, interval |-> v]
      BY <2>1 DEF LiveState
    <3>4. o = FALSE /\ a = {} /\ v = FALSE
      BY <3>2, <3>3
    <3>5. w = Detached
      BY <3>3, <3>4 DEF Detached
    <3> QED BY <3>5 DEF w
  <2> QED BY <2>2, <2>3
<1>3. \A c \in Sockets, i \in Ids : Fine(LeftBy(c)[i])
  BY <1>1, <1>2 DEF LeftBy
<1>4. DOMAIN live = Ids /\ \A c \in Sockets : DOMAIN LeftBy(c) = Ids
  BY DEF SessionsTyped, LeftBy
<1>5. ASSUME NEW f, DOMAIN f = Ids, \A j \in Ids : Fine(f[j]), NEW c \in Sockets, NEW i \in Ids,
             live' = WithSubscriber(f, i, c)
      PROVE  AllFine
  BY <1>5 DEF WithSubscriber
<1>6. ASSUME NEW i \in Ids, live' = Attached(i)
      PROVE  AllFine
  <2>1. live'[i].on
    BY <1>1, <1>4, <1>6 DEF Attached, LiveState
  <2>2. \A j \in Ids : j # i => live'[j] = live[j]
    BY <1>4, <1>6 DEF Attached
  <2> QED BY <1>1, <2>1, <2>2
<1>7. ASSUME NEW i \in Ids, NEW l, live' = [live EXCEPT ![i] = l], Fine(l)
      PROVE  AllFine
  BY <1>1, <1>4, <1>7
<1>8. UNCHANGED live => AllFine
  BY <1>1
<1> QED
  <2>1. ASSUME NEW c \in Sockets, NEW i \in Ids, UnsubscribeSocket(c, i)
        PROVE  AllFine
    BY <1>1, <1>2, <1>4, <1>7, <2>1 DEF UnsubscribeSocket
  <2>2. ASSUME NEW u \in Users, NEW i \in Ids, DeleteSession(u, i)
        PROVE  AllFine
    <3>1. live' = [live EXCEPT ![i] = Detached] /\ Fine(Detached)
      BY <2>2 DEF DeleteSession
    <3> QED BY <1>7, <3>1
  <2>3. ASSUME NEW c \in Sockets, CloseSocket(c)
        PROVE  AllFine
    BY <1>3, <2>3 DEF CloseSocket
  <2>4. ASSUME NEW c \in Sockets, NEW i \in Ids, SubscribeSocket(c, i) \/ CloseAndSubscribe(c, i)
        PROVE  AllFine
    BY <1>1, <1>3, <1>4, <1>5, <2>4 DEF SubscribeSocket, CloseAndSubscribe
  <2>5. Restart => AllFine
    BY DEF Restart
  <2>6. ASSUME NEW u \in Users, CreateSession(u)
        PROVE  AllFine
    BY <1>6, <2>6 DEF CreateSession
  <2>7. ASSUME NEW u \in Users, NEW i \in Ids, UseSession(u, i) \/ StartScan(u, i)
        PROVE  AllFine
    BY <1>6, <2>7 DEF UseSession, StartScan
  <2>8. ASSUME NEW i \in Ids, EndScan(i, "completed") \/ EndScan(i, "failed")
        PROVE  AllFine
    BY <1>8, <2>8 DEF EndScan
  <2>9. (\E c \in Sockets : Accept(c)) \/ Flush => AllFine
    BY <1>8 DEF Accept, Flush
  <2> HIDE DEF AllFine
  <2>10. AllFine
    BY <2>1, <2>2, <2>3, <2>4, <2>5, <2>6, <2>7, <2>8, <2>9 DEF ApiNext
  <2> QED BY <2>10 DEF AllFine

\* The sockets and what is remembered of the sessions.
LEMMA SocketsStep ==
    ASSUME ApiTyped, ApiNext
    PROVE  /\ socket' \in [Sockets -> [state : {"none", "open", "closed"}, sessions : SUBSET Ids]]
           /\ deleted' \subseteq Ids /\ orphans' \subseteq Ids /\ restarts' \in 0 .. MaxRestarts
<1> DEFINE Socket == [state : {"none", "open", "closed"}, sessions : SUBSET Ids]
<1>1. socket \in [Sockets -> Socket] /\ deleted \subseteq Ids /\ orphans \subseteq Ids
      /\ restarts \in 0 .. MaxRestarts /\ MaxRestarts \in Nat
  BY ApiAssumption DEF ApiTyped
<1>2. ASSUME NEW c \in Sockets, NEW r \in Socket, socket' = [socket EXCEPT ![c] = r]
      PROVE  socket' \in [Sockets -> Socket]
  BY <1>1, <1>2
<1>3. ASSUME NEW c \in Sockets, NEW st \in {"none", "open", "closed"}, NEW b \in SUBSET Ids
      PROVE  /\ [socket[c] EXCEPT !.state = st] \in Socket
             /\ [socket[c] EXCEPT !.sessions = b] \in Socket
             /\ [state |-> st, sessions |-> b] \in Socket
             /\ socket[c].sessions \in SUBSET Ids /\ socket[c].state \in {"none", "open", "closed"}
  <2>1. PICK a \in {"none", "open", "closed"}, d \in SUBSET Ids : socket[c] = [state |-> a, sessions |-> d]
    BY <1>1
  <2>2. /\ [socket[c] EXCEPT !.state = st] = [state |-> st, sessions |-> d]
        /\ [socket[c] EXCEPT !.sessions = b] = [state |-> a, sessions |-> b]
    BY <2>1
  <2> QED BY <2>1, <2>2
<1> HIDE DEF Socket
<1>4. socket' \in [Sockets -> Socket]
  <2>1. ASSUME NEW c \in Sockets, Accept(c) \/ CloseSocket(c)
        PROVE  socket' \in [Sockets -> Socket]
    <3>1. PICK st \in {"open", "closed"} : socket' = [socket EXCEPT ![c].state = st]
      BY <2>1 DEF Accept, CloseSocket
    <3>2. [socket[c] EXCEPT !.state = st] \in Socket
      BY <1>3
    <3> QED BY <1>2, <3>1, <3>2
  <2>2. ASSUME NEW c \in Sockets, NEW i \in Ids, SubscribeSocket(c, i) \/ UnsubscribeSocket(c, i)
        PROVE  socket' \in [Sockets -> Socket]
    <3>1. PICK a : a = socket[c].sessions
      OBVIOUS
    <3>2. a \in SUBSET Ids
      BY <1>3, <3>1
    <3>3. \E b \in SUBSET Ids : socket' = [socket EXCEPT ![c].sessions = b]
      <4>1. a \cup {i} \in SUBSET Ids /\ a \ {i} \in SUBSET Ids
        BY <3>2
      <4> QED BY <2>2, <3>1, <4>1 DEF SubscribeSocket, UnsubscribeSocket
    <3>4. PICK b \in SUBSET Ids : socket' = [socket EXCEPT ![c].sessions = b]
      BY <3>3
    <3>5. [socket[c] EXCEPT !.sessions = b] \in Socket
      BY <1>3
    <3> QED BY <1>2, <3>4, <3>5
  <2>3. ASSUME NEW c \in Sockets, NEW i \in Ids, CloseAndSubscribe(c, i)
        PROVE  socket' \in [Sockets -> Socket]
    <3>1. [state |-> "closed", sessions |-> socket[c].sessions \cup {i}] \in Socket
      <4>1. socket[c].sessions \cup {i} \in SUBSET Ids
        BY <1>3
      <4> QED BY <1>3, <4>1
    <3> QED BY <1>2, <2>3, <3>1 DEF CloseAndSubscribe
  <2>4. CASE Restart
    <3>1. \A c \in Sockets : [socket[c] EXCEPT !.state = IF @ = "none" THEN @ ELSE "closed"] \in Socket
      <4>1. \A c \in Sockets : (IF socket[c].state = "none" THEN socket[c].state ELSE "closed") \in {"none", "open", "closed"}
        OBVIOUS
      <4> QED BY <1>3, <4>1
    <3> QED BY <2>4, <3>1 DEF Restart
  <2>5. CASE UNCHANGED socket
    BY <1>1, <2>5
  <2> QED BY <2>1, <2>2, <2>3, <2>4, <2>5
          DEF ApiNext, CreateSession, UseSession, DeleteSession, StartScan, EndScan, Flush
<1>5. deleted' \subseteq Ids /\ orphans' \subseteq Ids /\ restarts' \in 0 .. MaxRestarts
  <2>1. ASSUME NEW u \in Users, NEW i \in Ids, DeleteSession(u, i)
        PROVE  deleted' = deleted \cup {i} /\ UNCHANGED <<orphans, restarts>>
    BY <2>1 DEF DeleteSession
  <2>2. CASE Restart
    BY <1>1, <2>2 DEF Restart
  <2>3. CASE UNCHANGED <<deleted, orphans, restarts>>
    BY <1>1, <2>3
  <2> QED BY <1>1, <2>1, <2>2, <2>3
          DEF ApiNext, CreateSession, UseSession, StartScan, EndScan, Accept, CloseSocket,
              SubscribeSocket, UnsubscribeSocket, CloseAndSubscribe, Flush
<1> QED BY <1>4, <1>5 DEF Socket

LEMMA ApiTypedStep == ApiTyped /\ [ApiNext]_apiVars => ApiTyped'
<1> SUFFICES ASSUME ApiTyped, [ApiNext]_apiVars PROVE ApiTyped'
  OBVIOUS
<1>1. CASE ApiNext
  BY <1>1, SessionsStepTyped, ListedStep, DetachedStep, SocketsStep DEF ApiTyped
<1>2. CASE UNCHANGED apiVars
  BY <1>2 DEF apiVars, ApiTyped, SessionsTyped, Listed
<1> QED BY <1>1, <1>2

LEMMA ApiTypedBegins == ApiInit => ApiTyped
<1> SUFFICES ASSUME ApiInit PROVE ApiTyped
  OBVIOUS
<1>1. store = <<>> /\ disk.store = <<>> /\ Listed(<<>>, session) /\ Listed(<<>>, disk.session)
  BY DEF ApiInit, Listed, IsInjective
<1> QED BY <1>1, SessionsInitTyped, ApiAssumption DEF ApiInit, ApiTyped

\* The store lists no session twice, and a session without its simulator has
\* no subscribers and no timer, for any number of users, sockets, sessions and
\* restarts (routes/diagnostics.js, lib/runtime.js, lib/db.js).
THEOREM ApiTypeCorrect == ApiSpec => []ApiTypeOK
<1>1. ApiTyped => ApiTypeOK
  BY DEF ApiTyped, ApiTypeOK, SessionsTyped, Listed
<1> QED BY <1>1, ApiTypedBegins, ApiTypedStep, PTL DEF ApiSpec

-----------------------------------------------------------------------------
(* ApiUds.                                                                 *)

CallState == [pc : {"off", "waiting", "answered", "failed"}, got : Calls \cup {Nothing}]

\* What a step does to the state of one call is well typed.
LEMMA CallUpdates ==
    ASSUME UdsTypeOK, NEW q \in Calls
    PROVE  /\ Fail(q) => call' \in [Calls -> CallState]
           /\ [call EXCEPT ![q].pc = "waiting"] \in [Calls -> CallState]
           /\ \A a \in Calls : [call EXCEPT ![q] = [pc |-> "answered", got |-> a]] \in [Calls -> CallState]
  BY DEF UdsTypeOK, Fail, CallState

\* Cancelling leaves nobody pending, and no variable without its type.
LEMMA CancelUpdates ==
    ASSUME UdsTypeOK, CancelPending
    PROVE  /\ pending' = Nothing /\ finish' = Nothing /\ timers' \subseteq Calls
  BY DEF UdsTypeOK, CancelPending

\* Rejecting the pending call keeps the types.
LEMMA RejectType ==
    ASSUME UdsTypeOK, NEW q \in Calls, Reject(q)
    PROVE  UdsTypeOK'
<1>1. CASE pending = Nothing
  BY <1>1 DEF Reject, UdsTypeOK
<1>2. CASE pending # Nothing
  <2>1. pending \in Calls /\ Fail(pending)
    BY <1>2 DEF Reject, UdsTypeOK
  <2> QED BY <1>2, <2>1, CallUpdates DEF Reject, UdsTypeOK, CallState
<1> QED BY <1>1, <1>2

\* One step of any handler, of the transport or of the ECU keeps the types.
LEMMA UdsStepType ==
    ASSUME UdsTypeOK, UdsNext
    PROVE  UdsTypeOK'
<1>1. PICK q \in Calls : \/ RequestCall(q) \/ RequestBusy(q) \/ AnswerCall(q) \/ NoAnswer(q)
                         \/ ReceiveFails(q) \/ SendFails(q) \/ SessionTimeout(q) \/ TransportTimeout(q)
  BY DEF UdsNext
<1>2. CASE RequestCall(q)
  BY <1>2, CallUpdates DEF RequestCall, UdsTypeOK, CallState
<1>3. CASE RequestBusy(q)
  BY <1>3, CallUpdates, CancelUpdates DEF RequestBusy, UdsTypeOK, CallState
<1>4. CASE AnswerCall(q)
  <2>1. CASE pending = Nothing
    BY <1>4, <2>1 DEF AnswerCall, UdsTypeOK
  <2>2. CASE pending # Nothing
    <3>1. pending \in Calls
      BY <2>2 DEF UdsTypeOK
    <3> QED BY <1>4, <2>2, <3>1, CallUpdates DEF AnswerCall, UdsTypeOK, CallState
  <2> QED BY <2>1, <2>2
<1>5. CASE NoAnswer(q)
  BY <1>5 DEF NoAnswer, UdsTypeOK
<1>6. CASE ReceiveFails(q)
  <2>1. pending \in Calls
    BY <1>6 DEF ReceiveFails, UdsTypeOK
  <2> QED BY <1>6, <2>1, CallUpdates, CancelUpdates DEF ReceiveFails, UdsTypeOK, CallState
<1>7. CASE SendFails(q) \/ TransportTimeout(q)
  BY <1>7, RejectType DEF SendFails, TransportTimeout
<1>8. CASE SessionTimeout(q)
  BY <1>8, CallUpdates, CancelUpdates DEF SessionTimeout, UdsTypeOK, CallState
<1> QED BY <1>1, <1>2, <1>3, <1>4, <1>5, <1>6, <1>7, <1>8

\* The variables of the console have their types, however many calls there are.
THEOREM UdsTypeCorrect == UdsSpec => []UdsTypeOK
<1>1. UdsInit => UdsTypeOK
  BY DEF UdsInit, UdsTypeOK
<1>2. UdsTypeOK /\ [UdsNext]_udsVars => UdsTypeOK'
  BY UdsStepType DEF UdsTypeOK, udsVars
<1> QED BY <1>1, <1>2, PTL DEF UdsSpec

\* No step leaves the transport busy with a call that is over: whoever ends a
\* call, and whoever's timer does it, nobody is pending afterwards but a call
\* that waits.
LEMMA ReadyStep ==
    ASSUME UdsTypeOK, ReadyAgain, UdsNext
    PROVE  ReadyAgain'
<1>1. PICK q \in Calls : \/ RequestCall(q) \/ RequestBusy(q) \/ AnswerCall(q) \/ NoAnswer(q)
                         \/ ReceiveFails(q) \/ SendFails(q) \/ SessionTimeout(q) \/ TransportTimeout(q)
  BY DEF UdsNext
<1>2. CASE RequestCall(q)
  BY <1>2 DEF RequestCall, ReadyAgain, UdsTypeOK
<1>3. CASE RequestBusy(q) \/ ReceiveFails(q) \/ SessionTimeout(q)
  BY <1>3, CancelUpdates DEF RequestBusy, ReceiveFails, SessionTimeout, ReadyAgain
<1>4. CASE AnswerCall(q)
  BY <1>4 DEF AnswerCall, ReadyAgain
<1>5. CASE NoAnswer(q)
  BY <1>5 DEF NoAnswer, ReadyAgain
<1>6. CASE SendFails(q) \/ TransportTimeout(q)
  BY <1>6 DEF SendFails, TransportTimeout, Reject, ReadyAgain
<1> QED BY <1>1, <1>2, <1>3, <1>4, <1>5, <1>6

\* The transport is never busy with a call that is over, for any number of
\* calls: a request that finds it busy finds a call that still waits.
THEOREM AlwaysReadyAgain == UdsSpec => []ReadyAgain
<1>1. UdsInit => ReadyAgain
  BY DEF UdsInit, ReadyAgain
<1>2. UdsTypeOK /\ ReadyAgain /\ [UdsNext]_udsVars => ReadyAgain'
  BY ReadyStep DEF ReadyAgain, udsVars
<1> QED BY <1>1, <1>2, UdsTypeCorrect, PTL DEF UdsSpec

-----------------------------------------------------------------------------
(* PgStore: what PostgreSQL keeps does not go back.                        *)

\* Version v of row r is not later than the one in memory.
NoLater(r, v) == v <= memory[r] \/ r \in removed

\* The table of users is empty just now.
UsersOut == flush.pc = "delete" /\ Current = "users"

\* KeepsUp is not inductive: it needs what a transaction has in its tables, and
\* that memory is never behind them.
PgInv ==
    /\ PgTypeOK
    /\ flush.pc \in {"delete", "insert"} => flush.at \in DOMAIN FlushOrder
    /\ flush.pc \in {"idle", "begin"} => tables = committed
    /\ \A r \in removed : memory[r] = 0 /\ PgHome[r] # "users"
    /\ \A r \in PgRows :
          /\ NoLater(r, committed[r].version) /\ NoLater(r, tables[r].version)
          /\ \/ tables[r].version >= committed[r].version
             \/ tables[r].version = 0 /\ (PgHome[r] # "users" \/ UsersOut)

\* The order of the collections.
LEMMA OrderFacts ==
    /\ Len(FlushOrder) = 8 /\ DOMAIN FlushOrder = 1 .. 8
    /\ \A i \in 1 .. 8 : FlushOrder[i] \in Collections
    /\ \A r \in PgRows : PgHome[r] \in Collections
    /\ ServiceOwn \cup {"users", "sessions"} \subseteq Collections
<1>1. Len(FlushOrder) = 8 /\ DOMAIN FlushOrder = 1 .. 8
  BY DEF FlushOrder
<1>2. FlushOrder[1] = "notifications" /\ FlushOrder[5] = "sessions" /\ FlushOrder[8] = "users"
  BY DEF FlushOrder
<1>3. {FlushOrder[1], FlushOrder[5], FlushOrder[8], "tokens"} \subseteq Collections
  BY <1>1 DEF Collections
<1> QED BY <1>1, <1>2, <1>3, SchemaAssumption DEF Collections, ServiceOwn

\* A stored row's fields.
LEMMA RowFields ==
    ASSUME NEW f \in [PgRows -> StoredRow], NEW r \in PgRows
    PROVE  f[r].version \in 0 .. MaxVersion /\ f[r].linked \in BOOLEAN /\ f[r].version \in Nat
  BY SchemaAssumption DEF StoredRow

LEMMA NoRowFacts == NoRow \in StoredRow /\ NoRow.version = 0
  BY SchemaAssumption DEF NoRow, StoredRow

\* PgTypeOK, part by part.
LEMMA PgFields ==
    ASSUME PgInv
    PROVE  /\ memory \in [PgRows -> 0 .. MaxVersion] /\ removed \subseteq PgRows
           /\ dirty \subseteq Collections /\ flushTimer \in BOOLEAN
           /\ flush \in [pc : {"idle", "begin", "delete", "insert", "commit"},
                         at : 0 .. 8, put : [PgRows -> StoredRow], done : SUBSET Collections]
           /\ tables \in [PgRows -> StoredRow] /\ committed \in [PgRows -> StoredRow]
           /\ outages \in 0 .. MaxOutages
           /\ \A r \in PgRows : memory[r] \in Nat /\ tables[r].version \in Nat /\ committed[r].version \in Nat
           /\ \A r \in PgRows : tables[r].version \in 0 .. MaxVersion
           /\ flush.pc \in {"delete", "insert"} => flush.at \in 1 .. 8 /\ Current \in Collections
  BY RowFields, OrderFacts, SchemaAssumption DEF PgInv, PgTypeOK, Current

\* A request: memory and what was touched change, PostgreSQL does not.
LEMMA RequestStep ==
    ASSUME PgInv, NEW r \in PgRows,
           Look(PgHome[r]) \/ Push(r) \/ Update(r) \/ UpdateHeld(r) \/ Splice(r)
    PROVE  PgInv'
<1> USE PgFields
<1>1. UNCHANGED <<flush, tables, committed, outages>>
  BY DEF Look, Push, Update, UpdateHeld, Splice, Changed
<1>2. dirty' \subseteq Collections
  <2>1. \A c \in Collections : Touched(c) => dirty' \subseteq Collections
    BY OrderFacts DEF Touched
  <2> QED BY <2>1, OrderFacts DEF Look, Push, Update, UpdateHeld, Splice
<1>3. /\ memory' \in [PgRows -> 0 .. MaxVersion] /\ removed' \subseteq PgRows /\ flushTimer' \in BOOLEAN
      /\ removed \subseteq removed'
      /\ \A q \in PgRows : memory'[q] >= memory[q] \/ q \in removed'
      /\ \A q \in removed' : memory'[q] = 0 /\ PgHome[q] # "users"
  <2>1. CASE Look(PgHome[r])
    BY <2>1 DEF Look, PgInv
  <2>2. CASE Push(r)
    BY <2>2, SchemaAssumption DEF Push, Changed, PgInv
  <2>3. CASE Update(r) \/ UpdateHeld(r)
    <3>1. /\ memory[r] \in 1 .. MaxVersion - 1 /\ memory' = [memory EXCEPT ![r] = memory[r] + 1]
          /\ flushTimer' = TRUE /\ removed' = removed
      BY <2>3 DEF Update, UpdateHeld, Changed
    <3>2. memory[r] + 1 \in 0 .. MaxVersion /\ memory[r] + 1 >= memory[r] /\ memory[r] # 0
      BY <3>1, SchemaAssumption
    <3>3. \A q \in removed : memory[q] = 0 /\ PgHome[q] # "users"
      BY DEF PgInv
    <3> QED BY <3>1, <3>2, <3>3
  <2>4. CASE Splice(r)
    BY <2>4, SchemaAssumption DEF Splice, Changed, PgInv
  <2> QED BY <2>1, <2>2, <2>3, <2>4
<1>4. \A q \in PgRows : /\ memory'[q] \in Nat
                        /\ NoLater(q, committed[q].version)' /\ NoLater(q, tables[q].version)'
  <2> TAKE q \in PgRows
  <2>1. memory'[q] \in Nat
    BY <1>3, SchemaAssumption
  <2>2. NoLater(q, committed[q].version) /\ NoLater(q, tables[q].version)
    BY DEF PgInv
  <2> QED BY <1>1, <1>3, <2>1, <2>2 DEF NoLater
<1>5. PgTypeOK'
  BY <1>1, <1>2, <1>3, OrderFacts DEF PgInv, PgTypeOK
<1> QED BY <1>1, <1>3, <1>4, <1>5 DEF PgInv, UsersOut, Current

\* Nothing of the transaction is left, or nothing of it was left out.
LEMMA SettledStep ==
    ASSUME PgInv, UNCHANGED <<memory, removed, dirty, flushTimer>>, flush' = NoFlush,
           tables' = committed', committed' \in {committed, tables}, outages' \in 0 .. MaxOutages
    PROVE  PgInv'
<1> USE PgFields
<1>1. NoFlush \in [pc : {"idle", "begin", "delete", "insert", "commit"}, at : 0 .. 8,
                   put : [PgRows -> StoredRow], done : SUBSET Collections]
  BY NoRowFacts DEF NoFlush
<1>2. PgTypeOK'
  BY <1>1, OrderFacts DEF PgTypeOK
<1>3. flush'.pc = "idle"
  BY DEF NoFlush
<1>4. \A r \in PgRows : NoLater(r, committed[r].version)' /\ NoLater(r, tables[r].version)'
  BY DEF PgInv, NoLater
<1>5. \A r \in PgRows : tables'[r].version >= committed'[r].version
  BY <1>2 DEF PgTypeOK
<1> QED BY <1>2, <1>3, <1>4, <1>5 DEF PgInv

\* The table of the next collection is emptied, or there is none.
LEMMA StatementStep ==
    ASSUME PgInv, NEW names \in SUBSET Collections, NEW put \in [PgRows -> StoredRow],
           NEW done \in SUBSET Collections, NextStatement(names, put, done),
           UNCHANGED <<memory, removed, flushTimer, committed, outages>>, dirty' \subseteq Collections,
           ~UsersOut \/ Held("users") = {}
    PROVE  PgInv'
<1> USE PgFields
<1>0. \A r \in PgRows : PgHome[r] = "users" => tables[r].version >= committed[r].version
  <2> SUFFICES ASSUME NEW r \in PgRows, PgHome[r] = "users", UsersOut
               PROVE  tables[r].version >= committed[r].version
    BY DEF PgInv
  <2>1. memory[r] = 0 /\ r \notin removed
    BY DEF Held, PgInv
  <2>2. committed[r].version = 0
    BY <2>1 DEF PgInv, NoLater
  <2> QED BY <2>2
<1>1. CASE /\ flush' = [flush EXCEPT !.pc = "commit", !.put = put, !.done = done]
           /\ UNCHANGED tables
  <2>1. PgTypeOK'
    BY <1>1, OrderFacts DEF PgTypeOK
  <2>2. flush'.pc = "commit"
    BY <1>1
  <2> QED BY <1>0, <1>1, <2>1, <2>2 DEF PgInv, NoLater
<1>2. ASSUME NEW i \in 1 .. 8, flush' = [pc |-> "delete", at |-> i, put |-> put, done |-> done],
             tables' = Emptied(FlushOrder[i])
      PROVE  PgInv'
  <2> DEFINE c == FlushOrder[i]
  <2>1. \A r \in PgRows :
           /\ tables'[r] \in StoredRow
           /\ \/ tables'[r].version = tables[r].version
              \/ tables'[r].version = 0 /\ (PgHome[r] # "users" \/ c = "users")
    <3> TAKE r \in PgRows
    <3>1. tables'[r] \in {NoRow, tables[r], [tables[r] EXCEPT !.linked = FALSE]}
      BY <1>2 DEF Emptied
    <3>2. tables[r] \in StoredRow
      OBVIOUS
    <3>3. [tables[r] EXCEPT !.linked = FALSE] \in StoredRow
          /\ [tables[r] EXCEPT !.linked = FALSE].version = tables[r].version
      BY <3>2 DEF StoredRow
    <3>4. tables'[r] = NoRow => PgHome[r] # "users" \/ c = "users" \/ tables[r] = NoRow
      BY <1>2, SchemaAssumption, <3>3, NoRowFacts DEF Emptied
    <3> QED BY <3>1, <3>2, <3>3, <3>4, NoRowFacts
  <2>2. tables' \in [PgRows -> StoredRow]
    <3>1. tables' = [r \in PgRows |-> tables'[r]]
      BY <1>2 DEF Emptied
    <3> QED BY <2>1, <3>1
  <2>3. PgTypeOK'
    BY <1>2, <2>2, OrderFacts DEF PgTypeOK
  <2>4. flush'.pc = "delete" /\ flush'.at = i /\ i \in DOMAIN FlushOrder
        /\ (c = "users" => UsersOut')
    BY <1>2, OrderFacts DEF UsersOut, Current
  <2>5. \A r \in PgRows :
           /\ NoLater(r, committed[r].version)' /\ NoLater(r, tables[r].version)'
           /\ \/ tables'[r].version >= committed'[r].version
              \/ tables'[r].version = 0 /\ (PgHome[r] # "users" \/ UsersOut')
    <3> TAKE r \in PgRows
    <3>1. NoLater(r, committed[r].version)'
      BY DEF PgInv, NoLater
    <3>2. NoLater(r, tables[r].version)'
      BY <2>1 DEF PgInv, NoLater
    <3>3. \/ tables'[r].version >= committed'[r].version
          \/ tables'[r].version = 0 /\ (PgHome[r] # "users" \/ UsersOut')
      BY <1>0, <2>1, <2>4 DEF PgInv
    <3> QED BY <3>1, <3>2, <3>3
  <2> HIDE DEF c
  <2> QED BY <2>3, <2>4, <2>5 DEF PgInv
<1> QED BY <1>1, <1>2, OrderFacts DEF NextStatement

\* What memory holds of a collection is inserted.
LEMMA InsertStep ==
    ASSUME PgInv, InsertRows
    PROVE  PgInv'
<1> USE PgFields
<1> DEFINE With(f) == [r \in PgRows |-> IF r \in Held(Current) THEN AsHeld(r) ELSE f[r]]
<1>1. /\ flush.pc = "delete" /\ tables' = With(tables)
      /\ flush' = [flush EXCEPT !.pc = "insert", !.put = With(@)]
      /\ UNCHANGED <<memory, removed, dirty, flushTimer, committed, outages>>
  BY DEF InsertRows
<1>2. \A r \in PgRows : AsHeld(r) \in StoredRow /\ AsHeld(r).version = memory[r]
  BY DEF AsHeld, StoredRow
<1>3. With(tables) \in [PgRows -> StoredRow] /\ With(flush.put) \in [PgRows -> StoredRow]
  BY <1>2
<1>4. flush'.pc = "insert" /\ flush'.at = flush.at
  BY <1>1
<1>5. PgTypeOK'
  BY <1>1, <1>3, OrderFacts DEF PgTypeOK
<1>6. ASSUME NEW r \in PgRows
      PROVE  /\ NoLater(r, committed[r].version)' /\ NoLater(r, tables[r].version)'
             /\ \/ tables'[r].version >= committed'[r].version
                \/ tables'[r].version = 0 /\ PgHome[r] # "users"
  <2>1. NoLater(r, committed[r].version) /\ NoLater(r, tables[r].version)
        /\ (\/ tables[r].version >= committed[r].version
            \/ tables[r].version = 0 /\ (PgHome[r] # "users" \/ UsersOut))
        /\ (r \in removed => memory[r] = 0 /\ PgHome[r] # "users")
    BY DEF PgInv
  <2>2. CASE r \in Held(Current)
    <3>1. tables'[r].version = memory[r] /\ memory[r] > 0
      BY <1>1, <1>2, <2>2 DEF Held
    <3> QED BY <1>1, <2>1, <3>1 DEF NoLater
  <2>3. CASE r \notin Held(Current)
    <3>1. tables'[r] = tables[r]
      BY <1>1, <2>3
    <3>2. UsersOut /\ PgHome[r] = "users" => memory[r] = 0
      BY <2>3 DEF Held, UsersOut
    <3> QED BY <1>1, <2>1, <3>1, <3>2 DEF NoLater
  <2> QED BY <2>2, <2>3
<1> HIDE DEF With
<1> QED BY <1>1, <1>4, <1>5, <1>6 DEF PgInv

\* A step of the flush.
LEMMA FlushingStep ==
    ASSUME PgInv, FlushStep
    PROVE  PgInv'
<1> USE PgFields
<1>1. CASE StartFlush
  <2>1. /\ UNCHANGED <<memory, removed, dirty, tables, committed, outages>> /\ flushTimer' = FALSE
        /\ flush.pc = "idle" /\ flush' \in {flush, [flush EXCEPT !.pc = "begin"]}
    BY <1>1 DEF StartFlush
  <2>2. PgTypeOK'
    BY <2>1, OrderFacts DEF PgTypeOK
  <2>3. flush'.pc \in {"idle", "begin"} /\ ~UsersOut
    BY <2>1 DEF UsersOut
  <2> QED BY <2>1, <2>2, <2>3 DEF PgInv, NoLater
<1>2. CASE Begun
  BY <1>2, StatementStep DEF Begun, UsersOut
<1>3. ASSUME NEW put \in [PgRows -> StoredRow], Rewritten(put), flush.pc \in {"delete", "insert"},
             ~UsersOut \/ Held("users") = {}
      PROVE  PgInv'
  <2>1. dirty' \in SUBSET Collections /\ flush.done \cup {Current} \in SUBSET Collections
    BY <1>3 DEF Rewritten
  <2>2. NextStatement(dirty', put, flush.done \cup {Current})
        /\ UNCHANGED <<memory, removed, flushTimer, committed, outages>>
    BY <1>3 DEF Rewritten
  <2> QED BY <1>3, <2>1, <2>2, StatementStep
<1>4. CASE NothingToInsert
  <2>1. flush.put \in [PgRows -> StoredRow]
    OBVIOUS
  <2> QED BY <1>3, <1>4, <2>1 DEF NothingToInsert, UsersOut
<1>5. CASE RowsInserted
  <2>1. flush.put \in [PgRows -> StoredRow]
    OBVIOUS
  <2> QED BY <1>3, <1>5, <2>1 DEF RowsInserted, UsersOut
<1>6. CASE InsertRefused
  BY <1>6, SettledStep DEF InsertRefused, Rollback
<1>7. CASE Commit
  BY <1>7, SettledStep DEF Commit
<1>8. CASE Outage
  <2>1. outages' \in 0 .. MaxOutages
    BY <1>8, SchemaAssumption DEF Outage
  <2> QED BY <1>8, <2>1, SettledStep DEF Outage, Rollback
<1> QED BY <1>1, <1>2, <1>4, <1>5, <1>6, <1>7, <1>8, InsertStep DEF FlushStep

\* At the start nothing is stored.
LEMMA PgBegins == PgInit => PgInv
<1> SUFFICES ASSUME PgInit PROVE PgInv
  OBVIOUS
<1> USE DEF PgInit
<1>1. PgTypeOK
  <2>1. flush \in [pc : {"idle", "begin", "delete", "insert", "commit"}, at : 0 .. 8,
                   put : [PgRows -> StoredRow], done : SUBSET Collections]
    BY NoRowFacts DEF NoFlush
  <2>2. {"users", "sessions"} \subseteq Collections
    BY OrderFacts
  <2>3. memory \in [PgRows -> 0 .. MaxVersion]
    BY SchemaAssumption
  <2>4. tables \in [PgRows -> StoredRow] /\ committed \in [PgRows -> StoredRow]
    BY NoRowFacts
  <2>5. removed \subseteq PgRows /\ dirty \subseteq Collections /\ flushTimer \in BOOLEAN
        /\ outages \in 0 .. MaxOutages
    <3>1. 0 \in 0 .. MaxOutages
      BY SchemaAssumption
    <3>2. removed = {} /\ dirty = {"users", "sessions"} /\ flushTimer = FALSE /\ outages = 0
      OBVIOUS
    <3> HIDE DEF PgInit
    <3> QED BY <2>2, <3>1, <3>2
  <2> QED BY <2>1, <2>3, <2>4, <2>5, OrderFacts DEF PgTypeOK
<1>2. flush.pc = "idle" /\ \A r \in PgRows : tables[r].version = 0 /\ committed[r].version = 0
  BY NoRowFacts DEF NoFlush
<1>3. \A r \in PgRows : memory[r] \in Nat
  OBVIOUS
<1> QED BY <1>1, <1>2, <1>3 DEF PgInv, NoLater

\* Every step keeps the invariant.
LEMMA PgStep == PgInv /\ [PgNext]_pgVars => PgInv'
<1> SUFFICES ASSUME PgInv, [PgNext]_pgVars PROVE PgInv'
  OBVIOUS
<1>1. CASE UNCHANGED pgVars
  BY <1>1 DEF pgVars, PgInv, PgTypeOK, NoLater, UsersOut, Current
<1> QED BY <1>1, RequestStep, FlushingStep DEF PgNext

LEMMA PgInvariant == PgSpec => []PgInv
  BY PgBegins, PgStep, PTL DEF PgSpec

\* The store's variables have their types, for any tables, references and
\* requests (PostgresStore.flush).
THEOREM PgTypeCorrect == PgSpec => []PgTypeOK
<1>1. PgInv => PgTypeOK
  BY DEF PgInv
<1> QED BY <1>1, PgInvariant, PTL

\* What PostgreSQL keeps of a row never goes back, and no user is lost, for any
\* tables, references and requests, wherever a flush is broken off
\* (PostgresStore.flush).
THEOREM KeepsUpAlways == PgSpec => KeepsUp
<1> DEFINE Kept == \A r \in PgRows :
                      \/ committed'[r].version >= committed[r].version
                      \/ committed'[r].version = 0 /\ PgHome[r] # "users"
<1>1. PgInv /\ [PgNext]_pgVars => [Kept]_pgVars
  <2> SUFFICES ASSUME PgInv, PgNext PROVE Kept
    OBVIOUS
  <2>1. committed' = committed \/ Commit
    BY DEF PgNext, FlushStep, Look, Push, Update, UpdateHeld, Splice, Changed, StartFlush, Begun,
           NothingToInsert, InsertRows, InsertRefused, RowsInserted, Outage, Rewritten, Rollback
  <2>2. CASE committed' = committed
    BY <2>2, PgFields
  <2>3. CASE Commit
    BY <2>3 DEF Commit, PgInv, UsersOut
  <2> QED BY <2>1, <2>2, <2>3
<1> QED BY <1>1, PgInvariant, PTL DEF KeepsUp, PgSpec

-----------------------------------------------------------------------------
(* LogStore.  The entries accepted are those that are stored, in their     *)
(* order, and then the buffer.  Rows and the rows of an open transaction   *)
(* repeat entries, and never one before all its predecessors (Whole).      *)
(* That a row tells which entry it is takes that no entry is accepted      *)
(* twice (Single).                                                         *)

\* s repeats elements of t up to the n-th, none before those that precede it.
Repeats(s, t, n) ==
    \A i \in 1 .. Len(s) : \E j \in 1 .. n :
        s[i] = t[j] /\ \A k \in 1 .. j - 1 : \E h \in 1 .. i - 1 : s[h] = t[k]

StoredOf(b, acc) == Len(acc) - Len(b)

Whole(rs, ls, b, acc) ==
    /\ rs \in Seq(Entry) /\ ls \in Seq(Entry) /\ b \in Seq(Entry) /\ acc \in Seq(Entry)
    /\ Len(b) <= Len(acc)
    /\ \A m \in 1 .. Len(b) : b[m] = acc[StoredOf(b, acc) + m]
    /\ \A j \in 1 .. StoredOf(b, acc) : \E i \in 1 .. Len(rs) : rs[i] = acc[j]
    /\ Repeats(rs, acc, StoredOf(b, acc))
    /\ Repeats(ls, b, Len(b))

Single ==
    /\ \A i, j \in 1 .. Len(accepted) : accepted[i] = accepted[j] => i = j
    /\ \A i \in 1 .. Len(accepted) : accepted[i] <= entries
    /\ \A l \in Loggers, i \in 1 .. Len(accepted) : accepted[i] # logging[l]
    /\ \A l, m \in Loggers : logging[l] = logging[m] => logging[l] = 0 \/ l = m

Types ==
    /\ managed \in BOOLEAN /\ connected \in BOOLEAN
    /\ logging \in [Loggers -> 0 .. entries]
    /\ holds \in [Loggers -> BOOLEAN]
    /\ closer \in {"idle", "flushing", "closing", "forgetting"}
    /\ entries \in 0 .. MaxEntries /\ faults \in 0 .. MaxFaults /\ closes \in 0 .. MaxCloses
    /\ sealed \in 0 .. Len(accepted)
    /\ connected => managed /\ closer # "forgetting"
    /\ \A l \in Loggers : holds[l] => logging[l] # 0

Sealed == ~connected => sealed <= StoredOf(unsaved, accepted)

LogInv == Types /\ Whole(rows, loose, unsaved, accepted) /\ Single /\ Sealed

-----------------------------------------------------------------------------
\* An entry goes to the end of the buffer and is the last one accepted.
LEMMA AppendKeepsWhole ==
    ASSUME NEW rs, NEW ls, NEW b, NEW acc, NEW e \in Entry, Whole(rs, ls, b, acc)
    PROVE  Whole(rs, ls, Append(b, e), Append(acc, e))
<1> DEFINE bb == Append(b, e)
           aa == Append(acc, e)
<1>1. rs \in Seq(Entry) /\ ls \in Seq(Entry) /\ b \in Seq(Entry) /\ acc \in Seq(Entry)
      /\ Len(b) <= Len(acc)
  BY DEF Whole
<1>2. bb \in Seq(Entry) /\ aa \in Seq(Entry) /\ Len(bb) = Len(b) + 1 /\ Len(aa) = Len(acc) + 1
      /\ (\A m \in 1 .. Len(b) : bb[m] = b[m]) /\ bb[Len(b) + 1] = e
      /\ (\A m \in 1 .. Len(acc) : aa[m] = acc[m]) /\ aa[Len(acc) + 1] = e
  BY <1>1
<1>3. StoredOf(bb, aa) = StoredOf(b, acc) /\ StoredOf(b, acc) \in 0 .. Len(acc)
  BY <1>1, <1>2 DEF StoredOf
<1> HIDE DEF bb, aa
<1>4. ASSUME NEW m \in 1 .. Len(bb) PROVE bb[m] = aa[StoredOf(bb, aa) + m]
  <2>1. CASE m \in 1 .. Len(b)
    <3>1. b[m] = acc[StoredOf(b, acc) + m]
      BY <2>1 DEF Whole
    <3>2. StoredOf(b, acc) + m \in 1 .. Len(acc)
      BY <2>1, <1>1 DEF StoredOf
    <3> QED  BY <2>1, <3>1, <3>2, <1>2, <1>3
  <2>2. CASE m = Len(b) + 1
    <3>1. StoredOf(b, acc) + m = Len(acc) + 1
      BY <2>2, <1>1 DEF StoredOf
    <3> QED  BY <2>2, <3>1, <1>2, <1>3
  <2> QED  BY <2>1, <2>2, <1>1, <1>2
<1>5. \A j \in 1 .. StoredOf(bb, aa) : \E i \in 1 .. Len(rs) : rs[i] = aa[j]
  BY <1>1, <1>2, <1>3 DEF Whole
<1>6. Repeats(rs, aa, StoredOf(bb, aa))
  <2> SUFFICES ASSUME NEW i \in 1 .. Len(rs)
               PROVE  \E j \in 1 .. StoredOf(b, acc) :
                        rs[i] = aa[j] /\ \A k \in 1 .. j - 1 : \E h \in 1 .. i - 1 : rs[h] = aa[k]
    BY <1>3 DEF Repeats
  <2>1. PICK j \in 1 .. StoredOf(b, acc) :
          rs[i] = acc[j] /\ \A k \in 1 .. j - 1 : \E h \in 1 .. i - 1 : rs[h] = acc[k]
    BY DEF Whole, Repeats
  <2>2. rs[i] = aa[j]
    BY <2>1, <1>1, <1>2, <1>3
  <2>3. \A k \in 1 .. j - 1 : aa[k] = acc[k]
    BY <1>1, <1>2, <1>3
  <2> QED  BY <2>1, <2>2, <2>3
<1>7. Repeats(ls, bb, Len(bb))
  <2> SUFFICES ASSUME NEW i \in 1 .. Len(ls)
               PROVE  \E j \in 1 .. Len(bb) :
                        ls[i] = bb[j] /\ \A k \in 1 .. j - 1 : \E h \in 1 .. i - 1 : ls[h] = bb[k]
    BY DEF Repeats
  <2>1. PICK j \in 1 .. Len(b) : ls[i] = b[j] /\ \A k \in 1 .. j - 1 : \E h \in 1 .. i - 1 : ls[h] = b[k]
    BY DEF Whole, Repeats
  <2>2. j \in 1 .. Len(bb) /\ ls[i] = bb[j]
    BY <2>1, <1>1, <1>2
  <2>3. \A k \in 1 .. j - 1 : bb[k] = b[k]
    BY <1>1, <1>2
  <2> QED  BY <2>1, <2>2, <2>3
<1>8. Whole(rs, ls, bb, aa)
  BY <1>1, <1>2, <1>4, <1>5, <1>6, <1>7 DEF Whole
<1> QED  BY <1>8 DEF bb, aa

\* A flush that succeeds leaves every accepted entry among the rows.
LEMMA StoringKeepsWhole ==
    ASSUME NEW rs, NEW ls, NEW b, NEW acc, Whole(rs, ls, b, acc)
    PROVE  Whole(rs \o ls \o b, <<>>, <<>>, acc)
<1> DEFINE all == rs \o ls \o b
           n == StoredOf(b, acc)
<1>1. rs \in Seq(Entry) /\ ls \in Seq(Entry) /\ b \in Seq(Entry) /\ acc \in Seq(Entry)
      /\ Len(b) <= Len(acc)
  BY DEF Whole
<1>2. all \in Seq(Entry) /\ Len(all) = Len(rs) + Len(ls) + Len(b)
      /\ Len(rs) \in Nat /\ Len(ls) \in Nat /\ Len(b) \in Nat /\ Len(acc) \in Nat
  BY <1>1
<1>3. /\ \A i \in 1 .. Len(rs) : all[i] = rs[i]
      /\ \A i \in 1 .. Len(ls) : all[Len(rs) + i] = ls[i]
      /\ \A i \in 1 .. Len(b) : all[Len(rs) + Len(ls) + i] = b[i]
  BY <1>1
<1>4. n \in 0 .. Len(acc) /\ Len(acc) = n + Len(b)
  BY <1>1, <1>2 DEF StoredOf
<1>5. /\ \A m \in 1 .. Len(b) : b[m] = acc[n + m]
      /\ \A j \in 1 .. n : \E i \in 1 .. Len(rs) : rs[i] = acc[j]
      /\ Repeats(rs, acc, n) /\ Repeats(ls, b, Len(b))
  BY DEF Whole
<1> HIDE DEF all, n
<1>6. \A j \in 1 .. Len(acc) : \E i \in 1 .. Len(all) : all[i] = acc[j]
  <2> SUFFICES ASSUME NEW j \in 1 .. Len(acc) PROVE \E i \in 1 .. Len(all) : all[i] = acc[j]
    OBVIOUS
  <2>1. CASE j \in 1 .. n
    <3>1. PICK i \in 1 .. Len(rs) : rs[i] = acc[j]
      BY <2>1, <1>5
    <3> QED  BY <3>1, <1>2, <1>3
  <2>2. CASE j \notin 1 .. n
    <3>1. j - n \in 1 .. Len(b) /\ n + (j - n) = j
      BY <2>2, <1>4, <1>2
    <3>2. b[j - n] = acc[j]
      BY <3>1, <1>5
    <3>3. Len(rs) + Len(ls) + (j - n) \in 1 .. Len(all)
      BY <3>1, <1>2
    <3> QED  BY <3>1, <3>2, <3>3, <1>3
  <2> QED  BY <2>1, <2>2
<1>7. Repeats(all, acc, Len(acc))
  <2> SUFFICES ASSUME NEW i \in 1 .. Len(all)
               PROVE  \E j \in 1 .. Len(acc) :
                        all[i] = acc[j] /\ \A k \in 1 .. j - 1 : \E h \in 1 .. i - 1 : all[h] = acc[k]
    BY DEF Repeats
  <2>1. CASE i <= Len(rs)
    <3>1. PICK j \in 1 .. n : rs[i] = acc[j] /\ \A k \in 1 .. j - 1 : \E h \in 1 .. i - 1 : rs[h] = acc[k]
      BY <2>1, <1>2, <1>5 DEF Repeats
    <3>2. j \in 1 .. Len(acc) /\ all[i] = acc[j]
      BY <3>1, <2>1, <1>2, <1>3, <1>4
    <3>3. ASSUME NEW k \in 1 .. j - 1 PROVE \E h \in 1 .. i - 1 : all[h] = acc[k]
      <4>1. PICK h \in 1 .. i - 1 : rs[h] = acc[k]
        BY <3>1, <3>3
      <4>2. all[h] = rs[h]
        BY <2>1, <1>2, <1>3
      <4> QED  BY <4>1, <4>2
    <3> QED  BY <3>2, <3>3
  <2>2. ASSUME Len(rs) < i, NEW k \in 1 .. n PROVE \E h \in 1 .. i - 1 : all[h] = acc[k]
    <3>1. PICK h \in 1 .. Len(rs) : rs[h] = acc[k]
      BY <1>5, <2>2
    <3>2. h \in 1 .. i - 1 /\ all[h] = rs[h]
      BY <1>2, <1>3, <2>2
    <3> QED  BY <3>1, <3>2
  <2>3. CASE Len(rs) < i /\ i <= Len(rs) + Len(ls)
    <3>1. i - Len(rs) \in 1 .. Len(ls) /\ Len(rs) + (i - Len(rs)) = i
      BY <2>3, <1>2
    <3>2. PICK m \in 1 .. Len(b) : ls[i - Len(rs)] = b[m]
            /\ \A k \in 1 .. m - 1 : \E h \in 1 .. (i - Len(rs)) - 1 : ls[h] = b[k]
      BY <3>1, <1>5 DEF Repeats
    <3>3. n + m \in 1 .. Len(acc) /\ all[i] = acc[n + m]
      <4>1. all[i] = ls[i - Len(rs)]
        BY <3>1, <1>3
      <4>2. b[m] = acc[n + m]
        BY <1>5
      <4> QED  BY <4>1, <4>2, <3>2, <1>2, <1>4
    <3>4. ASSUME NEW k \in 1 .. (n + m) - 1 PROVE \E h \in 1 .. i - 1 : all[h] = acc[k]
      <4>1. CASE k \in 1 .. n
        BY <4>1, <2>2, <2>3
      <4>2. CASE k \notin 1 .. n
        <5>1. k - n \in 1 .. m - 1 /\ n + (k - n) = k /\ k - n \in 1 .. Len(b)
          BY <4>2, <1>4, <1>2
        <5>2. PICK h \in 1 .. (i - Len(rs)) - 1 : ls[h] = b[k - n]
          BY <5>1, <3>2
        <5>3. Len(rs) + h \in 1 .. i - 1 /\ h \in 1 .. Len(ls)
          BY <1>2, <2>3
        <5>4. all[Len(rs) + h] = ls[h] /\ b[k - n] = acc[k]
          BY <5>1, <5>3, <1>3, <1>5
        <5> QED  BY <5>2, <5>3, <5>4
      <4> QED  BY <4>1, <4>2
    <3> DEFINE j == n + m
    <3>5. j \in 1 .. Len(acc) /\ all[i] = acc[j]
      BY <3>3
    <3>6. \A k \in 1 .. j - 1 : \E h \in 1 .. i - 1 : all[h] = acc[k]
      BY <3>4
    <3> HIDE DEF j
    <3> QED  BY <3>5, <3>6
  <2>4. CASE Len(rs) + Len(ls) < i
    <3> DEFINE m == i - Len(rs) - Len(ls)
    <3>1. m \in 1 .. Len(b) /\ Len(rs) + Len(ls) + m = i
      BY <2>4, <1>2
    <3>2. n + m \in 1 .. Len(acc) /\ all[i] = acc[n + m]
      <4>1. all[i] = b[m]
        BY <3>1, <1>3
      <4>2. b[m] = acc[n + m]
        BY <3>1, <1>5
      <4> QED  BY <4>1, <4>2, <3>1, <1>2, <1>4
    <3>3. ASSUME NEW k \in 1 .. (n + m) - 1 PROVE \E h \in 1 .. i - 1 : all[h] = acc[k]
      <4>1. CASE k \in 1 .. n
        <5>1. Len(rs) < i
          BY <2>4, <1>2
        <5> QED  BY <4>1, <5>1, <2>2
      <4>2. CASE k \notin 1 .. n
        <5>1. k - n \in 1 .. m - 1 /\ n + (k - n) = k /\ k - n \in 1 .. Len(b)
          BY <4>2, <3>1, <1>4, <1>2
        <5>2. Len(rs) + Len(ls) + (k - n) \in 1 .. i - 1
          BY <5>1, <3>1, <1>2
        <5>3. all[Len(rs) + Len(ls) + (k - n)] = acc[k]
          BY <5>1, <1>3, <1>5
        <5> QED  BY <5>2, <5>3
      <4> QED  BY <4>1, <4>2
    <3> DEFINE j == n + m
    <3>4. j \in 1 .. Len(acc) /\ all[i] = acc[j]
      BY <3>2
    <3>5. \A k \in 1 .. j - 1 : \E h \in 1 .. i - 1 : all[h] = acc[k]
      BY <3>3
    <3> HIDE DEF j
    <3> QED  BY <3>4, <3>5
  <2> QED  BY <2>1, <2>3, <2>4, <1>2
<1>8. StoredOf(<<>>, acc) = Len(acc) /\ <<>> \in Seq(Entry) /\ Len(<<>>) = 0
  BY <1>1, <1>2 DEF StoredOf
<1>9. Repeats(<<>>, <<>>, Len(<<>>))
  BY <1>8 DEF Repeats
<1>10. Whole(all, <<>>, <<>>, acc)
  BY <1>1, <1>2, <1>6, <1>7, <1>8, <1>9 DEF Whole
<1> QED  BY <1>10 DEF all
\* A refused flush leaves more rows in the open transaction, or none.
LEMMA RefusingKeepsWhole ==
    ASSUME NEW rs, NEW ls, NEW b, NEW acc, NEW n \in 0 .. Len(b), Whole(rs, ls, b, acc)
    PROVE  Whole(rs, ls \o SubSeq(b, 1, n), b, acc) /\ Whole(rs, <<>>, b, acc)
<1> DEFINE more == ls \o SubSeq(b, 1, n)
<1>1. ls \in Seq(Entry) /\ b \in Seq(Entry) /\ Len(ls) \in Nat /\ Len(b) \in Nat
  BY DEF Whole
<1>2. more \in Seq(Entry) /\ Len(more) = Len(ls) + n
      /\ (\A i \in 1 .. Len(ls) : more[i] = ls[i])
      /\ (\A i \in 1 .. n : more[Len(ls) + i] = b[i])
  BY <1>1
<1> HIDE DEF more
<1>3. Repeats(more, b, Len(b))
  <2> SUFFICES ASSUME NEW i \in 1 .. Len(more)
               PROVE  \E j \in 1 .. Len(b) :
                        more[i] = b[j] /\ \A k \in 1 .. j - 1 : \E h \in 1 .. i - 1 : more[h] = b[k]
    BY DEF Repeats
  <2>1. CASE i <= Len(ls)
    <3>1. PICK j \in 1 .. Len(b) : ls[i] = b[j] /\ \A k \in 1 .. j - 1 : \E h \in 1 .. i - 1 : ls[h] = b[k]
      BY <2>1, <1>1, <1>2 DEF Whole, Repeats
    <3>2. \A h \in 1 .. i : more[h] = ls[h]
      BY <2>1, <1>1, <1>2
    <3> QED  BY <2>1, <3>1, <3>2, <1>1, <1>2
  <2>2. CASE Len(ls) < i
    <3> DEFINE j == i - Len(ls)
    <3>1. j \in 1 .. n /\ j \in 1 .. Len(b) /\ Len(ls) + j = i
      BY <2>2, <1>1, <1>2
    <3>2. more[i] = b[j]
      BY <3>1, <1>2
    <3>3. ASSUME NEW k \in 1 .. j - 1 PROVE \E h \in 1 .. i - 1 : more[h] = b[k]
      <4>1. k \in 1 .. n /\ Len(ls) + k \in 1 .. i - 1
        BY <3>1, <1>1
      <4> QED  BY <4>1, <1>2
    <3>4. \A k \in 1 .. j - 1 : \E h \in 1 .. i - 1 : more[h] = b[k]
      BY <3>3
    <3> HIDE DEF j
    <3> QED  BY <3>1, <3>2, <3>4, Zenon
  <2> QED  BY <2>1, <2>2, <1>1, <1>2
<1>4. <<>> \in Seq(Entry) /\ Repeats(<<>>, b, Len(b))
  BY DEF Repeats
<1>5. Whole(rs, more, b, acc) /\ Whole(rs, <<>>, b, acc)
  BY <1>2, <1>3, <1>4 DEF Whole
<1> QED  BY <1>5 DEF more

-----------------------------------------------------------------------------
\* Whatever _flush_locked does with the buffer b, what is stored stays whole
\* and is never less than it was.
LEMMA FlushKeepsWhole ==
    ASSUME NEW b, NEW acc, NEW done \in BOOLEAN, Whole(rows, loose, b, acc), FlushLocked(b, done),
           b = <<>> => unsaved = <<>>
    PROVE  /\ Whole(rows', loose', unsaved', acc)
           /\ StoredOf(b, acc) <= StoredOf(unsaved', acc)
           /\ done => unsaved' = <<>>
<1>1. b \in Seq(Entry) /\ acc \in Seq(Entry) /\ Len(b) \in Nat /\ Len(acc) \in Nat
  BY DEF Whole
<1>2. CASE NothingToStore(b, done)
  BY <1>1, <1>2 DEF NothingToStore, StoredOf
<1>3. CASE Stores(b, done)
  BY <1>1, <1>3, StoringKeepsWhole DEF Stores, StoredOf
<1>4. CASE Refused(b, done)
  <2>1. rows' = rows /\ unsaved' = b /\ ~done
        /\ \/ \E n \in 0 .. Len(b) : loose' = loose \o SubSeq(b, 1, n)
           \/ loose' = <<>>
    BY <1>4 DEF Refused, Keeps
  <2>2. 0 \in 0 .. Len(b)
    BY <1>1
  <2>3. Whole(rows, loose', b, acc)
    BY <2>1, <2>2, RefusingKeepsWhole
  <2> QED  BY <2>1, <2>3, <1>1 DEF StoredOf
<1>5. CASE NoConnection(b, done)
  BY <1>1, <1>5 DEF NoConnection, Keeps, StoredOf
<1> QED  BY <1>2, <1>3, <1>4, <1>5 DEF FlushLocked

-----------------------------------------------------------------------------
LEMMA LogInvInit == LogInit => LogInv
<1> SUFFICES ASSUME LogInit PROVE LogInv
  OBVIOUS
<1>1. Types
  BY LogAssumption DEF LogInit, Types
<1>2. Whole(rows, loose, unsaved, accepted)
  BY DEF LogInit, Whole, StoredOf, Repeats
<1>3. Single /\ Sealed
  BY DEF LogInit, Single, Sealed
<1> QED  BY <1>1, <1>2, <1>3 DEF LogInv

LEMMA LogInvNext == LogInv /\ [LogNext]_logVars => LogInv'
<1> SUFFICES ASSUME LogInv, [LogNext]_logVars PROVE LogInv'
  OBVIOUS
<1> USE DEF LogInv
<1>1. accepted \in Seq(Entry) /\ unsaved \in Seq(Entry) /\ Len(accepted) \in Nat
      /\ entries \in Nat /\ MaxEntries \in Nat
  BY LogAssumption DEF Whole, Types
<1>0. \A i \in 1 .. Len(accepted) : accepted[i] \in Nat \ {0} /\ accepted[i] <= entries
  <2>1. \A i \in 1 .. Len(accepted) : accepted[i] \in Entry
    BY <1>1
  <2> QED  BY <2>1, <1>1 DEF Single, Entry
\* What only other variables change.
<1>U. ASSUME UNCHANGED <<rows, loose, unsaved, accepted, connected, sealed>>
      PROVE  Whole(rows, loose, unsaved, accepted)' /\ Sealed'
  <2>1. Whole(rows', loose', unsaved', accepted')
    BY <1>U
  <2>2. Sealed'
    BY <1>U DEF Sealed, StoredOf
  <2> QED  BY <2>1, <2>2
\* A thread enters log().
<1>2. ASSUME NEW l \in Loggers, Log(l) PROVE LogInv'
  <2>1. Types'
    BY <1>2, <1>1 DEF Log, Types
  <2>2. Single'
    <3>1. /\ accepted' = accepted /\ entries' = entries + 1
          /\ logging' \in [Loggers -> Nat] /\ logging'[l] \in {0, entries + 1}
          /\ \A m \in Loggers : m # l => logging'[m] = logging[m] /\ logging[m] <= entries
      BY <1>2, <1>1 DEF Log, Types
    <3>2. \A m \in Loggers, i \in 1 .. Len(accepted) : accepted[i] # logging'[m]
      BY <3>1, <1>0, <1>1 DEF Single
    <3>3. \A m, k \in Loggers : logging'[m] = logging'[k] => logging'[m] = 0 \/ m = k
      BY <3>1, <1>1 DEF Single, Types
    <3>4. \A i \in 1 .. Len(accepted) : accepted[i] <= entries'
      BY <3>1, <1>0, <1>1
    <3> QED  BY <3>1, <3>2, <3>3, <3>4 DEF Single
  <2>3. Whole(rows, loose, unsaved, accepted)' /\ Sealed'
    BY <1>U, <1>2 DEF Log
  <2> QED  BY <2>1, <2>2, <2>3
<1>3. ASSUME NEW l \in Loggers, Reread(l) PROVE LogInv'
  <2>1. Types'
    BY <1>3, <1>1 DEF Reread, Types
  <2>2. Single'
    <3>1. /\ accepted' = accepted /\ entries' = entries
          /\ \A m \in Loggers : logging'[m] \in {0, logging[m]}
      BY <1>3, <1>1 DEF Reread, Types
    <3>2. \A m \in Loggers, i \in 1 .. Len(accepted) : accepted[i] # logging'[m]
      BY <3>1, <1>0 DEF Single
    <3>3. \A m, k \in Loggers : logging'[m] = logging'[k] => logging'[m] = 0 \/ m = k
      BY <3>1 DEF Single
    <3> QED  BY <3>1, <3>2, <3>3 DEF Single
  <2>3. Whole(rows, loose, unsaved, accepted)' /\ Sealed'
    BY <1>U, <1>3 DEF Reread
  <2> QED  BY <2>1, <2>2, <2>3
\* The entry is the buffer's last and the last accepted.
<1>4. ASSUME NEW l \in Loggers, Insert(l) PROVE LogInv'
  <2> DEFINE e == logging[l]
             b == Append(unsaved, e)
             acc == Append(accepted, e)
  <2>1. e \in Entry /\ e \in 1 .. entries
    BY <1>4, <1>1 DEF Insert, Types, Entry
  <2>2. Whole(rows, loose, b, acc)
    BY <2>1, AppendKeepsWhole
  <2>3. accepted' = acc /\ Len(acc) = Len(accepted) + 1 /\ acc[Len(acc)] = e
        /\ (\A i \in 1 .. Len(accepted) : acc[i] = accepted[i])
        /\ StoredOf(b, acc) = StoredOf(unsaved, accepted) /\ b # <<>>
    <3>1. accepted' = acc
      BY <1>4 DEF Insert
    <3>2. Len(acc) = Len(accepted) + 1 /\ acc[Len(acc)] = e
      BY <1>1, <2>1
    <3>3. \A i \in 1 .. Len(accepted) : acc[i] = accepted[i]
      BY <1>1, <2>1
    <3>4. Len(b) = Len(unsaved) + 1 /\ Len(unsaved) \in Nat
      BY <1>1, <2>1
    <3>5. b # <<>>
      BY <1>1, <2>1
    <3> HIDE DEF acc, b
    <3>6. StoredOf(b, acc) = StoredOf(unsaved, accepted)
      BY <3>2, <3>4, <1>1 DEF StoredOf
    <3> QED  BY <3>1, <3>2, <3>3, <3>5, <3>6
  <2> HIDE DEF b, acc, e
  <2>4. Inserted(l, b)
    BY <1>4 DEF Insert, b, e
  <2>5. Whole(rows', loose', unsaved', acc) /\ StoredOf(b, acc) <= StoredOf(unsaved', acc)
    <3>1. CASE unsaved' = b /\ rows' = rows /\ loose' = loose
      BY <3>1, <2>2 DEF Whole, StoredOf
    <3>2. ASSUME NEW done \in BOOLEAN, FlushLocked(b, done)
          PROVE  Whole(rows', loose', unsaved', acc) /\ StoredOf(b, acc) <= StoredOf(unsaved', acc)
      BY <3>2, <2>2, <2>3, FlushKeepsWhole
    <3>3. \/ unsaved' = b /\ UNCHANGED <<loose, rows, faults>>
          \/ \E done \in BOOLEAN : FlushLocked(b, done)
      BY <1>4, <2>4 DEF Inserted, Insert
    <3> QED  BY <3>1, <3>2, <3>3
  <2>6. Types'
    <3>1. faults' \in 0 .. MaxFaults
      BY <2>4, LogAssumption DEF Inserted, FlushLocked, NothingToStore, Stores, Refused,
           NoConnection, Types
    <3> QED  BY <3>1, <1>4, <1>1, <2>3 DEF Insert, Types
  <2>7. Single'
    <3>1. logging' = [logging EXCEPT ![l] = 0] /\ entries' = entries
      BY <1>4 DEF Insert
    <3>2. \A i, j \in 1 .. Len(acc) : acc[i] = acc[j] => i = j
      BY <2>3, <1>1 DEF Single, e
    <3>3. \A i \in 1 .. Len(acc) : acc[i] <= entries /\ acc[i] # 0
      BY <2>1, <2>3, <1>0, <1>1
    <3>4. ASSUME NEW m \in Loggers, NEW i \in 1 .. Len(acc) PROVE acc[i] # logging'[m]
      <4>1. CASE m = l
        BY <4>1, <3>1, <3>3 DEF Types
      <4>2. CASE m # l
        <5>1. logging'[m] = logging[m]
          BY <4>2, <3>1 DEF Types
        <5>2. CASE i \in 1 .. Len(accepted)
          BY <5>1, <5>2, <2>3 DEF Single
        <5>3. CASE i = Len(acc)
          BY <5>1, <5>3, <4>2, <2>1, <2>3 DEF Single, e
        <5> QED  BY <5>2, <5>3, <2>3, <1>1
      <4> QED  BY <4>1, <4>2
    <3>5. \A m, k \in Loggers : logging'[m] = logging'[k] => logging'[m] = 0 \/ m = k
      BY <3>1 DEF Single, Types
    <3> QED  BY <3>1, <3>2, <3>3, <3>4, <3>5, <2>3 DEF Single
  <2>8. Sealed'
    <3>1. StoredOf(unsaved', acc) \in Int /\ sealed \in Nat /\ StoredOf(unsaved, accepted) \in Int
      BY <2>5, <1>1 DEF Whole, StoredOf, Types
    <3> QED  BY <3>1, <1>4, <2>3, <2>5 DEF Sealed, Insert
  <2> QED  BY <2>3, <2>5, <2>6, <2>7, <2>8
\* A flush of the buffer as it is.
<1>5. ASSUME NEW done \in BOOLEAN, FlushLocked(unsaved, done)
      PROVE  /\ Whole(rows', loose', unsaved', accepted)
             /\ StoredOf(unsaved, accepted) <= StoredOf(unsaved', accepted)
             /\ done => unsaved' = <<>>
             /\ faults' \in 0 .. MaxFaults
  <2>1. faults' \in 0 .. MaxFaults
    BY <1>5, LogAssumption DEF FlushLocked, NothingToStore, Stores, Refused, NoConnection, Types
  <2> QED  BY <1>5, <2>1, FlushKeepsWhole
<1>6. ASSUME UNCHANGED <<managed, logging, holds, entries, closes, accepted>>,
             NEW done \in BOOLEAN, FlushLocked(unsaved, done),
             connected' \in BOOLEAN, connected' => connected /\ closer' # "forgetting",
             closer' \in {"idle", "flushing", "closing", "forgetting"},
             \/ sealed' = sealed /\ connected' = connected
             \/ sealed' = Len(accepted) /\ done
      PROVE  LogInv'
  <2>1. Whole(rows', loose', unsaved', accepted) /\ faults' \in 0 .. MaxFaults
        /\ StoredOf(unsaved, accepted) <= StoredOf(unsaved', accepted)
        /\ (done => unsaved' = <<>>)
    BY <1>5, <1>6
  <2>2. Types'
    BY <1>6, <2>1, <1>1 DEF Types
  <2>3. Single'
    BY <1>6 DEF Single
  <2>4. Sealed'
    <3>1. StoredOf(unsaved', accepted) \in Int /\ sealed \in Nat
          /\ StoredOf(unsaved, accepted) \in Int
      BY <2>1, <1>1 DEF Whole, StoredOf, Types
    <3>2. CASE sealed' = sealed /\ connected' = connected
      BY <3>1, <3>2, <1>6, <2>1 DEF Sealed
    <3>3. CASE sealed' = Len(accepted) /\ done
      BY <3>3, <1>6, <2>1, <1>1 DEF Sealed, StoredOf
    <3> QED  BY <3>2, <3>3, <1>6
  <2> QED  BY <2>1, <2>2, <2>3, <2>4, <1>6
<1>7. CASE LogFlush
  BY <1>6, <1>7 DEF LogFlush, Types
<1>8. CASE FlushFirst
  BY <1>6, <1>8 DEF FlushFirst, Types
<1>9. CASE CloseDatabase
  BY <1>6, <1>9 DEF CloseDatabase, Types
<1>10. CASE Close
  <2>1. Types'
    BY <1>10, <1>1, LogAssumption DEF Close, Types
  <2>2. Single'
    BY <1>10 DEF Close, Single
  <2>3. Whole(rows, loose, unsaved, accepted)' /\ Sealed'
    BY <1>U, <1>10 DEF Close
  <2> QED  BY <2>1, <2>2, <2>3
<1>11. CASE Forget
  <2>1. Types'
    BY <1>11 DEF Forget, Types
  <2>2. Single'
    BY <1>11 DEF Forget, Single
  <2>3. Whole(rows, loose, unsaved, accepted)' /\ Sealed'
    BY <1>U, <1>11 DEF Forget
  <2> QED  BY <2>1, <2>2, <2>3
<1>12. CASE UNCHANGED logVars
  <2>1. Types' /\ Single'
    BY <1>12 DEF logVars, Types, Single
  <2>2. Whole(rows, loose, unsaved, accepted)' /\ Sealed'
    BY <1>U, <1>12 DEF logVars
  <2> QED  BY <2>1, <2>2
<1> QED
  BY <1>2, <1>3, <1>4, <1>7, <1>8, <1>9, <1>10, <1>11, <1>12 DEF LogNext

-----------------------------------------------------------------------------
\* The variables have their types; in particular the rows of an open
\* transaction are still in the buffer, so closing the connection drops nothing.
LEMMA InvType == LogInv => LogTypeOK
<1> SUFFICES ASSUME LogInv PROVE LogTypeOK
  OBVIOUS
<1>1. Range(loose) \subseteq Range(unsaved)
  <2> SUFFICES ASSUME NEW x \in Range(loose) PROVE x \in Range(unsaved)
    OBVIOUS
  <2>1. PICK i \in DOMAIN loose : x = loose[i]
    BY DEF Range
  <2>2. loose \in Seq(Entry) /\ unsaved \in Seq(Entry) /\ Repeats(loose, unsaved, Len(unsaved))
    BY DEF LogInv, Whole
  <2>3. PICK j \in 1 .. Len(unsaved) : loose[i] = unsaved[j]
    BY <2>2 DEF Repeats
  <2>4. j \in DOMAIN unsaved
    BY <2>2
  <2> QED  BY <2>1, <2>3, <2>4 DEF Range
<1> QED  BY <1>1 DEF LogInv, Types, Whole, LogTypeOK

\* A row tells which entry it is, and its predecessors were repeated before it.
LEMMA InvSkipped == LogInv => NothingSkipped
<1> SUFFICES ASSUME LogInv, NEW i \in DOMAIN rows, NEW j \in DOMAIN accepted, rows[i] = accepted[j]
             PROVE  \A k \in 1 .. j - 1 : \E h \in 1 .. i - 1 : rows[h] = accepted[k]
  BY DEF NothingSkipped
<1>1. rows \in Seq(Entry) /\ accepted \in Seq(Entry) /\ unsaved \in Seq(Entry)
      /\ i \in 1 .. Len(rows) /\ j \in 1 .. Len(accepted)
  BY DEF LogInv, Whole
<1>2. PICK p \in 1 .. StoredOf(unsaved, accepted) :
        rows[i] = accepted[p] /\ \A k \in 1 .. p - 1 : \E h \in 1 .. i - 1 : rows[h] = accepted[k]
  BY <1>1 DEF LogInv, Whole, Repeats
<1>3. p \in 1 .. Len(accepted)
  BY <1>1, <1>2 DEF LogInv, Whole, StoredOf
<1>4. p = j
  BY <1>1, <1>2, <1>3 DEF LogInv, Single
<1> QED  BY <1>2, <1>4

\* What was accepted before the connection was closed is not in the buffer.
LEMMA InvStored == LogInv => ClosedIsStored
<1> SUFFICES ASSUME LogInv, ~connected, NEW j \in 1 .. sealed PROVE accepted[j] \in Range(rows)
  BY DEF ClosedIsStored
<1>1. j \in 1 .. StoredOf(unsaved, accepted)
  BY DEF LogInv, Types, Whole, StoredOf, Sealed
<1>2. PICK i \in 1 .. Len(rows) : rows[i] = accepted[j]
  BY <1>1 DEF LogInv, Whole
<1>3. i \in DOMAIN rows
  BY DEF LogInv, Whole
<1> QED  BY <1>2, <1>3 DEF Range

\* The types of the log store's variables hold for any number of threads.
THEOREM LogTypeCorrect == LogSpec => []LogTypeOK
<1>1. LogSpec => []LogInv
  BY LogInvInit, LogInvNext, PTL DEF LogSpec
<1> QED  BY <1>1, InvType, PTL

\* However many threads log and however often the disk refuses a write, the
\* table never has an entry before one that was logged earlier.
THEOREM NothingSkippedAlways == LogSpec => []NothingSkipped
<1>1. LogSpec => []LogInv
  BY LogInvInit, LogInvNext, PTL DEF LogSpec
<1> QED  BY <1>1, InvSkipped, PTL

\* A closed database has every entry that came into its buffer before.
THEOREM ClosedIsStoredAlways == LogSpec => []ClosedIsStored
<1>1. LogSpec => []LogInv
  BY LogInvInit, LogInvNext, PTL DEF LogSpec
<1> QED  BY <1>1, InvStored, PTL

-----------------------------------------------------------------------------
(* MCThreads: whoever steps, the others rest; so what happens is what may  *)
(* happen in each of the components alone.                                 *)

\* A step of the whole is a step of every component, or leaves it as it is.
LEMMA StepsApart ==
    ASSUME [ThreadsNext]_threadsVars
    PROVE  /\ [TransferNext]_transferVars /\ [TestNext]_testVars /\ [BusNext]_busVars
           /\ [RateNext]_rateVars /\ [QueueNext]_queueVars /\ [JNext]_jVars
           /\ [ApiNext]_apiVars /\ [UdsNext]_udsVars /\ [AliveNext]_aliveVars
           /\ [LogNext]_logVars /\ [PgNext]_pgVars
           /\ UNCHANGED which
<1>1. CASE UNCHANGED threadsVars
  BY <1>1 DEF threadsVars
<1>2. CASE ThreadsNext
  BY <1>2 DEF ThreadsNext, Resting
<1> QED BY <1>1, <1>2

LEMMA ThreadsSteps ==
    ThreadsSpec =>
        /\ [][TransferNext]_transferVars /\ [][TestNext]_testVars /\ [][BusNext]_busVars
        /\ [][RateNext]_rateVars /\ [][QueueNext]_queueVars /\ [][JNext]_jVars
        /\ [][ApiNext]_apiVars /\ [][UdsNext]_udsVars /\ [][AliveNext]_aliveVars
        /\ [][LogNext]_logVars /\ [][PgNext]_pgVars
  BY StepsApart, PTL DEF ThreadsSpec

\* The run of the components one after the other implements each of them: what
\* is proved of a component holds in that run.
THEOREM ThreadsImplementComponents ==
    ThreadsSpec => /\ TestSpec /\ BusSpec /\ RateSpec /\ QueueSpec /\ JSpec
                   /\ ApiSpec /\ UdsSpec /\ AliveSpec /\ LogSpec /\ PgSpec
<1>1. ThreadsInit => /\ TestInit /\ BusInit /\ RateInit /\ QueueInit /\ JInit
                     /\ ApiInit /\ UdsInit /\ AliveInit /\ LogInit /\ PgInit
  BY DEF ThreadsInit
<1> QED BY <1>1, ThreadsSteps, PTL
        DEF ThreadsSpec, TestSpec, BusSpec, RateSpec, QueueSpec, JSpec, ApiSpec, UdsSpec, AliveSpec, LogSpec, PgSpec

\* Every component whose threads or callers interleave keeps its variables in
\* their types, for every value of the constants.
THEOREM ThreadsTypeCorrect == ThreadsSpec => []ThreadsTypeOK
<1>1. ThreadsSpec => [](which \in Component)
  <2>1. ThreadsInit => which \in Component
    BY DEF ThreadsInit
  <2>2. which \in Component /\ [ThreadsNext]_threadsVars => (which \in Component)'
    BY StepsApart
  <2> QED BY <2>1, <2>2, PTL DEF ThreadsSpec
<1>2. ThreadsSpec => []TransferTypeOK
  <2>1. ThreadsInit => TransferInit
    BY DEF ThreadsInit
  <2> QED BY <2>1, ThreadsSteps, TypedBegins, TypedStep, TypedTypes, PTL DEF ThreadsSpec
<1>3. which \in Component /\ TransferTypeOK /\ TestTypeOK /\ BusTypeOK /\ RateTypeOK /\ QueueTypeOK
      /\ JTypeOK /\ ApiTypeOK /\ UdsTypeOK /\ AliveTypeOK /\ LogTypeOK /\ PgTypeOK => ThreadsTypeOK
  BY DEF ThreadsTypeOK
<1> QED BY <1>1, <1>2, <1>3, ThreadsImplementComponents, TestTypeCorrect, BusTypeCorrect, RateTypeCorrect,
           QueueTypeCorrect, JTypeCorrect, ApiTypeCorrect, UdsTypeCorrect, AliveTypeCorrect, LogTypeCorrect,
           PgTypeCorrect, PTL
=============================================================================
