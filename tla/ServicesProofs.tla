--------------------------- MODULE ServicesProofs ---------------------------
(***************************************************************************)
(* Machine-checked facts about four services, each for every value of its  *)
(* constants: the connection manager (for any number of presses, failures  *)
(* and lost channels, with and without auto_reconnect), the flash runner   *)
(* (for every script and every file), the JavaScript ISO-TP (for all       *)
(* payloads, block sizes and dropped frames) and the session manager's     *)
(* watchdog (for all changes of session).                                  *)
(***************************************************************************)
EXTENDS MCServices, TransferProofs

-----------------------------------------------------------------------------
(* ConnectionManager: a stack is whole, or gone.                           *)

\* The timers that tick.
Live == {k \in Stack : at[k] = "asleep" /\ k \notin signalled}

\* A stack in use, and none at all.
Standing == opened = {driver} /\ timer = driver /\ Live = {driver} /\ driver \in Stack
Gone == opened = {} /\ driver = 0 /\ timer = 0 /\ Live = {}

\* The timer of a stack does not exist before the stack.
Counted ==
    /\ built \in Nat
    /\ signalled \subseteq 1 .. built
    /\ \A k \in Stack : k > built => at[k] = "unborn"

\* The health checks have nothing to do; the application only disconnects.
Workers ==
    /\ at \in [Thread -> Place]
    /\ job \in [Thread -> {"none", "connect", "disconnect", "reconnect"}]
    /\ \A k \in Stack : job[k] = "none" /\ at[k] \in {"unborn", "asleep", "dead"}
    /\ job[Closer] \in {"none", "disconnect"}
    /\ \A t \in User : at[t] \in {"idle", "dead"} <=> job[t] = "none"
    /\ at[Closer] \notin {"starting", "opening"}
    /\ at[Operator] \in {"starting", "opening"} => job[Operator] \in {"connect", "reconnect"}

\* What has to be connected is not connected.
Unconnected ==
    /\ job[Operator] = "connect" => at[Operator] \in {"starting", "opening"}
    /\ panel = "down" \/ at[Operator] = "starting" => state # "CONNECTED"

\* One operation at a time.
Locked ==
    /\ lock \in User \cup {Nobody}
    /\ \A t \in User : lock = t <=> at[t] \in {"joining", "tearing", "closing", "opening"}

\* How far the operation has come that holds the lock.
Progress ==
    /\ lock = Nobody => IF state = "CONNECTED" THEN Standing ELSE Gone
    /\ \A t \in User :
          /\ at[t] = "joining" => opened = {driver} /\ Live = {}
          /\ at[t] = "tearing" => timer = 0 /\ Live = {} /\ opened \subseteq {driver}
          /\ at[t] = "closing" => timer = 0 /\ Live = {} /\ opened = {}
          /\ at[t] = "opening" =>
                /\ timer = 0 /\ Live = {} /\ opened = {} /\ state # "CONNECTED"
                /\ driver = built /\ driver \in Stack /\ driver \notin signalled

Lossless == Counted /\ Workers /\ Unconnected /\ Locked /\ Progress

Inv == losses \in Nat /\ (losses = 0 => Lossless)

\* Users, timers and nobody are told apart.
LEMMA Apart ==
    /\ Operator \in User /\ Closer \in User /\ Operator # Closer
    /\ Nobody \notin Thread /\ 0 \notin Thread
    /\ \A t \in User : t \in Thread /\ t \notin Stack /\ (t = Operator \/ t = Closer)
    /\ \A k \in Stack : k \in Thread /\ k # Operator /\ k # Closer /\ k # 0
    /\ \A t \in Thread : t \in User \/ t \in Stack
  BY ManagerAssumption DEF User, Stack, Thread

\* The manager starts with nothing.
LEMMA InitInv == Init => Inv
<1> SUFFICES ASSUME Init PROVE Inv
  OBVIOUS
<1>1. \A t \in User : at[t] = "idle" /\ job[t] = "none"
  BY Apart DEF Init
<1>2. \A k \in Stack : at[k] = "unborn" /\ job[k] = "none"
  BY Apart DEF Init
<1>3. Workers
  BY <1>1, <1>2, Apart DEF Init, Workers, Place
<1>4. Counted
  BY <1>2 DEF Init, Counted
<1>5. Live = {}
  BY <1>2 DEF Live
<1> QED BY <1>1, <1>3, <1>4, <1>5, Apart DEF Init, Inv, Lossless, Unconnected, Locked, Progress, Gone

\* An operation takes a step of its own: the timers do not move.
LEMMA TimersRest ==
    ASSUME Lossless, NEW t \in User, NEW p \in Place, at' = [at EXCEPT ![t] = p]
    PROVE  /\ at' \in [Thread -> Place] /\ at'[t] = p
           /\ \A u \in User : u # t => at'[u] = at[u]
           /\ \A k \in Stack : at'[k] = at[k]
           /\ signalled' = signalled => Live' = Live
           /\ Live = {} /\ signalled \subseteq signalled' => Live' = {}
  BY Apart DEF Lossless, Workers, Live

\* No channel is lost, so no health check finds one missing.
LEMMA NoneMissing ==
    ASSUME Lossless, NEW k \in Stack
    PROVE  ~Check(k)
<1> SUFFICES ASSUME Check(k) PROVE FALSE
  OBVIOUS
<1>1. k \in Live /\ driver # 0 /\ driver \notin opened
  BY DEF Check, FindsLost, Live
<1>2. CASE lock = Nobody
  BY <1>1, <1>2 DEF Lossless, Progress, Standing, Gone
<1>3. CASE lock # Nobody
  <2>1. PICK t \in User : at[t] \in {"joining", "tearing", "closing", "opening"}
    BY <1>3 DEF Lossless, Locked
  <2> QED BY <1>1, <2>1 DEF Lossless, Progress
<1> QED BY <1>2, <1>3

\* Only users have operations under way.
LEMMA UsersWork ==
    ASSUME Lossless, NEW t \in Thread,
           at[t] \in {"starting", "opening", "stopping", "joining", "tearing", "closing"}
    PROVE  t \in User /\ at[t] \in Place /\ job[t] # "none"
  BY Apart DEF Lossless, Workers

\* A button is pressed, or the application shuts down.
LEMMA BeginStep ==
    ASSUME Lossless,
           PressConnect \/ PressDisconnect \/ PressReconnect \/ Shutdown
    PROVE  Lossless'
<1> DEFINE t == IF Shutdown THEN Closer ELSE Operator
<1>1. PICK u \in User, op \in {"connect", "disconnect", "reconnect"} :
        /\ Begin(u, op) /\ at[u] = "idle" /\ (u = Closer => op = "disconnect")
        /\ \/ u = Operator /\ presses < MaxPresses /\ presses' = presses + 1 /\ panel' = "busy"
              /\ (op = "connect" => panel = "down")
           \/ u = Closer /\ UNCHANGED <<presses, panel>>
              /\ job[Operator] \notin {"disconnect", "reconnect"}
  BY Apart DEF PressConnect, PressDisconnect, PressReconnect, Press, Shutdown, bounds
<1> DEFINE place == IF op = "connect" THEN "starting" ELSE "stopping"
<1>2. /\ at' = [at EXCEPT ![u] = place] /\ job' = [job EXCEPT ![u] = op]
      /\ UNCHANGED <<state, driver, timer, lock, opened, signalled, built>>
  BY <1>1 DEF Begin
<1>3. place \in Place /\ (place = "starting" \/ place = "stopping")
  BY DEF Place
<1> HIDE DEF place
<1>4. /\ at' \in [Thread -> Place] /\ at'[u] = place
      /\ \A w \in User : w # u => at'[w] = at[w]
      /\ \A k \in Stack : at'[k] = at[k]
      /\ Live' = Live
  BY <1>2, <1>3, TimersRest
<1>5. /\ job' \in [Thread -> {"none", "connect", "disconnect", "reconnect"}]
      /\ job'[u] = op
      /\ \A w \in User : w # u => job'[w] = job[w]
      /\ \A k \in Stack : job'[k] = job[k]
  BY <1>1, <1>2, Apart DEF Lossless, Workers
<1>6. Workers'
  BY <1>1, <1>3, <1>4, <1>5, Apart DEF Lossless, Workers, place
<1>7. Counted'
  BY <1>2, <1>4 DEF Lossless, Counted
<1>8. Unconnected'
  BY <1>1, <1>2, <1>3, <1>4, <1>5, Apart DEF Lossless, Unconnected, Workers, place
<1>9. Locked'
  BY <1>1, <1>2, <1>3, <1>4, Apart DEF Lossless, Locked
<1>10. Progress'
  BY <1>1, <1>2, <1>3, <1>4, Apart DEF Lossless, Progress, Standing, Gone
<1> QED BY <1>6, <1>7, <1>8, <1>9, <1>10 DEF Lossless

\* connect() builds a stack: the one before it is gone.
LEMMA BuildStep ==
    ASSUME Lossless, NEW t \in Thread, Build(t)
    PROVE  Lossless'
<1>1. /\ t = Operator /\ t \in User /\ job[t] \in {"connect", "reconnect"} /\ at[t] = "starting"
      /\ lock = Nobody
  BY UsersWork, Apart DEF Build, Free, Lossless, Workers
<1>2. /\ at' = [at EXCEPT ![t] = "opening"] /\ lock' = t /\ state' = "CONNECTING"
      /\ built' = built + 1 /\ driver' = built + 1
      /\ UNCHANGED <<timer, opened, signalled, job, panel, presses>>
  BY DEF Build, bounds
<1>3. "opening" \in Place
  BY DEF Place
<1>4. /\ at' \in [Thread -> Place] /\ at'[t] = "opening"
      /\ \A w \in User : w # t => at'[w] = at[w]
      /\ \A k \in Stack : at'[k] = at[k]
      /\ Live' = Live
  BY <1>1, <1>2, <1>3, TimersRest
<1>5. built \in Nat /\ built < MaxStacks
  BY DEF Build, Lossless, Counted
<1>6. built + 1 \in Stack /\ built + 1 \notin signalled
  BY <1>5, ManagerAssumption DEF Lossless, Counted, Stack
<1>7. Counted'
  BY <1>2, <1>4, <1>5 DEF Lossless, Counted, Stack
<1>8. Workers'
  BY <1>1, <1>2, <1>4, Apart DEF Lossless, Workers
<1>9. Unconnected'
  BY <1>1, <1>2, <1>4, Apart DEF Lossless, Unconnected
<1>10. Locked'
  BY <1>1, <1>2, <1>4, Apart DEF Lossless, Locked
<1>11. Progress'
  <2>1. Gone
    BY <1>1 DEF Lossless, Progress, Unconnected
  <2> QED BY <1>1, <1>2, <1>4, <1>6, <2>1, Apart DEF Lossless, Progress, Locked, Gone
<1> QED BY <1>7, <1>8, <1>9, <1>10, <1>11 DEF Lossless

\* The layers are up: the stack is whole.
LEMMA OpenStep ==
    ASSUME Lossless, NEW t \in Thread, Open(t)
    PROVE  Lossless'
<1>1. t = Operator /\ t \in User /\ at[t] = "opening" /\ job[t] # "none"
  BY UsersWork, Apart DEF Open, Lossless, Workers
<1>2. /\ timer = 0 /\ Live = {} /\ opened = {} /\ driver = built /\ driver \in Stack
      /\ driver \notin signalled
  BY <1>1 DEF Lossless, Progress
<1>3. /\ opened' = opened \cup {driver} /\ state' = "CONNECTED" /\ timer' = driver /\ lock' = Nobody
      /\ job' = [job EXCEPT ![t] = "none"]
      /\ at' = [at EXCEPT ![t] = "idle", ![driver] = "asleep"]
      /\ panel' = "up" /\ UNCHANGED <<driver, signalled, built, presses>>
  BY <1>1 DEF Open, TimerStarted, bounds
<1>4. /\ at' \in [Thread -> Place] /\ at'[t] = "idle" /\ at'[driver] = "asleep"
      /\ \A u \in Thread : u # t /\ u # driver => at'[u] = at[u]
  BY <1>1, <1>2, <1>3, Apart DEF Lossless, Workers, Place
<1>5. /\ job' \in [Thread -> {"none", "connect", "disconnect", "reconnect"}]
      /\ job'[t] = "none" /\ \A u \in Thread : u # t => job'[u] = job[u]
  BY <1>1, <1>3, Apart DEF Lossless, Workers
<1>6. Live' = {driver}
  BY <1>1, <1>2, <1>3, <1>4, Apart DEF Live
<1>7. Workers'
  BY <1>1, <1>2, <1>3, <1>4, <1>5, Apart DEF Lossless, Workers
<1>8. Counted'
  <2>1. \A k \in Stack : k > built' => at'[k] = "unborn"
    <3> SUFFICES ASSUME NEW k \in Stack, k > built PROVE at'[k] = "unborn"
      BY <1>3
    <3>1. k # driver /\ k # t /\ k \in Thread /\ at[k] = "unborn"
      BY <1>1, <1>2, Apart DEF Lossless, Counted, Stack
    <3> QED BY <1>4, <3>1
  <2> QED BY <1>3, <2>1 DEF Lossless, Counted
<1>9. Unconnected' /\ Locked'
  BY <1>1, <1>2, <1>3, <1>4, <1>5, Apart DEF Lossless, Unconnected, Locked
<1>10. Progress'
  <2>1. Standing'
    BY <1>2, <1>3, <1>6 DEF Standing
  <2>2. \A u \in User : at'[u] \notin {"joining", "tearing", "closing", "opening"}
    BY <1>3, <1>9, Apart DEF Locked
  <2> QED BY <1>3, <2>1, <2>2 DEF Progress
<1> QED BY <1>7, <1>8, <1>9, <1>10 DEF Lossless

\* A user's operation is over: job and place are those of an idle thread.
LEMMA FinishFacts ==
    ASSUME Lossless, NEW t \in User, NEW up \in BOOLEAN, Finish(t, up)
    PROVE  /\ at' = [at EXCEPT ![t] = IF t = Operator THEN "idle" ELSE "dead"]
           /\ job' \in [Thread -> {"none", "connect", "disconnect", "reconnect"}]
           /\ job'[t] = "none" /\ \A u \in Thread : u # t => job'[u] = job[u]
           /\ (IF t = Operator THEN "idle" ELSE "dead") \in Place
           /\ t # Operator => panel' = panel
  BY Apart DEF Finish, Lossless, Workers, Place

\* An operation that ends leaves the threads in order.
LEMMA FinishStep ==
    ASSUME Lossless, NEW t \in User, NEW up \in BOOLEAN, Finish(t, up), job[t] # "none",
           lock' = Nobody, lock = Nobody \/ lock = t, lock = t \/ at[t] \notin {"joining", "tearing", "closing", "opening"},
           UNCHANGED <<signalled, built>>
    PROVE  Workers' /\ Counted' /\ Locked' /\ Live' = Live
           /\ \A u \in User : at'[u] \notin {"joining", "tearing", "closing", "opening"}
<1>1. /\ at' \in [Thread -> Place] /\ at'[t] = IF t = Operator THEN "idle" ELSE "dead"
      /\ \A u \in User : u # t => at'[u] = at[u]
      /\ \A k \in Stack : at'[k] = at[k]
      /\ Live' = Live
  BY FinishFacts, TimersRest
<1>2. /\ job' \in [Thread -> {"none", "connect", "disconnect", "reconnect"}]
      /\ job'[t] = "none" /\ \A u \in Thread : u # t => job'[u] = job[u]
  BY FinishFacts
<1>3. Workers'
  BY <1>1, <1>2, Apart DEF Lossless, Workers
<1>4. Counted'
  BY <1>1 DEF Lossless, Counted
<1>5. \A u \in User : at'[u] \notin {"joining", "tearing", "closing", "opening"}
  BY <1>1, Apart DEF Lossless, Locked
<1>6. Locked'
  BY <1>5, Apart DEF Locked
<1> QED BY <1>1, <1>3, <1>4, <1>5, <1>6

\* A layer raises: nothing is left.
LEMMA FailStep ==
    ASSUME Lossless, NEW t \in Thread, FailToOpen(t)
    PROVE  Lossless'
<1>1. t = Operator /\ t \in User /\ at[t] = "opening" /\ job[t] # "none"
  BY UsersWork, Apart DEF FailToOpen, Lossless, Workers
<1>2. timer = 0 /\ Live = {} /\ opened = {} /\ lock = t
  BY <1>1 DEF Lossless, Progress, Locked
<1>3. /\ opened' = opened \ {driver} /\ state' = "ERROR" /\ driver' = 0 /\ lock' = Nobody
      /\ Finish(t, FALSE) /\ UNCHANGED <<timer, signalled, built, presses>>
  BY DEF FailToOpen
<1>4. /\ Workers' /\ Counted' /\ Locked' /\ Live' = Live
      /\ \A u \in User : at'[u] \notin {"joining", "tearing", "closing", "opening"}
  BY <1>1, <1>2, <1>3, FinishStep
<1>5. Unconnected'
  BY <1>1, <1>3, FinishFacts DEF Unconnected
<1>6. Progress'
  BY <1>2, <1>3, <1>4 DEF Progress, Gone
<1> QED BY <1>4, <1>5, <1>6 DEF Lossless

\* An operation with the lock, or one that takes it, goes on to its next place.
LEMMA OnwardStep ==
    ASSUME Lossless, NEW t \in User, job[t] # "none",
           NEW p \in {"joining", "tearing", "closing"}, at' = [at EXCEPT ![t] = p],
           at[t] \in {"stopping", "joining", "tearing"},
           lock = t \/ lock = Nobody, lock' = t,
           signalled \subseteq signalled', signalled' \subseteq 1 .. built,
           UNCHANGED <<state, built, presses, job, panel>>
    PROVE  /\ Workers' /\ Counted' /\ Unconnected' /\ Locked'
           /\ signalled' = signalled => Live' = Live
           /\ Live = {} => Live' = {}
           /\ \A u \in User : u # t => at'[u] \notin {"joining", "tearing", "closing", "opening"}
           /\ at'[t] = p
<1>0. p \in Place
  BY DEF Place
<1>1. /\ at' \in [Thread -> Place] /\ at'[t] = p
      /\ \A u \in User : u # t => at'[u] = at[u]
      /\ \A k \in Stack : at'[k] = at[k]
      /\ signalled' = signalled => Live' = Live
      /\ Live = {} => Live' = {}
  BY <1>0, TimersRest
<1>2. Workers'
  BY <1>1, Apart DEF Lossless, Workers
<1>3. Counted'
  BY <1>1 DEF Lossless, Counted
<1>4. Unconnected'
  BY <1>1, Apart DEF Lossless, Unconnected, Workers
<1>5. \A u \in User : u # t => at'[u] \notin {"joining", "tearing", "closing", "opening"}
  BY <1>1, Apart DEF Lossless, Locked
<1>6. Locked'
  BY <1>1, <1>5, Apart DEF Locked
<1> QED BY <1>1, <1>2, <1>3, <1>4, <1>5, <1>6

\* disconnect() stops the timer: it is told to, and nothing ticks any more.
LEMMA StopStep ==
    ASSUME Lossless, NEW t \in Thread, StopTimer(t)
    PROVE  Lossless'
<1>1. t \in User /\ at[t] = "stopping" /\ job[t] # "none" /\ lock = Nobody
  BY UsersWork DEF StopTimer, Free
<1>2. /\ at' = [at EXCEPT ![t] = AfterStop] /\ lock' = t
      /\ signalled' = signalled \cup ({timer} \ {0})
      /\ UNCHANGED <<state, driver, timer, opened, job, panel, built, presses>>
  BY DEF StopTimer, bounds
<1>3. IF state = "CONNECTED" THEN Standing ELSE Gone
  BY <1>1 DEF Lossless, Progress
<1>4. signalled' \subseteq 1 .. built
  <2>1. state = "CONNECTED" => timer \in 1 .. built
    <3> SUFFICES ASSUME state = "CONNECTED" PROVE timer \in 1 .. built
      OBVIOUS
    <3>1. timer \in Stack /\ at[timer] = "asleep"
      BY <1>3 DEF Standing, Live
    <3>2. ~(timer > built) /\ built \in Nat
      BY <3>1 DEF Lossless, Counted
    <3> QED BY <3>1, <3>2, ManagerAssumption DEF Stack
  <2> QED BY <1>2, <1>3, <2>1 DEF Gone, Lossless, Counted
<1>5. AfterStop \in {"joining", "tearing"}
  BY DEF AfterStop
<1>6. /\ Workers' /\ Counted' /\ Unconnected' /\ Locked' /\ at'[t] = AfterStop
      /\ Live = {} => Live' = {}
      /\ \A u \in User : u # t => at'[u] \notin {"joining", "tearing", "closing", "opening"}
  <2> DEFINE p == AfterStop
  <2>1. p \in {"joining", "tearing", "closing"} /\ at' = [at EXCEPT ![t] = p]
    BY <1>2, <1>5
  <2> HIDE DEF p
  <2> QED BY <1>1, <1>2, <1>4, <2>1, OnwardStep DEF p
<1>7. Progress'
  <2>1. CASE state = "CONNECTED"
    <3>1. timer # 0 /\ opened = {driver} /\ timer = driver /\ Live = {timer}
      BY <1>3, <2>1, Apart DEF Standing
    <3>2. Live' = {}
      <4>1. AfterStop \in Place
        BY <1>5 DEF Place
      <4>2. \A k \in Stack : at'[k] = at[k]
        BY <1>1, <1>2, <4>1, TimersRest
      <4> QED BY <1>2, <3>1, <4>2 DEF Live
    <3>3. at'[t] = "joining"
      BY <1>6, <3>1 DEF AfterStop
    <3> QED BY <1>1, <1>2, <1>6, <3>1, <3>2, <3>3, Apart DEF Progress
  <2>2. CASE state # "CONNECTED"
    <3>1. at'[t] = "tearing" /\ Live' = {} /\ timer = 0 /\ opened = {}
      BY <1>3, <1>6, <2>2 DEF Gone, AfterStop
    <3> QED BY <1>1, <1>2, <1>6, <3>1, Apart DEF Progress
  <2> QED BY <2>1, <2>2
<1> QED BY <1>6, <1>7 DEF Lossless

\* The thread of the timer is joined, and the driver closed.
LEMMA CloseStep ==
    ASSUME Lossless, NEW t \in Thread, Join(t) \/ TearDown(t)
    PROVE  Lossless'
<1>1. t \in User /\ at[t] \in {"joining", "tearing"} /\ job[t] # "none" /\ lock = t
  BY UsersWork DEF Join, TearDown, Lossless, Locked
<1>2. PICK p \in {"tearing", "closing"} :
         /\ at' = [at EXCEPT ![t] = p] /\ UNCHANGED <<state, driver, lock, signalled, job, panel, built, presses>>
         /\ p = "tearing" => at[t] = "joining" /\ timer' = 0 /\ opened' = opened
         /\ p = "closing" => at[t] = "tearing" /\ timer' = timer /\ opened' = opened \ {driver}
  BY DEF Join, TearDown, TornDown, bounds
<1>3. signalled' \subseteq 1 .. built
  BY <1>2 DEF Lossless, Counted
<1>4. /\ Workers' /\ Counted' /\ Unconnected' /\ Locked' /\ at'[t] = p
      /\ Live = {} => Live' = {}
      /\ \A u \in User : u # t => at'[u] \notin {"joining", "tearing", "closing", "opening"}
  BY <1>1, <1>2, <1>3, OnwardStep
<1>5. Progress'
  BY <1>1, <1>2, <1>4, Apart DEF Lossless, Progress
<1> QED BY <1>4, <1>5 DEF Lossless

\* Nobody joins itself: only users have operations.
LEMMA NoSelfJoin ==
    ASSUME Lossless, NEW t \in Thread
    PROVE  ~JoinSelf(t)
<1> SUFFICES ASSUME JoinSelf(t) PROVE FALSE
  OBVIOUS
<1>1. t \in User /\ lock = Nobody /\ timer = t
  BY UsersWork DEF JoinSelf, Free
<1> QED BY <1>1, Apart DEF Lossless, Progress, Standing, Gone

\* The stack is forgotten: nothing is left, and reconnect() goes on.
LEMMA ForgetStep ==
    ASSUME Lossless, NEW t \in Thread, Forget(t)
    PROVE  Lossless'
<1>1. t \in User /\ at[t] = "closing" /\ job[t] # "none" /\ lock = t
  BY UsersWork DEF Forget, Lossless, Locked
<1>2. timer = 0 /\ Live = {} /\ opened = {}
  BY <1>1 DEF Lossless, Progress
<1>3. /\ driver' = 0 /\ state' = "DISCONNECTED" /\ lock' = Nobody
      /\ UNCHANGED <<timer, opened, signalled, built, presses>>
  BY DEF Forget, bounds
<1>4. CASE job[t] = "disconnect" /\ Finish(t, FALSE)
  <2>1. /\ Workers' /\ Counted' /\ Locked' /\ Live' = Live
        /\ \A u \in User : at'[u] \notin {"joining", "tearing", "closing", "opening"}
    BY <1>1, <1>3, <1>4, FinishStep
  <2>2. Unconnected'
    <3>1. at' \in [Thread -> Place] /\ \A u \in User : u # t => at'[u] = at[u]
      BY <1>1, <1>4, FinishFacts, TimersRest
    <3> QED BY <1>1, <1>3, <1>4, <3>1, FinishFacts, Apart DEF Lossless, Unconnected
  <2> QED BY <1>2, <1>3, <2>1, <2>2 DEF Lossless, Progress, Gone
<1>5. CASE job[t] = "reconnect" /\ at' = [at EXCEPT ![t] = "starting"] /\ UNCHANGED <<job, panel>>
  <2>1. "starting" \in Place
    BY DEF Place
  <2>2. /\ at' \in [Thread -> Place] /\ at'[t] = "starting"
        /\ \A u \in User : u # t => at'[u] = at[u]
        /\ \A k \in Stack : at'[k] = at[k]
        /\ Live' = Live
    BY <1>1, <1>3, <1>5, <2>1, TimersRest
  <2>3. t = Operator
    BY <1>1, <1>5, Apart DEF Lossless, Workers
  <2>4. Workers'
    BY <1>1, <1>5, <2>2, <2>3, Apart DEF Lossless, Workers
  <2>5. Counted'
    BY <1>3, <2>2 DEF Lossless, Counted
  <2>6. Unconnected'
    BY <1>3, <1>5, <2>2, <2>3 DEF Lossless, Unconnected
  <2>7. \A u \in User : at'[u] \notin {"joining", "tearing", "closing", "opening"}
    BY <1>1, <2>2, Apart DEF Lossless, Locked
  <2>8. Locked'
    BY <1>3, <2>7, Apart DEF Locked
  <2> QED BY <1>2, <1>3, <2>2, <2>4, <2>5, <2>6, <2>7, <2>8 DEF Lossless, Progress, Gone
<1> QED BY <1>4, <1>5 DEF Forget

\* A thread whose timer was stopped ends; nothing looks at it any more.
LEMMA EndStep ==
    ASSUME Lossless, NEW k \in Stack, EndThread(k)
    PROVE  Lossless'
<1>1. /\ at[k] = "asleep" /\ k \in signalled /\ at' = [at EXCEPT ![k] = "dead"]
      /\ UNCHANGED <<state, driver, timer, lock, opened, signalled, job, panel, built, presses>>
  BY DEF EndThread, bounds
<1>2. /\ at' \in [Thread -> Place] /\ at'[k] = "dead"
      /\ \A u \in User : at'[u] = at[u]
      /\ \A m \in Stack : m # k => at'[m] = at[m]
  BY <1>1, Apart DEF Lossless, Workers, Place
<1>3. Live' = Live
  BY <1>1, <1>2 DEF Live
<1>4. Workers'
  BY <1>1, <1>2, Apart DEF Lossless, Workers
<1>5. Counted'
  <2>1. \A m \in Stack : m > built => m # k
    BY <1>1 DEF Lossless, Counted
  <2> QED BY <1>1, <1>2, <2>1 DEF Lossless, Counted
<1>6. Unconnected' /\ Locked'
  BY <1>1, <1>2, Apart DEF Lossless, Unconnected, Locked
<1>7. Progress'
  BY <1>1, <1>2, <1>3 DEF Lossless, Progress, Standing, Gone
<1> QED BY <1>4, <1>5, <1>6, <1>7 DEF Lossless

\* Every step keeps a manager that lost no channel in order.
LEMMA InvStep == Inv /\ [Next]_vars => Inv'
<1> SUFFICES ASSUME Inv, [Next]_vars PROVE Inv'
  OBVIOUS
<1>1. CASE UNCHANGED vars
  BY <1>1 DEF vars, bounds, Inv, Lossless, Counted, Workers, Unconnected, Locked, Progress,
              Standing, Gone, Live
<1>2. CASE LoseChannel
  <2>1. losses \in Nat /\ losses' = losses + 1
    BY <1>2 DEF Inv, LoseChannel
  <2>2. losses' \in Nat /\ losses' # 0
    BY <2>1
  <2> QED BY <2>2 DEF Inv
<1>3. ASSUME UNCHANGED losses, Lossless => Lossless' PROVE Inv'
  BY <1>3 DEF Inv
<1>4. CASE PressConnect \/ PressDisconnect \/ PressReconnect \/ Shutdown
  <2>1. UNCHANGED losses
    BY <1>4 DEF PressConnect, PressDisconnect, PressReconnect, Shutdown, Press, bounds
  <2> QED BY <1>3, <1>4, <2>1, BeginStep
<1>5. ASSUME NEW t \in Thread, Operate(t) \/ FailToOpen(t) PROVE Inv'
  <2>1. UNCHANGED losses
    BY <1>5 DEF Operate, Build, Open, StopTimer, JoinSelf, Join, TearDown, Forget, FailToOpen, bounds
  <2>2. Lossless => Lossless'
    BY <1>5, BuildStep, OpenStep, FailStep, StopStep, CloseStep, NoSelfJoin, ForgetStep DEF Operate
  <2> QED BY <1>3, <2>1, <2>2
<1>6. ASSUME NEW k \in Stack, Check(k) \/ EndThread(k) PROVE Inv'
  <2>1. UNCHANGED losses
    BY <1>6 DEF Check, EndThread, bounds
  <2>2. Lossless => Lossless'
    BY <1>6, NoneMissing, EndStep
  <2> QED BY <1>3, <2>1, <2>2
<1> QED BY <1>1, <1>2, <1>4, <1>5, <1>6 DEF Next

\* With no channel lost, whenever the lock is free the stack is whole or gone
\* (connect, disconnect, reconnect, _teardown, _start_health_checks), however
\* presses, failures and the shutdown of the application follow each other.
THEOREM WholeOrGoneAlways == Spec => []WholeOrGone
<1>1. Inv => WholeOrGone
  <2> SUFFICES ASSUME Inv, lock = Nobody, losses = 0
               PROVE  IF state = "CONNECTED" THEN Standing ELSE Gone
    BY DEF WholeOrGone, Standing, Gone, Live
  <2> QED BY DEF Inv, Lossless, Progress
<1> QED BY <1>1, InitInv, InvStep, PTL DEF Spec

-----------------------------------------------------------------------------
(* Flash: what a finished run has done.                                    *)

Mark == {"PASSED", "FAILED", "SKIPPED"}
Runner == [pc : Phase, i : Nat, staged : BOOLEAN, size : BOOLEAN, blk : Nat, cancelled : BOOLEAN,
           got : BOOLEAN, status : Seq(Mark), aborted : BOOLEAN]

\* What an enabled step leaves behind when it passed.
Leaves(j) ==
    /\ script[j].kind = "upload" => runner.staged
    /\ script[j].kind = "request" => runner.size
    /\ script[j].kind = "transfer" => flashed

\* The first n steps have passed, or are left out.
Done(n) ==
    /\ Len(runner.status) = n
    /\ \A j \in 1 .. n : /\ runner.status[j] = IF script[j].on THEN "PASSED" ELSE "SKIPPED"
                         /\ script[j].on => Leaves(j)

Busy == {"doing", "key", "again", "blocks"}

\* A run that is not over has done what comes before the step it is at.
Underway ==
    runner.pc \notin {"idle", "told"} =>
        /\ runner.i \in 1 .. Len(script) + 1 /\ Done(runner.i - 1) /\ ~runner.aborted
        /\ runner.pc \in Busy => runner.i <= Len(script) /\ script[runner.i].on
        /\ runner.pc = "key" => script[runner.i].kind = "unlock"
        /\ runner.pc = "again" => script[runner.i].kind = "hardware"
        /\ runner.pc = "blocks" => script[runner.i].kind = "transfer" /\ stored = runner.blk

\* A run that is over and counts as completed has done everything.
Ended == runner.pc = "told" \/ page = "finished" => (Completed => Done(Len(script)))

FlashInv ==
    /\ script \in Seq([kind : Kind, on : BOOLEAN]) /\ runner \in Runner
    /\ stored \in Nat /\ flashed \in BOOLEAN
    /\ page \in {"editor", "progress", "finished"} /\ (page = "progress" <=> runner.pc # "idle")
    /\ page = "progress" => Valid
    /\ runner.pc \in Busy \cup {"idle", "starting", "next", "told"}
    /\ Underway /\ Ended

\* The types that the steps use.
LEMMA FlashTypes ==
    ASSUME FlashInv
    PROVE  /\ script \in Seq([kind : Kind, on : BOOLEAN]) /\ Len(script) \in Nat
           /\ DOMAIN script = 1 .. Len(script)
           /\ \A j \in 1 .. Len(script) : script[j].on \in BOOLEAN
           /\ runner \in Runner /\ runner.i \in Nat /\ runner.blk \in Nat /\ runner.status \in Seq(Mark)
           /\ runner.pc \in Phase /\ stored \in Nat
<1>1. script \in Seq([kind : Kind, on : BOOLEAN]) /\ runner \in Runner /\ stored \in Nat
  BY DEF FlashInv
<1>2. Len(script) \in Nat /\ DOMAIN script = 1 .. Len(script)
      /\ \A j \in 1 .. Len(script) : script[j].on \in BOOLEAN
  <2> DEFINE S == [kind : Kind, on : BOOLEAN]
  <2>1. \A x \in S : x.on \in BOOLEAN
    OBVIOUS
  <2> HIDE DEF S
  <2>2. script \in Seq(S)
    BY <1>1 DEF S
  <2>3. Len(script) \in Nat /\ DOMAIN script = 1 .. Len(script)
        /\ \A j \in 1 .. Len(script) : script[j] \in S
    BY <2>2
  <2> QED BY <2>1, <2>3
<1> QED BY <1>1, <1>2 DEF Runner

\* A busy run is at an enabled step, and what came before it is done.
LEMMA BusyFacts ==
    ASSUME FlashInv, runner.pc \in Busy
    PROVE  /\ runner.i \in 1 .. Len(script) /\ script[runner.i].on
           /\ Len(runner.status) = runner.i - 1 /\ Done(runner.i - 1) /\ ~runner.aborted
           /\ page = "progress" /\ Valid
<1>1. /\ runner.i \in 1 .. Len(script) + 1 /\ Done(runner.i - 1) /\ ~runner.aborted
      /\ runner.i <= Len(script) /\ script[runner.i].on
  BY DEF FlashInv, Underway, Busy
<1>2. page = "progress" /\ Valid
  BY DEF FlashInv, Busy
<1> QED BY <1>1, <1>2, FlashTypes DEF Done

\* A step that passes.
LEMMA PassStep ==
    ASSUME FlashInv, runner.pc \in Busy, NEW r \in Runner,
           r.i = runner.i, r.status = runner.status, r.aborted = runner.aborted,
           runner.staged => r.staged, runner.size => r.size,
           runner' = Passed(r), UNCHANGED <<script, page>>, stored' \in Nat,
           flashed' \in BOOLEAN, flashed => flashed',
           script[runner.i].kind = "upload" => r.staged,
           script[runner.i].kind = "request" => r.size,
           script[runner.i].kind = "transfer" => flashed'
    PROVE  FlashInv'
<1> DEFINE n == runner.i
           st == runner.status
           m == n + 1
           ts == Append(st, "PASSED")
<1>1. /\ n \in 1 .. Len(script) /\ n \in Nat /\ script[n].on /\ Len(st) = n - 1 /\ st \in Seq(Mark)
      /\ Done(n - 1) /\ ~runner.aborted /\ page = "progress" /\ Valid /\ Len(script) \in Nat
  BY BusyFacts, FlashTypes
<1>2. /\ m \in Nat /\ m \in 1 .. Len(script) + 1 /\ m - 1 = n
      /\ ts \in Seq(Mark) /\ Len(ts) = n /\ ts[n] = "PASSED" /\ \A j \in 1 .. n - 1 : ts[j] = st[j]
  BY <1>1 DEF Mark
<1>3. \A j \in 1 .. n - 1 : /\ st[j] = IF script[j].on THEN "PASSED" ELSE "SKIPPED"
                            /\ script[j].on => Leaves(j)
  BY <1>1 DEF Done
<1>4. runner' = [r EXCEPT !.pc = "next", !.i = m, !.status = ts]
  BY DEF Passed
<1> HIDE DEF m, ts
<1>5. /\ runner' \in Runner /\ runner'.pc = "next" /\ runner'.i = m /\ runner'.status = ts
      /\ runner'.staged = r.staged /\ runner'.size = r.size /\ runner'.aborted = r.aborted
  BY <1>2, <1>4 DEF Runner, Phase
<1>6. \A j \in 1 .. n : /\ ts[j] = IF script[j].on THEN "PASSED" ELSE "SKIPPED"
                        /\ script[j].on => Leaves(j)'
  <2> SUFFICES ASSUME NEW j \in 1 .. n
               PROVE  /\ ts[j] = IF script[j].on THEN "PASSED" ELSE "SKIPPED"
                      /\ script[j].on => Leaves(j)'
    OBVIOUS
  <2>1. CASE j = n
    BY <1>1, <1>2, <1>5, <2>1 DEF Leaves
  <2>2. CASE j # n
    <3>1. j \in 1 .. n - 1
      BY <1>1, <2>2
    <3> QED BY <1>2, <1>3, <1>5, <3>1 DEF Leaves
  <2> QED BY <2>1, <2>2
<1> HIDE DEF n, st
<1>7. Underway'
  BY <1>1, <1>2, <1>5, <1>6 DEF Underway, Done, Busy
<1>8. Ended'
  BY <1>1, <1>5 DEF Ended
<1> QED BY <1>1, <1>5, <1>7, <1>8 DEF FlashInv, Busy, Valid, InOrder, Places, Enabled

\* A step that fails ends the run, and the run is not completed.
LEMMA RunFailStep ==
    ASSUME FlashInv, runner.pc \in Busy, NEW r \in Runner,
           r.i = runner.i, r.status = runner.status,
           runner' = Failed(r), UNCHANGED <<script, page>>, stored' \in Nat, flashed' \in BOOLEAN
    PROVE  FlashInv'
<1> DEFINE n == runner.i
           st == runner.status
           m == n + 1
           ts == Append(st, "FAILED")
<1>1. n \in Nat /\ st \in Seq(Mark) /\ page = "progress" /\ Valid
  BY BusyFacts, FlashTypes
<1>2. m \in Nat /\ ts \in Seq(Mark) /\ Len(ts) \in DOMAIN ts /\ ts[Len(ts)] = "FAILED"
  BY <1>1 DEF Mark
<1>3. runner' = [r EXCEPT !.pc = "told", !.i = m, !.status = ts]
  BY DEF Failed
<1> HIDE DEF m, ts
<1>4. runner' \in Runner /\ runner'.pc = "told" /\ runner'.status = ts
  BY <1>2, <1>3 DEF Runner, Phase
<1>5. ~Completed'
  BY <1>2, <1>4 DEF Completed
<1> QED BY <1>1, <1>4, <1>5 DEF FlashInv, Busy, Valid, InOrder, Places, Enabled, Underway, Ended

\* A step that takes more than one exchange.
LEMMA StayStep ==
    ASSUME FlashInv, runner.pc \in Busy, NEW r \in Runner, r.pc \in Busy,
           r.i = runner.i, r.status = runner.status, r.aborted = runner.aborted,
           r.staged = runner.staged, r.size = runner.size,
           runner' = r, UNCHANGED <<script, page, flashed>>, stored' \in Nat,
           r.pc = "key" => script[runner.i].kind = "unlock",
           r.pc = "again" => script[runner.i].kind = "hardware",
           r.pc = "blocks" => script[runner.i].kind = "transfer" /\ stored' = r.blk
    PROVE  FlashInv'
<1>1. /\ runner.i \in 1 .. Len(script) + 1 /\ Done(runner.i - 1) /\ ~runner.aborted
      /\ runner.i <= Len(script) /\ script[runner.i].on
  BY BusyFacts DEF FlashInv, Underway, Busy
<1>2. Underway'
  BY <1>1 DEF Underway, Done, Leaves
<1>3. Ended'
  BY BusyFacts DEF Ended, Busy
<1> QED BY <1>2, <1>3, BusyFacts DEF FlashInv, Busy, Valid, InOrder, Places, Enabled

\* What the ECU stores is a number of blocks.
LEMMA KeepsNat ==
    ASSUME FlashInv
    PROVE  \A req, a : Keeps(req, a) \in Nat
  BY FlashTypes DEF Keeps

\* The steps that are one request: they change nothing the later ones need.
LEMMA AskingStepKeeps ==
    ASSUME FlashInv, AskingStep
    PROVE  FlashInv'
<1>1. PICK k \in DOMAIN OneRequest : Doing(k) /\ AskEcu(OneRequest[k], LAMBDA ok : Outcome(runner, ok))
  BY DEF AskingStep
<1>2. PICK ok \in BOOLEAN : runner' = Outcome(runner, ok)
  BY <1>1 DEF AskEcu
<1>3. UNCHANGED <<script, page, flashed>> /\ stored' \in Nat
  BY <1>1, KeepsNat, FlashTypes DEF AskEcu, AskingStep
<1>4. k \notin {"upload", "request", "transfer"}
  BY DEF OneRequest
<1>5. runner.pc \in Busy /\ script[runner.i].kind = k
  BY <1>1 DEF Doing, Busy
<1>6. flashed \in BOOLEAN
  BY DEF FlashInv
<1> QED BY <1>2, <1>3, <1>4, <1>5, <1>6, FlashTypes, PassStep, RunFailStep DEF Outcome

\* The steps without a request.
LEMMA QuietStepKeeps ==
    ASSUME FlashInv, EasyStep \/ UploadFile \/ Unstaged \/ VerifyStep
    PROVE  FlashInv'
<1>1. runner.pc \in Busy /\ flashed \in BOOLEAN /\ stored \in Nat
  BY FlashTypes DEF EasyStep, UploadFile, Unstaged, VerifyStep, Doing, Busy, FlashInv
<1>2. CASE EasyStep \/ VerifyStep
  <2>1. /\ runner' = Passed(runner) /\ UNCHANGED <<script, page, stored, flashed>>
        /\ script[runner.i].kind \in {"can", "present", "delay", "verify"}
    BY <1>2 DEF EasyStep, VerifyStep, Doing, Quiet
  <2> QED BY <1>1, <2>1, FlashTypes, PassStep
<1>3. CASE UploadFile
  <2> DEFINE r == [runner EXCEPT !.staged = TRUE]
  <2>1. /\ r \in Runner /\ r.staged /\ r.size = runner.size /\ r.i = runner.i
        /\ r.status = runner.status /\ r.aborted = runner.aborted
    BY FlashTypes DEF Runner
  <2>2. /\ runner' = Passed(r) /\ UNCHANGED <<script, page, stored, flashed>>
        /\ script[runner.i].kind = "upload"
    BY <1>3 DEF UploadFile, Doing, Quiet
  <2> HIDE DEF r
  <2> QED BY <1>1, <2>1, <2>2, PassStep
<1>4. CASE Unstaged
  <2>1. runner' = Failed(runner) /\ UNCHANGED <<script, page, stored, flashed>>
    BY <1>4 DEF Unstaged, Quiet
  <2> QED BY <1>1, <2>1, FlashTypes, RunFailStep
<1> QED BY <1>2, <1>3, <1>4

\* The two identifiers of the hardware and of the software.
LEMMA ReadPairKeeps ==
    ASSUME FlashInv, ReadPair
    PROVE  FlashInv'
<1>1. UNCHANGED <<script, page, flashed>> /\ stored' \in Nat
  <2>1. CASE Doing("hardware") /\ AskEcu(OneRequest.identify, LAMBDA ok :
                [runner EXCEPT !.pc = "again", !.got = ok])
    <3>1. UNCHANGED <<script, page>>
      BY <2>1 DEF AskEcu
    <3>2. stored' \in Nat
      <4> DEFINE Then(ok) == [runner EXCEPT !.pc = "again", !.got = ok]
      <4>1. AskEcu(OneRequest.identify, Then)
        BY <2>1
      <4> HIDE DEF Then
      <4> QED BY <4>1, KeepsNat, FlashTypes DEF AskEcu
    <3> QED BY <3>1, <3>2 DEF ReadPair
  <2>2. CASE runner.pc = "again" /\ AskEcu(OneRequest.identify, LAMBDA ok :
                Outcome([runner EXCEPT !.got = FALSE], ok \/ runner.got))
    BY <2>2, KeepsNat, FlashTypes DEF AskEcu, ReadPair
  <2> QED BY <2>1, <2>2 DEF ReadPair
<1>2. runner.pc \in Busy /\ script[runner.i].kind = "hardware" /\ flashed \in BOOLEAN
  BY DEF ReadPair, Doing, Busy, FlashInv, Underway
<1>3. CASE Doing("hardware") /\ AskEcu(OneRequest.identify, LAMBDA ok :
                [runner EXCEPT !.pc = "again", !.got = ok])
  <2>1. PICK ok \in BOOLEAN : runner' = [runner EXCEPT !.pc = "again", !.got = ok]
    BY <1>3 DEF AskEcu
  <2> DEFINE r == [runner EXCEPT !.pc = "again", !.got = ok]
  <2>2. /\ r \in Runner /\ r.pc = "again" /\ r.staged = runner.staged /\ r.size = runner.size
        /\ r.i = runner.i /\ r.status = runner.status /\ r.aborted = runner.aborted
    BY FlashTypes DEF Runner, Phase
  <2>3. runner' = r
    BY <2>1
  <2> HIDE DEF r
  <2> QED BY <1>1, <1>2, <2>2, <2>3, StayStep DEF Busy
<1>4. CASE runner.pc = "again" /\ AskEcu(OneRequest.identify, LAMBDA ok :
                Outcome([runner EXCEPT !.got = FALSE], ok \/ runner.got))
  <2> DEFINE r == [runner EXCEPT !.got = FALSE]
  <2>1. runner' = Passed(r) \/ runner' = Failed(r)
    BY <1>4 DEF AskEcu, Outcome
  <2>2. /\ r \in Runner /\ r.staged = runner.staged /\ r.size = runner.size
        /\ r.i = runner.i /\ r.status = runner.status /\ r.aborted = runner.aborted
    BY FlashTypes DEF Runner
  <2> HIDE DEF r
  <2> QED BY <1>1, <1>2, <2>1, <2>2, PassStep, RunFailStep
<1> QED BY <1>3, <1>4 DEF ReadPair

\* Seed and key.
LEMMA UnlockKeeps ==
    ASSUME FlashInv, Unlock
    PROVE  FlashInv'
<1>1. UNCHANGED <<script, page, flashed>> /\ stored' \in Nat
  <2> DEFINE seed == [svc |-> "seed", level |-> FileLevel, quiet |-> FALSE]
             key == [svc |-> "key", level |-> FileLevel, key |-> ecu.seed, quiet |-> FALSE]
  <2>1. CASE Doing("unlock") /\ AskEcu(seed, LAMBDA ok :
                IF ~ok THEN Failed(runner)
                ELSE IF ecu.unlocked = FileLevel THEN Passed(runner)
                ELSE [runner EXCEPT !.pc = "key"])
    <3> HIDE DEF seed
    <3> QED BY <2>1, KeepsNat, FlashTypes DEF AskEcu, Unlock
  <2>2. CASE runner.pc = "key" /\ AskEcu(key, LAMBDA ok : Outcome(runner, ok))
    <3> HIDE DEF key
    <3> QED BY <2>2, KeepsNat, FlashTypes DEF AskEcu, Unlock
  <2> QED BY <2>1, <2>2 DEF Unlock
<1>2. runner.pc \in Busy /\ script[runner.i].kind = "unlock" /\ flashed \in BOOLEAN
  BY DEF Unlock, Doing, Busy, FlashInv, Underway
<1> DEFINE r == [runner EXCEPT !.pc = "key"]
<1>3. runner' = Passed(runner) \/ runner' = Failed(runner) \/ runner' = r
  BY DEF Unlock, AskEcu, Outcome
<1>4. /\ r \in Runner /\ r.pc = "key" /\ r.staged = runner.staged /\ r.size = runner.size
      /\ r.i = runner.i /\ r.status = runner.status /\ r.aborted = runner.aborted
  BY FlashTypes DEF Runner, Phase
<1> HIDE DEF r
<1>5. CASE runner' = r
  BY <1>1, <1>2, <1>4, <1>5, StayStep DEF Busy
<1>6. CASE runner' = Passed(runner) \/ runner' = Failed(runner)
  BY <1>1, <1>2, <1>6, FlashTypes, PassStep, RunFailStep
<1> QED BY <1>3, <1>5, <1>6

\* The request for a download.
LEMMA RequestBlocksKeeps ==
    ASSUME FlashInv, RequestBlocks
    PROVE  FlashInv'
<1>1. PICK ok \in BOOLEAN : runner' = Outcome([runner EXCEPT !.size = @ \/ ok], ok)
  BY DEF RequestBlocks, AskEcu
<1>2. UNCHANGED <<script, page, flashed>> /\ stored' \in Nat
  BY KeepsNat, FlashTypes DEF AskEcu, RequestBlocks
<1>3. runner.pc \in Busy /\ script[runner.i].kind = "request" /\ flashed \in BOOLEAN
  BY DEF RequestBlocks, Doing, Busy, FlashInv
<1> DEFINE r == [runner EXCEPT !.size = runner.size \/ ok]
<1>4. /\ r \in Runner /\ r.staged = runner.staged /\ r.size = (runner.size \/ ok) /\ r.i = runner.i
      /\ r.status = runner.status /\ r.aborted = runner.aborted
  BY FlashTypes DEF Runner
<1>5. runner' = Outcome(r, ok)
  BY <1>1
<1> HIDE DEF r
<1>6. CASE ok
  BY <1>2, <1>3, <1>4, <1>5, <1>6, PassStep DEF Outcome
<1>7. CASE ~ok
  BY <1>2, <1>3, <1>4, <1>5, <1>7, RunFailStep DEF Outcome
<1> QED BY <1>6, <1>7

\* The transfer begins with nothing stored and nothing sent, ...
LEMMA PermitKeeps ==
    ASSUME FlashInv, Permit
    PROVE  FlashInv'
<1> DEFINE r == [runner EXCEPT !.pc = "blocks", !.blk = 0]
<1>1. \/ runner' = Failed(runner)
      \/ runner' = r /\ stored' = 0
  BY DEF Permit, AskEcu, Keeps
<1>2. UNCHANGED <<script, page, flashed>> /\ stored' \in Nat
  BY KeepsNat, FlashTypes DEF AskEcu, Permit
<1>3. runner.pc \in Busy /\ script[runner.i].kind = "transfer" /\ flashed \in BOOLEAN
  BY DEF Permit, Doing, Busy, FlashInv
<1>4. /\ r \in Runner /\ r.pc = "blocks" /\ r.blk = 0 /\ r.staged = runner.staged
      /\ r.size = runner.size /\ r.i = runner.i /\ r.status = runner.status /\ r.aborted = runner.aborted
  BY FlashTypes DEF Runner, Phase
<1> HIDE DEF r
<1>5. CASE runner' = Failed(runner)
  BY <1>2, <1>3, <1>5, FlashTypes, RunFailStep
<1>6. CASE runner' = r /\ stored' = 0
  BY <1>2, <1>3, <1>4, <1>6, StayStep DEF Busy
<1> QED BY <1>1, <1>5, <1>6

\* ... sends and stores one block after another, ...
LEMMA SendBlocksKeeps ==
    ASSUME FlashInv, SendBlocks
    PROVE  FlashInv'
<1> DEFINE n == runner.blk + 1
           r == [runner EXCEPT !.blk = n]
<1>1. \/ runner' = Failed(runner)
      \/ runner' = r /\ stored' = stored + 1
  BY DEF SendBlocks, AskEcu, Keeps
<1>2. UNCHANGED <<script, page, flashed>> /\ stored' \in Nat
  BY KeepsNat, FlashTypes DEF AskEcu, SendBlocks
<1>3. /\ runner.pc \in Busy /\ runner.pc = "blocks" /\ flashed \in BOOLEAN
      /\ script[runner.i].kind = "transfer" /\ stored = runner.blk
  BY DEF SendBlocks, Busy, FlashInv, Underway
<1>4. n \in Nat
  BY FlashTypes
<1>5. stored + 1 = n
  BY <1>3
<1> HIDE DEF n
<1>6. /\ r \in Runner /\ r.pc = "blocks" /\ r.blk = n /\ r.staged = runner.staged
      /\ r.size = runner.size /\ r.i = runner.i /\ r.status = runner.status /\ r.aborted = runner.aborted
  BY <1>3, <1>4, FlashTypes DEF Runner
<1> HIDE DEF r
<1>7. CASE runner' = Failed(runner)
  BY <1>2, <1>3, <1>7, FlashTypes, RunFailStep
<1>8. CASE runner' = r /\ stored' = stored + 1
  BY <1>2, <1>3, <1>5, <1>6, <1>8, StayStep DEF Busy
<1> QED BY <1>1, <1>7, <1>8

\* ... and is over when all are stored.
LEMMA CloseBlocksKeeps ==
    ASSUME FlashInv, CloseBlocks
    PROVE  FlashInv'
<1>1. PICK ok \in BOOLEAN : runner' = Downloaded(ok)
  BY DEF CloseBlocks, AskEcu
<1>2. UNCHANGED <<script, page>> /\ stored' \in Nat
  BY KeepsNat, FlashTypes DEF AskEcu, CloseBlocks
<1>3. /\ runner.pc \in Busy /\ stored = Blocks /\ flashed \in BOOLEAN /\ runner.blk = Blocks
      /\ script[runner.i].kind = "transfer"
  BY DEF CloseBlocks, Busy, FlashInv, Underway
<1> DEFINE r == [runner EXCEPT !.got = ok]
<1>4. /\ r \in Runner /\ r.staged = runner.staged /\ r.size = runner.size /\ r.i = runner.i
      /\ r.status = runner.status /\ r.aborted = runner.aborted /\ r.got = ok
  BY FlashTypes DEF Runner
<1>5. runner' = Outcome(r, ok)
  BY <1>1 DEF Downloaded
<1> HIDE DEF r
<1>6. runner'.got = ok
  BY <1>4, <1>5 DEF Outcome, Passed, Failed, Runner
<1>7. flashed' = (flashed \/ ok)
  BY <1>3, <1>6 DEF CloseBlocks
<1>8. CASE ok
  BY <1>2, <1>3, <1>4, <1>5, <1>7, <1>8, PassStep DEF Outcome
<1>9. CASE ~ok
  BY <1>2, <1>3, <1>4, <1>5, <1>7, <1>9, RunFailStep DEF Outcome
<1> QED BY <1>8, <1>9

\* An exit that fails is taken for one that was sent already.
LEMMA ExitStepKeeps ==
    ASSUME FlashInv, ExitStep
    PROVE  FlashInv'
<1>1. runner' = Passed(runner)
  BY DEF ExitStep, AskEcu
<1>2. UNCHANGED <<script, page, flashed>> /\ stored' \in Nat
  BY KeepsNat, FlashTypes DEF AskEcu, ExitStep
<1>3. runner.pc \in Busy /\ script[runner.i].kind = "exit" /\ flashed \in BOOLEAN
  BY DEF ExitStep, Doing, Busy, FlashInv
<1> QED BY <1>1, <1>2, <1>3, FlashTypes, PassStep

\* The loop over the steps: it begins, leaves out what is disabled, and ends.
LEMMA LoopKeeps ==
    ASSUME FlashInv, EnterRun \/ NextStep
    PROVE  FlashInv'
<1> DEFINE n == runner.i
           st == runner.status
           m == n + 1
           ts == Append(st, "SKIPPED")
<1>1. /\ runner.pc \in {"starting", "next"} /\ UNCHANGED <<script, page, stored, flashed>>
      /\ page = "progress" /\ Valid
  BY DEF EnterRun, NextStep, FlashInv
<1>2. n \in 1 .. Len(script) + 1 /\ n \in Nat /\ Done(n - 1) /\ Len(st) = n - 1 /\ ~runner.aborted
      /\ st \in Seq(Mark) /\ Len(script) \in Nat
  BY <1>1, FlashTypes DEF FlashInv, Underway, Done
<1>3. Valid'
  BY <1>1 DEF Valid, InOrder, Places, Enabled
<1>0. ASSUME runner'.status = st, runner'.staged = runner.staged, runner'.size = runner.size
      PROVE  /\ Len(runner'.status) = n - 1
             /\ \A j \in 1 .. n - 1 : /\ runner'.status[j] = IF script[j].on THEN "PASSED" ELSE "SKIPPED"
                                      /\ script[j].on => Leaves(j)'
  BY <1>0, <1>1, <1>2 DEF Done, Leaves
<1>4. CASE EnterRun
  <2>1. /\ runner' \in Runner /\ runner'.pc = "next" /\ runner'.i = n /\ runner'.status = st
        /\ ~runner'.aborted /\ runner'.staged = runner.staged /\ runner'.size = runner.size
    BY <1>2, <1>4, FlashTypes DEF EnterRun, Runner, Phase
  <2> HIDE DEF n, st
  <2>2. Underway' /\ Ended'
    BY <1>0, <1>1, <1>2, <2>1 DEF Underway, Ended, Done, Busy
  <2> QED BY <1>1, <1>3, <2>1, <2>2 DEF FlashInv, Busy
<1>5. CASE NextStep /\ n > Len(script)
  <2>1. /\ runner' \in Runner /\ runner'.pc = "told" /\ runner'.status = st
        /\ runner'.staged = runner.staged /\ runner'.size = runner.size
    BY <1>5, FlashTypes DEF NextStep, Runner, Phase
  <2>2. n - 1 = Len(script)
    BY <1>2, <1>5
  <2> HIDE DEF n, st
  <2>3. Underway' /\ Ended'
    BY <1>0, <1>1, <1>2, <2>1, <2>2 DEF Underway, Ended, Done
  <2> QED BY <1>1, <1>3, <2>1, <2>3 DEF FlashInv, Busy
<1>6. CASE NextStep /\ ~(n > Len(script)) /\ runner.cancelled
  <2>1. runner' = [runner EXCEPT !.pc = "told", !.aborted = TRUE]
    BY <1>6 DEF NextStep, BreakCancelled
  <2>2. runner' \in Runner /\ runner'.pc = "told" /\ runner'.aborted
    BY <2>1, FlashTypes DEF Runner, Phase
  <2>3. Underway' /\ Ended'
    BY <1>1, <2>2 DEF Underway, Ended, Completed
  <2> QED BY <1>1, <1>3, <2>2, <2>3 DEF FlashInv, Busy
<1>7. CASE NextStep /\ ~(n > Len(script)) /\ ~runner.cancelled /\ ~script[n].on
  <2>1. runner' = [runner EXCEPT !.status = ts, !.i = m]
    BY <1>7 DEF NextStep
  <2>2. /\ n \in 1 .. Len(script) /\ m \in Nat /\ m \in 1 .. Len(script) + 1 /\ m - 1 = n
        /\ ts \in Seq(Mark) /\ Len(ts) = n /\ ts[n] = "SKIPPED" /\ \A j \in 1 .. n - 1 : ts[j] = st[j]
    BY <1>2, <1>7 DEF Mark
  <2> HIDE DEF m, ts
  <2>3. /\ runner' \in Runner /\ runner'.pc = "next" /\ runner'.i = m /\ runner'.status = ts
        /\ ~runner'.aborted /\ runner'.staged = runner.staged /\ runner'.size = runner.size
    BY <1>2, <1>7, <2>1, <2>2, FlashTypes DEF Runner, NextStep
  <2>4. \A j \in 1 .. n : /\ ts[j] = IF script[j].on THEN "PASSED" ELSE "SKIPPED"
                          /\ script[j].on => Leaves(j)'
    <3> SUFFICES ASSUME NEW j \in 1 .. n
                 PROVE  /\ ts[j] = IF script[j].on THEN "PASSED" ELSE "SKIPPED"
                        /\ script[j].on => Leaves(j)'
      OBVIOUS
    <3>1. CASE j = n
      BY <1>7, <2>2, <3>1
    <3>2. CASE j # n
      <4>1. j \in 1 .. n - 1
        BY <1>2, <3>2
      <4> QED BY <1>1, <1>2, <2>2, <2>3, <4>1 DEF Done, Leaves
    <3> QED BY <3>1, <3>2
  <2> HIDE DEF n, st
  <2>5. Underway' /\ Ended'
    BY <1>1, <2>2, <2>3, <2>4 DEF Underway, Ended, Done, Busy
  <2> QED BY <1>1, <1>3, <2>3, <2>5 DEF FlashInv, Busy
<1>8. CASE NextStep /\ ~(n > Len(script)) /\ ~runner.cancelled /\ script[n].on
  <2>1. runner' = [runner EXCEPT !.pc = "doing"]
    BY <1>8 DEF NextStep
  <2>2. /\ runner' \in Runner /\ runner'.pc = "doing" /\ runner'.i = n /\ runner'.status = st
        /\ ~runner'.aborted /\ runner'.staged = runner.staged /\ runner'.size = runner.size
    BY <1>2, <2>1, FlashTypes DEF Runner, Phase
  <2>3. n <= Len(script) /\ script[n].on
    BY <1>2, <1>8
  <2> HIDE DEF n, st
  <2>4. Underway' /\ Ended'
    BY <1>0, <1>1, <1>2, <2>2, <2>3 DEF Underway, Ended, Done, Busy
  <2> QED BY <1>1, <1>3, <2>2, <2>4 DEF FlashInv, Busy
<1>9. script[n].on \in BOOLEAN \/ n > Len(script)
  BY <1>2, FlashTypes
<1> QED BY <1>4, <1>5, <1>6, <1>7, <1>8

\* The operator edits while no run is under way.
LEMMA EditKeeps ==
    ASSUME FlashInv, MoveStep \/ AddStep \/ RemoveStep \/ ToggleStep
    PROVE  FlashInv'
<1> DEFINE S == [kind : Kind, on : BOOLEAN]
<1>1. page = "editor" /\ UNCHANGED <<runner, page, stored, flashed>>
  BY DEF MoveStep, AddStep, RemoveStep, ToggleStep, Edit
<1>2. script \in Seq(S) /\ DOMAIN script = 1 .. Len(script) /\ Len(script) \in Nat
  BY FlashTypes
<1>3. \A j \in 1 .. Len(script) : script[j] \in S
  <2> HIDE DEF S
  <2> QED BY <1>2
<1>4. script' \in Seq(S)
  <2>1. CASE MoveStep
    <3>1. PICK from, to \in DOMAIN script : script' = InsertAt(RemoveAt(script, from), to, script[from])
      BY <2>1 DEF MoveStep, Edit, Move
    <3> HIDE DEF S
    <3>2. from \in 1 .. Len(script) /\ to \in 1 .. Len(script) /\ script[from] \in S
      BY <1>2, <1>3
    <3> DEFINE rest == RemoveAt(script, from)
    <3>3. rest \in Seq(S) /\ Len(rest) = Len(script) - 1
      BY <1>2, <3>2, EditsOfSequence
    <3> HIDE DEF rest
    <3>4. to \in 1 .. Len(rest) + 1
      BY <1>2, <3>2, <3>3
    <3>5. InsertAt(rest, to, script[from]) \in Seq(S)
      BY <3>2, <3>3, <3>4, EditsOfSequence
    <3> QED BY <3>1, <3>5 DEF rest
  <2>2. CASE AddStep
    <3>1. PICK k \in Palette, to \in 1 .. Len(script) + 1 :
              script' = InsertAt(script, to, [kind |-> k, on |-> TRUE])
      BY <2>2 DEF AddStep, Edit
    <3>2. [kind |-> k, on |-> TRUE] \in S
      BY FlashAssumption
    <3> HIDE DEF S
    <3> QED BY <1>2, <3>1, <3>2, EditsOfSequence
  <2>3. CASE RemoveStep
    <3>1. PICK i \in DOMAIN script : script' = RemoveAt(script, i)
      BY <2>3 DEF RemoveStep, Edit
    <3> HIDE DEF S
    <3> QED BY <1>2, <1>3, <3>1, EditsOfSequence
  <2>4. CASE ToggleStep
    <3>1. PICK i \in DOMAIN script : script' = [script EXCEPT ![i].on = ~@]
      BY <2>4 DEF ToggleStep, Edit
    <3> DEFINE step == [script[i] EXCEPT !.on = ~script[i].on]
    <3>2. script[i] \in S
      BY <1>2, <1>3
    <3>3. step \in S
      BY <3>2
    <3>4. script' = [script EXCEPT ![i] = step]
      BY <3>1
    <3> HIDE DEF S, step
    <3> QED BY <1>2, <3>3, <3>4
  <2> QED BY <2>1, <2>2, <2>3, <2>4
<1>5. runner.pc = "idle"
  BY <1>1 DEF FlashInv, Busy
<1> QED BY <1>1, <1>4, <1>5 DEF FlashInv, Underway, Ended

\* The panel: a run starts afresh, may be cancelled, and is shown.
LEMMA PanelKeeps ==
    ASSUME FlashInv, StartFlash \/ CancelFlash \/ ShowReport \/ BackToSequence
    PROVE  FlashInv'
<1>1. UNCHANGED <<script, stored>> /\ flashed' \in BOOLEAN
  BY DEF StartFlash, CancelFlash, ShowReport, BackToSequence, FlashInv
<1>2. Valid' <=> Valid
  BY <1>1 DEF Valid, InOrder, Places, Enabled
<1>3. CASE StartFlash
  <2>1. /\ runner' = [pc |-> "starting", i |-> 1, staged |-> FALSE, size |-> FALSE, blk |-> 0,
                      cancelled |-> FALSE, got |-> FALSE, status |-> <<>>, aborted |-> FALSE]
        /\ page' = "progress" /\ Valid
    BY <1>3 DEF StartFlash, NewRunner
  <2>2. runner' \in Runner
    BY <2>1 DEF Runner, Phase
  <2>3. Underway'
    BY <1>1, <2>1, FlashTypes DEF Underway, Done, Busy
  <2>4. Ended'
    BY <2>1 DEF Ended
  <2> QED BY <1>1, <1>2, <2>1, <2>2, <2>3, <2>4 DEF FlashInv, Busy
<1>4. CASE CancelFlash
  <2>1. runner' = [runner EXCEPT !.cancelled = TRUE] /\ UNCHANGED <<page, flashed>> /\ page = "progress"
    BY <1>4 DEF CancelFlash
  <2>2. /\ runner' \in Runner /\ runner'.pc = runner.pc /\ runner'.i = runner.i /\ runner'.blk = runner.blk
        /\ runner'.status = runner.status /\ runner'.aborted = runner.aborted
        /\ runner'.staged = runner.staged /\ runner'.size = runner.size
    BY <2>1, FlashTypes DEF Runner
  <2>3. Underway'
    BY <1>1, <2>1, <2>2 DEF FlashInv, Underway, Done, Leaves
  <2>4. Ended'
    BY <1>1, <2>1, <2>2 DEF FlashInv, Ended, Completed, Done, Leaves
  <2> QED BY <1>1, <1>2, <2>1, <2>2, <2>3, <2>4 DEF FlashInv
<1>5. CASE ShowReport
  <2>1. /\ runner' = [runner EXCEPT !.pc = "idle"] /\ page' = "finished" /\ UNCHANGED flashed
        /\ runner.pc = "told"
    BY <1>5 DEF ShowReport
  <2>2. /\ runner' \in Runner /\ runner'.pc = "idle" /\ runner'.status = runner.status
        /\ runner'.aborted = runner.aborted /\ runner'.staged = runner.staged /\ runner'.size = runner.size
    BY <2>1, FlashTypes DEF Runner, Phase
  <2>3. Ended'
    BY <1>1, <2>1, <2>2 DEF FlashInv, Ended, Completed, Done, Leaves
  <2> QED BY <1>1, <2>1, <2>2, <2>3 DEF FlashInv, Underway
<1>6. CASE BackToSequence
  <2>1. page' = "editor" /\ UNCHANGED <<runner, flashed>> /\ page = "finished"
    BY <1>6 DEF BackToSequence
  <2>2. runner.pc = "idle"
    BY <2>1 DEF FlashInv
  <2> QED BY <1>1, <2>1, <2>2 DEF FlashInv, Underway, Ended
<1> QED BY <1>3, <1>4, <1>5, <1>6

\* Every step keeps the invariant.
LEMMA FlashStep == FlashInv /\ [FlashNext]_flashVars => FlashInv'
<1> SUFFICES ASSUME FlashInv, [FlashNext]_flashVars PROVE FlashInv'
  OBVIOUS
<1>1. CASE UNCHANGED flashVars
  BY <1>1 DEF flashVars, FlashInv, Underway, Ended, Completed, Done, Leaves, Valid, InOrder, Places, Enabled
<1>2. CASE Perform
  BY <1>2, AskingStepKeeps, QuietStepKeeps, ReadPairKeeps, UnlockKeeps, RequestBlocksKeeps,
     PermitKeeps, SendBlocksKeeps, CloseBlocksKeeps, ExitStepKeeps DEF Perform
<1> QED BY <1>1, <1>2, LoopKeeps, EditKeeps, PanelKeeps DEF FlashNext, Work

\* The editor opens with no run.
LEMMA FlashBegins == FlashInit => FlashInv
<1> SUFFICES ASSUME FlashInit PROVE FlashInv
  OBVIOUS
<1> DEFINE S == [kind : Kind, on : BOOLEAN]
<1>1. DOMAIN FirstScript = 1 .. Len(FirstScript) /\ Len(FirstScript) \in Nat
      /\ \A i \in 1 .. Len(FirstScript) : FirstScript[i] \in Kind
  <2> DEFINE K == Kind
  <2>1. FirstScript \in Seq(K)
    BY FlashAssumption
  <2> HIDE DEF K
  <2> QED BY <2>1 DEF K
<1>2. \A i \in 1 .. Len(FirstScript) : [kind |-> FirstScript[i], on |-> TRUE] \in S
  BY <1>1
<1>3. script \in Seq(S)
  <2>1. script = [i \in 1 .. Len(FirstScript) |-> [kind |-> FirstScript[i], on |-> TRUE]]
    BY <1>1 DEF FlashInit
  <2> HIDE DEF S
  <2> QED BY <1>1, <1>2, <2>1
<1>4. /\ runner = [pc |-> "idle", i |-> 1, staged |-> FALSE, size |-> FALSE, blk |-> 0,
                   cancelled |-> FALSE, got |-> FALSE, status |-> <<>>, aborted |-> FALSE]
      /\ page = "editor" /\ stored = 0 /\ flashed = FALSE
  BY DEF FlashInit, NewRunner
<1>5. runner \in Runner /\ runner.pc = "idle"
  BY <1>4 DEF Runner, Phase
<1> QED BY <1>3, <1>4, <1>5 DEF FlashInv, Underway, Ended

\* The first of some steps.
LEMMA FirstPlace ==
    ASSUME NEW S \in SUBSET Nat, NEW i \in S
    PROVE  Min(S) \in S /\ Min(S) <= i
<1>1. \E m \in S : \A n \in S : m <= n
  BY LeastNumber
<1> QED BY <1>1 DEF Min

\* A run that the panel shows as finished and completed has carried out every
\* enabled step, and put the whole file into the ECU if a transfer is among
\* them (FlashRunner.run(), FlashReport.completed), for every sequence of steps
\* the operator may compose, size of the file, and number of failed exchanges.
THEOREM CompletedMeansFlashedAlways == FlashSpec => []CompletedMeansFlashed
<1>1. FlashInv => CompletedMeansFlashed
  <2> SUFFICES ASSUME FlashInv, page = "finished", Completed
               PROVE  /\ Len(runner.status) = Len(script)
                      /\ \A i \in DOMAIN script :
                            runner.status[i] = IF script[i].on THEN "PASSED" ELSE "SKIPPED"
                      /\ Places("transfer") # {} => flashed
    BY DEF CompletedMeansFlashed
  <2>1. Done(Len(script))
    BY DEF FlashInv, Ended
  <2> QED BY <2>1, FlashTypes DEF Done, Leaves, Places, Enabled
<1> QED BY <1>1, FlashBegins, FlashStep, PTL DEF FlashSpec

\* A sequence that FlashSequence.validate() let through never comes to the
\* transfer before the upload and the request it needs, for every sequence of
\* steps the operator may compose.
THEOREM TransferPreparedAlways == FlashSpec => []TransferPrepared
<1>1. FlashInv => TransferPrepared
  <2> SUFFICES ASSUME FlashInv, Doing("transfer"), Places("request") # {}
               PROVE  /\ Places("upload") # {} => runner.staged
                      /\ runner.size
    BY DEF TransferPrepared
  <2> DEFINE n == runner.i
  <2>1. n \in Places("transfer") /\ Done(n - 1) /\ Valid /\ n \in Nat
    BY BusyFacts, FlashTypes DEF Doing, Busy, Places, Enabled
  <2>2. \A k : Places(k) \in SUBSET Nat /\ \A j \in Places(k) : j \in 1 .. Len(script) /\ script[j].on /\ script[j].kind = k
    BY FlashTypes DEF Places, Enabled
  <2>3. Min(Places("transfer")) \in Nat /\ Min(Places("transfer")) <= n
    BY <2>1, <2>2, FirstPlace
  <2>4. Min(Places("request")) \in Places("request") /\ Min(Places("request")) < Min(Places("transfer"))
    <3>1. Min(Places("request")) \in Places("request")
      BY <2>2, FirstPlace
    <3> QED BY <2>1, <3>1 DEF Valid, Precedes, InOrder
  <2>5. ASSUME Places("upload") # {}
        PROVE  /\ Min(Places("upload")) \in Places("upload")
               /\ Min(Places("upload")) < Min(Places("request"))
    <3>1. Min(Places("upload")) \in Places("upload")
      BY <2>2, <2>5, FirstPlace
    <3> QED BY <2>1, <2>4, <2>5 , <3>1 DEF Valid, Precedes, InOrder
  <2> DEFINE t == Min(Places("transfer"))
             q == Min(Places("request"))
             u == Min(Places("upload"))
  <2>6. /\ t \in Nat /\ t <= n /\ q \in Nat /\ q >= 1 /\ q < t /\ script[q].on /\ script[q].kind = "request"
        /\ Places("upload") # {} =>
              u \in Nat /\ u >= 1 /\ u < q /\ script[u].on /\ script[u].kind = "upload"
    BY <2>2, <2>3, <2>4, <2>5
  <2> HIDE DEF t, q, u, n
  <2>7. q \in 1 .. n - 1 /\ (Places("upload") # {} => u \in 1 .. n - 1)
    BY <2>1, <2>6
  <2> QED BY <2>1, <2>6, <2>7 DEF Done, Leaves
<1> QED BY <1>1, FlashBegins, FlashStep, PTL DEF FlashSpec

-----------------------------------------------------------------------------
(* JsIsoTp: what is handed out is one whole payload.                       *)

Frames == [kind : {"single", "first", "chunk"}, send : Sends, sn : Nat, chunk : Nat]
Pieces == [send : Sends, chunk : Nat]

Sender == [pc : {"off", "on", "resolved", "rejected"}, offset : Nat, blockLeft : Nat, loops : Seq(Nat),
           timer : BOOLEAN]

\* One send() after another: the active one is the one that is on.
InTurn ==
    /\ sending \in [Sends -> Sender] /\ active \in Sends \cup {0}
    /\ \A k \in Sends :
          /\ sending[k].offset <= Payloads[k]
          /\ sending[k].pc = "off" => sending[k].offset = 0 /\ sending[k].loops = <<>>
          /\ sending[k].pc = "on" <=> active = k
          /\ sending[k].timer => sending[k].pc = "on"

\* The active send() has permission, or it is on its way.
Permitted == active # 0 /\ (flow # <<>> \/ sending[active].loops # <<>>)

\* Permission comes once for a payload, when its first frame was taken.
OnePermit ==
    /\ flow \in {<<>>, <<"continue">>}
    /\ flow # <<>> => active # 0 /\ sending[active].loops = <<>>

\* A first frame is the last of what is on its way; chunks come in order.
InAir ==
    /\ air \in Seq(Frames)
    /\ \A i \in DOMAIN air :
          /\ air[i].kind = "single" => Payloads[air[i].send] = 0
          /\ air[i].kind = "first" => i = Len(air) /\ active = air[i].send /\ ~Permitted
                                      /\ sending[air[i].send].offset = 0
          /\ air[i].kind = "chunk" => /\ air[i].chunk \in 1 .. sending[air[i].send].offset
                                      /\ Permitted => air[i].send = active
    /\ \A i, j \in DOMAIN air :
          i < j /\ air[i].kind = "chunk" /\ air[j].kind = "chunk" =>
             air[i].send = air[j].send /\ air[i].chunk < air[j].chunk

\* The chunks of payload k in a buffer: one after another, or more came by than
\* it has.
Filled(b, k) ==
    LET m == Len(b) IN
    /\ m >= 1 /\ b[m].chunk <= sending[k].offset
    /\ b[m].chunk >= m \/ (b[m].chunk = m - 1 /\ \A i \in 1 .. m : b[i] = Piece(k, i - 1))

\* What the receiver is at, and what is still to come for it.
AtReceiver ==
    /\ receiver \in [on : BOOLEAN, expected : Nat, length : Nat, buffer : Seq(Pieces)]
    /\ receiver.on =>
          \E k \in Sends :
             /\ receiver.length = Payloads[k] /\ Filled(receiver.buffer, k)
             /\ Permitted => active = k
             /\ \A i \in DOMAIN air : air[i].kind = "chunk" =>
                   air[i].send = k /\ air[i].chunk > receiver.buffer[Len(receiver.buffer)].chunk

\* What was handed out was whole.
AllWhole == received \subseteq {Whole(k) : k \in Sends}

\* The invariant, as long as no send() overlapped another.
Orderly == InTurn /\ OnePermit /\ InAir /\ AtReceiver /\ AllWhole

JsInv == overlapped \/ Orderly

\* The payloads and the numbers of their frames.
LEMMA JsNumbers ==
    ASSUME Orderly
    PROVE  /\ Sends = 1 .. Len(Payloads) /\ 0 \notin Sends /\ \A k \in Sends : Payloads[k] \in Nat /\ k \in Nat
           /\ \A k \in Sends : /\ sending[k] \in Sender /\ sending[k].offset \in Nat
                               /\ sending[k].offset <= Payloads[k] /\ sending[k].loops \in Seq(Nat)
           /\ air \in Seq(Frames) /\ Len(air) \in Nat /\ DOMAIN air = 1 .. Len(air)
           /\ \A i \in DOMAIN air : air[i] \in Frames
<1>1. Sends = 1 .. Len(Payloads) /\ Len(Payloads) \in Nat /\ \A k \in Sends : Payloads[k] \in Nat
  BY PayloadsAssumption DEF Sends
<1>2. \A k \in Sends : sending[k] \in Sender /\ sending[k].offset <= Payloads[k]
  BY DEF Orderly, InTurn
<1>3. \A x \in Sender : x.offset \in Nat /\ x.loops \in Seq(Nat)
  BY DEF Sender
<1>4. air \in Seq(Frames)
  BY DEF Orderly, InAir
<1>5. Len(air) \in Nat /\ DOMAIN air = 1 .. Len(air) /\ \A i \in DOMAIN air : air[i] \in Frames
  BY <1>4
<1> QED BY <1>1, <1>2, <1>3, <1>4, <1>5

\* One sender moves: it is typed, and the turns are kept.
LEMMA Turn ==
    ASSUME InTurn, NEW k \in Sends, NEW s \in Sender, sending' = [sending EXCEPT ![k] = s],
           s.offset <= Payloads[k], s.pc # "off", s.timer => s.pc = "on",
           active' = IF s.pc = "on" THEN k ELSE IF active = k THEN 0 ELSE active,
           s.pc = "on" => active \in {0, k}
    PROVE  /\ InTurn' /\ sending'[k] = s
           /\ \A j \in Sends : j # k => sending'[j] = sending[j]
<1>1. sending'[k] = s /\ (\A j \in Sends : j # k => sending'[j] = sending[j]) /\ sending' \in [Sends -> Sender]
  BY DEF InTurn
<1>2. 0 \notin Sends /\ active \in Sends \cup {0}
  <2>1. DOMAIN Payloads = 1 .. Len(Payloads) /\ Len(Payloads) \in Nat
    BY PayloadsAssumption
  <2>2. 0 \notin Sends
    BY <2>1 DEF Sends
  <2> QED BY <2>2 DEF InTurn
<1>3. active' \in Sends \cup {0}
  BY <1>2
<1>4. \A j \in Sends :
          /\ sending'[j].offset <= Payloads[j]
          /\ sending'[j].pc = "off" => sending'[j].offset = 0 /\ sending'[j].loops = <<>>
          /\ sending'[j].pc = "on" <=> active' = j
          /\ sending'[j].timer => sending'[j].pc = "on"
  <2> SUFFICES ASSUME NEW j \in Sends
               PROVE  /\ sending'[j].offset <= Payloads[j]
                      /\ sending'[j].pc = "off" => sending'[j].offset = 0 /\ sending'[j].loops = <<>>
                      /\ sending'[j].pc = "on" <=> active' = j
                      /\ sending'[j].timer => sending'[j].pc = "on"
    OBVIOUS
  <2>1. CASE j = k
    BY <1>1, <1>2, <2>1
  <2>2. CASE j # k
    BY <1>1, <1>2, <2>2 DEF InTurn
  <2> QED BY <2>1, <2>2
<1> QED BY <1>1, <1>3, <1>4 DEF InTurn

\* While nothing is sent and nothing arrives, what is on its way and what the
\* receiver has stay as they should be.
LEMMA Calm ==
    ASSUME Orderly, UNCHANGED <<air, receiver, received>>,
           \A k \in Sends : sending'[k].offset = sending[k].offset,
           Permitted' => Permitted /\ active' = active,
           \A i \in DOMAIN air : air[i].kind = "first" => active' = active
    PROVE  InAir' /\ AtReceiver' /\ AllWhole'
<1>1. \A k \in Sends : Filled(receiver.buffer, k) => Filled(receiver.buffer, k)'
  BY DEF Filled
<1>2. InAir'
  <2>1. \A i \in DOMAIN air :
          /\ air[i].kind = "single" => Payloads[air[i].send] = 0
          /\ air[i].kind = "first" => i = Len(air) /\ active' = air[i].send /\ ~Permitted'
                                      /\ sending'[air[i].send].offset = 0
          /\ air[i].kind = "chunk" => /\ air[i].chunk \in 1 .. sending'[air[i].send].offset
                                      /\ Permitted' => air[i].send = active'
    <3> SUFFICES ASSUME NEW i \in DOMAIN air
                 PROVE  /\ air[i].kind = "single" => Payloads[air[i].send] = 0
                        /\ air[i].kind = "first" => i = Len(air) /\ active' = air[i].send /\ ~Permitted'
                                                    /\ sending'[air[i].send].offset = 0
                        /\ air[i].kind = "chunk" => /\ air[i].chunk \in 1 .. sending'[air[i].send].offset
                                                    /\ Permitted' => air[i].send = active'
      OBVIOUS
    <3>1. air[i].send \in Sends
      BY JsNumbers DEF Frames
    <3>2. sending'[air[i].send].offset = sending[air[i].send].offset
      BY <3>1
    <3> QED BY <3>2 DEF Orderly, InAir
  <2> QED BY <2>1 DEF Orderly, InAir
<1>3. AtReceiver'
  BY <1>1 DEF Orderly, AtReceiver
<1>4. AllWhole'
  BY DEF Orderly, AllWhole, Whole, Piece
<1> QED BY <1>2, <1>3, <1>4

\* A frame goes out behind the others.
LEMMA Appended ==
    ASSUME Orderly, NEW f \in Frames, air' = Append(air, f)
    PROVE  /\ air' \in Seq(Frames) /\ Len(air') = Len(air) + 1 /\ DOMAIN air' = 1 .. Len(air) + 1
           /\ \A i \in DOMAIN air : air'[i] = air[i]
           /\ air'[Len(air) + 1] = f
           /\ \A i \in DOMAIN air' : i \in DOMAIN air \/ i = Len(air) + 1
  BY JsNumbers

\* send(): the first frame, or the single one.
LEMMA SendKeeps ==
    ASSUME Orderly, ~overlapped, NEW k \in Sends, SendPayload(k)
    PROVE  overlapped' \/ Orderly'
<1> SUFFICES ASSUME ~overlapped' PROVE Orderly'
  OBVIOUS
<1>1. sending[k].pc = "off" /\ \A j \in Sends : sending[j].pc # "on"
  BY DEF SendPayload
<1>2. active = 0 /\ flow = <<>> /\ ~Permitted
  BY <1>1 DEF Orderly, InTurn, OnePermit, Permitted
<1>3. sending[k].offset = 0 /\ sending[k].loops = <<>> /\ sending[k] \in Sender
  BY <1>1, JsNumbers DEF Orderly, InTurn
<1> DEFINE f == [kind |-> IF Payloads[k] = 0 THEN "single" ELSE "first", send |-> k, sn |-> 0, chunk |-> 0]
<1>4. PICK sent \in BOOLEAN :
          LET how == IF ~sent /\ strict THEN "rejected" ELSE IF Payloads[k] = 0 THEN "resolved" ELSE "on" IN
          /\ IF sent THEN air' = Append(air, f) ELSE UNCHANGED air
          /\ sending' = [sending EXCEPT ![k].pc = how, ![k].timer = how = "on"]
          /\ active' = IF how = "on" THEN k ELSE 0
  BY DEF SendPayload, Tx
<1> DEFINE how == IF ~sent /\ strict THEN "rejected" ELSE IF Payloads[k] = 0 THEN "resolved" ELSE "on"
           armed == how = "on"
           s == [sending[k] EXCEPT !.pc = how, !.timer = armed]
<1>5. how \in {"on", "resolved", "rejected"} /\ armed \in BOOLEAN /\ (armed <=> how = "on")
      /\ (sent /\ Payloads[k] # 0 => how = "on")
  OBVIOUS
<1>6. sending' = [sending EXCEPT ![k] = s] /\ active' = IF how = "on" THEN k ELSE 0
  BY <1>4
<1> HIDE DEF how, armed
<1>7. s \in Sender /\ s.pc = how /\ s.timer = armed /\ s.offset = 0 /\ s.loops = <<>>
  BY <1>3, <1>5 DEF Sender
<1> HIDE DEF s
<1>8. /\ InTurn' /\ sending'[k] = s
      /\ \A j \in Sends : j # k => sending'[j] = sending[j]
  <2>1. InTurn /\ s.offset <= Payloads[k] /\ s.pc # "off" /\ (s.timer => s.pc = "on")
    BY <1>5, <1>7, JsNumbers DEF Orderly
  <2>2. active' = IF s.pc = "on" THEN k ELSE IF active = k THEN 0 ELSE active
    BY <1>2, <1>6, <1>7
  <2>3. s.pc = "on" => active \in {0, k}
    BY <1>2
  <2> QED BY <1>6, <1>7, <2>1, <2>2, <2>3, Turn
<1>9. flow' = <<>> /\ UNCHANGED <<receiver, received>>
  BY <1>2 DEF SendPayload
<1>10. ~Permitted' /\ OnePermit'
  BY <1>6, <1>7, <1>8, <1>9 DEF Permitted, OnePermit
<1>11. \A j \in Sends : sending'[j].offset = sending[j].offset
  BY <1>3, <1>7, <1>8
<1>12. \A i \in DOMAIN air : air[i].kind # "first"
  BY <1>2, JsNumbers DEF Orderly, InAir, Frames
<1>13. CASE ~sent
  BY <1>4, <1>8, <1>9, <1>10, <1>11, <1>12, <1>13, Calm DEF Orderly
<1>14. CASE sent
  <2>1. f \in Frames /\ f.send = k /\ f.kind # "chunk" /\ (f.kind = "single" <=> Payloads[k] = 0)
        /\ f.kind \in {"single", "first"}
    BY DEF Frames
  <2>2. air' = Append(air, f)
    BY <1>4, <1>14
  <2> HIDE DEF f
  <2>3. /\ air' \in Seq(Frames) /\ Len(air') = Len(air) + 1 /\ DOMAIN air' = 1 .. Len(air) + 1
        /\ \A i \in DOMAIN air : air'[i] = air[i]
        /\ air'[Len(air) + 1] = f
        /\ \A i \in DOMAIN air' : i \in DOMAIN air \/ i = Len(air) + 1
    BY <2>1, <2>2, Appended
  <2>4. \A i \in DOMAIN air' : air'[i].kind # "first" \/ i = Len(air')
    BY <1>12, <2>3
  <2>5. \A i \in DOMAIN air' : air'[i].kind = "chunk" => i \in DOMAIN air /\ air'[i] = air[i]
    BY <2>1, <2>3
  <2>6. \A i \in DOMAIN air' :
          /\ air'[i].kind = "single" => Payloads[air'[i].send] = 0
          /\ air'[i].kind = "first" => i = Len(air') /\ active' = air'[i].send /\ ~Permitted'
                                       /\ sending'[air'[i].send].offset = 0
          /\ air'[i].kind = "chunk" => /\ air'[i].chunk \in 1 .. sending'[air'[i].send].offset
                                       /\ Permitted' => air'[i].send = active'
    <3> SUFFICES ASSUME NEW i \in DOMAIN air'
                 PROVE  /\ air'[i].kind = "single" => Payloads[air'[i].send] = 0
                        /\ air'[i].kind = "first" => i = Len(air') /\ active' = air'[i].send /\ ~Permitted'
                                                     /\ sending'[air'[i].send].offset = 0
                        /\ air'[i].kind = "chunk" => /\ air'[i].chunk \in 1 .. sending'[air'[i].send].offset
                                                     /\ Permitted' => air'[i].send = active'
      OBVIOUS
    <3>1. CASE i \in DOMAIN air
      <4>1. air'[i] = air[i] /\ air[i].send \in Sends
        BY <2>3, <3>1, JsNumbers DEF Frames
      <4>2. sending'[air[i].send].offset = sending[air[i].send].offset
        BY <1>11, <4>1
      <4> QED BY <1>10, <1>12, <3>1, <4>1, <4>2 DEF Orderly, InAir
    <3>2. CASE i = Len(air) + 1
      BY <1>5, <1>6, <1>7, <1>8, <1>10, <1>14, <2>1, <2>3, <3>2
    <3> QED BY <2>3, <3>1, <3>2
  <2>7. InAir'
    <3>1. \A i, j \in DOMAIN air' :
              i < j /\ air'[i].kind = "chunk" /\ air'[j].kind = "chunk" =>
                 air'[i].send = air'[j].send /\ air'[i].chunk < air'[j].chunk
      BY <2>5 DEF Orderly, InAir
    <3> QED BY <2>3, <2>6, <3>1 DEF InAir
  <2>8. AtReceiver'
    <3>1. \A j \in Sends : Filled(receiver.buffer, j) => Filled(receiver.buffer, j)'
      BY <1>9, <1>11 DEF Filled
    <3> QED BY <1>9, <1>10, <2>5, <3>1 DEF Orderly, AtReceiver
  <2>9. AllWhole'
    BY <1>9 DEF Orderly, AllWhole, Whole, Piece
  <2> QED BY <1>8, <1>10, <2>7, <2>8, <2>9 DEF Orderly
<1> QED BY <1>13, <1>14

\* handleFlowControl(): the active send() had none yet.
LEMMA TakeFlowKeeps ==
    ASSUME Orderly, TakeFlow
    PROVE  Orderly'
<1>1. flow = <<"continue">> /\ active # 0 /\ sending[active].loops = <<>> /\ active \in Sends /\ Permitted
  BY DEF TakeFlow, Orderly, OnePermit, InTurn, Permitted
<1> DEFINE ls == Append(sending[active].loops, 0)
           s == [sending[active] EXCEPT !.blockLeft = BlockSize, !.loops = ls]
<1>2. ls \in Seq(Nat) /\ ls # <<>>
  BY <1>1, JsNumbers
<1>3. sending' = [sending EXCEPT ![active] = s] /\ active' = active
  BY <1>1 DEF TakeFlow
<1> HIDE DEF ls
<1>4. /\ s \in Sender /\ s.pc = sending[active].pc /\ s.timer = sending[active].timer
      /\ s.offset = sending[active].offset /\ s.loops = ls
  BY <1>1, <1>2, JsNumbers, PayloadsAssumption DEF Sender
<1> HIDE DEF s
<1>5. sending[active].pc = "on"
  BY <1>1 DEF Orderly, InTurn
<1>6. InTurn' /\ sending'[active] = s /\ \A j \in Sends : j # active => sending'[j] = sending[j]
  <2>1. InTurn /\ s.offset <= Payloads[active] /\ s.pc = "on"
    BY <1>1, <1>4, <1>5, JsNumbers DEF Orderly
  <2>2. PICK k \in Sends : k = active
    BY <1>1
  <2>3. active' = IF s.pc = "on" THEN k ELSE IF active = k THEN 0 ELSE active
    BY <1>3, <2>1, <2>2
  <2>4. sending' = [sending EXCEPT ![k] = s]
    BY <1>3, <2>2
  <2> QED BY <1>4, <2>1, <2>2, <2>3, <2>4, Turn
<1>7. flow' = <<>> /\ UNCHANGED <<air, receiver, received>>
  BY <1>1 DEF TakeFlow
<1>8. OnePermit' /\ \A j \in Sends : sending'[j].offset = sending[j].offset
  BY <1>4, <1>6, <1>7 DEF OnePermit
<1>9. \A i \in DOMAIN air : air[i].kind # "first"
  BY <1>1 DEF Orderly, InAir
<1> QED BY <1>1, <1>3, <1>6, <1>7, <1>8, <1>9, Calm DEF Orderly

\* A settled send().
LEMMA SettledFacts ==
    ASSUME NEW st \in Sender, NEW how \in {"resolved", "rejected"}
    PROVE  /\ Settled(st, how) \in Sender /\ Settled(st, how).pc = how /\ ~Settled(st, how).timer
           /\ Settled(st, how).offset = st.offset /\ Settled(st, how).loops = st.loops
  BY DEF Settled, Sender

\* One turn of _sendConsecutive.
LEMMA ChunkKeeps ==
    ASSUME Orderly, NEW k \in Sends, NEW n, SendChunk(k, n)
    PROVE  Orderly'
<1> DEFINE c == sending[k].offset + 1
           f == [kind |-> "chunk", send |-> k, sn |-> c % SnMod, chunk |-> c]
           ls == [sending[k].loops EXCEPT ![n] = sending[k].loops[n] + 1]
           s == [sending[k] EXCEPT !.offset = c, !.loops = ls]
           st == Settled(sending[k], "rejected")
<1>1. /\ sending[k].pc = "on" /\ n \in DOMAIN sending[k].loops /\ sending[k].offset < Payloads[k]
      /\ UNCHANGED <<receiver, flow, received>>
  BY DEF SendChunk, MoreOfBlock
<1>2. /\ active = k /\ sending[k] \in Sender /\ sending[k].loops # <<>> /\ Permitted /\ flow = <<>>
      /\ c \in Nat /\ c <= Payloads[k] /\ c >= 1
  <2>1. active = k /\ k # 0 /\ sending[k] \in Sender
    BY <1>1, JsNumbers DEF Orderly, InTurn
  <2>2. sending[k].loops # <<>>
    BY <1>1
  <2>3. flow = <<>> /\ Permitted
    BY <2>1, <2>2 DEF Orderly, OnePermit, Permitted
  <2>4. sending[k].offset \in Nat /\ Payloads[k] \in Nat
    BY JsNumbers
  <2>5. c \in Nat /\ c <= Payloads[k] /\ c >= 1
    BY <1>1, <2>4
  <2> QED BY <2>1, <2>2, <2>3, <2>5
<1>3. \/ /\ air' = Append(air, f) \/ UNCHANGED air
         /\ sending' = [sending EXCEPT ![k] = s] /\ active' = active
      \/ /\ UNCHANGED air /\ sending' = [sending EXCEPT ![k] = st] /\ active' = 0
  <2>1. sending[k].offset \in Nat /\ sending[k].loops \in Seq(Nat)
    BY JsNumbers
  <2> QED BY DEF SendChunk, Tx, LetGo
<1>4. \A i \in DOMAIN air : air[i].kind # "first"
  BY <1>2 DEF Orderly, InAir
<1>5. CASE UNCHANGED air /\ sending' = [sending EXCEPT ![k] = st] /\ active' = 0
  <2>1. st \in Sender /\ st.pc = "rejected" /\ ~st.timer /\ st.offset = sending[k].offset
    BY <1>2, SettledFacts
  <2> HIDE DEF st
  <2>2. active' = IF st.pc = "on" THEN k ELSE IF active = k THEN 0 ELSE active
    BY <1>2, <1>5, <2>1
  <2>3. InTurn /\ st.offset <= Payloads[k]
    BY <2>1, JsNumbers DEF Orderly
  <2>4. InTurn' /\ sending'[k] = st /\ \A j \in Sends : j # k => sending'[j] = sending[j]
    BY <1>5, <2>1, <2>2, <2>3, Turn
  <2>5. \A j \in Sends : sending'[j].offset = sending[j].offset
    BY <2>1, <2>4
  <2>6. ~Permitted' /\ OnePermit'
    BY <1>1, <1>2, <1>5 DEF Permitted, OnePermit
  <2> QED BY <1>1, <1>4, <1>5, <2>4, <2>5, <2>6, Calm DEF Orderly
<1>6. CASE /\ air' = Append(air, f) \/ UNCHANGED air
           /\ sending' = [sending EXCEPT ![k] = s] /\ active' = active
  <2>1. ls \in Seq(Nat) /\ ls # <<>>
    <3>1. sending[k].loops \in Seq(Nat) /\ sending[k].loops[n] \in Nat
      BY <1>1, JsNumbers
    <3>2. ls \in Seq(Nat) /\ DOMAIN ls = DOMAIN sending[k].loops
      BY <1>1, <3>1
    <3> HIDE DEF ls
    <3> QED BY <1>1, <3>2
  <2> HIDE DEF ls
  <2>2. /\ s \in Sender /\ s.pc = "on" /\ s.offset = c /\ s.loops = ls
    <3> HIDE DEF c
    <3> QED BY <1>1, <1>2, <2>1 DEF Sender
  <2> HIDE DEF s
  <2>3. active' = IF s.pc = "on" THEN k ELSE IF active = k THEN 0 ELSE active
    BY <1>2, <1>6, <2>2
  <2>4. InTurn' /\ sending'[k] = s /\ \A j \in Sends : j # k => sending'[j] = sending[j]
    <3>1. InTurn /\ s.offset <= Payloads[k]
      BY <1>2, <2>2 DEF Orderly
    <3> QED BY <1>2, <1>6, <2>2, <2>3, <3>1, Turn
  <2>5. OnePermit'
    BY <1>1, <1>2 DEF OnePermit
  <2>6. \A j \in Sends : sending'[j].offset \in Nat /\ sending[j].offset <= sending'[j].offset
    BY <1>2, <2>2, <2>4, JsNumbers
  <2>7. f \in Frames /\ f.kind = "chunk" /\ f.send = k /\ f.chunk = c
    <3>1. c % SnMod \in Nat
      BY <1>2, PayloadsAssumption
    <3> HIDE DEF c
    <3> QED BY <1>2, <3>1 DEF Frames
  <2> HIDE DEF f
  <2>8. \A i \in DOMAIN air : air[i].kind = "chunk" => air[i].send = k /\ air[i].chunk < c
    <3> SUFFICES ASSUME NEW i \in DOMAIN air, air[i].kind = "chunk"
                 PROVE  air[i].send = k /\ air[i].chunk < c
      OBVIOUS
    <3>1. air[i].chunk \in 1 .. sending[air[i].send].offset /\ air[i].send = k
      BY <1>2 DEF Orderly, InAir
    <3>2. sending[k].offset \in Nat
      BY JsNumbers
    <3> QED BY <3>1, <3>2
  <2>9. /\ air' \in Seq(Frames)
        /\ \A i \in DOMAIN air' : \/ i \in DOMAIN air /\ air'[i] = air[i]
                                  \/ air'[i] = f /\ (\A j \in DOMAIN air' : j <= i)
    <3>1. CASE UNCHANGED air
      BY <3>1, JsNumbers
    <3>2. CASE air' = Append(air, f)
      BY <2>7, <3>2, Appended, JsNumbers
    <3> QED BY <1>6, <3>1, <3>2
  <2>10. InAir'
    <3>1. ASSUME NEW i \in DOMAIN air'
          PROVE  /\ air'[i].kind # "first" /\ (air'[i].kind = "single" => Payloads[air'[i].send] = 0)
                 /\ air'[i].kind = "chunk" => /\ air'[i].chunk \in 1 .. sending'[air'[i].send].offset
                                              /\ air'[i].send = active'
      <4>1. CASE i \in DOMAIN air /\ air'[i] = air[i]
        <5>1. air[i].kind # "first" /\ (air[i].kind = "single" => Payloads[air[i].send] = 0)
          BY <1>4, <4>1 DEF Orderly, InAir
        <5>2. ASSUME air[i].kind = "chunk"
              PROVE  air[i].chunk \in 1 .. sending'[air[i].send].offset /\ air[i].send = active'
          <6>1. air[i].send = k /\ air[i].chunk \in 1 .. sending[k].offset
            BY <1>2, <4>1, <5>2 DEF Orderly, InAir
          <6>2. sending[k].offset \in Nat /\ sending'[k].offset \in Nat /\ sending[k].offset <= sending'[k].offset
            BY <2>6, JsNumbers
          <6> QED BY <1>2, <1>6, <6>1, <6>2
        <5> QED BY <4>1, <5>1, <5>2
      <4>2. CASE air'[i] = f
        <5>1. c \in 1 .. sending'[k].offset
          BY <1>2, <2>2, <2>4
        <5> QED BY <1>2, <1>6, <2>7, <4>2, <5>1
      <4> QED BY <2>9, <4>1, <4>2
    <3>2. ASSUME NEW i \in DOMAIN air', NEW j \in DOMAIN air', i < j,
                 air'[i].kind = "chunk", air'[j].kind = "chunk"
          PROVE  air'[i].send = air'[j].send /\ air'[i].chunk < air'[j].chunk
      <4>1. i \in DOMAIN air /\ air'[i] = air[i]
        <5>1. ~(j <= i)
          <6>1. i \in Nat /\ j \in Nat
            BY <2>9
          <6> QED BY <3>2, <6>1
        <5> QED BY <2>9, <5>1
      <4>2. CASE j \in DOMAIN air /\ air'[j] = air[j]
        BY <3>2, <4>1, <4>2 DEF Orderly, InAir
      <4>3. CASE air'[j] = f
        BY <2>7, <2>8, <3>2, <4>1, <4>3
      <4> QED BY <2>9, <4>2, <4>3
    <3> QED BY <2>9, <3>1, <3>2 DEF InAir
  <2>11. AtReceiver'
    <3> SUFFICES ASSUME receiver.on
                 PROVE  \E j \in Sends :
                           /\ receiver.length = Payloads[j] /\ Filled(receiver.buffer, j)'
                           /\ Permitted' => active' = j
                           /\ \A i \in DOMAIN air' : air'[i].kind = "chunk" =>
                                 /\ air'[i].send = j
                                 /\ air'[i].chunk > receiver.buffer[Len(receiver.buffer)].chunk
      BY <1>1 DEF Orderly, AtReceiver
    <3> DEFINE d == receiver.buffer[Len(receiver.buffer)].chunk
    <3>1. /\ receiver.length = Payloads[k] /\ Filled(receiver.buffer, k)
          /\ \A i \in DOMAIN air : air[i].kind = "chunk" => air[i].send = k /\ air[i].chunk > d
      BY <1>2 DEF Orderly, AtReceiver
    <3>2. d \in Nat
      <4>1. receiver.buffer \in Seq(Pieces) /\ Len(receiver.buffer) >= 1
        BY <3>1 DEF Orderly, AtReceiver, Filled
      <4>2. receiver.buffer[Len(receiver.buffer)] \in Pieces
        BY <4>1
      <4> QED BY <4>2 DEF Pieces
    <3>3. d <= sending[k].offset /\ sending[k].offset \in Nat
      BY <3>1, JsNumbers DEF Filled
    <3>4. d <= sending'[k].offset /\ d < c
      BY <2>2, <2>4, <3>2, <3>3
    <3>5. Filled(receiver.buffer, k)'
      BY <1>1, <3>1, <3>4 DEF Filled, Piece
    <3>6. \A i \in DOMAIN air' : air'[i].kind = "chunk" => air'[i].send = k /\ air'[i].chunk > d
      BY <2>7, <2>9, <3>1, <3>2, <3>4
    <3> QED BY <1>2, <1>6, <3>1, <3>5, <3>6
  <2>12. AllWhole'
    BY <1>1 DEF Orderly, AllWhole, Whole, Piece
  <2> QED BY <2>4, <2>5, <2>10, <2>11, <2>12 DEF Orderly
<1> QED BY <1>3, <1>5, <1>6

\* The end of a loop: the send() is done, or the permission is used up.
LEMMA EndLoopKeeps ==
    ASSUME Orderly, NEW k \in Sends, NEW n, EndLoop(k, n)
    PROVE  Orderly'
<1> DEFINE ls == RemoveAt(sending[k].loops, n)
           st == [sending[k] EXCEPT !.loops = ls]
           armed == st.pc = "on"
<1>1. /\ n \in DOMAIN sending[k].loops /\ sending[k].loops # <<>> /\ sending[k] \in Sender
      /\ UNCHANGED <<receiver, air, flow, received>>
  BY JsNumbers DEF EndLoop
<1>2. ls \in Seq(Nat)
  <2>1. sending[k].loops \in Seq(Nat) /\ n \in 1 .. Len(sending[k].loops)
    BY <1>1, JsNumbers
  <2> QED BY <2>1, EditsOfSequence
<1>3. \/ sending[k].pc = "on" /\ sending' = [sending EXCEPT ![k] = Settled(st, "resolved")] /\ active' = 0
      \/ sending' = [sending EXCEPT ![k] = [st EXCEPT !.timer = armed]] /\ active' = active
  BY <1>1 DEF EndLoop, LetGo, Sender
<1> HIDE DEF ls
<1>4. st \in Sender /\ st.pc = sending[k].pc /\ st.offset = sending[k].offset /\ st.loops = ls
  BY <1>1, <1>2 DEF Sender
<1> HIDE DEF st
<1>5. sending[k].pc # "off" /\ st.offset <= Payloads[k] /\ InTurn /\ k # 0
      /\ (sending[k].pc = "on" <=> active = k)
  BY <1>1, <1>4, JsNumbers DEF Orderly, InTurn
<1>6. active = k => Permitted /\ flow = <<>> /\ \A i \in DOMAIN air : air[i].kind # "first"
  BY <1>1, <1>5 DEF Permitted, Orderly, OnePermit, InAir
<1>7. CASE /\ sending[k].pc = "on" /\ sending' = [sending EXCEPT ![k] = Settled(st, "resolved")]
           /\ active' = 0
  <2> DEFINE s == Settled(st, "resolved")
  <2>1. s \in Sender /\ s.pc = "resolved" /\ ~s.timer /\ s.offset = sending[k].offset
    BY <1>4, SettledFacts
  <2>2. sending' = [sending EXCEPT ![k] = s]
    BY <1>7
  <2> HIDE DEF s
  <2>3. active' = IF s.pc = "on" THEN k ELSE IF active = k THEN 0 ELSE active
    BY <1>5, <1>7, <2>1
  <2>4. InTurn' /\ sending'[k] = s /\ \A j \in Sends : j # k => sending'[j] = sending[j]
    BY <1>4, <1>5, <2>1, <2>2, <2>3, Turn
  <2>5. \A j \in Sends : sending'[j].offset = sending[j].offset
    BY <2>1, <2>4
  <2>6. ~Permitted' /\ OnePermit'
    BY <1>1, <1>5, <1>6, <1>7 DEF Permitted, OnePermit
  <2> QED BY <1>1, <1>5, <1>6, <1>7, <2>4, <2>5, <2>6, Calm DEF Orderly
<1>8. CASE sending' = [sending EXCEPT ![k] = [st EXCEPT !.timer = armed]] /\ active' = active
  <2> DEFINE s == [st EXCEPT !.timer = armed]
  <2>1. armed \in BOOLEAN /\ (armed <=> st.pc = "on")
    OBVIOUS
  <2>2. sending' = [sending EXCEPT ![k] = s]
    BY <1>8
  <2> HIDE DEF armed
  <2>3. s \in Sender /\ s.pc = st.pc /\ s.timer = armed /\ s.offset = st.offset /\ s.loops = ls
    BY <1>4, <2>1 DEF Sender
  <2> HIDE DEF s
  <2>4. active' = IF s.pc = "on" THEN k ELSE IF active = k THEN 0 ELSE active
    BY <1>4, <1>5, <1>8, <2>3
  <2>5. InTurn' /\ sending'[k] = s /\ \A j \in Sends : j # k => sending'[j] = sending[j]
    BY <1>4, <1>5, <2>1, <2>2, <2>3, <2>4, Turn
  <2>6. \A j \in Sends : sending'[j].offset = sending[j].offset
    BY <1>4, <2>3, <2>5
  <2>7. active \in Sends \cup {0} /\ (active # k /\ active # 0 => sending'[active] = sending[active])
    BY <2>5 DEF Orderly, InTurn
  <2>8. (Permitted' => Permitted) /\ OnePermit'
    BY <1>1, <1>6, <1>8, <2>7 DEF Permitted, Orderly, OnePermit
  <2> QED BY <1>1, <1>8, <2>5, <2>6, <2>8, Calm DEF Orderly
<1> QED BY <1>3, <1>7, <1>8

\* No flow control came: the send() fails.
LEMMA FlowTimeoutKeeps ==
    ASSUME Orderly, NEW k \in Sends, FlowTimeout(k)
    PROVE  Orderly'
<1> DEFINE s == Settled(sending[k], "rejected")
<1>1. /\ sending[k].timer /\ air = <<>> /\ flow = <<>>
      /\ sending' = [sending EXCEPT ![k] = s] /\ active' = 0
      /\ UNCHANGED <<receiver, air, flow, received>>
  BY DEF FlowTimeout, NothingInAir, LetGo
<1>2. s \in Sender /\ s.pc = "rejected" /\ ~s.timer /\ s.offset = sending[k].offset
  BY JsNumbers, SettledFacts
<1> HIDE DEF s
<1>3. active = k /\ InTurn /\ s.offset <= Payloads[k]
  BY <1>1, <1>2, JsNumbers DEF Orderly, InTurn
<1>4. InTurn' /\ sending'[k] = s /\ \A j \in Sends : j # k => sending'[j] = sending[j]
  <2>1. active' = IF s.pc = "on" THEN k ELSE IF active = k THEN 0 ELSE active
    BY <1>1, <1>2, <1>3
  <2> QED BY <1>1, <1>2, <1>3, <2>1, Turn
<1>5. \A j \in Sends : sending'[j].offset = sending[j].offset
  BY <1>2, <1>4
<1>6. ~Permitted' /\ OnePermit' /\ \A i \in DOMAIN air : air[i].kind # "first"
  BY <1>1 DEF Permitted, OnePermit
<1> QED BY <1>1, <1>4, <1>5, <1>6, Calm DEF Orderly

\* A lost permission stops the send(), the receiver's timer what it had.
LEMMA LossesKeep ==
    ASSUME Orderly, LoseFlow \/ ChunkTimeout
    PROVE  Orderly'
<1>1. UNCHANGED <<sending, active, air, received>> /\ InTurn'
  BY DEF LoseFlow, ChunkTimeout, Orderly, InTurn
<1>2. CASE LoseFlow
  <2>1. flow' = <<>> /\ UNCHANGED receiver /\ OnePermit' /\ ~Permitted'
    BY <1>1, <1>2 DEF LoseFlow, Orderly, OnePermit, Permitted
  <2> QED BY <1>1, <2>1, Calm DEF Orderly
<1>3. CASE ChunkTimeout
  <2>1. receiver' = [receiver EXCEPT !.on = FALSE] /\ UNCHANGED flow
    BY <1>3 DEF ChunkTimeout
  <2>2. AtReceiver'
    BY <2>1 DEF Orderly, AtReceiver
  <2>3. OnePermit' /\ InAir' /\ AllWhole'
    BY <1>1, <2>1 DEF Orderly, OnePermit, InAir, Permitted, AllWhole, Whole, Piece
  <2> QED BY <1>1, <2>2, <2>3 DEF Orderly
<1> QED BY <1>2, <1>3

\* The frame that is there first is taken away.
LEMMA Taken ==
    ASSUME Orderly, air # <<>>, air' = Tail(air)
    PROVE  /\ 1 \in DOMAIN air /\ Head(air) = air[1] /\ air[1] \in Frames
           /\ Len(air') = Len(air) - 1 /\ air' \in Seq(Frames) /\ DOMAIN air' = 1 .. Len(air) - 1
           /\ \A i \in DOMAIN air' : i + 1 \in DOMAIN air /\ air'[i] = air[i + 1]
  BY JsNumbers

\* A first frame: the receiver starts over, and answers.
LEMMA FirstKeeps ==
    ASSUME Orderly, OnFrame, TakeFirst(Head(air))
    PROVE  Orderly'
<1>0. PICK k : k = air[1].send
  OBVIOUS
<1>1. /\ air # <<>> /\ air' = Tail(air) /\ UNCHANGED <<sending, active>>
  BY DEF OnFrame
<1>2. /\ 1 \in DOMAIN air /\ Head(air) = air[1] /\ air[1] \in Frames
      /\ Len(air') = Len(air) - 1 /\ air' \in Seq(Frames)
  BY <1>1, Taken
<1>3. /\ air[1].kind = "first" /\ UNCHANGED received /\ flow' = Append(flow, "continue")
      /\ receiver' = [on |-> TRUE, expected |-> 1 % SnMod, length |-> Payloads[k], buffer |-> <<Piece(k, 0)>>]
  BY <1>0, <1>2 DEF TakeFirst
<1>4. Len(air) = 1 /\ active = k /\ ~Permitted /\ k \in Sends /\ k # 0
  BY <1>0, <1>2, <1>3, JsNumbers DEF Orderly, InAir, Frames
<1>5. flow = <<>> /\ sending[k].loops = <<>>
  BY <1>4 DEF Permitted
<1>6. InTurn' /\ OnePermit'
  <2>1. flow' = <<"continue">>
    BY <1>3, <1>5
  <2> QED BY <1>1, <1>4, <1>5, <2>1 DEF Orderly, InTurn, OnePermit
<1>7. DOMAIN air' = {}
  BY <1>2, <1>4
<1>8. InAir'
  BY <1>2, <1>7 DEF InAir
<1>9. AtReceiver'
  <2> DEFINE b == <<Piece(k, 0)>>
  <2>1. sending'[k].offset \in Nat /\ Payloads[k] \in Nat /\ 1 % SnMod \in Nat
    BY <1>1, <1>4, JsNumbers, PayloadsAssumption
  <2>2. b \in Seq(Pieces) /\ Len(b) = 1 /\ b[1] = Piece(k, 0) /\ b[1].chunk = 0
    BY <1>4 DEF Pieces, Piece
  <2>3. receiver'.on = TRUE /\ receiver'.length = Payloads[k] /\ receiver'.buffer = b
    BY <1>3
  <2>4. receiver' \in [on : BOOLEAN, expected : Nat, length : Nat, buffer : Seq(Pieces)]
    BY <1>3, <2>1, <2>2
  <2> HIDE DEF b
  <2>5. Len(b) >= 1 /\ b[Len(b)].chunk <= sending'[k].offset
        /\ b[Len(b)].chunk = Len(b) - 1 /\ \A i \in 1 .. Len(b) : b[i] = Piece(k, i - 1)
    BY <2>1, <2>2
  <2>6. Filled(receiver.buffer, k)'
    BY <2>3, <2>5 DEF Filled, Piece
  <2>7. active' = k
    BY <1>1, <1>4
  <2> QED BY <1>4, <1>7, <2>3, <2>4, <2>6, <2>7 DEF AtReceiver
<1>10. AllWhole'
  BY <1>3 DEF Orderly, AllWhole, Whole, Piece
<1> QED BY <1>6, <1>8, <1>9, <1>10 DEF Orderly

\* Another frame: what it leaves on its way is still in order.
LEMMA OthersInAir ==
    ASSUME Orderly, OnFrame, UNCHANGED flow
    PROVE  InTurn' /\ OnePermit' /\ InAir' /\ (Permitted' <=> Permitted)
<1>1. /\ air # <<>> /\ air' = Tail(air) /\ UNCHANGED <<sending, active>>
  BY DEF OnFrame
<1>2. /\ Len(air') = Len(air) - 1 /\ air' \in Seq(Frames) /\ DOMAIN air' = 1 .. Len(air) - 1
      /\ \A i \in DOMAIN air' : i + 1 \in DOMAIN air /\ air'[i] = air[i + 1]
  BY <1>1, Taken
<1>3. Permitted' <=> Permitted
  BY <1>1 DEF Permitted
<1>4. ASSUME NEW i \in DOMAIN air'
      PROVE  /\ air'[i].kind = "single" => Payloads[air'[i].send] = 0
             /\ air'[i].kind = "first" => i = Len(air') /\ active' = air'[i].send /\ ~Permitted'
                                          /\ sending'[air'[i].send].offset = 0
             /\ air'[i].kind = "chunk" => /\ air'[i].chunk \in 1 .. sending'[air'[i].send].offset
                                          /\ Permitted' => air'[i].send = active'
  <2>1. i \in Nat /\ i + 1 \in DOMAIN air /\ air'[i] = air[i + 1] /\ Len(air) \in Nat
    BY <1>2, <1>4, JsNumbers
  <2>2. i + 1 = Len(air) => i = Len(air')
    BY <1>2, <2>1
  <2> QED BY <1>1, <1>3, <2>1, <2>2 DEF Orderly, InAir
<1>5. ASSUME NEW i \in DOMAIN air', NEW j \in DOMAIN air', i < j,
             air'[i].kind = "chunk", air'[j].kind = "chunk"
      PROVE  air'[i].send = air'[j].send /\ air'[i].chunk < air'[j].chunk
  <2>1. i + 1 \in DOMAIN air /\ j + 1 \in DOMAIN air /\ air'[i] = air[i + 1] /\ air'[j] = air[j + 1]
    BY <1>2, <1>5
  <2>2. i + 1 < j + 1
    BY <1>2, <1>5
  <2> QED BY <1>5, <2>1, <2>2 DEF Orderly, InAir
<1>6. InAir'
  BY <1>2, <1>4, <1>5 DEF InAir
<1>7. InTurn' /\ OnePermit'
  BY <1>1 DEF Orderly, InTurn, OnePermit
<1> QED BY <1>3, <1>6, <1>7

\* A single frame is a whole payload.
LEMMA SingleKeeps ==
    ASSUME Orderly, OnFrame, TakeSingle(Head(air))
    PROVE  Orderly'
<1>0. PICK k : k = air[1].send
  OBVIOUS
<1>1. 1 \in DOMAIN air /\ Head(air) = air[1] /\ air[1] \in Frames
  BY Taken DEF OnFrame
<1>2. /\ air[1].kind = "single" /\ UNCHANGED flow
      /\ received' = received \cup {<<Piece(k, 0)>>} /\ receiver' = Resting
  BY <1>0, <1>1 DEF TakeSingle, Deliver
<1>3. k \in Sends /\ Payloads[k] = 0
  BY <1>0, <1>1, <1>2 DEF Orderly, InAir, Frames
<1>4. Whole(k) = <<Piece(k, 0)>>
  <2>1. Whole(k) = [i \in 1 .. 1 |-> Piece(k, i - 1)]
    BY <1>3 DEF Whole
  <2>2. [i \in 1 .. 1 |-> Piece(k, i - 1)] = <<Piece(k, 0)>>
    BY DEF Piece
  <2> QED BY <2>1, <2>2
<1>5. AllWhole'
  <2>1. <<Piece(k, 0)>> \in {Whole(j) : j \in Sends}
    BY <1>3, <1>4
  <2>2. received' \subseteq {Whole(j) : j \in Sends}
    BY <1>2, <2>1 DEF Orderly, AllWhole
  <2> QED BY <2>2 DEF AllWhole, Whole, Piece
<1>6. AtReceiver'
  <2>1. Resting \in [on : BOOLEAN, expected : Nat, length : Nat, buffer : Seq(Pieces)] /\ ~Resting.on
    BY DEF Resting
  <2> QED BY <1>2, <2>1 DEF AtReceiver
<1> QED BY <1>2, <1>5, <1>6, OthersInAir DEF Orderly

\* The chunk that comes next fills the buffer on.
LEMMA FillOn ==
    ASSUME Orderly, NEW k \in Sends, NEW b \in Seq(Pieces), Filled(b, k),
           NEW c \in Nat, b[Len(b)].chunk < c, c <= sending[k].offset
    PROVE  LET e == Append(b, Piece(k, c)) IN
           /\ e \in Seq(Pieces) /\ Len(e) = Len(b) + 1 /\ e[Len(e)].chunk = c /\ Filled(e, k)
           /\ Len(e) > Payloads[k] => e = Whole(k)
<1> DEFINE e == Append(b, Piece(k, c))
           m == Len(b)
           d == b[m].chunk
<1>1. m \in Nat /\ m >= 1 /\ DOMAIN b = 1 .. m /\ b[m] \in Pieces
  <2>1. m \in Nat /\ m >= 1 /\ DOMAIN b = 1 .. m
    BY DEF Filled
  <2> QED BY <2>1
<1>2. d \in Nat
  BY <1>1 DEF Pieces
<1>3. Piece(k, c) \in Pieces /\ Piece(k, c).chunk = c
  BY DEF Pieces, Piece
<1>4. /\ e \in Seq(Pieces) /\ Len(e) = m + 1 /\ e[m + 1] = Piece(k, c)
      /\ \A i \in 1 .. m : e[i] = b[i]
  BY <1>1, <1>3
<1>5. d >= m \/ (d = m - 1 /\ \A i \in 1 .. m : b[i] = Piece(k, i - 1))
  BY DEF Filled
<1> HIDE DEF d
<1>6. c >= m + 1 \/ (c = m /\ \A i \in 1 .. m : b[i] = Piece(k, i - 1))
  BY <1>1, <1>2, <1>5 DEF d
<1> HIDE DEF m, e
<1>7. c = m /\ (\A i \in 1 .. m : b[i] = Piece(k, i - 1)) => \A i \in 1 .. m + 1 : e[i] = Piece(k, i - 1)
  <2> SUFFICES ASSUME c = m, \A i \in 1 .. m : b[i] = Piece(k, i - 1), NEW i \in 1 .. m + 1
               PROVE  e[i] = Piece(k, i - 1)
    OBVIOUS
  <2>1. CASE i \in 1 .. m
    BY <1>4, <2>1
  <2>2. CASE i = m + 1
    <3>1. i - 1 = c
      BY <1>1, <2>2
    <3> QED BY <1>4, <2>2, <3>1
  <2> QED BY <1>1, <2>1, <2>2
<1>8. e[Len(e)].chunk = c /\ Len(e) = m + 1
  BY <1>3, <1>4
<1>9. Filled(e, k)
  <2>1. m + 1 >= 1 /\ (c >= m + 1 \/ (c = m + 1 - 1 /\ \A i \in 1 .. m + 1 : e[i] = Piece(k, i - 1)))
    BY <1>1, <1>6, <1>7
  <2>2. e[Len(e)].chunk <= sending[k].offset
    BY <1>8
  <2>3. Len(e) >= 1 /\ (e[Len(e)].chunk >= Len(e)
                         \/ (e[Len(e)].chunk = Len(e) - 1 /\ \A i \in 1 .. Len(e) : e[i] = Piece(k, i - 1)))
    BY <1>1, <1>8, <2>1
  <2> QED BY <2>2, <2>3 DEF Filled
<1>10. ASSUME m + 1 > Payloads[k]
       PROVE  e = Whole(k)
  <2>1. sending[k].offset <= Payloads[k] /\ sending[k].offset \in Nat /\ Payloads[k] \in Nat
    BY JsNumbers
  <2>2. c = m /\ m = Payloads[k]
    BY <1>1, <1>6, <1>10, <2>1
  <2>3. \A i \in 1 .. m + 1 : e[i] = Piece(k, i - 1)
    BY <1>1, <1>6, <1>7, <2>2
  <2>4. e = [i \in 1 .. m + 1 |-> e[i]]
    BY <1>4
  <2>5. e = [i \in 1 .. m + 1 |-> Piece(k, i - 1)]
    BY <2>3, <2>4
  <2> QED BY <2>2, <2>5 DEF Whole
<1> QED BY <1>4, <1>8, <1>9, <1>10 DEF e, m

\* A chunk: what completes a payload is the last one of it.
LEMMA ChunkTakenKeeps ==
    ASSUME Orderly, OnFrame, TakeChunk(Head(air))
    PROVE  Orderly'
<1> DEFINE f == air[1]
           b == Append(receiver.buffer, Piece(f.send, f.chunk))
<1>1. /\ air # <<>> /\ air' = Tail(air) /\ UNCHANGED <<sending, active>>
  BY DEF OnFrame
<1>2. /\ 1 \in DOMAIN air /\ Head(air) = f /\ f \in Frames /\ DOMAIN air' = 1 .. Len(air) - 1
      /\ \A i \in DOMAIN air' : i + 1 \in DOMAIN air /\ air'[i] = air[i + 1]
  BY <1>1, Taken
<1>3. f.kind = "chunk" /\ UNCHANGED flow /\ InTurn' /\ OnePermit' /\ InAir' /\ (Permitted' <=> Permitted)
  BY <1>2, OthersInAir DEF TakeChunk
<1>4. CASE ~Expected(f)
  <2>1. receiver' = [receiver EXCEPT !.on = FALSE] /\ UNCHANGED received
    BY <1>2, <1>4 DEF TakeChunk
  <2>2. AtReceiver'
    BY <2>1 DEF Orderly, AtReceiver
  <2>3. AllWhole'
    BY <2>1 DEF Orderly, AllWhole, Whole, Piece
  <2> QED BY <1>3, <2>2, <2>3 DEF Orderly
<1>5. CASE Expected(f)
  <2>1. PICK k \in Sends :
             /\ receiver.length = Payloads[k] /\ Filled(receiver.buffer, k)
             /\ Permitted => active = k
             /\ \A i \in DOMAIN air : air[i].kind = "chunk" =>
                   air[i].send = k /\ air[i].chunk > receiver.buffer[Len(receiver.buffer)].chunk
    BY <1>5 DEF Expected, Orderly, AtReceiver
  <2>2. f.send = k /\ f.chunk > receiver.buffer[Len(receiver.buffer)].chunk /\ f.chunk \in Nat
        /\ f.chunk <= sending[k].offset
    <3>1. f.send = k /\ f.chunk > receiver.buffer[Len(receiver.buffer)].chunk
      BY <1>2, <1>3, <2>1
    <3>2. f.chunk \in 1 .. sending[k].offset /\ sending[k].offset \in Nat
      BY <1>2, <1>3, <3>1, JsNumbers DEF Orderly, InAir
    <3> QED BY <3>1, <3>2
  <2>3. receiver.buffer \in Seq(Pieces) /\ receiver.expected \in Nat /\ receiver.on \in BOOLEAN
        /\ receiver \in [on : BOOLEAN, expected : Nat, length : Nat, buffer : Seq(Pieces)]
    BY DEF Orderly, AtReceiver
  <2>4. /\ b \in Seq(Pieces) /\ b[Len(b)].chunk = f.chunk /\ Filled(b, k)
        /\ Len(b) > Payloads[k] => b = Whole(k)
    <3>1. receiver.buffer[Len(receiver.buffer)].chunk < f.chunk
      <4>1. Len(receiver.buffer) \in DOMAIN receiver.buffer
        BY <2>1, <2>3 DEF Filled
      <4>2. receiver.buffer[Len(receiver.buffer)] \in Pieces
        BY <2>3, <4>1
      <4>3. receiver.buffer[Len(receiver.buffer)].chunk \in Nat
        BY <4>2 DEF Pieces
      <4> QED BY <2>2, <4>3
    <3> QED BY <2>1, <2>2, <2>3, <3>1, FillOn
  <2>5. \/ Len(b) > Payloads[k] /\ received' = received \cup {b} /\ receiver' = Resting
        \/ /\ receiver' = [receiver EXCEPT !.buffer = b, !.expected = (receiver.expected + 1) % SnMod]
           /\ UNCHANGED received
    BY <1>2, <1>5, <2>1 DEF TakeChunk, Enough, Deliver
  <2> HIDE DEF b
  <2>6. CASE Len(b) > Payloads[k] /\ received' = received \cup {b} /\ receiver' = Resting
    <3>1. AllWhole'
      BY <2>4, <2>6 DEF Orderly, AllWhole, Whole, Piece
    <3>2. Resting \in [on : BOOLEAN, expected : Nat, length : Nat, buffer : Seq(Pieces)] /\ ~Resting.on
      BY DEF Resting
    <3>3. AtReceiver'
      BY <2>6, <3>2 DEF AtReceiver
    <3> QED BY <1>3, <3>1, <3>3 DEF Orderly
  <2>7. CASE /\ receiver' = [receiver EXCEPT !.buffer = b, !.expected = (receiver.expected + 1) % SnMod]
             /\ UNCHANGED received
    <3> DEFINE e == (receiver.expected + 1) % SnMod
    <3>1. e \in Nat
      BY <2>3, PayloadsAssumption
    <3>2. receiver' = [receiver EXCEPT !.buffer = b, !.expected = e]
      BY <2>7
    <3> HIDE DEF e
    <3>3. /\ receiver' \in [on : BOOLEAN, expected : Nat, length : Nat, buffer : Seq(Pieces)]
          /\ receiver'.length = Payloads[k] /\ receiver'.buffer = b
      BY <2>1, <2>3, <2>4, <3>1, <3>2
    <3>4. Filled(receiver.buffer, k)'
      BY <1>1, <2>4, <3>3 DEF Filled, Piece
    <3>5. ASSUME NEW i \in DOMAIN air', air'[i].kind = "chunk"
          PROVE  air'[i].send = k /\ air'[i].chunk > b[Len(b)].chunk
      <4>1. i + 1 \in DOMAIN air /\ air'[i] = air[i + 1] /\ 1 < i + 1
        BY <1>2, <3>5
      <4>2. air[i + 1].send = k /\ air[1].chunk < air[i + 1].chunk
        BY <1>2, <1>3, <2>1, <3>5, <4>1 DEF Orderly, InAir
      <4>3. air[1].chunk \in Nat /\ air[i + 1].chunk \in Nat
        BY <1>2, <4>1, JsNumbers DEF Frames
      <4> QED BY <2>4, <4>1, <4>2, <4>3
    <3>6. AtReceiver'
      BY <1>1, <1>3, <2>1, <3>3, <3>4, <3>5 DEF AtReceiver
    <3>7. AllWhole'
      BY <2>7 DEF Orderly, AllWhole, Whole, Piece
    <3> QED BY <1>3, <3>6, <3>7 DEF Orderly
  <2> QED BY <2>5, <2>6, <2>7
<1> QED BY <1>4, <1>5

\* Nothing is sent, nobody is at it.
LEMMA JsStart ==
    ASSUME JsInit
    PROVE  Orderly
<1>1. Unsent \in Sender /\ Unsent.pc = "off" /\ Unsent.offset = 0 /\ Unsent.loops = <<>> /\ ~Unsent.timer
  BY DEF Unsent, Sender
<1>2. \A k \in Sends : sending[k] = Unsent /\ Payloads[k] \in Nat
  BY PayloadsAssumption DEF JsInit, Sends
<1>3. 0 \notin Sends
  BY PayloadsAssumption DEF Sends
<1>4. InTurn
  <2>1. sending \in [Sends -> Sender] /\ active = 0
    BY <1>1 DEF JsInit
  <2> QED BY <1>1, <1>2, <1>3, <2>1 DEF InTurn
<1>5. OnePermit /\ AllWhole
  BY DEF JsInit, OnePermit, AllWhole
<1>6. InAir
  <2>1. air = <<>>
    BY DEF JsInit
  <2>2. air \in Seq(Frames) /\ DOMAIN air = {}
    BY <2>1
  <2> QED BY <2>2 DEF InAir
<1>7. AtReceiver
  <2>1. Resting \in [on : BOOLEAN, expected : Nat, length : Nat, buffer : Seq(Pieces)] /\ ~Resting.on
    BY DEF Resting
  <2> QED BY <2>1 DEF JsInit, AtReceiver
<1> QED BY <1>4, <1>5, <1>6, <1>7 DEF Orderly

\* Once a send() overlapped another, nothing is said any more.
LEMMA OverlapStays ==
    ASSUME JsNext, overlapped
    PROVE  overlapped'
<1>1. overlapped' = overlapped \/ \E k \in Sends : SendPayload(k)
  BY DEF JsNext, Advancing, FlowTimeout, SendChunk, EndLoop, TakeFlow, OnFrame, LoseFlow, ChunkTimeout
<1> QED BY <1>1 DEF SendPayload

\* What reaches onMessage is one payload, whole and in order, whatever payloads
\* are sent, in blocks of whatever size, and whichever frames the bus drops, as
\* long as every send() waits for the one before: the numbers that wrap never
\* hide a lost frame, since permission comes once (IsoTpReceiver.onFrame).
THEOREM ReceivedWholeAlways == JsSpec => []ReceivedWhole
<1>1. JsInit => JsInv
  BY JsStart DEF JsInv
<1>2. JsInv /\ [JsNext]_jsVars => JsInv'
  <2> SUFFICES ASSUME JsInv, [JsNext]_jsVars PROVE JsInv'
    OBVIOUS
  <2>1. CASE overlapped /\ JsNext
    BY <2>1, OverlapStays DEF JsInv
  <2>2. CASE UNCHANGED jsVars
    BY <2>2 DEF jsVars, JsInv, Orderly, InTurn, OnePermit, InAir, AtReceiver, AllWhole, Permitted, Filled, Whole, Piece
  <2>3. CASE ~overlapped /\ JsNext
    <3>1. Orderly
      BY <2>3 DEF JsInv
    <3>2. ASSUME NEW k \in Sends, SendPayload(k) PROVE JsInv'
      BY <2>3, <3>1, <3>2, SendKeeps DEF JsInv
    <3>3. ASSUME NEW k \in Sends, FlowTimeout(k) PROVE JsInv'
      BY <3>1, <3>3, FlowTimeoutKeeps DEF JsInv
    <3>4. ASSUME NEW k \in Sends, NEW n, SendChunk(k, n) PROVE JsInv'
      BY <3>1, <3>4, ChunkKeeps DEF JsInv
    <3>5. ASSUME NEW k \in Sends, NEW n, EndLoop(k, n) PROVE JsInv'
      BY <3>1, <3>5, EndLoopKeeps DEF JsInv
    <3>6. CASE TakeFlow
      BY <3>1, <3>6, TakeFlowKeeps DEF JsInv
    <3>7. CASE OnFrame
      <4>1. TakeFirst(Head(air)) \/ TakeSingle(Head(air)) \/ TakeChunk(Head(air))
        BY <3>7 DEF OnFrame
      <4> QED BY <3>1, <3>7, <4>1, FirstKeeps, SingleKeeps, ChunkTakenKeeps DEF JsInv
    <3>8. CASE LoseFlow \/ ChunkTimeout
      BY <3>1, <3>8, LossesKeep DEF JsInv
    <3> QED BY <2>3, <3>2, <3>3, <3>4, <3>5, <3>6, <3>7, <3>8 DEF JsNext, Advancing
  <2> QED BY <2>1, <2>2, <2>3
<1>3. JsInv => ReceivedWhole
  BY DEF JsInv, Orderly, AllWhole, ReceivedWhole
<1> QED BY <1>1, <1>2, <1>3, PTL DEF JsSpec

-----------------------------------------------------------------------------
(* SessionWatch: no timer is forgotten while it runs.                      *)

\* While nothing crossed and no join() gave up: one caller is in a call, every
\* thread is that of the timer in _watchdog, a timer is created and started for
\* another session while there is none, and what is joined was told to stop.
WatchOrder ==
    /\ \A c, e \in Callers : changer[c] # "idle" /\ changer[e] # "idle" => c = e
    /\ \A d \in Dogs : Running(d) => watchdog = d /\ dog[d].pc # "join"
    /\ \A c \in Callers :
          /\ changer[c] \in {"create", "begin"} => activeSession = "other"
          /\ changer[c] = "start" /\ watchdog = 0 => activeSession = "other"
          /\ changer[c] = "create" => watchdog = 0
          /\ changer[c] = "begin" => watchdog # 0 /\ dog[watchdog].pc = "made"
          /\ changer[c] = "join" => \A d \in Dogs : ~Awake(d)
    /\ activeSession = "default" /\ (\A c \in Callers : changer[c] \notin {"restart", "stop", "halt", "join"}) =>
          \A d \in Dogs : Awake(d) => dog[d].pc \in {"reset", "halt"}

WatchInv == WatchTypeOK /\ (~crossed /\ ~gaveUp => WatchOrder)

\* A timer's fields.
LEMMA DogFields ==
    ASSUME WatchTypeOK, NEW d \in Dogs
    PROVE  dog[d].pc \in DogPc /\ dog[d].stop \in BOOLEAN /\ d # 0
  BY DEF WatchTypeOK, Dogs

\* One timer goes to another place.
LEMMA DogMoves ==
    ASSUME WatchTypeOK, NEW d \in Dogs, NEW pc \in DogPc, DogGoes(d, pc)
    PROVE  /\ dog' \in [Dogs -> [pc : DogPc, stop : BOOLEAN]]
           /\ dog'[d].pc = pc
           /\ \A e \in Dogs : dog'[e].stop = dog[e].stop /\ (e # d => dog'[e].pc = dog[e].pc)
  BY DEF WatchTypeOK, DogGoes

\* One caller goes to another place.
LEMMA CallerMoves ==
    ASSUME WatchTypeOK, NEW c \in Callers, NEW pc \in CallerPc, Goes(c, pc)
    PROVE  /\ changer' \in [Callers -> CallerPc]
           /\ changer'[c] = pc /\ \A e \in Callers : e # c => changer'[e] = changer[e]
  BY DEF WatchTypeOK, Goes

\* A call keeps the order when it crosses no other.
LEMMA CallsKeep ==
    ASSUME WatchInv, NEW c \in Callers, Reset(c) \/ \E s \in {"default", "other"} : ApplyChange(c, s)
    PROVE  WatchInv'
<1>1. PICK pc \in {"restart", "stop"}, s \in {"default", "other"} :
         /\ Called(c) /\ Goes(c, pc) /\ activeSession' = s /\ expired' = FALSE
         /\ UNCHANGED <<watchdog, dog, bitten, gaveUp>>
  BY DEF Reset, ApplyChange
<1>2. WatchTypeOK
  BY DEF WatchInv
<1>3. changer' \in [Callers -> CallerPc] /\ changer'[c] = pc /\ \A e \in Callers : e # c => changer'[e] = changer[e]
  BY <1>1, <1>2, CallerMoves DEF CallerPc
<1>4. WatchTypeOK'
  <2>1. changes' \in 0 .. MaxChanges
    BY <1>1, <1>2, WatchAssumption DEF WatchTypeOK, Called
  <2>2. crossed' \in BOOLEAN
    BY <1>1 DEF Called
  <2> QED BY <1>1, <1>2, <1>3, <2>1, <2>2 DEF WatchTypeOK
<1>5. ASSUME ~crossed', ~gaveUp' PROVE WatchOrder'
  <2>1. ~crossed /\ ~gaveUp /\ \A e \in Callers : e # c => changer[e] = "idle"
    BY <1>1, <1>2, <1>5 DEF Called, WatchTypeOK
  <2>2. WatchOrder
    BY <2>1 DEF WatchInv
  <2>3. \A d \in Dogs : (Running(d)' <=> Running(d)) /\ (Awake(d)' <=> Awake(d)) /\ dog'[d] = dog[d]
    BY <1>1 DEF Running, Awake
  <2> QED BY <1>1, <1>3, <2>1, <2>2, <2>3 DEF WatchOrder
<1> QED BY <1>4, <1>5 DEF WatchInv

\* A caller's steps before it creates or joins a timer: it looks, and goes on.
LEMMA LooksKeep ==
    ASSUME WatchInv, NEW c \in Callers, RestartWatchdog(c) \/ FindNone(c) \/ StopWatchdog(c)
    PROVE  WatchInv'
<1>1. PICK pc \in CallerPc :
         /\ Goes(c, pc) /\ UNCHANGED <<activeSession, expired, watchdog, dog, changes, bitten, crossed, gaveUp>>
         /\ \/ changer[c] = "restart" /\ activeSession = "other" /\ pc = "start"
            \/ changer[c] = "restart" /\ activeSession # "other" /\ pc = "stop"
            \/ changer[c] = "start" /\ watchdog = 0 /\ pc = "create"
            \/ changer[c] = "start" /\ watchdog # 0 /\ pc = "idle"
            \/ changer[c] = "stop" /\ watchdog = 0 /\ pc = "idle"
            \/ changer[c] = "stop" /\ watchdog # 0 /\ pc = "halt"
  BY DEF RestartWatchdog, FindNone, StopWatchdog, CallerPc
<1>2. WatchTypeOK
  BY DEF WatchInv
<1>3. changer' \in [Callers -> CallerPc] /\ changer'[c] = pc /\ \A e \in Callers : e # c => changer'[e] = changer[e]
  BY <1>1, <1>2, CallerMoves
<1>4. WatchTypeOK'
  BY <1>1, <1>2, <1>3 DEF WatchTypeOK
<1>5. ASSUME ~crossed', ~gaveUp' PROVE WatchOrder'
  <2>1. WatchOrder
    BY <1>1, <1>5 DEF WatchInv
  <2>2. \A d \in Dogs : (Running(d)' <=> Running(d)) /\ (Awake(d)' <=> Awake(d)) /\ dog'[d] = dog[d]
    BY <1>1 DEF Running, Awake
  <2>3. \A e \in Callers : e # c => changer[e] = "idle" /\ changer'[e] = "idle"
    BY <1>1, <1>3, <2>1 DEF WatchOrder
  <2>4. ASSUME watchdog = 0, NEW d \in Dogs PROVE ~Awake(d)
    BY <1>2, <2>1, <2>4, DogFields DEF WatchOrder, Awake
  <2> QED BY <1>1, <1>2, <1>3, <2>1, <2>2, <2>3, <2>4 DEF WatchOrder, WatchTypeOK
<1> QED BY <1>4, <1>5 DEF WatchInv

\* The first timer is created while none runs, and starts in another session.
LEMMA BirthKeeps ==
    ASSUME WatchInv, NEW c \in Callers, CreateDog(c) \/ StartDog(c)
    PROVE  WatchInv'
<1>1. WatchTypeOK
  BY DEF WatchInv
<1>2. CASE CreateDog(c)
  <2>1. changer' \in [Callers -> CallerPc] /\ changer'[c] = "begin" /\ \A e \in Callers : e # c => changer'[e] = changer[e]
    BY <1>1, <1>2, CallerMoves DEF CreateDog, CallerPc
  <2>2. PICK d \in Dogs : dog[d].pc = "off" /\ DogGoes(d, "made") /\ watchdog' = d
    BY <1>2 DEF CreateDog, DogGoes
  <2>3. /\ dog' \in [Dogs -> [pc : DogPc, stop : BOOLEAN]] /\ dog'[d].pc = "made"
        /\ \A e \in Dogs : dog'[e].stop = dog[e].stop /\ (e # d => dog'[e].pc = dog[e].pc)
    BY <1>1, <2>2, DogMoves DEF DogPc
  <2>4. WatchTypeOK'
    BY <1>1, <1>2, <2>1, <2>2, <2>3 DEF WatchTypeOK, CreateDog
  <2>5. ASSUME ~crossed', ~gaveUp' PROVE WatchOrder'
    <3>1. WatchOrder /\ changer[c] = "create" /\ activeSession' = activeSession
      BY <1>2, <2>5 DEF WatchInv, CreateDog
    <3>2. watchdog = 0 /\ activeSession = "other"
      BY <3>1 DEF WatchOrder
    <3>3. \A e \in Dogs : ~Running(e)
      BY <1>1, <3>1, <3>2, DogFields DEF WatchOrder
    <3>4. \A e \in Dogs : ~Running(e)' /\ ~Awake(e)'
      BY <2>3, <3>3 DEF Running, Awake
    <3>5. \A e \in Callers : e # c => changer[e] = "idle" /\ changer'[e] = "idle"
      BY <2>1, <3>1 DEF WatchOrder
    <3> QED BY <1>1, <2>1, <2>2, <2>3, <3>1, <3>2, <3>4, <3>5, DogFields DEF WatchOrder
  <2> QED BY <2>4, <2>5 DEF WatchInv
<1>3. CASE StartDog(c)
  <2>1. changer' \in [Callers -> CallerPc] /\ changer'[c] = "idle" /\ \A e \in Callers : e # c => changer'[e] = changer[e]
    BY <1>1, <1>3, CallerMoves DEF StartDog, CallerPc
  <2>2. dog' \in [Dogs -> [pc : DogPc, stop : BOOLEAN]]
    <3>1. [pc |-> "waiting", stop |-> FALSE] \in [pc : DogPc, stop : BOOLEAN]
      BY DEF DogPc
    <3>2. CASE watchdog # 0 /\ dog[watchdog].pc \in {"made", "over"}
      BY <1>1, <1>3, <3>1, <3>2 DEF StartDog, WatchTypeOK
    <3>3. CASE ~(watchdog # 0 /\ dog[watchdog].pc \in {"made", "over"})
      BY <1>1, <1>3, <3>3 DEF StartDog, WatchTypeOK
    <3> QED BY <3>2, <3>3
  <2>3. WatchTypeOK'
    BY <1>1, <1>3, <2>1, <2>2 DEF WatchTypeOK, StartDog
  <2>4. ASSUME ~crossed', ~gaveUp' PROVE WatchOrder'
    <3>1. /\ WatchOrder /\ changer[c] = "begin" /\ activeSession' = activeSession /\ watchdog' = watchdog
          /\ watchdog \in Dogs /\ dog[watchdog].pc = "made" /\ activeSession = "other"
      BY <1>1, <1>3, <2>4 DEF WatchInv, StartDog, WatchOrder, WatchTypeOK
    <3>2. dog' = [dog EXCEPT ![watchdog] = [pc |-> "waiting", stop |-> FALSE]]
      BY <1>1, <1>3, <3>1, DogFields DEF StartDog
    <3>3. dog'[watchdog].pc = "waiting" /\ \A e \in Dogs : e # watchdog => dog'[e] = dog[e]
      BY <1>1, <3>1, <3>2 DEF WatchTypeOK
    <3>4. \A e \in Dogs : e # watchdog => ~Running(e)
      BY <3>1 DEF WatchOrder
    <3>5. \A e \in Dogs : Running(e)' => e = watchdog
      BY <3>3, <3>4 DEF Running
    <3>6. \A e \in Callers : changer'[e] = "idle"
      BY <2>1, <3>1 DEF WatchOrder
    <3> QED BY <3>1, <3>3, <3>5, <3>6 DEF WatchOrder
  <2> QED BY <2>3, <2>4 DEF WatchInv
<1> QED BY <1>2, <1>3

\* The timer there is is told to stop, and no other runs; it is forgotten when
\* its thread has ended.
LEMMA StopsKeep ==
    ASSUME WatchInv, NEW c \in Callers, TellDog(c) \/ JoinDog(c)
    PROVE  WatchInv'
<1>1. WatchTypeOK
  BY DEF WatchInv
<1>2. CASE TellDog(c)
  <2> DEFINE pc == IF watchdog = 0 THEN "idle" ELSE "join"
  <2>0. pc \in CallerPc /\ Goes(c, pc)
    BY <1>2 DEF TellDog, CallerPc
  <2>1. changer' \in [Callers -> CallerPc] /\ changer'[c] = pc /\ \A e \in Callers : e # c => changer'[e] = changer[e]
    <3> HIDE DEF pc
    <3> QED BY <1>1, <2>0, CallerMoves
  <2>2. dog' \in [Dogs -> [pc : DogPc, stop : BOOLEAN]]
    <3>1. CASE watchdog = 0
      BY <1>1, <1>2, <3>1 DEF TellDog, WatchTypeOK
    <3>2. CASE watchdog # 0
      BY <1>1, <1>2, <3>2 DEF TellDog, WatchTypeOK
    <3> QED BY <3>1, <3>2
  <2>3. WatchTypeOK'
    BY <1>1, <1>2, <2>1, <2>2 DEF WatchTypeOK, TellDog
  <2>4. ASSUME ~crossed', ~gaveUp' PROVE WatchOrder'
    <3>1. /\ WatchOrder /\ changer[c] = "halt" /\ activeSession' = activeSession /\ watchdog' = watchdog
      BY <1>2, <2>4 DEF WatchInv, TellDog
    <3>2. \A e \in Callers : e # c => changer[e] = "idle" /\ changer'[e] = "idle"
      BY <2>1, <3>1 DEF WatchOrder
    <3>3. \A d \in Dogs : dog'[d].pc = dog[d].pc /\ (d = watchdog => dog'[d].stop) /\ (d # watchdog => ~Running(d))
      <4>1. CASE watchdog = 0
        BY <1>1, <1>2, <3>1, <4>1, DogFields DEF TellDog, WatchOrder
      <4>2. CASE watchdog # 0
        <5>1. dog' = [dog EXCEPT ![watchdog].stop = TRUE] /\ watchdog \in Dogs
          BY <1>1, <1>2, <4>2 DEF TellDog, WatchTypeOK
        <5>2. \A d \in Dogs : d # watchdog => ~Running(d)
          BY <3>1 DEF WatchOrder
        <5> QED BY <1>1, <5>1, <5>2 DEF WatchTypeOK
      <4> QED BY <4>1, <4>2
    <3>4. \A d \in Dogs : (Running(d)' <=> Running(d)) /\ ~Awake(d)'
      BY <3>3 DEF Running, Awake
    <3> QED BY <2>1, <3>1, <3>2, <3>3, <3>4 DEF WatchOrder
  <2> QED BY <2>3, <2>4 DEF WatchInv
<1>3. CASE JoinDog(c)
  <2>1. changer' \in [Callers -> CallerPc] /\ changer'[c] = "idle" /\ \A e \in Callers : e # c => changer'[e] = changer[e]
    BY <1>1, <1>3, CallerMoves DEF JoinDog, CallerPc
  <2>2. WatchTypeOK'
    BY <1>1, <1>3, <2>1 DEF WatchTypeOK, JoinDog
  <2>3. ASSUME ~crossed', ~gaveUp' PROVE WatchOrder'
    <3>1. ~gaveUp /\ watchdog # 0 /\ dog[watchdog].pc = "over" /\ dog' = dog
      BY <1>1, <1>3, <2>3 DEF JoinDog, WatchTypeOK
    <3>2. WatchOrder /\ changer[c] = "join"
      BY <1>3, <2>3, <3>1 DEF WatchInv, JoinDog
    <3>3. \A d \in Dogs : ~Running(d)
      BY <3>1, <3>2 DEF WatchOrder, Running
    <3>4. \A d \in Dogs : ~Running(d)' /\ ~Awake(d)'
      BY <3>1, <3>3 DEF Running, Awake
    <3>5. \A e \in Callers : changer'[e] = "idle"
      BY <2>1, <3>2 DEF WatchOrder
    <3> QED BY <3>4, <3>5 DEF WatchOrder
  <2> QED BY <2>2, <2>3 DEF WatchInv
<1> QED BY <1>2, <1>3

\* A timer's steps: none of them begins to run, and the session goes back to the
\* default one only when the timer there is has found it expired.
LEMMA DogKeeps ==
    ASSUME WatchInv, NEW d \in Dogs, DogStep(d)
    PROVE  WatchInv'
<1>0. WatchTypeOK /\ dog[d].pc \in DogPc /\ d # 0
  BY DogFields DEF WatchInv
<1>1. CASE Wake(d) \/ CheckTimeout(d) \/ ResetState(d) \/ DogStops(d) \/ EndDog(d)
  <2>1. PICK pc \in DogPc :
           /\ DogGoes(d, pc) /\ UNCHANGED <<changer, watchdog, changes, crossed, gaveUp>>
           /\ \/ UNCHANGED activeSession /\ expired' = expired
              \/ activeSession' = "default" /\ expired' = FALSE /\ pc = "reset"
           /\ bitten' \in BOOLEAN
           /\ \/ dog[d].pc = "waiting" /\ ~dog[d].stop /\ pc = "tick"
              \/ dog[d].pc = "tick" /\ pc = "found"
              \/ dog[d].pc = "tick" /\ pc = "waiting"
              \/ dog[d].pc = "found" /\ pc = "reset"
              \/ dog[d].pc = "reset" /\ watchdog = 0 /\ pc = "waiting"
              \/ dog[d].pc = "reset" /\ watchdog # 0 /\ pc = "halt"
              \/ dog[d].pc = "waiting" /\ dog[d].stop /\ pc = "over"
    <3>1. bitten \in BOOLEAN
      BY <1>0 DEF WatchTypeOK
    <3>2. CASE Wake(d)
      BY <3>1, <3>2 DEF Wake, DogPc
    <3>3. CASE CheckTimeout(d)
      BY <3>1, <3>3 DEF CheckTimeout, DogPc
    <3>4. CASE ResetState(d)
      BY <3>1, <3>4 DEF ResetState, DogPc
    <3>5. CASE DogStops(d)
      BY <3>1, <3>5 DEF DogStops, DogPc
    <3>6. CASE EndDog(d)
      BY <3>1, <3>6 DEF EndDog, DogPc
    <3> QED BY <1>1, <3>2, <3>3, <3>4, <3>5, <3>6
  <2>2. /\ dog' \in [Dogs -> [pc : DogPc, stop : BOOLEAN]] /\ dog'[d].pc = pc
        /\ \A e \in Dogs : dog'[e].stop = dog[e].stop /\ (e # d => dog'[e].pc = dog[e].pc)
    BY <1>0, <2>1, DogMoves
  <2>3. WatchTypeOK'
    BY <1>0, <2>1, <2>2 DEF WatchTypeOK
  <2>4. ASSUME ~crossed', ~gaveUp' PROVE WatchOrder'
    <3>1. WatchOrder /\ Running(d)
      BY <2>1, <2>4 DEF WatchInv, Running
    <3>2. watchdog = d /\ watchdog # 0 /\ pc # "join" /\ pc # "made"
      BY <1>0, <2>1, <3>1 DEF WatchOrder
    <3>3. \A e \in Dogs : (Running(e)' => Running(e)) /\ (Awake(e)' => Awake(e)) /\ (Running(e) => e = d)
      BY <2>2, <3>1, <3>2 DEF WatchOrder, Running, Awake
    <3>4. \A c \in Callers : changer[c] \notin {"create", "begin"}
      BY <3>1, <3>2 DEF WatchOrder, Running
    <3>5. Awake(d)' /\ activeSession' = "default" /\ (\A c \in Callers : changer[c] \notin {"restart", "stop", "halt", "join"})
          => pc \in {"reset", "halt"}
      BY <2>1, <2>2, <3>1, <3>2, <3>3 DEF WatchOrder, Awake
    <3>6. \A e \in Dogs : Running(e)' => watchdog' = e /\ dog'[e].pc # "join"
      BY <2>1, <2>2, <3>2, <3>3
    <3>7. /\ \A c, e \in Callers : changer'[c] # "idle" /\ changer'[e] # "idle" => c = e
          /\ \A c \in Callers :
                /\ changer'[c] \notin {"create", "begin"} /\ watchdog' # 0
                /\ changer'[c] = "join" => \A e \in Dogs : ~Awake(e)'
      BY <2>1, <3>1, <3>2, <3>3, <3>4 DEF WatchOrder
    <3>8. activeSession' = "default" /\ (\A c \in Callers : changer'[c] \notin {"restart", "stop", "halt", "join"})
          => \A e \in Dogs : Awake(e)' => dog'[e].pc \in {"reset", "halt"}
      BY <2>1, <2>2, <3>3, <3>5 DEF Awake
    <3> QED BY <3>6, <3>7, <3>8 DEF WatchOrder
  <2> QED BY <2>3, <2>4 DEF WatchInv
<1>2. CASE TellSelf(d)
  <2>0. UNCHANGED <<activeSession, expired, changer, watchdog, changes, bitten, crossed, gaveUp>> /\ dog[d].pc = "halt"
    BY <1>2 DEF TellSelf
  <2>1. CASE watchdog = d
    <3>1. dog' = [dog EXCEPT ![d] = [pc |-> "waiting", stop |-> TRUE]]
      BY <1>0, <1>2, <2>1 DEF TellSelf
    <3>2. dog' \in [Dogs -> [pc : DogPc, stop : BOOLEAN]]
      BY <1>0, <3>1 DEF WatchTypeOK, DogPc
    <3>3. dog'[d].pc = "waiting" /\ dog'[d].stop /\ \A e \in Dogs : e # d => dog'[e] = dog[e]
      BY <1>0, <3>1 DEF WatchTypeOK
    <3>4. WatchTypeOK'
      BY <1>0, <2>0, <3>2 DEF WatchTypeOK
    <3>5. ASSUME ~crossed', ~gaveUp' PROVE WatchOrder'
      <4>1. WatchOrder /\ Running(d)
        BY <2>0, <3>5 DEF WatchInv, Running
      <4>2. \A e \in Dogs : e # d => ~Running(e) /\ ~Awake(e)
        BY <2>1, <4>1 DEF WatchOrder, Awake
      <4>3. \A e \in Dogs : (Running(e)' => e = d) /\ ~Awake(e)'
        BY <3>3, <4>2 DEF Running, Awake
      <4>4. \A c \in Callers : changer[c] # "begin"
        BY <2>0, <2>1, <4>1 DEF WatchOrder
      <4> QED BY <2>0, <2>1, <3>3, <4>1, <4>3, <4>4 DEF WatchOrder
    <3> QED BY <3>4, <3>5 DEF WatchInv
  <2>2. CASE watchdog # d
    <3>1. dog' \in [Dogs -> [pc : DogPc, stop : BOOLEAN]]
      <4>1. CASE watchdog = 0
        <5>1. dog' = [dog EXCEPT ![d].pc = "waiting"]
          BY <1>0, <1>2, <2>2, <4>1 DEF TellSelf
        <5> QED BY <1>0, <5>1 DEF WatchTypeOK, DogPc
      <4>2. CASE watchdog # 0
        <5>1. dog' = [dog EXCEPT ![d].pc = "join", ![watchdog].stop = TRUE] /\ watchdog \in Dogs
          BY <1>0, <1>2, <2>2, <4>2 DEF TellSelf, WatchTypeOK
        <5> QED BY <1>0, <5>1 DEF WatchTypeOK, DogPc
      <4> QED BY <4>1, <4>2
    <3>2. WatchTypeOK'
      BY <1>0, <2>0, <3>1 DEF WatchTypeOK
    <3>3. crossed \/ gaveUp
      BY <2>0, <2>2 DEF WatchInv, WatchOrder, Running
    <3> QED BY <2>0, <3>2, <3>3 DEF WatchInv
  <2> QED BY <2>1, <2>2
<1>3. CASE JoinOther(d)
  <2>1. DogGoes(d, "waiting") /\ watchdog' = 0
        /\ UNCHANGED <<activeSession, expired, changer, changes, bitten, crossed, gaveUp>> /\ dog[d].pc = "join"
    BY <1>3 DEF JoinOther
  <2>2. dog' \in [Dogs -> [pc : DogPc, stop : BOOLEAN]]
    BY <1>0, <2>1, DogMoves DEF DogPc
  <2>3. WatchTypeOK'
    BY <1>0, <2>1, <2>2 DEF WatchTypeOK
  <2>4. crossed \/ gaveUp
    BY <2>1 DEF WatchInv, WatchOrder, Running
  <2> QED BY <2>1, <2>3, <2>4 DEF WatchInv
<1> QED BY <1>1, <1>2, <1>3 DEF DogStep

\* The time that passes, or is heard of.
LEMMA TimeKeeps ==
    ASSUME WatchInv, Touch \/ FallSilent
    PROVE  WatchInv'
<1>1. expired' \in BOOLEAN /\ UNCHANGED <<activeSession, changer, watchdog, dog, changes, bitten, crossed, gaveUp>>
  BY DEF Touch, FallSilent
<1> QED BY <1>1 DEF WatchInv, WatchTypeOK, WatchOrder, Running, Awake

\* No timer has been started.
LEMMA WatchBegins == WatchInit => WatchInv
<1> SUFFICES ASSUME WatchInit PROVE WatchInv
  OBVIOUS
<1>1. /\ dog \in [Dogs -> [pc : DogPc, stop : BOOLEAN]] /\ changer \in [Callers -> CallerPc]
      /\ \A d \in Dogs : dog[d].pc = "off"
      /\ \A c \in Callers : changer[c] = "idle"
  BY DEF WatchInit, DogPc, CallerPc
<1>2. \A d \in Dogs : ~Running(d) /\ ~Awake(d)
  BY <1>1 DEF Awake, Running
<1>3. WatchTypeOK
  <2>1. 0 \in 0 .. MaxChanges
    BY WatchAssumption
  <2> QED BY <1>1, <2>1 DEF WatchTypeOK, WatchInit
<1> QED BY <1>1, <1>2, <1>3 DEF WatchInv, WatchOrder

LEMMA WatchStep == WatchInv /\ [WatchNext]_watchVars => WatchInv'
<1>1. WatchInv /\ UNCHANGED watchVars => WatchInv'
  BY DEF watchVars, WatchInv, WatchTypeOK, WatchOrder, Running, Awake
<1> QED BY <1>1, CallsKeep, LooksKeep, BirthKeeps, StopsKeep, DogKeeps, TimeKeeps
        DEF WatchNext, CallerStep

\* No timer that SessionManager has forgotten goes on, and none is left in the
\* default session, as long as calls do not overlap and join() gives up on no
\* thread, for any number of callers, changes and timers, however the caller's
\* steps and the timers' interleave (SessionManager.start_watchdog, stop_watchdog).
THEOREM NoStrayDogAlways == WatchSpec => []NoStrayDog
<1>1. WatchInv => NoStrayDog
  BY DEF WatchInv, WatchOrder, NoStrayDog, Awake
<1> QED BY <1>1, WatchBegins, WatchStep, PTL DEF WatchSpec
-----------------------------------------------------------------------------
(* ConnectionManager: the variables keep their types, and the lock its     *)
(* holder, whatever channels are lost.                                     *)

Holding == {"joining", "tearing", "closing", "opening"}

\* TypeOK needs that the timer of a stack under construction does not run.
ManagerInv ==
    /\ TypeOK
    /\ \A k \in Stack : k > built => at[k] = "unborn"
    /\ \A t \in Thread : at[t] = "opening" => driver = built /\ driver \in Stack /\ at[driver] = "unborn"

\* A thread that exists goes to another place.
LEMMA MoveKeeps ==
    ASSUME ManagerInv, NEW t \in Thread, NEW p \in Place, at' = [at EXCEPT ![t] = p],
           at[t] # "unborn", p # "opening", UNCHANGED built,
           \/ UNCHANGED lock /\ (at[t] \in Holding <=> p \in Holding)
           \/ lock' = t /\ lock = Nobody /\ p \in Holding
           \/ lock' = Nobody /\ lock \in {t, Nobody} /\ p \notin Holding,
           UNCHANGED driver \/ lock = t
    PROVE  /\ at' \in [Thread -> Place] /\ lock' \in Thread \cup {Nobody}
           /\ \A u \in Thread : lock' = u <=> at'[u] \in Holding
           /\ \A k \in Stack : k > built' => at'[k] = "unborn"
           /\ \A u \in Thread : at'[u] = "opening" =>
                 driver' = built' /\ driver' \in Stack /\ at'[driver'] = "unborn"
<1>1. /\ at' \in [Thread -> Place] /\ at'[t] = p /\ \A u \in Thread : u # t => at'[u] = at[u]
      /\ \A u \in Thread : lock = u <=> at[u] \in Holding
  BY DEF ManagerInv, TypeOK, Holding
<1>2. lock' \in Thread \cup {Nobody} /\ \A u \in Thread : lock' = u <=> at'[u] \in Holding
  BY <1>1, Apart DEF ManagerInv, TypeOK
<1>3. \A k \in Stack : k > built' => at'[k] = "unborn"
  BY <1>1, Apart DEF ManagerInv
<1>4. ASSUME NEW u \in Thread, at'[u] = "opening"
      PROVE  driver' = built' /\ driver' \in Stack /\ at'[driver'] = "unborn"
  <2>1. u # t /\ at[u] = "opening" /\ lock = u
    BY <1>1, <1>4 DEF Holding
  <2>2. driver = built /\ driver \in Stack /\ at[driver] = "unborn" /\ driver' = driver
    BY <2>1 DEF ManagerInv
  <2> QED BY <1>1, <2>2, Apart
<1> QED BY <1>1, <1>2, <1>3, <1>4

\* An operation begins.
LEMMA BeginKeeps ==
    ASSUME ManagerInv, NEW t \in Thread, NEW op \in {"connect", "disconnect", "reconnect"},
           Begin(t, op), at[t] \in {"idle", "asleep"},
           panel' \in {"down", "busy", "up"}, noticed' \subseteq 1 .. built, wanted' \in BOOLEAN,
           presses' \in 0 .. MaxPresses, UNCHANGED <<losses, failures>>
    PROVE  ManagerInv'
<1> DEFINE p == IF op = "connect" THEN "starting" ELSE "stopping"
<1>1. p \in Place /\ p # "opening" /\ p \notin Holding /\ at[t] \notin Holding /\ at[t] # "unborn"
  BY DEF Place, Holding
<1>2. at' = [at EXCEPT ![t] = p] /\ job' = [job EXCEPT ![t] = op]
      /\ UNCHANGED <<state, driver, timer, lock, opened, signalled, built>>
  BY DEF Begin
<1> HIDE DEF p
<1>3. job' \in [Thread -> {"none", "connect", "disconnect", "reconnect"}]
  BY <1>2 DEF ManagerInv, TypeOK
<1> QED BY <1>1, <1>2, <1>3, MoveKeeps DEF ManagerInv, TypeOK, Holding

\* An operation is over.
LEMMA FinishKeeps ==
    ASSUME ManagerInv, NEW t \in Thread, NEW up \in BOOLEAN, Finish(t, up), at[t] \notin {"unborn"},
           lock' = Nobody, lock \in {t, Nobody},
           UNCHANGED driver \/ lock = t, driver' \in 0 .. built,
           state' \in {"DISCONNECTED", "CONNECTING", "CONNECTED", "ERROR"},
           opened' \subseteq 1 .. built, signalled' \subseteq 1 .. built,
           UNCHANGED <<timer, built, noticed, presses, losses>>, wanted' \in BOOLEAN,
           failures' \in 0 .. MaxFailures
    PROVE  ManagerInv'
<1> DEFINE p == CASE t = Operator -> "idle" [] t = Closer -> "dead" [] OTHER -> "asleep"
<1>1. p \in Place /\ p # "opening" /\ p \notin Holding
  BY DEF Place, Holding
<1>2. /\ at' = [at EXCEPT ![t] = p] /\ job' = [job EXCEPT ![t] = "none"]
      /\ panel' = IF t = Operator THEN (IF up THEN "up" ELSE "down") ELSE panel
  BY DEF Finish
<1> HIDE DEF p
<1>3. job' \in [Thread -> {"none", "connect", "disconnect", "reconnect"}] /\ panel' \in {"down", "busy", "up"}
  BY <1>2 DEF ManagerInv, TypeOK
<1> QED BY <1>1, <1>2, <1>3, MoveKeeps DEF ManagerInv, TypeOK, Holding

\* connect() takes the lock and builds a stack, whose timer is still unborn.
LEMMA BuildKeeps == ASSUME ManagerInv, NEW t \in Thread, Build(t) PROVE ManagerInv'
<1>1. /\ at[t] = "starting" /\ lock = Nobody /\ built \in Nat /\ built < MaxStacks
      /\ lock' = t /\ state' = "CONNECTING" /\ built' = built + 1 /\ driver' = built + 1
      /\ at' = [at EXCEPT ![t] = "opening"]
      /\ UNCHANGED <<timer, opened, signalled, job, panel, noticed, wanted, presses, losses, failures>>
  BY ManagerAssumption DEF Build, Free, bounds, ManagerInv, TypeOK
<1>2. /\ at' \in [Thread -> Place] /\ at'[t] = "opening" /\ \A u \in Thread : u # t => at'[u] = at[u]
  BY <1>1 DEF ManagerInv, TypeOK, Place
<1>3. built + 1 \in Stack /\ at[built + 1] = "unborn" /\ t # built + 1 /\ built + 1 \in 0 .. MaxStacks
  BY <1>1, ManagerAssumption DEF ManagerInv, Stack
<1>4. \A u \in Thread : lock' = u <=> at'[u] \in Holding
  BY <1>1, <1>2, Apart DEF ManagerInv, TypeOK, Holding
<1>5. \A k \in Stack : k > built' => at'[k] = "unborn"
  <2> SUFFICES ASSUME NEW k \in Stack, k > built + 1 PROVE at'[k] = "unborn"
    BY <1>1
  <2>1. k > built /\ k \in Thread
    BY <1>1, Apart DEF Stack
  <2> QED BY <1>1, <1>2, <2>1 DEF ManagerInv
<1>6. at'[driver'] = "unborn"
  BY <1>1, <1>2, <1>3, Apart
<1>7. 0 .. built \subseteq 0 .. built' /\ 1 .. built \subseteq 1 .. built' /\ driver' \in 0 .. built'
  BY <1>1
<1>8. TypeOK'
  BY <1>1, <1>2, <1>3, <1>4, <1>7 DEF ManagerInv, TypeOK, Holding
<1> QED BY <1>1, <1>3, <1>5, <1>6, <1>8 DEF ManagerInv

\* connect() starts the health check and releases the lock.
LEMMA OpenKeeps == ASSUME ManagerInv, NEW t \in Thread, Open(t) PROVE ManagerInv'
<1>1. /\ at[t] = "opening" /\ opened' = opened \cup {driver} /\ state' = "CONNECTED" /\ timer' = driver
      /\ lock' = Nobody /\ job' = [job EXCEPT ![t] = "none"]
      /\ at' = [at EXCEPT ![t] = IF t = Operator THEN "idle" ELSE "asleep", ![driver] = "asleep"]
      /\ panel' = IF t = Operator THEN "up" ELSE panel
      /\ UNCHANGED <<driver, signalled, built, noticed, wanted, presses, losses, failures>>
  BY DEF Open, TimerStarted, bounds
<1>2. /\ driver = built /\ driver \in Stack /\ driver \in Thread /\ at[driver] = "unborn" /\ lock = t
      /\ driver \in 1 .. built
  BY <1>1, Apart DEF ManagerInv, TypeOK, Holding, Stack
<1>3. /\ at' \in [Thread -> Place] /\ at'[t] \in {"idle", "asleep"} /\ at'[driver] = "asleep"
      /\ \A u \in Thread : u # t /\ u # driver => at'[u] = at[u]
  BY <1>1, <1>2 DEF ManagerInv, TypeOK, Place
<1>4. \A u \in Thread : at'[u] \notin Holding
  BY <1>1, <1>2, <1>3 DEF ManagerInv, TypeOK, Holding
<1>5. \A k \in Stack : k > built => at'[k] = "unborn"
  <2> SUFFICES ASSUME NEW k \in Stack, k > built PROVE at'[k] = "unborn"
    OBVIOUS
  <2>1. k # driver /\ k # t /\ k \in Thread /\ at[k] = "unborn"
    BY <1>1, <1>2, Apart DEF ManagerInv, Stack
  <2> QED BY <1>3, <2>1
<1>6. /\ job' \in [Thread -> {"none", "connect", "disconnect", "reconnect"}]
      /\ panel' \in {"down", "busy", "up"}
  BY <1>1 DEF ManagerInv, TypeOK
<1>7. TypeOK'
  BY <1>1, <1>2, <1>3, <1>4, <1>6, Apart DEF ManagerInv, TypeOK, Holding
<1> QED BY <1>1, <1>4, <1>5, <1>7 DEF ManagerInv, Holding

\* disconnect(), a place at a time.
LEMMA CloseKeeps ==
    ASSUME ManagerInv, NEW t \in Thread, StopTimer(t) \/ Join(t) \/ TearDown(t)
    PROVE  ManagerInv'
<1>1. PICK p \in {"joining", "tearing", "closing"} :
        /\ at' = [at EXCEPT ![t] = p] /\ at[t] \in {"stopping", "joining", "tearing"}
        /\ \/ lock' = t /\ lock = Nobody
           \/ UNCHANGED lock /\ at[t] \in Holding
        /\ UNCHANGED <<state, driver, job, panel, built, noticed, wanted, presses, losses, failures>>
        /\ timer' \in {timer, 0} /\ signalled' \subseteq signalled \cup ({timer} \ {0})
        /\ opened' \subseteq opened
  BY DEF StopTimer, Join, TearDown, AfterStop, Free, TornDown, bounds, Holding
<1>2. p \in Place /\ p # "opening" /\ p \in Holding /\ at[t] # "unborn"
  BY <1>1 DEF Place, Holding
<1>3. /\ at' \in [Thread -> Place] /\ lock' \in Thread \cup {Nobody}
      /\ \A u \in Thread : lock' = u <=> at'[u] \in Holding
      /\ \A k \in Stack : k > built' => at'[k] = "unborn"
      /\ \A u \in Thread : at'[u] = "opening" =>
            driver' = built' /\ driver' \in Stack /\ at'[driver'] = "unborn"
  BY <1>1, <1>2, MoveKeeps
<1>4. timer' \in 0 .. built /\ signalled' \subseteq 1 .. built /\ opened' \subseteq 1 .. built
  BY <1>1, ManagerAssumption DEF ManagerInv, TypeOK
<1> QED BY <1>1, <1>3, <1>4 DEF ManagerInv, TypeOK, Holding

\* The operation ends without a stack, or reconnect() goes on to connect().
LEMMA LeaveKeeps ==
    ASSUME ManagerInv, NEW t \in Thread, FailToOpen(t) \/ JoinSelf(t) \/ Forget(t)
    PROVE  ManagerInv'
<1>0. built \in Nat /\ MaxFailures \in Nat /\ driver \in 0 .. built /\ timer \in 0 .. built
  BY ManagerAssumption DEF ManagerInv, TypeOK
<1>1. CASE FailToOpen(t)
  <2>1. lock = t /\ at[t] = "opening"
    BY <1>1 DEF FailToOpen, ManagerInv, TypeOK
  <2>2. failures' \in 0 .. MaxFailures
    BY <1>0, <1>1 DEF FailToOpen, ManagerInv, TypeOK
  <2>3. /\ Finish(t, FALSE) /\ driver' = 0 /\ 0 \in 0 .. built /\ state' = "ERROR" /\ lock' = Nobody
        /\ opened' \subseteq 1 .. built /\ signalled' \subseteq 1 .. built /\ wanted' \in BOOLEAN
        /\ UNCHANGED <<timer, built, noticed, presses, losses>>
    <3>1. opened \subseteq 1 .. built /\ signalled \subseteq 1 .. built /\ wanted \in BOOLEAN
      BY DEF ManagerInv, TypeOK
    <3>2. UNCHANGED wanted
      BY <1>1 DEF FailToOpen
    <3>3. wanted' \in BOOLEAN
      BY <3>1, <3>2
    <3>4. /\ opened' = opened \ {driver} /\ Finish(t, FALSE) /\ driver' = 0 /\ state' = "ERROR"
          /\ lock' = Nobody /\ UNCHANGED <<timer, signalled, built, noticed, presses, losses>>
      BY <1>1 DEF FailToOpen
    <3>5. 0 \in 0 .. built /\ opened' \subseteq 1 .. built /\ signalled' \subseteq 1 .. built
      BY <1>0, <3>1, <3>4
    <3>6. UNCHANGED <<timer, built, noticed, presses, losses>>
      BY <3>4
    <3> QED BY <3>3, <3>4, <3>5, <3>6, Zenon
  <2> QED BY <2>1, <2>2, <2>3, FinishKeeps
<1>2. CASE JoinSelf(t)
  <2>1. t # 0 /\ t \in 1 .. built
    BY <1>0, <1>2, Apart DEF JoinSelf
  <2> QED BY <1>0, <1>2, <2>1, FinishKeeps DEF JoinSelf, Free, bounds, ManagerInv, TypeOK
<1>3. CASE Forget(t)
  <2>1. /\ lock = t /\ at[t] = "closing" /\ driver' = 0 /\ state' = "DISCONNECTED" /\ lock' = Nobody
        /\ UNCHANGED <<timer, opened, signalled, built, noticed, presses, losses, failures>>
        /\ wanted' \in BOOLEAN
    <3>1. wanted \in BOOLEAN /\ (lock = t <=> at[t] \in {"joining", "tearing", "closing", "opening"})
      BY DEF ManagerInv, TypeOK
    <3>2. wanted' = IF job[t] = "disconnect" THEN job[Operator] \in {"connect", "reconnect"} ELSE wanted
      BY <1>3 DEF Forget
    <3>3. wanted' \in BOOLEAN
      <4>1. CASE job[t] = "disconnect"
        <5>1. (job[Operator] \in {"connect", "reconnect"}) \in BOOLEAN
          OBVIOUS
        <5> QED BY <3>2, <4>1, <5>1
      <4>2. CASE job[t] # "disconnect"
        BY <3>1, <3>2, <4>2
      <4> QED BY <4>1, <4>2
    <3> QED BY <1>3, <3>1, <3>3 DEF Forget, bounds
  <2>2. CASE at' = [at EXCEPT ![t] = "starting"] /\ UNCHANGED <<job, panel>>
    <3>1. "starting" \in Place /\ "starting" \notin Holding
      BY DEF Place, Holding
    <3>2. /\ at' \in [Thread -> Place] /\ lock' \in Thread \cup {Nobody}
          /\ \A u \in Thread : lock' = u <=> at'[u] \in Holding
          /\ \A k \in Stack : k > built' => at'[k] = "unborn"
          /\ \A u \in Thread : at'[u] = "opening" =>
                driver' = built' /\ driver' \in Stack /\ at'[driver'] = "unborn"
      BY <2>1, <2>2, <3>1, MoveKeeps
    <3> QED BY <1>0, <2>1, <2>2, <3>2 DEF ManagerInv, TypeOK, Holding
  <2>3. CASE Finish(t, FALSE)
    <3>1. /\ 0 \in 0 .. built /\ opened \subseteq 1 .. built /\ signalled \subseteq 1 .. built
          /\ failures \in 0 .. MaxFailures
      BY <1>0 DEF ManagerInv, TypeOK
    <3> QED BY <2>1, <2>3, <3>1, FinishKeeps
  <2> QED BY <1>3, <2>2, <2>3 DEF Forget
<1> QED BY <1>1, <1>2, <1>3

\* The variables keep their types.
LEMMA ManagerStep == ManagerInv /\ [Next]_vars => ManagerInv'
<1> SUFFICES ASSUME ManagerInv, [Next]_vars PROVE ManagerInv'
  OBVIOUS
<1>0. built \in Nat /\ MaxPresses \in Nat /\ MaxLosses \in Nat /\ driver \in 0 .. built
  BY ManagerAssumption DEF ManagerInv, TypeOK
<1>1. CASE UNCHANGED vars
  BY <1>1 DEF vars, bounds, ManagerInv, TypeOK
<1>2. CASE PressConnect \/ PressDisconnect \/ PressReconnect
  <2>1. presses' \in 0 .. MaxPresses /\ wanted' \in BOOLEAN
    <3>1. presses \in 0 .. MaxPresses /\ wanted \in BOOLEAN
      BY DEF ManagerInv, TypeOK
    <3>2. presses < MaxPresses /\ presses' = presses + 1
      BY <1>2 DEF PressConnect, PressDisconnect, PressReconnect, Press
    <3>3. wanted' \in BOOLEAN
      BY <1>2, <3>1 DEF PressConnect, PressDisconnect, PressReconnect, Press
    <3> QED BY <1>0, <3>1, <3>2, <3>3
  <2> QED BY <1>2, <2>1, BeginKeeps, Apart
          DEF PressConnect, PressDisconnect, PressReconnect, Press, ManagerInv, TypeOK
<1>3. CASE Shutdown
  BY <1>3, BeginKeeps, Apart DEF Shutdown, bounds, ManagerInv, TypeOK
<1>4. ASSUME NEW k \in Stack, Check(k) PROVE ManagerInv'
  <2>1. noticed' \subseteq 1 .. built
    BY <1>0, <1>4 DEF Check, FindsLost, ManagerInv, TypeOK
  <2>2. CASE Begin(k, "reconnect")
    BY <1>4, <2>1, <2>2, BeginKeeps, Apart DEF Check, bounds, ManagerInv, TypeOK
  <2>3. CASE UNCHANGED <<state, driver, timer, lock, opened, signalled, at, job, built>>
    BY <1>4, <2>1, <2>3 DEF Check, bounds, ManagerInv, TypeOK
  <2> QED BY <1>4, <2>2, <2>3 DEF Check
<1>5. ASSUME NEW k \in Stack, EndThread(k) PROVE ManagerInv'
  <2>1. "dead" \in Place /\ "dead" \notin Holding /\ "asleep" \notin Holding
    BY DEF Place, Holding
  <2> QED BY <1>5, <2>1, MoveKeeps, Apart DEF EndThread, bounds, ManagerInv, TypeOK, Holding
<1>6. CASE LoseChannel
  <2>1. losses' \in 0 .. MaxLosses
    BY <1>0, <1>6 DEF LoseChannel, ManagerInv, TypeOK
  <2> QED BY <1>6, <2>1 DEF LoseChannel, ManagerInv, TypeOK
<1> QED BY <1>1, <1>2, <1>3, <1>4, <1>5, <1>6, BuildKeeps, OpenKeeps, CloseKeeps, LeaveKeeps
        DEF Next, Operate

\* The manager starts with nothing.
LEMMA ManagerBegins == Init => ManagerInv
<1> SUFFICES ASSUME Init PROVE ManagerInv
  OBVIOUS
<1>1. at \in [Thread -> Place] /\ (\A t \in User : at[t] = "idle") /\ \A k \in Stack : at[k] = "unborn"
  BY Apart DEF Init, Place
<1>2. \A t \in Thread : at[t] \notin Holding
  BY <1>1, Apart DEF Holding
<1>3. /\ state = "DISCONNECTED" /\ driver = 0 /\ timer = 0 /\ lock = Nobody /\ opened = {}
      /\ signalled = {} /\ panel = "down" /\ built = 0 /\ noticed = {} /\ wanted = FALSE
      /\ presses = 0 /\ losses = 0 /\ failures = 0
      /\ job \in [Thread -> {"none", "connect", "disconnect", "reconnect"}]
  BY DEF Init
<1>4. /\ 0 \in 0 .. MaxStacks /\ 0 \in 0 .. MaxPresses /\ 0 \in 0 .. MaxLosses
      /\ 0 \in 0 .. MaxFailures
  BY ManagerAssumption
<1>5. TypeOK
  <2>1. driver \in 0 .. built /\ timer \in 0 .. built /\ built \in 0 .. MaxStacks
    BY <1>3, <1>4
  <2>2. lock \in Thread \cup {Nobody} /\ wanted \in BOOLEAN
    BY <1>3
  <2>3. \A t \in Thread : lock = t <=> at[t] \in {"joining", "tearing", "closing", "opening"}
    BY <1>2, <1>3, Apart DEF Holding
  <2> QED BY <1>1, <1>3, <1>4, <2>1, <2>2, <2>3 DEF TypeOK
<1> QED BY <1>1, <1>2, <1>5 DEF ManagerInv, Holding

\* The manager's variables keep their types and the lock is held from the
\* first step of an operation to its last, by its own thread, also when
\* channels are lost and health checks reconnect (connect, disconnect,
\* _health_check).
THEOREM ManagerTypeCorrect == Spec => []TypeOK
<1>1. ManagerInv => TypeOK
  BY DEF ManagerInv
<1> QED BY <1>1, ManagerBegins, ManagerStep, PTL DEF Spec
-----------------------------------------------------------------------------
(* Flash: no more is sent, or stored, than the file has.                   *)

FlashBounded ==
    /\ FlashInv /\ EcuTypeOK
    /\ runner.blk \in 0 .. Blocks /\ stored \in 0 .. Blocks
    /\ runner.pc # "idle" => runner.i \in 1 .. Len(script) + 1

\* A request that the ECU serves, or that is lost on its way.
Asked(req) == \/ UNCHANGED <<ecu, stored>>
              \/ \E a \in Answer : HandleRequest(req, a) /\ stored' = Keeps(req, a)

\* Only a block adds to what is stored.
LEMMA AskedFacts ==
    ASSUME FlashBounded, NEW req, Asked(req)
    PROVE  EcuTypeOK' /\ (req.svc # "block" => stored' \in 0 .. Blocks)
<1>1. CASE UNCHANGED <<ecu, stored>>
  BY <1>1 DEF FlashBounded, EcuTypeOK
<1>2. ASSUME NEW a \in Answer, HandleRequest(req, a), stored' = Keeps(req, a)
      PROVE  EcuTypeOK' /\ (req.svc # "block" => stored' \in 0 .. Blocks)
  BY <1>2, HandleType, FlashAssumption DEF FlashBounded, Keeps
<1> QED BY <1>1, <1>2 DEF Asked

\* A step goes on, passes or fails: the place stays within the sequence.
LEMMA PlaceKept ==
    ASSUME FlashBounded, runner.pc \in Busy, NEW r \in Runner, r.i = runner.i, r.blk \in 0 .. Blocks,
           runner' = r \/ runner' = Passed(r) \/ runner' = Failed(r), UNCHANGED script
    PROVE  runner'.blk \in 0 .. Blocks /\ runner'.i \in 1 .. Len(script') + 1
<1>1. runner.i \in 1 .. Len(script) /\ Len(script) \in Nat
  BY BusyFacts, FlashTypes DEF FlashBounded
<1>2. r.i + 1 \in 1 .. Len(script) + 1 /\ r.i \in 1 .. Len(script) + 1
  BY <1>1
<1>3. runner'.blk = r.blk /\ (runner'.i = r.i \/ runner'.i = r.i + 1)
  BY DEF Passed, Failed, Runner
<1> QED BY <1>2, <1>3

\* The step handlers: what they ask, and where they leave the runner.
LEMMA HandlersBounded ==
    ASSUME FlashBounded, Perform
    PROVE  /\ EcuTypeOK' /\ stored' \in 0 .. Blocks
           /\ runner'.blk \in 0 .. Blocks /\ runner'.i \in 1 .. Len(script') + 1
<1>0. /\ runner \in Runner /\ runner.blk \in 0 .. Blocks /\ Blocks \in Nat
      /\ stored \in 0 .. Blocks /\ EcuTypeOK
  BY FlashTypes, FlashAssumption DEF FlashBounded
<1>1. runner.pc \in Busy /\ UNCHANGED script
  BY DEF Perform, AskingStep, EasyStep, ReadPair, Unlock, UploadFile, Unstaged, RequestBlocks, Permit,
         SendBlocks, CloseBlocks, ExitStep, VerifyStep, Doing, Busy, AskEcu, Quiet
<1>2. ASSUME NEW r \in Runner, r.i = runner.i, r.blk \in 0 .. Blocks,
             runner' = r \/ runner' = Passed(r) \/ runner' = Failed(r),
             \E req : Asked(req) /\ (req.svc # "block" \/ stored' \in 0 .. Blocks)
      PROVE  /\ EcuTypeOK' /\ stored' \in 0 .. Blocks
             /\ runner'.blk \in 0 .. Blocks /\ runner'.i \in 1 .. Len(script') + 1
  BY <1>1, <1>2, PlaceKept, AskedFacts
<1>3. CASE AskingStep
  <2>1. PICK k \in DOMAIN OneRequest : AskEcu(OneRequest[k], LAMBDA ok : Outcome(runner, ok))
    BY <1>3 DEF AskingStep
  <2>2. OneRequest[k].svc # "block"
    BY DEF OneRequest
  <2>3. Asked(OneRequest[k]) /\ (runner' = Passed(runner) \/ runner' = Failed(runner))
    BY <2>1 DEF AskEcu, Asked, Outcome
  <2> QED BY <1>0, <1>2, <2>2, <2>3
<1>4. CASE EasyStep \/ UploadFile \/ Unstaged \/ VerifyStep
  <2> DEFINE r == [runner EXCEPT !.staged = TRUE]
  <2>1. r \in Runner /\ r.i = runner.i /\ r.blk = runner.blk
    BY <1>0 DEF Runner
  <2>2. UNCHANGED <<ecu, stored>> /\ (runner' = Passed(runner) \/ runner' = Failed(runner) \/ runner' = Passed(r))
    BY <1>4 DEF EasyStep, UploadFile, Unstaged, VerifyStep, Quiet
  <2> HIDE DEF r
  <2>3. Asked([svc |-> "present"])
    BY <2>2 DEF Asked
  <2> QED BY <1>0, <1>2, <2>1, <2>2, <2>3
<1>5. CASE ReadPair
  <2> DEFINE identify == OneRequest.identify
  <2>1. identify.svc # "block"
    BY DEF OneRequest
  <2> HIDE DEF identify
  <2>2. CASE AskEcu(identify, LAMBDA ok : [runner EXCEPT !.pc = "again", !.got = ok])
    <3>1. PICK ok \in BOOLEAN : runner' = [runner EXCEPT !.pc = "again", !.got = ok]
      BY <2>2 DEF AskEcu
    <3>2. Asked(identify)
      <4> DEFINE Then(ok2) == [runner EXCEPT !.pc = "again", !.got = ok2]
      <4>1. AskEcu(identify, Then)
        BY <2>2
      <4> HIDE DEF Then
      <4> QED BY <4>1 DEF AskEcu, Asked
    <3> DEFINE r == [runner EXCEPT !.pc = "again", !.got = ok]
    <3>3. r \in Runner /\ r.i = runner.i /\ r.blk = runner.blk /\ runner' = r
      BY <1>0, <3>1 DEF Runner, Phase
    <3> HIDE DEF r
    <3> QED BY <1>0, <1>2, <2>1, <3>2, <3>3
  <2>3. CASE AskEcu(identify, LAMBDA ok : Outcome([runner EXCEPT !.got = FALSE], ok \/ runner.got))
    <3> DEFINE r == [runner EXCEPT !.got = FALSE]
    <3>1. r \in Runner /\ r.i = runner.i /\ r.blk = runner.blk
      BY <1>0 DEF Runner
    <3>2. Asked(identify) /\ (runner' = Passed(r) \/ runner' = Failed(r))
      BY <2>3 DEF AskEcu, Asked, Outcome
    <3> HIDE DEF r
    <3> QED BY <1>0, <1>2, <2>1, <3>1, <3>2
  <2> QED BY <1>5, <2>2, <2>3 DEF ReadPair, identify
<1>6. CASE Unlock
  <2> DEFINE seed == [svc |-> "seed", level |-> FileLevel, quiet |-> FALSE]
             key == [svc |-> "key", level |-> FileLevel, key |-> ecu.seed, quiet |-> FALSE]
             r == [runner EXCEPT !.pc = "key"]
  <2>1. seed.svc # "block" /\ key.svc # "block"
    OBVIOUS
  <2>2. r \in Runner /\ r.i = runner.i /\ r.blk = runner.blk
    BY <1>0 DEF Runner, Phase
  <2>3. CASE AskEcu(seed, LAMBDA ok : IF ~ok THEN Failed(runner)
                                      ELSE IF ecu.unlocked = FileLevel THEN Passed(runner) ELSE r)
    <3> HIDE DEF seed, r
    <3>1. Asked(seed) /\ (runner' = r \/ runner' = Passed(runner) \/ runner' = Failed(runner))
      BY <2>3 DEF AskEcu, Asked
    <3> QED BY <1>0, <1>2, <2>1, <2>2, <3>1
  <2>4. CASE AskEcu(key, LAMBDA ok : Outcome(runner, ok))
    <3> HIDE DEF key
    <3>1. Asked(key) /\ (runner' = Passed(runner) \/ runner' = Failed(runner))
      BY <2>4 DEF AskEcu, Asked, Outcome
    <3> QED BY <1>0, <1>2, <2>1, <3>1
  <2> QED BY <1>6, <2>3, <2>4 DEF Unlock
<1>7. CASE RequestBlocks
  <2> DEFINE download == [svc |-> "download", quiet |-> FALSE]
  <2>1. download.svc # "block"
    OBVIOUS
  <2> HIDE DEF download
  <2>2. AskEcu(download, LAMBDA ok : Outcome([runner EXCEPT !.size = @ \/ ok], ok))
    BY <1>7 DEF RequestBlocks, download
  <2>3. Asked(download)
    BY <2>2 DEF AskEcu, Asked
  <2>4. PICK ok \in BOOLEAN : runner' = Outcome([runner EXCEPT !.size = @ \/ ok], ok)
    BY <2>2 DEF AskEcu
  <2> DEFINE r == [runner EXCEPT !.size = @ \/ ok]
  <2>5. r \in Runner /\ r.i = runner.i /\ r.blk = runner.blk
    BY <1>0 DEF Runner
  <2>6. runner' = Passed(r) \/ runner' = Failed(r)
    BY <2>4 DEF Outcome
  <2> HIDE DEF r
  <2> QED BY <1>0, <1>2, <2>1, <2>3, <2>5, <2>6
<1>8. CASE Permit
  <2> DEFINE download == [svc |-> "download", quiet |-> FALSE]
             r == [runner EXCEPT !.pc = "blocks", !.blk = 0]
  <2>1. download.svc # "block"
    OBVIOUS
  <2>2. r \in Runner /\ r.i = runner.i /\ r.blk = 0
    BY <1>0 DEF Runner, Phase
  <2>5. 0 \in 0 .. Blocks
    BY <1>0
  <2> HIDE DEF download, r
  <2>3. AskEcu(download, LAMBDA ok : IF ok THEN r ELSE Failed(runner))
    BY <1>8 DEF Permit, download, r
  <2>4. Asked(download) /\ (runner' = r \/ runner' = Failed(runner))
    BY <2>3 DEF AskEcu, Asked
  <2> QED BY <1>0, <1>2, <2>1, <2>2, <2>4, <2>5
<1>9. CASE SendBlocks
  <2> DEFINE block == [svc |-> "block", counter |-> (runner.blk + 1) % CounterMod, quiet |-> FALSE]
             n == runner.blk + 1
             r == [runner EXCEPT !.blk = n]
  <2>1. n \in 0 .. Blocks /\ n \in Nat /\ stored + 1 = n
    BY <1>0, <1>9 DEF SendBlocks, FlashBounded, FlashInv, Underway
  <2>2. block.svc = "block"
    OBVIOUS
  <2>3. AskEcu(block, LAMBDA ok : IF ok THEN r ELSE Failed(runner))
    BY <1>9 DEF SendBlocks
  <2> HIDE DEF n, block
  <2>4. r \in Runner /\ r.i = runner.i /\ r.blk \in 0 .. Blocks
    BY <1>0, <2>1 DEF Runner
  <2> HIDE DEF r
  <2>5. Asked(block) /\ (runner' = r \/ runner' = Failed(runner))
    BY <2>3 DEF AskEcu, Asked
  <2>6. stored' \in {stored, stored + 1}
    BY <2>2, <2>3 DEF AskEcu, Keeps
  <2>7. stored' \in 0 .. Blocks
    BY <1>0, <2>1, <2>6
  <2> QED BY <1>0, <1>2, <2>4, <2>5, <2>7
<1>10. CASE CloseBlocks
  <2> DEFINE exit == [svc |-> "exit", quiet |-> FALSE]
  <2>1. exit.svc # "block"
    OBVIOUS
  <2> HIDE DEF exit
  <2>2. AskEcu(exit, LAMBDA ok : Downloaded(ok))
    BY <1>10 DEF CloseBlocks, exit
  <2>3. Asked(exit)
    BY <2>2 DEF AskEcu, Asked
  <2>4. PICK ok \in BOOLEAN : runner' = Downloaded(ok)
    BY <2>2 DEF AskEcu
  <2> DEFINE r == [runner EXCEPT !.got = ok]
  <2>5. r \in Runner /\ r.i = runner.i /\ r.blk = runner.blk
    BY <1>0 DEF Runner
  <2>6. runner' = Passed(r) \/ runner' = Failed(r)
    BY <2>4 DEF Outcome, Downloaded
  <2> HIDE DEF r
  <2> QED BY <1>0, <1>2, <2>1, <2>3, <2>5, <2>6
<1>11. CASE ExitStep
  <2> DEFINE exit == [svc |-> "exit", quiet |-> FALSE]
  <2>1. exit.svc # "block"
    OBVIOUS
  <2> HIDE DEF exit
  <2>2. AskEcu(exit, LAMBDA ok : Passed(runner))
    BY <1>11 DEF ExitStep, exit
  <2>3. Asked(exit) /\ runner' = Passed(runner)
    BY <2>2 DEF AskEcu, Asked
  <2> QED BY <1>0, <1>2, <2>1, <2>3
<1> QED BY <1>3, <1>4, <1>5, <1>6, <1>7, <1>8, <1>9, <1>10, <1>11 DEF Perform

\* Every step keeps the bounds.
LEMMA BoundedStep == FlashBounded /\ [FlashNext]_flashVars => FlashBounded'
<1> SUFFICES ASSUME FlashBounded, [FlashNext]_flashVars PROVE FlashBounded'
  OBVIOUS
<1>0. /\ FlashInv' /\ Blocks \in Nat /\ Len(script) \in Nat /\ runner \in Runner
      /\ runner.blk \in 0 .. Blocks /\ stored \in 0 .. Blocks
  BY FlashStep, FlashTypes, FlashAssumption DEF FlashBounded
<1>1. CASE Perform
  BY <1>0, <1>1, HandlersBounded DEF FlashBounded
<1>2. CASE EnterRun \/ NextStep
  <2>1. /\ UNCHANGED <<ecu, stored, script>> /\ runner.i \in 1 .. Len(script) + 1
        /\ runner.i \in Nat
    BY <1>2 DEF EnterRun, NextStep, FlashBounded
  <2>2. runner'.blk = runner.blk
    BY <1>0, <1>2 DEF EnterRun, NextStep, BreakCancelled, Runner
  <2>3. runner'.i = runner.i \/ (runner.i <= Len(script) /\ runner'.i = runner.i + 1)
    <3>1. CASE EnterRun
      BY <1>0, <3>1 DEF EnterRun, Runner
    <3>2. CASE NextStep
      <4> DEFINE ts == Append(runner.status, "SKIPPED")
                 n == runner.i + 1
      <4>1. \/ runner' = [runner EXCEPT !.pc = "told"]
            \/ runner' = [runner EXCEPT !.pc = "told", !.aborted = TRUE]
            \/ runner' = [runner EXCEPT !.pc = "doing"]
            \/ runner.i <= Len(script) /\ runner' = [runner EXCEPT !.status = ts, !.i = n]
        BY <1>0, <2>1, <3>2 DEF NextStep, BreakCancelled
      <4> HIDE DEF ts, n
      <4>2. \/ runner'.i = runner.i
            \/ runner.i <= Len(script) /\ runner'.i = n
        BY <1>0, <4>1 DEF Runner
      <4> QED BY <4>2 DEF n
    <3> QED BY <1>2, <3>1, <3>2
  <2>4. runner'.i \in 1 .. Len(script) + 1
    BY <1>0, <2>1, <2>3
  <2> QED BY <1>0, <2>1, <2>2, <2>4 DEF FlashBounded, EcuTypeOK
<1>3. CASE MoveStep \/ AddStep \/ RemoveStep \/ ToggleStep
  <2>1. page = "editor" /\ UNCHANGED <<ecu, runner, stored>>
    BY <1>3 DEF MoveStep, AddStep, RemoveStep, ToggleStep, Edit
  <2>2. runner.pc = "idle"
    BY <2>1 DEF FlashBounded, FlashInv
  <2> QED BY <1>0, <2>1, <2>2 DEF FlashBounded, EcuTypeOK
<1>4. CASE StartFlash
  <2>1. UNCHANGED <<ecu, script, stored>> /\ runner'.blk = 0 /\ runner'.i = 1
    BY <1>4 DEF StartFlash, NewRunner
  <2> QED BY <1>0, <2>1 DEF FlashBounded, EcuTypeOK
<1>5. CASE CancelFlash \/ ShowReport \/ BackToSequence \/ UNCHANGED flashVars
  <2>1. /\ UNCHANGED <<ecu, script, stored>> /\ runner'.blk = runner.blk /\ runner'.i = runner.i
        /\ runner'.pc \in {"idle", runner.pc}
    BY <1>0, <1>5 DEF CancelFlash, ShowReport, BackToSequence, flashVars, Runner
  <2> QED BY <1>0, <2>1 DEF FlashBounded, EcuTypeOK
<1> QED BY <1>1, <1>2, <1>3, <1>4, <1>5 DEF FlashNext, Work

\* The panel opens with nothing stored.
LEMMA BoundedBegins == FlashInit => FlashBounded
<1> SUFFICES ASSUME FlashInit PROVE FlashBounded
  OBVIOUS
<1>1. FlashInv
  BY FlashBegins
<1>2. EcuTypeOK
  BY PowerOnType DEF FlashInit, EcuInit, EcuTypeOK
<1>3. runner = NewRunner /\ stored = 0
  BY DEF FlashInit
<1> QED BY <1>1, <1>2, <1>3, FlashAssumption DEF FlashBounded, NewRunner

\* Well typed and within bounds.
LEMMA BoundedTypes == FlashBounded => FlashTypeOK
<1> SUFFICES ASSUME FlashBounded PROVE FlashTypeOK
  OBVIOUS
<1>1. /\ runner.pc \in Phase /\ runner.i \in Nat /\ runner.status \in Seq(Mark)
      /\ runner.staged \in BOOLEAN /\ runner.size \in BOOLEAN /\ runner.cancelled \in BOOLEAN
      /\ runner.got \in BOOLEAN /\ runner.aborted \in BOOLEAN
  BY FlashTypes DEF FlashBounded, Runner
<1>2. script \in Seq(Step)
  BY DEF FlashBounded, FlashInv, Step
<1> QED BY <1>1, <1>2 DEF FlashBounded, FlashInv, FlashTypeOK, Mark

\* The panel's variables keep their types: a run stays within the sequence,
\* sends no more blocks than the file has, and the ECU stores no more; the
\* sequence is not edited while a run is under way (FlashRunner.run,
\* FlashPanel).
THEOREM FlashTypeCorrect == FlashSpec => []FlashTypeOK
<1> QED BY BoundedBegins, BoundedStep, BoundedTypes, PTL DEF FlashSpec
-----------------------------------------------------------------------------
(* JsIsoTp: the sender remembers a send() only while it is under way, also *)
(* when send() calls overlap.                                              *)

\* JsTypeOK, and the fields that a send() has.
JsTyped ==
    /\ JsTypeOK
    /\ sending \in [Sends -> Sender]
    /\ receiver = [on |-> receiver.on, expected |-> receiver.expected, length |-> receiver.length,
                   buffer |-> receiver.buffer]

\* One send() goes on.
LEMMA SendingKept ==
    ASSUME JsTyped, NEW k \in Sends, NEW s \in Sender, s.offset \in 0 .. Payloads[k],
           s.blockLeft \in {0, BlockSize}, s.pc # "on" => ~s.timer,
           sending' = [sending EXCEPT ![k] = s],
           active' = 0 \/ (s.pc = "on" /\ active' \in {k, active})
                       \/ (s.pc = sending[k].pc /\ UNCHANGED active),
           UNCHANGED receiver,
           rejects' \in 0 .. MaxRejects, strict' \in BOOLEAN, overlapped' \in BOOLEAN
    PROVE  JsTyped'
<1>1. /\ sending' \in [Sends -> Sender] /\ sending'[k] = s
      /\ \A j \in Sends : j # k => sending'[j] = sending[j]
  BY DEF JsTyped
<1>2. \A j \in Sends :
        /\ sending'[j].pc \in {"off", "on", "resolved", "rejected"}
        /\ sending'[j].offset \in 0 .. Payloads[j] /\ sending'[j].blockLeft \in {0, BlockSize}
        /\ sending'[j].pc # "on" => ~sending'[j].timer
  BY <1>1 DEF JsTyped, JsTypeOK, Sender
<1>3. active' \in Sends \cup {0} /\ (active' # 0 => sending'[active'].pc = "on")
  <2>1. active \in Sends \cup {0} /\ (active # 0 => sending[active].pc = "on")
    BY DEF JsTyped, JsTypeOK
  <2>2. CASE active' = 0
    BY <2>2
  <2>3. CASE active' = k /\ s.pc = "on"
    BY <1>1, <2>3
  <2>4. CASE active' = active /\ active # 0 /\ (s.pc = "on" \/ s.pc = sending[k].pc)
    <3>1. CASE active = k
      BY <1>1, <2>1, <2>4, <3>1
    <3>2. CASE active # k
      BY <1>1, <2>1, <2>4, <3>2
    <3> QED BY <3>1, <3>2
  <2> QED BY <2>2, <2>3, <2>4
<1> QED BY <1>1, <1>2, <1>3 DEF JsTyped, JsTypeOK

\* No send() goes on.
LEMMA SendingRests ==
    ASSUME JsTyped, UNCHANGED <<sending, active, overlapped, strict>>,
           rejects' \in 0 .. MaxRejects,
           NEW on \in BOOLEAN, NEW expected \in 0 .. SnMod - 1, NEW length, NEW buffer,
           receiver' = [on |-> on, expected |-> expected, length |-> length, buffer |-> buffer]
    PROVE  JsTyped'
<1>1. receiver'.on = on /\ receiver'.expected = expected
  OBVIOUS
<1> QED BY <1>1 DEF JsTyped, JsTypeOK

\* The sender's steps.
LEMMA SenderTyped ==
    ASSUME JsTyped, NEW k \in Sends,
           SendPayload(k) \/ FlowTimeout(k)
              \/ \E n \in 1 .. Len(sending[k].loops) : SendChunk(k, n) \/ EndLoop(k, n)
    PROVE  JsTyped'
<1> DEFINE s == sending[k]
<1>0. /\ s \in Sender /\ s.offset \in 0 .. Payloads[k] /\ s.blockLeft \in {0, BlockSize}
      /\ (s.pc # "on" => ~s.timer)
      /\ rejects \in 0 .. MaxRejects /\ MaxRejects \in Nat /\ Payloads[k] \in Nat
      /\ strict \in BOOLEAN /\ overlapped \in BOOLEAN /\ sending \in [Sends -> Sender]
  BY PayloadsAssumption DEF JsTyped, JsTypeOK, Sends
<1>1. CASE SendPayload(k)
  <2>1. PICK sent \in BOOLEAN :
          LET how == IF ~sent /\ strict THEN "rejected" ELSE IF Payloads[k] = 0 THEN "resolved" ELSE "on" IN
          /\ sending' = [sending EXCEPT ![k].pc = how, ![k].timer = how = "on"]
          /\ active' = IF how = "on" THEN k ELSE 0
    BY <1>1 DEF SendPayload, Tx
  <2> DEFINE how == IF ~sent /\ strict THEN "rejected" ELSE IF Payloads[k] = 0 THEN "resolved" ELSE "on"
             armed == how = "on"
             t == [s EXCEPT !.pc = how, !.timer = armed]
  <2>2. how \in {"rejected", "resolved", "on"} /\ armed \in BOOLEAN /\ (armed <=> how = "on")
    OBVIOUS
  <2>3. sending' = [sending EXCEPT ![k].pc = how, ![k].timer = armed] /\ active' = IF how = "on" THEN k ELSE 0
    BY <2>1
  <2> HIDE DEF how, armed
  <2>4. sending' = [sending EXCEPT ![k] = t]
    BY <1>0, <2>3
  <2>5. rejects' \in 0 .. MaxRejects
    BY <1>0, <1>1 DEF SendPayload, Tx
  <2>6. overlapped' \in BOOLEAN /\ UNCHANGED <<strict, receiver>>
    BY <1>1 DEF SendPayload
  <2>7. /\ t \in Sender /\ t.offset = s.offset /\ t.blockLeft = s.blockLeft /\ t.pc = how
        /\ (t.pc # "on" => ~t.timer)
    BY <1>0, <2>2 DEF Sender
  <2>8. active' = 0 \/ (t.pc = "on" /\ active' \in {k, active})
    BY <2>3, <2>7
  <2>9. strict' \in BOOLEAN
    BY <1>0, <2>6
  <2> HIDE DEF s, t
  <2> QED BY <1>0, <2>4, <2>5, <2>6, <2>7, <2>8, <2>9, SendingKept
<1>2. CASE FlowTimeout(k)
  <2> DEFINE t == [s EXCEPT !.pc = "rejected", !.timer = FALSE]
  <2>1. /\ sending' = [sending EXCEPT ![k] = t]
        /\ active' = 0 /\ UNCHANGED <<strict, receiver, rejects, overlapped>>
    BY <1>2 DEF FlowTimeout, Settled, LetGo
  <2>2. strict' \in BOOLEAN /\ overlapped' \in BOOLEAN /\ rejects' \in 0 .. MaxRejects
    BY <1>0, <2>1
  <2>3. t \in Sender /\ t.offset = s.offset /\ t.blockLeft = s.blockLeft /\ ~t.timer
    BY <1>0 DEF Sender
  <2> HIDE DEF s, t
  <2> QED BY <1>0, <2>1, <2>2, <2>3, SendingKept
<1>3. ASSUME NEW n \in 1 .. Len(s.loops), SendChunk(k, n) PROVE JsTyped'
  <2> DEFINE offset == s.offset + 1
             count == s.loops[n] + 1
             loops == [s.loops EXCEPT ![n] = count]
             t == [s EXCEPT !.offset = offset, !.loops = loops]
             u == [s EXCEPT !.pc = "rejected", !.timer = FALSE]
  <2>1. offset \in 0 .. Payloads[k] /\ offset \in Nat /\ s.pc = "on"
    <3>1. s.pc = "on" /\ s.offset < Payloads[k]
      BY <1>3 DEF SendChunk, MoreOfBlock
    <3> QED BY <1>0, <3>1
  <2>2. loops \in Seq(Nat)
    <3>1. s.loops \in Seq(Nat)
      BY <1>0 DEF Sender
    <3> HIDE DEF s
    <3>2. count \in Nat
      BY <3>1
    <3> HIDE DEF count
    <3> QED BY <3>1, <3>2
  <2>3. \/ sending' = [sending EXCEPT ![k] = t] /\ UNCHANGED active
        \/ sending' = [sending EXCEPT ![k] = u] /\ active' = 0
    BY <1>3 DEF SendChunk, Tx, LetGo, Settled
  <2> HIDE DEF offset, loops
  <2>4. /\ t \in Sender /\ t.offset \in 0 .. Payloads[k] /\ t.blockLeft = s.blockLeft /\ t.pc = "on"
        /\ u \in Sender /\ u.offset = s.offset /\ u.blockLeft = s.blockLeft /\ ~u.timer
    BY <1>0, <2>1, <2>2 DEF Sender
  <2>5. rejects' \in 0 .. MaxRejects
    <3>1. UNCHANGED rejects \/ (rejects < MaxRejects /\ rejects' = rejects + 1)
      BY <1>3 DEF SendChunk, Tx
    <3> QED BY <1>0, <3>1
  <2>6. UNCHANGED <<strict, receiver, overlapped>>
    BY <1>3 DEF SendChunk
  <2>7. strict' \in BOOLEAN /\ overlapped' \in BOOLEAN
    BY <1>0, <2>6
  <2> HIDE DEF s, t, u
  <2>8. CASE active' = 0 /\ sending' = [sending EXCEPT ![k] = u]
    BY <1>0, <2>4, <2>5, <2>6, <2>7, <2>8, SendingKept
  <2>9. CASE UNCHANGED active /\ sending' = [sending EXCEPT ![k] = t]
    <3>1. active' \in {k, active}
      BY <2>9
    <3> QED BY <1>0, <2>4, <2>5, <2>6, <2>7, <2>9, <3>1, SendingKept
  <2> QED BY <2>3, <2>8, <2>9
<1>4. ASSUME NEW n \in 1 .. Len(s.loops), EndLoop(k, n) PROVE JsTyped'
  <2> DEFINE loops == RemoveAt(s.loops, n)
             armed == s.pc = "on"
             st == [s EXCEPT !.loops = loops]
             t == [st EXCEPT !.timer = armed]
             u == [st EXCEPT !.pc = "resolved", !.timer = FALSE]
  <2>1. loops \in Seq(Nat)
    BY <1>0, RemovedElements DEF Sender
  <2>2. \/ sending' = [sending EXCEPT ![k] = t] /\ UNCHANGED active
        \/ sending' = [sending EXCEPT ![k] = u] /\ active' = 0
    <3>1. st.pc = s.pc
      <4> HIDE DEF loops
      <4> QED BY <1>0 DEF Sender
    <3> QED BY <1>4, <3>1 DEF EndLoop, LetGo, Settled
  <2> HIDE DEF loops
  <2>3. armed \in BOOLEAN
    OBVIOUS
  <2>4. /\ st \in Sender /\ st.offset = s.offset /\ st.blockLeft = s.blockLeft /\ st.pc = s.pc
    BY <1>0, <2>1 DEF Sender
  <2> HIDE DEF st
  <2>5. /\ t \in Sender /\ t.offset = s.offset /\ t.blockLeft = s.blockLeft /\ t.pc = s.pc
        /\ u \in Sender /\ u.offset = s.offset /\ u.blockLeft = s.blockLeft /\ ~u.timer
    BY <2>3, <2>4 DEF Sender
  <2>6. t.timer = armed
    BY <2>4 DEF Sender
  <2>7. /\ strict' \in BOOLEAN /\ overlapped' \in BOOLEAN /\ rejects' \in 0 .. MaxRejects
        /\ UNCHANGED receiver
    BY <1>0, <1>4 DEF EndLoop
  <2>8. t.pc # "on" => ~t.timer
    BY <2>5, <2>6
  <2> HIDE DEF t, u
  <2>9. CASE active' = 0 /\ sending' = [sending EXCEPT ![k] = u]
    BY <1>0, <2>5, <2>7, <2>9, SendingKept
  <2>10. CASE UNCHANGED active /\ sending' = [sending EXCEPT ![k] = t]
    BY <1>0, <2>5, <2>7, <2>8, <2>10, SendingKept
  <2> QED BY <2>2, <2>9, <2>10
<1> QED BY <1>1, <1>2, <1>3, <1>4

\* Flow control comes, or is lost.
LEMMA FlowTyped == ASSUME JsTyped, TakeFlow \/ LoseFlow PROVE JsTyped'
<1>1. /\ rejects \in 0 .. MaxRejects /\ MaxRejects \in Nat /\ receiver.on \in BOOLEAN
      /\ receiver.expected \in 0 .. SnMod - 1 /\ sending \in [Sends -> Sender]
      /\ receiver = [on |-> receiver.on, expected |-> receiver.expected, length |-> receiver.length,
                     buffer |-> receiver.buffer]
  BY PayloadsAssumption DEF JsTyped, JsTypeOK
<1>2. CASE active = 0 \/ LoseFlow
  <2>1. UNCHANGED <<sending, active, overlapped, strict, receiver>> /\ rejects' \in 0 .. MaxRejects
    BY <1>1, <1>2 DEF TakeFlow, LoseFlow
  <2> QED BY <1>1, <2>1, SendingRests
<1>3. CASE active # 0 /\ TakeFlow
  <2> DEFINE s == sending[active]
             loops == Append(s.loops, 0)
             t == [s EXCEPT !.blockLeft = BlockSize, !.loops = loops]
  <2>1. active \in Sends /\ s.pc = "on" /\ s \in Sender
    BY <1>1, <1>3 DEF JsTyped, JsTypeOK
  <2>2. /\ s.offset \in 0 .. Payloads[active] /\ strict \in BOOLEAN /\ overlapped \in BOOLEAN
    BY <2>1 DEF JsTyped, JsTypeOK
  <2>3. loops \in Seq(Nat)
    BY <2>1 DEF Sender
  <2>4. /\ sending' = [sending EXCEPT ![active] = t]
        /\ UNCHANGED <<active, receiver, rejects, overlapped, strict>>
    BY <1>1, <1>3, <2>1 DEF TakeFlow
  <2> HIDE DEF loops
  <2>5. t \in Sender /\ t.offset = s.offset /\ t.blockLeft = BlockSize /\ t.pc = "on"
    BY <2>1, <2>3, PayloadsAssumption DEF Sender
  <2>6. strict' \in BOOLEAN /\ overlapped' \in BOOLEAN /\ rejects' \in 0 .. MaxRejects
        /\ active' \in {active}
    BY <1>1, <2>2, <2>4
  <2> HIDE DEF s, t
  <2> QED BY <2>1, <2>2, <2>4, <2>5, <2>6, SendingKept
<1> QED BY <1>2, <1>3

\* The receiver's steps.
LEMMA ReceiverTyped == ASSUME JsTyped, OnFrame \/ ChunkTimeout PROVE JsTyped'
<1>1. /\ rejects \in 0 .. MaxRejects /\ receiver.on \in BOOLEAN
      /\ receiver.expected \in 0 .. SnMod - 1
      /\ receiver = [on |-> receiver.on, expected |-> receiver.expected, length |-> receiver.length,
                     buffer |-> receiver.buffer]
  BY DEF JsTyped, JsTypeOK
<1>2. /\ 0 \in 0 .. SnMod - 1 /\ 1 % SnMod \in 0 .. SnMod - 1
      /\ (receiver.expected + 1) % SnMod \in 0 .. SnMod - 1
  BY <1>1, PayloadsAssumption, Z3
<1>3. UNCHANGED <<sending, active, rejects, overlapped, strict>>
  BY DEF OnFrame, ChunkTimeout
<1>4. PICK on, expected, length, buffer :
        /\ on \in BOOLEAN /\ expected \in 0 .. SnMod - 1
        /\ receiver' = [on |-> on, expected |-> expected, length |-> length, buffer |-> buffer]
  <2> DEFINE next == (receiver.expected + 1) % SnMod
             one == 1 % SnMod
  <2>1. next \in 0 .. SnMod - 1 /\ one \in 0 .. SnMod - 1 /\ 0 \in 0 .. SnMod - 1
    BY <1>2
  <2>2. CASE ChunkTimeout \/ \E f : TakeChunk(f) /\ receiver' = [receiver EXCEPT !.on = FALSE]
    BY <1>1, <2>2 DEF ChunkTimeout
  <2>3. ASSUME NEW f, TakeFirst(f)
        PROVE  \E on, expected, length, buffer :
                  /\ on \in BOOLEAN /\ expected \in 0 .. SnMod - 1
                  /\ receiver' = [on |-> on, expected |-> expected, length |-> length, buffer |-> buffer]
    <3>1. receiver' = [on |-> TRUE, expected |-> one, length |-> Payloads[f.send], buffer |-> <<Piece(f.send, 0)>>]
      BY <2>3 DEF TakeFirst
    <3> QED BY <2>1, <3>1
  <2>4. CASE receiver' = Resting
    BY <2>1, <2>4 DEF Resting
  <2>5. ASSUME NEW f, TakeChunk(f), receiver' # [receiver EXCEPT !.on = FALSE], receiver' # Resting
        PROVE  \E on, expected, length, buffer :
                  /\ on \in BOOLEAN /\ expected \in 0 .. SnMod - 1
                  /\ receiver' = [on |-> on, expected |-> expected, length |-> length, buffer |-> buffer]
    <3> DEFINE buffer2 == Append(receiver.buffer, Piece(f.send, f.chunk))
    <3>1. receiver' = [receiver EXCEPT !.buffer = buffer2, !.expected = next]
      BY <2>5 DEF TakeChunk, Deliver
    <3> HIDE DEF buffer2, next
    <3>2. receiver' = [on |-> receiver.on, expected |-> next, length |-> receiver.length, buffer |-> buffer2]
      BY <1>1, <3>1
    <3> QED BY <1>1, <2>1, <3>2
  <2> HIDE DEF next, one
  <2> QED BY <2>2, <2>3, <2>4, <2>5 DEF OnFrame, TakeSingle, Deliver
<1> QED BY <1>1, <1>3, <1>4, SendingRests

\* Every step keeps the types.
LEMMA JsTypedStep == JsTyped /\ [JsNext]_jsVars => JsTyped'
<1> SUFFICES ASSUME JsTyped, [JsNext]_jsVars PROVE JsTyped'
  OBVIOUS
<1>1. CASE UNCHANGED jsVars
  BY <1>1 DEF jsVars, JsTyped, JsTypeOK
<1> QED BY <1>1, SenderTyped, FlowTyped, ReceiverTyped DEF JsNext, Advancing

\* Nothing is sent at the start.
LEMMA JsTypedBegins == JsInit => JsTyped
<1> SUFFICES ASSUME JsInit PROVE JsTyped
  OBVIOUS
<1>1. /\ strict \in BOOLEAN /\ overlapped = FALSE /\ active = 0 /\ rejects = 0
      /\ receiver = Resting /\ \A k \in Sends : sending[k] = Unsent
      /\ sending = [k \in Sends |-> Unsent]
  BY DEF JsInit
<1>2. /\ \A k \in Sends : Payloads[k] \in Nat
      /\ 0 \in 0 .. SnMod - 1 /\ 0 \in 0 .. MaxRejects
  BY PayloadsAssumption DEF Sends
<1>3. JsTypeOK
  <2>1. \A k \in Sends :
          /\ sending[k].pc = "off" /\ sending[k].offset = 0 /\ sending[k].blockLeft = 0
          /\ sending[k].timer = FALSE /\ 0 \in 0 .. Payloads[k]
    BY <1>1, <1>2 DEF Unsent
  <2>2. receiver.on = FALSE /\ receiver.expected = 0
    BY <1>1 DEF Resting
  <2>3. {strict, overlapped} \subseteq BOOLEAN
    BY <1>1
  <2> QED BY <1>1, <1>2, <2>1, <2>2, <2>3 DEF JsTypeOK
<1>4. Unsent \in Sender
  BY DEF Unsent, Sender
<1> QED BY <1>1, <1>3, <1>4 DEF JsTyped, Resting

\* The sender remembers a send() only while it is under way, and a timer runs
\* for no other, also when send() calls overlap (IsoTpSender._active, _finish).
THEOREM JsTypeCorrect == JsSpec => []JsTypeOK
<1>1. JsTyped => JsTypeOK
  BY DEF JsTyped
<1> QED BY <1>1, JsTypedBegins, JsTypedStep, PTL DEF JsSpec
-----------------------------------------------------------------------------
(* The components one after the other: every step is one of a single       *)
(* component, and leaves what the others hold as it is.  The ECU is one of  *)
(* the flash panel's variables whoever talks to it.                        *)

\* The lemmas about any link, for the link of this run.
Link == INSTANCE IsoTpProofs WITH
    BlockSize <- IsoBlockSize, MaxSends <- IsoMaxSends, MaxLoss <- 0, MaxForeign <- 0,
    rx <- isoRx, mode <- isoMode, tx <- isoTx, asm <- isoAsm, sent <- isoSent,
    delivered <- isoDelivered, lost <- isoLost, foreign <- isoForeign

ServicesInv ==
    /\ which \in Component
    /\ ManagerInv /\ FlashBounded /\ JsTyped /\ WatchInv /\ Link!TypeOK
    /\ which = "transfer" => TransferTyped

\* A component that rests keeps its invariant.
LEMMA ManagerRests == ManagerInv /\ UNCHANGED vars => ManagerInv'
  BY ManagerStep
LEMMA JsRests == JsTyped /\ UNCHANGED jsVars => JsTyped'
  BY JsTypedStep
LEMMA WatchRests == WatchInv /\ UNCHANGED watchVars => WatchInv'
  BY WatchStep
LEMMA FlashRests ==
    FlashBounded /\ EcuTypeOK' /\ UNCHANGED <<script, runner, page, stored, flashed>> => FlashBounded'
<1> SUFFICES ASSUME FlashBounded, EcuTypeOK', UNCHANGED <<script, runner, page, stored, flashed>>
             PROVE  FlashBounded'
  OBVIOUS
<1>1. (Valid => Valid') /\ (Completed' => Completed)
  BY DEF Valid, Places, Enabled, InOrder, Completed
<1>2. \A n : Done(n) => Done(n)'
  BY DEF Done, Leaves
<1>3. Underway' /\ Ended'
  BY <1>1, <1>2 DEF FlashBounded, FlashInv, Underway, Ended
<1>4. UNCHANGED <<script, runner, stored, flashed>> /\ (page' = "progress" <=> page = "progress")
  OBVIOUS
<1> QED BY <1>1, <1>3, <1>4 DEF FlashBounded, FlashInv

\* The link's constants are what its lemmas assume.
LEMMA LinkConstants == Link!StationAssumption /\ Link!SizeAssumption /\ Link!BoundAssumption
<1>1. IsoBlockSize \in [{Tester, Ecu} -> Nat] /\ IsoMaxSends \in [{Tester, Ecu} -> Nat]
  BY LinkAssumption DEF IsoBlockSize, IsoMaxSends
<1> QED BY <1>1, LinkAssumption
        DEF Link!StationAssumption, Link!SizeAssumption, Link!BoundAssumption, Link!Station

\* Its types, its start and its steps are those MCServices names Iso!...: the
\* definitions are the same ones.
LEMMA LinkTypes == Link!TypeOK => Iso!TypeOK
  BY DEF Iso!Station, Link!Station, Iso!Frame, Link!Frame, Iso!Mode, Link!Mode,
         Iso!TxState, Link!TxState, Iso!AsmState, Link!AsmState, Iso!Chunk, Link!Chunk,
         Iso!SeqNumber, Link!SeqNumber, Iso!Status, Link!Status, Iso!TypeOK, Link!TypeOK
LEMMA LinkSteps == [Iso!PromptNext]_isoVars => [Link!PromptNext]_(Link!vars)
  BY DEF Link!vars, isoVars, Iso!Station, Link!Station, Iso!Peer, Link!Peer,
         Iso!PromptNext, Link!PromptNext, Iso!CallStep, Link!CallStep,
         Iso!SendStep, Link!SendStep, Iso!ReceiveStep, Link!ReceiveStep, Iso!Fault, Link!Fault,
         Iso!PromptTimeout, Link!PromptTimeout, Iso!Quiet, Link!Quiet,
         Iso!SendSingle, Link!SendSingle, Iso!SendFirst, Link!SendFirst, Iso!Listen, Link!Listen,
         Iso!SkipFrame, Link!SkipFrame, Iso!FlowContinue, Link!FlowContinue,
         Iso!FlowWait, Link!FlowWait, Iso!FlowRefused, Link!FlowRefused,
         Iso!SendConsecutive, Link!SendConsecutive, Iso!ReceiveSingle, Link!ReceiveSingle,
         Iso!ReceiveFirst, Link!ReceiveFirst, Iso!IgnoreStray, Link!IgnoreStray,
         Iso!IgnoreWhileCollecting, Link!IgnoreWhileCollecting,
         Iso!OutOfSequence, Link!OutOfSequence, Iso!Collect, Link!Collect,
         Iso!CollectLast, Link!CollectLast, Iso!Lose, Link!Lose, Iso!SendError, Link!SendError,
         Iso!FlowTimeout, Link!FlowTimeout, Iso!CollectTimeout, Link!CollectTimeout,
         Iso!ListenTimeout, Link!ListenTimeout, Iso!Started, Link!Started,
         Iso!Continue, Link!Continue, Iso!Pending, Link!Pending, Iso!InTurn, Link!InTurn,
         Iso!Extended, Link!Extended, Iso!BlockComplete, Link!BlockComplete,
         Iso!Without, Link!Without, Iso!Transmit, Link!Transmit, Iso!Take, Link!Take,
         Iso!TakeAndTransmit, Link!TakeAndTransmit, Iso!SingleFrame, Link!SingleFrame,
         Iso!FirstFrame, Link!FirstFrame, Iso!ConsecutiveFrame, Link!ConsecutiveFrame,
         Iso!FlowControl, Link!FlowControl, Iso!Payload, Link!Payload

\* The link begins and stays well typed.
LEMMA LinkBegins == Iso!Init => Link!TypeOK
<1>1. Iso!Init => Link!Init
  BY DEF Iso!Init, Link!Init, Iso!Station, Link!Station
<1> QED BY <1>1, LinkConstants, Link!InitType
LEMMA LinkKeeps == Link!TypeOK /\ [Iso!PromptNext]_isoVars => Link!TypeOK'
<1>1. [Link!PromptNext]_(Link!vars) => [Link!Next]_(Link!vars)
  BY LinkConstants, Link!PromptIsNext
<1> QED BY <1>1, LinkConstants, LinkSteps, Link!TypeStep
LEMMA LinkRests == Link!TypeOK /\ UNCHANGED isoVars => Link!TypeOK'
  BY LinkKeeps

\* All components are well typed at the start.
LEMMA ServicesBegin == ServicesInit => ServicesInv
  BY ManagerBegins, BoundedBegins, JsTypedBegins, WatchBegins, TypedBegins, LinkBegins
  DEF ServicesInit, ServicesInv

\* Whoever steps.
LEMMA ServicesStep == ServicesInv /\ [ServicesNext]_servicesVars => ServicesInv'
<1> SUFFICES ASSUME ServicesInv, [ServicesNext]_servicesVars PROVE ServicesInv'
  OBVIOUS
<1>0. EcuTypeOK
  BY DEF ServicesInv, FlashBounded
<1>1. CASE UNCHANGED servicesVars
  <2>1. UNCHANGED <<which, vars, transferVars, flashVars, isoVars, jsVars, watchVars>>
    BY <1>1 DEF servicesVars
  <2>2. FlashBounded' /\ (TransferTyped => TransferTyped')
    BY <2>1, BoundedStep, TypedStep DEF ServicesInv
  <2> QED BY <2>1, <2>2, ManagerRests, JsRests, WatchRests, LinkRests DEF ServicesInv
<1>2. CASE which = "connection" /\ Next /\ Still
  <2>1. ManagerInv'
    BY <1>2, ManagerStep DEF ServicesInv
  <2>2. UNCHANGED <<which, script, runner, page, stored, flashed, ecu, jsVars, watchVars, isoVars>>
    BY <1>2 DEF Still
  <2>3. EcuTypeOK'
    BY <1>0, <2>2 DEF EcuTypeOK
  <2> QED BY <1>2, <2>1, <2>2, <2>3, FlashRests, JsRests, WatchRests, LinkRests DEF ServicesInv
<1>3. CASE which = "ecu" /\ EcuNext /\ Still
  <2>1. EcuTypeOK'
    BY <1>0, <1>3, EcuNextType
  <2>2. UNCHANGED <<which, vars, script, runner, page, stored, flashed, jsVars, watchVars, isoVars>>
    BY <1>3 DEF Still
  <2> QED BY <1>3, <2>1, <2>2, ManagerRests, FlashRests, JsRests, WatchRests, LinkRests
      DEF ServicesInv
<1>4. CASE which = "transfer" /\ TransferNext /\ Still
  <2>1. TransferTyped'
    BY <1>4, TypedStep DEF ServicesInv
  <2>2. EcuTypeOK'
    BY <2>1 DEF TransferTyped, TransferInv
  <2>3. UNCHANGED <<which, vars, script, runner, page, stored, flashed, jsVars, watchVars, isoVars>>
    BY <1>4 DEF Still
  <2> QED BY <1>4, <2>1, <2>2, <2>3, ManagerRests, FlashRests, JsRests, WatchRests, LinkRests
      DEF ServicesInv
<1>5. CASE which = "flash" /\ FlashNext /\ Still
  <2>1. FlashBounded'
    BY <1>5, BoundedStep DEF ServicesInv
  <2>2. UNCHANGED <<which, vars, jsVars, watchVars, isoVars>>
    BY <1>5 DEF Still
  <2> QED BY <1>5, <2>1, <2>2, ManagerRests, JsRests, WatchRests, LinkRests DEF ServicesInv
<1>6. CASE which = "link" /\ Iso!PromptNext /\ Still
  <2>0. Link!TypeOK'
    BY <1>6, LinkKeeps DEF ServicesInv
  <2>1. UNCHANGED <<which, vars, script, runner, page, stored, flashed, ecu, jsVars, watchVars>>
    BY <1>6 DEF Still
  <2>2. EcuTypeOK'
    BY <1>0, <2>1 DEF EcuTypeOK
  <2> QED BY <1>6, <2>0, <2>1, <2>2, ManagerRests, FlashRests, JsRests, WatchRests DEF ServicesInv
<1>7. CASE which = "js" /\ JsNext /\ Still
  <2>1. JsTyped'
    BY <1>7, JsTypedStep DEF ServicesInv
  <2>2. UNCHANGED <<which, vars, script, runner, page, stored, flashed, ecu, watchVars, isoVars>>
    BY <1>7 DEF Still
  <2>3. EcuTypeOK'
    BY <1>0, <2>2 DEF EcuTypeOK
  <2> QED BY <1>7, <2>1, <2>2, <2>3, ManagerRests, FlashRests, WatchRests, LinkRests DEF ServicesInv
<1>8. CASE which = "watch" /\ WatchNext /\ Still
  <2>1. WatchInv'
    BY <1>8, WatchStep DEF ServicesInv
  <2>2. UNCHANGED <<which, vars, script, runner, page, stored, flashed, ecu, jsVars, isoVars>>
    BY <1>8 DEF Still
  <2>3. EcuTypeOK'
    BY <1>0, <2>2 DEF EcuTypeOK
  <2> QED BY <1>8, <2>1, <2>2, <2>3, ManagerRests, FlashRests, JsRests, LinkRests DEF ServicesInv
<1> QED BY <1>1, <1>2, <1>3, <1>4, <1>5, <1>6, <1>7, <1>8 DEF ServicesNext

\* Every component that owes its callers an end keeps its variables in their
\* types, with what the types relate: the lock to its holder, the editor to the
\* run under way, the payload being sent to its sender, the blocks counted to
\* the blocks stored.
THEOREM ServicesTypeCorrect == ServicesSpec => []ServicesTypeOK
<1>1. ServicesInv => ServicesTypeOK
  BY BoundedTypes, TypedTypes, LinkTypes
  DEF ServicesInv, ServicesTypeOK, ManagerInv, JsTyped, WatchInv
<1> QED BY <1>1, ServicesBegin, ServicesStep, PTL DEF ServicesSpec
=============================================================================
