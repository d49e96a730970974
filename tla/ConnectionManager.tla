-------------------------- MODULE ConnectionManager --------------------------
(***************************************************************************)
(* ConnectionManager (src/src/communication/connection_manager.py) with    *)
(* the PeriodicTimer of its health check (src/src/utils/timer_utils.py).   *)
(*                                                                         *)
(* connect() and disconnect() run under the manager's lock; reconnect() is *)
(* one after the other, without the lock in between.  Three callers: the   *)
(* operator, through the panel and its controller; the application, which  *)
(* disconnects once, at shutdown; and the health checks, a thread for      *)
(* every timer ever started.  disconnect() stops the timer first and joins *)
(* its thread for at most a second.                                        *)
(*                                                                         *)
(* A stack (driver, protocol, transport) is known by its number, and so is *)
(* the timer started with it; 0 is None.                                   *)
(***************************************************************************)
EXTENDS Naturals, FiniteSets

CONSTANTS
    Operator, Closer,  \* the operator's calls, and the application's at shutdown
    Nobody,            \* the lock is free
    AutoReconnect,     \* configuration "connection.auto_reconnect"
    MayShutDown,       \* bound: the application may shut down
    MaxPresses,        \* bound: buttons pressed by the operator
    MaxStacks,         \* bound: stacks built
    MaxLosses,         \* bound: channels lost
    MaxFailures        \* bound: stacks that fail to start

ASSUME ManagerAssumption ==
    /\ Operator # Closer /\ Nobody \notin {Operator, Closer}
    /\ {Operator, Closer, Nobody} \cap (0 .. MaxStacks) = {}
    /\ AutoReconnect \in BOOLEAN /\ MayShutDown \in BOOLEAN
    /\ MaxPresses \in Nat /\ MaxStacks \in Nat /\ MaxLosses \in Nat /\ MaxFailures \in Nat

User == {Operator, Closer}
Stack == 1 .. MaxStacks
Thread == User \cup Stack

VARIABLES
    state,      \* _state
    driver,     \* the stack driver, protocol and transport belong to
    timer,      \* _health_timer
    lock,       \* _lock
    opened,     \* the stacks whose driver.is_connected
    signalled,  \* the timers whose _stop is set
    at,         \* at[t]: where thread t is
    job,        \* job[t]: the operation thread t performs
    panel,      \* what the operator's buttons allow
    built,      \* stacks built so far
    noticed,    \* history: the stacks whose loss was published as COMM_ERROR
    wanted,     \* history: FALSE once a user's disconnect() went through
    presses, losses, failures

bounds == <<presses, losses, failures>>
vars == <<state, driver, timer, lock, opened, signalled, at, job, panel, built,
          noticed, wanted, bounds>>

Place == {"idle", "unborn", "asleep", "dead",
          "stopping", "joining", "tearing", "closing", "starting", "opening"}

TypeOK ==
    /\ state \in {"DISCONNECTED", "CONNECTING", "CONNECTED", "ERROR"}
    /\ driver \in 0 .. built /\ timer \in 0 .. built
    /\ lock \in Thread \cup {Nobody}
    /\ opened \subseteq 1 .. built /\ signalled \subseteq 1 .. built
    /\ at \in [Thread -> Place]
    /\ job \in [Thread -> {"none", "connect", "disconnect", "reconnect"}]
    /\ panel \in {"down", "busy", "up"}
    /\ built \in 0 .. MaxStacks
    /\ noticed \subseteq 1 .. built
    /\ wanted \in BOOLEAN
    /\ presses \in 0 .. MaxPresses /\ losses \in 0 .. MaxLosses
    /\ failures \in 0 .. MaxFailures
    \* The lock is held from the first step of an operation to its last.
    /\ \A t \in Thread : lock = t <=> at[t] \in {"joining", "tearing", "closing", "opening"}

Init ==
    /\ state = "DISCONNECTED" /\ driver = 0 /\ timer = 0 /\ lock = Nobody
    /\ opened = {} /\ signalled = {}
    /\ at = [t \in Thread |-> IF t \in User THEN "idle" ELSE "unborn"]
    /\ job = [t \in Thread |-> "none"]
    /\ panel = "down" /\ built = 0
    /\ noticed = {} /\ wanted = FALSE
    /\ presses = 0 /\ losses = 0 /\ failures = 0

-----------------------------------------------------------------------------
(* The callers.                                                            *)

Begin(t, operation) ==
    /\ job' = [job EXCEPT ![t] = operation]
    /\ at' = [at EXCEPT ![t] = IF operation = "connect" THEN "starting" ELSE "stopping"]
    /\ UNCHANGED <<state, driver, timer, lock, opened, signalled, built>>

\* ConnectionPanel.set_state: connect while down, disconnect while up.  The
\* buttons are gone once the application shuts down.
Press(allowed, operation) ==
    /\ at[Operator] = "idle" /\ at[Closer] = "idle" /\ panel = allowed
    /\ presses < MaxPresses
    /\ presses' = presses + 1
    /\ panel' = "busy"
    /\ wanted' = (wanted \/ operation # "disconnect")
    /\ Begin(Operator, operation)
    /\ UNCHANGED <<noticed, losses, failures>>

PressConnect == Press("down", "connect")
PressDisconnect == Press("up", "disconnect")
PressReconnect == Press("up", "reconnect")

\* MainController.shutdown, a hook of Application.shutdown: on the thread of
\* the user interface, as disconnect() and reconnect() from the panel are;
\* only connect() has a worker of its own and may be under way.
Shutdown ==
    /\ MayShutDown
    /\ at[Closer] = "idle"
    /\ job[Operator] \notin {"disconnect", "reconnect"}
    /\ Begin(Closer, "disconnect")
    /\ UNCHANGED <<panel, noticed, wanted, bounds>>

\* Mutant: the lock is not waited for.
Unguarded == TRUE

Free == lock = Nobody

\* The thread goes back to where it came from.
Finish(t, up) ==
    /\ job' = [job EXCEPT ![t] = "none"]
    /\ at' = [at EXCEPT ![t] = CASE t = Operator -> "idle"
                                 [] t = Closer -> "dead"
                                 [] OTHER -> "asleep"]
    /\ panel' = IF t = Operator THEN (IF up THEN "up" ELSE "down") ELSE panel

-----------------------------------------------------------------------------
(* connect()                                                               *)

\* _build_driver: the previous driver, if any, is forgotten and not closed.
Build(t) ==
    /\ at[t] = "starting" /\ Free
    /\ built < MaxStacks
    /\ lock' = t
    /\ state' = "CONNECTING"
    /\ built' = built + 1
    /\ driver' = built + 1
    /\ at' = [at EXCEPT ![t] = "opening"]
    /\ UNCHANGED <<timer, opened, signalled, job, panel, noticed, wanted, bounds>>

\* Mutant: only connect() starts the health check, reconnect() does not.
StartedOnConnect(t) == IF job[t] = "connect" THEN "asleep" ELSE "dead"

TimerStarted(t) == "asleep"

\* driver.connect, transport.connect, _start_health_checks.
Open(t) ==
    /\ at[t] = "opening"
    /\ opened' = opened \cup {driver}
    /\ state' = "CONNECTED"
    /\ timer' = driver
    /\ lock' = Nobody
    /\ job' = [job EXCEPT ![t] = "none"]
    /\ at' = [at EXCEPT ![t] = IF t = Operator THEN "idle" ELSE "asleep",
                        ![driver] = TimerStarted(t)]
    /\ panel' = IF t = Operator THEN "up" ELSE panel
    /\ UNCHANGED <<driver, signalled, built, noticed, wanted, bounds>>

\* A layer raises: ERROR, and _teardown.  reconnect() turns it into False.
FailToOpen(t) ==
    /\ at[t] = "opening" /\ failures < MaxFailures
    /\ failures' = failures + 1
    /\ state' = "ERROR"
    /\ opened' = opened \ {driver}
    /\ driver' = 0
    /\ lock' = Nobody
    /\ Finish(t, FALSE)
    /\ UNCHANGED <<timer, signalled, built, noticed, wanted, presses, losses>>

-----------------------------------------------------------------------------
(* disconnect(): _stop_health_checks, _teardown.                           *)

\* PeriodicTimer.stop sets _stop, then joins.
AfterStop == IF timer = 0 THEN "tearing" ELSE "joining"

StopTimer(t) ==
    /\ at[t] = "stopping" /\ Free
    /\ timer # t
    /\ lock' = t
    /\ signalled' = signalled \cup ({timer} \ {0})
    /\ at' = [at EXCEPT ![t] = AfterStop]
    /\ UNCHANGED <<state, driver, timer, opened, job, panel, built, noticed, wanted, bounds>>

\* The health check's thread cannot join itself: RuntimeError, before the
\* timer is forgotten and before anything is torn down.
JoinSelf(t) ==
    /\ at[t] = "stopping" /\ Free
    /\ timer = t
    /\ signalled' = signalled \cup {t}
    /\ Finish(t, FALSE)
    /\ UNCHANGED <<state, driver, timer, lock, opened, built, noticed, wanted, bounds>>

\* Mutant: join() without a timeout.
JoinReturnsOnlyWhenDead(t) == at[timer] = "dead"

\* The thread ended, or the second is over.  A thread asleep in _stop.wait
\* ends at once, so only one that is busy outlasts the second.
JoinReturns(t) == at[timer] # "asleep"

Join(t) ==
    /\ at[t] = "joining" /\ JoinReturns(t)
    /\ timer' = 0
    /\ at' = [at EXCEPT ![t] = "tearing"]
    /\ UNCHANGED <<state, driver, lock, opened, signalled, job, panel, built, noticed, wanted,
                   bounds>>

\* Mutant: the driver is forgotten without driver.disconnect().
LeavesOpen == opened

\* What _teardown leaves open.
TornDown == opened \ {driver}

\* driver.disconnect()
TearDown(t) ==
    /\ at[t] = "tearing"
    /\ opened' = TornDown
    /\ at' = [at EXCEPT ![t] = "closing"]
    /\ UNCHANGED <<state, driver, timer, lock, signalled, job, panel, built, noticed, wanted,
                   bounds>>

\* self.driver = None, DISCONNECTED, and the lock is released.
Forget(t) ==
    /\ at[t] = "closing"
    /\ driver' = 0
    /\ state' = "DISCONNECTED"
    /\ lock' = Nobody
    /\ wanted' = IF job[t] = "disconnect" THEN job[Operator] \in {"connect", "reconnect"}
                                          ELSE wanted
    /\ \/ /\ job[t] = "reconnect"
          /\ at' = [at EXCEPT ![t] = "starting"]
          /\ UNCHANGED <<job, panel>>
       \/ job[t] = "disconnect" /\ Finish(t, FALSE)
    /\ UNCHANGED <<timer, opened, signalled, built, noticed, bounds>>

-----------------------------------------------------------------------------
(* PeriodicTimer._run and _health_check, on the thread of timer k.         *)

\* self.driver is not None and not self.driver.is_connected, without the lock.
FindsLost == driver # 0 /\ driver \notin opened

Check(k) ==
    /\ at[k] = "asleep" /\ k \notin signalled
    /\ FindsLost
    /\ noticed' = noticed \cup {driver}
    /\ \/ AutoReconnect /\ Begin(k, "reconnect")
       \/ ~AutoReconnect /\ UNCHANGED <<state, driver, timer, lock, opened, signalled, at, job,
                                        built>>
    /\ UNCHANGED <<panel, wanted, bounds>>

EndThread(k) ==
    /\ at[k] = "asleep" /\ k \in signalled
    /\ at' = [at EXCEPT ![k] = "dead"]
    /\ UNCHANGED <<state, driver, timer, lock, opened, signalled, job, panel, built, noticed,
                   wanted, bounds>>

\* The channel in use is closed under the manager: driver.disconnect() called
\* by someone else, or the driver's own failed try_reconnect().
LoseChannel ==
    /\ losses < MaxLosses
    /\ driver \in opened
    /\ opened' = opened \ {driver}
    /\ losses' = losses + 1
    /\ UNCHANGED <<state, driver, timer, lock, signalled, at, job, panel, built, noticed, wanted,
                   presses, failures>>

-----------------------------------------------------------------------------
Operate(t) == \/ Build(t) \/ Open(t)
              \/ StopTimer(t) \/ JoinSelf(t) \/ Join(t) \/ TearDown(t) \/ Forget(t)

Next == \/ PressConnect \/ PressDisconnect \/ PressReconnect \/ Shutdown
        \/ \E t \in Thread : Operate(t) \/ FailToOpen(t)
        \/ \E k \in Stack : Check(k) \/ EndThread(k)
        \/ LoseChannel

Spec == Init /\ [][Next]_vars

\* Threads are scheduled and the timer ticks.  Weak fairness is enough: the
\* lock is taken for finitely many operations.
Fairness == /\ \A t \in Thread : WF_vars(Operate(t))
            /\ \A k \in Stack : WF_vars(Check(k)) /\ WF_vars(EndThread(k))

FairSpec == Spec /\ Fairness

-----------------------------------------------------------------------------
Lost == driver # 0 /\ driver \notin opened /\ at[driver] # "unborn"

\* With no channel lost, whenever the lock is free the stack is whole or gone:
\* CONNECTED means an open channel with one live health check, any other state
\* means nothing is left open and nothing ticks.
WholeOrGone ==
    lock = Nobody /\ losses = 0 =>
        IF state = "CONNECTED"
        THEN opened = {driver} /\ timer = driver
                /\ {k \in Stack : at[k] = "asleep" /\ k \notin signalled} = {driver}
        ELSE opened = {} /\ driver = 0 /\ {k \in Stack : at[k] = "asleep" /\ k \notin signalled} = {}

\* connect(), disconnect() and reconnect() return, to whichever thread.
OperationsReturn == \A t \in Thread : job[t] # "none" ~> job[t] = "none"

\* A lost channel raises COMM_ERROR, unless its stack is torn down first.
LossReported == \A d \in Stack : Lost /\ driver = d ~> d \in noticed \/ driver # d

\* A lost channel is reconnected, or its stack is given up.
Recovers == Lost ~> ~Lost

\* After disconnect(), and until the operator asks for a connection, the
\* manager is not connected.
StaysDown == ~wanted => state # "CONNECTED"
=============================================================================
