---------------------------- MODULE SessionWatch ----------------------------
(***************************************************************************)
(* SessionManager (src/src/core/session_manager.py): the session's S3      *)
(* watchdog, a PeriodicTimer that takes the session back to the default    *)
(* one when nothing was heard for too long.  The callers' threads apply    *)
(* changes; the watchdog's thread checks, resets, and stops its own timer. *)
(* Only the state is under the lock: _watchdog is tested and read again    *)
(* step by step by whoever starts or stops it.                             *)
(***************************************************************************)
EXTENDS Naturals

CONSTANTS
    Callers,        \* threads that call apply_change() and reset()
    MaxChanges,     \* bound: these calls
    MaxDogs         \* bound: watchdogs created

ASSUME WatchAssumption == MaxChanges \in Nat /\ MaxDogs \in Nat

Dogs == 1 .. MaxDogs
CallerPc == {"idle", "restart", "start", "create", "begin", "stop", "halt", "join"}
DogPc == {"off", "made", "waiting", "tick", "found", "reset", "halt", "join", "over"}

VARIABLES
    activeSession,  \* active_session: "default" or another session
    expired,    \* s3_remaining_ms is 0
    changer,    \* changer[c]: where caller c is in apply_change() or reset()
    watchdog,   \* _watchdog; 0: None
    dog,        \* dog[d]: the d-th timer, its thread and its _stop
    changes,
    bitten,     \* history: a watchdog found the session expired
    crossed,    \* history: calls overlapped
    gaveUp      \* history: a join() ended before the thread did

watchVars == <<activeSession, expired, changer, watchdog, dog, changes, bitten, crossed, gaveUp>>

WatchTypeOK ==
    /\ activeSession \in {"default", "other"}
    /\ {expired, bitten, crossed, gaveUp} \subseteq BOOLEAN
    /\ changer \in [Callers -> CallerPc]
    /\ watchdog \in Dogs \cup {0}
    /\ dog \in [Dogs -> [pc : DogPc, stop : BOOLEAN]]
    /\ changes \in 0 .. MaxChanges

WatchInit ==
    /\ activeSession = "default" /\ expired = FALSE
    /\ changer = [c \in Callers |-> "idle"] /\ watchdog = 0 /\ changes = 0
    /\ bitten = FALSE /\ crossed = FALSE /\ gaveUp = FALSE
    /\ dog = [d \in Dogs |-> [pc |-> "off", stop |-> FALSE]]

-----------------------------------------------------------------------------
(* The callers.                                                            *)

Goes(c, pc) == changer' = [changer EXCEPT ![c] = pc]

Called(c) ==
    /\ changer[c] = "idle" /\ changes < MaxChanges /\ changes' = changes + 1
    /\ crossed' = (crossed \/ \E e \in Callers \ {c} : changer[e] # "idle")

\* The state changes under the lock; the watchdog follows afterwards.
ApplyChange(c, s) ==
    /\ Called(c) /\ Goes(c, "restart")
    /\ activeSession' = s /\ expired' = FALSE
    /\ UNCHANGED <<watchdog, dog, bitten, gaveUp>>

Reset(c) ==
    /\ Called(c) /\ Goes(c, "stop")
    /\ activeSession' = "default" /\ expired' = FALSE
    /\ UNCHANGED <<watchdog, dog, bitten, gaveUp>>

\* touch()
Touch ==
    /\ expired /\ expired' = FALSE
    /\ UNCHANGED <<activeSession, changer, watchdog, dog, changes, bitten, crossed, gaveUp>>

RestartWatchdog(c) ==
    /\ changer[c] = "restart"
    /\ Goes(c, IF activeSession = "other" THEN "start" ELSE "stop")
    /\ UNCHANGED <<activeSession, expired, watchdog, dog, changes, bitten, crossed, gaveUp>>

\* Mutant: start_watchdog() does not look whether there is one.
FindAny(c) ==
    /\ changer[c] = "start" /\ Goes(c, "create")
    /\ UNCHANGED <<activeSession, expired, watchdog, dog, changes, bitten, crossed, gaveUp>>

\* start_watchdog() does nothing while there is one, live or not.
FindNone(c) ==
    /\ changer[c] = "start"
    /\ Goes(c, IF watchdog = 0 THEN "create" ELSE "idle")
    /\ UNCHANGED <<activeSession, expired, watchdog, dog, changes, bitten, crossed, gaveUp>>

CreateDog(c) ==
    /\ changer[c] = "create" /\ Goes(c, "begin")
    /\ \E d \in Dogs : /\ dog[d].pc = "off" /\ \A e \in Dogs : e < d => dog[e].pc # "off"
                       /\ dog' = [dog EXCEPT ![d].pc = "made"]
                       /\ watchdog' = d
    /\ UNCHANGED <<activeSession, expired, changes, bitten, crossed, gaveUp>>

\* start() of the timer that is there now; with none there the call fails.
StartDog(c) ==
    /\ changer[c] = "begin" /\ Goes(c, "idle")
    /\ dog' = IF watchdog # 0 /\ dog[watchdog].pc \in {"made", "over"}
              THEN [dog EXCEPT ![watchdog] = [pc |-> "waiting", stop |-> FALSE]]
              ELSE dog
    /\ UNCHANGED <<activeSession, expired, watchdog, changes, bitten, crossed, gaveUp>>

StopWatchdog(c) ==
    /\ changer[c] = "stop"
    /\ Goes(c, IF watchdog = 0 THEN "idle" ELSE "halt")
    /\ UNCHANGED <<activeSession, expired, watchdog, dog, changes, bitten, crossed, gaveUp>>

\* stop() of the timer that is there now; with none there the call fails.
TellDog(c) ==
    /\ changer[c] = "halt"
    /\ Goes(c, IF watchdog = 0 THEN "idle" ELSE "join")
    /\ dog' = IF watchdog = 0 THEN dog ELSE [dog EXCEPT ![watchdog].stop = TRUE]
    /\ UNCHANGED <<activeSession, expired, watchdog, changes, bitten, crossed, gaveUp>>

\* Mutant: a stopped watchdog is not forgotten.
JoinKeeping(c) ==
    /\ changer[c] = "join" /\ Goes(c, "idle")
    /\ UNCHANGED <<activeSession, expired, watchdog, dog, changes, bitten, crossed, gaveUp>>

\* The thread has ended, or the second is over.  (Unless calls overlapped or
\* this happened before, the timer that was told is still there.)
JoinDog(c) ==
    /\ changer[c] = "join" /\ Goes(c, "idle")
    /\ watchdog' = 0
    /\ gaveUp' = (gaveUp \/ watchdog = 0 \/ dog[watchdog].pc # "over")
    /\ UNCHANGED <<activeSession, expired, dog, changes, bitten, crossed>>

-----------------------------------------------------------------------------
(* The watchdog's thread.                                                  *)

FallSilent ==
    /\ activeSession = "other" /\ ~expired
    /\ expired' = TRUE
    /\ UNCHANGED <<activeSession, changer, watchdog, dog, changes, bitten, crossed, gaveUp>>

DogGoes(d, pc) == dog' = [dog EXCEPT ![d].pc = pc]

Wake(d) ==
    /\ dog[d].pc = "waiting" /\ ~dog[d].stop
    /\ DogGoes(d, "tick")
    /\ UNCHANGED <<activeSession, expired, changer, watchdog, changes, bitten, crossed, gaveUp>>

\* _check_timeout, up to the reset.
CheckTimeout(d) ==
    /\ dog[d].pc = "tick"
    /\ LET over == activeSession = "other" /\ expired
       IN  DogGoes(d, IF over THEN "found" ELSE "waiting") /\ bitten' = (bitten \/ over)
    /\ UNCHANGED <<activeSession, expired, changer, watchdog, changes, crossed, gaveUp>>

\* reset(), although a caller may have changed the session since.
ResetState(d) ==
    /\ dog[d].pc = "found"
    /\ DogGoes(d, "reset")
    /\ activeSession' = "default" /\ expired' = FALSE
    /\ UNCHANGED <<changer, watchdog, changes, bitten, crossed, gaveUp>>

\* stop_watchdog() from the watchdog.
DogStops(d) ==
    /\ dog[d].pc = "reset"
    /\ DogGoes(d, IF watchdog = 0 THEN "waiting" ELSE "halt")
    /\ UNCHANGED <<activeSession, expired, changer, watchdog, changes, bitten, crossed, gaveUp>>

\* join() of the own thread raises, after the stop was set and before _watchdog
\* is cleared; the timer swallows that.  With another timer there by now, that
\* one is stopped, and with none there this fails too.
TellSelf(d) ==
    /\ dog[d].pc = "halt"
    /\ dog' = CASE watchdog = d -> [dog EXCEPT ![d] = [pc |-> "waiting", stop |-> TRUE]]
                [] watchdog = 0 -> [dog EXCEPT ![d].pc = "waiting"]
                [] OTHER -> [dog EXCEPT ![d].pc = "join", ![watchdog].stop = TRUE]
    /\ UNCHANGED <<activeSession, expired, changer, watchdog, changes, bitten, crossed, gaveUp>>

JoinOther(d) ==
    /\ dog[d].pc = "join"
    /\ DogGoes(d, "waiting")
    /\ watchdog' = 0
    /\ UNCHANGED <<activeSession, expired, changer, changes, bitten, crossed, gaveUp>>

EndDog(d) ==
    /\ dog[d].pc = "waiting" /\ dog[d].stop
    /\ DogGoes(d, "over")
    /\ UNCHANGED <<activeSession, expired, changer, watchdog, changes, bitten, crossed, gaveUp>>

DogStep(d) ==
    \/ Wake(d) \/ CheckTimeout(d) \/ ResetState(d) \/ DogStops(d) \/ TellSelf(d) \/ JoinOther(d)
    \/ EndDog(d)

CallerStep(c) ==
    \/ RestartWatchdog(c) \/ FindNone(c) \/ CreateDog(c) \/ StartDog(c)
    \/ StopWatchdog(c) \/ TellDog(c) \/ JoinDog(c)

WatchNext ==
    \/ \E c \in Callers : (\E s \in {"default", "other"} : ApplyChange(c, s)) \/ Reset(c) \/ CallerStep(c)
    \/ Touch \/ FallSilent
    \/ \E d \in Dogs : DogStep(d)

\* A call in progress returns; the watchdogs tick.
WatchFairness ==
    /\ \A c \in Callers : WF_watchVars(CallerStep(c))
    /\ \A d \in Dogs : WF_watchVars(DogStep(d))

WatchSpec == WatchInit /\ [][WatchNext]_watchVars /\ WatchFairness

-----------------------------------------------------------------------------
\* A session that expires, however often the session changed before, is taken
\* back to the default one, unless it is heard of or calls overlapped.  This
\* holds for the first expiry only: the watchdog that found it stops itself and
\* stays in its place, dead, until the next change to the default session.
FirstExpiryFallsBack == expired /\ ~bitten ~> ~expired \/ crossed

Running(d) == dog[d].pc \notin {"off", "made", "over"}

\* A timer that runs and was not told to stop.
Awake(d) == Running(d) /\ ~dog[d].stop

\* While calls do not overlap and join() gives up on no thread, no timer runs
\* that the session manager has forgotten, and in the default session, with no
\* call under way, none runs unless it is about to stop itself.
NoStrayDog ==
    ~crossed /\ ~gaveUp =>
       \A d \in Dogs : Awake(d) =>
          /\ watchdog = d
          /\ activeSession = "default" /\ (\A c \in Callers : changer[c] = "idle") =>
                dog[d].pc \in {"reset", "halt"}
=============================================================================
