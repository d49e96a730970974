------------------------------ MODULE KeepAlive ------------------------------
(***************************************************************************)
(* TesterPresentScheduler (src/src/diagnostics/services/misc_services)     *)
(* keeps a session alive: a PeriodicTimer whose tick sends TesterPresent   *)
(* through the client unless the client was busy just before.  The         *)
(* controller starts and stops it, from the signal that ends a session     *)
(* change and from its view, whatever the client is doing at the time.     *)
(*                                                                         *)
(* Time is counted in steps; what is due is done before the next step.     *)
(* The interval is one and the same for every start.                       *)
(***************************************************************************)
EXTENDS Naturals

CONSTANTS
    Interval,   \* steps between two ticks, an even number
    Longest,    \* bound: steps an exchange takes
    MaxStarts   \* bound: timers that are created

ASSUME AliveAssumption == Interval \in Nat \ {0} /\ Longest \in Nat /\ MaxStarts \in Nat

Timers == 1 .. MaxStarts
Operator == MaxStarts + 1
Nobody == 0

VARIABLES
    ticker,     \* ticker[t]: the thread of the t-th timer
    current,    \* _timer; 0: None
    idle,       \* steps since state.last_activity; no more than MaxIdle is told apart
    asking,     \* who holds the client's lock (Nobody), and for how long
    quiet       \* history: steps since the scheduler was started or last asked, or an
                \* exchange ended, whatever came of it; no more than MaxIdle

aliveVars == <<ticker, current, idle, asking, quiet>>

MaxIdle == 2 * Interval
Fresh == [pc |-> "off", left |-> Interval, stopped |-> FALSE]
Unused == [who |-> Nobody, left |-> 0]

AliveTypeOK ==
    /\ ticker \in [Timers -> [pc : {"off", "waiting", "due", "over"}, left : 0 .. Interval, stopped : BOOLEAN]]
    /\ current \in Timers \cup {0}
    /\ idle \in 0 .. MaxIdle /\ quiet \in 0 .. idle
    /\ asking.who \in 0 .. Operator /\ asking.left \in 0 .. Longest

AliveInit ==
    /\ ticker = [t \in Timers |-> Fresh]
    /\ current = 0 /\ idle = 0 /\ asking = Unused /\ quiet = 0

-----------------------------------------------------------------------------
InSession == current # 0

\* start(): sync_with_session() in a session other than the default one, or the
\* operator's switch.
EnterSession ==
    /\ current = 0
    /\ \E t \in Timers :
          /\ ticker[t].pc = "off" /\ \A u \in Timers : u < t => ticker[u].pc # "off"
          /\ ticker' = [ticker EXCEPT ![t].pc = "waiting"]
          /\ current' = t
    /\ quiet' = 0
    /\ UNCHANGED <<idle, asking>>

\* stop() waits a second at most for a tick that is under way, and goes on.
LeaveSession ==
    /\ current # 0
    /\ ticker' = [ticker EXCEPT ![current].stopped = TRUE,
                                ![current].pc = IF @ = "waiting" THEN "over" ELSE @]
    /\ current' = 0
    /\ UNCHANGED <<idle, asking, quiet>>

Takes(who) == asking.who = Nobody /\ \E n \in 1 .. Longest : asking' = [who |-> who, left |-> n]

OperatorAsks == Takes(Operator) /\ UNCHANGED <<ticker, current, idle, quiet>>

\* After its callback the thread waits again, or ends.
Again(t) ==
    ticker' = [ticker EXCEPT ![t] = IF @.stopped THEN [@ EXCEPT !.pc = "over"]
                                    ELSE [@ EXCEPT !.pc = "waiting", !.left = Interval]]

\* Mutant: a tick is left out when the client was active since the last one.
RecentSince == idle < Interval

\* only_when_idle: less than half an interval ago.
Recent == 2 * idle < Interval

Tick(t) ==
    /\ ticker[t].pc = "waiting" /\ ticker[t].left = 0
    /\ IF Recent THEN Again(t)
       ELSE ticker' = [ticker EXCEPT ![t].pc = "due"]
    /\ UNCHANGED <<current, idle, asking, quiet>>

\* execute() has the lock; it keeps it until its window is over.
SendTesterPresent(t) ==
    /\ ticker[t].pc = "due" /\ asking.who = Nobody
    /\ Takes(t)
    /\ UNCHANGED <<ticker, current, idle, quiet>>

\* send_request() raises before it takes the lock: the transport is not connected.
\* The tick counts a failure and goes on.
AskRefused(t) ==
    /\ ticker[t].pc = "due" /\ asking.who # t
    /\ Again(t) /\ quiet' = 0
    /\ UNCHANGED <<current, idle, asking>>

\* The lock is given back.
Release ==
    /\ asking.who # Nobody
    /\ asking' = Unused /\ quiet' = 0
    /\ IF asking.who \in Timers THEN Again(asking.who) ELSE UNCHANGED ticker
    /\ UNCHANGED current

\* An answer, or its window is over: the state is touched, and once more, in the
\* same moment, by apply_session() and apply_unlock().
Answered == asking.left = 0 /\ Release /\ idle' = 0

\* The exchange raises, at a frame that cannot be sent or an answer that is
\* malformed, and does not come to touch().
Raises == Release /\ UNCHANGED idle

Waiting(t) == ticker[t].pc = "waiting"

\* Nothing is due: a step of time passes.
StepOfTime ==
    /\ asking.left > 0 \/ asking.who = Nobody
    /\ \A t \in Timers : ~(Waiting(t) /\ ticker[t].left = 0)
                      /\ ~(ticker[t].pc = "due" /\ asking.who = Nobody)
    /\ ticker' = [t \in Timers |-> IF Waiting(t) THEN [ticker[t] EXCEPT !.left = @ - 1] ELSE ticker[t]]
    /\ idle' = IF idle < MaxIdle THEN idle + 1 ELSE idle
    /\ quiet' = IF quiet < MaxIdle THEN quiet + 1 ELSE quiet
    /\ asking' = IF asking.who = Nobody THEN asking ELSE [asking EXCEPT !.left = @ - 1]
    /\ UNCHANGED current

AliveNext ==
    \/ EnterSession \/ LeaveSession \/ OperatorAsks \/ Answered \/ Raises \/ StepOfTime
    \/ \E t \in Timers : Tick(t) \/ SendTesterPresent(t) \/ AskRefused(t)

AliveSpec == AliveInit /\ [][AliveNext]_aliveVars

-----------------------------------------------------------------------------
\* While the scheduler runs, the client is asked at least every interval and a
\* half, whatever ticks are left out or postponed by the operator's exchanges,
\* whatever exchanges fail, and whenever it was started.
QuietBounded == InSession /\ asking.who = Nobody => 2 * quiet < 3 * Interval
=============================================================================
