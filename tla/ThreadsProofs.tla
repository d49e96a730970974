---------------------------- MODULE ThreadsProofs ----------------------------
(***************************************************************************)
(* Machine-checked facts about KeepAlive, J1939, EventBus, PriorityQueue,  *)
(* TestRun and RateLimiter, for every value of their constants.            *)
(***************************************************************************)
EXTENDS KeepAlive, J1939, EventBus, PriorityQueue, TestRun, RateLimiter, FiniteSetTheorems, SequenceLemmas

-----------------------------------------------------------------------------
(* KeepAlive: a session does not go quiet.                                 *)

Ticker == [pc : {"off", "waiting", "due", "over"}, left : 0 .. Interval, stopped : BOOLEAN]

\* The timer of the session.
InForce == ticker[current]

\* What the timer of a session owes it: it is not stopped, and it fires while
\* there is still time, unless somebody is asking the ECU right now.
AliveInv ==
    /\ ticker \in [Timers -> Ticker]
    /\ current \in Timers \cup {0}
    /\ idle \in 0 .. MaxIdle /\ quiet \in 0 .. idle
    /\ asking \in [who : 0 .. Operator, left : 0 .. Longest]
    /\ \A t \in Timers : ticker[t].pc = "off" => ticker[t].left = Interval /\ ~ticker[t].stopped
    /\ InSession =>
          /\ ~InForce.stopped /\ InForce.pc \in {"waiting", "due"}
          /\ InForce.pc = "waiting" => 2 * (quiet + InForce.left) < 3 * Interval
          /\ InForce.pc = "due" /\ asking.who = Nobody => 2 * quiet < 3 * Interval
    /\ asking.who \in Timers => ticker[asking.who].pc = "due"

\* At the start there is no session.
LEMMA AliveBegins == AliveInit => AliveInv
<1> SUFFICES ASSUME AliveInit PROVE AliveInv
  OBVIOUS
<1>1. Fresh \in Ticker /\ Fresh.pc = "off" /\ Fresh.left = Interval /\ ~Fresh.stopped
  BY AliveAssumption DEF Fresh, Ticker
<1>2. Unused \in [who : 0 .. Operator, left : 0 .. Longest]
  BY AliveAssumption DEF Unused, Operator, Nobody
<1>3. 0 \in 0 .. MaxIdle /\ 0 \in 0 .. 0
  BY AliveAssumption DEF MaxIdle
<1>4. Unused.who \notin Timers
  BY AliveAssumption DEF Unused, Timers, Nobody
<1> QED BY <1>1, <1>2, <1>3, <1>4 DEF AliveInit, AliveInv, InSession

\* The facts about the numbers that the steps use.
LEMMA AliveNumbers ==
    ASSUME AliveInv
    PROVE  /\ Interval \in Nat \ {0} /\ Longest \in Nat /\ idle \in Nat
           /\ Operator \in Nat /\ Operator \notin Timers /\ 0 \notin Timers /\ Nobody = 0
           /\ \A t \in Timers : /\ ticker[t] \in Ticker /\ ticker[t].left \in Nat
                                /\ ticker[t].left <= Interval /\ t \in 0 .. Operator /\ t # Nobody
           /\ asking.who \in 0 .. Operator /\ asking.left \in Nat /\ asking.left <= Longest
           /\ quiet \in Nat /\ quiet <= idle
<1>1. \A t \in Timers : ticker[t] \in Ticker
  BY DEF AliveInv
<1>2. \A t \in Timers : ticker[t].left \in 0 .. Interval
  BY <1>1 DEF Ticker
<1>3. idle \in Nat /\ quiet \in Nat /\ quiet <= idle
  BY AliveAssumption DEF AliveInv, MaxIdle
<1> QED BY <1>1, <1>2, <1>3, AliveAssumption DEF AliveInv, Operator, Timers, Nobody

\* A timer goes on: it is typed as it was, and the others do not move.
LEMMA TickerMoves ==
    ASSUME AliveInv, NEW t \in Timers, NEW r \in Ticker, ticker' = [ticker EXCEPT ![t] = r]
    PROVE  /\ ticker' \in [Timers -> Ticker] /\ ticker'[t] = r
           /\ \A u \in Timers : u # t => ticker'[u] = ticker[u]
  BY DEF AliveInv

\* A timer that has done its work waits for a whole interval, or ends.
LEMMA AgainFacts ==
    ASSUME AliveInv, NEW t \in Timers, Again(t)
    PROVE  /\ ticker' \in [Timers -> Ticker]
           /\ \A u \in Timers : u # t => ticker'[u] = ticker[u]
           /\ ticker'[t].pc # "off"
           /\ ~ticker[t].stopped =>
                 ticker'[t].pc = "waiting" /\ ticker'[t].left = Interval /\ ~ticker'[t].stopped
<1> DEFINE r == IF ticker[t].stopped THEN [ticker[t] EXCEPT !.pc = "over"]
                ELSE [ticker[t] EXCEPT !.pc = "waiting", !.left = Interval]
<1>1. r \in Ticker /\ r.pc # "off"
      /\ (~ticker[t].stopped => r.pc = "waiting" /\ r.left = Interval /\ ~r.stopped)
  <2>1. ticker[t] \in Ticker /\ Interval \in 0 .. Interval
    BY AliveNumbers
  <2>2. CASE ticker[t].stopped
    <3>1. r = [ticker[t] EXCEPT !.pc = "over"]
      BY <2>2
    <3> QED BY <2>1, <2>2, <3>1 DEF Ticker
  <2>3. CASE ~ticker[t].stopped
    <3>1. r = [ticker[t] EXCEPT !.pc = "waiting", !.left = Interval]
      BY <2>3
    <3> QED BY <2>1, <2>3, <3>1 DEF Ticker
  <2> QED BY <2>2, <2>3
<1>2. ticker' = [ticker EXCEPT ![t] = r]
  BY DEF Again
<1> HIDE DEF r
<1> QED BY <1>1, <1>2, TickerMoves

\* The controller starts and stops the timer with the session.
LEMMA SessionStep ==
    ASSUME AliveInv, EnterSession \/ LeaveSession
    PROVE  AliveInv'
<1>1. CASE EnterSession
  <2>1. PICK t \in Timers : ticker[t].pc = "off" /\ ticker' = [ticker EXCEPT ![t].pc = "waiting"]
                            /\ current' = t
    BY <1>1 DEF EnterSession
  <2>2. quiet' = 0 /\ UNCHANGED <<idle, asking>> /\ current = 0
    BY <1>1 DEF EnterSession
  <2> DEFINE r == [ticker[t] EXCEPT !.pc = "waiting"]
  <2>3. r \in Ticker /\ r.pc = "waiting" /\ r.left = Interval /\ ~r.stopped
    BY <2>1, AliveNumbers DEF AliveInv, Ticker
  <2>4. ticker' = [ticker EXCEPT ![t] = r]
    BY <2>1 DEF AliveInv
  <2> HIDE DEF r
  <2>5. /\ ticker' \in [Timers -> Ticker] /\ ticker'[t] = r
        /\ \A u \in Timers : u # t => ticker'[u] = ticker[u]
    BY <2>3, <2>4, TickerMoves
  <2>6. InForce' = r
    BY <2>1, <2>5 DEF InForce
  <2>7. 2 * (0 + Interval) < 3 * Interval /\ 0 \in 0 .. idle
    BY AliveNumbers
  <2>8. asking.who # t
    BY <2>1 DEF AliveInv
  <2> QED BY <2>1, <2>2, <2>3, <2>5, <2>6, <2>7, <2>8 DEF AliveInv
<1>2. CASE LeaveSession
  <2>1. current \in Timers
    BY <1>2 DEF LeaveSession, AliveInv
  <2> DEFINE p == IF ticker[current].pc = "waiting" THEN "over" ELSE ticker[current].pc
             r == [ticker[current] EXCEPT !.stopped = TRUE, !.pc = p]
  <2>2. r \in Ticker /\ r.pc # "off"
    <3>1. ticker[current] \in Ticker /\ p \in {"over", "due"}
      BY <1>2, <2>1, AliveNumbers DEF AliveInv, InSession, InForce, LeaveSession
    <3> HIDE DEF p
    <3> QED BY <3>1 DEF Ticker
  <2>3. ticker' = [ticker EXCEPT ![current] = r]
    BY <1>2, <2>1 DEF LeaveSession, AliveInv
  <2>a. ticker[current].pc = "due" => r.pc = "due"
    BY AliveNumbers, <2>1 DEF Ticker
  <2> HIDE DEF r
  <2>4. /\ ticker' \in [Timers -> Ticker] /\ ticker'[current] = r
        /\ \A u \in Timers : u # current => ticker'[u] = ticker[u]
    BY <2>1, <2>2, <2>3, TickerMoves
  <2> QED BY <1>2, <2>1, <2>2, <2>4, <2>a DEF AliveInv, LeaveSession, InSession
<1> QED BY <1>1, <1>2

\* A timer fires: its request is due, unless the client was busy just before.
LEMMA TickStep ==
    ASSUME AliveInv, NEW t \in Timers, Tick(t)
    PROVE  AliveInv'
<1>1. ticker[t].pc = "waiting" /\ ticker[t].left = 0 /\ UNCHANGED <<current, idle, asking, quiet>>
  BY DEF Tick
<1>2. /\ asking.who # t
      /\ current = t /\ InSession => 2 * quiet < 3 * Interval /\ ~ticker[t].stopped
  BY <1>1, AliveNumbers DEF AliveInv, InForce
<1>3. CASE Recent
  <2>1. Again(t) /\ 2 * idle < Interval
    BY <1>3 DEF Tick, Recent
  <2>2. 2 * (quiet + Interval) < 3 * Interval
    BY <2>1, AliveNumbers
  <2>3. /\ ticker' \in [Timers -> Ticker]
        /\ \A u \in Timers : u # t => ticker'[u] = ticker[u]
        /\ ticker'[t].pc # "off"
        /\ ~ticker[t].stopped =>
              ticker'[t].pc = "waiting" /\ ticker'[t].left = Interval /\ ~ticker'[t].stopped
    BY <2>1, AgainFacts
  <2>4. CASE current = t
    BY <1>1, <1>2, <2>2, <2>3, <2>4 DEF AliveInv, InSession, InForce
  <2>5. CASE current # t
    BY <1>1, <2>3, <2>5 DEF AliveInv, InSession, InForce
  <2> QED BY <2>4, <2>5
<1>4. CASE ~Recent
  <2> DEFINE r == [ticker[t] EXCEPT !.pc = "due"]
  <2>1. r \in Ticker /\ r.pc = "due" /\ r.stopped = ticker[t].stopped
    BY AliveNumbers DEF Ticker
  <2>2. ticker' = [ticker EXCEPT ![t] = r]
    BY <1>4 DEF Tick, AliveInv
  <2> HIDE DEF r
  <2>3. /\ ticker' \in [Timers -> Ticker] /\ ticker'[t] = r
        /\ \A u \in Timers : u # t => ticker'[u] = ticker[u]
    BY <2>1, <2>2, TickerMoves
  <2>4. CASE current = t
    BY <1>1, <1>2, <2>1, <2>3, <2>4 DEF AliveInv, InSession, InForce
  <2>5. CASE current # t
    BY <1>1, <2>1, <2>3, <2>5 DEF AliveInv, InSession, InForce
  <2> QED BY <2>4, <2>5
<1> QED BY <1>3, <1>4

\* Somebody asks the ECU: the operator, or a timer whose request is due.
LEMMA AskStep ==
    ASSUME AliveInv, OperatorAsks \/ \E t \in Timers : SendTesterPresent(t)
    PROVE  AliveInv'
<1>1. PICK w \in 0 .. Operator : /\ Takes(w) /\ (w \in Timers => ticker[w].pc = "due") /\ w # Nobody
                                 /\ UNCHANGED <<ticker, current, idle, quiet>>
  <2>1. CASE OperatorAsks
    <3>1. Operator \in 0 .. Operator /\ Operator \notin Timers /\ Operator # Nobody
      BY AliveAssumption DEF Operator, Timers, Nobody
    <3> QED BY <2>1, <3>1 DEF OperatorAsks
  <2>2. ASSUME NEW t \in Timers, SendTesterPresent(t)
        PROVE  /\ t \in 0 .. Operator /\ Takes(t) /\ ticker[t].pc = "due" /\ t # Nobody
               /\ UNCHANGED <<ticker, current, idle, quiet>>
    BY <2>2, AliveNumbers DEF SendTesterPresent
  <2> QED BY <2>1, <2>2
<1>2. PICK n \in 1 .. Longest : asking' = [who |-> w, left |-> n]
  BY <1>1 DEF Takes
<1>3. asking' \in [who : 0 .. Operator, left : 0 .. Longest] /\ asking'.who = w
  BY <1>1, <1>2, AliveAssumption
<1>4. InSession => current \in Timers
  BY DEF AliveInv, InSession
<1> QED BY <1>1, <1>3, <1>4 DEF AliveInv, InSession, InForce

\* The client has been asked just now: the exchange is over, by an answer, at the
\* end of its window or by an exception, or it was refused.
LEMMA AskedStep ==
    ASSUME AliveInv, Answered \/ Raises \/ \E t \in Timers : AskRefused(t)
    PROVE  AliveInv'
<1>1. quiet' = 0 /\ idle' \in {0, idle} /\ UNCHANGED current
  BY DEF Answered, Raises, Release, AskRefused
<1>2. /\ ticker' \in [Timers -> Ticker]
      /\ \A t \in Timers : ticker'[t] # ticker[t] =>
            /\ ticker'[t].pc # "off"
            /\ ~ticker[t].stopped =>
                  ticker'[t].pc = "waiting" /\ ticker'[t].left = Interval /\ ~ticker'[t].stopped
      /\ asking' \in [who : 0 .. Operator, left : 0 .. Longest]
      /\ asking'.who \in Timers => ticker'[asking'.who].pc = "due"
  <2>1. ASSUME NEW u \in Timers, Again(u)
        PROVE  /\ ticker' \in [Timers -> Ticker]
               /\ \A t \in Timers : t # u => ticker'[t] = ticker[t]
               /\ ticker'[u].pc # "off"
               /\ ~ticker[u].stopped =>
                     ticker'[u].pc = "waiting" /\ ticker'[u].left = Interval /\ ~ticker'[u].stopped
    BY <2>1, AgainFacts
  <2>2. CASE Release
    <3>1. asking' = Unused
      BY <2>2 DEF Release
    <3>2. Unused \in [who : 0 .. Operator, left : 0 .. Longest] /\ Unused.who \notin Timers
      BY AliveAssumption, AliveNumbers DEF Unused
    <3>3. CASE asking.who \in Timers /\ Again(asking.who)
      BY <2>1, <3>1, <3>2, <3>3
    <3>4. CASE UNCHANGED ticker
      BY <3>1, <3>2, <3>4 DEF AliveInv
    <3> QED BY <2>2, <3>3, <3>4 DEF Release
  <2>3. CASE \E t \in Timers : AskRefused(t)
    <3>1. PICK u \in Timers : Again(u) /\ asking.who # u /\ asking' = asking
      BY <2>3 DEF AskRefused
    <3> QED BY <2>1, <3>1 DEF AliveInv
  <2> QED BY <2>2, <2>3 DEF Answered, Raises
<1>3. 0 \in 0 .. MaxIdle /\ 0 \in 0 .. idle /\ 0 \in 0 .. 0
  BY AliveAssumption, AliveNumbers DEF MaxIdle
<1>4. InSession' => InSession /\ current \in Timers
  BY <1>1 DEF AliveInv, InSession
<1>5. InSession' => /\ ~InForce'.stopped /\ InForce'.pc \in {"waiting", "due"}
                    /\ InForce'.pc = "waiting" => 2 * (0 + InForce'.left) < 3 * Interval
                    /\ 2 * 0 < 3 * Interval
  <2> SUFFICES ASSUME InSession, current \in Timers
               PROVE  /\ ~ticker'[current].stopped /\ ticker'[current].pc \in {"waiting", "due"}
                      /\ ticker'[current].pc = "waiting" =>
                            2 * (0 + ticker'[current].left) < 3 * Interval
                      /\ 2 * 0 < 3 * Interval
    BY <1>1, <1>4 DEF InForce
  <2>1. ~ticker[current].stopped /\ ticker[current].pc \in {"waiting", "due"}
    BY DEF AliveInv, InForce
  <2>2. \A n \in Nat : n <= Interval => 2 * (0 + n) < 3 * Interval
    BY AliveAssumption
  <2>3. ticker[current].left \in Nat /\ ticker[current].left <= Interval
    BY AliveNumbers
  <2>4. Interval \in Nat /\ Interval <= Interval /\ 0 \in Nat /\ 0 <= Interval
    BY AliveAssumption
  <2>5. 2 * 0 < 3 * Interval
    BY AliveAssumption
  <2> QED BY <1>2, <2>1, <2>2, <2>3, <2>4, <2>5
<1> QED BY <1>1, <1>2, <1>3, <1>5 DEF AliveInv

\* Time passes while nothing is due: what the timer waits less, the client is
\* quiet longer.
LEMMA TimeStep ==
    ASSUME AliveInv, StepOfTime
    PROVE  AliveInv'
<1>1. UNCHANGED current
  BY DEF StepOfTime
<1>2. ASSUME NEW t \in Timers
      PROVE  /\ ticker'[t] \in Ticker /\ ticker'[t].pc = ticker[t].pc
             /\ ticker'[t].stopped = ticker[t].stopped
             /\ ticker[t].pc = "waiting" => ticker'[t].left + 1 = ticker[t].left /\ ticker'[t].left \in Nat
             /\ ticker[t].pc # "waiting" => ticker'[t] = ticker[t]
  <2>1. CASE ticker[t].pc = "waiting"
    <3> DEFINE n == ticker[t].left - 1
               r == [ticker[t] EXCEPT !.left = n]
    <3>1. n \in 0 .. Interval /\ n + 1 = ticker[t].left /\ n \in Nat
      BY <2>1, AliveNumbers DEF StepOfTime, Waiting
    <3>2. ticker'[t] = r
      BY <2>1 DEF StepOfTime, Waiting
    <3> HIDE DEF n
    <3>3. r \in Ticker /\ r.pc = ticker[t].pc /\ r.stopped = ticker[t].stopped /\ r.left = n
      BY <3>1, AliveNumbers DEF Ticker
    <3> HIDE DEF r
    <3> QED BY <2>1, <3>1, <3>2, <3>3
  <2>2. CASE ticker[t].pc # "waiting"
    BY <2>2, AliveNumbers DEF StepOfTime, Waiting
  <2> QED BY <2>1, <2>2
<1>3. ticker' \in [Timers -> Ticker]
  <2>1. ticker' = [t \in Timers |-> ticker'[t]]
    BY DEF StepOfTime
  <2> QED BY <1>2, <2>1
<1>4. /\ idle' \in 0 .. MaxIdle /\ quiet' \in 0 .. idle'
      /\ quiet' <= quiet + 1 /\ quiet' \in Nat
  BY AliveAssumption DEF StepOfTime, AliveInv, MaxIdle
<1>5. asking' \in [who : 0 .. Operator, left : 0 .. Longest] /\ asking'.who = asking.who
  <2>1. asking \in [who : 0 .. Operator, left : 0 .. Longest]
    BY DEF AliveInv
  <2>2. CASE asking.who = Nobody
    BY <2>1, <2>2 DEF StepOfTime
  <2>3. CASE asking.who # Nobody
    <3> DEFINE n == asking.left - 1
    <3>1. n \in 0 .. Longest
      BY <2>3, AliveNumbers DEF StepOfTime
    <3>2. asking' = [asking EXCEPT !.left = n]
      BY <2>3 DEF StepOfTime
    <3> HIDE DEF n
    <3> QED BY <2>1, <3>1, <3>2
  <2> QED BY <2>2, <2>3
<1>6. ASSUME InSession
      PROVE  /\ ~InForce'.stopped /\ InForce'.pc \in {"waiting", "due"}
             /\ InForce'.pc = "waiting" => 2 * (quiet' + InForce'.left) < 3 * Interval
             /\ InForce'.pc = "due" /\ asking'.who = Nobody => 2 * quiet' < 3 * Interval
  <2>1. current \in Timers /\ InForce' = ticker'[current] /\ InForce = ticker[current]
    BY <1>1, <1>6 DEF AliveInv, InSession, InForce
  <2>2. /\ InForce'.pc = InForce.pc /\ InForce'.stopped = InForce.stopped
        /\ InForce.pc = "waiting" => InForce'.left + 1 = InForce.left /\ InForce'.left \in Nat
    BY <1>2, <2>1
  <2>3. InForce.pc = "due" => asking.who # Nobody
    BY <2>1 DEF StepOfTime
  <2>4. InForce.pc = "waiting" => 2 * (quiet' + InForce'.left) < 3 * Interval
    <3> SUFFICES ASSUME InForce.pc = "waiting" PROVE 2 * (quiet' + InForce'.left) < 3 * Interval
      OBVIOUS
    <3> DEFINE m == InForce'.left
               n == InForce.left
               i == quiet
               j == quiet'
    <3>1. m + 1 = n /\ m \in Nat /\ i \in Nat /\ j \in Nat /\ j <= i + 1 /\ n \in Nat
          /\ 2 * (i + n) < 3 * Interval /\ Interval \in Nat
      BY <1>4, <1>6, <2>1, <2>2, AliveNumbers DEF AliveInv
    <3> HIDE DEF m, n, i, j
    <3>2. 2 * (j + m) < 3 * Interval
      BY <3>1
    <3> QED BY <3>2 DEF m, j
  <2> QED BY <1>5, <1>6, <2>2, <2>3, <2>4 DEF AliveInv
<1>7. \A t \in Timers : ticker'[t].pc = "off" => ticker'[t].left = Interval /\ ~ticker'[t].stopped
  BY <1>2 DEF AliveInv
<1>a. asking'.who \in Timers => ticker'[asking'.who].pc = "due"
  BY <1>2, <1>5 DEF AliveInv
<1>8. InSession' <=> InSession
  BY <1>1 DEF InSession
<1>9. current' \in Timers \cup {0}
  BY <1>1 DEF AliveInv
<1> QED BY <1>1, <1>3, <1>4, <1>5, <1>6, <1>7, <1>8, <1>9, <1>a DEF AliveInv

\* Every step keeps what the timer owes.
LEMMA AliveStep == AliveInv /\ [AliveNext]_aliveVars => AliveInv'
<1> SUFFICES ASSUME AliveInv, [AliveNext]_aliveVars PROVE AliveInv'
  OBVIOUS
<1>1. CASE UNCHANGED aliveVars
  BY <1>1 DEF aliveVars, AliveInv, InSession, InForce
<1> QED BY <1>1, SessionStep, TickStep, AskStep, AskedStep, TimeStep DEF AliveNext

\* While the scheduler runs, the client is asked at least every interval and a
\* half (TesterPresentScheduler, PeriodicTimer), for every interval, however
\* long the operator's exchanges take, whichever exchanges fail, and however
\* often it is stopped and started, while a tick is under way or not.
THEOREM QuietBoundedAlways == AliveSpec => []QuietBounded
<1>1. AliveInv => QuietBounded
  <2> SUFFICES ASSUME AliveInv, InSession, asking.who = Nobody PROVE 2 * quiet < 3 * Interval
    BY DEF QuietBounded
  <2>1. CASE InForce.pc = "due"
    BY <2>1 DEF AliveInv
  <2>2. CASE InForce.pc # "due"
    <3> DEFINE n == InForce.left
               i == quiet
    <3>1. n \in Nat /\ i \in Nat /\ 2 * (i + n) < 3 * Interval /\ Interval \in Nat
      BY <2>2, AliveNumbers DEF AliveInv, InSession, InForce
    <3> HIDE DEF n, i
    <3>2. 2 * i < 3 * Interval
      BY <3>1
    <3> QED BY <3>2 DEF i
  <2> QED BY <2>1, <2>2
<1> QED BY <1>1, AliveBegins, AliveStep, PTL DEF AliveSpec

-----------------------------------------------------------------------------
(* J1939: what is put together is one whole message.                       *)

\* What is in r are packets of the k-th message of node s.
Part(s, k, r) ==
    /\ DOMAIN r \subseteq 1 .. Outbox[s][k]
    /\ \A i \in DOMAIN r : r[i] = [node |-> s, msg |-> k, seq |-> i]

\* Node s has announced its k-th message, and has not announced the next one.
Announced(s, k) ==
    \/ outgoing[s].msg = k /\ outgoing[s].seq >= 1
    \/ outgoing[s].msg = k + 1 /\ outgoing[s].seq = 0

\* An open session holds packets of the message that was announced last.
Gathers(s) ==
    sessions[s] # {} =>
        \E k \in DOMAIN Outbox[s], u \in sessions[s] :
            /\ sessions[s] = {u} /\ u = [packets |-> Outbox[s][k], received |-> u.received]
            /\ Part(s, k, u.received) /\ Announced(s, k)

\* Where a node is in what it sends.
Sends(s) ==
    Sending(s) => outgoing[s].msg \in DOMAIN Outbox[s] /\ outgoing[s].seq <= Outbox[s][outgoing[s].msg]

JInv ==
    /\ outgoing \in [Nodes -> [msg : Nat \ {0}, seq : Nat]]
    /\ DOMAIN sessions = Nodes
    /\ \A s \in Nodes : Sends(s) /\ (s \notin bereft => Gathers(s))
    /\ AssembledIsWhole

\* The numbers of packets are positive, and a sender is at one of them.
LEMMA FrameFacts ==
    ASSUME JInv, NEW s \in Nodes, Sending(s)
    PROVE  /\ outgoing[s].msg \in DOMAIN Outbox[s] /\ outgoing[s].msg \in Nat \ {0}
           /\ outgoing[s].seq \in 0 .. Outbox[s][outgoing[s].msg]
           /\ Outbox[s][outgoing[s].msg] \in Nat \ {0}
           /\ FrameOf(s) = [node |-> s, msg |-> outgoing[s].msg, seq |-> outgoing[s].seq]
<1>1. outgoing[s] \in [msg : Nat \ {0}, seq : Nat] /\ Outbox[s] \in Seq(Nat \ {0})
  BY OutboxAssumption DEF JInv
<1>2. outgoing[s].msg \in DOMAIN Outbox[s] /\ outgoing[s].seq <= Outbox[s][outgoing[s].msg]
  BY DEF JInv, Sends
<1> QED BY <1>1, <1>2 DEF FrameOf

\* A node that has sent a frame goes on to the next one, of this message or of
\* the next; it has announced this one.
LEMMA NextFrameFacts ==
    ASSUME JInv, NEW s \in Nodes, Sending(s), NextFrame(s)
    PROVE  /\ outgoing' \in [Nodes -> [msg : Nat \ {0}, seq : Nat]]
           /\ \A t \in Nodes : t # s => outgoing'[t] = outgoing[t]
           /\ \A t \in Nodes : Sends(t)'
           /\ \A k \in Nat : k = outgoing[s].msg => Announced(s, k)'
<1> DEFINE k == outgoing[s].msg
           q == outgoing[s].seq
           n == Outbox[s][k]
           o == IF q = n THEN [msg |-> k + 1, seq |-> 0] ELSE [msg |-> k, seq |-> q + 1]
<1>1. k \in DOMAIN Outbox[s] /\ k \in Nat \ {0} /\ q \in 0 .. n /\ n \in Nat \ {0}
  BY FrameFacts
<1>2. outgoing[s] = [msg |-> k, seq |-> q] /\ Outbox[s] \in Seq(Nat \ {0})
  BY OutboxAssumption DEF JInv
<1>3. outgoing' = [outgoing EXCEPT ![s] = o]
  BY DEF NextFrame
<1>4. /\ o.msg \in Nat \ {0} /\ o.seq \in Nat /\ o = [msg |-> o.msg, seq |-> o.seq]
      /\ (o.msg = k /\ o.seq >= 1 /\ o.seq <= n) \/ (o.msg = k + 1 /\ o.seq = 0)
  <2>1. CASE q = n
    <3>1. o = [msg |-> k + 1, seq |-> 0]
      BY <2>1
    <3> HIDE DEF o
    <3>2. k + 1 \in Nat \ {0}
      BY <1>1
    <3> HIDE DEF k, q, n
    <3> QED BY <3>1, <3>2
  <2>2. CASE q # n
    <3> DEFINE r == q + 1
    <3>1. o = [msg |-> k, seq |-> r]
      BY <2>2
    <3>2. r \in Nat /\ r >= 1 /\ r <= n
      BY <1>1, <2>2
    <3> HIDE DEF o, k, q, n, r
    <3> QED BY <1>1, <3>1, <3>2
  <2> QED BY <2>1, <2>2
<1> HIDE DEF o
<1>5. outgoing'[s] = o /\ \A t \in Nodes : t # s => outgoing'[t] = outgoing[t]
  BY <1>3 DEF JInv
<1>6. outgoing' \in [Nodes -> [msg : Nat \ {0}, seq : Nat]]
  BY <1>3, <1>4 DEF JInv
<1>7. Sends(s)'
  <2>1. DOMAIN Outbox[s] = 1 .. Len(Outbox[s]) /\ Len(Outbox[s]) \in Nat
    BY <1>2
  <2>2. \A i \in DOMAIN Outbox[s] : Outbox[s][i] \in Nat
    BY <1>2
  <2>3. Sending(s)' => o.msg <= Len(Outbox[s])
    BY <1>5 DEF Sending
  <2>4. CASE o.msg = k
    BY <1>1, <1>4, <1>5, <2>4 DEF Sends
  <2>5. CASE o.msg = k + 1
    BY <1>1, <1>4, <1>5, <2>1, <2>2, <2>3, <2>5 DEF Sends
  <2> QED BY <1>4, <2>4, <2>5
<1>8. \A t \in Nodes : t # s => Sends(t)'
  BY <1>5 DEF JInv, Sends, Sending
<1>9. ASSUME NEW j \in Nat, j = k
      PROVE  Announced(s, j)'
  BY <1>4, <1>5, <1>9 DEF Announced
<1> QED BY <1>5, <1>6, <1>7, <1>8, <1>9

\* What was announced last is what is being sent.
LEMMA OneAnnounced ==
    ASSUME JInv, NEW s \in Nodes, Sending(s), NEW k \in DOMAIN Outbox[s], Announced(s, k),
           outgoing[s].seq # 0
    PROVE  k = outgoing[s].msg
  BY DEF Announced

\* As many different packets as there are make the message.
LEMMA AllOfThem ==
    ASSUME NEW n \in Nat, NEW D \in SUBSET (1 .. n), Cardinality(D) >= n
    PROVE  D = 1 .. n
<1>1. IsFiniteSet(1 .. n) /\ Cardinality(1 .. n) = n
  BY FS_Interval
<1>2. Cardinality(D) <= n /\ Cardinality(D) \in Nat /\ (Cardinality(D) = n => D = 1 .. n)
  BY <1>1, FS_Subset, FS_CardinalityType
<1> QED BY <1>2

\* The other nodes' sessions are what they were.
LEMMA Bystanders ==
    ASSUME JInv, NEW s \in Nodes, NEW t \in Nodes, t # s, t \notin bereft,
           outgoing'[t] = outgoing[t], sessions'[t] = sessions[t]
    PROVE  Gathers(t)'
  BY DEF JInv, Gathers, Announced, Part

\* An announcement opens an empty session.
LEMMA HearCm ==
    ASSUME JInv, NEW s \in Nodes, Hear(s), outgoing[s].seq = 0
    PROVE  JInv'
<1> DEFINE k == outgoing[s].msg
           u == [packets |-> Outbox[s][k], received |-> <<>>]
<1>1. Sending(s) /\ NextFrame(s) /\ bereft' = bereft
  BY DEF Hear
<1>2. sessions' = [sessions EXCEPT ![s] = {u}] /\ assembled' = assembled
  BY <1>1, FrameFacts DEF Hear, HandleFrame, HandleCm
<1>3. sessions'[s] = {u} /\ DOMAIN sessions' = Nodes /\ \A t \in Nodes : t # s => sessions'[t] = sessions[t]
  BY <1>2 DEF JInv
<1>4. Gathers(s)'
  <2>1. DOMAIN u.received = {} /\ u = [packets |-> Outbox[s][k], received |-> u.received]
    OBVIOUS
  <2>2. PICK j \in Nat : j = k
    BY <1>1, FrameFacts
  <2>3. j \in DOMAIN Outbox[s] /\ Announced(s, j)'
    BY <1>1, <2>2, FrameFacts, NextFrameFacts
  <2>4. PICK w : w = u
    OBVIOUS
  <2>5. sessions'[s] = {w} /\ w = [packets |-> Outbox[s][j], received |-> w.received] /\ DOMAIN w.received = {}
    BY <1>3, <2>1, <2>2, <2>4
  <2> HIDE DEF u, k
  <2> QED BY <2>3, <2>5 DEF Gathers, Part
<1>5. \A t \in Nodes : t \notin bereft => Gathers(t)'
  BY <1>1, <1>3, <1>4, NextFrameFacts, Bystanders
<1>6. AssembledIsWhole'
  BY <1>1, <1>2 DEF JInv, AssembledIsWhole
<1> QED BY <1>1, <1>3, <1>5, <1>6, NextFrameFacts DEF JInv

\* A packet joins the session of its node; the last one completes the message.
LEMMA HearDt ==
    ASSUME JInv, NEW s \in Nodes, Hear(s), outgoing[s].seq # 0
    PROVE  JInv'
<1> DEFINE k == outgoing[s].msg
           q == outgoing[s].seq
           n == Outbox[s][k]
           f == FrameOf(s)
<1>1. Sending(s) /\ NextFrame(s) /\ bereft' = bereft /\ HandleDt(f)
  BY FrameFacts DEF Hear, HandleFrame
<1>2. k \in DOMAIN Outbox[s] /\ q \in 1 .. n /\ n \in Nat \ {0} /\ f = [node |-> s, msg |-> k, seq |-> q]
  BY <1>1, FrameFacts
<1>3. f.node = s /\ f.seq = q
  BY <1>2
<1>4. CASE sessions[s] = {}
  <2>1. UNCHANGED <<sessions, assembled>>
    BY <1>1, <1>3, <1>4 DEF HandleDt
  <2>2. Gathers(s)'
    BY <1>4, <2>1 DEF Gathers
  <2>3. \A t \in Nodes : t \notin bereft => Gathers(t)'
    BY <1>1, <2>1, <2>2, NextFrameFacts, Bystanders
  <2>4. AssembledIsWhole'
    BY <1>1, <2>1 DEF JInv, AssembledIsWhole
  <2> QED BY <1>1, <2>1, <2>3, <2>4, NextFrameFacts DEF JInv
<1>5. CASE sessions[s] # {}
  <2> DEFINE v == CHOOSE w \in sessions[s] : TRUE
             u == WithPacket(v, f)
             whole == [node |-> s, kind |-> "message", by |-> f, data |-> Assemble(u)]
  <2>1. IF Complete(u)
        THEN sessions' = [sessions EXCEPT ![s] = {}] /\ assembled' = assembled \cup {whole}
        ELSE sessions' = [sessions EXCEPT ![s] = {u}] /\ assembled' = assembled
    BY <1>1, <1>3, <1>5 DEF HandleDt
  <2>2. ASSUME s \notin bereft
        PROVE  u = [packets |-> n, received |-> u.received] /\ Part(s, k, u.received)
    <3>1. PICK j \in DOMAIN Outbox[s], w \in sessions[s] :
              /\ sessions[s] = {w} /\ w = [packets |-> Outbox[s][j], received |-> w.received]
              /\ Part(s, j, w.received) /\ Announced(s, j)
      BY <1>5, <2>2 DEF JInv, Gathers
    <3>2. j = k /\ v = w
      BY <1>1, <3>1, OneAnnounced
    <3> DEFINE old == w.received
               new == [i \in DOMAIN old \cup {q} |-> IF i = q THEN f ELSE old[i]]
    <3>3. v = [packets |-> n, received |-> old] /\ Part(s, k, old)
      BY <3>1, <3>2
    <3>4. u = [v EXCEPT !.received = [i \in DOMAIN @ \cup {q} |-> IF i = q THEN f ELSE @[i]]]
      BY <1>3 DEF WithPacket
    <3> HIDE DEF old, v
    <3>5. u = [packets |-> n, received |-> new]
      BY <3>3, <3>4
    <3>6. Part(s, k, new)
      BY <1>2, <3>3 DEF Part
    <3> HIDE DEF new, u
    <3> QED BY <3>5, <3>6
  <2> HIDE DEF u
  <2>3. DOMAIN sessions' = Nodes /\ \A t \in Nodes : t # s => sessions'[t] = sessions[t]
    BY <2>1 DEF JInv
  <2>4. CASE Complete(u)
    <3>1. sessions'[s] = {} /\ assembled' = assembled \cup {whole}
      BY <2>1, <2>4 DEF JInv
    <3>2. \A t \in Nodes : t \notin bereft => Gathers(t)'
      <4>1. Gathers(s)'
        BY <3>1 DEF Gathers
      <4> QED BY <1>1, <2>3, <4>1, NextFrameFacts, Bystanders
    <3>3. s \notin bereft => whole.data = [i \in 1 .. n |-> [node |-> s, msg |-> k, seq |-> i]]
      <4> SUFFICES ASSUME s \notin bereft
                   PROVE  whole.data = [i \in 1 .. n |-> [node |-> s, msg |-> k, seq |-> i]]
        OBVIOUS
      <4>1. u.packets = n /\ Part(s, k, u.received)
        BY <2>2
      <4>2. DOMAIN u.received = 1 .. n
        BY <1>2, <2>4, <4>1, AllOfThem DEF Complete, Part
      <4>3. Assemble(u) = [i \in 1 .. n |-> u.received[i]]
        BY <4>1, <4>2 DEF Assemble
      <4>4. \A i \in 1 .. n : u.received[i] = [node |-> s, msg |-> k, seq |-> i]
        BY <4>1, <4>2 DEF Part
      <4> QED BY <4>3, <4>4
    <3>4. AssembledIsWhole'
      <4> SUFFICES ASSUME NEW m \in assembled', m.node \notin bereft
                   PROVE  \E j \in DOMAIN Outbox[m.node] :
                             m.data = [i \in 1 .. Outbox[m.node][j] |-> [node |-> m.node, msg |-> j, seq |-> i]]
        BY <1>1 DEF AssembledIsWhole
      <4>1. CASE m \in assembled
        BY <4>1 DEF JInv, AssembledIsWhole
      <4>2. CASE m = whole
        <5>1. m.node = s
          BY <4>2
        <5> HIDE DEF whole, k
        <5> QED BY <1>2, <3>3, <4>2, <5>1
      <4> HIDE DEF whole
      <4> QED BY <3>1, <4>1, <4>2
    <3> QED BY <1>1, <2>3, <3>2, <3>4, NextFrameFacts DEF JInv
  <2>5. CASE ~Complete(u)
    <3>1. sessions'[s] = {u} /\ assembled' = assembled
      BY <2>1, <2>5 DEF JInv
    <3>2. s \notin bereft => Gathers(s)'
      <4> SUFFICES ASSUME s \notin bereft PROVE Gathers(s)'
        OBVIOUS
      <4>1. PICK j \in Nat : j = k
        BY <1>1, FrameFacts
      <4>2. j \in DOMAIN Outbox[s] /\ Announced(s, j)'
        BY <1>1, <1>2, <4>1, NextFrameFacts
      <4>3. PICK w : w = u
        OBVIOUS
      <4>4. sessions'[s] = {w} /\ w = [packets |-> Outbox[s][j], received |-> w.received] /\ Part(s, j, w.received)
        BY <2>2, <3>1, <4>1, <4>3
      <4> HIDE DEF k
      <4> QED BY <4>2, <4>4 DEF Gathers, Part
    <3>3. \A t \in Nodes : t \notin bereft => Gathers(t)'
      BY <1>1, <2>3, <3>2, NextFrameFacts, Bystanders
    <3>4. AssembledIsWhole'
      BY <1>1, <3>1 DEF JInv, AssembledIsWhole
    <3> QED BY <1>1, <2>3, <3>3, <3>4, NextFrameFacts DEF JInv
  <2> QED BY <2>4, <2>5
<1> QED BY <1>4, <1>5

\* A frame that is lost leaves the session to a packet of the same message,
\* unless it was the next announcement.
LEMMA LoseStep ==
    ASSUME JInv, NEW s \in Nodes, LoseFrame(s)
    PROVE  JInv'
<1>1. Sending(s) /\ NextFrame(s) /\ UNCHANGED <<sessions, assembled>> /\ bereft \subseteq bereft'
  BY DEF LoseFrame
<1>2. ASSUME s \notin bereft', sessions[s] # {}
      PROVE  Gathers(s)'
  <2>1. outgoing[s].seq # 0 /\ s \notin bereft
    BY <1>1, <1>2 DEF LoseFrame
  <2>2. PICK j \in DOMAIN Outbox[s], w \in sessions[s] :
            /\ sessions[s] = {w} /\ w = [packets |-> Outbox[s][j], received |-> w.received]
            /\ Part(s, j, w.received) /\ Announced(s, j)
    BY <1>2, <2>1 DEF JInv, Gathers
  <2>3. Announced(s, j)'
    <3>1. j = outgoing[s].msg /\ j \in Nat
      BY <1>1, <2>1, <2>2, OneAnnounced, FrameFacts
    <3> QED BY <1>1, <3>1, NextFrameFacts
  <2> QED BY <1>1, <2>2, <2>3 DEF Gathers, Part
<1>3. \A t \in Nodes : t \notin bereft' => Gathers(t)'
  <2>1. sessions[s] = {} => Gathers(s)'
    BY <1>1 DEF Gathers
  <2> QED BY <1>1, <1>2, <2>1, NextFrameFacts, Bystanders
<1>4. AssembledIsWhole'
  BY <1>1 DEF JInv, AssembledIsWhole
<1> QED BY <1>1, <1>3, <1>4, NextFrameFacts DEF JInv

\* The caller does not touch the sessions.
LEMMA CallerStep ==
    ASSUME JInv, UNCHANGED <<outgoing, sessions, assembled, bereft>>
    PROVE  JInv'
  BY DEF JInv, AssembledIsWhole, Gathers, Sends, Sending, Announced, Part

\* At the start nobody has sent anything.
LEMMA JStart == JInit => JInv
<1> SUFFICES ASSUME JInit PROVE JInv
  OBVIOUS
<1>1. \A s \in Nodes : outgoing[s] = [msg |-> 1, seq |-> 0] /\ sessions[s] = {}
  BY DEF JInit
<1>2. \A s \in Nodes : Sends(s)
  BY <1>1, OutboxAssumption DEF Sends, Sending
<1> QED BY <1>1, <1>2 DEF JInit, JInv, Gathers, AssembledIsWhole

\* Every step keeps what the sessions hold.
LEMMA JStep == JInv /\ [JNext]_jVars => JInv'
<1> SUFFICES ASSUME JInv, [JNext]_jVars PROVE JInv'
  OBVIOUS
<1>1. ASSUME NEW s \in Nodes, Hear(s) PROVE JInv'
  BY <1>1, HearCm, HearDt
<1>2. ASSUME NEW s \in Nodes, LoseFrame(s) PROVE JInv'
  BY <1>2, LoseStep
<1>3. CASE ReceiveMessage \/ RequestPgn \/ GetItem \/ GetEmpty \/ PutBack \/ AnswerRequest
           \/ UNCHANGED jVars
  <2>1. UNCHANGED <<outgoing, sessions, assembled, bereft>>
    BY <1>3 DEF ReceiveMessage, RequestPgn, GetItem, GetEmpty, PutBack, AnswerRequest, jVars
  <2> QED BY <2>1, CallerStep
<1> QED BY <1>1, <1>2, <1>3 DEF JNext

\* What the J1939 reader puts together (J1939TransportProtocol.handle_frame())
\* is one message of one node with its packets in order, for every number of
\* nodes, messages and packets, and however many frames are lost.
THEOREM AssembledIsWholeAlways == JSpec => []AssembledIsWhole
<1>1. JInv => AssembledIsWhole
  BY DEF JInv
<1> QED BY <1>1, JStart, JStep, PTL DEF JSpec

\* Node b.node has sent frame b.
Heard(b) ==
    /\ b.node \in Nodes /\ b.msg \in Nat /\ b.seq \in Nat
    /\ \/ b.msg < outgoing[b.node].msg
       \/ b.msg = outgoing[b.node].msg /\ b.seq < outgoing[b.node].seq

\* What is kept is in one of the three places, and once.
Shared(q, aside, answer, all) ==
    /\ Distinct(q) /\ Distinct(aside) /\ Distinct(answer)
    /\ ToSet(q) \cap ToSet(aside) = {} /\ ToSet(q) \cap ToSet(answer) = {}
    /\ ToSet(aside) \cap ToSet(answer) = {}
    /\ ToSet(q) \cup ToSet(aside) \cup ToSet(answer) = all

\* NothingForgotten is not inductive: it needs that a frame comes once, so
\* what is offered is new, and that a call begins with nothing set aside.
KeptInv ==
    /\ caller = [pc |-> caller.pc, aside |-> caller.aside, answer |-> caller.answer]
    /\ Shared(rx, caller.aside, caller.answer, kept)
    /\ \A x \in kept : Heard(x.by)
    /\ caller.pc \in {"idle", "getting", "empty"} => caller.answer = <<>>
    /\ caller.pc = "idle" => caller.aside = <<>>

\* The caller's record.
LEMMA CallerFields ==
    ASSUME NEW c, NEW a, NEW r, NEW p, c = [pc |-> p, aside |-> a, answer |-> r]
    PROVE  c.pc = p /\ c.aside = a /\ c.answer = r
           /\ c = [pc |-> c.pc, aside |-> c.aside, answer |-> c.answer]
  OBVIOUS

\* A frame that is sent was not heard before, and was heard afterwards.
LEMMA HeardOnce ==
    ASSUME JInv, NEW s \in Nodes, Sending(s), NextFrame(s), NEW f, f = FrameOf(s)
    PROVE  /\ ~Heard(f) /\ Heard(f)'
           /\ \A b : Heard(b) => Heard(b)'
<1> DEFINE k == outgoing[s].msg
           q == outgoing[s].seq
           n == Outbox[s][k]
           o == IF q = n THEN [msg |-> k + 1, seq |-> 0] ELSE [msg |-> k, seq |-> q + 1]
<1>1. k \in Nat /\ q \in 0 .. n /\ n \in Nat /\ f = [node |-> s, msg |-> k, seq |-> q]
  BY FrameFacts
<1>2. outgoing[s] = [msg |-> k, seq |-> q]
  BY DEF JInv
<1>3. outgoing' = [outgoing EXCEPT ![s] = o]
  BY DEF NextFrame
<1>4. outgoing'[s] = o /\ \A t \in Nodes : t # s => outgoing'[t] = outgoing[t]
  BY <1>3 DEF JInv
<1>5. o.msg > k \/ (o.msg = k /\ o.seq > q)
  <2>1. CASE q = n
    BY <1>1, <2>1
  <2>2. CASE q # n
    BY <1>1, <2>2
  <2> QED BY <2>1, <2>2
<1>6. o.msg \in Nat /\ o.seq \in Nat
  <2>1. CASE q = n
    BY <1>1, <2>1
  <2>2. CASE q # n
    BY <1>1, <2>2
  <2> QED BY <2>1, <2>2
<1>7. f.node = s /\ f.msg = k /\ f.seq = q
  BY <1>1
<1>8. ~Heard(f)
  BY <1>1, <1>7 DEF Heard
<1>9. Heard(f)'
  BY <1>1, <1>4, <1>5, <1>6, <1>7 DEF Heard
<1>10. ASSUME NEW b, Heard(b) PROVE Heard(b)'
  <2>1. CASE b.node = s
    <3>1. b.msg \in Nat /\ b.seq \in Nat /\ (b.msg < k \/ (b.msg = k /\ b.seq < q))
      BY <1>10, <2>1 DEF Heard
    <3> HIDE DEF o, k, q
    <3>2. b.msg < o.msg \/ (b.msg = o.msg /\ b.seq < o.seq)
      BY <1>1, <1>5, <1>6, <3>1
    <3> QED BY <1>4, <1>10, <2>1, <3>2 DEF Heard
  <2>2. CASE b.node # s
    BY <1>4, <1>10, <2>2 DEF Heard
  <2> QED BY <2>1, <2>2
<1> QED BY <1>8, <1>9, <1>10

\* What is offered came with a frame that was not heard before.
LEMMA OfferKept ==
    ASSUME KeptInv, NEW item, Offer(item), item \notin kept, caller' = caller,
           Heard(item.by)', \A b : Heard(b) => Heard(b)'
    PROVE  KeptInv'
<1>1. CASE rx' = Append(rx, item) /\ kept' = kept \cup {item}
  <2>1. item \notin ToSet(rx) /\ item \notin ToSet(caller.aside) /\ item \notin ToSet(caller.answer)
    BY DEF KeptInv, Shared
  <2>2. PICK q : q = Append(rx, item)
    OBVIOUS
  <2>3. Distinct(q) /\ ToSet(q) = ToSet(rx) \cup {item}
    BY <2>1, <2>2, DistinctAppended DEF KeptInv, Shared
  <2>4. Shared(q, caller.aside, caller.answer, kept')
    BY <1>1, <2>1, <2>3 DEF KeptInv, Shared
  <2> QED BY <1>1, <2>2, <2>4 DEF KeptInv
<1>2. CASE UNCHANGED <<rx, kept>>
  BY <1>2 DEF KeptInv
<1> QED BY <1>1, <1>2 DEF Offer

\* A frame that is heard adds one item at most.
LEMMA HearKept ==
    ASSUME JInv, KeptInv, NEW s \in Nodes, Hear(s)
    PROVE  KeptInv'
<1>1. PICK f : f = FrameOf(s)
  OBVIOUS
<1>2. Sending(s) /\ NextFrame(s) /\ HandleFrame(f) /\ caller' = caller
  BY <1>1 DEF Hear
<1>3. ~Heard(f) /\ Heard(f)' /\ \A b : Heard(b) => Heard(b)'
  BY <1>1, <1>2, HeardOnce
<1>4. \E item : item.by = f /\ Offer(item)
  <2>1. AsFrame(f).by = f
    BY DEF AsFrame
  <2>2. CASE HandleCm(f)
    BY <2>1, <2>2 DEF HandleCm
  <2>3. CASE HandleDt(f)
    <3> DEFINE u == WithPacket(CHOOSE v \in sessions[f.node] : TRUE, f)
               whole == [node |-> f.node, kind |-> "message", by |-> f, data |-> Assemble(u)]
    <3>1. Offer(AsFrame(f)) \/ Offer(whole)
      BY <2>3 DEF HandleDt
    <3>2. whole.by = f
      OBVIOUS
    <3> QED BY <2>1, <3>1, <3>2
  <2> QED BY <1>2, <2>2, <2>3 DEF HandleFrame
<1>5. PICK item : item.by = f /\ Offer(item)
  BY <1>4
<1>6. item \notin kept
  BY <1>3, <1>5 DEF KeptInv
<1> QED BY <1>2, <1>3, <1>5, <1>6, OfferKept

\* What the caller does moves items, or hands them out.
LEMMA CallerKept ==
    ASSUME KeptInv, UNCHANGED outgoing,
           ReceiveMessage \/ RequestPgn \/ GetItem \/ GetEmpty \/ PutBack \/ AnswerRequest
    PROVE  KeptInv'
<1>1. \A x \in kept : Heard(x.by)'
  BY DEF KeptInv, Heard
<1>2. Distinct(rx) /\ Distinct(caller.aside) /\ Distinct(caller.answer)
  BY DEF KeptInv, Shared
<1>3. PICK p, a, r : caller = [pc |-> p, aside |-> a, answer |-> r] /\ p = caller.pc /\ a = caller.aside
                     /\ r = caller.answer
  BY DEF KeptInv
<1>4. CASE ReceiveMessage
  <2>1. rx # <<>> /\ rx' = Tail(rx) /\ kept' = kept \ {Head(rx)} /\ caller' = caller
    BY <1>4 DEF ReceiveMessage
  <2>2. PICK q, h : q = Tail(rx) /\ h = Head(rx)
    OBVIOUS
  <2>3. Distinct(q) /\ ToSet(q) = ToSet(rx) \ {h} /\ h \in ToSet(rx)
    BY <1>2, <2>1, <2>2, DistinctTail
  <2>4. Shared(q, caller.aside, caller.answer, kept')
    BY <2>1, <2>2, <2>3 DEF KeptInv, Shared
  <2> QED BY <1>1, <2>1, <2>2, <2>4 DEF KeptInv
<1>5. CASE RequestPgn \/ GetEmpty
  <2>1. PICK pc : /\ caller' = [caller EXCEPT !.pc = pc] /\ UNCHANGED <<rx, kept>>
                  /\ pc \in {"getting", "empty"} /\ caller.pc \in {"idle", "getting"}
    BY <1>5 DEF RequestPgn, GetEmpty
  <2>2. caller' = [pc |-> pc, aside |-> a, answer |-> r]
    BY <1>3, <2>1
  <2>3. caller'.pc = pc /\ caller'.aside = a /\ caller'.answer = r
          /\ caller' = [pc |-> caller'.pc, aside |-> caller'.aside, answer |-> caller'.answer]
    BY <2>2, CallerFields
  <2> QED BY <1>1, <1>3, <2>1, <2>3 DEF KeptInv
<1>6. CASE GetItem
  <2>1. rx # <<>> /\ rx' = Tail(rx) /\ kept' = kept /\ caller.pc = "getting"
    BY <1>6 DEF GetItem
  <2>2. PICK q, h : q = Tail(rx) /\ h = Head(rx)
    OBVIOUS
  <2>3. Distinct(q) /\ ToSet(q) = ToSet(rx) \ {h} /\ h \in ToSet(rx)
    BY <1>2, <2>1, <2>2, DistinctTail
  <2>4. h \notin ToSet(a) /\ h \notin ToSet(r) /\ r = <<>> /\ Distinct(a) /\ Distinct(r)
    BY <1>3, <2>1, <2>3 DEF KeptInv, Shared
  <2>5. CASE Fits(h)
    <3>1. PICK n : n = <<h>>
      OBVIOUS
    <3>2. caller' = [pc |-> "found", aside |-> a, answer |-> n]
      BY <1>3, <1>6, <2>2, <2>5, <3>1 DEF GetItem
    <3>3. caller'.pc = "found" /\ caller'.aside = a /\ caller'.answer = n
          /\ caller' = [pc |-> caller'.pc, aside |-> caller'.aside, answer |-> caller'.answer]
      BY <3>2, CallerFields
    <3>4. Distinct(n) /\ ToSet(n) = {h}
      <4>1. n \in Seq({h}) /\ DOMAIN n = {1} /\ n[1] = h
        BY <3>1
      <4>2. ToSet(n) = {h}
        BY <4>1 DEF ToSet
      <4> QED BY <4>1, <4>2 DEF Distinct, IsInjective
    <3>5. ToSet(r) = {}
      BY <2>4 DEF ToSet
    <3>6. Shared(q, a, n, kept)
      BY <1>3, <2>1, <2>3, <2>4, <3>4, <3>5 DEF KeptInv, Shared
    <3> QED BY <1>1, <2>1, <2>2, <3>3, <3>6 DEF KeptInv
  <2>6. CASE ~Fits(h)
    <3>1. PICK n : n = Append(a, h)
      OBVIOUS
    <3>2. caller' = [pc |-> "getting", aside |-> n, answer |-> r]
      BY <1>3, <1>6, <2>1, <2>2, <2>6, <3>1 DEF GetItem
    <3>3. caller'.pc = "getting" /\ caller'.aside = n /\ caller'.answer = r
          /\ caller' = [pc |-> caller'.pc, aside |-> caller'.aside, answer |-> caller'.answer]
      BY <3>2, CallerFields
    <3>4. Distinct(n) /\ ToSet(n) = ToSet(a) \cup {h}
      BY <2>4, <3>1, DistinctAppended
    <3>5. Shared(q, n, r, kept)
      BY <1>3, <2>1, <2>3, <2>4, <3>4 DEF KeptInv, Shared
    <3> QED BY <1>1, <2>1, <2>2, <2>4, <3>3, <3>5 DEF KeptInv
  <2> QED BY <2>5, <2>6
<1>7. CASE PutBack
  <2>1. a # <<>> /\ rx' = Append(rx, Head(a)) /\ kept' = kept /\ p \in {"found", "empty"}
    BY <1>3, <1>7 DEF PutBack
  <2>2. PICK n, h : n = Tail(a) /\ h = Head(a)
    OBVIOUS
  <2>3. caller' = [pc |-> p, aside |-> n, answer |-> r]
    BY <1>3, <1>7, <2>2 DEF PutBack
  <2>4. caller'.pc = p /\ caller'.aside = n /\ caller'.answer = r
          /\ caller' = [pc |-> caller'.pc, aside |-> caller'.aside, answer |-> caller'.answer]
    BY <2>3, CallerFields
  <2>5. Distinct(n) /\ ToSet(n) = ToSet(a) \ {h} /\ h \in ToSet(a)
    BY <1>2, <1>3, <2>1, <2>2, DistinctTail
  <2>6. h \notin ToSet(rx)
    BY <1>3, <2>5 DEF KeptInv, Shared
  <2>7. PICK q : q = Append(rx, h)
    OBVIOUS
  <2>8. Distinct(q) /\ ToSet(q) = ToSet(rx) \cup {h}
    BY <1>2, <2>6, <2>7, DistinctAppended
  <2>9. Shared(q, n, r, kept)
    BY <1>3, <2>5, <2>8 DEF KeptInv, Shared
  <2> QED BY <1>1, <1>3, <2>1, <2>2, <2>4, <2>7, <2>9 DEF KeptInv
<1>8. CASE AnswerRequest
  <2>1. a = <<>> /\ rx' = rx /\ kept' = kept \ ToSet(r) /\ caller' = [pc |-> "idle", aside |-> <<>>, answer |-> <<>>]
    BY <1>3, <1>8 DEF AnswerRequest, Idling
  <2>2. PICK e : e = <<>>
    OBVIOUS
  <2>3. caller'.pc = "idle" /\ caller'.aside = e /\ caller'.answer = e
          /\ caller' = [pc |-> caller'.pc, aside |-> caller'.aside, answer |-> caller'.answer]
    BY <2>1, <2>2, CallerFields
  <2>4. ToSet(e) = {} /\ Distinct(e)
    BY <2>2 DEF ToSet, Distinct, IsInjective
  <2>5. Shared(rx, e, e, kept')
    BY <1>3, <2>1, <2>2, <2>4 DEF KeptInv, Shared
  <2> QED BY <1>1, <2>1, <2>2, <2>3, <2>5 DEF KeptInv
<1> QED BY <1>4, <1>5, <1>6, <1>7, <1>8

\* request_pgn() (J1939Protocol) loses nothing of what it looks through and
\* doubles nothing, for every capacity of the queue, traffic and order of the
\* reader's and the caller's steps.
THEOREM NothingForgottenAlways == JSpec => []NothingForgotten
<1>1. JInit => KeptInv
  <2> SUFFICES ASSUME JInit PROVE KeptInv
    OBVIOUS
  <2>1. PICK e : e = <<>>
    OBVIOUS
  <2>2. ToSet(e) = {} /\ Distinct(e)
    BY <2>1 DEF ToSet, Distinct, IsInjective
  <2>3. rx = e /\ kept = {} /\ caller = [pc |-> "idle", aside |-> e, answer |-> e]
    BY <2>1 DEF JInit, Idling
  <2>4. caller.pc = "idle" /\ caller.aside = e /\ caller.answer = e
        /\ caller = [pc |-> caller.pc, aside |-> caller.aside, answer |-> caller.answer]
    BY <2>3, CallerFields
  <2>5. Shared(e, e, e, {})
    BY <2>2 DEF Shared
  <2> QED BY <2>1, <2>3, <2>4, <2>5 DEF KeptInv
<1>2. JInv /\ KeptInv /\ [JNext]_jVars => KeptInv'
  <2> SUFFICES ASSUME JInv, KeptInv, [JNext]_jVars PROVE KeptInv'
    OBVIOUS
  <2>1. ASSUME NEW s \in Nodes, Hear(s) PROVE KeptInv'
    BY <2>1, HearKept
  <2>2. ASSUME NEW s \in Nodes, LoseFrame(s) PROVE KeptInv'
    <3>1. PICK f : f = FrameOf(s)
      OBVIOUS
    <3>2. \A b : Heard(b) => Heard(b)'
      BY <2>2, <3>1, HeardOnce DEF LoseFrame
    <3> QED BY <2>2, <3>2 DEF LoseFrame, KeptInv
  <2>3. CASE ReceiveMessage \/ RequestPgn \/ GetItem \/ GetEmpty \/ PutBack \/ AnswerRequest
    <3>1. UNCHANGED outgoing
      BY <2>3 DEF ReceiveMessage, RequestPgn, GetItem, GetEmpty, PutBack, AnswerRequest
    <3> QED BY <2>3, <3>1, CallerKept
  <2>4. CASE UNCHANGED jVars
    BY <2>4 DEF jVars, KeptInv, Heard
  <2> QED BY <2>1, <2>2, <2>3, <2>4 DEF JNext
<1>3. KeptInv => NothingForgotten
  <2> SUFFICES ASSUME KeptInv PROVE NothingForgotten
    OBVIOUS
  <2>1. PICK s : s = rx \o caller.aside
    OBVIOUS
  <2>2. Distinct(s) /\ ToSet(s) = ToSet(rx) \cup ToSet(caller.aside)
    BY <2>1, DistinctJoined DEF KeptInv, Shared
  <2>3. PICK all : all = s \o caller.answer
    OBVIOUS
  <2>4. Distinct(all) /\ ToSet(all) = ToSet(s) \cup ToSet(caller.answer)
    <3>1. ToSet(s) \cap ToSet(caller.answer) = {} /\ Distinct(caller.answer)
      BY <2>2 DEF KeptInv, Shared
    <3> QED BY <2>2, <2>3, <3>1, DistinctJoined
  <2>5. ToSet(all) = kept /\ IsInjective(all)
    BY <2>2, <2>4 DEF KeptInv, Shared, Distinct
  <2> QED BY <2>1, <2>3, <2>5 DEF NothingForgotten
<1> QED BY <1>1, <1>2, <1>3, JStart, JStep, PTL DEF JSpec

-----------------------------------------------------------------------------
(* RateLimiter: the rate is kept.                                          *)

\* A later time's rate is that of the earlier one and of what lies between.
LEMMA RateDistributes ==
    ASSUME NEW r \in Nat, NEW m \in Nat, NEW n \in Nat, m <= n
    PROVE  /\ r * n = r * m + r * (n - m)
           /\ r * m \in Nat /\ r * n \in Nat /\ r * (n - m) \in Nat
<1>1. r * n \in Nat /\ r * m \in Nat
  BY Z3
<1>2. n - m \in Nat
  OBVIOUS
<1>3. r * (n - m) \in Nat
  BY <1>2, Z3
<1> QED BY <1>1, <1>3, Z3

\* The price of one frame more.
LEMMA OneFrameMore ==
    ASSUME NEW g \in Nat, NEW c \in Nat
    PROVE  g * c \in Nat /\ (g + 1) * c = g * c + c
  BY Z3

\* RateKept is not inductive: between two refills time goes on and the bucket
\* does not.  What is kept is the balance of the last refill.
Balance == granted * Cost + bucket <= Capacity + Rate * last

RateInv == RateTypeOK /\ Balance

\* The variables' types, one by one.
LEMMA RateFields ==
    ASSUME RateTypeOK
    PROVE  /\ now \in Nat /\ last \in Nat /\ last <= now /\ now <= MaxTime
           /\ bucket \in Nat /\ bucket <= Capacity /\ granted \in Nat /\ unpaid \in Nat
           /\ Rate \in Nat /\ Cost \in Nat /\ Capacity \in Nat /\ Patience \in Nat /\ MaxTime \in Nat
  BY RateAssumption DEF RateTypeOK

\* A refill stays within the capacity, and adds no more than the rate since the last.
LEMMA RefilledBounds ==
    ASSUME RateTypeOK
    PROVE  /\ Refilled \in Nat /\ Refilled <= Capacity
           /\ Refilled <= bucket + Rate * (now - last)
<1>1. Rate * (now - last) \in Nat
  BY RateFields, RateDistributes
<1> QED BY <1>1, RateFields DEF Refilled, Least

\* Bringing the bucket up to date keeps the balance, when what is taken out is
\* paid for frames.
LEMMA RefillBalance ==
    ASSUME RateInv, NEW taken \in Nat, taken <= Refilled, Refill(taken),
           NEW g \in Nat, g * Cost = granted * Cost + taken
    PROVE  /\ bucket' \in 0 .. Capacity
           /\ g * Cost + bucket' <= Capacity + Rate * last'
<1> DEFINE paid == granted * Cost
           since == Rate * (now - last)
           before == Rate * last
           upto == Rate * now
<1>1. paid \in Nat /\ since \in Nat /\ before \in Nat /\ upto = before + since
  BY RateFields, RateDistributes, OneFrameMore DEF RateInv
<1>2. paid + bucket <= Capacity + before
  BY DEF RateInv, Balance
<1>3. bucket' = Refilled - taken /\ last' = now /\ Refilled <= bucket + since /\ Refilled \in Nat
      /\ Refilled <= Capacity
  BY RefilledBounds DEF RateInv, Refill
<1>4. Rate * last' = upto /\ g * Cost = paid + taken
  BY <1>3
<1> HIDE DEF paid, since, before, upto
<1> QED BY <1>1, <1>2, <1>3, <1>4, RateFields DEF RateInv

\* Every deadline is one a sender may have.
LEMMA DeadlineRange ==
    ASSUME RateTypeOK, NEW s \in Senders, NEW d \in {None, now + Patience}
    PROVE  [deadline EXCEPT ![s] = d] \in [Senders -> 0 .. None]
  BY RateFields DEF RateTypeOK, None

\* Every step of a sender, and of time, keeps the types and the balance.
LEMMA RateStep ==
    ASSUME RateInv, RateNext
    PROVE  RateInv'
<1>1. CASE TimePasses
  <2>1. RateTypeOK'
    BY <1>1, RateFields DEF TimePasses, RateInv, RateTypeOK, None
  <2> QED BY <1>1, <2>1 DEF TimePasses, RateInv, Balance
<1>2. ASSUME NEW s \in Senders, AskForTokens(s) PROVE RateInv'
  <2>1. RateTypeOK'
    BY <1>2, DeadlineRange, RateFields DEF AskForTokens, RateInv, RateTypeOK, None
  <2> QED BY <1>2, <2>1 DEF AskForTokens, RateInv, Balance
<1>3. ASSUME NEW s \in Senders, Acquire(s) PROVE RateInv'
  <2>1. granted + 1 \in Nat /\ (granted + 1) * Cost = granted * Cost + Cost
    BY RateFields, OneFrameMore DEF RateInv
  <2>2. bucket' \in 0 .. Capacity /\ (granted + 1) * Cost + bucket' <= Capacity + Rate * last'
    BY <1>3, <2>1, RefillBalance, RefilledBounds, RateFields DEF Acquire, RateInv
  <2>3. RateTypeOK'
    BY <1>3, <2>1, <2>2, DeadlineRange, RateFields DEF Acquire, Refill, RateInv, RateTypeOK, None
  <2> QED BY <1>3, <2>2, <2>3 DEF Acquire, RateInv, Balance
<1>4. ASSUME NEW s \in Senders, TurnAway(s) \/ Doze(s) PROVE RateInv'
  <2>1. granted * Cost = granted * Cost + 0 /\ Refill(0) /\ granted' = granted
    BY <1>4, RateFields, OneFrameMore DEF TurnAway, Doze, RateInv
  <2>2. bucket' \in 0 .. Capacity /\ granted * Cost + bucket' <= Capacity + Rate * last'
    BY <2>1, RefillBalance, RefilledBounds, RateFields DEF RateInv
  <2>3. RateTypeOK'
    BY <1>4, <2>2, DeadlineRange, RateFields DEF TurnAway, Doze, Refill, RateInv, RateTypeOK, None
  <2> QED BY <2>1, <2>2, <2>3 DEF RateInv, Balance
<1> QED BY <1>1, <1>2, <1>3, <1>4 DEF RateNext

\* The invariant holds of every behaviour.
LEMMA RateInvariant == RateSpec => []RateInv
<1>1. RateInit => RateInv
  <2> SUFFICES ASSUME RateInit PROVE RateInv
    OBVIOUS
  <2>1. RateTypeOK
    BY RateAssumption DEF RateInit, RateTypeOK, None
  <2>2. 0 * Cost = 0 /\ Rate * 0 = 0
    BY RateAssumption
  <2> QED BY <2>1, <2>2, RateAssumption DEF RateInit, RateInv, Balance
<1>2. RateInv /\ [RateNext]_rateVars => RateInv'
  BY RateStep DEF RateInv, Balance, RateTypeOK, rateVars
<1> QED BY <1>1, <1>2, PTL DEF RateSpec

\* The bucket never holds less than nothing or more than a burst, and no
\* sender's deadline is out of range.
THEOREM RateTypeCorrect == RateSpec => []RateTypeOK
<1>1. RateInv => RateTypeOK
  BY DEF RateInv
<1> QED BY <1>1, RateInvariant, PTL

\* The frames that had their tokens stay within one burst and the rate, for
\* every rate, price and capacity, however the senders' sleeps interleave.
THEOREM RateAlwaysKept == RateSpec => []RateKept
<1>1. RateInv => RateKept
  <2> SUFFICES ASSUME RateInv PROVE RateKept
    OBVIOUS
  <2> DEFINE paid == granted * Cost
             since == Rate * (now - last)
             before == Rate * last
             upto == Rate * now
  <2>1. paid \in Nat /\ since \in Nat /\ before \in Nat /\ upto = before + since
    BY RateFields, RateDistributes, OneFrameMore DEF RateInv
  <2>2. paid + bucket <= Capacity + before
    BY DEF RateInv, Balance
  <2>3. RateKept <=> paid + bucket <= Capacity + upto
    BY DEF RateKept
  <2> HIDE DEF paid, since, before, upto
  <2> QED BY <2>1, <2>2, <2>3, RateFields DEF RateInv
<1> QED BY <1>1, RateInvariant, PTL

-----------------------------------------------------------------------------
(* PriorityQueue: the first entry is handed out, and nobody sleeps on.     *)

Entries == [prio : Priorities, n : 1 .. MaxPuts]

QueueInv ==
    /\ puts \in 0 .. MaxPuts
    /\ heap \in Heaps(Range(heap)) /\ IsFiniteSet(Range(heap))
    /\ \A x \in Range(heap) : x \in Entries /\ x.n <= puts
    /\ sleepers \in Seq(Consumers) /\ IsInjective(sleepers)
    /\ woken \subseteq Consumers /\ IsFiniteSet(woken)
    /\ \A i \in DOMAIN sleepers : sleepers[i] \notin woken
    /\ lapsed \subseteq Consumers /\ lapsed \cap woken = {}
    /\ wasted \in 0 .. puts
    /\ NoLostWakeUp

\* A heap as a sequence.
LEMMA HeapFacts ==
    ASSUME NEW S, IsFiniteSet(S), NEW h \in Heaps(S)
    PROVE  /\ h \in Seq(S) /\ Len(h) = Cardinality(S) /\ DOMAIN h = 1 .. Len(h) /\ Len(h) \in Nat
           /\ Range(h) = S /\ IsInjective(h) /\ Ordered(h)
           /\ h = <<>> <=> S = {}
<1>1. Cardinality(S) \in Nat
  BY FS_CardinalityType
<1>2. h \in [1 .. Cardinality(S) -> S] /\ Range(h) = S /\ IsInjective(h) /\ Ordered(h)
  BY DEF Heaps
<1>3. h \in Seq(S) /\ Len(h) = Cardinality(S) /\ DOMAIN h = 1 .. Len(h)
  BY <1>1, <1>2
<1>4. h = <<>> <=> S = {}
  BY <1>1, <1>2, <1>3, FS_EmptySet
<1> QED BY <1>1, <1>2, <1>3, <1>4

\* Entries are compared by numbers.
LEMMA EntryNumbers == \A x \in Entries : x.prio \in Nat /\ x.n \in Nat
<1>1. \A x \in Entries : x.prio \in Priorities /\ x.n \in 1 .. MaxPuts
  BY DEF Entries
<1>2. Priorities \subseteq Nat /\ \A n \in 1 .. MaxPuts : n \in Nat
  BY QueueAssumption
<1> QED BY <1>1, <1>2

\* No entry of a heap is before the first one.
LEMMA FirstOfAll ==
    ASSUME NEW S \in SUBSET Entries, IsFiniteSet(S), NEW h \in Heaps(S), NEW j \in DOMAIN h, j # 1
    PROVE  1 \in DOMAIN h /\ Bag!Before(h[1], h[j])
<1>1. h \in Seq(S) /\ DOMAIN h = 1 .. Len(h) /\ Len(h) \in Nat /\ Ordered(h)
  BY HeapFacts
<1>2. 1 \in DOMAIN h /\ \A i \in DOMAIN h : h[i] \in Entries
  BY <1>1
<1> DEFINE After == {i \in 2 .. Len(h) : ~Bag!Before(h[1], h[i])}
<1> SUFFICES ASSUME j \in After PROVE FALSE
  BY <1>1, <1>2
<1>3. After \in SUBSET Nat /\ After # {}
  BY <1>1
<1>4. PICK m \in After : \A i \in After : m <= i
  BY <1>3, LeastNumber
<1>5. m \in 2 .. Len(h) /\ ~Bag!Before(h[1], h[m])
  BY <1>4
<1> DEFINE k == m \div 2
<1>6. k \in Nat /\ 1 <= k /\ k < m /\ k \in DOMAIN h
  BY <1>1, <1>5
<1>7. Bag!Before(h[k], h[m])
  BY <1>5 , <1>1 DEF Ordered
<1>8. k # 1 => Bag!Before(h[1], h[k])
  <2>1. k \notin After
    BY <1>4, <1>5, <1>6
  <2> QED BY <1>1, <1>6, <2>1
<1> HIDE DEF k, After
<1>9. h[1] \in Entries /\ h[k] \in Entries /\ h[m] \in Entries
  BY <1>1, <1>2, <1>5, <1>6
<1>10. \A x \in Entries : x.prio \in Nat /\ x.n \in Nat
  BY EntryNumbers
<1>11. k # 1 => Bag!Before(h[1], h[m])
  <2> SUFFICES ASSUME Bag!Before(h[1], h[k]), Bag!Before(h[k], h[m]) PROVE Bag!Before(h[1], h[m])
    BY <1>7, <1>8
  <2> DEFINE a == h[1]
             b == h[k]
             c == h[m]
             pa == a.prio
             pb == b.prio
             pc == c.prio
             na == a.n
             nb == b.n
             nc == c.n
  <2>1. pa \in Nat /\ pb \in Nat /\ pc \in Nat /\ na \in Nat /\ nb \in Nat /\ nc \in Nat
    BY <1>9, <1>10
  <2>2. (pa < pb \/ (pa = pb /\ na < nb)) /\ (pb < pc \/ (pb = pc /\ nb < nc))
    BY DEF Bag!Before
  <2> HIDE DEF pa, pb, pc, na, nb, nc
  <2>3. pa < pc \/ (pa = pc /\ na < nc)
    BY <2>1, <2>2
  <2> QED BY <2>3 DEF Bag!Before, pa, pb, pc, na, nb, nc
<1> QED BY <1>5, <1>7, <1>11

\* The queue's entries and its waiting consumers.
LEMMA QueueFacts ==
    ASSUME QueueInv
    PROVE  /\ Range(heap) \in SUBSET Entries /\ IsFiniteSet(Range(heap))
           /\ heap \in Seq(Range(heap)) /\ Len(heap) = Cardinality(Range(heap))
           /\ DOMAIN heap = 1 .. Len(heap) /\ Len(heap) \in Nat /\ IsInjective(heap)
           /\ heap = <<>> <=> Range(heap) = {}
           /\ Cardinality(woken) \in Nat
           /\ sleepers \in Seq(Consumers) /\ Len(sleepers) \in Nat /\ DOMAIN sleepers = 1 .. Len(sleepers)
           /\ puts \in Nat /\ wasted \in Nat /\ wasted <= puts
<1>1. Range(heap) \in SUBSET Entries /\ IsFiniteSet(Range(heap)) /\ heap \in Heaps(Range(heap))
  BY DEF QueueInv
<1>2. Cardinality(woken) \in Nat
  BY FS_CardinalityType DEF QueueInv
<1>3. sleepers \in Seq(Consumers) /\ Len(sleepers) \in Nat /\ DOMAIN sleepers = 1 .. Len(sleepers)
  BY DEF QueueInv
<1>4. puts \in Nat /\ wasted \in Nat /\ wasted <= puts
  BY QueueAssumption DEF QueueInv
<1> QED BY <1>1, <1>2, <1>3, <1>4, HeapFacts

\* Two entries of which each is before the other do not exist.
LEMMA NotBoth ==
    ASSUME NEW x \in Entries, NEW y \in Entries
    PROVE  ~(Bag!Before(x, y) /\ Bag!Before(y, x))
<1>1. x.prio \in Nat /\ x.n \in Nat /\ y.prio \in Nat /\ y.n \in Nat
  BY EntryNumbers
<1> QED BY <1>1 DEF Bag!Before

\* What a full queue leaves room with.
LEMMA RoomFacts ==
    ASSUME QueueInv
    PROVE  /\ Range(Room) \subseteq Range(heap) /\ IsFiniteSet(Range(Room))
           /\ Cardinality(Range(Room)) <= Len(heap)
           /\ \/ Range(Room) = Range(heap)
              \/ \E old \in Range(heap) : /\ Range(Room) = Range(heap) \ {old}
                                          /\ Bag!Foremost(old) => Range(heap) = {old}
<1> DEFINE m == Len(heap)
<1>1. CASE Room = heap
  BY <1>1, QueueFacts
<1>2. CASE Room # heap
  <2>1. Room = SubSeq(heap, 1, m - 1) /\ heap # <<>>
    <3>1. Room = Front(heap) /\ Len(heap) >= QueueLimit /\ QueueLimit > 0
      BY <1>2 DEF Room
    <3>2. QueueLimit \in Nat /\ Len(heap) > 0
      BY <3>1, QueueAssumption, QueueFacts
    <3> QED BY <3>1, <3>2 DEF Front
  <2>2. m \in Nat /\ m >= 1 /\ m \in DOMAIN heap /\ DOMAIN heap = 1 .. m
    BY <2>1, QueueFacts
  <2>3. Room \in Seq(Range(heap)) /\ DOMAIN Room = 1 .. m - 1 /\ \A i \in 1 .. m - 1 : Room[i] = heap[i]
    BY <2>1, <2>2, QueueFacts
  <2> DEFINE old == heap[m]
  <2>4. old \in Range(heap)
    BY <2>2 DEF Range
  <2>5. Range(Room) = Range(heap) \ {old}
    <3>1. ASSUME NEW x \in Range(Room) PROVE x \in Range(heap) \ {old}
      <4>1. PICK i \in 1 .. m - 1 : x = heap[i]
        BY <2>3 DEF Range
      <4>2. i \in DOMAIN heap /\ i # m
        <5> HIDE DEF m
        <5> QED BY <2>2
      <4> QED BY <2>2, <4>1, <4>2, QueueFacts DEF Range, IsInjective
    <3>2. ASSUME NEW x \in Range(heap) \ {old} PROVE x \in Range(Room)
      <4>1. PICK i \in DOMAIN heap : x = heap[i]
        BY DEF Range
      <4>2. i # m
        BY <4>1
      <4>3. i \in 1 .. m - 1
        BY <2>2, <4>2
      <4> QED BY <2>3, <4>1, <4>3 DEF Range
    <3> QED BY <3>1, <3>2
  <2>6. Bag!Foremost(old) => Range(heap) = {old}
    <3> SUFFICES ASSUME Bag!Foremost(old), NEW x \in Range(heap), x # old PROVE FALSE
      BY <2>4
    <3>1. m # 1
      BY <2>2 DEF Range
    <3>2. heap[1] \in Range(heap) /\ heap[1] # old /\ Bag!Before(heap[1], old)
      <4>1. 1 \in DOMAIN heap /\ Bag!Before(heap[1], heap[m])
        BY <2>2, <3>1, FirstOfAll, QueueFacts DEF QueueInv
      <4> QED BY <2>2, <3>1, <4>1, QueueFacts DEF IsInjective, Range
    <3>3. Bag!Before(old, heap[1])
      BY <3>2 DEF Bag!Foremost
    <3> QED BY <2>4, <3>2, <3>3, NotBoth, QueueFacts
  <2>7. IsFiniteSet(Range(Room)) /\ Cardinality(Range(Room)) <= Len(heap)
    <3>1. Range(Room) \in SUBSET Range(heap)
      BY <2>5
    <3> QED BY <3>1, FS_Subset, QueueFacts
  <2> QED BY <2>4, <2>5, <2>6, <2>7
<1> QED BY <1>1, <1>2

\* put(): the entry is stored, and one more consumer is woken.
LEMMA PutStep ==
    ASSUME QueueInv, NEW p \in Priorities, Put(p)
    PROVE  QueueInv' /\ (Bag!Store \/ Bag!DisplaceOther)
<1> DEFINE x == [prio |-> p, n |-> puts + 1]
           S == Range(Room) \cup {x}
<1>1. /\ puts < MaxPuts /\ puts' = puts + 1 /\ heap' \in Heaps(S) /\ UNCHANGED <<lapsed, handed>>
      /\ sleepers = <<>> => UNCHANGED <<sleepers, woken, wasted>>
      /\ sleepers # <<>> => Notify
  BY DEF Put, HeapPush, Moved, Notifies
<1>2. puts \in Nat /\ MaxPuts \in Nat /\ puts' \in 0 .. MaxPuts /\ puts' = puts + 1 /\ puts + 1 \in 1 .. MaxPuts
  BY <1>1, QueueAssumption DEF QueueInv
<1>3. x \in Entries /\ x.n = puts + 1
  BY <1>2 DEF Entries
<1> HIDE DEF x
<1>4. /\ Range(Room) \subseteq Range(heap) /\ IsFiniteSet(Range(Room))
      /\ Cardinality(Range(Room)) <= Len(heap)
  BY RoomFacts
<1>5. IsFiniteSet(S) /\ Cardinality(S) <= Len(heap) + 1 /\ Cardinality(S) \in Nat
  <2>1. Cardinality(Range(Room)) \in Nat /\ Len(heap) \in Nat
    BY <1>4, FS_CardinalityType, QueueFacts
  <2>2. IsFiniteSet(S) /\ (Cardinality(S) = Cardinality(Range(Room))
                           \/ Cardinality(S) = Cardinality(Range(Room)) + 1)
    BY <1>4, FS_AddElement
  <2> QED BY <1>4, <2>1, <2>2
<1>6. \A y \in Range(heap) : y \in Entries /\ y.n <= puts /\ y.n \in Nat
  BY QueueAssumption DEF QueueInv, Entries
<1>7. \A y \in Range(heap) : y.n < x.n
  BY <1>2, <1>3, <1>6
<1>8. Range(heap') = S /\ Len(heap') = Cardinality(S)
  BY <1>1, <1>5, HeapFacts
<1>9. Bag!Store \/ Bag!DisplaceOther
  <2>1. x \in Bag!Entry
    BY <1>3 DEF Entries, Bag!Entry
  <2>2. CASE Range(Room) = Range(heap)
    BY <1>1, <1>7, <1>8, <2>1, <2>2 DEF Bag!Store, Bag!Newest
  <2>3. CASE \E old \in Range(heap) : /\ Range(Room) = Range(heap) \ {old}
                                      /\ Bag!Foremost(old) => Range(heap) = {old}
    BY <1>1, <1>7, <1>8, <2>1, <2>3 DEF Bag!DisplaceOther, Bag!Exchange, Bag!Newest
  <2> QED BY <2>2, <2>3, RoomFacts
<1>10. /\ sleepers' \in Seq(Consumers) /\ IsInjective(sleepers')
       /\ woken' \subseteq Consumers /\ IsFiniteSet(woken')
       /\ \A i \in DOMAIN sleepers' : sleepers'[i] \notin woken'
       /\ lapsed' \subseteq Consumers /\ lapsed' \cap woken' = {}
       /\ wasted' \in 0 .. puts'
       /\ sleepers' # <<>> =>
             sleepers # <<>> /\ Cardinality(woken') + wasted' = Cardinality(woken) + wasted + 1
  <2>0. puts \in Nat /\ wasted \in Nat /\ wasted <= puts /\ Cardinality(woken) \in Nat
    BY QueueFacts
  <2>1. CASE sleepers = <<>>
    <3>1. wasted' \in 0 .. puts'
      BY <1>1, <2>0, <2>1
    <3> QED BY <1>1, <2>1, <3>1 DEF QueueInv
  <2>2. CASE sleepers # <<>>
    <3>1. /\ Head(sleepers) = sleepers[1] /\ 1 \in DOMAIN sleepers /\ sleepers[1] \in Consumers
          /\ Tail(sleepers) \in Seq(Consumers) /\ DOMAIN Tail(sleepers) = 1 .. Len(sleepers) - 1
          /\ \A i \in 1 .. Len(sleepers) - 1 : Tail(sleepers)[i] = sleepers[i + 1] /\ i + 1 \in DOMAIN sleepers
                                               /\ i + 1 # 1
      BY <2>2, QueueFacts
    <3>2. sleepers[1] \notin woken /\ IsFiniteSet(woken) /\ woken \subseteq Consumers /\ IsInjective(sleepers)
      BY <3>1 DEF QueueInv
    <3>a. /\ sleepers' = Tail(sleepers) /\ woken' \subseteq woken \cup {sleepers[1]}
          /\ \/ sleepers[1] \in lapsed /\ woken' = woken /\ wasted' = wasted + 1
             \/ sleepers[1] \notin lapsed /\ woken' = woken \cup {sleepers[1]} /\ wasted' = wasted
      BY <1>1, <2>2, <3>1 DEF Notify
    <3>3. /\ IsFiniteSet(woken') /\ woken' \subseteq Consumers
          /\ Cardinality(woken') + wasted' = Cardinality(woken) + wasted + 1
      <4>1. Cardinality(woken \cup {sleepers[1]}) = Cardinality(woken) + 1
            /\ IsFiniteSet(woken \cup {sleepers[1]})
        BY <3>2, FS_AddElement
      <4>2. CASE woken' = woken /\ wasted' = wasted + 1
        BY <2>0, <3>2, <4>2
      <4>3. CASE woken' = woken \cup {sleepers[1]} /\ wasted' = wasted
        <5>1. Cardinality(woken') = Cardinality(woken) + 1
          BY <4>1, <4>3
        <5> QED BY <2>0, <3>1, <3>2, <4>1, <4>3, <5>1
      <4> QED BY <3>a, <4>2, <4>3
    <3>b. wasted' \in 0 .. puts' /\ lapsed' \subseteq Consumers /\ lapsed' \cap woken' = {}
      <4>1. wasted' \in 0 .. puts'
        BY <1>1, <2>0, <3>a
      <4> QED BY <1>1, <3>a, <4>1 DEF QueueInv
    <3>4. IsInjective(sleepers')
      <4> SUFFICES ASSUME NEW i \in 1 .. Len(sleepers) - 1, NEW j \in 1 .. Len(sleepers) - 1,
                          Tail(sleepers)[i] = Tail(sleepers)[j]
                   PROVE  i = j
        BY <3>1, <3>a DEF IsInjective
      <4>1. i + 1 = j + 1
        BY <3>1, <3>2 DEF IsInjective
      <4> QED BY <4>1
    <3>5. \A i \in DOMAIN sleepers' : sleepers'[i] \notin woken'
      BY <3>1, <3>2, <3>a DEF QueueInv, IsInjective
    <3> QED BY <2>2, <3>1, <3>3, <3>4, <3>5, <3>a, <3>b
  <2> QED BY <2>1, <2>2
<1>11. NoLostWakeUp'
  <2>1. sleepers # <<>> => Len(heap) <= Cardinality(woken) + wasted
    BY DEF QueueInv, NoLostWakeUp
  <2>2. Len(heap) \in Nat /\ Cardinality(woken) \in Nat /\ wasted \in Nat
    BY QueueFacts
  <2>3. Len(heap') \in Nat /\ Len(heap') <= Len(heap) + 1
    BY <1>5, <1>8
  <2>4. sleepers' # <<>> => /\ Len(heap) <= Cardinality(woken) + wasted
                           /\ Cardinality(woken') + wasted' = Cardinality(woken) + wasted + 1
    BY <1>10, <2>1
  <2>5. sleepers' # <<>> => Len(heap') <= Cardinality(woken') + wasted'
    BY <2>2, <2>3, <2>4
  <2> QED BY <2>5 DEF NoLostWakeUp
<1>12. \A y \in Range(heap') : y \in Entries /\ y.n <= puts'
  BY <1>2, <1>3, <1>4, <1>6, <1>8
<1> QED BY <1>1, <1>2, <1>5, <1>8, <1>9, <1>10, <1>11, <1>12 DEF QueueInv

\* The entry that is handed out is the first one.
LEMMA HandFacts ==
    ASSUME QueueInv, Hand
    PROVE  /\ heap' \in Heaps(Range(heap')) /\ IsFiniteSet(Range(heap'))
           /\ Range(heap') \subseteq Range(heap) /\ Len(heap') = Len(heap) - 1 /\ Len(heap) >= 1
           /\ wasted' = wasted \/ (wasted' = 0 /\ Len(heap') = 0)
           /\ Bag!Hand
<1> DEFINE x == heap[1]
           S == Range(heap) \ {x}
<1>1. heap # <<>> /\ heap' \in Heaps(S) /\ handed' = {x} /\ 1 \in DOMAIN heap
  BY QueueFacts DEF Hand, HeapPop, Moved
<1>2. x \in Range(heap) /\ Len(heap) \in Nat /\ Len(heap) >= 1
  BY <1>1, QueueFacts DEF Range
<1>3. IsFiniteSet(S) /\ Cardinality(S) = Len(heap) - 1
  <2>1. IsFiniteSet(Range(heap)) /\ Cardinality(Range(heap)) = Len(heap)
    BY QueueFacts
  <2> HIDE DEF x
  <2> QED BY <1>2, <2>1, FS_RemoveElement
<1>4. Range(heap') = S /\ Len(heap') = Cardinality(S)
  BY <1>1, <1>3, HeapFacts
<1>5. Bag!Foremost(x)
  <2> SUFFICES ASSUME NEW y \in Range(heap), y # x PROVE Bag!Before(x, y)
    BY DEF Bag!Foremost
  <2>1. PICK j \in DOMAIN heap : y = heap[j]
    BY DEF Range
  <2>2. j # 1
    BY <2>1
  <2> QED BY <2>1, <2>2, FirstOfAll, QueueFacts DEF QueueInv
<1>6. Bag!Hand
  BY <1>1, <1>2, <1>4, <1>5 DEF Bag!Hand
<1>7. wasted' = wasted \/ (wasted' = 0 /\ Len(heap') = 0)
  BY DEF Hand
<1> QED BY <1>1, <1>2, <1>3, <1>4, <1>6, <1>7

\* get(), get_nowait(): the consumers that sleep are not forgotten.
LEMMA GetStep ==
    ASSUME QueueInv, NEW c \in Consumers, Get(c) \/ Awake(c)
    PROVE  QueueInv' /\ (Bag!Hand \/ UNCHANGED <<Range(heap), handed>>)
<1>1. /\ UNCHANGED <<sleepers, lapsed, puts>> /\ Len(heap) \in Nat /\ Cardinality(woken) \in Nat
      /\ puts \in Nat /\ wasted \in Nat /\ wasted <= puts
  BY QueueFacts DEF Get, Awake
<1>2. woken' = woken \/ (woken' = woken \ {c} /\ c \in woken)
  BY DEF Get, Awake
<1>3. IsFiniteSet(woken') /\ woken' \subseteq woken /\ Cardinality(woken') >= Cardinality(woken) - 1
  <2>1. IsFiniteSet(woken)
    BY DEF QueueInv
  <2>2. CASE woken' = woken
    BY <1>1, <2>1, <2>2
  <2>3. CASE woken' = woken \ {c} /\ c \in woken
    <3>1. IsFiniteSet(woken \ {c}) /\ Cardinality(woken \ {c}) = Cardinality(woken) - 1
      BY <2>1, <2>3, FS_RemoveElement
    <3> QED BY <1>1, <2>3, <3>1
  <2> QED BY <1>2, <2>2, <2>3
<1>4. Cardinality(woken') \in Nat
  BY <1>3, FS_CardinalityType
<1>5. CASE Hand
  <2>1. /\ heap' \in Heaps(Range(heap')) /\ IsFiniteSet(Range(heap'))
        /\ Range(heap') \subseteq Range(heap) /\ Len(heap') = Len(heap) - 1
        /\ wasted' = wasted \/ (wasted' = 0 /\ Len(heap') = 0)
        /\ Bag!Hand
    BY <1>5, HandFacts
  <2>2. NoLostWakeUp' /\ wasted' \in 0 .. puts'
    <3>1. sleepers # <<>> => Len(heap) <= Cardinality(woken) + wasted
      BY DEF QueueInv, NoLostWakeUp
    <3>a. Len(heap') + 1 = Len(heap) /\ Len(heap') \in Nat
      BY <1>1, <2>1
    <3>2. sleepers' # <<>> => Len(heap') <= Cardinality(woken') + wasted'
      <4>1. CASE wasted' = wasted
        BY <1>1, <1>3, <1>4, <3>1, <3>a, <4>1
      <4>2. CASE wasted' = 0 /\ Len(heap') = 0
        BY <1>4, <4>2
      <4> QED BY <2>1, <4>1, <4>2
    <3>3. wasted' \in 0 .. puts'
      BY <1>1, <2>1
    <3> QED BY <3>2, <3>3 DEF NoLostWakeUp
  <2>3. lapsed' \cap woken' = {}
    BY <1>1, <1>3 DEF QueueInv
  <2> QED BY <1>1, <1>3, <2>1, <2>2, <2>3 DEF QueueInv
<1>6. CASE ~Hand
  <2>1. heap = <<>> /\ UNCHANGED <<heap, handed, wasted>>
    BY <1>6 DEF Get, Awake
  <2>2. NoLostWakeUp'
    <3>1. Len(heap') = 0
      BY <2>1
    <3> QED BY <1>1, <1>4, <2>1, <3>1 DEF NoLostWakeUp
  <2>3. lapsed' \cap woken' = {}
    BY <1>1, <1>3 DEF QueueInv
  <2> QED BY <1>1, <1>3, <2>1, <2>2, <2>3 DEF QueueInv
<1> QED BY <1>5, <1>6

\* A consumer goes to sleep when there is nothing, has slept enough, or gives up.
LEMMA SleepStep ==
    ASSUME QueueInv, NEW c \in Consumers, Sleep(c) \/ TimeUp(c) \/ GiveUp(c)
    PROVE  QueueInv' /\ UNCHANGED <<Range(heap), handed>>
<1>1. UNCHANGED <<heap, woken, puts, handed, wasted>>
  BY DEF Sleep, TimeUp, GiveUp
<1>4. lapsed' \subseteq lapsed \cup {c} /\ (c \in lapsed' => lapsed' = lapsed \/ c \in Range(sleepers))
  BY DEF Sleep, TimeUp, GiveUp
<1>5. lapsed' \subseteq Consumers /\ lapsed' \cap woken' = {}
  <2>1. c \in Range(sleepers) => c \notin woken
    BY DEF QueueInv, Range
  <2> QED BY <1>1, <1>4, <2>1 DEF QueueInv
<1>2. CASE Sleep(c)
  <2>1. /\ heap = <<>> /\ sleepers' = Append(sleepers, c) /\ c \notin woken /\ lapsed' = lapsed
        /\ \A i \in DOMAIN sleepers : sleepers[i] # c
    BY <1>2 DEF Sleep, Sleeping, Range
  <2>2. /\ sleepers' \in Seq(Consumers) /\ DOMAIN sleepers' = 1 .. Len(sleepers) + 1
        /\ \A i \in DOMAIN sleepers : sleepers'[i] = sleepers[i]
        /\ sleepers'[Len(sleepers) + 1] = c
        /\ \A i \in DOMAIN sleepers' : i \in DOMAIN sleepers \/ i = Len(sleepers) + 1
    BY <2>1, QueueFacts
  <2>3. IsInjective(sleepers')
    BY <2>1, <2>2 DEF QueueInv, IsInjective
  <2>4. \A i \in DOMAIN sleepers' : sleepers'[i] \notin woken'
    BY <1>1, <2>1, <2>2 DEF QueueInv
  <2>5. NoLostWakeUp'
    <3>1. Len(heap') = 0 /\ Cardinality(woken') \in Nat /\ wasted' \in Nat
      BY <1>1, <2>1, QueueFacts
    <3> QED BY <3>1 DEF NoLostWakeUp
  <2> QED BY <1>1, <1>5, <2>2, <2>3, <2>4, <2>5 DEF QueueInv
<1>6. CASE UNCHANGED sleepers
  BY <1>1, <1>5, <1>6 DEF QueueInv, NoLostWakeUp
<1>3. CASE \E i \in DOMAIN sleepers : sleepers' = RemoveAt(sleepers, i)
  <2>1. PICK i \in DOMAIN sleepers : sleepers' = RemoveAt(sleepers, i)
    BY <1>3
  <2>2. /\ sleepers' \in Seq(Consumers) /\ DOMAIN sleepers' = 1 .. Len(sleepers) - 1
        /\ \A j \in 1 .. Len(sleepers) - 1 : sleepers'[j] = sleepers[IF j < i THEN j ELSE j + 1]
    BY <2>1, RemovedElements, QueueFacts
  <2>3. IsInjective(sleepers')
    <3> SUFFICES ASSUME NEW j \in 1 .. Len(sleepers) - 1, NEW k \in 1 .. Len(sleepers) - 1,
                        sleepers'[j] = sleepers'[k]
                 PROVE  j = k
      BY <2>2 DEF IsInjective
    <3> DEFINE a == IF j < i THEN j ELSE j + 1
               b == IF k < i THEN k ELSE k + 1
    <3>1. a \in DOMAIN sleepers /\ b \in DOMAIN sleepers /\ sleepers[a] = sleepers[b]
      BY <2>2, QueueFacts
    <3>2. a = b
      BY <3>1 DEF QueueInv, IsInjective
    <3>3. Len(sleepers) \in Nat
      BY QueueFacts
    <3> QED BY <3>2, <3>3
  <2>4. \A j \in DOMAIN sleepers' : sleepers'[j] \notin woken'
    <3> SUFFICES ASSUME NEW j \in 1 .. Len(sleepers) - 1 PROVE sleepers'[j] \notin woken
      BY <1>1, <2>2
    <3> DEFINE a == IF j < i THEN j ELSE j + 1
    <3>1. a \in DOMAIN sleepers /\ sleepers'[j] = sleepers[a]
      BY <2>2, QueueFacts
    <3> QED BY <3>1 DEF QueueInv
  <2>5. NoLostWakeUp'
    <3>1. sleepers # <<>>
      BY <2>1, QueueFacts
    <3> QED BY <1>1, <3>1 DEF QueueInv, NoLostWakeUp
  <2> QED BY <1>1, <1>5, <2>2, <2>3, <2>4, <2>5 DEF QueueInv
<1> QED BY <1>1, <1>2, <1>3, <1>6 DEF TimeUp, GiveUp

\* clear()
LEMMA ClearStep ==
    ASSUME QueueInv, ClearQueue
    PROVE  QueueInv' /\ Bag!Discard
<1>1. heap' = <<>> /\ wasted' = 0 /\ UNCHANGED <<sleepers, lapsed, woken, puts, handed>>
      /\ 0 \in 0 .. puts
  BY QueueFacts DEF ClearQueue
<1>2. Range(heap') = {} /\ Len(heap') = 0 /\ IsFiniteSet({}) /\ Cardinality({}) = 0
  BY <1>1, FS_EmptySet DEF Range
<1>3. heap' \in Heaps({})
  BY <1>1, <1>2 DEF Heaps, IsInjective, Ordered
<1>4. NoLostWakeUp'
  BY <1>1, <1>2, QueueFacts DEF NoLostWakeUp
<1> QED BY <1>1, <1>2, <1>3, <1>4 DEF QueueInv, Bag!Discard

\* Every step keeps the invariant and is one of the bag.
LEMMA QueueStep ==
    ASSUME QueueInv, [QueueNext]_queueVars
    PROVE  QueueInv' /\ [Bag!LooseNext]_<<Range(heap), handed>>
<1>1. CASE UNCHANGED queueVars
  BY <1>1 DEF queueVars, QueueInv, NoLostWakeUp, Heaps
<1>2. CASE QueueNext
  <2>1. ASSUME NEW p \in Priorities, Put(p) PROVE QueueInv' /\ Bag!LooseNext
    BY <2>1, PutStep DEF Bag!LooseNext
  <2>2. ASSUME PutRefused PROVE UNCHANGED queueVars
    BY <2>2 DEF PutRefused
  <2>3. ASSUME ClearQueue PROVE QueueInv' /\ Bag!LooseNext
    BY <2>3, ClearStep DEF Bag!LooseNext
  <2>4. ASSUME NEW c \in Consumers, Get(c) \/ Awake(c)
        PROVE  QueueInv' /\ [Bag!LooseNext]_<<Range(heap), handed>>
    BY <2>4, GetStep DEF Bag!LooseNext
  <2>5. ASSUME NEW c \in Consumers, Sleep(c) \/ TimeUp(c) \/ GiveUp(c)
        PROVE  QueueInv' /\ [Bag!LooseNext]_<<Range(heap), handed>>
    BY <2>5, SleepStep
  <2> QED BY <1>1, <1>2, <2>1, <2>2, <2>3, <2>4, <2>5 DEF QueueNext
<1> QED BY <1>1, <1>2

\* Nothing is stored, nobody sleeps.
LEMMA QueueStart ==
    ASSUME QueueInit
    PROVE  QueueInv /\ Bag!Init
<1>1. heap = <<>> /\ sleepers = <<>> /\ lapsed = {} /\ woken = {} /\ puts = 0 /\ handed = {} /\ wasted = 0
  BY DEF QueueInit
<1>2. Range(heap) = {} /\ Len(heap) = 0 /\ IsFiniteSet({}) /\ Cardinality({}) = 0
  BY <1>1, FS_EmptySet DEF Range
<1>3. heap \in Heaps({})
  BY <1>1, <1>2 DEF Heaps, IsInjective, Ordered
<1>4. sleepers \in Seq(Consumers) /\ IsInjective(sleepers) /\ DOMAIN sleepers = {}
  BY <1>1 DEF IsInjective
<1>5. puts \in 0 .. MaxPuts /\ wasted \in 0 .. puts
  BY <1>1, QueueAssumption
<1> QED BY <1>1, <1>2, <1>3, <1>4, <1>5 DEF QueueInv, NoLostWakeUp, Bag!Init

\* While a consumer waits, no more items are left over than woken consumers are
\* about to take and notifications were spent on consumers whose time was up,
\* for any number of consumers, puts, items and limit
\* (PriorityMessageQueue.put, get; threading.Condition).
THEOREM NoLostWakeUpAlways == QueueSpec => []NoLostWakeUp
<1>1. QueueInit => QueueInv
  BY QueueStart
<1>2. QueueInv /\ [QueueNext]_queueVars => QueueInv'
  BY QueueStep
<1>3. QueueInv => NoLostWakeUp
  BY DEF QueueInv
<1> QED BY <1>1, <1>2, <1>3, PTL DEF QueueSpec

\* The queue implements the bag that hands out by priority and age and never
\* drops the item that is next while it holds another, for any
\* number of consumers, puts and limit, whichever heap the list is
\* (PriorityMessageQueue.put, get, clear).
THEOREM ServesByPriorityAlways == QueueSpec => ServesByPriority
<1>1. QueueInit => QueueInv /\ Bag!Init
  BY QueueStart
<1>2. QueueInv /\ [QueueNext]_queueVars => QueueInv' /\ [Bag!LooseNext]_<<Range(heap), handed>>
  BY QueueStep
<1> QED BY <1>1, <1>2, PTL DEF QueueSpec, ServesByPriority, Bag!LooseSpec

-----------------------------------------------------------------------------
(* EventBus: "once" is once, and only a predicate ends a publication early.*)

\* A publication owes what it has still to tell, but for the handler it is in.
Owes(f) ==
    /\ f.inside => \A t \in Token : IsFirst(t, f.rest) => f.owed = f.rest \ {t}
    /\ ~f.inside => f.owed = f.rest

\* What the bus knows were offered, and a publication owes to those to come.
BusInv ==
    /\ tokens \in 0 .. Len(Offers)
    /\ subscribed \cup spent \subseteq 1 .. tokens
    /\ frames \in [Publishers -> Seq(Frame)]
    /\ \A p \in Publishers : \A i \in DOMAIN frames[p] :
          /\ frames[p][i].owed \subseteq frames[p][i].rest /\ frames[p][i].rest \subseteq 1 .. tokens
          /\ Owes(frames[p][i])
    /\ OnceIsDropped

\* The tokens are numbers, and one of a snapshot comes first.
LEMMA OneFirst ==
    ASSUME NEW rest \in SUBSET Token, NEW t, NEW u, IsFirst(t, rest), IsFirst(u, rest)
    PROVE  t = u
<1>1. \A v \in Token : v \in Nat /\ Rank[Offers[v].scope] \in Nat
  <2>1. \A v \in Token : v \in Nat /\ Offers[v].scope \in Scope
    <3> DEFINE S == [scope : Scope, weak : BOOLEAN, once : BOOLEAN, filter : BOOLEAN]
    <3>1. \A x \in S : x.scope \in Scope
      OBVIOUS
    <3>2. Offers \in Seq(S)
      BY OffersAssumption
    <3> HIDE DEF S
    <3>3. DOMAIN Offers = 1 .. Len(Offers) /\ Len(Offers) \in Nat /\ \A v \in DOMAIN Offers : Offers[v] \in S
      BY <3>2
    <3> QED BY <3>1, <3>3 DEF Token
  <2>2. \A s \in Scope : Rank[s] \in Nat
    BY DEF Scope, Rank
  <2> QED BY <2>1, <2>2
<1> SUFFICES ASSUME t # u PROVE FALSE
  OBVIOUS
<1>2. t \in Token /\ u \in Token /\ Earlier(t, u) /\ Earlier(u, t)
  BY DEF IsFirst
<1> DEFINE a == Rank[Offers[t].scope]
           b == Rank[Offers[u].scope]
<1>3. (a < b \/ (a = b /\ t < u)) /\ (b < a \/ (b = a /\ u < t))
  BY <1>2 DEF Earlier
<1>4. a \in Nat /\ b \in Nat /\ t \in Nat /\ u \in Nat
  BY <1>1, <1>2
<1> HIDE DEF a, b
<1> QED BY <1>3, <1>4

\* The innermost publication changes, the others stay.
LEMMA InnerChanges ==
    ASSUME BusInv, NEW p \in Publishers, Publishing(p), NEW f \in Frame, Becomes(p, f),
           f.owed \subseteq f.rest, f.rest \subseteq 1 .. tokens,
           Owes(f),
           tokens' = tokens
    PROVE  /\ frames' \in [Publishers -> Seq(Frame)]
           /\ \A q \in Publishers : Len(frames'[q]) = Len(frames[q])
           /\ \A q \in Publishers : \A i \in DOMAIN frames'[q] :
                 /\ frames'[q][i].owed \subseteq frames'[q][i].rest
                 /\ frames'[q][i].rest \subseteq 1 .. tokens'
                 /\ Owes(frames'[q][i])
<1> DEFINE m == Len(frames[p])
           s == [frames[p] EXCEPT ![m] = f]
<1>1. frames[p] \in Seq(Frame) /\ frames[p] # <<>>
  BY DEF BusInv, Publishing
<1>2. m \in DOMAIN frames[p] /\ DOMAIN frames[p] = 1 .. m
  BY <1>1
<1>3. /\ s \in Seq(Frame) /\ Len(s) = m /\ DOMAIN s = DOMAIN frames[p] /\ s[m] = f
      /\ \A i \in DOMAIN frames[p] : i # m => s[i] = frames[p][i]
  BY <1>1, <1>2
<1>4. frames' = [frames EXCEPT ![p] = s]
  BY DEF Becomes, BusInv
<1> HIDE DEF s
<1>5. /\ frames' \in [Publishers -> Seq(Frame)] /\ frames'[p] = s
      /\ \A q \in Publishers : q # p => frames'[q] = frames[q]
  BY <1>3, <1>4 DEF BusInv
<1>6. ASSUME NEW q \in Publishers, NEW i \in DOMAIN frames'[q]
      PROVE  /\ frames'[q][i].owed \subseteq frames'[q][i].rest
             /\ frames'[q][i].rest \subseteq 1 .. tokens'
             /\ Owes(frames'[q][i])
  <2>1. CASE q = p /\ i = m
    BY <1>3, <1>5, <2>1
  <2>2. CASE ~(q = p /\ i = m)
    <3>1. i \in DOMAIN frames[q] /\ frames'[q][i] = frames[q][i]
      BY <1>3, <1>5, <1>6, <2>2
    <3> QED BY <3>1 DEF BusInv
  <2> QED BY <2>1, <2>2
<1> QED BY <1>3, <1>5, <1>6

\* The innermost publication.
LEMMA InnerFrame ==
    ASSUME BusInv, NEW p \in Publishers, Publishing(p)
    PROVE  /\ Inner(p) \in Frame /\ Inner(p) = frames[p][Len(frames[p])]
           /\ Inner(p).owed \subseteq Inner(p).rest /\ Inner(p).rest \subseteq 1 .. tokens
           /\ Inner(p).rest \subseteq Token /\ Inner(p).owed \subseteq Token /\ Inner(p).inside \in BOOLEAN
           /\ Owes(Inner(p))
<1>1. frames[p] \in Seq(Frame) /\ frames[p] # <<>>
  BY DEF BusInv, Publishing
<1>2. Len(frames[p]) \in DOMAIN frames[p]
  BY <1>1
<1>3. Inner(p) = frames[p][Len(frames[p])]
  BY DEF Inner, Last
<1>4. Inner(p) \in Frame
  BY <1>1, <1>2, <1>3
<1> QED BY <1>2, <1>3, <1>4 DEF BusInv, Frame

\* A publication that ends here has told everybody, or has come to a predicate.
EndsWell(p) ==
    LET owed == Inner(p).owed
    IN  owed = {} \/ \E t \in owed : IsFirst(t, owed) /\ Offers[t].filter

\* The bus keeps its subscriptions, and its publications what they owe.
LEMMA BusStep ==
    ASSUME BusInv, [BusNext]_busVars
    PROVE  /\ BusInv'
           /\ \A p \in Publishers : Len(frames'[p]) < Len(frames[p]) => EndsWell(p)
<1> DEFINE Told == \A p \in Publishers : Len(frames'[p]) < Len(frames[p]) => EndsWell(p)
<1>0. /\ Len(Offers) \in Nat /\ Token = 1 .. Len(Offers)
      /\ \A p \in Publishers : frames[p] \in Seq(Frame) /\ Len(frames[p]) \in Nat
  BY OffersAssumption DEF BusInv, Token
<1>1. CASE Subscribe
  BY <1>0, <1>1 DEF Subscribe, BusInv, OnceIsDropped, Owes, IsFirst
<1>2. CASE ClearBus
  BY <1>0, <1>2 DEF ClearBus, BusInv, OnceIsDropped, Without, Owes, IsFirst
<1>3. CASE Disable \/ UNCHANGED busVars \/ \E t \in Token : OwnerGone(t)
  BY <1>0, <1>3 DEF Disable, busVars, OwnerGone, BusInv, OnceIsDropped, Owes, IsFirst
<1>4. ASSUME NEW t \in Token, Unsubscribe(t) PROVE BusInv' /\ Told
  BY <1>0, <1>4 DEF Unsubscribe, BusInv, OnceIsDropped, Without, Owes, IsFirst
<1>5. ASSUME NEW p \in Publishers, NEW e \in Event, Publish(p, e) PROVE BusInv' /\ Told
  <2> DEFINE f == [inside |-> FALSE, rest |-> Matching(e), owed |-> Matching(e)]
             s == Append(frames[p], f)
  <2>1. /\ Matching(e) \subseteq 1 .. tokens /\ Matching(e) \subseteq Token
        /\ UNCHANGED <<subscribed, tokens, spent>> /\ frames' = [frames EXCEPT ![p] = s]
    BY <1>0, <1>5 DEF Publish, Matching, BusInv
  <2>2. f \in Frame /\ f.inside = FALSE /\ f.rest = Matching(e) /\ f.owed = Matching(e)
    BY <2>1 DEF Frame
  <2> HIDE DEF f
  <2>3. /\ s \in Seq(Frame) /\ Len(s) = Len(frames[p]) + 1 /\ s[Len(s)] = f
        /\ DOMAIN s = 1 .. Len(frames[p]) + 1
        /\ \A i \in DOMAIN s : i # Len(s) => i \in DOMAIN frames[p] /\ s[i] = frames[p][i]
    BY <1>0, <2>2
  <2> HIDE DEF s
  <2>4. /\ frames' \in [Publishers -> Seq(Frame)] /\ frames'[p] = s
        /\ \A q \in Publishers : q # p => frames'[q] = frames[q]
    BY <2>1, <2>3 DEF BusInv
  <2>5. ASSUME NEW q \in Publishers, NEW i \in DOMAIN frames'[q]
        PROVE  /\ frames'[q][i].owed \subseteq frames'[q][i].rest
               /\ frames'[q][i].rest \subseteq 1 .. tokens'
               /\ Owes(frames'[q][i])
    <3>1. CASE q = p /\ i = Len(s)
      BY <2>1, <2>2, <2>3, <2>4, <3>1 DEF Owes
    <3>2. CASE ~(q = p /\ i = Len(s))
      <4>1. i \in DOMAIN frames[q] /\ frames'[q][i] = frames[q][i]
        BY <2>3, <2>4, <2>5, <3>2
      <4> QED BY <2>1, <4>1 DEF BusInv
    <3> QED BY <3>1, <3>2
  <2>6. Told
    <3> SUFFICES ASSUME NEW q \in Publishers PROVE ~(Len(frames'[q]) < Len(frames[q]))
      OBVIOUS
    <3>1. CASE q = p
      <4>1. Len(frames[p]) \in Nat /\ Len(frames'[q]) = Len(frames[p]) + 1
        BY <1>0, <2>3, <2>4, <3>1
      <4> QED BY <3>1, <4>1
    <3>2. CASE q # p
      BY <1>0, <2>4, <3>2
    <3> QED BY <3>1, <3>2
  <2>7. OnceIsDropped' /\ tokens' \in 0 .. Len(Offers) /\ (subscribed \cup spent)' \subseteq 1 .. tokens'
    BY <2>1 DEF BusInv, OnceIsDropped
  <2> QED BY <2>4, <2>5, <2>6, <2>7 DEF BusInv, Owes, IsFirst
<1>6. ASSUME NEW p \in Publishers, NEW t \in Token, PassOver(p, t) PROVE BusInv' /\ Told
  <2> DEFINE r == Inner(p).rest \ {t}
             o == Inner(p).owed \ {t}
             f == [Inner(p) EXCEPT !.rest = r, !.owed = o]
  <2>1. /\ Publishing(p) /\ ~Inner(p).inside /\ Becomes(p, f) /\ UNCHANGED <<tokens, spent>>
        /\ subscribed' \subseteq subscribed
    BY <1>6 DEF PassOver, ComesTo, Without
  <2>2. /\ Inner(p) \in Frame /\ Inner(p).owed = Inner(p).rest /\ Inner(p).rest \subseteq 1 .. tokens
        /\ Inner(p).rest \subseteq Token
    BY <2>1, InnerFrame DEF Owes
  <2>3. r \subseteq Token /\ o = r /\ r \subseteq 1 .. tokens
    BY <2>2
  <2> HIDE DEF r, o
  <2>4. f \in Frame /\ f.rest = r /\ f.owed = o /\ ~f.inside /\ Owes(f)
    BY <2>1, <2>2, <2>3 DEF Frame, Owes
  <2> HIDE DEF f
  <2>5. /\ frames' \in [Publishers -> Seq(Frame)]
        /\ \A q \in Publishers : Len(frames'[q]) = Len(frames[q])
        /\ \A q \in Publishers : \A i \in DOMAIN frames'[q] :
              /\ frames'[q][i].owed \subseteq frames'[q][i].rest
              /\ frames'[q][i].rest \subseteq 1 .. tokens'
              /\ Owes(frames'[q][i])
    BY <2>1, <2>3, <2>4, InnerChanges
  <2>6. OnceIsDropped' /\ tokens' \in 0 .. Len(Offers) /\ (subscribed \cup spent)' \subseteq 1 .. tokens'
    BY <2>1 DEF BusInv, OnceIsDropped
  <2>8. \A q \in Publishers : ~(Len(frames'[q]) < Len(frames[q]))
    BY <1>0, <2>5
  <2> QED BY <2>5, <2>6, <2>8 DEF BusInv, Owes, IsFirst
<1>7. ASSUME NEW p \in Publishers, NEW t \in Token, CallHandler(p, t) PROVE BusInv' /\ Told
  <2> DEFINE o == Inner(p).owed \ {t}
             f == [Inner(p) EXCEPT !.inside = TRUE, !.owed = o]
  <2>1. /\ Publishing(p) /\ IsFirst(t, Inner(p).rest) /\ Becomes(p, f) /\ UNCHANGED <<tokens, spent, subscribed>>
        /\ ~Inner(p).inside
    BY <1>7 DEF CallHandler, ComesTo
  <2>2. /\ Inner(p) \in Frame /\ Inner(p).owed = Inner(p).rest /\ Inner(p).rest \subseteq 1 .. tokens
        /\ Inner(p).rest \subseteq Token
    BY <2>1, InnerFrame DEF Owes
  <2>3. o = Inner(p).rest \ {t} /\ o \subseteq Token
    BY <2>2
  <2> HIDE DEF o
  <2>4. f \in Frame /\ f.rest = Inner(p).rest /\ f.owed = o /\ f.inside
    BY <2>2, <2>3 DEF Frame
  <2> HIDE DEF f
  <2>5. Owes(f)
    BY <2>1, <2>2, <2>3, <2>4, OneFirst DEF Owes
  <2>6. /\ frames' \in [Publishers -> Seq(Frame)]
        /\ \A q \in Publishers : Len(frames'[q]) = Len(frames[q])
        /\ \A q \in Publishers : \A i \in DOMAIN frames'[q] :
              /\ frames'[q][i].owed \subseteq frames'[q][i].rest
              /\ frames'[q][i].rest \subseteq 1 .. tokens'
              /\ Owes(frames'[q][i])
    BY <2>1, <2>2, <2>3, <2>4, <2>5, InnerChanges
  <2>7. OnceIsDropped' /\ tokens' \in 0 .. Len(Offers) /\ (subscribed \cup spent)' \subseteq 1 .. tokens'
    BY <2>1 DEF BusInv, OnceIsDropped
  <2>8. \A q \in Publishers : ~(Len(frames'[q]) < Len(frames[q]))
    BY <1>0, <2>6
  <2> QED BY <2>6, <2>7, <2>8 DEF BusInv, Owes, IsFirst
<1>8. ASSUME NEW p \in Publishers, NEW t \in Token, NEW fails \in BOOLEAN, HandlerReturns(p, t, fails)
      PROVE  BusInv' /\ Told
  <2> DEFINE r == Inner(p).rest \ {t}
             f == [Inner(p) EXCEPT !.inside = FALSE, !.rest = r]
  <2>1. /\ Publishing(p) /\ Inner(p).inside /\ IsFirst(t, Inner(p).rest) /\ Becomes(p, f) /\ UNCHANGED tokens
    BY <1>8 DEF HandlerReturns, GoesOn
  <2>2. /\ Inner(p) \in Frame /\ Inner(p).owed \subseteq Inner(p).rest /\ Inner(p).rest \subseteq 1 .. tokens
        /\ Inner(p).rest \subseteq Token /\ t \in 1 .. tokens
    BY <2>1, InnerFrame DEF IsFirst
  <2>3. r \subseteq Token /\ Inner(p).owed = r /\ r \subseteq 1 .. tokens
    BY <2>1, <2>2, InnerFrame DEF Owes
  <2> HIDE DEF r
  <2>4. f \in Frame /\ f.rest = r /\ f.owed = Inner(p).owed /\ ~f.inside /\ Owes(f)
    BY <2>2, <2>3 DEF Frame, Owes
  <2> HIDE DEF f
  <2>5. /\ frames' \in [Publishers -> Seq(Frame)]
        /\ \A q \in Publishers : Len(frames'[q]) = Len(frames[q])
        /\ \A q \in Publishers : \A i \in DOMAIN frames'[q] :
              /\ frames'[q][i].owed \subseteq frames'[q][i].rest
              /\ frames'[q][i].rest \subseteq 1 .. tokens'
              /\ Owes(frames'[q][i])
    BY <2>1, <2>3, <2>4, InnerChanges
  <2>6. /\ Offers[t].once => subscribed' = subscribed \ {t} /\ spent' = spent \cup {t}
        /\ ~Offers[t].once => subscribed' = subscribed /\ spent' = spent
    BY <1>8 DEF HandlerReturns, Without, Drops
  <2>7. OnceIsDropped' /\ tokens' \in 0 .. Len(Offers) /\ (subscribed \cup spent)' \subseteq 1 .. tokens'
    BY <2>1, <2>2, <2>6 DEF BusInv, OnceIsDropped
  <2>8. \A q \in Publishers : ~(Len(frames'[q]) < Len(frames[q]))
    BY <1>0, <2>5
  <2> QED BY <2>5, <2>7, <2>8 DEF BusInv, Owes, IsFirst
<1>9. ASSUME NEW p \in Publishers, PublishReturns(p) \/ \E t \in Token : PredicateRaises(p, t)
      PROVE  BusInv' /\ Told
  <2> DEFINE s == Front(frames[p])
  <2>1. /\ Publishing(p) /\ frames' = [frames EXCEPT ![p] = s] /\ UNCHANGED <<tokens, spent, subscribed>>
    BY <1>9 DEF PublishReturns, PredicateRaises, ComesTo, Leaves
  <2>2. EndsWell(p)
    <3>1. CASE PublishReturns(p)
      <4>1. Inner(p).rest = {} /\ Inner(p).owed \subseteq Inner(p).rest
        BY <2>1, <3>1, InnerFrame DEF PublishReturns
      <4> QED BY <4>1 DEF EndsWell
    <3>2. ASSUME NEW t \in Token, PredicateRaises(p, t) PROVE EndsWell(p)
      <4>1. ~Inner(p).inside /\ IsFirst(t, Inner(p).rest) /\ Offers[t].filter
        BY <3>2 DEF PredicateRaises, ComesTo
      <4>2. Inner(p).owed = Inner(p).rest
        BY <2>1, <4>1, InnerFrame DEF Owes
      <4>3. t \in Inner(p).owed
        BY <4>1, <4>2 DEF IsFirst
      <4> QED BY <4>1, <4>2, <4>3 DEF EndsWell
    <3> QED BY <1>9, <3>1, <3>2
  <2>3. /\ s \in Seq(Frame) /\ \A i \in DOMAIN s : i \in DOMAIN frames[p] /\ s[i] = frames[p][i]
    BY <1>0, <2>1 DEF Publishing, Front
  <2> HIDE DEF s
  <2>4. /\ frames' \in [Publishers -> Seq(Frame)] /\ frames'[p] = s
        /\ \A q \in Publishers : q # p => frames'[q] = frames[q]
    BY <2>1, <2>3 DEF BusInv
  <2>5. Told
    <3> SUFFICES ASSUME NEW q \in Publishers, q # p PROVE ~(Len(frames'[q]) < Len(frames[q]))
      BY <2>2
    <3>1. frames'[q] = frames[q]
      BY <2>4
    <3> QED BY <1>0, <3>1
  <2>6. ASSUME NEW q \in Publishers, NEW i \in DOMAIN frames'[q]
        PROVE  /\ frames'[q][i].owed \subseteq frames'[q][i].rest
               /\ frames'[q][i].rest \subseteq 1 .. tokens'
               /\ Owes(frames'[q][i])
    <3>1. i \in DOMAIN frames[q] /\ frames'[q][i] = frames[q][i]
      BY <2>3, <2>4, <2>6
    <3> QED BY <2>1, <3>1 DEF BusInv
  <2>7. OnceIsDropped' /\ tokens' \in 0 .. Len(Offers) /\ (subscribed \cup spent)' \subseteq 1 .. tokens'
    BY <2>1 DEF BusInv, OnceIsDropped
  <2> QED BY <2>4, <2>5, <2>6, <2>7 DEF BusInv, Owes, IsFirst
<1> QED BY <1>1, <1>2, <1>3, <1>4, <1>5, <1>6, <1>7, <1>8, <1>9 DEF BusNext

\* Nobody has subscribed or published.
LEMMA BusStart ==
    ASSUME BusInit
    PROVE  BusInv
<1>1. \A p \in Publishers : frames[p] = <<>> /\ DOMAIN frames[p] = {}
  BY DEF BusInit
<1>2. frames \in [Publishers -> Seq(Frame)]
  BY DEF BusInit
<1>3. Len(Offers) \in Nat
  BY OffersAssumption
<1> QED BY <1>1, <1>2, <1>3 DEF BusInit, BusInv, OnceIsDropped

\* A "once" subscription is in no bucket after its first delivery, for any
\* number of publishers, subscriptions, events and failing handlers
\* (EventBus.publish_event).
THEOREM OnceIsDroppedAlways == BusSpec => []OnceIsDropped
<1>1. BusInit => BusInv
  BY BusStart
<1>2. BusInv /\ [BusNext]_busVars => BusInv'
  BY BusStep
<1>3. BusInv => OnceIsDropped
  BY DEF BusInv
<1> QED BY <1>1, <1>2, <1>3, PTL DEF BusSpec

\* A publication that ends has told everybody it matched, or has come to a
\* subscription with a predicate and told all that are ahead of it, for any number
\* of publishers and subscriptions, and however handlers publish, subscribe and
\* fail (EventBus.publish_event).
THEOREM OnlyPredicatesBreakOffAlways == BusSpec => OnlyPredicatesBreakOff
<1>1. BusInit => BusInv
  BY BusStart
<1>2. BusInv /\ [BusNext]_busVars => BusInv'
  BY BusStep
<1>3. BusInv /\ [BusNext]_busVars =>
          [\A p \in Publishers : Len(frames'[p]) < Len(frames[p]) =>
              LET owed == Inner(p).owed
              IN  owed = {} \/ \E t \in owed : IsFirst(t, owed) /\ Offers[t].filter]_busVars
  BY BusStep DEF EndsWell
<1> QED BY <1>1, <1>2, <1>3, PTL DEF BusSpec, OnlyPredicatesBreakOff

-----------------------------------------------------------------------------
(* TestRun: a run of all reports every step.                               *)

Outcome == [step : Nat, status : Status \cup {"CANCELLED", "SKIPPED"}]

\* The first n steps, executed; those after a cancelled one are cancelled too.
Reported(rs, n) ==
    /\ rs \in Seq(Outcome) /\ Len(rs) = n
    /\ \A k \in 1 .. n : /\ rs[k].step = k /\ rs[k].status # "SKIPPED"
                         /\ StopOnFailure => rs[k].status # "FAIL"
    /\ \A k \in 1 .. n - 1 : rs[k].status = "CANCELLED" => rs[k + 1].status = "CANCELLED"

Cancelled(rs) == \E k \in DOMAIN rs : rs[k].status = "CANCELLED"

\* The collector of a run of all that has it for itself.
OnCourse(row, rs, cancelled) ==
    /\ row.i \in 1 .. Steps + 1 /\ Reported(rs, row.i - 1)
    /\ row.pc # "next" => row.i <= Steps
    /\ Cancelled(rs) => cancelled /\ row.pc # "step"

Going == {"next", "ask", "step"}

Row == [pc : {"off", "enter", "ended", "told"} \cup Going, single : BOOLEAN, i : Nat]

TestInv ==
    /\ test \in [Test -> Row]
    /\ results \in Seq(Outcome) /\ sole \in [Test -> BOOLEAN]
    /\ \A t \in Test : test[t].pc = "enter" => test[t].i = 1 /\ ~test[t].single
    /\ \A t \in Test : sole[t] /\ ~test[t].single /\ test[t].pc \in Going => OnCourse(test[t], results, stop)

\* What a run of all that nobody disturbed has reported at its end.
Full(rs) ==
    /\ [k \in DOMAIN rs |-> rs[k].step] = [k \in 1 .. Steps |-> k]
    /\ \A k \in 1 .. Steps - 1 :
          rs[k].status \in {"CANCELLED", "SKIPPED"} => rs[k + 1].status = rs[k].status
    /\ \A k \in 2 .. Steps :
          rs[k].status = "SKIPPED" => StopOnFailure /\ \E j \in 1 .. k - 1 : rs[j].status = "FAIL"
    /\ \A k \in 1 .. Steps - 1 :
          StopOnFailure /\ rs[k].status = "FAIL" => rs[k + 1].status = "SKIPPED"

\* What is left out.
LEMMA RestFacts ==
    ASSUME NEW from \in 1 .. Steps + 1, NEW status \in {"CANCELLED", "SKIPPED"}
    PROVE  LET m == Steps + 1 - from IN
           /\ Rest(from, status) \in Seq(Outcome) /\ Len(Rest(from, status)) = m /\ m \in Nat
           /\ \A k \in 1 .. m : Rest(from, status)[k].step = from + k - 1 /\ Rest(from, status)[k].status = status
<1> DEFINE m == Steps + 1 - from
<1>1. m \in Nat /\ from \in Nat /\ from >= 1
  BY TestAssumption
<1>2. Rest(from, status) = [k \in 1 .. m |-> [step |-> from + k - 1, status |-> status]]
  BY DEF Rest
<1> HIDE DEF m
<1>3. \A k \in 1 .. m : [step |-> from + k - 1, status |-> status] \in Outcome
  BY <1>1 DEF Outcome
<1>4. [k \in 1 .. m |-> [step |-> from + k - 1, status |-> status]] \in Seq(Outcome)
  BY <1>1, <1>3
<1> QED BY <1>1, <1>2, <1>4 DEF m

Joined(rs, from, status) == rs \o Rest(from, status)

\* The results so far and what is left out, one after the other.
LEMMA JoinedFacts ==
    ASSUME NEW rs \in Seq(Outcome), NEW from \in 1 .. Steps + 1, Len(rs) = from - 1,
           NEW status \in {"CANCELLED", "SKIPPED"}
    PROVE  /\ DOMAIN Joined(rs, from, status) = 1 .. Steps
           /\ \A k \in 1 .. from - 1 : Joined(rs, from, status)[k] = rs[k]
           /\ \A k \in from .. Steps : /\ Joined(rs, from, status)[k].step = k
                                      /\ Joined(rs, from, status)[k].status = status
<1> DEFINE m == Steps + 1 - from
           r == Rest(from, status)
           all == rs \o r
<1>1. /\ r \in Seq(Outcome) /\ Len(r) = m /\ m \in Nat /\ from \in Nat /\ from >= 1 /\ Steps \in Nat
      /\ \A k \in 1 .. m : r[k].step = from + k - 1 /\ r[k].status = status
  <2>1. /\ r \in Seq(Outcome) /\ Len(r) = m /\ m \in Nat
        /\ \A k \in 1 .. m : r[k].step = from + k - 1 /\ r[k].status = status
    BY RestFacts
  <2> QED BY <2>1, TestAssumption
<1> HIDE DEF r
<1>2. all \in Seq(Outcome) /\ Len(all) = Len(rs) + Len(r)
  <2>1. r \in Seq(Outcome)
    BY <1>1
  <2> QED BY <2>1
<1>3. Len(all) = Steps
  BY <1>1, <1>2
<1>4. DOMAIN all = 1 .. Steps
  <2> HIDE DEF all
  <2> QED BY <1>1, <1>2, <1>3
<1>5. ASSUME NEW k \in 1 .. from - 1 PROVE all[k] = rs[k]
  <2>1. r \in Seq(Outcome)
    BY <1>1
  <2>2. k \in 1 .. Len(rs)
    OBVIOUS
  <2> QED BY <2>1, <2>2
<1>6. ASSUME NEW k \in from .. Steps
      PROVE  all[k].step = k /\ all[k].status = status
  <2>1. k \in Nat /\ from \in Nat /\ from >= 1 /\ from <= k /\ k <= Steps /\ Steps \in Nat
    BY <1>1
  <2>2. PICK j \in Nat : j = k - (from - 1) /\ j >= 1 /\ j <= m /\ from + j - 1 = k /\ k - (from - 1) = j
    BY <2>1
  <2>3. r[j].step = k /\ r[j].status = status
    <3>1. j \in 1 .. m
      BY <2>2
    <3> HIDE DEF m
    <3>2. r[j].step = from + j - 1 /\ r[j].status = status
      BY <1>1, <3>1
    <3> QED BY <2>2, <3>2
  <2>4. all[k] = r[k - Len(rs)]
    <3>1. rs \in Seq(Outcome) /\ Len(rs) \in Nat /\ Len(rs) < k
      BY <2>1
    <3>2. r \in Seq(Outcome) /\ k <= Len(rs) + Len(r)
      BY <1>1, <2>1
    <3> QED BY <2>1, <3>1, <3>2
  <2>5. all[k] = r[j]
    BY <2>2, <2>4
  <2> HIDE DEF all
  <2> QED BY <2>3, <2>5
<1> QED BY <1>4, <1>5, <1>6 DEF r, Joined

\* One more step is reported.
LEMMA OneMore ==
    ASSUME NEW rs, NEW n \in Nat, Reported(rs, n), NEW status \in Status \cup {"CANCELLED"},
           StopOnFailure => status # "FAIL", Cancelled(rs) => status = "CANCELLED"
    PROVE  LET more == Append(rs, [step |-> n + 1, status |-> status]) IN
           /\ Reported(more, n + 1)
           /\ Cancelled(more) => status = "CANCELLED"
<1> DEFINE x == [step |-> n + 1, status |-> status]
           more == Append(rs, x)
<1>1. x \in Outcome /\ x.step = n + 1 /\ x.status = status /\ status # "SKIPPED"
  BY DEF Outcome, Status
<1> HIDE DEF x
<1>2. rs \in Seq(Outcome) /\ Len(rs) = n
  BY DEF Reported
<1>3. /\ more \in Seq(Outcome) /\ Len(more) = n + 1 /\ DOMAIN more = 1 .. n + 1
      /\ \A k \in 1 .. n : more[k] = rs[k]
      /\ more[n + 1] = x
  BY <1>1, <1>2
<1> HIDE DEF more
<1>4. ASSUME NEW k \in 1 .. n + 1
      PROVE  /\ more[k].step = k /\ more[k].status # "SKIPPED"
             /\ StopOnFailure => more[k].status # "FAIL"
  <2>1. CASE k \in 1 .. n
    BY <1>3, <2>1 DEF Reported
  <2>2. CASE k = n + 1
    BY <1>1, <1>3, <2>2
  <2> QED BY <2>1, <2>2
<1>5. ASSUME NEW k \in 1 .. n, more[k].status = "CANCELLED"
      PROVE  more[k + 1].status = "CANCELLED"
  <2>1. CASE k \in 1 .. n - 1
    <3>1. k \in 1 .. n /\ k + 1 \in 1 .. n
      BY <2>1
    <3> QED BY <1>3, <1>5, <2>1, <3>1 DEF Reported
  <2>2. CASE k = n
    <3>1. k \in DOMAIN rs /\ rs[k].status = "CANCELLED"
      BY <1>2, <1>3, <1>5
    <3>2. status = "CANCELLED"
      BY <3>1 DEF Cancelled
    <3> QED BY <1>1, <1>3, <2>2, <3>2
  <2> QED BY <2>1, <2>2
<1>6. n + 1 - 1 = n
  OBVIOUS
<1>7. Reported(more, n + 1)
  BY <1>3, <1>4, <1>5, <1>6 DEF Reported
<1>8. Cancelled(more) => status = "CANCELLED"
  <2> SUFFICES ASSUME NEW k \in 1 .. n + 1, more[k].status = "CANCELLED" PROVE status = "CANCELLED"
    BY <1>3 DEF Cancelled
  <2>1. CASE k \in 1 .. n
    <3>1. k \in DOMAIN rs /\ rs[k].status = "CANCELLED"
      BY <1>2, <1>3, <2>1
    <3> QED BY <3>1 DEF Cancelled
  <2>2. CASE k = n + 1
    BY <1>1, <1>3, <2>2
  <2> QED BY <2>1, <2>2
<1> QED BY <1>7, <1>8 DEF more, x

\* Every step was executed, or was passed over when the run was cancelled.
LEMMA FullAtEnd ==
    ASSUME NEW rs, Reported(rs, Steps)
    PROVE  Full(rs)
<1>1. rs \in Seq(Outcome) /\ DOMAIN rs = 1 .. Steps /\ Steps \in Nat
  BY TestAssumption DEF Reported
<1>2. \A k \in 1 .. Steps : rs[k].step = k /\ rs[k].status # "SKIPPED" /\ (StopOnFailure => rs[k].status # "FAIL")
  BY DEF Reported
<1>3. [k \in DOMAIN rs |-> rs[k].step] = [k \in 1 .. Steps |-> k]
  BY <1>1, <1>2
<1>4. \A k \in 1 .. Steps - 1 : k \in 1 .. Steps
  BY <1>1
<1>5. \A k \in 2 .. Steps : k \in 1 .. Steps
  BY <1>1
<1> QED BY <1>2, <1>3, <1>4, <1>5 DEF Full, Reported

\* The rest of a cancelled run is cancelled.
LEMMA FullWhenCancelled ==
    ASSUME NEW rs, NEW i \in 1 .. Steps + 1, Reported(rs, i - 1)
    PROVE  Full(rs \o LeftOver(i))
<1> DEFINE all == rs \o LeftOver(i)
<1>1. /\ DOMAIN all = 1 .. Steps /\ Steps \in Nat /\ i \in Nat /\ i >= 1
      /\ \A k \in 1 .. i - 1 : all[k] = rs[k]
      /\ \A k \in i .. Steps : all[k].step = k /\ all[k].status = "CANCELLED"
  <2>1. i \in Nat /\ i >= 1 /\ Steps \in Nat
    BY TestAssumption
  <2>2. rs \in Seq(Outcome) /\ Len(rs) = i - 1 /\ "CANCELLED" \in {"CANCELLED", "SKIPPED"}
    BY DEF Reported
  <2>3. /\ DOMAIN Joined(rs, i, "CANCELLED") = 1 .. Steps
        /\ \A k \in 1 .. i - 1 : Joined(rs, i, "CANCELLED")[k] = rs[k]
        /\ \A k \in i .. Steps : /\ Joined(rs, i, "CANCELLED")[k].step = k
                                 /\ Joined(rs, i, "CANCELLED")[k].status = "CANCELLED"
    BY <2>2, JoinedFacts
  <2> QED BY <2>1, <2>3 DEF LeftOver, Joined
<1> HIDE DEF all
<1>2. \A k \in 1 .. Steps : k \in 1 .. i - 1 \/ k \in i .. Steps
  BY <1>1
<1>3. \A k \in 1 .. i - 1 : /\ all[k].step = k /\ all[k].status # "SKIPPED"
                            /\ StopOnFailure => all[k].status # "FAIL"
  BY <1>1 DEF Reported
<1>4. [k \in DOMAIN all |-> all[k].step] = [k \in 1 .. Steps |-> k]
  BY <1>1, <1>2, <1>3
<1>5. \A k \in 1 .. Steps : all[k].status # "SKIPPED" /\ (StopOnFailure => all[k].status # "FAIL")
  BY <1>1, <1>2, <1>3
<1>6. ASSUME NEW k \in 1 .. Steps - 1, all[k].status = "CANCELLED" PROVE all[k + 1].status = "CANCELLED"
  <2>1. CASE k + 1 \in i .. Steps
    BY <1>1, <2>1
  <2>2. CASE k \in 1 .. i - 1 - 1
    <3>1. k \in 1 .. i - 1 /\ k + 1 \in 1 .. i - 1
      BY <1>1, <2>2
    <3> QED BY <1>1, <1>6, <2>2, <3>1 DEF Reported
  <2> QED BY <1>1, <2>1, <2>2
<1>7. \A k \in 1 .. Steps - 1 : k \in 1 .. Steps
  BY <1>1
<1>8. \A k \in 2 .. Steps : k \in 1 .. Steps
  BY <1>1
<1> QED BY <1>4, <1>5, <1>6, <1>7, <1>8 DEF Full, all

\* The rest of a run that stops at a failure is skipped.
LEMMA FullWhenFailed ==
    ASSUME NEW rs, NEW i \in 1 .. Steps, Reported(rs, i - 1), ~Cancelled(rs), StopOnFailure
    PROVE  Full(Append(rs, [step |-> i, status |-> "FAIL"]) \o Rest(i + 1, "SKIPPED"))
<1> DEFINE x == [step |-> i, status |-> "FAIL"]
           more == Append(rs, x)
           all == more \o Rest(i + 1, "SKIPPED")
<1>1. rs \in Seq(Outcome) /\ Len(rs) = i - 1 /\ i \in Nat /\ i >= 1 /\ Steps \in Nat /\ i <= Steps
  BY TestAssumption DEF Reported
<1>2. x \in Outcome /\ x.step = i /\ x.status = "FAIL"
  BY <1>1 DEF Outcome, Status
<1> HIDE DEF x
<1>3. more \in Seq(Outcome) /\ Len(more) = i /\ more[i] = x /\ \A k \in 1 .. i - 1 : more[k] = rs[k]
  BY <1>1, <1>2
<1> HIDE DEF more
<1>4. /\ DOMAIN all = 1 .. Steps
      /\ \A k \in 1 .. i : all[k] = more[k]
      /\ \A k \in i + 1 .. Steps : all[k].step = k /\ all[k].status = "SKIPPED"
  <2>1. PICK from \in 1 .. Steps + 1 : from = i + 1 /\ from - 1 = i
    BY <1>1
  <2>2. Len(more) = from - 1 /\ more \in Seq(Outcome)
    BY <1>3, <2>1
  <2>3. /\ DOMAIN Joined(more, from, "SKIPPED") = 1 .. Steps
        /\ \A k \in 1 .. from - 1 : Joined(more, from, "SKIPPED")[k] = more[k]
        /\ \A k \in from .. Steps : /\ Joined(more, from, "SKIPPED")[k].step = k
                                    /\ Joined(more, from, "SKIPPED")[k].status = "SKIPPED"
    <3>1. "SKIPPED" \in {"CANCELLED", "SKIPPED"}
      OBVIOUS
    <3> QED BY <2>2, <3>1, JoinedFacts
  <2> QED BY <2>1, <2>3 DEF Joined
<1> HIDE DEF all
<1>5. \A k \in 1 .. i - 1 : all[k] = rs[k] /\ k \in 1 .. i
  BY <1>1, <1>3, <1>4
<1>6. all[i].step = i /\ all[i].status = "FAIL"
  BY <1>1, <1>2, <1>3, <1>4
<1>7. \A k \in 1 .. Steps : k \in 1 .. i - 1 \/ k = i \/ k \in i + 1 .. Steps
  BY <1>1
<1>8. \A k \in 1 .. i - 1 : /\ all[k].step = k
                            /\ all[k].status \notin {"SKIPPED", "CANCELLED", "FAIL"}
  <2>1. \A k \in 1 .. i - 1 : k \in DOMAIN rs
    BY <1>1
  <2> QED BY <1>5, <2>1 DEF Reported, Cancelled
<1>9. [k \in DOMAIN all |-> all[k].step] = [k \in 1 .. Steps |-> k]
  BY <1>4, <1>6, <1>7, <1>8
<1>10. ASSUME NEW k \in 1 .. Steps, all[k].status \in {"CANCELLED", "SKIPPED"}
       PROVE  k \in i + 1 .. Steps /\ all[k].status = "SKIPPED"
  BY <1>4, <1>6, <1>7, <1>8, <1>10
<1>11. ASSUME NEW k \in 1 .. Steps, all[k].status = "FAIL"
       PROVE  k = i
  BY <1>4, <1>6, <1>7, <1>8, <1>11
<1>12. \A k \in 1 .. Steps - 1 : all[k].status \in {"CANCELLED", "SKIPPED"} => all[k + 1].status = all[k].status
  <2> SUFFICES ASSUME NEW k \in 1 .. Steps - 1, all[k].status \in {"CANCELLED", "SKIPPED"}
               PROVE  all[k + 1].status = all[k].status
    OBVIOUS
  <2>1. k \in 1 .. Steps
    BY <1>1
  <2>2. k \in i + 1 .. Steps /\ all[k].status = "SKIPPED"
    BY <1>10, <2>1
  <2>3. k + 1 \in i + 1 .. Steps
    BY <1>1, <2>2
  <2> QED BY <1>4, <2>2, <2>3
<1>13. \A k \in 2 .. Steps : all[k].status = "SKIPPED" => StopOnFailure /\ \E j \in 1 .. k - 1 : all[j].status = "FAIL"
  <2> SUFFICES ASSUME NEW k \in 2 .. Steps, all[k].status = "SKIPPED"
               PROVE  \E j \in 1 .. k - 1 : all[j].status = "FAIL"
    OBVIOUS
  <2>1. k \in 1 .. Steps
    BY <1>1
  <2>2. k \in i + 1 .. Steps
    BY <1>10, <2>1
  <2>3. i \in 1 .. k - 1
    BY <1>1, <2>2
  <2> QED BY <1>6, <2>3
<1>14. \A k \in 1 .. Steps - 1 : all[k].status = "FAIL" => all[k + 1].status = "SKIPPED"
  <2> SUFFICES ASSUME NEW k \in 1 .. Steps - 1, all[k].status = "FAIL" PROVE all[k + 1].status = "SKIPPED"
    OBVIOUS
  <2>1. k \in 1 .. Steps
    BY <1>1
  <2>2. k = i
    BY <1>11, <2>1
  <2>3. k + 1 \in i + 1 .. Steps
    BY <1>1, <2>2
  <2> QED BY <1>4, <2>3
<1> QED BY <1>9, <1>12, <1>13, <1>14 DEF Full, all, more, x

\* A step of thread t: what the invariant asks of it.
LEMMA TestFrame ==
    ASSUME TestInv, NEW t \in Test, NEW row \in Row, test' = [test EXCEPT ![t] = row],
           results' \in Seq(Outcome), sole' \in [Test -> BOOLEAN],
           row.pc = "enter" => row.i = 1 /\ ~row.single,
           sole'[t] /\ ~row.single /\ row.pc \in Going => OnCourse(row, results', stop'),
           \/ results' = results /\ sole' = sole /\ (stop => stop')
           \/ \A u \in Test \ {t} : ~sole'[u]
    PROVE  TestInv'
<1>1. test' \in [Test -> Row] /\ test'[t] = row /\ \A u \in Test \ {t} : test'[u] = test[u]
  BY DEF TestInv
<1>2. \A u \in Test : test'[u].pc = "enter" => test'[u].i = 1 /\ ~test'[u].single
  BY <1>1 DEF TestInv
<1>3. ASSUME NEW u \in Test, sole'[u] /\ ~test'[u].single /\ test'[u].pc \in Going
      PROVE  OnCourse(test'[u], results', stop')
  <2>1. CASE u = t
    BY <1>1, <1>3, <2>1
  <2>2. CASE u # t
    <3>1. test'[u] = test[u] /\ results' = results /\ sole[u] /\ (stop => stop')
      BY <1>1, <1>3, <2>2
    <3>2. OnCourse(test[u], results, stop)
      BY <1>3, <3>1 DEF TestInv
    <3> QED BY <3>1, <3>2 DEF OnCourse
  <2> QED BY <2>1, <2>2
<1> QED BY <1>1, <1>2, <1>3 DEF TestInv

\* What the property says of thread t.
EndsFull(t) == test'[t].pc = "ended" /\ ~test[t].single /\ sole[t] => Full(results')

\* Writing to the collector.
LEMMA WritesFacts ==
    ASSUME TestInv, NEW t \in Test, NEW entered \in BOOLEAN, Writes(t, entered)
    PROVE  /\ sole' \in [Test -> BOOLEAN] /\ \A u \in Test \ {t} : ~sole'[u]
           /\ sole'[t] = (sole[t] \/ entered)
BY DEF Writes, TestInv

\* Only the row of thread t changes.
LEMMA RowFacts ==
    ASSUME TestInv, NEW t \in Test, NEW pc \in {"off", "enter", "ended", "told"} \cup Going, Goes(t, pc)
    PROVE  \E row \in Row : /\ test' = [test EXCEPT ![t] = row]
                            /\ row.pc = pc /\ row.single = test[t].single /\ row.i = test[t].i
<1>1. test[t] \in Row
  BY DEF TestInv
<1>2. [test[t] EXCEPT !.pc = pc] \in Row
  BY <1>1 DEF Row
<1> QED BY <1>1, <1>2 DEF Goes, TestInv, Row

\* What is skipped after a failure is a sequence of results.
LEMMA SkippedRest ==
    ASSUME NEW i \in Nat
    PROVE  Rest(i + 1, "SKIPPED") \in Seq(Outcome)
<1>1. PICK from \in Nat : from = i + 1 /\ from >= 1
  OBVIOUS
<1>2. PICK m \in Int : m = Steps + 1 - from
  BY TestAssumption
<1>3. Rest(from, "SKIPPED") = [k \in 1 .. m |-> [step |-> from + k - 1, status |-> "SKIPPED"]]
  BY <1>2 DEF Rest
<1>4. \A k \in 1 .. m : [step |-> from + k - 1, status |-> "SKIPPED"] \in Outcome
  BY <1>1, <1>2 DEF Outcome
<1>5. [k \in 1 .. m |-> [step |-> from + k - 1, status |-> "SKIPPED"]] \in Seq(Outcome)
  <2>1. CASE m \in Nat
    BY <1>4, <2>1
  <2>2. CASE m < 0
    <3>1. [k \in 1 .. m |-> [step |-> from + k - 1, status |-> "SKIPPED"]] = << >>
      BY <1>2, <2>2
    <3> QED BY <3>1
  <2> QED BY <2>1, <2>2
<1> QED BY <1>1, <1>3, <1>5

\* A step is recorded.
LEMMA RecordKept ==
    ASSUME TestInv, NEW t \in Test, NEW status \in Status \cup {"CANCELLED"},
           test[t].pc \in {"ask", "step"}, Record(t, status), stop' = stop,
           status = "CANCELLED" => stop, status # "CANCELLED" => test[t].pc = "step"
    PROVE  TestInv' /\ EndsFull(t) /\ \A u \in Test \ {t} : test'[u] = test[u]
<1>1. PICK i \in Nat : i = test[t].i
  BY DEF TestInv, Row
<1> DEFINE mine == [step |-> i, status |-> status]
<1>2. mine \in Outcome
  BY <1>1 DEF Outcome
<1>3. Append(results, mine) \in Seq(Outcome)
  BY <1>2 DEF TestInv
<1>4. /\ sole' \in [Test -> BOOLEAN] /\ \A u \in Test \ {t} : ~sole'[u]
      /\ sole'[t] = sole[t]
  <2>1. Writes(t, FALSE)
    BY DEF Record
  <2>2. sole'[t] = (sole[t] \/ FALSE)
    BY <2>1, WritesFacts
  <2>3. sole[t] \in BOOLEAN
    BY DEF TestInv
  <2> QED BY <2>1, <2>2, <2>3, WritesFacts
<1>5. CASE test[t].single
  <2>1. Goes(t, "ended") /\ results' = Append(results, mine)
    BY <1>1, <1>5 DEF Record
  <2>2. PICK row \in Row : /\ test' = [test EXCEPT ![t] = row]
                           /\ row.pc = "ended"
    <3>1. "ended" \in {"off", "enter", "ended", "told"} \cup Going
      OBVIOUS
    <3> QED BY <2>1, <3>1, RowFacts
  <2>3. TestInv'
    BY <1>3, <1>4, <2>1, <2>2, TestFrame DEF Going
  <2> QED BY <1>5, <2>2, <2>3 DEF EndsFull, TestInv
<1>6. ASSUME ~test[t].single, sole[t]
      PROVE  /\ i \in 1 .. Steps /\ Reported(results, i - 1)
             /\ Cancelled(results) => status = "CANCELLED"
  <2>1. OnCourse(test[t], results, stop)
    BY <1>6 DEF TestInv, Going
  <2> QED BY <1>1, <2>1, TestAssumption DEF OnCourse
<1>7. CASE ~test[t].single /\ StopOnFailure /\ status = "FAIL"
  <2>1. Goes(t, "ended") /\ results' = Append(results, mine) \o Rest(i + 1, "SKIPPED")
    BY <1>1, <1>7 DEF Record
  <2>2. PICK row \in Row : /\ test' = [test EXCEPT ![t] = row]
                           /\ row.pc = "ended"
    <3>1. "ended" \in {"off", "enter", "ended", "told"} \cup Going
      OBVIOUS
    <3> QED BY <2>1, <3>1, RowFacts
  <2>3. ASSUME sole[t] PROVE Full(results')
    <3>1. i \in 1 .. Steps /\ Reported(results, i - 1) /\ ~Cancelled(results)
      BY <1>6, <1>7, <2>3
    <3> QED BY <1>7, <2>1, <3>1, FullWhenFailed
  <2>4. results' \in Seq(Outcome)
    <3> DEFINE r == Rest(i + 1, "SKIPPED")
    <3>1. r \in Seq(Outcome)
      BY SkippedRest
    <3> HIDE DEF r, mine
    <3> QED BY <1>3, <2>1, <3>1 DEF mine, r
  <2>5. TestInv'
    BY <1>4, <2>2, <2>4, TestFrame DEF Going
  <2> QED BY <2>2, <2>3, <2>5 DEF EndsFull, TestInv
<1>8. CASE ~test[t].single /\ ~(StopOnFailure /\ status = "FAIL")
  <2>1. /\ test' = [test EXCEPT ![t] = [test[t] EXCEPT !.pc = "next", !.i = i + 1]]
        /\ results' = Append(results, mine)
    BY <1>1, <1>8 DEF Record, TestInv, Row
  <2>2. PICK row \in Row : /\ test' = [test EXCEPT ![t] = row]
                           /\ row.pc = "next" /\ row.i = i + 1
    <3>1. test[t] \in Row /\ "next" \in Going /\ i + 1 \in Nat
      BY <1>1 DEF TestInv, Going
    <3>2. PICK n \in Nat : n = i + 1
      BY <3>1
    <3>3. /\ [test[t] EXCEPT !.pc = "next", !.i = n] \in Row
          /\ [test[t] EXCEPT !.pc = "next", !.i = n].pc = "next"
          /\ [test[t] EXCEPT !.pc = "next", !.i = n].i = n
      BY <3>1 DEF Row
    <3> QED BY <2>1, <3>2, <3>3
  <2>3. ASSUME sole'[t] PROVE OnCourse(row, results', stop')
    <3>1. i \in 1 .. Steps /\ Reported(results, i - 1) /\ (Cancelled(results) => status = "CANCELLED")
      BY <1>4, <1>6, <1>8, <2>3
    <3>2. PICK n \in Nat : n = i - 1 /\ n + 1 = i /\ i + 1 \in 1 .. Steps + 1 /\ (i + 1) - 1 = i
      BY <3>1, TestAssumption
    <3>3. Reported(results, n)
      BY <3>1, <3>2
    <3>4. LET more == Append(results, [step |-> n + 1, status |-> status]) IN
          /\ Reported(more, n + 1)
          /\ Cancelled(more) => status = "CANCELLED"
      BY <1>8, <3>1, <3>3, OneMore
    <3>5. Reported(results', i) /\ (Cancelled(results') => status = "CANCELLED")
      BY <2>1, <3>2, <3>4
    <3> QED BY <2>2, <3>2, <3>5 DEF OnCourse
  <2>4. TestInv'
    BY <1>3, <1>4, <2>1, <2>2, <2>3, TestFrame
  <2> QED BY <2>2, <2>4 DEF EndsFull, TestInv
<1> QED BY <1>5, <1>7, <1>8

\* Pressing Run or Run All.
LEMMA PressRunKept ==
    ASSUME TestInv, NEW single \in BOOLEAN, PressRun(single)
    PROVE  TestInv' /\ \A u \in Test : test'[u].pc = "ended" => test[u].pc = "ended"
<1>1. PICK k : k = Newest + 1
  OBVIOUS
<1>2. PICK row : row = [NewTest EXCEPT !.pc = IF single THEN "ask" ELSE "enter", !.single = single]
  OBVIOUS
<1>3. row = [pc |-> IF single THEN "ask" ELSE "enter", single |-> single, i |-> 1]
  BY <1>2 DEF NewTest
<1>4. row \in Row /\ (row.pc = "enter" => row.i = 1 /\ ~row.single) /\ (~row.single => row.pc = "enter")
  BY <1>3 DEF Row, Going
<1>5. test' = [test EXCEPT ![k] = row] /\ UNCHANGED <<stop, results, sole>>
  BY <1>1, <1>2 DEF PressRun
<1>6. CASE k \in Test
  <2>1. TestInv'
    BY <1>4, <1>5, <1>6, TestFrame DEF TestInv, Going
  <2>2. row.pc # "ended"
    BY <1>3
  <2> QED BY <1>5, <1>6, <2>1, <2>2 DEF TestInv
<1>7. CASE k \notin Test
  <2>1. test' = test
    BY <1>5, <1>7 DEF TestInv
  <2> QED BY <1>5, <2>1 DEF TestInv
<1> QED BY <1>6, <1>7

\* Entering execute_all.
LEMMA EnterKept ==
    ASSUME TestInv, NEW t \in Test, Enter(t)
    PROVE  TestInv' /\ \A u \in Test : test'[u].pc = "ended" => test[u].pc = "ended"
<1>1. Goes(t, "next") /\ results' = << >> /\ Writes(t, TRUE) /\ test[t].pc = "enter"
  BY DEF Enter, At
<1>2. PICK row \in Row : /\ test' = [test EXCEPT ![t] = row]
                         /\ row.pc = "next" /\ row.i = test[t].i
  BY <1>1, RowFacts DEF Going
<1>3. row.i = 1
  BY <1>1, <1>2 DEF TestInv
<1>4. sole' \in [Test -> BOOLEAN] /\ \A u \in Test \ {t} : ~sole'[u]
  BY <1>1, WritesFacts
<1>5. << >> \in Seq(Outcome) /\ Len(<< >>) = 0 /\ DOMAIN << >> = {}
  OBVIOUS
<1>6. Reported(<< >>, 1 - 1) /\ ~Cancelled(<< >>)
  BY <1>5 DEF Reported, Cancelled
<1>7. OnCourse(row, results', stop')
  BY <1>1, <1>2, <1>3, <1>6, TestAssumption DEF OnCourse
<1>8. TestInv'
  BY <1>1, <1>2, <1>4, <1>5, <1>7, TestFrame
<1> QED BY <1>2, <1>8 DEF TestInv

\* Looking at the next step of a run of all.
LEMMA NextTestKept ==
    ASSUME TestInv, NEW t \in Test, NextTest(t)
    PROVE  TestInv' /\ EndsFull(t) /\ \A u \in Test \ {t} : test'[u] = test[u]
<1>1. PICK i \in Nat : i = test[t].i
  BY DEF TestInv, Row
<1>2. test[t].pc = "next" /\ stop' = stop
  BY DEF NextTest, At
<1>3. ASSUME ~test[t].single, sole[t]
      PROVE  /\ i \in 1 .. Steps + 1 /\ Reported(results, i - 1) /\ (Cancelled(results) => stop)
  BY <1>1, <1>2, <1>3 DEF TestInv, OnCourse, Going
<1>4. CASE i > Steps
  <2>1. Goes(t, "ended") /\ results' = results /\ sole' = sole
    BY <1>1, <1>4 DEF NextTest
  <2>2. PICK row \in Row : test' = [test EXCEPT ![t] = row] /\ row.pc = "ended"
    <3>1. "ended" \in {"off", "enter", "ended", "told"} \cup Going
      OBVIOUS
    <3> QED BY <2>1, <3>1, RowFacts
  <2>3. TestInv'
    BY <1>2, <2>1, <2>2, TestFrame DEF Going, TestInv
  <2>4. ASSUME ~test[t].single, sole[t] PROVE Full(results')
    <3>1. Reported(results, i - 1) /\ i - 1 = Steps
      BY <1>3, <1>4, <2>4, TestAssumption
    <3> QED BY <2>1, <3>1, FullAtEnd
  <2> QED BY <2>2, <2>3, <2>4 DEF EndsFull, TestInv
<1>5. CASE ~(i > Steps) /\ stop
  <2>1. Goes(t, "ended") /\ results' = results \o LeftOver(i) /\ Writes(t, FALSE)
    BY <1>1, <1>5 DEF NextTest
  <2>2. PICK row \in Row : test' = [test EXCEPT ![t] = row] /\ row.pc = "ended"
    <3>1. "ended" \in {"off", "enter", "ended", "told"} \cup Going
      OBVIOUS
    <3> QED BY <2>1, <3>1, RowFacts
  <2>3. results' \in Seq(Outcome)
    <3>1. PICK m \in Nat : m = Steps + 1 - i
      BY <1>5, TestAssumption
    <3>2. \A k \in 1 .. m : [step |-> i + k - 1, status |-> "CANCELLED"] \in Outcome
      BY DEF Outcome
    <3> DEFINE r == [k \in 1 .. m |-> [step |-> i + k - 1, status |-> "CANCELLED"]]
    <3>3. r \in Seq(Outcome) /\ LeftOver(i) = r
      BY <3>1, <3>2 DEF LeftOver, Rest
    <3> HIDE DEF r
    <3> QED BY <2>1, <3>3 DEF TestInv
  <2>4. /\ sole' \in [Test -> BOOLEAN] /\ \A u \in Test \ {t} : ~sole'[u]
    BY <2>1, WritesFacts
  <2>5. TestInv'
    BY <2>2, <2>3, <2>4, TestFrame DEF Going
  <2>6. ASSUME ~test[t].single, sole[t] PROVE Full(results')
    BY <1>3, <2>1, <2>6, FullWhenCancelled
  <2> QED BY <2>2, <2>5, <2>6 DEF EndsFull, TestInv
<1>6. CASE ~(i > Steps) /\ ~stop
  <2>1. Goes(t, "ask") /\ results' = results /\ sole' = sole
    BY <1>1, <1>6 DEF NextTest
  <2>2. PICK row \in Row : /\ test' = [test EXCEPT ![t] = row] /\ row.pc = "ask"
                           /\ row.single = test[t].single /\ row.i = i
    <3>1. "ask" \in {"off", "enter", "ended", "told"} \cup Going
      BY DEF Going
    <3> QED BY <1>1, <2>1, <3>1, RowFacts
  <2>3. ASSUME sole'[t], ~row.single PROVE OnCourse(row, results', stop')
    <3>1. i \in 1 .. Steps + 1 /\ Reported(results, i - 1) /\ (Cancelled(results) => stop)
      BY <1>3, <2>1, <2>2, <2>3
    <3>2. i <= Steps
      BY <1>6, TestAssumption
    <3> QED BY <1>2, <2>1, <2>2, <3>1, <3>2 DEF OnCourse
  <2>4. TestInv'
    BY <1>2, <2>1, <2>2, <2>3, TestFrame DEF TestInv
  <2> QED BY <2>2, <2>4 DEF EndsFull, TestInv
<1> QED BY <1>4, <1>5, <1>6

\* Executing a step.
LEMMA StepBeginsKept ==
    ASSUME TestInv, NEW t \in Test, StepBegins(t)
    PROVE  TestInv' /\ EndsFull(t) /\ \A u \in Test \ {t} : test'[u] = test[u]
<1>1. test[t].pc = "ask" /\ ~stop /\ Goes(t, "step") /\ UNCHANGED <<stop, results, sole>>
  BY DEF StepBegins, At
<1>2. PICK row \in Row : /\ test' = [test EXCEPT ![t] = row] /\ row.pc = "step"
                         /\ row.single = test[t].single /\ row.i = test[t].i
  <2>1. "step" \in {"off", "enter", "ended", "told"} \cup Going
    BY DEF Going
  <2> QED BY <1>1, <2>1, RowFacts
<1>3. ASSUME sole'[t], ~row.single PROVE OnCourse(row, results', stop')
  <2>1. OnCourse(test[t], results, stop)
    BY <1>1, <1>2, <1>3 DEF TestInv, Going
  <2> QED BY <1>1, <1>2, <2>1 DEF OnCourse
<1>4. TestInv'
  BY <1>1, <1>2, <1>3, TestFrame DEF TestInv
<1> QED BY <1>2, <1>4 DEF EndsFull, TestInv

\* The thread's end is told.
LEMMA TestToldKept ==
    ASSUME TestInv, NEW t \in Test, TestTold(t)
    PROVE  TestInv' /\ \A u \in Test : test'[u].pc = "ended" => test[u].pc = "ended"
<1>1. Goes(t, "told") /\ UNCHANGED <<stop, results, sole>>
  BY DEF TestTold, Goes
<1>2. PICK row \in Row : test' = [test EXCEPT ![t] = row] /\ row.pc = "told"
  <2>1. "told" \in {"off", "enter", "ended", "told"} \cup Going
    OBVIOUS
  <2> QED BY <1>1, <2>1, RowFacts
<1>3. TestInv'
  BY <1>1, <1>2, TestFrame DEF TestInv, Going
<1> QED BY <1>2, <1>3 DEF TestInv

\* A run of all that had the collector for itself reports every step.
THEOREM EveryStepReportedAlways == TestSpec => EveryStepReported
<1>1. TestInit => TestInv
  BY DEF TestInit, TestInv, NewTest, Row, Going
<1>2. ASSUME TestInv, [TestNext]_testVars
      PROVE  /\ TestInv'
             /\ \A t \in Test : test[t].pc # "ended" => EndsFull(t)
  <2>1. CASE UNCHANGED testVars
    BY <1>2, <2>1 DEF testVars, TestInv, EndsFull
  <2>2. CASE \E single \in BOOLEAN : PressRun(single)
    BY <1>2, <2>2, PressRunKept DEF EndsFull
  <2>3. CASE PressCancel
    BY <1>2, <2>3 DEF PressCancel, TestInv, OnCourse, EndsFull
  <2>4. CASE CancelReturns
    BY <1>2, <2>4 DEF CancelReturns, TestInv, EndsFull
  <2>5. ASSUME NEW t \in Test, TestTold(t)
        PROVE  TestInv' /\ \A u \in Test : test[u].pc # "ended" => EndsFull(u)
    BY <1>2, <2>5, TestToldKept DEF EndsFull
  <2>6. ASSUME NEW t \in Test, RunnerStep(t)
        PROVE  TestInv' /\ \A u \in Test : test[u].pc # "ended" => EndsFull(u)
    <3>1. CASE Enter(t)
      BY <1>2, <3>1, EnterKept DEF EndsFull
    <3>2. ASSUME EndsFull(t), \A u \in Test \ {t} : test'[u] = test[u]
          PROVE  \A u \in Test : test[u].pc # "ended" => EndsFull(u)
      BY <3>2 DEF EndsFull
    <3>3. CASE NextTest(t)
      BY <1>2, <3>2, <3>3, NextTestKept
    <3>4. CASE StepBegins(t)
      BY <1>2, <3>2, <3>4, StepBeginsKept
    <3>5. CASE StepCancelled(t)
      BY <1>2, <3>2, <3>5, RecordKept DEF StepCancelled, At
    <3>6. CASE StepEnds(t)
      <4>1. PICK status \in Status : Record(t, status)
        BY <3>6 DEF StepEnds
      <4>2. status # "CANCELLED" /\ status \in Status \cup {"CANCELLED"}
        BY DEF Status
      <4>3. test[t].pc = "step" /\ stop' = stop
        BY <3>6 DEF StepEnds, At
      <4> QED BY <1>2, <3>2, <4>1, <4>2, <4>3, RecordKept
    <3> QED BY <2>6, <3>1, <3>3, <3>4, <3>5, <3>6 DEF RunnerStep
  <2> QED BY <1>2, <2>1, <2>2, <2>3, <2>4, <2>5, <2>6 DEF TestNext
<1>3. ASSUME \A t \in Test : test[t].pc # "ended" => EndsFull(t)
      PROVE  \A t \in Test : At(t, "next") \/ At(t, "ask") \/ At(t, "step") =>
          (test'[t].pc = "ended" /\ ~test[t].single /\ sole[t] => Full(results'))
  BY <1>3 DEF At, EndsFull
<1> QED BY <1>1, <1>2, <1>3, PTL DEF TestSpec, EveryStepReported, Full

-----------------------------------------------------------------------------
(* KeepAlive and PriorityQueue: types.                                     *)

\* The scheduler's timers and clocks keep in range, for every interval, length
\* of an exchange and number of sessions (TesterPresentScheduler).
THEOREM AliveTypeCorrect == AliveSpec => []AliveTypeOK
<1>1. AliveInv => AliveTypeOK
  <2> SUFFICES ASSUME AliveInv PROVE AliveTypeOK
    OBVIOUS
  <2>1. asking.who \in 0 .. Operator /\ asking.left \in 0 .. Longest
    BY DEF AliveInv
  <2> QED BY <2>1 DEF AliveInv, AliveTypeOK, Ticker
<1> QED BY <1>1, AliveBegins, AliveStep, PTL DEF AliveSpec

\* The list has no more entries than were put in, nor than the limit.
QueueBounded ==
    /\ QueueInv
    /\ Len(heap) <= puts /\ (QueueLimit > 0 => Len(heap) <= QueueLimit)

\* A full queue gives up one entry for the new one.
LEMMA RoomLeft ==
    ASSUME QueueBounded
    PROVE  /\ Cardinality(Range(Room)) <= puts
           /\ QueueLimit > 0 => Cardinality(Range(Room)) < QueueLimit
<1>a. QueueInv
  BY DEF QueueBounded
<1>0. /\ QueueLimit \in Nat /\ Len(heap) \in Nat /\ puts \in Nat /\ Len(heap) <= puts
      /\ (QueueLimit > 0 => Len(heap) <= QueueLimit)
      /\ IsFiniteSet(Range(heap)) /\ Cardinality(Range(heap)) = Len(heap)
  BY QueueAssumption, QueueFacts DEF QueueBounded, QueueInv
<1>1. CASE QueueLimit > 0 /\ Len(heap) >= QueueLimit
  <2> DEFINE m == Len(heap)
             q == SubSeq(heap, 1, m - 1)
  <2>1. Room = q /\ m = QueueLimit /\ m >= 1
    BY <1>0, <1>1 DEF Room, Front
  <2>2. q \in Seq(Range(heap)) /\ m \in DOMAIN heap /\ DOMAIN heap = 1 .. m /\ m \in Nat
    BY <1>0, <1>a, <2>1, QueueFacts
  <2>3. DOMAIN q = 1 .. m - 1 /\ \A i \in 1 .. m - 1 : q[i] = heap[i]
    BY <2>1, <2>2, <1>a, QueueFacts
  <2> HIDE DEF q, m
  <2>4. IsFiniteSet(Range(q)) /\ Cardinality(Range(q)) <= m - 1
    <3> DEFINE old == heap[m]
    <3>1. old \in Range(heap)
      BY <2>2 DEF Range
    <3>2. Range(q) \in SUBSET (Range(heap) \ {old})
      <4> SUFFICES ASSUME NEW i \in 1 .. m - 1 PROVE q[i] \in Range(heap) \ {old}
        BY <2>3 DEF Range
      <4>1. i \in DOMAIN heap /\ i # m
        BY <2>2
      <4> QED BY <2>2, <2>3, <3>1, <4>1, <1>a, QueueFacts DEF Range, IsInjective
    <3> HIDE DEF old
    <3>3. IsFiniteSet(Range(heap) \ {old}) /\ Cardinality(Range(heap) \ {old}) = m - 1
      BY <1>0, <3>1, FS_RemoveElement DEF m
    <3> QED BY <3>2, <3>3, FS_Subset
  <2>5. Cardinality(Range(q)) \in Nat
    BY <2>4, FS_CardinalityType
  <2>6. m <= puts
    BY <1>0 DEF m
  <2> QED BY <1>0, <2>1, <2>2, <2>4, <2>5, <2>6
<1>2. CASE ~(QueueLimit > 0 /\ Len(heap) >= QueueLimit)
  <2>1. Room = heap
    BY <1>2 DEF Room
  <2> QED BY <1>0, <1>2, <2>1
<1> QED BY <1>1, <1>2

\* put() keeps within the limit.
LEMMA PutBounded ==
    ASSUME QueueBounded, NEW p \in Priorities, Put(p)
    PROVE  QueueBounded'
<1> DEFINE x == [prio |-> p, n |-> puts + 1]
           S == Range(Room) \cup {x}
           c == Cardinality(Range(Room))
<1>1. QueueInv' /\ puts' = puts + 1 /\ heap' \in Heaps(S) /\ puts \in Nat /\ QueueLimit \in Nat
  <2>1. QueueInv /\ QueueInv'
    BY PutStep DEF QueueBounded
  <2>2. puts \in Nat /\ QueueLimit \in Nat
    BY <2>1, QueueAssumption DEF QueueInv
  <2>3. puts' = puts + 1 /\ heap' \in Heaps(S)
    BY DEF Put, HeapPush, Moved
  <2> QED BY <2>1, <2>2, <2>3
<1>2. IsFiniteSet(Range(Room)) /\ c \in Nat
  BY RoomFacts, FS_CardinalityType DEF QueueBounded
<1>3. IsFiniteSet(S) /\ Cardinality(S) <= c + 1
  <2> HIDE DEF x
  <2>1. IsFiniteSet(S) /\ (Cardinality(S) = c \/ Cardinality(S) = c + 1)
    BY <1>2, FS_AddElement
  <2> QED BY <1>2, <2>1
<1>4. Len(heap') = Cardinality(S) /\ Len(heap') \in Nat
  BY <1>1, <1>3, HeapFacts
<1>5. c <= puts /\ (QueueLimit > 0 => c < QueueLimit)
  BY RoomLeft
<1> HIDE DEF c, S
<1> QED BY <1>1, <1>2, <1>3, <1>4, <1>5 DEF QueueBounded

\* Every step keeps within the limit.
LEMMA BoundedQueueStep == QueueBounded /\ [QueueNext]_queueVars => QueueBounded'
<1> SUFFICES ASSUME QueueBounded, [QueueNext]_queueVars PROVE QueueBounded'
  OBVIOUS
<1>0. /\ QueueInv' /\ Len(heap) \in Nat /\ Len(heap) <= puts /\ (QueueLimit > 0 => Len(heap) <= QueueLimit)
      /\ QueueLimit \in Nat /\ puts \in Nat
  BY QueueStep, QueueFacts, QueueAssumption DEF QueueBounded, QueueInv
<1>1. CASE UNCHANGED <<heap, puts>>
  BY <1>0, <1>1 DEF QueueBounded
<1>2. CASE UNCHANGED queueVars \/ PutRefused \/ \E c \in Consumers : Sleep(c) \/ TimeUp(c) \/ GiveUp(c)
  BY <1>1, <1>2 DEF queueVars, PutRefused, Sleep, TimeUp, GiveUp
<1>3. ASSUME NEW p \in Priorities, Put(p) PROVE QueueBounded'
  BY <1>3, PutBounded
<1>4. CASE ClearQueue
  <2>1. Len(heap') = 0 /\ puts' = puts
    BY <1>4 DEF ClearQueue
  <2> QED BY <1>0, <2>1 DEF QueueBounded
<1>5. ASSUME NEW c \in Consumers, Get(c) \/ Awake(c) PROVE QueueBounded'
  <2>1. CASE Hand
    <3>1. Len(heap') = Len(heap) - 1 /\ puts' = puts
      BY <1>5, <2>1, HandFacts DEF QueueBounded, Get, Awake
    <3> QED BY <1>0, <3>1 DEF QueueBounded
  <2>2. CASE ~Hand
    BY <1>1, <1>5, <2>2 DEF Get, Awake
  <2> QED BY <2>1, <2>2
<1> QED BY <1>2, <1>3, <1>4, <1>5 DEF QueueNext

\* Well typed.
LEMMA QueueTypes == QueueBounded => QueueTypeOK
<1> SUFFICES ASSUME QueueBounded PROVE QueueTypeOK
  OBVIOUS
<1>1. IsInjective(heap) /\ Range(heap) \subseteq Entries
  BY QueueFacts DEF QueueBounded
<1>2. Range(sleepers) \subseteq Consumers /\ (Range(sleepers) \cup lapsed) \cap woken = {}
  BY QueueFacts DEF QueueBounded, QueueInv, Range
<1> QED BY <1>1, <1>2 DEF QueueBounded, QueueInv, QueueTypeOK, Entries

\* The queue holds no more than its limit, nor more than was put in, each entry
\* once, and a consumer sleeps or was woken (PriorityMessageQueue.put, get).
THEOREM QueueTypeCorrect == QueueSpec => []QueueTypeOK
<1>1. QueueInit => QueueBounded
  <2> SUFFICES ASSUME QueueInit PROVE QueueBounded
    OBVIOUS
  <2>1. Len(heap) = 0 /\ puts = 0
    BY DEF QueueInit
  <2> QED BY <2>1, QueueStart, QueueAssumption DEF QueueBounded
<1> QED BY <1>1, BoundedQueueStep, QueueTypes, PTL DEF QueueSpec

-----------------------------------------------------------------------------
(* EventBus: only the innermost publication is not inside a handler.       *)

OthersInside == \A p \in Publishers : \A i \in 1 .. Len(frames[p]) - 1 : frames[p][i].inside

BusTyped ==
    /\ BusInv /\ OthersInside
    /\ gone \subseteq 1 .. tokens
    /\ published \in 0 .. MaxEvents /\ enabled \in BOOLEAN

\* The innermost publication goes on.
LEMMA InnerGoesOn ==
    ASSUME BusTyped, NEW p \in Publishers, Publishing(p), NEW f, Becomes(p, f)
    PROVE  OthersInside'
<1> DEFINE m == Len(frames[p])
           s == [frames[p] EXCEPT ![m] = f]
<1>1. frames[p] \in Seq(Frame) /\ m \in Nat
  BY DEF BusTyped, BusInv
<1>2. Len(s) = m /\ \A i \in 1 .. m - 1 : s[i] = frames[p][i]
  BY <1>1
<1>3. frames' = [frames EXCEPT ![p] = s]
  BY DEF Becomes, BusTyped, BusInv
<1> HIDE DEF s, m
<1>4. frames'[p] = s /\ \A q \in Publishers : q # p => frames'[q] = frames[q]
  BY <1>3 DEF BusTyped, BusInv
<1>5. ASSUME NEW i \in 1 .. m - 1 PROVE frames[p][i].inside
  BY <1>5 DEF BusTyped, OthersInside, m
<1>6. ASSUME NEW q \in Publishers, NEW i \in 1 .. Len(frames'[q]) - 1 PROVE frames'[q][i].inside
  <2>1. CASE q = p
    BY <1>2, <1>4, <1>5, <1>6, <2>1
  <2>2. CASE q # p
    BY <1>4, <1>6, <2>2 DEF BusTyped, OthersInside
  <2> QED BY <2>1, <2>2
<1> QED BY <1>6 DEF OthersInside

\* A handler's publication is one more; the one it is in is inside a handler.
LEMMA PublishInside ==
    ASSUME BusTyped, NEW p \in Publishers, NEW e \in Event, Publish(p, e)
    PROVE  OthersInside'
<1> DEFINE m == Len(frames[p])
           f == [inside |-> FALSE, rest |-> Matching(e), owed |-> Matching(e)]
           s == Append(frames[p], f)
<1>1. frames[p] \in Seq(Frame) /\ m \in Nat /\ frames' = [frames EXCEPT ![p] = s]
  BY DEF BusTyped, BusInv, Publish
<1>2. Len(s) = m + 1 /\ \A i \in 1 .. m : s[i] = frames[p][i]
  BY <1>1
<1> HIDE DEF s
<1>3. frames'[p] = s /\ \A q \in Publishers : q # p => frames'[q] = frames[q]
  BY <1>1 DEF BusTyped, BusInv
<1>4. ASSUME NEW i \in 1 .. m PROVE frames[p][i].inside
  <2>1. CASE i = m
    <3>1. Publishing(p)
      BY <1>1, <1>4, <2>1 DEF Publishing
    <3>2. Inner(p).inside /\ Inner(p) = frames[p][m]
      BY <3>1, InnerFrame DEF Publish, BusTyped
    <3> QED BY <2>1, <3>2
  <2>2. CASE i # m
    <3>1. i \in 1 .. m - 1
      BY <1>1, <2>2
    <3> QED BY <3>1 DEF BusTyped, OthersInside
  <2> QED BY <2>1, <2>2
<1> HIDE DEF m
<1>5. ASSUME NEW q \in Publishers, NEW i \in 1 .. Len(frames'[q]) - 1 PROVE frames'[q][i].inside
  <2>1. CASE q = p
    <3>1. i \in 1 .. m
      BY <1>1, <1>2, <1>3, <2>1
    <3> QED BY <1>2, <1>3, <1>4, <2>1, <3>1
  <2>2. CASE q # p
    BY <1>3, <1>5, <2>2 DEF BusTyped, OthersInside
  <2> QED BY <2>1, <2>2
<1> QED BY <1>5 DEF OthersInside

\* A publication that ends leaves the one it was in inside its handler.
LEMMA ReturnsInside ==
    ASSUME BusTyped, NEW p \in Publishers, Publishing(p), Leaves(p)
    PROVE  OthersInside'
<1> DEFINE m == Len(frames[p])
           s == Front(frames[p])
<1>1. frames[p] \in Seq(Frame) /\ m \in Nat /\ m >= 1 /\ frames' = [frames EXCEPT ![p] = s]
  BY DEF BusTyped, BusInv, Leaves, Publishing
<1>2. Len(s) = m - 1 /\ \A i \in 1 .. m - 1 : s[i] = frames[p][i]
  BY <1>1 DEF Front
<1> HIDE DEF s
<1>3. frames'[p] = s /\ \A q \in Publishers : q # p => frames'[q] = frames[q]
  BY <1>1 DEF BusTyped, BusInv
<1>4. ASSUME NEW i \in 1 .. m - 1 PROVE frames[p][i].inside
  BY <1>4 DEF BusTyped, OthersInside
<1> HIDE DEF m
<1>5. ASSUME NEW q \in Publishers, NEW i \in 1 .. Len(frames'[q]) - 1 PROVE frames'[q][i].inside
  <2>1. CASE q = p
    <3>1. i \in 1 .. m - 1
      BY <1>1, <1>2, <1>3, <2>1
    <3> QED BY <1>2, <1>3, <1>4, <2>1, <3>1
  <2>2. CASE q # p
    BY <1>3, <1>5, <2>2 DEF BusTyped, OthersInside
  <2> QED BY <2>1, <2>2
<1> QED BY <1>5 DEF OthersInside

\* Every step keeps the types.
LEMMA BusTypedStep == BusTyped /\ [BusNext]_busVars => BusTyped'
<1> SUFFICES ASSUME BusTyped, [BusNext]_busVars PROVE BusTyped'
  OBVIOUS
<1>0. /\ BusInv' /\ Len(Offers) \in Nat /\ tokens \in 0 .. Len(Offers) /\ MaxEvents \in Nat
      /\ published \in 0 .. MaxEvents /\ gone \subseteq 1 .. tokens /\ enabled \in BOOLEAN
      /\ OthersInside
  BY BusStep, OffersAssumption DEF BusTyped, BusInv
<1>1. CASE UNCHANGED <<frames, published>> /\ gone' \subseteq 1 .. tokens' /\ enabled' \in BOOLEAN
  BY <1>0, <1>1 DEF BusTyped, OthersInside
<1>2. CASE UNCHANGED busVars \/ ClearBus \/ Disable \/ \E t \in Token : Unsubscribe(t)
  BY <1>0, <1>1, <1>2 DEF busVars, ClearBus, Disable, Unsubscribe
<1>3. CASE Subscribe
  <2>1. 1 .. tokens \subseteq 1 .. tokens'
    BY <1>0, <1>3 DEF Subscribe
  <2> QED BY <1>0, <1>1, <1>3, <2>1 DEF Subscribe
<1>4. ASSUME NEW t \in Token, OwnerGone(t) PROVE BusTyped'
  <2>1. t \in 1 .. tokens
    BY <1>0, <1>4, OffersAssumption DEF OwnerGone, Token
  <2> QED BY <1>0, <1>1, <1>4, <2>1 DEF OwnerGone
<1>5. CASE OthersInside' /\ UNCHANGED <<tokens, gone, published, enabled>>
  BY <1>0, <1>5 DEF BusTyped
<1>6. ASSUME NEW p \in Publishers, NEW t \in Token,
             PassOver(p, t) \/ CallHandler(p, t) \/ \E fails \in BOOLEAN : HandlerReturns(p, t, fails)
      PROVE  BusTyped'
  <2>1. PICK f : Publishing(p) /\ Becomes(p, f) /\ UNCHANGED <<tokens, gone, published, enabled>>
    BY <1>6 DEF PassOver, CallHandler, HandlerReturns, ComesTo
  <2> QED BY <1>5, <2>1, InnerGoesOn
<1>7. ASSUME NEW p \in Publishers, NEW e \in Event, Publish(p, e) PROVE BusTyped'
  <2>1. OthersInside' /\ UNCHANGED <<tokens, gone, enabled>> /\ published' = published + 1 /\ published < MaxEvents
    BY <1>7, PublishInside DEF Publish
  <2> QED BY <1>0, <2>1 DEF BusTyped
<1>8. ASSUME NEW p \in Publishers, PublishReturns(p) \/ \E t \in Token : PredicateRaises(p, t)
      PROVE  BusTyped'
  BY <1>5, <1>8, ReturnsInside DEF PublishReturns, PredicateRaises, ComesTo
<1> QED BY <1>2, <1>3, <1>4, <1>6, <1>7, <1>8 DEF BusNext

\* Nobody has published.
LEMMA BusTypedBegins == BusInit => BusTyped
<1> SUFFICES ASSUME BusInit PROVE BusTyped
  OBVIOUS
<1>1. \A p \in Publishers : Len(frames[p]) = 0
  BY DEF BusInit
<1> QED BY <1>1, BusStart, OffersAssumption DEF BusInit, BusTyped, OthersInside

\* Well typed.
LEMMA BusTypes == BusTyped => BusTypeOK
  BY DEF BusTyped, BusInv, BusTypeOK, OthersInside

\* Only the innermost of a thread's publications is not inside a handler, and
\* what the bus holds was subscribed, for any number of threads, subscriptions
\* and publications (EventBus.publish_event).
THEOREM BusTypeCorrect == BusSpec => []BusTypeOK
<1> QED BY BusTypedBegins, BusTypedStep, BusTypes, PTL DEF BusSpec

-----------------------------------------------------------------------------
(* TestRun: steps are steps of the sequence, threads start in order.       *)

\* A row of a thread is at a step of the sequence when it runs one.
Placed(row) ==
    /\ row \in Row /\ row.i \in 1 .. Steps + 1
    /\ row.pc \in {"ask", "step"} => row.i <= Steps
    /\ row.pc = "enter" => row.i = 1

TestTyped ==
    /\ test \in [Test -> Row] /\ \A t \in Test : Placed(test[t])
    /\ stop \in BOOLEAN /\ running \in BOOLEAN /\ results \in Seq(Result)
    /\ waiting \in {0} \cup Started /\ stops \in 0 .. MaxStops
    /\ sole \in [Test -> BOOLEAN]
    /\ Newest \in 0 .. MaxTests /\ Started = 1 .. Newest

\* A thread that has started goes on.
LEMMA RowGoesOn ==
    ASSUME TestTyped, NEW t \in Test, NEW row, Placed(row), row.pc # "off", test[t].pc # "off",
           test' = [test EXCEPT ![t] = row],
           stop' \in BOOLEAN, running' \in BOOLEAN, results' \in Seq(Result), UNCHANGED <<waiting, stops>>,
           sole' \in [Test -> BOOLEAN]
    PROVE  TestTyped'
<1>1. test' \in [Test -> Row] /\ test'[t] = row /\ \A u \in Test \ {t} : test'[u] = test[u]
  BY DEF TestTyped, Placed
<1>2. \A u \in Test : Placed(test'[u]) /\ (test'[u].pc # "off" <=> test[u].pc # "off")
  BY <1>1 DEF TestTyped
<1>3. Started' = Started
  BY <1>2 DEF Started
<1>4. Newest' = Newest
  BY <1>3 DEF Newest
<1>5. \A u \in Test : Placed(test[u])'
  BY <1>2 DEF Placed
<1> QED BY <1>1, <1>3, <1>4, <1>5 DEF TestTyped

\* Only the place of thread t changes.
LEMMA RowAt ==
    ASSUME TestTyped, NEW t \in Test, NEW pc \in {"next", "ask", "step", "ended", "told"}, Goes(t, pc)
    PROVE  \E row \in Row : /\ test' = [test EXCEPT ![t] = row]
                            /\ row.pc = pc /\ row.i = test[t].i /\ row.i \in 1 .. Steps + 1
<1>1. test[t] \in Row /\ test[t].i \in 1 .. Steps + 1
  BY DEF TestTyped, Placed
<1>2. [test[t] EXCEPT !.pc = pc] \in Row
  BY <1>1 DEF Row, Going
<1> QED BY <1>1, <1>2 DEF Goes, TestTyped, Row

\* What is left out is of the sequence.
LEMMA RestTyped ==
    ASSUME NEW from \in 1 .. Steps + 1, NEW status \in {"CANCELLED", "SKIPPED"}
    PROVE  Rest(from, status) \in Seq(Result)
<1> DEFINE m == Steps + 1 - from
<1>1. m \in Nat /\ from \in Nat /\ from >= 1 /\ Steps \in Nat
  BY TestAssumption
<1>2. \A k \in 1 .. m : from + k - 1 \in 1 .. Steps
  BY <1>1
<1>3. \A k \in 1 .. m : [step |-> from + k - 1, status |-> status] \in Result
  BY <1>2 DEF Result
<1>5. [k \in 1 .. m |-> [step |-> from + k - 1, status |-> status]] \in Seq(Result)
  BY <1>1, <1>3
<1>4. Rest(from, status) = [k \in 1 .. m |-> [step |-> from + k - 1, status |-> status]]
  BY DEF Rest
<1> QED BY <1>4, <1>5

\* A step is recorded.
LEMMA RecordTyped ==
    ASSUME TestTyped, NEW t \in Test, NEW status \in Status \cup {"CANCELLED"},
           test[t].pc \in {"ask", "step"}, Record(t, status), UNCHANGED <<stop, running, waiting, stops>>
    PROVE  TestTyped'
<1> DEFINE i == test[t].i
           mine == [step |-> i, status |-> status]
<1>1. i \in 1 .. Steps /\ test[t] \in Row /\ Steps \in Nat
  BY TestAssumption DEF TestTyped, Placed
<1>2. mine \in Result
  BY <1>1 DEF Result
<1>3. Append(results, mine) \in Seq(Result)
  BY <1>2 DEF TestTyped
<1>4. sole' \in [Test -> BOOLEAN]
  BY DEF Record, Writes, TestTyped
<1>5. stop' \in BOOLEAN /\ running' \in BOOLEAN /\ UNCHANGED <<waiting, stops>>
  BY DEF TestTyped
<1>6. CASE test[t].single \/ (StopOnFailure /\ status = "FAIL")
  <2>1. PICK row \in Row : test' = [test EXCEPT ![t] = row] /\ row.pc = "ended" /\ row.i \in 1 .. Steps + 1
    <3>1. Goes(t, "ended")
      BY <1>6 DEF Record
    <3> QED BY <3>1, RowAt
  <2>2. results' \in Seq(Result)
    <3>1. CASE results' = Append(results, mine)
      BY <1>3, <3>1
    <3>2. CASE results' = Append(results, mine) \o Rest(i + 1, "SKIPPED")
      <4>1. i + 1 \in 1 .. Steps + 1
        BY <1>1
      <4> HIDE DEF i, mine
      <4>2. Rest(i + 1, "SKIPPED") \in Seq(Result)
        BY <4>1, RestTyped
      <4> QED BY <1>3, <3>2, <4>2
    <3> QED BY <1>6, <3>1, <3>2 DEF Record
  <2>3. Placed(row)
    BY <2>1 DEF Placed
  <2> QED BY <1>4, <1>5, <2>1, <2>2, <2>3, RowGoesOn
<1>7. CASE ~(test[t].single \/ (StopOnFailure /\ status = "FAIL"))
  <2> DEFINE row == [test[t] EXCEPT !.pc = "next", !.i = i + 1]
  <2>1. test' = [test EXCEPT ![t] = row] /\ results' = Append(results, mine)
    BY <1>7 DEF Record, TestTyped
  <2>2. i + 1 \in 1 .. Steps + 1 /\ i + 1 \in Nat
    BY <1>1
  <2>3. row \in Row /\ row.pc = "next" /\ row.i = i + 1
    BY <1>1, <2>2 DEF Row, Going
  <2> HIDE DEF row, i, mine
  <2>4. Placed(row)
    BY <2>2, <2>3 DEF Placed
  <2> QED BY <1>3, <1>4, <1>5, <2>1, <2>3, <2>4, RowGoesOn
<1> QED BY <1>6, <1>7

\* The thread of a press is the next one.
LEMMA PressTyped ==
    ASSUME TestTyped, NEW single \in BOOLEAN, PressRun(single)
    PROVE  TestTyped'
<1> DEFINE n == Newest
           k == n + 1
           pc == IF single THEN "ask" ELSE "enter"
           row == [pc |-> pc, single |-> single, i |-> 1]
<1>1. n \in Nat /\ n < MaxTests /\ MaxTests \in Nat /\ Started = 1 .. n
  BY TestAssumption DEF TestTyped, PressRun
<1>2. k \in Test /\ k \in 1 .. MaxTests
  BY <1>1 DEF Test
<1>3. test' = [test EXCEPT ![k] = row] /\ running' = TRUE /\ UNCHANGED <<stop, results, waiting, stops, sole>>
      /\ waiting = 0
  <2>1. PICK r : r = [NewTest EXCEPT !.pc = IF single THEN "ask" ELSE "enter", !.single = single]
    OBVIOUS
  <2>2. r = row
    BY <2>1 DEF NewTest
  <2> HIDE DEF row
  <2> QED BY <2>1, <2>2 DEF PressRun
<1>4. row \in Row /\ Placed(row) /\ row.pc # "off"
  <2>1. Steps \in Nat /\ (single => Steps > 0)
    BY TestAssumption DEF PressRun
  <2>2. row \in Row /\ row.pc = pc /\ row.i = 1
    BY DEF Row, Going
  <2> HIDE DEF row
  <2> QED BY <2>1, <2>2 DEF Placed
<1> HIDE DEF n, k, row
<1>5. test' \in [Test -> Row] /\ test'[k] = row /\ \A u \in Test \ {k} : test'[u] = test[u]
  BY <1>2, <1>3, <1>4 DEF TestTyped
<1>6. \A u \in Test : Placed(test[u])'
  BY <1>4, <1>5 DEF TestTyped, Placed
<1>7. Started' = Started \cup {k}
  BY <1>2, <1>4, <1>5 DEF Started
<1>8. Started' = 1 .. k /\ k \in 0 .. MaxTests
  BY <1>1, <1>2, <1>7 DEF k
<1>9. Newest' = k
  <2>1. Cardinality(1 .. k) = k
    BY <1>1, <1>2, FS_Interval DEF k
  <2> QED BY <1>8, <2>1 DEF Newest
<1> QED BY <1>3, <1>5, <1>6, <1>8, <1>9 DEF TestTyped

\* Cancel is pressed, and is done with.
LEMMA CancelTyped ==
    ASSUME TestTyped, PressCancel \/ CancelReturns
    PROVE  TestTyped'
<1>1. UNCHANGED <<test, results, sole>> /\ Started' = Started /\ Newest' = Newest
  BY DEF PressCancel, CancelReturns, Started, Newest
<1>2. stop' \in BOOLEAN /\ running' \in BOOLEAN
  BY DEF PressCancel, CancelReturns, TestTyped
<1>3. stops' \in 0 .. MaxStops
  BY TestAssumption DEF PressCancel, CancelReturns, TestTyped
<1>4. waiting' \in {0} \cup Started
  BY DEF PressCancel, CancelReturns, TestTyped, Live, Started
<1>5. \A u \in Test : Placed(test[u])'
  BY <1>1 DEF TestTyped, Placed
<1> QED BY <1>1, <1>2, <1>3, <1>4, <1>5 DEF TestTyped

\* Every step keeps the types.
LEMMA TestTypedStep == TestTyped /\ [TestNext]_testVars => TestTyped'
<1> SUFFICES ASSUME TestTyped, [TestNext]_testVars PROVE TestTyped'
  OBVIOUS
<1>1. CASE UNCHANGED testVars
  <2>1. Started' = Started /\ Newest' = Newest /\ \A u \in Test : Placed(test[u])'
    BY <1>1 DEF testVars, Started, Newest, TestTyped, Placed
  <2> QED BY <1>1, <2>1 DEF testVars, TestTyped
<1>2. ASSUME NEW t \in Test, NEW pc \in {"next", "ask", "step", "ended", "told"}, Goes(t, pc),
             test[t].pc # "off", pc \in {"ask", "step"} => test[t].i <= Steps,
             stop' \in BOOLEAN, running' \in BOOLEAN, results' \in Seq(Result), UNCHANGED <<waiting, stops>>,
             sole' \in [Test -> BOOLEAN]
      PROVE  TestTyped'
  <2>1. PICK row \in Row : /\ test' = [test EXCEPT ![t] = row]
                           /\ row.pc = pc /\ row.i = test[t].i /\ row.i \in 1 .. Steps + 1
    BY <1>2, RowAt
  <2>2. Placed(row) /\ row.pc # "off"
    BY <1>2, <2>1 DEF Placed
  <2> QED BY <1>2, <2>1, <2>2, RowGoesOn
<1>3. stop \in BOOLEAN /\ running \in BOOLEAN /\ results \in Seq(Result) /\ sole \in [Test -> BOOLEAN]
      /\ << >> \in Seq(Result)
  BY DEF TestTyped
<1>4. ASSUME NEW t \in Test, NEW entered \in BOOLEAN, Writes(t, entered) PROVE sole' \in [Test -> BOOLEAN]
  BY <1>4 DEF Writes, TestTyped
<1>5. ASSUME NEW t \in Test, TestTold(t) PROVE TestTyped'
  BY <1>2, <1>3, <1>5 DEF TestTold, Goes
<1>6. ASSUME NEW t \in Test, Enter(t) PROVE TestTyped'
  BY <1>2, <1>3, <1>4, <1>6 DEF Enter, At
<1>7. ASSUME NEW t \in Test, NextTest(t) PROVE TestTyped'
  <2>1. test[t].i \in 1 .. Steps + 1 /\ test[t].pc = "next" /\ Steps \in Nat
    BY <1>7, TestAssumption DEF NextTest, At, TestTyped, Placed
  <2>2. CASE test[t].i > Steps \/ ~stop
    <3>1. UNCHANGED <<stop, running, waiting, stops, results, sole>>
      BY <1>7, <2>2 DEF NextTest
    <3>2. CASE Goes(t, "ended")
      BY <1>2, <1>3, <2>1, <3>1, <3>2
    <3>3. CASE Goes(t, "ask") /\ ~(test[t].i > Steps)
      BY <1>2, <1>3, <2>1, <3>1, <3>3
    <3> QED BY <1>7, <2>2, <3>2, <3>3 DEF NextTest
  <2>3. CASE ~(test[t].i > Steps) /\ stop
    <3>1. results' = results \o Rest(test[t].i, "CANCELLED") /\ Goes(t, "ended") /\ Writes(t, FALSE)
      BY <1>7, <2>3 DEF NextTest, LeftOver
    <3>2. results' \in Seq(Result)
      BY <1>3, <2>1, <3>1, RestTyped
    <3> QED BY <1>2, <1>3, <1>4, <1>7, <2>1, <3>1, <3>2 DEF NextTest
  <2> QED BY <2>2, <2>3
<1>8. ASSUME NEW t \in Test, StepBegins(t) PROVE TestTyped'
  <2>1. test[t].i <= Steps /\ test[t].pc = "ask"
    BY <1>8 DEF StepBegins, At, TestTyped, Placed
  <2> QED BY <1>2, <1>3, <1>8, <2>1 DEF StepBegins
<1>9. ASSUME NEW t \in Test, StepCancelled(t) \/ StepEnds(t) PROVE TestTyped'
  BY <1>9, RecordTyped DEF StepCancelled, StepEnds, At
<1> QED BY <1>1, <1>5, <1>6, <1>7, <1>8, <1>9, PressTyped, CancelTyped DEF TestNext, RunnerStep

\* No thread has started.
LEMMA TestTypedBegins == TestInit => TestTyped
<1> SUFFICES ASSUME TestInit PROVE TestTyped
  OBVIOUS
<1>1. test \in [Test -> Row] /\ \A t \in Test : test[t].pc = "off" /\ test[t].i = 1
  BY DEF TestInit, NewTest, Row, Going
<1>2. Started = {} /\ Newest = 0
  BY <1>1, FS_EmptySet DEF Started, Newest
<1>3. \A t \in Test : Placed(test[t])
  BY <1>1, TestAssumption DEF Placed
<1>4. 1 .. 0 = {} /\ 0 \in 0 .. MaxTests /\ 0 \in 0 .. MaxStops /\ << >> \in Seq(Result)
  BY TestAssumption
<1> QED BY <1>1, <1>2, <1>3, <1>4 DEF TestInit, TestTyped

\* Well typed.
LEMMA TestTypes == TestTyped => TestTypeOK
<1> SUFFICES ASSUME TestTyped PROVE TestTypeOK
  OBVIOUS
<1>1. \A t \in Test : test[t] \in [pc : {"off", "enter", "next", "ask", "step", "ended", "told"},
                                   single : BOOLEAN, i : 1 .. Steps + 1]
  BY DEF TestTyped, Placed, Row, Going
<1>2. \A t \in Started : 1 .. t \subseteq Started
  BY DEF TestTyped, Test
<1> QED BY <1>1, <1>2 DEF TestTyped, TestTypeOK

\* Threads start in the order of the presses, whatever is reported is of a step
\* of the sequence, and who is waited for has started, for any number of steps,
\* presses and cancellations (DeveloperModeController, TestRunner).
THEOREM TestTypeCorrect == TestSpec => []TestTypeOK
<1> QED BY TestTypedBegins, TestTypedStep, TestTypes, PTL DEF TestSpec

-----------------------------------------------------------------------------
(* J1939: what is queued and put together is of packets of the nodes.      *)

\* A session that waits for more packets.
Open(u) ==
    /\ u = [packets |-> u.packets, received |-> u.received]
    /\ u.packets \in Nat \ {0} /\ u.received \in [DOMAIN u.received -> Packet]
    /\ IsFiniteSet(DOMAIN u.received) /\ Cardinality(DOMAIN u.received) < u.packets

JTyped ==
    /\ JInv
    /\ \A s \in Nodes : outgoing[s].msg \in 1 .. Len(Outbox[s]) + 1
    /\ \A s \in Nodes : \A u \in sessions[s] : sessions[s] = {u} /\ Open(u)
    /\ rx \in Seq(Item) /\ Len(rx) <= RxLimit
    /\ caller \in [pc : {"idle", "getting", "found", "empty"}, aside : Seq(Item), answer : Seq(Item)]
    /\ requests \in 0 .. MaxRequests /\ drops \in 0 .. MaxDrops
    /\ assembled \subseteq Item /\ kept \subseteq Item /\ bereft \subseteq Nodes

\* A node's number of messages.
LEMMA NextMessage ==
    ASSUME JTyped, NEW s \in Nodes, Sending(s), NextFrame(s)
    PROVE  \A t \in Nodes : outgoing'[t].msg \in 1 .. Len(Outbox[t]) + 1
<1> DEFINE k == outgoing[s].msg
           q == outgoing[s].seq
           o == IF q = Outbox[s][k] THEN [msg |-> k + 1, seq |-> 0] ELSE [msg |-> k, seq |-> q + 1]
           n == Len(Outbox[s])
<1>1. k \in 1 .. n /\ n \in Nat
  BY FrameFacts, OutboxAssumption DEF JTyped
<1>2. outgoing' = [outgoing EXCEPT ![s] = o] /\ outgoing \in [Nodes -> [msg : Nat \ {0}, seq : Nat]]
  BY DEF NextFrame, JTyped, JInv
<1>3. o.msg = k \/ o.msg = k + 1
  OBVIOUS
<1> HIDE DEF o, k
<1>4. outgoing'[s] = o /\ \A t \in Nodes : t # s => outgoing'[t] = outgoing[t]
  BY <1>2
<1>5. outgoing'[s].msg \in 1 .. n + 1
  BY <1>1, <1>3, <1>4
<1> QED BY <1>4, <1>5 DEF JTyped

\* The frame of a node is one of its packets.
LEMMA FramePacket ==
    ASSUME JTyped, NEW s \in Nodes, Sending(s)
    PROVE  FrameOf(s) \in Packet /\ FrameOf(s).node = s /\ FrameOf(s).seq \in Nat
<1>1. outgoing[s].msg \in Nat /\ outgoing[s].seq \in Nat
      /\ FrameOf(s) = [node |-> s, msg |-> outgoing[s].msg, seq |-> outgoing[s].seq]
  BY FrameFacts DEF JTyped
<1> QED BY <1>1 DEF Packet

\* What is missing is filled up.
LEMMA AssembledPackets ==
    ASSUME NEW s \in Nodes, NEW n \in Nat, NEW r, r \in [DOMAIN r -> Packet], NEW u, u.packets = n, u.received = r
    PROVE  Assemble(u) \in Seq(Packet)
<1>1. Missing \in Packet
  BY DEF Missing, Packet
<1> DEFINE e(i) == IF i \in DOMAIN r THEN r[i] ELSE Missing
<1>2. \A i \in 1 .. n : e(i) \in Packet
  BY <1>1
<1>3. Assemble(u) = [i \in 1 .. n |-> e(i)]
  BY DEF Assemble
<1> HIDE DEF e
<1> QED BY <1>2, <1>3

\* One more packet of a session.
LEMMA OnePacketMore ==
    ASSUME NEW u, Open(u), NEW f \in Packet
    PROVE  LET w == WithPacket(u, f) IN
           /\ w = [packets |-> u.packets, received |-> w.received]
           /\ w.received \in [DOMAIN w.received -> Packet] /\ IsFiniteSet(DOMAIN w.received)
<1>1. PICK n, r : n \in Nat /\ u = [packets |-> n, received |-> r] /\ n = u.packets /\ r = u.received
  BY DEF Open
<1>2. r \in [DOMAIN r -> Packet] /\ IsFiniteSet(DOMAIN r)
  BY <1>1 DEF Open
<1> DEFINE D == DOMAIN r \cup {f.seq}
           new == [i \in D |-> IF i = f.seq THEN f ELSE r[i]]
<1>3. WithPacket(u, f) = [packets |-> n, received |-> new]
  BY <1>1 DEF WithPacket
<1>4. \A i \in D : (IF i = f.seq THEN f ELSE r[i]) \in Packet
  BY <1>2
<1>5. new \in [D -> Packet] /\ DOMAIN new = D
  BY <1>4
<1>6. IsFiniteSet(D)
  BY <1>2, FS_AddElement
<1> HIDE DEF D, new
<1> QED BY <1>1, <1>3, <1>5, <1>6

\* An item is offered to the queue.
LEMMA OfferTyped ==
    ASSUME JTyped, NEW item \in Item, Offer(item)
    PROVE  rx' \in Seq(Item) /\ Len(rx') <= RxLimit /\ kept' \subseteq Item
<1>1. RxLimit \in Nat /\ rx \in Seq(Item) /\ Len(rx) <= RxLimit /\ kept \subseteq Item
  BY OutboxAssumption DEF JTyped
<1>2. CASE rx' = Append(rx, item) /\ kept' = kept \cup {item} /\ Len(rx) < RxLimit
  BY <1>1, <1>2
<1>3. CASE UNCHANGED <<rx, kept>>
  BY <1>1, <1>3
<1> QED BY <1>2, <1>3 DEF Offer

\* A frame is heard.
LEMMA HearTyped ==
    ASSUME JTyped, NEW s \in Nodes, Hear(s)
    PROVE  JTyped'
<1>1. PICK f : f = FrameOf(s)
  OBVIOUS
<1>2. /\ Sending(s) /\ NextFrame(s) /\ HandleFrame(f) /\ UNCHANGED <<caller, requests, drops, bereft>>
      /\ f \in Packet /\ f.node = s /\ f.seq \in Nat
  BY <1>1, FramePacket DEF Hear
<1>3. JInv' /\ \A t \in Nodes : outgoing'[t].msg \in 1 .. Len(Outbox[t]) + 1
  BY <1>2, HearCm, HearDt, NextMessage DEF JTyped
<1>4. DOMAIN sessions = Nodes
  BY DEF JTyped, JInv
<1>5. ASSUME NEW S, sessions'[s] = S, \A t \in Nodes : t # s => sessions'[t] = sessions[t],
             \A u \in S : S = {u} /\ Open(u), NEW item \in Item, Offer(item), assembled' \subseteq Item
      PROVE  JTyped'
  <2>2. \A t \in Nodes : \A u \in sessions'[t] : sessions'[t] = {u} /\ Open(u)
    BY <1>5 DEF JTyped
  <2>3. rx' \in Seq(Item) /\ Len(rx') <= RxLimit /\ kept' \subseteq Item
    BY <1>5, OfferTyped
  <2> QED BY <1>2, <1>3, <1>5, <2>2, <2>3 DEF JTyped, Open
<1>6. AsFrame(f) \in Item
  <2>1. <<f>> \in Seq(Packet)
    BY <1>2
  <2> QED BY <1>2, <2>1 DEF AsFrame, Item
<1>7. assembled \subseteq Item
  BY DEF JTyped
<1>8. CASE f.seq = 0
  <2> DEFINE n == Outbox[s][f.msg]
             u == [packets |-> n, received |-> << >>]
  <2>1. sessions' = [sessions EXCEPT ![s] = {u}] /\ Offer(AsFrame(f)) /\ assembled' = assembled
    BY <1>2, <1>8 DEF HandleFrame, HandleCm
  <2>2. n \in Nat \ {0}
    BY <1>1, <1>2, FrameFacts DEF JTyped
  <2>3. Open(u)
    <3>1. DOMAIN u.received = {} /\ u.received \in [{} -> Packet]
      OBVIOUS
    <3>2. IsFiniteSet({}) /\ Cardinality({}) = 0
      BY FS_EmptySet
    <3> QED BY <2>2, <3>1, <3>2 DEF Open
  <2> HIDE DEF u
  <2>4. PICK S : S = {u}
    OBVIOUS
  <2>5. /\ sessions'[s] = S /\ \A t \in Nodes : t # s => sessions'[t] = sessions[t]
        /\ \A x \in S : S = {x} /\ Open(x)
    BY <1>4, <2>1, <2>3, <2>4
  <2>6. Offer(AsFrame(f)) /\ assembled' \subseteq Item
    BY <1>7, <2>1
  <2> QED BY <1>5, <1>6, <2>5, <2>6
<1>9. CASE f.seq # 0 /\ sessions[s] = {}
  <2>1. sessions' = sessions /\ Offer(AsFrame(f)) /\ assembled' = assembled
    BY <1>2, <1>9 DEF HandleFrame, HandleDt
  <2>2. Offer(AsFrame(f)) /\ assembled' \subseteq Item
    BY <1>7, <2>1
  <2>3. sessions'[s] = {} /\ \A t \in Nodes : t # s => sessions'[t] = sessions[t]
    BY <1>9, <2>1
  <2> QED BY <1>5, <1>6, <2>2, <2>3
<1>10. CASE f.seq # 0 /\ sessions[s] # {}
  <2> DEFINE v == CHOOSE x \in sessions[s] : TRUE
             u == WithPacket(v, f)
             whole == [node |-> s, kind |-> "message", by |-> f, data |-> Assemble(u)]
  <2>1. IF Complete(u)
        THEN sessions' = [sessions EXCEPT ![s] = {}] /\ assembled' = assembled \cup {whole} /\ Offer(whole)
        ELSE sessions' = [sessions EXCEPT ![s] = {u}] /\ assembled' = assembled /\ Offer(AsFrame(f))
    BY <1>2, <1>10 DEF HandleFrame, HandleDt
  <2>2. v \in sessions[s] /\ Open(v)
    BY <1>10 DEF JTyped
  <2> HIDE DEF v
  <2>3. /\ u = [packets |-> v.packets, received |-> u.received] /\ v.packets \in Nat \ {0}
        /\ u.received \in [DOMAIN u.received -> Packet] /\ IsFiniteSet(DOMAIN u.received)
    BY <1>2, <2>2, OnePacketMore DEF Open
  <2> HIDE DEF u
  <2>4. u.packets = v.packets
    BY <2>3
  <2>5. CASE Complete(u)
    <3>1. Assemble(u) \in Seq(Packet)
      BY <2>3, <2>4, AssembledPackets
    <3>2. whole \in Item
      BY <1>2, <3>1 DEF Item
    <3> HIDE DEF whole
    <3>3. Offer(whole) /\ assembled' \subseteq Item
      BY <1>7, <2>1, <2>5, <3>2
    <3>4. sessions'[s] = {} /\ \A t \in Nodes : t # s => sessions'[t] = sessions[t]
      BY <1>4, <2>1, <2>5
    <3> QED BY <1>5, <3>2, <3>3, <3>4
  <2>6. CASE ~Complete(u)
    <3>1. Cardinality(DOMAIN u.received) < u.packets
      BY <2>3, <2>4, <2>6, FS_CardinalityType DEF Complete
    <3>2. Open(u)
      BY <2>3, <2>4, <3>1 DEF Open
    <3>3. PICK S : S = {u}
      OBVIOUS
    <3>4. /\ sessions'[s] = S /\ \A t \in Nodes : t # s => sessions'[t] = sessions[t]
          /\ \A x \in S : S = {x} /\ Open(x)
      BY <1>4, <2>1, <2>6, <3>2, <3>3
    <3>5. Offer(AsFrame(f)) /\ assembled' \subseteq Item
      BY <1>7, <2>1, <2>6
    <3> QED BY <1>5, <1>6, <3>4, <3>5
  <2> QED BY <2>5, <2>6
<1> QED BY <1>8, <1>9, <1>10

\* A frame is lost.
LEMMA LoseTyped ==
    ASSUME JTyped, NEW s \in Nodes, LoseFrame(s)
    PROVE  JTyped'
<1>1. /\ Sending(s) /\ NextFrame(s) /\ drops < MaxDrops /\ drops' = drops + 1
      /\ UNCHANGED <<sessions, rx, caller, requests, assembled, kept>> /\ bereft' \subseteq bereft \cup {s}
  BY DEF LoseFrame
<1>2. JInv' /\ \A t \in Nodes : outgoing'[t].msg \in 1 .. Len(Outbox[t]) + 1
  BY <1>1, LoseStep, NextMessage DEF JTyped
<1>3. drops' \in 0 .. MaxDrops
  BY <1>1, OutboxAssumption DEF JTyped
<1> QED BY <1>1, <1>2, <1>3 DEF JTyped, Open

\* The caller moves items.
LEMMA CallerTyped ==
    ASSUME JTyped, ReceiveMessage \/ RequestPgn \/ GetItem \/ GetEmpty \/ PutBack \/ AnswerRequest
    PROVE  JTyped'
<1>1. UNCHANGED <<outgoing, sessions, assembled, bereft, drops>> /\ kept' \subseteq kept
  BY DEF ReceiveMessage, RequestPgn, GetItem, GetEmpty, PutBack, AnswerRequest
<1>2. JInv'
  BY <1>1, CallerStep DEF JTyped
<1>3. PICK p \in {"idle", "getting", "found", "empty"}, a \in Seq(Item), r \in Seq(Item) :
          caller = [pc |-> p, aside |-> a, answer |-> r]
  BY DEF JTyped
<1>4. /\ rx \in Seq(Item) /\ Len(rx) <= RxLimit /\ RxLimit \in Nat
      /\ requests \in 0 .. MaxRequests /\ MaxRequests \in Nat
  BY OutboxAssumption DEF JTyped
<1>5. requests' \in 0 .. MaxRequests
  BY <1>4 DEF ReceiveMessage, RequestPgn, GetItem, GetEmpty, PutBack, AnswerRequest
<1>6. rx' \in Seq(Item) /\ Len(rx') <= RxLimit
  <2>1. CASE rx' = rx
    BY <1>4, <2>1
  <2>2. CASE rx # << >> /\ rx' = Tail(rx)
    BY <1>4, <2>2
  <2>3. CASE PutBack
    <3>1. a # << >> /\ rx' = Append(rx, Head(a)) /\ Len(rx) < RxLimit
      BY <1>3, <2>3 DEF PutBack
    <3>2. Head(a) \in Item
      BY <3>1
    <3> QED BY <1>4, <3>1, <3>2
  <2> QED BY <2>1, <2>2, <2>3 DEF ReceiveMessage, RequestPgn, GetItem, GetEmpty, AnswerRequest
<1>7. caller' \in [pc : {"idle", "getting", "found", "empty"}, aside : Seq(Item), answer : Seq(Item)]
  <2>1. CASE ReceiveMessage
    BY <2>1 DEF ReceiveMessage, JTyped
  <2>2. CASE RequestPgn \/ GetEmpty
    BY <2>2 DEF RequestPgn, GetEmpty, JTyped
  <2>3. CASE GetItem
    <3>1. rx # << >> /\ Head(rx) \in Item
      BY <1>4, <2>3 DEF GetItem
    <3>2. PICK h \in Item : h = Head(rx)
      BY <3>1
    <3>3. <<h>> \in Seq(Item) /\ Append(a, h) \in Seq(Item)
      OBVIOUS
    <3>4. CASE Fits(h)
      <4>1. caller' = [pc |-> "found", aside |-> a, answer |-> <<h>>]
        BY <1>3, <2>3, <3>2, <3>4 DEF GetItem
      <4> QED BY <3>3, <4>1
    <3>5. CASE ~Fits(h)
      <4>1. caller' = [pc |-> p, aside |-> Append(a, h), answer |-> r]
        BY <1>3, <2>3, <3>2, <3>5 DEF GetItem
      <4> QED BY <3>3, <4>1
    <3> QED BY <3>4, <3>5
  <2>4. CASE PutBack
    <3>1. a # << >> /\ caller' = [pc |-> p, aside |-> Tail(a), answer |-> r]
      BY <1>3, <2>4 DEF PutBack
    <3>2. Tail(a) \in Seq(Item)
      BY <3>1
    <3> QED BY <3>1, <3>2
  <2>5. CASE AnswerRequest
    BY <2>5 DEF AnswerRequest, Idling
  <2> QED BY <2>1, <2>2, <2>3, <2>4, <2>5
<1> QED BY <1>1, <1>2, <1>5, <1>6, <1>7 DEF JTyped, Open

\* Every step keeps the types.
LEMMA JTypedStep == JTyped /\ [JNext]_jVars => JTyped'
<1> SUFFICES ASSUME JTyped, [JNext]_jVars PROVE JTyped'
  OBVIOUS
<1>1. CASE UNCHANGED jVars
  <2>1. JInv'
    BY <1>1, JStep DEF JTyped
  <2> QED BY <1>1, <2>1 DEF jVars, JTyped, Open
<1> QED BY <1>1, HearTyped, LoseTyped, CallerTyped DEF JNext

\* Nothing was sent.
LEMMA JTypedBegins == JInit => JTyped
<1> SUFFICES ASSUME JInit PROVE JTyped
  OBVIOUS
<1>1. \A s \in Nodes : outgoing[s].msg = 1 /\ Len(Outbox[s]) \in Nat /\ sessions[s] = {}
  BY OutboxAssumption DEF JInit
<1>2. Idling \in [pc : {"idle", "getting", "found", "empty"}, aside : Seq(Item), answer : Seq(Item)]
  BY DEF Idling
<1> QED BY <1>1, <1>2, JStart, OutboxAssumption DEF JInit, JTyped

\* Well typed.
LEMMA JTypes == JTyped => JTypeOK
<1> SUFFICES ASSUME JTyped PROVE JTypeOK
  OBVIOUS
<1>1. ASSUME NEW s \in Nodes, NEW u \in sessions[s]
      PROVE  /\ sessions[s] = {u} /\ Cardinality(DOMAIN u.received) < u.packets
             /\ s \notin bereft => DOMAIN u.received \subseteq 1 .. u.packets
  <2>1. sessions[s] = {u} /\ Open(u)
    BY <1>1 DEF JTyped
  <2>2. s \notin bereft => DOMAIN u.received \subseteq 1 .. u.packets
    <3> SUFFICES ASSUME s \notin bereft PROVE DOMAIN u.received \subseteq 1 .. u.packets
      OBVIOUS
    <3>1. PICK k \in DOMAIN Outbox[s] : u = [packets |-> Outbox[s][k], received |-> u.received]
                                        /\ Part(s, k, u.received)
      BY <1>1, <2>1 DEF JTyped, JInv, Gathers
    <3>2. u.packets = Outbox[s][k]
      BY <3>1
    <3> QED BY <3>1, <3>2 DEF Part
  <2> QED BY <2>1, <2>2 DEF Open
<1>2. caller.pc \in {"idle", "getting", "found", "empty"}
  BY DEF JTyped
<1> QED BY <1>1, <1>2 DEF JTyped, JTypeOK

\* A session is open while packets of its announcement are missing, the queue
\* keeps within its capacity, and what is in it is made of the nodes' packets,
\* for any number of nodes, messages, packets and lost frames
\* (J1939TransportProtocol, J1939Protocol).
THEOREM JTypeCorrect == JSpec => []JTypeOK
<1> QED BY JTypedBegins, JTypedStep, JTypes, PTL DEF JSpec
=============================================================================
