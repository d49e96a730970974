------------------------- MODULE UdsExchangeProofs -------------------------
(***************************************************************************)
(* Machine-checked facts about UDSClient and the simulated ECU, for every  *)
(* set of threads and of requests they make, every number of retries, of   *)
(* responsePending answers and of faults.                                  *)
(***************************************************************************)
EXTENDS UdsExchange, EcuSimulatorProofs

-----------------------------------------------------------------------------
(* Queues.                                                                 *)

\* A payload put at the end of a queue: the others stay where they are.
LEMMA AppendElements ==
    ASSUME NEW S, NEW q \in Seq(S), NEW e \in S
    PROVE  /\ Append(q, e) \in Seq(S) /\ Append(q, e) # <<>>
           /\ Len(Append(q, e)) = Len(q) + 1 /\ Append(q, e)[Len(q) + 1] = e
           /\ \A i \in 1 .. Len(q) : Append(q, e)[i] = q[i]
           /\ DOMAIN Append(q, e) = 1 .. Len(q) + 1 /\ DOMAIN q = 1 .. Len(q) /\ Len(q) \in Nat
  OBVIOUS

\* The payload at the head of a queue taken: the others move up by one.
LEMMA TailElements ==
    ASSUME NEW S, NEW q \in Seq(S), q # <<>>
    PROVE  /\ Tail(q) \in Seq(S) /\ Head(q) \in S /\ Head(q) = q[1] /\ Len(q) \in Nat \ {0}
           /\ Len(Tail(q)) = Len(q) - 1
           /\ \A i \in 1 .. Len(q) - 1 : Tail(q)[i] = q[i + 1]
           /\ DOMAIN Tail(q) = 1 .. Len(q) - 1 /\ DOMAIN q = 1 .. Len(q)
  OBVIOUS

\* A queue of some payloads is a queue of any larger set of payloads.
LEMMA SeqWiden ==
    ASSUME NEW S, NEW T, S \subseteq T, NEW q \in Seq(S)
    PROVE  q \in Seq(T)
  OBVIOUS

-----------------------------------------------------------------------------
(* Type correctness.                                                       *)

\* A thread in send_request.
Busy(t) == pc[t] # "idle"

\* The payloads of the calls made so far.
RequestsSoFar == [req : Request, id : 1 .. calls]
AnswersSoFar == [svc : {r.svc : r \in Request}, nrc : Answer \cup {"pending"}, id : 1 .. calls]

\* The numbering of the calls: each has its own, and what is under way carries
\* the number of a call that was made.
Numbered ==
    /\ made \in [Thread -> Nat]
    /\ \A t \in Thread : Busy(t) => call[t].id \in 1 .. calls /\ call[t].req \in Request
    /\ \A t, u \in Thread : t # u /\ Busy(t) /\ Busy(u) => call[t].id # call[u].id
    /\ requests \in Seq(RequestsSoFar)
    /\ answers \in Seq(AnswersSoFar)
    /\ server.id \in 0 .. calls
    /\ server.id # 0 => server.req \in Request

\* What a thread's call is made of.
CallRecord == [id : Nat, req : Request \cup {NoRequest}, attempt : Nat,
               pending : Nat, result : Outcome, source : Nat]

\* The locals of _exchange start well typed.
LEMMA IdleType == Idle \in CallRecord
  BY DEF Idle, CallRecord, Outcome

\* UDSClient, the link and the ECU start well typed.
LEMMA InitType == ExchangeInit => ExchangeTypeOK /\ Numbered
<1> SUFFICES ASSUME ExchangeInit PROVE ExchangeTypeOK /\ Numbered
  OBVIOUS
<1> USE DEF ExchangeInit
<1>1. EcuTypeOK
  BY PowerOnType DEF EcuInit, EcuTypeOK
<1>2. /\ pc \in [Thread -> {"idle", "locking", "waiting", "pausing", "applying"}]
      /\ call \in [Thread -> CallRecord] /\ made \in [Thread -> Nat]
      /\ \A t \in Thread : made[t] \in 0 .. MaxCalls[t]
  BY IdleType, ExchangeAssumption
<1>3. client \in [session : SessionNames, secure : BOOLEAN, level : AskedLevels \cup {0}]
  BY DEF SessionNames
<1>4. /\ requests \in Seq(RequestsSoFar) /\ requests \in Seq([req : Request, id : Nat])
      /\ answers \in Seq(AnswersSoFar) /\ answers \in Seq(AnswerOnWire)
  OBVIOUS
<1>5. server \in [req : Request \cup {NoRequest}, id : Nat, left : 0 .. PendingCount]
  BY ExchangeAssumption
<1>6. /\ lock \in Thread \cup {Nobody} /\ calls \in Nat /\ abandoned \subseteq 1 .. calls
      /\ faults \in 0 .. MaxFaults
      /\ \A t \in Thread : lock = t <=> pc[t] \in {"waiting", "pausing"}
  BY ExchangeAssumption
<1> QED BY <1>1, <1>2, <1>3, <1>4, <1>5, <1>6 DEF ExchangeTypeOK, Numbered, Busy, CallRecord

\* The record of a call, taken apart.
LEMMA CallFields ==
    ASSUME ExchangeTypeOK, NEW t \in Thread
    PROVE  /\ call[t] \in CallRecord
           /\ call[t].id \in Nat /\ call[t].req \in Request \cup {NoRequest}
           /\ call[t].attempt \in Nat /\ call[t].pending \in Nat
           /\ call[t].result \in Outcome /\ call[t].source \in Nat
  BY DEF ExchangeTypeOK, CallRecord

\* The record of a new call.
LEMMA NewCall ==
    ASSUME NEW n \in Nat, NEW r \in Request
    PROVE  LET c == [Idle EXCEPT !.id = n, !.req = r]
           IN  c \in CallRecord /\ c.id = n /\ c.req = r
<1>1. ASSUME NEW d \in CallRecord
      PROVE  /\ [d EXCEPT !.id = n, !.req = r] \in CallRecord
             /\ [d EXCEPT !.id = n, !.req = r].id = n /\ [d EXCEPT !.id = n, !.req = r].req = r
  BY DEF CallRecord
<1> QED BY <1>1, IdleType

\* The updates of a call's record that _exchange makes: number and request stay.
LEMMA CallUpdates ==
    ASSUME NEW c \in CallRecord, NEW n \in Nat
    PROVE  /\ LET d == [c EXCEPT !.attempt = n, !.pending = 0]
              IN  /\ d \in CallRecord /\ d.id = c.id /\ d.req = c.req
                  /\ d.pending = 0
           /\ LET d == [c EXCEPT !.pending = n]
              IN  /\ d \in CallRecord /\ d.id = c.id /\ d.req = c.req
                  /\ d.pending = n
  BY DEF CallRecord

\* Where a thread is in send_request.
Place == {"idle", "locking", "waiting", "pausing", "applying"}

\* A step of one thread leaves the calls of the others alone, and its own call
\* keeps number and request until it ends.
LEMMA ThreadMoves ==
    ASSUME ExchangeTypeOK, Numbered, NEW t \in Thread, Busy(t), NEW c \in CallRecord, NEW p \in Place,
           pc' = [pc EXCEPT ![t] = p], call' = [call EXCEPT ![t] = c], calls' = calls,
           p # "idle" => c.id = call[t].id /\ c.req = call[t].req
    PROVE  /\ pc' \in [Thread -> Place] /\ call' \in [Thread -> CallRecord]
           /\ pc'[t] = p /\ call'[t] = c
           /\ \A u \in Thread \ {t} : pc'[u] = pc[u] /\ call'[u] = call[u]
           /\ \A u \in Thread : Busy(u)' => call'[u].id \in 1 .. calls' /\ call'[u].req \in Request
           /\ \A u, v \in Thread : u # v /\ Busy(u)' /\ Busy(v)' => call'[u].id # call'[v].id
<1>1. pc \in [Thread -> Place] /\ call \in [Thread -> CallRecord]
  BY DEF ExchangeTypeOK, CallRecord, Place
<1>2. /\ pc' \in [Thread -> Place] /\ call' \in [Thread -> CallRecord]
      /\ pc'[t] = p /\ call'[t] = c
      /\ \A u \in Thread \ {t} : pc'[u] = pc[u] /\ call'[u] = call[u]
  BY <1>1
<1>3. \A u \in Thread : Busy(u)' => /\ Busy(u) /\ call'[u].id = call[u].id
                                    /\ call'[u].req = call[u].req
  BY <1>2 DEF Busy
<1> QED BY <1>2, <1>3 DEF Numbered

\* A new call gets the next number, which nobody has and nothing carries.
LEMMA CallKeeps ==
    ASSUME ExchangeTypeOK, Numbered, NEW t \in Thread, NEW r \in Jobs[t], Call(t, r)
    PROVE  ExchangeTypeOK' /\ Numbered'
<1> DEFINE c == [Idle EXCEPT !.id = calls + 1, !.req = r]
<1>1. r \in Request /\ made[t] < MaxCalls[t] /\ made[t] \in Nat /\ MaxCalls[t] \in Nat
  BY ExchangeAssumption DEF Numbered, Call
<1>2. c \in CallRecord /\ c.id = calls + 1 /\ c.req = r
  <2>1. calls + 1 \in Nat
    BY DEF ExchangeTypeOK
  <2> QED BY <1>1, <2>1, NewCall
<1>3. call' = [call EXCEPT ![t] = c] /\ call \in [Thread -> CallRecord]
  BY DEF ExchangeTypeOK, CallRecord, Call
<1>4. made' = [made EXCEPT ![t] = @ + 1] /\ made \in [Thread -> Nat]
      /\ \A u \in Thread : made[u] \in 0 .. MaxCalls[u]
  BY DEF ExchangeTypeOK, Numbered, Call
<1>5. pc' = [pc EXCEPT ![t] = "locking"] /\ pc[t] = "idle"
      /\ pc \in [Thread -> {"idle", "locking", "waiting", "pausing", "applying"}]
  BY DEF ExchangeTypeOK, Call
<1>6. /\ calls' = calls + 1 /\ calls' \in Nat /\ calls \in Nat
      /\ 1 .. calls \subseteq 1 .. calls' /\ 0 .. calls \subseteq 0 .. calls'
  BY DEF ExchangeTypeOK, Call
<1> HIDE DEF c
<1>7. call' \in [Thread -> CallRecord] /\ call'[t] = c /\ \A u \in Thread \ {t} : call'[u] = call[u]
  BY <1>2, <1>3
<1>8. made' \in [Thread -> Nat] /\ \A u \in Thread : made'[u] \in 0 .. MaxCalls[u]
  BY <1>1, <1>4
<1>9. /\ pc' \in [Thread -> {"idle", "locking", "waiting", "pausing", "applying"}]
      /\ \A u \in Thread \ {t} : pc'[u] = pc[u]
      /\ \A u \in Thread : lock' = u <=> pc'[u] \in {"waiting", "pausing"}
  BY <1>5 DEF Call, ExchangeTypeOK
<1>10. abandoned' \subseteq 1 .. calls'
  BY <1>6 DEF Call, ExchangeTypeOK
<1>11. ExchangeTypeOK'
  BY <1>6, <1>7, <1>8, <1>9, <1>10 DEF ExchangeTypeOK, EcuTypeOK, CallRecord, wireVars, Call
<1>12. \A u \in Thread \ {t} : Busy(u)' => /\ call'[u].id \in 1 .. calls
                                           /\ call'[u].req \in Request
  BY <1>7, <1>9 DEF Numbered, Busy
<1>13. call'[t].id = calls + 1 /\ call'[t].id \in 1 .. calls' /\ call'[t].req \in Request
  BY <1>1, <1>2, <1>6, <1>7
<1>14. \A u, v \in Thread : u # v /\ Busy(u)' /\ Busy(v)' => call'[u].id # call'[v].id
  <2>1. \A u \in Thread \ {t} : Busy(u)' => call'[u].id # call'[t].id
    BY <1>6, <1>12, <1>13
  <2> QED BY <1>7, <1>9, <2>1 DEF Numbered, Busy
<1>15. requests' \in Seq(RequestsSoFar') /\ answers' \in Seq(AnswersSoFar')
  <2>1. RequestsSoFar \subseteq RequestsSoFar' /\ AnswersSoFar \subseteq AnswersSoFar'
    BY <1>6 DEF RequestsSoFar, AnswersSoFar
  <2> QED BY <2>1, SeqWiden DEF Numbered, wireVars, Call
<1>16. server'.id \in 0 .. calls' /\ (server'.id # 0 => server'.req \in Request)
  BY <1>6 DEF Numbered, Call
<1> QED BY <1>6, <1>8, <1>11, <1>12, <1>13, <1>14, <1>15, <1>16 DEF Numbered

\* A payload more on the way to the ECU.
LEMMA RequestAdded ==
    ASSUME ExchangeTypeOK, Numbered, NEW t \in Thread, Busy(t)
    PROVE  LET q == Append(requests, [req |-> call[t].req, id |-> call[t].id])
           IN  q \in Seq(RequestsSoFar) /\ q \in Seq([req : Request, id : Nat])
<1> DEFINE m == [req |-> call[t].req, id |-> call[t].id]
<1>1. m \in RequestsSoFar /\ m \in [req : Request, id : Nat]
  BY DEF Numbered, RequestsSoFar
<1> QED BY <1>1, AppendElements DEF Numbered, ExchangeTypeOK

\* transport.send_request: with the lock, or after the pause.
LEMMA SendKeeps ==
    ASSUME ExchangeTypeOK, Numbered, NEW t \in Thread, Send(t)
    PROVE  ExchangeTypeOK' /\ Numbered'
<1> DEFINE n == call[t].attempt + 1
           c == [call[t] EXCEPT !.attempt = n, !.pending = 0]
<1>1. /\ Busy(t) /\ (pc[t] = "pausing" \/ lock = Nobody)
      /\ lock' = t /\ pc' = [pc EXCEPT ![t] = "waiting"] /\ call' = [call EXCEPT ![t] = c]
      /\ requests' = Append(requests, [req |-> call[t].req, id |-> call[t].id])
      /\ UNCHANGED <<ecu, made, client, answers, server, calls, abandoned, faults>>
  BY DEF Send, MaySend, Busy
<1>2. n \in Nat
  BY CallFields
<1> HIDE DEF n
<1>3. c \in CallRecord /\ c.id = call[t].id /\ c.req = call[t].req
  BY <1>2, CallFields, CallUpdates
<1> HIDE DEF c
<1>4. /\ pc' \in [Thread -> Place] /\ call' \in [Thread -> CallRecord] /\ pc'[t] = "waiting"
      /\ \A u \in Thread \ {t} : pc'[u] = pc[u]
      /\ \A u \in Thread : Busy(u)' => call'[u].id \in 1 .. calls' /\ call'[u].req \in Request
      /\ \A u, v \in Thread : u # v /\ Busy(u)' /\ Busy(v)' => call'[u].id # call'[v].id
  BY <1>1, <1>3, ThreadMoves DEF Place
<1>5. \A u \in Thread : lock' = u <=> pc'[u] \in {"waiting", "pausing"}
  BY <1>1, <1>4, ExchangeAssumption DEF ExchangeTypeOK
<1>6. requests' \in Seq(RequestsSoFar') /\ requests' \in Seq([req : Request, id : Nat])
  BY <1>1, RequestAdded DEF RequestsSoFar
<1>7. ExchangeTypeOK'
  BY <1>1, <1>4, <1>5, <1>6 DEF ExchangeTypeOK, EcuTypeOK, CallRecord, Place
<1> QED BY <1>1, <1>4, <1>6, <1>7 DEF Numbered, AnswersSoFar

\* What client.state may hold.
ClientState == [session : SessionNames, secure : BOOLEAN, level : AskedLevels \cup {0}]

\* A step of a thread that puts nothing on the wire, and at most takes the
\* answer at the head of the queue.
ClientStep(t, p, c) ==
    /\ pc' = [pc EXCEPT ![t] = p] /\ call' = [call EXCEPT ![t] = c]
    /\ p # "idle" => c.id = call[t].id /\ c.req = call[t].req
    /\ lock' = IF p \in {"waiting", "pausing"} THEN t ELSE IF lock = t THEN Nobody ELSE lock
    /\ answers' = answers \/ (answers # <<>> /\ answers' = Tail(answers))
    /\ client' \in ClientState /\ abandoned' \subseteq 1 .. calls /\ faults' \in 0 .. MaxFaults
    /\ UNCHANGED <<ecu, made, requests, server, calls>>

LEMMA ClientStepKeeps ==
    ASSUME ExchangeTypeOK, Numbered, NEW t \in Thread, Busy(t), NEW p \in Place, NEW c \in CallRecord,
           p \in {"waiting", "pausing"} => lock = t,
           ClientStep(t, p, c)
    PROVE  ExchangeTypeOK' /\ Numbered'
<1>1. /\ pc' \in [Thread -> Place] /\ call' \in [Thread -> CallRecord] /\ pc'[t] = p
      /\ \A u \in Thread \ {t} : pc'[u] = pc[u]
      /\ \A u \in Thread : Busy(u)' => call'[u].id \in 1 .. calls' /\ call'[u].req \in Request
      /\ \A u, v \in Thread : u # v /\ Busy(u)' /\ Busy(v)' => call'[u].id # call'[v].id
  BY ThreadMoves DEF ClientStep
<1>2. \A u \in Thread : lock' = u <=> pc'[u] \in {"waiting", "pausing"}
  <2>1. CASE p \in {"waiting", "pausing"}
    BY <1>1, <2>1 DEF ExchangeTypeOK, ClientStep
  <2>2. CASE p \notin {"waiting", "pausing"}
    BY <1>1, <2>2, ExchangeAssumption DEF ExchangeTypeOK, ClientStep
  <2> QED BY <2>1, <2>2
<1>3. lock' \in Thread \cup {Nobody}
  BY DEF ExchangeTypeOK, ClientStep
<1>4. answers' \in Seq(AnswersSoFar') /\ answers' \in Seq(AnswerOnWire)
  <2>1. answers' \in Seq(AnswersSoFar) /\ answers' \in Seq(AnswerOnWire)
    <3>1. answers \in Seq(AnswersSoFar) /\ answers \in Seq(AnswerOnWire)
      BY DEF ExchangeTypeOK, Numbered
    <3>2. answers # <<>> => Tail(answers) \in Seq(AnswersSoFar) /\ Tail(answers) \in Seq(AnswerOnWire)
      BY <3>1, TailElements
    <3> QED BY <3>1, <3>2 DEF ClientStep
  <2> QED BY <2>1 DEF AnswersSoFar, ClientStep
<1>5. requests' \in Seq(RequestsSoFar')
  BY DEF ClientStep, RequestsSoFar, Numbered
<1>6. ExchangeTypeOK'
  BY <1>1, <1>2, <1>3, <1>4 DEF ClientStep, ExchangeTypeOK, EcuTypeOK, CallRecord, ClientState, Place
<1> QED BY <1>1, <1>4, <1>5, <1>6 DEF ClientStep, Numbered

\* Every action of a thread but its transmission is such a step.
LEMMA SendFailsIsStep ==
    ASSUME ExchangeTypeOK, Numbered, NEW t \in Thread, SendFails(t)
    PROVE  Busy(t) /\ ClientStep(t, "idle", Idle)
<1>1. faults' \in 0 .. MaxFaults
  BY ExchangeAssumption DEF SendFails, ExchangeTypeOK
<1>2. lock' = IF lock = t THEN Nobody ELSE lock
  BY DEF SendFails, MaySend, ExchangeTypeOK
<1> QED BY <1>1, <1>2 DEF SendFails, MaySend, Busy, ClientStep, ExchangeTypeOK, ClientState, wireVars

LEMMA TakePendingIsStep ==
    ASSUME ExchangeTypeOK, Numbered, NEW t \in Thread, TakePending(t)
    PROVE  /\ Busy(t) /\ lock = t
           /\ ClientStep(t, "waiting", [call[t] EXCEPT !.pending = call[t].pending + 1])
<1> DEFINE n == call[t].pending + 1
<1>1. Busy(t) /\ pc[t] = "waiting" /\ lock = t
  BY DEF TakePending, Receiving, Busy, ExchangeTypeOK
<1>2. pc' = [pc EXCEPT ![t] = "waiting"]
  BY <1>1 DEF TakePending, ExchangeTypeOK
<1>3. n \in Nat
  BY CallFields
<1> HIDE DEF n
<1>4. LET c == [call[t] EXCEPT !.pending = n] IN c.id = call[t].id /\ c.req = call[t].req
  BY <1>3, CallFields, CallUpdates
<1>5. call' = [call EXCEPT ![t] = [call[t] EXCEPT !.pending = n]]
  BY DEF TakePending, n, ExchangeTypeOK
<1> QED BY <1>1, <1>2, <1>4, <1>5 DEF ClientStep, TakePending, Receiving, ExchangeTypeOK, ClientState, n

LEMMA BusyAgainIsStep ==
    ASSUME ExchangeTypeOK, Numbered, NEW t \in Thread, BusyAgain(t)
    PROVE  Busy(t) /\ lock = t /\ ClientStep(t, "pausing", call[t])
<1>1. Busy(t) /\ pc[t] = "waiting" /\ lock = t
  BY DEF BusyAgain, Receiving, Busy, ExchangeTypeOK
<1>2. call' = [call EXCEPT ![t] = call[t]]
  BY DEF BusyAgain, ExchangeTypeOK
<1>3. abandoned' \subseteq 1 .. calls
  BY <1>1 DEF BusyAgain, ExchangeTypeOK, Numbered
<1> QED BY <1>1, <1>2, <1>3 DEF ClientStep, BusyAgain, Receiving, ExchangeTypeOK, ClientState

LEMMA RejectIsStep ==
    ASSUME ExchangeTypeOK, Numbered, NEW t \in Thread, RejectAnswer(t)
    PROVE  Busy(t) /\ lock = t /\ ClientStep(t, "idle", Idle)
<1>1. Busy(t) /\ pc[t] = "waiting" /\ lock = t
  BY DEF RejectAnswer, Receiving, Busy, ExchangeTypeOK
<1>2. abandoned' \subseteq 1 .. calls
  BY <1>1 DEF RejectAnswer, ExchangeTypeOK, Numbered
<1> QED BY <1>1, <1>2 DEF ClientStep, RejectAnswer, Receiving, ExchangeTypeOK, ClientState

\* What _exchange returns is kept with the call until it is applied.
LEMMA ReturnIsStep ==
    ASSUME ExchangeTypeOK, Numbered, NEW t \in Thread, NEW o \in Outcome, NEW n \in Nat,
           pc[t] = "waiting", Return(t, o, n),
           answers' = answers \/ (answers # <<>> /\ answers' = Tail(answers)),
           abandoned' \in {abandoned, abandoned \cup {call[t].id}}
    PROVE  /\ Busy(t) /\ lock = t
           /\ [call[t] EXCEPT !.result = o, !.source = n] \in CallRecord
           /\ ClientStep(t, "applying", [call[t] EXCEPT !.result = o, !.source = n])
<1> DEFINE c == [call[t] EXCEPT !.result = o, !.source = n]
<1>1. Busy(t) /\ lock = t
  BY DEF Busy, ExchangeTypeOK
<1>2. abandoned' \subseteq 1 .. calls
  BY <1>1 DEF ExchangeTypeOK, Numbered
<1>3. call' = [call EXCEPT ![t] = c]
  BY DEF Return, ExchangeTypeOK
<1>4. c \in CallRecord /\ c.id = call[t].id /\ c.req = call[t].req
  <2>1. call[t] \in CallRecord
    BY CallFields
  <2> QED BY <2>1 DEF CallRecord
<1> HIDE DEF c
<1>5. ClientStep(t, "applying", c)
  BY <1>1, <1>2, <1>3, <1>4 DEF ClientStep, Return, ExchangeTypeOK, ClientState
<1> QED BY <1>1, <1>4, <1>5 DEF c

LEMMA AcceptIsStep ==
    ASSUME ExchangeTypeOK, Numbered, NEW t \in Thread, AcceptAnswer(t)
    PROVE  \E c \in CallRecord : Busy(t) /\ lock = t /\ ClientStep(t, "applying", c)
<1> DEFINE m == Head(answers)
<1>1. m \in AnswersSoFar
  BY TailElements DEF Numbered, AcceptAnswer, Receiving
<1>2. m.nrc \in Outcome /\ m.id \in Nat
  BY <1>1 DEF AnswersSoFar, Outcome, ExchangeTypeOK
<1>3. /\ pc[t] = "waiting" /\ Return(t, m.nrc, m.id)
      /\ answers # <<>> /\ answers' = Tail(answers)
      /\ abandoned' \in {abandoned, abandoned \cup {call[t].id}}
  BY DEF AcceptAnswer, Receiving
<1> HIDE DEF m
<1> QED BY <1>2, <1>3, ReturnIsStep

LEMMA GiveUpIsStep ==
    ASSUME ExchangeTypeOK, Numbered, NEW t \in Thread, GiveUp(t)
    PROVE  \E c \in CallRecord : Busy(t) /\ lock = t /\ ClientStep(t, "applying", c)
<1> DEFINE o == IF call[t].req.quiet THEN "positive" ELSE "timeout"
<1>1. o \in Outcome /\ 0 \in Nat
  BY DEF Outcome, Answer
<1>2. /\ pc[t] = "waiting" /\ Return(t, o, 0) /\ answers' = answers
      /\ abandoned' \in {abandoned, abandoned \cup {call[t].id}}
  BY DEF GiveUp, WindowCloses
<1> HIDE DEF o
<1> QED BY <1>1, <1>2, ReturnIsStep

\* The sub-functions and levels of a request are those a client can ask for.
LEMMA RequestFields ==
    ASSUME NEW r \in Request
    PROVE  /\ r.svc = "session" => r.to \in SessionNames
           /\ r.svc = "key" => r.level \in AskedLevels /\ r.key \in Key
           /\ r.quiet \in BOOLEAN
  BY DEF Request

\* change_session, ecu_reset and security_access leave a client state.
LEMMA AppliedType ==
    ASSUME ExchangeTypeOK, Numbered, NEW t \in Thread, Apply(t)
    PROVE  client' \in ClientState
<1>1. client \in ClientState
  BY DEF ExchangeTypeOK, ClientState
<1>2. call[t].req \in Request
  BY DEF Apply, Numbered, Busy
<1>3. CASE ApplySession(t)
  BY <1>1, <1>2, <1>3, RequestFields DEF ApplySession, InSession, ClientState
<1>4. CASE ApplyReset(t)
  BY <1>1, <1>4 DEF ApplyReset, InSession, ClientState, SessionNames
<1>5. CASE ApplyKey(t)
  <2>1. call[t].req.level \in AskedLevels
    BY <1>2, <1>5, RequestFields DEF ApplyKey
  <2>2. /\ [client EXCEPT !.secure = TRUE, !.level = call[t].req.level] \in ClientState
        /\ [client EXCEPT !.secure = FALSE] \in ClientState
    BY <1>1, <2>1 DEF ClientState
  <2> QED BY <1>1, <1>5, <2>2 DEF ApplyKey
<1> QED BY <1>1, <1>3, <1>4, <1>5 DEF Apply, ApplyNothing

LEMMA ApplyIsStep ==
    ASSUME ExchangeTypeOK, Numbered, NEW t \in Thread, Apply(t)
    PROVE  Busy(t) /\ ClientStep(t, "idle", Idle)
<1>1. Busy(t) /\ lock # t
  BY DEF Apply, Busy, ExchangeTypeOK
<1> QED BY <1>1, AppliedType DEF ClientStep, Apply, ExchangeTypeOK, wireVars

\* The actions of the threads, all together: they keep the types and numbers.
LEMMA ThreadKeeps ==
    ASSUME ExchangeTypeOK, Numbered, NEW t \in Thread,
           SendFails(t) \/ TakePending(t) \/ BusyAgain(t) \/ RejectAnswer(t)
             \/ AcceptAnswer(t) \/ GiveUp(t) \/ Apply(t)
    PROVE  ExchangeTypeOK' /\ Numbered'
<1> USE DEF Place
<1>1. CASE SendFails(t) \/ RejectAnswer(t) \/ Apply(t)
  BY <1>1, SendFailsIsStep, RejectIsStep, ApplyIsStep, IdleType, ClientStepKeeps
<1>2. CASE TakePending(t)
  <2> DEFINE n == call[t].pending + 1
  <2>1. n \in Nat
    BY CallFields
  <2>2. ClientStep(t, "waiting", [call[t] EXCEPT !.pending = n]) /\ Busy(t) /\ lock = t
    BY <1>2, TakePendingIsStep
  <2> HIDE DEF n
  <2>3. [call[t] EXCEPT !.pending = n] \in CallRecord
    BY <2>1, CallFields, CallUpdates
  <2> QED BY <2>2, <2>3, ClientStepKeeps
<1>3. CASE BusyAgain(t)
  BY <1>3, BusyAgainIsStep, CallFields, ClientStepKeeps
<1>4. CASE AcceptAnswer(t) \/ GiveUp(t)
  BY <1>4, AcceptIsStep, GiveUpIsStep, ClientStepKeeps
<1> QED BY <1>1, <1>2, <1>3, <1>4

\* A step of the ECU or of the link: the threads' state stays.
WireStep ==
    /\ UNCHANGED clientVars
    /\ EcuTypeOK' /\ faults' \in 0 .. MaxFaults
    /\ requests' = requests \/ (requests # <<>> /\ requests' = Tail(requests))
    /\ \/ answers' = answers
       \/ answers # <<>> /\ answers' = Tail(answers)
       \/ \E m \in AnswersSoFar : answers' = Append(answers, m)
    /\ server' \in [req : Request \cup {NoRequest}, id : 0 .. calls, left : 0 .. PendingCount]
    /\ server'.id # 0 => server'.req \in Request

LEMMA WireStepKeeps ==
    ASSUME ExchangeTypeOK, Numbered, WireStep
    PROVE  ExchangeTypeOK' /\ Numbered'
<1>1. UNCHANGED <<pc, call, made, lock, client, calls, abandoned>>
  BY DEF WireStep, clientVars
<1>2. calls \in Nat /\ AnswersSoFar \subseteq AnswerOnWire
  BY DEF ExchangeTypeOK, AnswersSoFar, AnswerOnWire
<1>3. requests' \in Seq(RequestsSoFar) /\ requests' \in Seq([req : Request, id : Nat])
  <2>1. requests \in Seq(RequestsSoFar) /\ requests \in Seq([req : Request, id : Nat])
    BY DEF ExchangeTypeOK, Numbered
  <2>2. requests # <<>> => /\ Tail(requests) \in Seq(RequestsSoFar)
                           /\ Tail(requests) \in Seq([req : Request, id : Nat])
    BY <2>1, TailElements
  <2> QED BY <2>1, <2>2 DEF WireStep
<1>4. answers' \in Seq(AnswersSoFar) /\ answers' \in Seq(AnswerOnWire)
  <2>1. answers \in Seq(AnswersSoFar)
    BY DEF Numbered
  <2>2. answers # <<>> => Tail(answers) \in Seq(AnswersSoFar)
    BY <2>1, TailElements
  <2>3. \A m \in AnswersSoFar : Append(answers, m) \in Seq(AnswersSoFar)
    BY <2>1, AppendElements
  <2>4. answers' \in Seq(AnswersSoFar)
    BY <2>1, <2>2, <2>3 DEF WireStep
  <2> QED BY <2>4, <1>2, SeqWiden
<1>5. /\ server' \in [req : Request \cup {NoRequest}, id : Nat, left : 0 .. PendingCount]
      /\ server'.id \in 0 .. calls /\ (server'.id # 0 => server'.req \in Request)
  BY <1>2 DEF WireStep
<1>6. ExchangeTypeOK'
  BY <1>1, <1>3, <1>4, <1>5 DEF WireStep, ExchangeTypeOK
<1> QED BY <1>1, <1>3, <1>4, <1>5, <1>6 DEF Numbered, Busy, RequestsSoFar, AnswersSoFar

\* What the server is doing.
LEMMA ServerFields ==
    ASSUME ExchangeTypeOK, Numbered
    PROVE  /\ server \in [req : Request \cup {NoRequest}, id : 0 .. calls, left : 0 .. PendingCount]
           /\ server.left \in 0 .. PendingCount /\ PendingCount \in Nat
           /\ \A n \in 0 .. PendingCount : [server EXCEPT !.left = n] \in
                 [req : Request \cup {NoRequest}, id : 0 .. calls, left : 0 .. PendingCount]
           /\ server.id # 0 => \A a \in Answer \cup {"pending"} :
                 [svc |-> server.req.svc, nrc |-> a, id |-> server.id] \in AnswersSoFar
<1>1. server \in [req : Request \cup {NoRequest}, id : 0 .. calls, left : 0 .. PendingCount]
  BY DEF ExchangeTypeOK, Numbered
<1>2. \A n \in 0 .. PendingCount : [server EXCEPT !.left = n] \in
         [req : Request \cup {NoRequest}, id : 0 .. calls, left : 0 .. PendingCount]
  BY <1>1
<1>3. server.id # 0 => server.req \in Request /\ server.id \in 1 .. calls
  BY DEF Numbered, ExchangeTypeOK
<1> QED BY <1>1, <1>2, <1>3, ExchangeAssumption DEF AnswersSoFar

\* ECUSimulator takes a request, answers responsePending, answers.
LEMMA TakeIsStep ==
    ASSUME ExchangeTypeOK, Numbered, TakeRequest
    PROVE  WireStep
<1>1. requests # <<>> /\ Head(requests) \in RequestsSoFar
  BY TailElements DEF TakeRequest, Numbered
<1> QED BY <1>1, ExchangeAssumption DEF TakeRequest, WireStep, ExchangeTypeOK, EcuTypeOK, RequestsSoFar

LEMMA SendPendingIsStep ==
    ASSUME ExchangeTypeOK, Numbered, SendPending
    PROVE  WireStep
<1> DEFINE n == server.left - 1
           m == [svc |-> server.req.svc, nrc |-> "pending", id |-> server.id]
<1>1. n \in 0 .. PendingCount /\ server' = [server EXCEPT !.left = n]
  BY ServerFields DEF SendPending
<1>2. m \in AnswersSoFar /\ answers' = Append(answers, m)
  BY ServerFields DEF SendPending, Emit
<1> HIDE DEF n, m
<1>3. /\ server' \in [req : Request \cup {NoRequest}, id : 0 .. calls, left : 0 .. PendingCount]
      /\ server'.id = server.id /\ server'.req = server.req
  BY <1>1, ServerFields
<1> QED BY <1>2, <1>3 DEF SendPending, WireStep, ExchangeTypeOK, EcuTypeOK, Numbered

LEMMA AnsweringIsStep ==
    ASSUME ExchangeTypeOK, Numbered, Answering
    PROVE  WireStep
<1>1. PICK a \in Answer : /\ HandleRequest(server.req, a)
                          /\ \/ Withheld(server.req, a) /\ UNCHANGED answers
                             \/ ~Withheld(server.req, a) /\ Emit(a)
  BY DEF Answering
<1>2. server.id # 0 /\ server.req \in Request
  BY DEF Answering, Numbered
<1>3. EcuTypeOK'
  BY <1>1, <1>2, HandleType DEF ExchangeTypeOK
<1>4. answers' = answers \/ \E m \in AnswersSoFar : answers' = Append(answers, m)
  BY <1>1, <1>2, ServerFields DEF Emit
<1>5. server' \in [req : Request \cup {NoRequest}, id : 0 .. calls, left : 0 .. PendingCount]
      /\ server'.id = 0
  BY ExchangeAssumption DEF Answering, ExchangeTypeOK
<1> QED BY <1>3, <1>4, <1>5 DEF Answering, WireStep, ExchangeTypeOK

\* The security delay passes; a payload is lost.
LEMMA OutsideIsStep ==
    ASSUME ExchangeTypeOK, Numbered, DelayPasses \/ LosePayload
    PROVE  WireStep
<1>1. server \in [req : Request \cup {NoRequest}, id : 0 .. calls, left : 0 .. PendingCount]
      /\ (server.id # 0 => server.req \in Request)
  BY ServerFields DEF Numbered
<1>2. CASE DelayPasses
  <2>1. EcuTypeOK'
    BY <1>2, EcuFields DEF DelayPasses, DelayExpires, EcuTypeOK, EcuState, ExchangeTypeOK
  <2> QED BY <1>1, <1>2, <2>1 DEF DelayPasses, WireStep, wireVars, ExchangeTypeOK
<1>3. CASE LosePayload
  <2>1. faults' \in 0 .. MaxFaults
    BY <1>3, ExchangeAssumption DEF LosePayload, ExchangeTypeOK
  <2> QED BY <1>1, <1>3, <2>1 DEF LosePayload, WireStep, ExchangeTypeOK, EcuTypeOK
<1> QED BY <1>2, <1>3

\* No step of a thread, of the ECU or of the link breaks types or numbers.
LEMMA TypeStep == ExchangeTypeOK /\ Numbered /\ [ExchangeNext]_exchangeVars => ExchangeTypeOK' /\ Numbered'
<1> SUFFICES ASSUME ExchangeTypeOK, Numbered, [ExchangeNext]_exchangeVars PROVE ExchangeTypeOK' /\ Numbered'
  OBVIOUS
<1>1. CASE UNCHANGED exchangeVars
  BY <1>1 DEF exchangeVars, ExchangeTypeOK, EcuTypeOK, Numbered, Busy, RequestsSoFar, AnswersSoFar
<1>2. ASSUME NEW t \in Thread, Send(t) PROVE ExchangeTypeOK' /\ Numbered'
  BY <1>2, SendKeeps
<1>3. ASSUME NEW t \in Thread, NEW r \in Jobs[t], Call(t, r) PROVE ExchangeTypeOK' /\ Numbered'
  BY <1>3, CallKeeps
<1>4. ASSUME NEW t \in Thread,
             SendFails(t) \/ TakePending(t) \/ BusyAgain(t) \/ RejectAnswer(t)
               \/ AcceptAnswer(t) \/ GiveUp(t) \/ Apply(t)
      PROVE  ExchangeTypeOK' /\ Numbered'
  BY <1>4, ThreadKeeps
<1>5. CASE TakeRequest \/ SendPending \/ Answering \/ DelayPasses \/ LosePayload
  BY <1>5, TakeIsStep, SendPendingIsStep, AnsweringIsStep, OutsideIsStep, WireStepKeeps
<1> QED BY <1>1, <1>2, <1>3, <1>4, <1>5 DEF ExchangeNext, Work, Proceed, Serve, Rest

\* Type correctness of the client, the link and the ECU, with what the lock is
\* for: a thread holds it exactly while it exchanges, whatever is lost, refused,
\* late or given up (UDSClient.send_request).
THEOREM UdsTypeCorrect == ExchangeSpec => []ExchangeTypeOK
<1>1. ExchangeInit => ExchangeTypeOK /\ Numbered
  BY InitType
<1>2. ExchangeTypeOK /\ Numbered /\ [ExchangeNext]_exchangeVars => ExchangeTypeOK' /\ Numbered'
  BY TypeStep
<1> QED BY <1>1, <1>2, PTL DEF ExchangeSpec

-----------------------------------------------------------------------------
(* What is under way.                                                      *)

\* Something of call k is on its way or with the ECU.
Asked(k) == \E i \in DOMAIN requests : requests[i].id = k
Answered(k) == \E i \in DOMAIN answers : answers[i].id = k
UnderWay(k) == Asked(k) \/ Answered(k) \/ server.id = k

\* Of a call there is one thing under way that can still bring a final answer:
\* its request, or the ECU at work on it, or the answer, behind every
\* responsePending.
OneFinal(k) ==
    /\ \A i, j \in DOMAIN requests : requests[i].id = k /\ requests[j].id = k => i = j
    /\ Asked(k) => server.id # k /\ ~Answered(k)
    /\ \A i \in DOMAIN answers : answers[i].id = k /\ answers[i].nrc # "pending" =>
          /\ server.id # k
          /\ \A j \in DOMAIN answers : answers[j].id = k => j <= i

\* A thread that waits for the answer to call k.
Awaited(k) == \E t \in Thread : pc[t] = "waiting" /\ call[t].id = k

\* The inductive invariant: a call that was not given up is awaited as long as
\* anything of it is under way, and then there is one answer to come at most.
\* WireOwned alone is not inductive: that an exchange which took its answer
\* leaves nothing behind follows from there having been one answer only.
OwnedInv == \A k \in 1 .. calls \ abandoned : (UnderWay(k) => Awaited(k)) /\ OneFinal(k)

\* The domains of the two queues.
LEMMA Queues ==
    ASSUME Numbered
    PROVE  /\ DOMAIN requests = 1 .. Len(requests) /\ Len(requests) \in Nat
           /\ DOMAIN answers = 1 .. Len(answers) /\ Len(answers) \in Nat
           /\ \A i \in DOMAIN requests : requests[i] \in RequestsSoFar /\ requests[i].id \in 1 .. calls
           /\ \A i \in DOMAIN answers : answers[i] \in AnswersSoFar /\ answers[i].id \in 1 .. calls
<1>1. requests \in Seq(RequestsSoFar) /\ answers \in Seq(AnswersSoFar)
  BY DEF Numbered
<1>2. /\ DOMAIN requests = 1 .. Len(requests) /\ Len(requests) \in Nat
      /\ DOMAIN answers = 1 .. Len(answers) /\ Len(answers) \in Nat
      /\ \A i \in DOMAIN requests : requests[i] \in RequestsSoFar
      /\ \A i \in DOMAIN answers : answers[i] \in AnswersSoFar
  BY <1>1
<1> QED BY <1>2 DEF RequestsSoFar, AnswersSoFar

\* Taking the payload at the head of a queue.
LEMMA HeadTaken ==
    ASSUME Numbered
    PROVE  /\ requests # <<>> /\ requests' = Tail(requests) =>
                /\ 1 \in DOMAIN requests /\ Head(requests) = requests[1]
                /\ \A i \in DOMAIN requests' : i + 1 \in DOMAIN requests
                                               /\ requests'[i] = requests[i + 1]
                                               /\ i \in Nat
           /\ answers # <<>> /\ answers' = Tail(answers) =>
                /\ 1 \in DOMAIN answers /\ Head(answers) = answers[1]
                /\ \A i \in DOMAIN answers' : i + 1 \in DOMAIN answers
                                              /\ answers'[i] = answers[i + 1]
                                              /\ i \in Nat
<1>1. requests \in Seq(RequestsSoFar) /\ answers \in Seq(AnswersSoFar)
  BY DEF Numbered
<1>2. ASSUME requests # <<>>, requests' = Tail(requests)
      PROVE  /\ 1 \in DOMAIN requests /\ Head(requests) = requests[1]
             /\ \A i \in DOMAIN requests' : i + 1 \in DOMAIN requests
                                            /\ requests'[i] = requests[i + 1] /\ i \in Nat
  BY <1>1, <1>2, TailElements
<1>3. ASSUME answers # <<>>, answers' = Tail(answers)
      PROVE  /\ 1 \in DOMAIN answers /\ Head(answers) = answers[1]
             /\ \A i \in DOMAIN answers' : i + 1 \in DOMAIN answers
                                           /\ answers'[i] = answers[i + 1] /\ i \in Nat
  BY <1>1, <1>3, TailElements
<1> QED BY <1>2, <1>3

\* Fewer payloads under way: what was taken from a queue is all that changed.
Fewer ==
    /\ requests' = requests \/ (requests # <<>> /\ requests' = Tail(requests))
    /\ answers' = answers \/ (answers # <<>> /\ answers' = Tail(answers))
    /\ server'.id = server.id

\* That leaves nothing new, and one final answer at most.
LEMMA FewerKeeps ==
    ASSUME Numbered, Fewer, NEW k
    PROVE  /\ Asked(k)' => Asked(k)
           /\ Answered(k)' => Answered(k)
           /\ UnderWay(k)' => UnderWay(k)
           /\ OneFinal(k) => OneFinal(k)'
<1>1. Asked(k)' => Asked(k)
  BY HeadTaken DEF Fewer, Asked
<1>2. Answered(k)' => Answered(k)
  BY HeadTaken DEF Fewer, Answered
<1>3. ASSUME OneFinal(k), NEW i \in DOMAIN requests', NEW j \in DOMAIN requests',
             requests'[i].id = k, requests'[j].id = k
      PROVE  i = j
  <2>1. CASE requests' = requests
    BY <1>3, <2>1 DEF OneFinal
  <2>2. CASE requests # <<>> /\ requests' = Tail(requests)
    <3>1. i + 1 = j + 1 /\ i \in Nat /\ j \in Nat
      BY <1>3, <2>2, HeadTaken DEF OneFinal
    <3> QED BY <3>1
  <2> QED BY <2>1, <2>2 DEF Fewer
<1>4. ASSUME OneFinal(k), NEW i \in DOMAIN answers', NEW j \in DOMAIN answers',
             answers'[i].id = k, answers'[i].nrc # "pending", answers'[j].id = k
      PROVE  j <= i /\ server'.id # k
  <2>1. CASE answers' = answers
    BY <1>4, <2>1 DEF OneFinal, Fewer
  <2>2. CASE answers # <<>> /\ answers' = Tail(answers)
    <3>1. j + 1 <= i + 1 /\ i \in Nat /\ j \in Nat /\ server.id # k
      BY <1>4, <2>2, HeadTaken DEF OneFinal
    <3> QED BY <3>1 DEF Fewer
  <2> QED BY <2>1, <2>2 DEF Fewer
<1>5. OneFinal(k) => OneFinal(k)'
  <2> SUFFICES ASSUME OneFinal(k) PROVE OneFinal(k)'
    OBVIOUS
  <2>1. \A i, j \in DOMAIN requests' : requests'[i].id = k /\ requests'[j].id = k => i = j
    BY <1>3
  <2>2. Asked(k)' => server'.id # k /\ ~Answered(k)'
    BY <1>1, <1>2 DEF OneFinal, Fewer
  <2>3. \A i \in DOMAIN answers' : answers'[i].id = k /\ answers'[i].nrc # "pending" =>
          /\ server'.id # k
          /\ \A j \in DOMAIN answers' : answers'[j].id = k => j <= i
    BY <1>4
  <2> QED BY <2>1, <2>2, <2>3 DEF OneFinal
<1> QED BY <1>1, <1>2, <1>5 DEF UnderWay, Fewer

\* A thread that takes its own final answer: nothing more of its call comes.
LEMMA NothingLeft ==
    ASSUME Numbered, NEW k, OneFinal(k), answers # <<>>,
           Head(answers).id = k, Head(answers).nrc # "pending",
           answers' = Tail(answers), UNCHANGED <<requests, server>>
    PROVE  ~UnderWay(k)'
<1>1. 1 \in DOMAIN answers /\ answers[1].id = k /\ answers[1].nrc # "pending"
  BY HeadTaken
<1>2. server.id # k /\ \A j \in DOMAIN answers : answers[j].id = k => j <= 1
  BY <1>1 DEF OneFinal
<1>3. ~Asked(k)
  BY <1>1 DEF OneFinal, Answered
<1>4. ~Answered(k)'
  <2> SUFFICES ASSUME NEW i \in DOMAIN answers', answers'[i].id = k PROVE FALSE
    BY DEF Answered
  <2>1. i + 1 \in DOMAIN answers /\ answers[i + 1].id = k /\ i \in Nat
    BY HeadTaken
  <2>2. i + 1 <= 1 /\ i + 1 \in 1 .. Len(answers)
    BY <1>2, <2>1, Queues
  <2> QED BY <2>1, <2>2
<1> QED BY <1>2, <1>3, <1>4 DEF UnderWay, Asked

\* The steps of a thread other than its transmission keep the invariant: a
\* thread that stops waiting gave its call up or took its one final answer.
LEMMA OwnedClientStep ==
    ASSUME ExchangeTypeOK, Numbered, OwnedInv, NEW t \in Thread, NEW c, c = call[t].id,
           Fewer, UNCHANGED server, calls' = calls,
           \A u \in Thread \ {t} : pc'[u] = pc[u] /\ call'[u] = call[u],
           abandoned \subseteq abandoned',
           pc[t] = "waiting" =>
              \/ pc'[t] = "waiting" /\ call'[t].id = c
              \/ c \in abandoned'
              \/ ~UnderWay(c)'
    PROVE  OwnedInv'
<1> SUFFICES ASSUME NEW k \in 1 .. calls \ abandoned'
             PROVE  (UnderWay(k)' => Awaited(k)') /\ OneFinal(k)'
  BY DEF OwnedInv
<1>1. (UnderWay(k) => Awaited(k)) /\ OneFinal(k)
  BY DEF OwnedInv
<1>2. OneFinal(k)' /\ (UnderWay(k)' => UnderWay(k))
  BY <1>1, FewerKeeps
<1>3. ASSUME UnderWay(k)' PROVE Awaited(k)'
  <2>1. PICK u \in Thread : pc[u] = "waiting" /\ call[u].id = k
    BY <1>1, <1>2, <1>3 DEF Awaited
  <2>2. CASE u # t
    BY <2>1, <2>2 DEF Awaited
  <2>3. CASE u = t
    BY <1>3, <2>1, <2>3 DEF Awaited
  <2> QED BY <2>2, <2>3
<1> QED BY <1>2, <1>3

\* A request more on its way is the only thing under way of its call.
LEMMA OwnedSend ==
    ASSUME ExchangeTypeOK, Numbered, OwnedInv, NEW t \in Thread, Send(t)
    PROVE  OwnedInv'
<1> DEFINE c == call[t].id
           m == [req |-> call[t].req, id |-> c]
<1>1. /\ pc[t] \in {"locking", "pausing"} /\ Busy(t)
      /\ requests' = Append(requests, m)
      /\ UNCHANGED <<answers, server, calls, abandoned>>
      /\ pc'[t] = "waiting" /\ call'[t].id = c
      /\ \A u \in Thread \ {t} : pc'[u] = pc[u] /\ call'[u] = call[u]
  BY DEF Send, MaySend, ExchangeTypeOK, Busy
<1>2. c \notin abandoned => ~UnderWay(c)
  <2> SUFFICES ASSUME c \notin abandoned, UnderWay(c) PROVE FALSE
    OBVIOUS
  <2>1. c \in 1 .. calls
    BY <1>1 DEF Numbered
  <2>2. PICK u \in Thread : pc[u] = "waiting" /\ call[u].id = c
    BY <2>1 DEF OwnedInv, Awaited
  <2>3. u # t /\ Busy(u)
    BY <1>1, <2>2 DEF Busy
  <2> QED BY <1>1, <2>2, <2>3 DEF Numbered
<1>3. /\ \A i \in DOMAIN requests : i \in DOMAIN requests' /\ requests'[i] = requests[i]
      /\ \A i \in DOMAIN requests' : i \in DOMAIN requests \/ (requests'[i] = m /\ i = Len(requests) + 1)
      /\ Len(requests) \in Nat
  <2>1. m \in RequestsSoFar /\ requests \in Seq(RequestsSoFar)
    BY <1>1 DEF Numbered, RequestsSoFar
  <2> HIDE DEF m
  <2>2. /\ \A i \in 1 .. Len(requests) : requests'[i] = requests[i]
        /\ DOMAIN requests' = 1 .. Len(requests) + 1 /\ DOMAIN requests = 1 .. Len(requests)
        /\ requests'[Len(requests) + 1] = m /\ Len(requests) \in Nat
    BY <1>1, <2>1, AppendElements
  <2> QED BY <2>2
<1>4. m.id = c
  OBVIOUS
<1> SUFFICES ASSUME NEW k \in 1 .. calls \ abandoned
             PROVE  (UnderWay(k)' => Awaited(k)') /\ OneFinal(k)'
  BY <1>1 DEF OwnedInv
<1>5. (UnderWay(k) => Awaited(k)) /\ OneFinal(k)
  BY DEF OwnedInv
<1>6. CASE k # c
  <2>1. Asked(k)' <=> Asked(k)
    BY <1>3, <1>4, <1>6 DEF Asked
  <2>2. Answered(k)' <=> Answered(k)
    BY <1>1 DEF Answered
  <2>3. \A i, j \in DOMAIN requests' : requests'[i].id = k /\ requests'[j].id = k => i = j
    BY <1>3, <1>4, <1>5, <1>6 DEF OneFinal
  <2>4. OneFinal(k)'
    BY <1>1, <1>5, <2>1, <2>2, <2>3 DEF OneFinal
  <2>5. Awaited(k) => Awaited(k)'
    BY <1>1 DEF Awaited
  <2> QED BY <1>1, <1>5, <2>1, <2>2, <2>4, <2>5 DEF UnderWay
<1>7. CASE k = c
  <2>1. ~Asked(k) /\ ~Answered(k)' /\ server'.id # k /\ ~Answered(k)
    BY <1>1, <1>2, <1>7 DEF UnderWay, Answered
  <2>2. \A i, j \in DOMAIN requests' : requests'[i].id = k /\ requests'[j].id = k => i = j
    BY <1>3, <2>1 DEF Asked
  <2>3. OneFinal(k)'
    BY <2>1, <2>2 DEF OneFinal, Answered
  <2>4. Awaited(k)'
    BY <1>1, <1>7 DEF Awaited
  <2> QED BY <2>3, <2>4
<1> QED BY <1>6, <1>7

\* A new call has nothing under way.
LEMMA OwnedCall ==
    ASSUME ExchangeTypeOK, Numbered, OwnedInv, NEW t \in Thread, NEW r \in Jobs[t], Call(t, r)
    PROVE  OwnedInv'
<1>1. /\ UNCHANGED <<requests, answers, server, abandoned>> /\ calls' = calls + 1 /\ calls \in Nat
      /\ pc[t] = "idle" /\ \A u \in Thread \ {t} : pc'[u] = pc[u] /\ call'[u] = call[u]
  BY DEF Call, wireVars, ExchangeTypeOK
<1> SUFFICES ASSUME NEW k \in 1 .. calls + 1, k \notin abandoned
             PROVE  (UnderWay(k)' => Awaited(k)') /\ OneFinal(k)'
  BY <1>1 DEF OwnedInv
<1>2. (UnderWay(k)' <=> UnderWay(k)) /\ (OneFinal(k)' <=> OneFinal(k))
      /\ (Awaited(k) => Awaited(k)')
  BY <1>1 DEF UnderWay, OneFinal, Asked, Answered, Awaited
<1>3. CASE k \in 1 .. calls
  BY <1>2, <1>3 DEF OwnedInv
<1>4. CASE k \notin 1 .. calls
  <2>1. k = calls + 1 /\ server.id \in 0 .. calls
    BY <1>1, <1>4 DEF Numbered
  <2>2. ~UnderWay(k)
    BY <1>1, <1>4, <2>1, Queues DEF UnderWay, Asked, Answered
  <2>3. OneFinal(k)
    BY <2>2 DEF OneFinal, UnderWay, Asked, Answered
  <2> QED BY <1>2, <2>2, <2>3
<1> QED BY <1>3, <1>4

\* A step of the ECU that brings nothing new under way.
LEMMA OwnedServerStep ==
    ASSUME OwnedInv, UNCHANGED clientVars,
           \A k \in 1 .. calls : OneFinal(k) =>
               (UnderWay(k)' => UnderWay(k)) /\ OneFinal(k)'
    PROVE  OwnedInv'
<1>1. UNCHANGED <<pc, call, calls, abandoned>>
  BY DEF clientVars
<1> SUFFICES ASSUME NEW k \in 1 .. calls \ abandoned
             PROVE  (UnderWay(k)' => Awaited(k)') /\ OneFinal(k)'
  BY <1>1 DEF OwnedInv
<1>2. Awaited(k)' <=> Awaited(k)
  BY <1>1 DEF Awaited
<1> QED BY <1>2 DEF OwnedInv

\* ECUSimulator._serve takes the next request.
LEMMA OwnedTake ==
    ASSUME ExchangeTypeOK, Numbered, OwnedInv, TakeRequest
    PROVE  OwnedInv'
<1>1. /\ server.id = 0 /\ requests # <<>> /\ server'.id = Head(requests).id
      /\ requests' = Tail(requests) /\ answers' = answers /\ UNCHANGED clientVars
  BY DEF TakeRequest
<1>2. 1 \in DOMAIN requests /\ server'.id = requests[1].id
      /\ \A i \in DOMAIN requests' : /\ i + 1 \in DOMAIN requests /\ i \in Nat
                                     /\ requests'[i] = requests[i + 1]
  BY <1>1, HeadTaken
<1> SUFFICES ASSUME NEW k \in 1 .. calls, OneFinal(k)
             PROVE  (UnderWay(k)' => UnderWay(k)) /\ OneFinal(k)'
  BY <1>1, OwnedServerStep
<1>3. (Asked(k)' => Asked(k)) /\ (Answered(k)' <=> Answered(k))
  BY <1>1, <1>2 DEF Asked, Answered
<1>4. server'.id = k => Asked(k)
  BY <1>2 DEF Asked
<1>5. UnderWay(k)' => UnderWay(k)
  BY <1>3, <1>4 DEF UnderWay
<1>6. \A i, j \in DOMAIN requests' : requests'[i].id = k /\ requests'[j].id = k => i = j
  <2> SUFFICES ASSUME NEW i \in DOMAIN requests', NEW j \in DOMAIN requests',
                      requests'[i].id = k, requests'[j].id = k
               PROVE  i = j
    OBVIOUS
  <2>1. i + 1 = j + 1 /\ i \in Nat /\ j \in Nat
    BY <1>2 DEF OneFinal
  <2> QED BY <2>1
<1>7. server'.id = k => ~Asked(k)'
  <2> SUFFICES ASSUME server'.id = k, NEW i \in DOMAIN requests', requests'[i].id = k
               PROVE  FALSE
    BY DEF Asked
  <2>1. i + 1 = 1 /\ i \in Nat /\ i + 1 \in 1 .. Len(requests)
    BY <1>2, Queues DEF OneFinal
  <2>2. i \in DOMAIN requests' /\ i = 0
    BY <2>1
  <2>3. requests' \in Seq(RequestsSoFar)
    BY <1>1, TailElements DEF Numbered
  <2> QED BY <2>2, <2>3
<1>8. Asked(k) => ~Answered(k)
  BY DEF OneFinal
<1>9. \A i \in DOMAIN answers' : answers'[i].id = k /\ answers'[i].nrc # "pending" =>
          server'.id # k /\ \A j \in DOMAIN answers' : answers'[j].id = k => j <= i
  BY <1>1, <1>4, <1>8 DEF OneFinal, Answered
<1> QED BY <1>3, <1>5, <1>6, <1>7, <1>8, <1>9 DEF OneFinal

\* The ECU answers: what it sends goes behind all it sent before.
LEMMA Emitted ==
    ASSUME Numbered, NEW m \in AnswersSoFar, answers' = Append(answers, m)
    PROVE  /\ \A i \in DOMAIN answers : i \in DOMAIN answers' /\ answers'[i] = answers[i]
           /\ \A i \in DOMAIN answers' : i \in DOMAIN answers \/ (i = Len(answers) + 1 /\ answers'[i] = m)
           /\ \A i \in DOMAIN answers' : i \in Nat /\ i <= Len(answers) + 1
           /\ Len(answers) \in Nat
<1>1. answers \in Seq(AnswersSoFar)
  BY DEF Numbered
<1>2. /\ \A i \in 1 .. Len(answers) : answers'[i] = answers[i]
      /\ DOMAIN answers' = 1 .. Len(answers) + 1 /\ DOMAIN answers = 1 .. Len(answers)
      /\ answers'[Len(answers) + 1] = m /\ Len(answers) \in Nat
  BY <1>1, AppendElements
<1> QED BY <1>2

\* ECUSimulator._serve sends responsePending.
LEMMA OwnedSendPending ==
    ASSUME ExchangeTypeOK, Numbered, OwnedInv, SendPending
    PROVE  OwnedInv'
<1> DEFINE m == [svc |-> server.req.svc, nrc |-> "pending", id |-> server.id]
<1>1. /\ server.id # 0 /\ server'.id = server.id /\ requests' = requests /\ UNCHANGED clientVars
      /\ answers' = Append(answers, m) /\ m \in AnswersSoFar
  BY ServerFields DEF SendPending, Emit, ExchangeTypeOK
<1>2. m.id = server.id /\ m.nrc = "pending"
  OBVIOUS
<1> HIDE DEF m
<1> SUFFICES ASSUME NEW k \in 1 .. calls, OneFinal(k)
             PROVE  (UnderWay(k)' => UnderWay(k)) /\ OneFinal(k)'
  BY <1>1, OwnedServerStep
<1>3. Asked(k)' <=> Asked(k)
  BY <1>1 DEF Asked
<1>4. Answered(k)' => Answered(k) \/ server.id = k
  BY <1>1, <1>2, Emitted DEF Answered
<1>5. \A i \in DOMAIN answers' : answers'[i].id = k /\ answers'[i].nrc # "pending" =>
          server'.id # k /\ \A j \in DOMAIN answers' : answers'[j].id = k => j <= i
  <2> SUFFICES ASSUME NEW i \in DOMAIN answers', answers'[i].id = k, answers'[i].nrc # "pending",
                      NEW j \in DOMAIN answers', answers'[j].id = k
               PROVE  server'.id # k /\ j <= i
    OBVIOUS
  <2>1. i \in DOMAIN answers /\ answers[i] = answers'[i]
    BY <1>1, <1>2, Emitted
  <2>2. server.id # k
    BY <2>1 DEF OneFinal
  <2>3. j \in DOMAIN answers /\ answers[j] = answers'[j]
    BY <1>1, <1>2, <2>2, Emitted
  <2> QED BY <1>1, <2>1, <2>2, <2>3 DEF OneFinal
<1>6. OneFinal(k)'
  BY <1>1, <1>3, <1>4, <1>5 DEF OneFinal
<1> QED BY <1>1, <1>3, <1>4, <1>6 DEF UnderWay

\* ECUSimulator._answer: the final answer is the last of its call, when it is
\* sent at all.
LEMMA OwnedAnswering ==
    ASSUME ExchangeTypeOK, Numbered, OwnedInv, Answering
    PROVE  OwnedInv'
<1>1. PICK a \in Answer : answers' = answers \/ Emit(a)
  BY DEF Answering
<1> DEFINE m == [svc |-> server.req.svc, nrc |-> a, id |-> server.id]
<1>2. /\ server.id # 0 /\ server'.id = 0 /\ requests' = requests /\ UNCHANGED clientVars
      /\ answers' = answers \/ answers' = Append(answers, m)
      /\ m \in AnswersSoFar
  BY <1>1, ServerFields DEF Answering, Emit, ExchangeTypeOK
<1>3. m.id = server.id
  OBVIOUS
<1> HIDE DEF m
<1> SUFFICES ASSUME NEW k \in 1 .. calls, OneFinal(k)
             PROVE  (UnderWay(k)' => UnderWay(k)) /\ OneFinal(k)'
  BY <1>2, OwnedServerStep
<1>4. (Asked(k)' <=> Asked(k)) /\ server'.id # k
  BY <1>2 DEF Asked
<1>5. Answered(k)' => Answered(k) \/ server.id = k
  BY <1>2, <1>3, Emitted DEF Answered
<1>6. \A i \in DOMAIN answers' : answers'[i].id = k /\ answers'[i].nrc # "pending" =>
          \A j \in DOMAIN answers' : answers'[j].id = k => j <= i
  <2> SUFFICES ASSUME NEW i \in DOMAIN answers', answers'[i].id = k, answers'[i].nrc # "pending",
                      NEW j \in DOMAIN answers', answers'[j].id = k
               PROVE  j <= i
    OBVIOUS
  <2>1. CASE answers' = answers
    BY <2>1 DEF OneFinal
  <2>2. CASE answers' = Append(answers, m)
    <3>1. CASE i \in DOMAIN answers
      <4>1. answers[i] = answers'[i] /\ server.id # k
        BY <1>2, <2>2, <3>1, Emitted DEF OneFinal
      <4>2. j \in DOMAIN answers /\ answers[j] = answers'[j]
        BY <1>2, <1>3, <2>2, <4>1, Emitted
      <4> QED BY <3>1, <4>1, <4>2 DEF OneFinal
    <3>2. CASE i \notin DOMAIN answers
      BY <1>2, <2>2, <3>2, Emitted
    <3> QED BY <3>1, <3>2
  <2> QED BY <1>2, <2>1, <2>2
<1>7. OneFinal(k)'
  BY <1>2, <1>4, <1>5, <1>6 DEF OneFinal
<1> QED BY <1>4, <1>5, <1>7 DEF UnderWay

\* A thread's call ends, retries or waits on: it never leaves behind anything
\* of a call that was not given up.
LEMMA OwnedThread ==
    ASSUME ExchangeTypeOK, Numbered, OwnedInv, NEW t \in Thread,
           SendFails(t) \/ TakePending(t) \/ BusyAgain(t) \/ RejectAnswer(t)
             \/ AcceptAnswer(t) \/ GiveUp(t) \/ Apply(t)
    PROVE  OwnedInv'
<1> SUFFICES ASSUME NEW c, c = call[t].id PROVE OwnedInv'
  OBVIOUS
<1>1. /\ Fewer /\ UNCHANGED <<server, requests>> /\ calls' = calls
      /\ \A u \in Thread \ {t} : pc'[u] = pc[u] /\ call'[u] = call[u]
  BY DEF SendFails, TakePending, BusyAgain, RejectAnswer, AcceptAnswer, GiveUp, Apply, Return,
         WindowCloses, Receiving, wireVars, Fewer, ExchangeTypeOK
<1>2. abandoned \subseteq abandoned'
  BY DEF SendFails, TakePending, BusyAgain, RejectAnswer, AcceptAnswer, GiveUp, Apply
<1>3. CASE SendFails(t) \/ Apply(t)
  <2>1. pc[t] # "waiting"
    BY <1>3 DEF SendFails, MaySend, Apply
  <2> QED BY <1>1, <1>2, <2>1, OwnedClientStep
<1>4. CASE TakePending(t)
  <2>1. pc'[t] = pc[t] /\ call'[t].id = c
    BY <1>4 DEF TakePending, ExchangeTypeOK
  <2> QED BY <1>1, <1>2, <2>1, OwnedClientStep
<1>5. CASE RejectAnswer(t) \/ GiveUp(t)
  <2>1. c \in abandoned'
    BY <1>5 DEF RejectAnswer, GiveUp
  <2> QED BY <1>1, <1>2, <2>1, OwnedClientStep
<1>6. CASE BusyAgain(t) \/ AcceptAnswer(t)
  <2>1. /\ pc[t] = "waiting" /\ answers # <<>> /\ answers' = Tail(answers)
        /\ c \in abandoned' \/ (Head(answers).id = c /\ Head(answers).nrc # "pending")
    BY <1>6 DEF BusyAgain, AcceptAnswer, Receiving, Retries
  <2>2. c \in 1 .. calls
    BY <2>1 DEF Numbered, Busy
  <2>3. c \in abandoned' \/ ~UnderWay(c)'
    <3> SUFFICES ASSUME c \notin abandoned', Head(answers).id = c, Head(answers).nrc # "pending"
                 PROVE  ~UnderWay(c)'
      BY <2>1
    <3>1. OneFinal(c)
      BY <1>2, <2>2 DEF OwnedInv
    <3> QED BY <1>1, <2>1, <3>1, NothingLeft
  <2> QED BY <1>1, <1>2, <2>3, OwnedClientStep
<1> QED BY <1>3, <1>4, <1>5, <1>6

\* No step of a thread, of the ECU or of the link breaks the invariant.
LEMMA OwnedStep == ExchangeTypeOK /\ Numbered /\ OwnedInv /\ [ExchangeNext]_exchangeVars => OwnedInv'
<1> SUFFICES ASSUME ExchangeTypeOK, Numbered, OwnedInv, [ExchangeNext]_exchangeVars PROVE OwnedInv'
  OBVIOUS
<1>1. CASE UNCHANGED exchangeVars
  BY <1>1 DEF exchangeVars, OwnedInv, UnderWay, Asked, Answered, OneFinal, Awaited
<1>2. ASSUME NEW t \in Thread, Send(t) PROVE OwnedInv'
  BY <1>2, OwnedSend
<1>3. ASSUME NEW t \in Thread, NEW r \in Jobs[t], Call(t, r) PROVE OwnedInv'
  BY <1>3, OwnedCall
<1>4. ASSUME NEW t \in Thread,
             SendFails(t) \/ TakePending(t) \/ BusyAgain(t) \/ RejectAnswer(t)
               \/ AcceptAnswer(t) \/ GiveUp(t) \/ Apply(t)
      PROVE  OwnedInv'
  BY <1>4, OwnedThread
<1>5. CASE TakeRequest \/ SendPending \/ Answering
  BY <1>5, OwnedTake, OwnedSendPending, OwnedAnswering
<1>6. CASE DelayPasses \/ LosePayload
  <2>1. Fewer /\ UNCHANGED clientVars
    BY <1>6 DEF DelayPasses, LosePayload, Fewer, wireVars, clientVars
  <2> QED BY <2>1, FewerKeeps, OwnedServerStep
<1> QED BY <1>1, <1>2, <1>3, <1>4, <1>5, <1>6 DEF ExchangeNext, Work, Proceed, Serve, Rest

\* At the start nothing is under way.
LEMMA OwnedInit == ExchangeInit => OwnedInv
  BY DEF ExchangeInit, OwnedInv

\* The invariant says who owns what is under way.
LEMMA OwnedIsOwned == ExchangeTypeOK /\ Numbered /\ OwnedInv => WireOwned
<1> SUFFICES ASSUME ExchangeTypeOK, Numbered, OwnedInv PROVE WireOwned
  OBVIOUS
<1> DEFINE current == IF lock = Nobody THEN {} ELSE {call[lock].id}
<1>1. ASSUME NEW k \in 1 .. calls, UnderWay(k) PROVE k \in abandoned \cup current
  <2>1. CASE k \in abandoned
    BY <2>1
  <2>2. CASE k \notin abandoned
    <3>1. PICK t \in Thread : pc[t] = "waiting" /\ call[t].id = k
      BY <1>1, <2>2 DEF OwnedInv, Awaited
    <3>2. lock = t /\ t # Nobody
      BY <3>1, ExchangeAssumption DEF ExchangeTypeOK
    <3> QED BY <3>1, <3>2
  <2> QED BY <2>1, <2>2
<1>2. \A i \in DOMAIN requests : requests[i].id \in 1 .. calls /\ UnderWay(requests[i].id)
  BY Queues DEF UnderWay, Asked
<1>3. \A i \in DOMAIN answers : answers[i].id \in 1 .. calls /\ UnderWay(answers[i].id)
  BY Queues DEF UnderWay, Answered
<1>4. server.id # 0 => server.id \in 1 .. calls /\ UnderWay(server.id)
  BY DEF UnderWay, Numbered, ExchangeTypeOK
<1> HIDE DEF current
<1>5. {requests[i].id : i \in DOMAIN requests} \cup {answers[i].id : i \in DOMAIN answers}
          \cup ({server.id} \ {0}) \subseteq abandoned \cup current
  BY <1>1, <1>2, <1>3, <1>4
<1> QED BY <1>5 DEF WireOwned, current

\* However late the answers, whatever is lost or refused and however many
\* threads share the client: what is under way is the current exchange's, or
\* was left behind by a call that ended without its own final answer.  An
\* exchange that took its own answer leaves nothing for the next one to read
\* (UDSClient._exchange, TransportLayer.request, which flushes nothing).
THEOREM WireOwnedAlways == ExchangeSpec => []WireOwned
<1>1. ExchangeInit => ExchangeTypeOK /\ Numbered /\ OwnedInv
  BY InitType, OwnedInit
<1>2. ExchangeTypeOK /\ Numbered /\ OwnedInv /\ [ExchangeNext]_exchangeVars
         => ExchangeTypeOK' /\ Numbered' /\ OwnedInv'
  BY TypeStep, OwnedStep
<1>3. ExchangeTypeOK /\ Numbered /\ OwnedInv => WireOwned
  BY OwnedIsOwned
<1> QED BY <1>1, <1>2, <1>3, PTL DEF ExchangeSpec

-----------------------------------------------------------------------------
(* An ECU that keeps its times.                                            *)

\* Nothing is under way.
Still == requests = <<>> /\ answers = <<>> /\ server.id = 0

\* The stages of the exchange thread t waits in: the request is on its way;
\* the ECU is at work on it; the ECU is done with it.  The responsePending
\* answers taken, queued and still to come are no more than the ECU sends.
Requested(t) ==
    /\ requests = << [req |-> call[t].req, id |-> call[t].id] >>
    /\ answers = <<>> /\ server.id = 0 /\ call[t].pending = 0

Serving(t) ==
    /\ requests = <<>> /\ server.id = call[t].id /\ server.req = call[t].req
    /\ \A i \in 1 .. Len(answers) : answers[i].nrc = "pending"
    /\ call[t].pending + Len(answers) + server.left <= PendingCount

Served(t) ==
    /\ requests = <<>> /\ server.id = 0
    /\ \A i \in 1 .. Len(answers) : i < Len(answers) => answers[i].nrc = "pending"
    /\ call[t].pending + Len(answers) <= PendingCount + 1
    /\ call[t].pending + Len(answers) = PendingCount + 1 =>
          Len(answers) > 0 /\ answers[Len(answers)].nrc # "pending"

\* What waits for the client answers the request of thread t.
OwnQueue(t) ==
    \A i \in 1 .. Len(answers) : answers[i].id = call[t].id /\ answers[i].svc = call[t].req.svc

InTurn(t) == OwnQueue(t) /\ (Requested(t) \/ Serving(t) \/ Served(t))

\* The inductive invariant: between exchanges nothing is under way, and during
\* one all that is under way is of that one.
TurnInv ==
    /\ (\A t \in Thread : pc[t] # "waiting") => Still
    /\ \A t \in Thread : pc[t] = "waiting" => InTurn(t)

\* Only the holder of the lock waits for an answer.
LEMMA OneWaits ==
    ASSUME ExchangeTypeOK, NEW t \in Thread, NEW u \in Thread, lock \in {t, Nobody}, t # u
    PROVE  pc[u] # "waiting"
  BY ExchangeAssumption DEF ExchangeTypeOK

\* A step of a thread that neither waits before nor after it, and touches
\* neither the link nor the ECU.
LEMMA TurnAside ==
    ASSUME ExchangeTypeOK, TurnInv, NEW t \in Thread, UNCHANGED <<requests, answers, server>>,
           \A u \in Thread \ {t} : pc'[u] = pc[u] /\ call'[u] = call[u],
           pc[t] # "waiting", pc'[t] # "waiting"
    PROVE  TurnInv'
<1>1. (\A u \in Thread : pc'[u] # "waiting") => \A u \in Thread : pc[u] # "waiting"
  OBVIOUS
<1>2. Still => Still'
  BY DEF Still
<1>3. ASSUME NEW u \in Thread, pc'[u] = "waiting" PROVE InTurn(u)'
  <2>1. u # t /\ InTurn(u) /\ call'[u] = call[u]
    BY <1>3 DEF TurnInv
  <2> QED BY <2>1 DEF InTurn, OwnQueue, Requested, Serving, Served
<1> QED BY <1>1, <1>2, <1>3 DEF TurnInv

\* A step of the exchange thread t waits in, before and after it.
LEMMA TurnGoesOn ==
    ASSUME ExchangeTypeOK, ExchangeTypeOK', NEW t \in Thread, pc'[t] = "waiting", InTurn(t)'
    PROVE  TurnInv'
<1>1. \A u \in Thread \ {t} : pc'[u] # "waiting"
  BY DEF ExchangeTypeOK
<1> QED BY <1>1 DEF TurnInv

\* The end of an exchange: nothing is left under way.
LEMMA TurnEnds ==
    ASSUME ExchangeTypeOK, NEW t \in Thread, lock = t, Still', pc'[t] # "waiting",
           \A u \in Thread \ {t} : pc'[u] = pc[u]
    PROVE  TurnInv'
<1>1. \A u \in Thread : pc'[u] # "waiting"
  BY OneWaits
<1> QED BY <1>1 DEF TurnInv

\* The final answer is the last thing of an exchange in its turn.
LEMMA FinalIsLast ==
    ASSUME Numbered, NEW t \in Thread, InTurn(t), answers # <<>>, Head(answers).nrc # "pending"
    PROVE  requests = <<>> /\ server.id = 0 /\ Tail(answers) = <<>>
<1>1. /\ Len(answers) \in Nat \ {0} /\ answers[1].nrc # "pending" /\ answers \in Seq(AnswersSoFar)
      /\ Len(Tail(answers)) = Len(answers) - 1 /\ Tail(answers) \in Seq(AnswersSoFar)
  BY TailElements DEF Numbered
<1>2. Served(t) /\ 1 \in 1 .. Len(answers)
  BY <1>1 DEF InTurn, Requested, Serving
<1>3. Len(answers) = 1
  BY <1>1, <1>2 DEF Served
<1>4. Len(Tail(answers)) = 0
  BY <1>1, <1>3
<1> QED BY <1>1, <1>2, <1>4 DEF Served

\* In its turn a responsePending answer is never one too many, as long as the
\* client accepts as many as the ECU sends.
LEMMA PendingInLimit ==
    ASSUME ExchangeTypeOK, Numbered, PendingCount <= MaxPending, NEW t \in Thread, InTurn(t),
           answers # <<>>, Head(answers).nrc = "pending"
    PROVE  call[t].pending < MaxPending
<1>1. Len(answers) \in Nat \ {0} /\ answers[1].nrc = "pending"
  BY TailElements DEF Numbered
<1>2. call[t].pending \in Nat /\ PendingCount \in Nat /\ MaxPending \in Nat
      /\ server.left \in Nat
  BY CallFields, ServerFields, ExchangeAssumption
<1>3. CASE Serving(t)
  BY <1>1, <1>2, <1>3 DEF Serving
<1>4. CASE Served(t)
  <2>1. Len(answers) = 1 => call[t].pending + Len(answers) # PendingCount + 1
    BY <1>1, <1>4 DEF Served
  <2> QED BY <1>1, <1>2, <1>4, <2>1 DEF Served
<1> QED BY <1>1, <1>3, <1>4 DEF InTurn, Requested

\* The answer at the head of the queue is taken off it.
LEMMA HeadOff ==
    ASSUME Numbered, answers # <<>>, answers' = Tail(answers)
    PROVE  /\ Len(answers) \in Nat \ {0} /\ Len(answers') = Len(answers) - 1
           /\ Head(answers) = answers[1]
           /\ \A i \in 1 .. Len(answers') : /\ answers'[i] = answers[i + 1]
                                            /\ i + 1 \in 1 .. Len(answers) /\ i \in Nat
           /\ Len(answers') > 0 => answers'[Len(answers')] = answers[Len(answers)]
<1>1. answers \in Seq(AnswersSoFar)
  BY DEF Numbered
<1>2. /\ Len(answers) \in Nat \ {0} /\ Len(answers') = Len(answers) - 1
      /\ Head(answers) = answers[1]
      /\ \A i \in 1 .. Len(answers) - 1 : answers'[i] = answers[i + 1]
  BY <1>1, TailElements
<1> QED BY <1>2

\* A queue of one exchange, with the answer at its head taken, is still one.
LEMMA OwnQueueShrinks ==
    ASSUME Numbered, NEW t \in Thread, OwnQueue(t), answers # <<>>, answers' = Tail(answers),
           call'[t].id = call[t].id, call'[t].req = call[t].req
    PROVE  OwnQueue(t)'
  BY HeadOff DEF OwnQueue

\* TransportLayer.request sends when nothing is under way.
LEMMA TurnSend ==
    ASSUME ExchangeTypeOK, ExchangeTypeOK', TurnInv, NEW t \in Thread, Send(t)
    PROVE  TurnInv'
<1>1. \A u \in Thread : pc[u] # "waiting"
  BY OneWaits DEF Send, MaySend, ExchangeTypeOK
<1>2. Still
  BY <1>1 DEF TurnInv
<1>3. /\ requests' = << [req |-> call[t].req, id |-> call[t].id] >>
      /\ answers' = <<>> /\ server'.id = 0 /\ pc'[t] = "waiting"
  BY <1>2 DEF Send, Still, ExchangeTypeOK
<1>4. call'[t].req = call[t].req /\ call'[t].id = call[t].id /\ call'[t].pending = 0
  BY DEF Send, ExchangeTypeOK
<1>5. Requested(t)' /\ OwnQueue(t)'
  BY <1>3, <1>4 DEF Requested, OwnQueue
<1> QED BY <1>3, <1>5, TurnGoesOn DEF InTurn

\* PendingResponseHandler takes an answer and waits on.
LEMMA TurnTakePending ==
    ASSUME ExchangeTypeOK, ExchangeTypeOK', Numbered, TurnInv, NEW t \in Thread, TakePending(t)
    PROVE  TurnInv'
<1>1. /\ pc[t] = "waiting" /\ pc'[t] = "waiting" /\ answers # <<>> /\ answers' = Tail(answers)
      /\ Head(answers).nrc = "pending" /\ UNCHANGED <<requests, server>>
  BY DEF TakePending, Receiving, WaitsOn
<1>2. /\ call'[t].req = call[t].req /\ call'[t].id = call[t].id
      /\ call'[t].pending = call[t].pending + 1 /\ call[t].pending \in Nat
  <2>1. call \in [Thread -> CallRecord] /\ call[t] \in CallRecord /\ call[t].pending \in Nat
    BY CallFields DEF ExchangeTypeOK, CallRecord
  <2> QED BY <2>1 DEF TakePending, CallRecord
<1>3. InTurn(t)
  BY <1>1 DEF TurnInv
<1>4. OwnQueue(t)'
  BY <1>1, <1>2, <1>3, OwnQueueShrinks DEF InTurn
<1>5. PendingCount \in Nat /\ server.left \in Nat
  BY ServerFields
<1>6. CASE Serving(t)
  <2>1. Serving(t)'
    BY <1>1, <1>2, <1>5, <1>6, HeadOff DEF Serving
  <2> QED BY <1>1, <1>4, <2>1, TurnGoesOn DEF InTurn
<1>7. CASE Served(t)
  <2>1. /\ requests' = <<>> /\ server'.id = 0
        /\ \A i \in 1 .. Len(answers') : i < Len(answers') => answers'[i].nrc = "pending"
    BY <1>1, <1>7, HeadOff DEF Served
  <2>2. call'[t].pending + Len(answers') = call[t].pending + Len(answers)
    BY <1>1, <1>2, HeadOff
  <2>3. call[t].pending + Len(answers) = PendingCount + 1 => Len(answers) > 1
    BY <1>1, <1>7, HeadOff DEF Served
  <2>4. Served(t)'
    BY <1>1, <1>2, <1>5, <1>7, <2>1, <2>2, <2>3, HeadOff DEF Served
  <2> QED BY <1>1, <1>4, <2>4, TurnGoesOn DEF InTurn
<1> QED BY <1>1, <1>3, <1>6, <1>7 DEF InTurn, Requested

\* busyRepeatRequest: the pause starts with nothing under way.
LEMMA TurnBusyAgain ==
    ASSUME ExchangeTypeOK, Numbered, TurnInv, NEW t \in Thread, BusyAgain(t)
    PROVE  TurnInv'
<1>1. /\ pc[t] = "waiting" /\ pc'[t] # "waiting" /\ answers # <<>> /\ answers' = Tail(answers)
      /\ Head(answers).nrc # "pending" /\ UNCHANGED <<requests, server>> /\ lock = t
      /\ \A u \in Thread \ {t} : pc'[u] = pc[u]
  BY DEF BusyAgain, Receiving, Retries, ExchangeTypeOK
<1>2. InTurn(t)
  BY <1>1 DEF TurnInv
<1>3. Still'
  BY <1>1, <1>2, FinalIsLast DEF Still
<1> QED BY <1>1, <1>3, TurnEnds

\* The ECU echoes the service it was asked for: no answer is turned down.
LEMMA NeverRejected ==
    ASSUME ExchangeTypeOK, Numbered, TurnInv, NEW t \in Thread
    PROVE  ~RejectAnswer(t)
<1> SUFFICES ASSUME RejectAnswer(t) PROVE FALSE
  OBVIOUS
<1>1. pc[t] = "waiting" /\ answers # <<>> /\ ~EchoFits(t, Head(answers))
  BY DEF RejectAnswer, Receiving
<1>2. OwnQueue(t) /\ Len(answers) \in Nat \ {0} /\ Head(answers) = answers[1]
  BY <1>1, TailElements DEF TurnInv, InTurn, Numbered
<1>3. Head(answers).svc = call[t].req.svc
  BY <1>2 DEF OwnQueue
<1> QED BY <1>1, <1>3 DEF EchoFits

\* The answer taken is the thread's own, final, and the last thing under way.
LEMMA AcceptedIsOwn ==
    ASSUME ExchangeTypeOK, Numbered, PendingCount <= MaxPending, TurnInv,
           NEW t \in Thread, AcceptAnswer(t)
    PROVE  /\ Head(answers).id = call[t].id /\ Head(answers).nrc # "pending"
           /\ requests = <<>> /\ server.id = 0 /\ Tail(answers) = <<>>
<1>1. pc[t] = "waiting" /\ answers # <<>> /\ ~WaitsOn(t, Head(answers))
  BY DEF AcceptAnswer, Receiving
<1>2. InTurn(t)
  BY <1>1 DEF TurnInv
<1>3. Head(answers).nrc # "pending"
  BY <1>1, <1>2, PendingInLimit DEF WaitsOn
<1>4. Len(answers) \in Nat \ {0} /\ Head(answers) = answers[1]
  BY <1>1, TailElements DEF Numbered
<1>5. Head(answers).id = call[t].id
  BY <1>2, <1>4 DEF InTurn, OwnQueue
<1> QED BY <1>1, <1>2, <1>3, <1>5, FinalIsLast

LEMMA TurnAccept ==
    ASSUME ExchangeTypeOK, Numbered, PendingCount <= MaxPending, TurnInv,
           NEW t \in Thread, AcceptAnswer(t)
    PROVE  TurnInv'
<1>1. /\ pc[t] = "waiting" /\ pc'[t] # "waiting" /\ answers' = Tail(answers)
      /\ UNCHANGED <<requests, server>> /\ lock = t
      /\ \A u \in Thread \ {t} : pc'[u] = pc[u]
  BY DEF AcceptAnswer, Return, Receiving, ExchangeTypeOK
<1>2. Still'
  BY <1>1, AcceptedIsOwn DEF Still
<1> QED BY <1>1, <1>2, TurnEnds

\* A window that closes with nothing under way.
LEMMA TurnGiveUp ==
    ASSUME ExchangeTypeOK, NEW t \in Thread, Silent, GiveUp(t)
    PROVE  TurnInv'
<1>1. /\ pc[t] = "waiting" /\ pc'[t] # "waiting" /\ lock = t /\ Still'
      /\ \A u \in Thread \ {t} : pc'[u] = pc[u]
  BY DEF GiveUp, WindowCloses, Return, Silent, Still, ExchangeTypeOK
<1> QED BY <1>1, TurnEnds

\* While the link or the ECU has something in hand, somebody waits for it.
LEMMA SomebodyWaits ==
    ASSUME TurnInv, ~Still
    PROVE  \E t \in Thread : pc[t] = "waiting" /\ InTurn(t)
  BY DEF TurnInv

\* ECUSimulator._serve takes the request of the exchange.
LEMMA TurnTake ==
    ASSUME ExchangeTypeOK, ExchangeTypeOK', TurnInv, TakeRequest
    PROVE  TurnInv'
<1>1. /\ server.id = 0 /\ requests # <<>> /\ requests' = Tail(requests) /\ answers' = answers
      /\ server' = [req |-> Head(requests).req, id |-> Head(requests).id, left |-> PendingCount]
      /\ UNCHANGED <<pc, call>>
  BY DEF TakeRequest, clientVars
<1>2. PICK t \in Thread : pc[t] = "waiting" /\ InTurn(t)
  BY <1>1, SomebodyWaits DEF Still
<1>3. Requested(t)
  BY <1>1, <1>2 DEF InTurn, Serving, Served
<1>4. /\ requests' = <<>> /\ server'.id = call[t].id /\ server'.req = call[t].req
      /\ server'.left = PendingCount
  BY <1>1, <1>3 DEF Requested
<1>5. Serving(t)'
  BY <1>1, <1>3, <1>4, ExchangeAssumption DEF Requested, Serving
<1>6. OwnQueue(t)'
  BY <1>1, <1>3 DEF Requested, OwnQueue
<1> QED BY <1>1, <1>2, <1>5, <1>6, TurnGoesOn DEF InTurn

\* The answer the ECU adds is the last of the queue.
LEMMA AnswerLast ==
    ASSUME Numbered, NEW m \in AnswersSoFar, answers' = Append(answers, m)
    PROVE  /\ Len(answers) \in Nat /\ Len(answers') = Len(answers) + 1
           /\ answers'[Len(answers')] = m
           /\ \A i \in 1 .. Len(answers') : i < Len(answers') =>
                 i \in 1 .. Len(answers) /\ answers'[i] = answers[i]
           /\ \A i \in 1 .. Len(answers') : answers'[i] = m
                 \/ (i \in 1 .. Len(answers) /\ answers'[i] = answers[i])
<1>1. answers \in Seq(AnswersSoFar)
  BY DEF Numbered
<1>2. /\ Len(answers) \in Nat /\ Len(answers') = Len(answers) + 1
      /\ answers'[Len(answers) + 1] = m
      /\ \A i \in 1 .. Len(answers) : answers'[i] = answers[i]
  BY <1>1, AppendElements
<1> QED BY <1>2

\* ECUSimulator._serve sends one of its responsePending answers.
LEMMA TurnSendPending ==
    ASSUME ExchangeTypeOK, ExchangeTypeOK', Numbered, TurnInv, SendPending
    PROVE  TurnInv'
<1> DEFINE m == [svc |-> server.req.svc, nrc |-> "pending", id |-> server.id]
<1>1. /\ server.id # 0 /\ server.left > 0 /\ answers' = Append(answers, m) /\ m \in AnswersSoFar
      /\ requests' = requests /\ UNCHANGED <<pc, call>>
      /\ server'.id = server.id /\ server'.req = server.req /\ server'.left = server.left - 1
  BY ServerFields DEF SendPending, Emit, clientVars, ExchangeTypeOK
<1>2. m.svc = server.req.svc /\ m.nrc = "pending" /\ m.id = server.id
  OBVIOUS
<1> HIDE DEF m
<1>3. PICK t \in Thread : pc[t] = "waiting" /\ InTurn(t)
  BY <1>1, SomebodyWaits DEF Still
<1>4. Serving(t)
  BY <1>1, <1>3 DEF InTurn, Requested, Served
<1>5. \A i \in 1 .. Len(answers') : answers'[i].nrc = "pending"
  BY <1>1, <1>2, <1>4, AnswerLast DEF Serving
<1>6. call[t].pending \in Nat /\ server.left \in Nat /\ PendingCount \in Nat
  BY CallFields, ServerFields
<1>7. Serving(t)'
  BY <1>1, <1>4, <1>5, <1>6, AnswerLast DEF Serving
<1>8. OwnQueue(t)'
  BY <1>1, <1>2, <1>3, <1>4, AnswerLast DEF InTurn, OwnQueue, Serving
<1> QED BY <1>1, <1>3, <1>7, <1>8, TurnGoesOn DEF InTurn

\* ECUSimulator._answer: after the final answer, sent or withheld, the ECU is
\* done with the exchange.
LEMMA TurnAnswering ==
    ASSUME ExchangeTypeOK, ExchangeTypeOK', Numbered, TurnInv, Answering
    PROVE  TurnInv'
<1>1. PICK a \in Answer : answers' = answers \/ Emit(a)
  BY DEF Answering
<1> DEFINE m == [svc |-> server.req.svc, nrc |-> a, id |-> server.id]
<1>2. /\ server.id # 0 /\ server.left = 0 /\ server'.id = 0
      /\ requests' = requests /\ UNCHANGED <<pc, call>>
      /\ answers' = answers \/ answers' = Append(answers, m)
      /\ m \in AnswersSoFar
  BY <1>1, ServerFields DEF Answering, Emit, clientVars
<1>3. m.svc = server.req.svc /\ m.nrc # "pending" /\ m.id = server.id
  BY DEF Answer, Negative
<1> HIDE DEF m
<1>4. PICK t \in Thread : pc[t] = "waiting" /\ InTurn(t)
  BY <1>2, SomebodyWaits DEF Still
<1>5. Serving(t)
  BY <1>2, <1>4 DEF InTurn, Requested, Served
<1>6. call[t].pending \in Nat /\ PendingCount \in Nat /\ Len(answers) \in Nat
  BY CallFields, ServerFields, Queues
<1>7. CASE answers' = answers
  <2>1. Served(t)'
    BY <1>2, <1>5, <1>6, <1>7 DEF Serving, Served
  <2>2. OwnQueue(t)'
    BY <1>2, <1>4, <1>7 DEF InTurn, OwnQueue
  <2> QED BY <1>2, <1>4, <2>1, <2>2, TurnGoesOn DEF InTurn
<1>8. CASE answers' = Append(answers, m)
  <2>1. \A i \in 1 .. Len(answers') : i < Len(answers') => answers'[i].nrc = "pending"
    BY <1>2, <1>5, <1>8, AnswerLast DEF Serving
  <2>2. Served(t)'
    BY <1>2, <1>3, <1>5, <1>6, <1>8, <2>1, AnswerLast DEF Serving, Served
  <2>3. OwnQueue(t)'
    BY <1>2, <1>3, <1>4, <1>5, <1>8, AnswerLast DEF InTurn, OwnQueue, Serving
  <2> QED BY <1>2, <1>4, <2>2, <2>3, TurnGoesOn DEF InTurn
<1> QED BY <1>2, <1>7, <1>8

\* A lost payload leaves less of the same exchange under way.
LEMMA TurnLose ==
    ASSUME ExchangeTypeOK, ExchangeTypeOK', Numbered, TurnInv, LosePayload
    PROVE  TurnInv'
<1>1. UNCHANGED <<pc, call, server>>
  BY DEF LosePayload, clientVars
<1>2. ~Still
  BY DEF LosePayload, Still
<1>3. PICK t \in Thread : pc[t] = "waiting" /\ InTurn(t)
  BY <1>2, SomebodyWaits
<1>4. call[t].pending \in Nat /\ PendingCount \in Nat /\ server.left \in Nat /\ Len(answers) \in Nat
  BY CallFields, ServerFields, Queues
<1>5. CASE requests # <<>> /\ requests' = Tail(requests) /\ answers' = answers
  <2>1. Requested(t)
    BY <1>3, <1>5 DEF InTurn, Serving, Served
  <2>2. requests' = <<>> /\ answers' = <<>> /\ server'.id = 0 /\ call'[t].pending = 0
    BY <1>1, <1>5, <2>1 DEF Requested
  <2>3. Served(t)' /\ OwnQueue(t)'
    BY <1>4, <2>2 DEF Served, OwnQueue
  <2> QED BY <1>1, <1>3, <2>3, TurnGoesOn DEF InTurn
<1>6. CASE answers # <<>> /\ answers' = Tail(answers) /\ requests' = requests
  <2>1. OwnQueue(t)'
    BY <1>1, <1>3, <1>6, OwnQueueShrinks DEF InTurn
  <2>2. CASE Serving(t)
    <3>1. Serving(t)'
      BY <1>1, <1>4, <1>6, <2>2, HeadOff DEF Serving
    <3> QED BY <1>1, <1>3, <2>1, <3>1, TurnGoesOn DEF InTurn
  <2>3. CASE Served(t)
    <3>1. \A i \in 1 .. Len(answers') : i < Len(answers') => answers'[i].nrc = "pending"
      BY <1>6, <2>3, HeadOff DEF Served
    <3>2. call'[t].pending + Len(answers') < PendingCount + 1
      BY <1>1, <1>4, <1>6, <2>3, HeadOff DEF Served
    <3>3. Served(t)'
      BY <1>1, <1>4, <1>6, <2>3, <3>1, <3>2, HeadOff DEF Served
    <3> QED BY <1>1, <1>3, <2>1, <3>3, TurnGoesOn DEF InTurn
  <2> QED BY <1>3, <1>6, <2>2, <2>3 DEF InTurn, Requested
<1> QED BY <1>5, <1>6 DEF LosePayload

\* An ECU that keeps its times takes no steps but those of ExchangeNext.
LEMMA PromptIsNext == [PromptExchangeNext]_exchangeVars => [ExchangeNext]_exchangeVars
  BY DEF PromptExchangeNext, ExchangeNext

\* No step of a prompt exchange breaks its turns.
LEMMA TurnStep ==
    ASSUME PendingCount <= MaxPending
    PROVE  ExchangeTypeOK /\ Numbered /\ TurnInv /\ [PromptExchangeNext]_exchangeVars => TurnInv'
<1> SUFFICES ASSUME ExchangeTypeOK, Numbered, TurnInv, [PromptExchangeNext]_exchangeVars PROVE TurnInv'
  OBVIOUS
<1>0. ExchangeTypeOK'
  BY PromptIsNext, TypeStep
<1>1. CASE UNCHANGED exchangeVars
  BY <1>1 DEF exchangeVars, TurnInv, Still, InTurn, OwnQueue, Requested, Serving, Served
<1>2. ASSUME NEW t \in Thread, Send(t) PROVE TurnInv'
  BY <1>0, <1>2, TurnSend
<1>3. ASSUME NEW t \in Thread, (\E r \in Jobs[t] : Call(t, r)) \/ SendFails(t) \/ Apply(t)
      PROVE  TurnInv'
  <2>1. /\ UNCHANGED <<requests, answers, server>> /\ pc[t] # "waiting" /\ pc'[t] # "waiting"
        /\ \A u \in Thread \ {t} : pc'[u] = pc[u] /\ call'[u] = call[u]
    BY <1>3 DEF Call, SendFails, Apply, MaySend, wireVars, ExchangeTypeOK
  <2> QED BY <2>1, TurnAside
<1>4. ASSUME NEW t \in Thread, TakePending(t) PROVE TurnInv'
  BY <1>0, <1>4, TurnTakePending
<1>5. ASSUME NEW t \in Thread, BusyAgain(t) PROVE TurnInv'
  BY <1>5, TurnBusyAgain
<1>6. ASSUME NEW t \in Thread, RejectAnswer(t) PROVE TurnInv'
  BY <1>6, NeverRejected
<1>7. ASSUME NEW t \in Thread, AcceptAnswer(t) PROVE TurnInv'
  BY <1>7, TurnAccept
<1>8. ASSUME NEW t \in Thread, Silent, GiveUp(t) PROVE TurnInv'
  BY <1>8, TurnGiveUp
<1>9. CASE TakeRequest \/ SendPending \/ Answering \/ LosePayload
  BY <1>0, <1>9, TurnTake, TurnSendPending, TurnAnswering, TurnLose
<1>10. CASE DelayPasses
  BY <1>10 DEF DelayPasses, clientVars, wireVars, TurnInv, Still, InTurn, OwnQueue,
               Requested, Serving, Served
<1> QED BY <1>1, <1>2, <1>3, <1>4, <1>5, <1>6, <1>7, <1>8, <1>9, <1>10
        DEF PromptExchangeNext, Work, Proceed, Serve, Rest

\* The answer a call is given is its own, or none.
LEMMA OwnAnswerStep ==
    ASSUME PendingCount <= MaxPending
    PROVE  ExchangeTypeOK /\ Numbered /\ TurnInv /\ OwnAnswer /\ [PromptExchangeNext]_exchangeVars
           => OwnAnswer'
<1> SUFFICES ASSUME ExchangeTypeOK, Numbered, TurnInv, OwnAnswer, [PromptExchangeNext]_exchangeVars,
                    NEW t \in Thread, pc'[t] = "applying"
             PROVE  call'[t].source \in {0, call'[t].id}
  BY DEF OwnAnswer
<1>1. CASE pc'[t] = pc[t] /\ call'[t] = call[t]
  BY <1>1 DEF OwnAnswer
<1>2. ASSUME NEW u \in Thread, u # t, Proceed(u) \/ SendFails(u) \/ GiveUp(u)
                                        \/ \E r \in Jobs[u] : Call(u, r)
      PROVE  pc'[t] = pc[t] /\ call'[t] = call[t]
  BY <1>2 DEF Proceed, Send, SendFails, GiveUp, Call, TakePending, BusyAgain, RejectAnswer,
              AcceptAnswer, Apply, Return, ExchangeTypeOK
<1>3. CASE Send(t) \/ SendFails(t) \/ TakePending(t) \/ BusyAgain(t) \/ RejectAnswer(t) \/ Apply(t)
             \/ \E r \in Jobs[t] : Call(t, r)
  <2>1. pc'[t] # "applying"
    BY <1>3 DEF Send, SendFails, Call, TakePending, Receiving, BusyAgain, RejectAnswer, Apply, ExchangeTypeOK
  <2> QED BY <2>1
<1>4. CASE AcceptAnswer(t)
  <2>1. call'[t].source = Head(answers).id /\ call'[t].id = call[t].id
    BY <1>4 DEF AcceptAnswer, Return, ExchangeTypeOK
  <2> QED BY <1>4, <2>1, AcceptedIsOwn
<1>5. CASE GiveUp(t)
  <2>1. call'[t].source = 0
    BY <1>5 DEF GiveUp, Return, ExchangeTypeOK
  <2> QED BY <2>1
<1>6. CASE UNCHANGED exchangeVars \/ Serve \/ DelayPasses \/ LosePayload \/ Rest
  <2>1. UNCHANGED <<pc, call>>
    BY <1>6 DEF exchangeVars, Serve, TakeRequest, SendPending, Answering, DelayPasses, LosePayload, Rest, clientVars
  <2> QED BY <1>1, <2>1
<1> QED BY <1>1, <1>2, <1>3, <1>4, <1>5, <1>6 DEF PromptExchangeNext, Work, Proceed

\* Between an ECU that keeps its times and sends no more responsePending than
\* the client accepts (20 by default, the simulator sends one), no call is
\* given the answer to another call's request, however many threads share the
\* client and whatever is lost (UDSClient._exchange, _validate_echo).
THEOREM OwnAnswerAlways ==
    ASSUME PendingCount <= MaxPending
    PROVE  PromptExchangeSpec => []OwnAnswer
<1>1. ExchangeInit => ExchangeTypeOK /\ Numbered /\ TurnInv /\ OwnAnswer
  BY InitType DEF ExchangeInit, TurnInv, Still, OwnAnswer
<1>2. ExchangeTypeOK /\ Numbered /\ TurnInv /\ OwnAnswer /\ [PromptExchangeNext]_exchangeVars
        => ExchangeTypeOK' /\ Numbered' /\ TurnInv' /\ OwnAnswer'
  BY PromptIsNext, TypeStep, TurnStep, OwnAnswerStep
<1> QED BY <1>1, <1>2, PTL DEF PromptExchangeSpec

-----------------------------------------------------------------------------
(* The client's picture of the ECU.                                        *)

\* One thread at most makes the requests whose answers change client.state; the
\* others (tester present, reading, routines) are free.  With two such threads
\* the states diverge, as the run uds_threads shows.
OneOperator(op) ==
    \A t \in Thread \ {op} : \A r \in Jobs[t] : r.svc \notin {"session", "reset", "key"}

\* A client state that describes the ECU.
Agrees(c) == c.session = ecu.session /\ (c.secure => ecu.unlocked = c.level)

\* What a positive answer to request r makes of client.state.
AfterPositive(r) ==
    IF r.svc = "session" THEN InSession(r.to)
    ELSE IF r.svc = "reset" THEN InSession("default")
    ELSE IF r.svc = "key" /\ r.key # "none" THEN [client EXCEPT !.secure = TRUE, !.level = r.level]
    ELSE client

\* The client describes the ECU once the answer o to request r is applied.
Owed(r, o) == IF o = "positive" THEN Agrees(AfterPositive(r)) ELSE Agrees(client)

\* The final answer of the exchange is in the queue.
FinalQueued == Len(answers) > 0 /\ answers[Len(answers)].nrc # "pending"

\* The inductive invariant for the operator's thread.  Without a fault the
\* client describes the ECU but for the answer that is on its way or waits to
\* be applied; when the ECU is done and sent none, it withheld a positive one.
DebtInv(op) ==
    faults = 0 =>
        LET r == call[op].req IN
        /\ pc[op] \notin {"waiting", "applying"} => Agrees(client)
        /\ pc[op] = "applying" => Owed(r, call[op].result)
        /\ pc[op] = "waiting" =>
             /\ ~(requests = <<>> /\ server.id = 0) => Agrees(client)
             /\ requests = <<>> /\ server.id = 0 /\ FinalQueued => Owed(r, answers[Len(answers)].nrc)
             /\ requests = <<>> /\ server.id = 0 /\ ~FinalQueued => r.quiet /\ Owed(r, "positive")

\* A seed that was used up unlocked the level it was for; an unlocked client
\* knows its level; a thread makes its own requests.
SeedUsed == ecu.seed = "none" /\ ecu.unlocked # 0 => ecu.level = ecu.unlocked
LevelKnown == client.secure => client.level # 0
OwnJobs == \A t \in Thread : Busy(t) => call[t].req \in Jobs[t]

\* The fields of the client's state.
LEMMA ClientFields ==
    ASSUME ExchangeTypeOK
    PROVE  /\ client \in ClientState /\ client.session \in SessionNames
           /\ client.secure \in BOOLEAN /\ client.level \in AskedLevels \cup {0}
  BY DEF ExchangeTypeOK, ClientState

\* Of the handlers three change what a client keeps track of.
LEMMA OthersLeave ==
    ASSUME ExchangeTypeOK, NEW r \in Request, NEW a \in Answer, HandleRequest(r, a)
    PROVE  \/ SessionControl(r, a) \/ EcuReset(r, a) \/ RightKey(r, a)
           \/ /\ ecu'.session = ecu.session /\ ecu'.unlocked = ecu.unlocked
              /\ (r.svc \in {"session", "reset", "key"} => a # "positive")
              /\ (ecu'.seed = ecu.seed /\ ecu'.level = ecu.level) \/ ecu'.seed # "none"
<1>1. EcuTypeOK
  BY DEF ExchangeTypeOK
<1>2. CASE InjectError(a) \/ SecurityBarred(r, a) \/ KeyOutOfSequence(r, a)
  <2>1. UNCHANGED ecu /\ a # "positive"
    BY <1>2 DEF InjectError, SecurityBarred, KeyOutOfSequence, Refuse
  <2> QED BY <2>1
<1>3. CASE RequestSeed(r, a)
  BY <1>1, <1>3, EcuFields DEF RequestSeed, Refuse, EcuTypeOK, EcuState
<1>4. CASE WrongKey(r, a)
  BY <1>1, <1>4, EcuFields DEF WrongKey, EcuTypeOK, EcuState
<1>5. CASE RequestDownload(r, a) \/ TransferData(r, a) \/ TransferExit(r, a)
  <2>1. r.svc \notin {"session", "reset", "key"}
    BY <1>5 DEF RequestDownload, TransferData, TransferExit
  <2>2. ecu'.session = ecu.session /\ ecu'.unlocked = ecu.unlocked
        /\ ecu'.seed = ecu.seed /\ ecu'.level = ecu.level
    BY <1>1, <1>5, EcuFields DEF RequestDownload, TransferData, TransferExit, Refuse, EcuTypeOK, EcuState
  <2> QED BY <2>1, <2>2
<1>6. CASE Harmless(r, a)
  <2>1. r.svc \notin {"session", "reset", "key"}
    BY <1>6 DEF Harmless, IoControl, WriteDid, RoutineControl, ControlDtcSetting,
                CommunicationControl, ReadDtc, ClearDtc, Stateless
  <2>2. UNCHANGED ecu
    BY <1>6, HarmlessUnchanged
  <2> QED BY <2>1, <2>2
<1> QED BY <1>2, <1>3, <1>4, <1>5, <1>6 DEF HandleRequest, Harmless

\* Whatever the ECU answers: once that answer is applied, the client describes
\* the ECU as it did before.
LEMMA HandledAgrees ==
    ASSUME ExchangeTypeOK, SeedUsed, LevelKnown, Agrees(client), NEW r \in Request, NEW a \in Answer,
           HandleRequest(r, a), client' = client
    PROVE  Owed(r, a)'
<1>1. ecu \in EcuState /\ client \in ClientState
  BY ClientFields DEF ExchangeTypeOK, EcuTypeOK
<1>2. CASE SessionControl(r, a)
  <2>1. CASE r.to \notin Sessions
    BY <1>2, <2>1 DEF SessionControl, Refuse, Owed, Agrees
  <2>2. CASE r.to \in Sessions
    <3>1. /\ a = "positive" /\ r.svc = "session" /\ ecu'.session = r.to
          /\ r.to # "default" => ecu'.unlocked = ecu.unlocked
      BY <1>1, <1>2, <2>2 DEF SessionControl, EcuState
    <3>2. /\ InSession(r.to)'.session = r.to
          /\ InSession(r.to)'.secure => /\ r.to # "default" /\ client.secure
                                        /\ InSession(r.to)'.level = client.level
      BY <1>1 DEF InSession, ClientState
    <3> QED BY <3>1, <3>2 DEF Owed, AfterPositive, Agrees
  <2> QED BY <2>1, <2>2
<1>3. CASE EcuReset(r, a)
  BY <1>3 DEF EcuReset, Refuse, PowerOn, Owed, AfterPositive, InSession, Agrees
<1>4. CASE RightKey(r, a)
  <2>1. /\ a = "positive" /\ r.svc = "key" /\ ecu'.session = ecu.session /\ ecu'.unlocked = r.level
        /\ r.level = ecu.level /\ r.key = ecu.seed
    BY <1>1, <1>4 DEF RightKey, EcuState
  <2>2. CASE r.key # "none"
    <3>1. LET c == [client EXCEPT !.secure = TRUE, !.level = r.level]
          IN  c.session = client.session /\ c.level = r.level
      BY <1>1 DEF ClientState
    <3> QED BY <2>1, <2>2, <3>1 DEF Owed, AfterPositive, Agrees
  <2>3. CASE r.key = "none"
    BY <2>1, <2>3 DEF Owed, AfterPositive, Agrees, SeedUsed, LevelKnown
  <2> QED BY <2>2, <2>3
<1>5. CASE /\ ecu'.session = ecu.session /\ ecu'.unlocked = ecu.unlocked
           /\ r.svc \in {"session", "reset", "key"} => a # "positive"
  BY <1>5 DEF Owed, AfterPositive, Agrees
<1> QED BY <1>2, <1>3, <1>4, <1>5, OthersLeave

\* Requests of the other threads leave session and security alone.
LEMMA OthersHandled ==
    ASSUME ExchangeTypeOK, NEW r \in Request, NEW a \in Answer, HandleRequest(r, a),
           r.svc \notin {"session", "reset", "key"}
    PROVE  ecu'.session = ecu.session /\ ecu'.unlocked = ecu.unlocked
  BY OthersLeave DEF SessionControl, EcuReset, RightKey

\* No handler spoils the record of a used seed.
LEMMA SeedHandled ==
    ASSUME ExchangeTypeOK, SeedUsed, NEW r \in Request, NEW a \in Answer, HandleRequest(r, a)
    PROVE  SeedUsed'
<1>1. ecu \in EcuState
  BY DEF ExchangeTypeOK, EcuTypeOK
<1>2. CASE SessionControl(r, a)
  BY <1>1, <1>2 DEF SessionControl, Refuse, EcuState, SeedUsed
<1>3. CASE EcuReset(r, a)
  BY <1>3 DEF EcuReset, Refuse, PowerOn, SeedUsed
<1>4. CASE RightKey(r, a)
  BY <1>1, <1>4 DEF RightKey, EcuState, SeedUsed
<1> QED BY <1>2, <1>3, <1>4, OthersLeave DEF SeedUsed

\* The three side conditions are kept by every step.
SideInv == SeedUsed /\ LevelKnown /\ OwnJobs

\* A thread's step changes its own call only, and keeps the request.
LEMMA OwnJobsStep == ExchangeTypeOK /\ OwnJobs /\ [ExchangeNext]_exchangeVars => OwnJobs'
<1> SUFFICES ASSUME ExchangeTypeOK, OwnJobs, [ExchangeNext]_exchangeVars, NEW t \in Thread, Busy(t)'
             PROVE  call'[t].req \in Jobs[t]
  BY DEF OwnJobs
<1> USE DEF OwnJobs, Busy
<1>1. CASE UNCHANGED <<pc, call>>
  BY <1>1
<1>2. ASSUME NEW u \in Thread, NEW r \in Jobs[u], Call(u, r)
      PROVE  call'[t].req \in Jobs[t]
  BY <1>2 DEF Call, ExchangeTypeOK, Idle
<1>3. ASSUME NEW u \in Thread, Send(u) \/ TakePending(u) \/ BusyAgain(u) \/ AcceptAnswer(u) \/ GiveUp(u)
      PROVE  call'[t].req \in Jobs[t]
  <2>1. pc[u] # "idle" /\ \A v \in Thread \ {u} : pc'[v] = pc[v]
    BY <1>3 DEF Send, MaySend, TakePending, BusyAgain, AcceptAnswer, GiveUp, Receiving, WindowCloses,
                Return, ExchangeTypeOK
  <2>2. call'[t].req = call[t].req
    <3> DEFINE n == call[u].attempt + 1
               p == call[u].pending + 1
    <3>a. call \in [Thread -> CallRecord]
      BY DEF ExchangeTypeOK, CallRecord
    <3>b. n \in Nat /\ p \in Nat
      BY CallFields
    <3>1. CASE Send(u) \/ TakePending(u)
      <4>1. \/ call' = [call EXCEPT ![u] = [call[u] EXCEPT !.attempt = n, !.pending = 0]]
            \/ call' = [call EXCEPT ![u] = [call[u] EXCEPT !.pending = p]]
        BY <3>a, <3>1 DEF Send, TakePending
      <4> HIDE DEF n, p
      <4>2. /\ [call[u] EXCEPT !.attempt = n, !.pending = 0].req = call[u].req
            /\ [call[u] EXCEPT !.pending = p].req = call[u].req
        BY <3>b, CallFields, CallUpdates
      <4> QED BY <3>a, <4>1, <4>2
    <3>2. CASE BusyAgain(u)
      BY <1>3, <3>2 DEF BusyAgain, ExchangeTypeOK
    <3>3. ASSUME NEW o, NEW source, Return(u, o, source) PROVE call'[t].req = call[t].req
      <4> DEFINE d == [call[u] EXCEPT !.result = o, !.source = source]
      <4>1. call' = [call EXCEPT ![u] = d]
        BY <3>3 DEF Return
      <4>2. call[u] \in CallRecord
        BY <3>a
      <4>3. d.req = call[u].req
        BY <4>2 DEF CallRecord
      <4> HIDE DEF d
      <4> QED BY <3>a, <4>1, <4>3
    <3> QED BY <1>3, <3>1, <3>2, <3>3 DEF AcceptAnswer, GiveUp
  <2> QED BY <2>1, <2>2
<1>4. ASSUME NEW u \in Thread, SendFails(u) \/ RejectAnswer(u) \/ Apply(u)
      PROVE  call'[t].req \in Jobs[t]
  <2>1. u # t /\ call'[t] = call[t] /\ pc[t] # "idle"
    BY <1>4 DEF SendFails, RejectAnswer, Apply, ExchangeTypeOK
  <2> QED BY <2>1
<1>5. CASE Serve \/ DelayPasses \/ LosePayload \/ Rest \/ UNCHANGED exchangeVars
  <2>1. UNCHANGED <<pc, call>>
    BY <1>5 DEF exchangeVars, Serve, TakeRequest, SendPending, Answering, DelayPasses, LosePayload, Rest, clientVars
  <2> QED BY <1>1, <2>1
<1> QED BY <1>2, <1>3, <1>4, <1>5 DEF ExchangeNext, Work, Proceed

\* Only the ECU's answers touch the ECU, apart from the delay that passes.
LEMMA EcuChanges ==
    ASSUME [ExchangeNext]_exchangeVars
    PROVE  UNCHANGED ecu \/ DelayPasses \/ Answering
  BY DEF ExchangeNext, Work, Proceed, Send, TakePending, BusyAgain, RejectAnswer, AcceptAnswer, GiveUp,
         Return, Apply, Call, SendFails, Serve, TakeRequest, SendPending, LosePayload, Rest, exchangeVars

\* Only the application of an answer touches client.state.
LEMMA ClientChanges ==
    ASSUME [ExchangeNext]_exchangeVars
    PROVE  UNCHANGED client \/ \E t \in Thread : Apply(t)
  BY DEF ExchangeNext, Work, Proceed, Send, TakePending, BusyAgain, RejectAnswer, AcceptAnswer, GiveUp,
         Return, Call, SendFails, Serve, TakeRequest, SendPending, Answering, DelayPasses, LosePayload, Rest,
         clientVars, exchangeVars

\* The delay changes nothing the client keeps track of.
LEMMA DelayLeaves ==
    ASSUME ExchangeTypeOK, DelayPasses
    PROVE  /\ ecu'.session = ecu.session /\ ecu'.unlocked = ecu.unlocked
           /\ ecu'.seed = ecu.seed /\ ecu'.level = ecu.level
  BY DEF DelayPasses, DelayExpires, ExchangeTypeOK, EcuTypeOK, EcuState

LEMMA SideStep == ExchangeTypeOK /\ Numbered /\ SideInv /\ [ExchangeNext]_exchangeVars => SideInv'
<1> SUFFICES ASSUME ExchangeTypeOK, Numbered, SideInv, [ExchangeNext]_exchangeVars PROVE SideInv'
  OBVIOUS
<1>1. SeedUsed'
  <2>1. CASE UNCHANGED ecu
    BY <2>1 DEF SideInv, SeedUsed
  <2>2. CASE DelayPasses
    BY <2>2, DelayLeaves DEF SideInv, SeedUsed
  <2>3. CASE Answering
    <3>1. PICK a \in Answer : HandleRequest(server.req, a)
      BY <2>3 DEF Answering
    <3>2. server.req \in Request
      BY <2>3 DEF Answering, Numbered
    <3> QED BY <3>1, <3>2, SeedHandled DEF SideInv
  <2> QED BY <2>1, <2>2, <2>3, EcuChanges
<1>2. LevelKnown'
  <2>1. CASE UNCHANGED client
    BY <2>1 DEF SideInv, LevelKnown
  <2>2. ASSUME NEW t \in Thread, Apply(t) PROVE LevelKnown'
    <3>1. client \in ClientState /\ LevelKnown /\ call[t].req \in Request
      BY <2>2, ClientFields DEF SideInv, Apply, Numbered, Busy
    <3>2. CASE ApplySession(t) \/ ApplyReset(t) \/ ApplyNothing(t)
      BY <3>1, <3>2 DEF ApplySession, ApplyReset, ApplyNothing, InSession, LevelKnown, ClientState
    <3>3. CASE ApplyKey(t)
      <4>1. call[t].req.level \in AskedLevels /\ call[t].req.level # 0
        BY <3>1, <3>3, RequestFields, EcuAssumption DEF ApplyKey
      <4>2. /\ [client EXCEPT !.secure = TRUE, !.level = call[t].req.level].level = call[t].req.level
            /\ [client EXCEPT !.secure = FALSE].secure = FALSE
        BY <3>1 DEF ClientState
      <4> QED BY <3>1, <3>3, <4>1, <4>2 DEF ApplyKey, LevelKnown
    <3> QED BY <2>2, <3>2, <3>3 DEF Apply
  <2> QED BY <2>1, <2>2, ClientChanges
<1> QED BY <1>1, <1>2, OwnJobsStep DEF SideInv

\* The debt stays as it is while neither side's state nor the operator's thread
\* moves, and the link does not either if the operator waits for an answer.
LEMMA DebtAside ==
    ASSUME NEW op \in Thread, DebtInv(op), UNCHANGED <<ecu, client, faults>>,
           pc'[op] = pc[op], call'[op] = call[op],
           pc[op] # "waiting" \/ UNCHANGED <<requests, answers, server>>
    PROVE  DebtInv(op)'
<1>1. \A r, o : Owed(r, o)' <=> Owed(r, o)
  BY DEF Owed, Agrees, AfterPositive, InSession
<1>2. Agrees(client)' <=> Agrees(client)
  BY DEF Agrees
<1>3. CASE pc[op] # "waiting"
  BY <1>1, <1>2, <1>3 DEF DebtInv
<1>4. CASE UNCHANGED <<requests, answers, server>>
  BY <1>1, <1>2, <1>4 DEF DebtInv, FinalQueued
<1> QED BY <1>3, <1>4

\* What the other threads do is no business of the operator's.
LEMMA DebtOthers ==
    ASSUME ExchangeTypeOK, OwnJobs, NEW op \in Thread, OneOperator(op), DebtInv(op),
           NEW t \in Thread, t # op, faults' = faults,
           Proceed(t) \/ GiveUp(t) \/ \E r \in Jobs[t] : Call(t, r)
    PROVE  DebtInv(op)'
<1>1. UNCHANGED <<ecu, faults>> /\ pc'[op] = pc[op] /\ call'[op] = call[op]
  BY DEF Proceed, Send, TakePending, BusyAgain, RejectAnswer, AcceptAnswer, GiveUp, Return, Apply,
         Call, ExchangeTypeOK
<1>2. client' = client
  <2>1. CASE Apply(t)
    <3>1. call[t].req \in Jobs[t]
      BY <2>1 DEF OwnJobs, Busy, Apply
    <3>2. call[t].req.svc \notin {"session", "reset", "key"}
      BY <3>1 DEF OneOperator
    <3> QED BY <2>1, <3>2 DEF Apply, ApplySession, ApplyReset, ApplyKey, ApplyNothing
  <2>2. CASE ~Apply(t)
    BY <2>2 DEF Proceed, Send, TakePending, BusyAgain, RejectAnswer, AcceptAnswer, GiveUp, Return, Call
  <2> QED BY <2>1, <2>2
<1>3. CASE Apply(t) \/ \E r \in Jobs[t] : Call(t, r)
  <2>1. UNCHANGED <<requests, answers, server>>
    BY <1>3 DEF Apply, Call, wireVars
  <2> QED BY <1>1, <1>2, <2>1, DebtAside
<1>4. CASE Send(t)
  <2>1. lock \in {t, Nobody}
    BY <1>4 DEF Send, MaySend, ExchangeTypeOK
  <2>2. pc[op] # "waiting"
    BY <2>1, OneWaits
  <2> QED BY <1>1, <1>2, <2>2, DebtAside
<1>5. CASE TakePending(t) \/ BusyAgain(t) \/ RejectAnswer(t) \/ AcceptAnswer(t) \/ GiveUp(t)
  <2>1. lock = t
    BY <1>5 DEF TakePending, BusyAgain, RejectAnswer, AcceptAnswer, GiveUp, Receiving, WindowCloses, ExchangeTypeOK
  <2>2. pc[op] # "waiting"
    BY <2>1, OneWaits
  <2> QED BY <1>1, <1>2, <2>2, DebtAside
<1> QED BY <1>3, <1>4, <1>5 DEF Proceed

\* The operator calls, and sends: the client still describes the ECU.
LEMMA DebtSend ==
    ASSUME ExchangeTypeOK, Numbered, NEW op \in Thread, DebtInv(op),
           Send(op) \/ \E r \in Jobs[op] : Call(op, r)
    PROVE  DebtInv(op)'
<1>1. UNCHANGED <<ecu, client, faults>> /\ pc[op] \notin {"waiting", "applying"}
  BY DEF Send, MaySend, Call
<1>2. faults = 0 => Agrees(client)'
  BY <1>1 DEF DebtInv, Agrees
<1>3. CASE Send(op)
  <2>1. pc'[op] = "waiting" /\ requests' = Append(requests, [req |-> call[op].req, id |-> call[op].id])
    BY <1>3 DEF Send, ExchangeTypeOK
  <2>2. requests' # <<>>
    <3>1. requests \in Seq(RequestsSoFar) /\ [req |-> call[op].req, id |-> call[op].id] \in RequestsSoFar
      BY <1>3 DEF Send, MaySend, Numbered, Busy, RequestsSoFar
    <3> QED BY <2>1, <3>1, AppendElements
  <2> QED BY <1>1, <1>2, <2>1, <2>2 DEF DebtInv
<1>4. CASE \E r \in Jobs[op] : Call(op, r)
  <2>1. pc'[op] = "locking"
    BY <1>4 DEF Call, ExchangeTypeOK
  <2> QED BY <1>1, <1>2, <2>1 DEF DebtInv
<1> QED BY <1>3, <1>4

\* The operator takes an answer, or none.
LEMMA DebtTakePending ==
    ASSUME ExchangeTypeOK, Numbered, NEW op \in Thread, DebtInv(op), TakePending(op)
    PROVE  DebtInv(op)'
<1>1. /\ UNCHANGED <<ecu, client, faults, requests, server>> /\ pc[op] = "waiting" /\ pc'[op] = "waiting"
      /\ answers # <<>> /\ answers' = Tail(answers) /\ Head(answers).nrc = "pending"
  BY DEF TakePending, Receiving, WaitsOn
<1>2. call'[op].req = call[op].req
  <2>1. call \in [Thread -> CallRecord] /\ call[op] \in CallRecord
    BY CallFields DEF ExchangeTypeOK, CallRecord
  <2> QED BY <2>1 DEF TakePending, CallRecord
<1>3. /\ FinalQueued' <=> FinalQueued
      /\ FinalQueued => answers'[Len(answers')] = answers[Len(answers)]
  BY <1>1, HeadOff DEF FinalQueued
<1>4. \A r, o : Owed(r, o)' <=> Owed(r, o)
  BY <1>1 DEF Owed, Agrees, AfterPositive, InSession
<1>5. Agrees(client)' <=> Agrees(client)
  BY <1>1 DEF Agrees
<1> QED BY <1>1, <1>2, <1>3, <1>4, <1>5 DEF DebtInv

\* A final answer at the head of the queue is the one the ECU owes.
LEMMA DebtFinal ==
    ASSUME Numbered, NEW op \in Thread, DebtInv(op), pc[op] = "waiting", InTurn(op),
           answers # <<>>, Head(answers).nrc # "pending", faults = 0
    PROVE  Owed(call[op].req, Head(answers).nrc)
<1>1. requests = <<>> /\ server.id = 0 /\ Tail(answers) = <<>>
  BY FinalIsLast
<1>2. Len(answers) \in Nat \ {0} /\ Len(Tail(answers)) = Len(answers) - 1 /\ Head(answers) = answers[1]
  BY TailElements DEF Numbered
<1>3. Len(answers) = 1 /\ FinalQueued
  BY <1>1, <1>2 DEF FinalQueued
<1> QED BY <1>1, <1>2, <1>3 DEF DebtInv

LEMMA DebtBusyAgain ==
    ASSUME ExchangeTypeOK, Numbered, TurnInv, NEW op \in Thread, DebtInv(op), BusyAgain(op)
    PROVE  DebtInv(op)'
<1>1. /\ UNCHANGED <<ecu, client, faults>> /\ pc[op] = "waiting" /\ pc'[op] = "pausing"
      /\ answers # <<>> /\ Head(answers).nrc = "busy"
  BY DEF BusyAgain, Receiving, Retries, ExchangeTypeOK
<1>2. faults = 0 => Owed(call[op].req, "busy")
  BY <1>1, DebtFinal DEF TurnInv
<1>3. faults = 0 => Agrees(client)'
  BY <1>1, <1>2 DEF Owed, Agrees
<1> QED BY <1>1, <1>3 DEF DebtInv

LEMMA DebtAccept ==
    ASSUME ExchangeTypeOK, Numbered, PendingCount <= MaxPending, TurnInv,
           NEW op \in Thread, DebtInv(op), AcceptAnswer(op)
    PROVE  DebtInv(op)'
<1>1. /\ UNCHANGED <<ecu, client, faults>> /\ pc[op] = "waiting" /\ pc'[op] = "applying"
      /\ answers # <<>>
      /\ call'[op].req = call[op].req /\ call'[op].result = Head(answers).nrc
  BY DEF AcceptAnswer, Receiving, Return, ExchangeTypeOK
<1>2. faults = 0 => Owed(call[op].req, Head(answers).nrc)
  BY <1>1, AcceptedIsOwn, DebtFinal DEF TurnInv
<1>3. \A r, o : Owed(r, o)' <=> Owed(r, o)
  BY <1>1 DEF Owed, Agrees, AfterPositive, InSession
<1> QED BY <1>1, <1>2, <1>3 DEF DebtInv

\* Without a fault, silence is the withheld answer to a quiet request.
LEMMA DebtGiveUp ==
    ASSUME ExchangeTypeOK, Numbered, NEW op \in Thread, DebtInv(op), Silent, GiveUp(op)
    PROVE  DebtInv(op)'
<1>1. /\ UNCHANGED <<ecu, client, faults>> /\ pc[op] = "waiting" /\ pc'[op] = "applying"
      /\ answers = <<>> /\ requests = <<>> /\ server.id = 0
      /\ call'[op].req = call[op].req
      /\ call'[op].result = IF call[op].req.quiet THEN "positive" ELSE "timeout"
  BY DEF GiveUp, WindowCloses, Silent, Return, ExchangeTypeOK
<1>2. ~FinalQueued
  BY <1>1 DEF FinalQueued
<1>3. faults = 0 => call[op].req.quiet /\ Owed(call[op].req, "positive")
  BY <1>1, <1>2 DEF DebtInv
<1>4. \A r, o : Owed(r, o)' <=> Owed(r, o)
  BY <1>1 DEF Owed, Agrees, AfterPositive, InSession
<1> QED BY <1>1, <1>3, <1>4 DEF DebtInv

\* change_session, ecu_reset and security_access pay the debt.
LEMMA DebtApply ==
    ASSUME ExchangeTypeOK, Numbered, NEW op \in Thread, DebtInv(op), Apply(op)
    PROVE  DebtInv(op)'
<1> DEFINE r == call[op].req
           o == call[op].result
<1>1. UNCHANGED <<ecu, faults>> /\ pc[op] = "applying" /\ pc'[op] = "idle"
  BY DEF Apply, ExchangeTypeOK
<1>2. faults = 0 => Owed(r, o)
  BY <1>1 DEF DebtInv
<1>3. Owed(r, o) => Agrees(client)'
  <2> SUFFICES ASSUME Owed(r, o) PROVE client'.session = ecu.session
                                       /\ (client'.secure => ecu.unlocked = client'.level)
    BY <1>1 DEF Agrees
  <2>0. client \in ClientState
    BY ClientFields
  <2>1. CASE o = "positive"
    <3>1. client' = AfterPositive(r)
      <4>1. CASE ApplySession(op)
        BY <2>1, <4>1 DEF ApplySession, AfterPositive
      <4>2. CASE ApplyReset(op)
        BY <2>1, <4>2 DEF ApplyReset, AfterPositive
      <4>3. CASE ApplyKey(op)
        <5> DEFINE unlocked == [client EXCEPT !.secure = TRUE, !.level = call[op].req.level]
                   relocked == [client EXCEPT !.secure = FALSE]
        <5>1. /\ call[op].req.svc = "key"
              /\ client' = IF call[op].req.key = "none" THEN client
                           ELSE CASE call[op].result = "positive" -> unlocked
                                  [] IsNegative(call[op].result) -> relocked
                                  [] OTHER -> client
          BY <4>3 DEF ApplyKey
        <5>2. AfterPositive(r) = IF call[op].req.key # "none" THEN unlocked ELSE client
          BY <5>1 DEF AfterPositive
        <5>3. ~IsNegative(call[op].result)
          BY <2>1 DEF IsNegative, Negative
        <5> HIDE DEF unlocked, relocked
        <5> QED BY <2>1, <5>1, <5>2, <5>3
      <4>4. CASE ApplyNothing(op)
        BY <4>4 DEF ApplyNothing, AfterPositive
      <4> QED BY <4>1, <4>2, <4>3, <4>4 DEF Apply
    <3> QED BY <2>1, <3>1 DEF Owed, Agrees
  <2>2. CASE o # "positive"
    <3>1. client' = client \/ client' = [client EXCEPT !.secure = FALSE]
      BY <2>2 DEF Apply, ApplySession, ApplyReset, ApplyKey, ApplyNothing
    <3> QED BY <2>0, <2>2, <3>1 DEF Owed, Agrees, ClientState
  <2> QED BY <2>1, <2>2
<1> QED BY <1>1, <1>2, <1>3 DEF DebtInv

\* The ECU takes the request, or says that it is at work on it: nothing is owed.
LEMMA DebtServes ==
    ASSUME ExchangeTypeOK, Numbered, NEW op \in Thread, DebtInv(op), TakeRequest \/ SendPending
    PROVE  DebtInv(op)'
<1>1. UNCHANGED <<ecu, client, faults, pc, call>>
  BY DEF TakeRequest, SendPending, clientVars
<1>2. ~(requests = <<>> /\ server.id = 0)
  BY DEF TakeRequest, SendPending
<1>3. server'.id # 0
  <2>1. CASE TakeRequest
    <3>1. Head(requests) \in RequestsSoFar
      BY <2>1, TailElements DEF TakeRequest, Numbered
    <3> DEFINE m == Head(requests)
    <3>2. m.id \in 1 .. calls
      BY <3>1 DEF RequestsSoFar
    <3>3. server'.id = m.id
      BY <2>1 DEF TakeRequest
    <3> QED BY <3>2, <3>3 DEF ExchangeTypeOK
  <2>2. CASE SendPending
    BY <2>2 DEF SendPending, ExchangeTypeOK
  <2> QED BY <2>1, <2>2
<1>4. \A r, o : Owed(r, o)' <=> Owed(r, o)
  BY <1>1 DEF Owed, Agrees, AfterPositive, InSession
<1>5. Agrees(client)' <=> Agrees(client)
  BY <1>1 DEF Agrees
<1> QED BY <1>1, <1>2, <1>3, <1>4, <1>5 DEF DebtInv

\* The security delay passes.
LEMMA DebtDelay ==
    ASSUME ExchangeTypeOK, NEW op \in Thread, DebtInv(op), DelayPasses
    PROVE  DebtInv(op)'
<1>1. UNCHANGED <<client, faults, pc, call, requests, answers, server>>
  BY DEF DelayPasses, clientVars, wireVars
<1>2. ecu'.session = ecu.session /\ ecu'.unlocked = ecu.unlocked
  BY DelayLeaves
<1>3. \A r, o : Owed(r, o)' <=> Owed(r, o)
  BY <1>1, <1>2 DEF Owed, Agrees, AfterPositive, InSession
<1>4. Agrees(client)' <=> Agrees(client)
  BY <1>1, <1>2 DEF Agrees
<1> QED BY <1>1, <1>3, <1>4 DEF DebtInv, FinalQueued

\* The ECU answers: to another thread it owes nothing of this, to the operator
\* it owes what its answer says.
LEMMA DebtAnswering ==
    ASSUME ExchangeTypeOK, Numbered, TurnInv, SideInv, NEW op \in Thread, OneOperator(op), DebtInv(op),
           Answering
    PROVE  DebtInv(op)'
<1>1. PICK a \in Answer : /\ HandleRequest(server.req, a)
                          /\ \/ Withheld(server.req, a) /\ UNCHANGED answers
                             \/ ~Withheld(server.req, a) /\ Emit(a)
  BY DEF Answering
<1>2. /\ UNCHANGED <<client, faults, pc, call, requests>>
      /\ server.id # 0 /\ server'.id = 0 /\ server.req \in Request
  BY DEF Answering, clientVars, Numbered
<1>3. PICK t \in Thread : pc[t] = "waiting" /\ InTurn(t)
  BY <1>2, SomebodyWaits DEF Still
<1>4. Serving(t)
  BY <1>2, <1>3 DEF InTurn, Requested, Served
<1>5. server.req = call[t].req /\ requests = <<>> /\ \A i \in 1 .. Len(answers) : answers[i].nrc = "pending"
  BY <1>4 DEF Serving
<1>6. CASE t # op
  <2>1. call[t].req.svc \notin {"session", "reset", "key"}
    BY <1>3, <1>6 DEF SideInv, OwnJobs, OneOperator, Busy
  <2>2. ecu'.session = ecu.session /\ ecu'.unlocked = ecu.unlocked
    BY <1>1, <1>2, <1>5, <2>1, OthersHandled
  <2>3. pc[op] # "waiting"
    BY <1>3, <1>6, OneWaits DEF ExchangeTypeOK
  <2>4. \A r, o : Owed(r, o)' <=> Owed(r, o)
    BY <1>2, <2>2 DEF Owed, Agrees, AfterPositive, InSession
  <2>5. Agrees(client)' <=> Agrees(client)
    BY <1>2, <2>2 DEF Agrees
  <2> QED BY <1>2, <2>3, <2>4, <2>5 DEF DebtInv
<1>7. CASE t = op
  <2> SUFFICES ASSUME faults = 0 PROVE DebtInv(op)'
    BY <1>2 DEF DebtInv
  <2> DEFINE r == call[op].req
  <2>1. Agrees(client)
    BY <1>2, <1>3, <1>7 DEF DebtInv
  <2>2. SUFFICES ASSUME NEW q, q = r PROVE DebtInv(op)'
    OBVIOUS
  <2>3. q = server.req
    BY <1>5, <1>7, <2>2
  <2>4. Owed(q, a)'
    BY <1>1, <1>2, <2>1, <2>3, HandledAgrees DEF SideInv
  <2>5. CASE Withheld(server.req, a) /\ UNCHANGED answers
    <3>1. a = "positive" /\ q.quiet
      BY <2>3, <2>5 DEF Withheld
    <3>2. ~FinalQueued'
      BY <1>5, <2>5, Queues DEF FinalQueued
    <3> QED BY <1>2, <1>3, <1>5, <1>7, <2>2, <2>4, <3>1, <3>2 DEF DebtInv
  <2>6. CASE Emit(a)
    <3> DEFINE m == [svc |-> server.req.svc, nrc |-> a, id |-> server.id]
    <3>1. m \in AnswersSoFar /\ answers' = Append(answers, m)
      BY <1>2, <2>6, ServerFields DEF Emit
    <3>2. m.nrc = a /\ a # "pending"
      BY DEF Answer, Negative
    <3> HIDE DEF m
    <3>3. FinalQueued' /\ answers'[Len(answers')].nrc = a
      BY <3>1, <3>2, AnswerLast DEF FinalQueued
    <3> QED BY <1>2, <1>3, <1>5, <1>7, <2>2, <2>4, <3>3 DEF DebtInv
  <2> QED BY <1>1, <2>5, <2>6
<1> QED BY <1>6, <1>7

\* No step of a prompt exchange leaves the client with a wrong picture for good.
LEMMA DebtStep ==
    ASSUME PendingCount <= MaxPending, NEW op \in Thread, OneOperator(op)
    PROVE  ExchangeTypeOK /\ Numbered /\ TurnInv /\ SideInv /\ DebtInv(op) /\ [PromptExchangeNext]_exchangeVars
           => DebtInv(op)'
<1> SUFFICES ASSUME ExchangeTypeOK, Numbered, TurnInv, SideInv, DebtInv(op), [PromptExchangeNext]_exchangeVars
             PROVE  DebtInv(op)'
  OBVIOUS
<1>0. OwnJobs
  BY DEF SideInv
<1>1. CASE UNCHANGED exchangeVars
  BY <1>1, DebtAside DEF exchangeVars
<1>2. ASSUME NEW t \in Thread, t # op, Proceed(t) \/ GiveUp(t) \/ \E r \in Jobs[t] : Call(t, r)
      PROVE  DebtInv(op)'
  <2>1. faults' = faults
    BY <1>2 DEF Proceed, Send, TakePending, BusyAgain, RejectAnswer, AcceptAnswer, GiveUp, Return,
                Apply, Call
  <2> QED BY <1>0, <1>2, <2>1, DebtOthers
<1>3. CASE Proceed(op) \/ \E r \in Jobs[op] : Call(op, r)
  BY <1>3, DebtSend, DebtTakePending, DebtBusyAgain, NeverRejected, DebtAccept, DebtApply DEF Proceed
<1>4. CASE Silent /\ GiveUp(op)
  BY <1>4, DebtGiveUp
<1>5. CASE LosePayload \/ \E t \in Thread : SendFails(t)
  <2>1. faults' # 0
    BY <1>5 DEF LosePayload, SendFails, ExchangeTypeOK
  <2> QED BY <2>1 DEF DebtInv
<1>6. CASE Serve \/ DelayPasses
  BY <1>6, DebtServes, DebtAnswering, DebtDelay DEF Serve
<1> QED BY <1>1, <1>2, <1>3, <1>4, <1>5, <1>6 DEF PromptExchangeNext, Work, Rest

\* Power is on and nobody has called: both sides are in the default session.
LEMMA DebtInit ==
    ASSUME ExchangeInit
    PROVE  SideInv /\ \A op \in Thread : DebtInv(op)
<1>1. ecu.session = "default" /\ ecu.unlocked = 0
  BY DEF ExchangeInit, EcuInit, PowerOn
<1>2. client.session = "default" /\ client.secure = FALSE
  BY DEF ExchangeInit
<1>3. \A t \in Thread : pc[t] = "idle"
  BY DEF ExchangeInit
<1>4. SideInv
  BY <1>1, <1>2, <1>3 DEF SideInv, SeedUsed, LevelKnown, OwnJobs, Busy
<1>5. Agrees(client)
  BY <1>1, <1>2 DEF Agrees
<1>6. \A op \in Thread : DebtInv(op)
  BY <1>3, <1>5 DEF DebtInv
<1> QED BY <1>4, <1>6

\* As long as nothing is lost, client.state describes the ECU whenever no call
\* is under way (change_session, ecu_reset and security_access, against the
\* simulator's handlers), for any jobs and any number of threads of which one
\* makes the requests that change it.
THEOREM AgreementAlways ==
    ASSUME PendingCount <= MaxPending, NEW op \in Thread, OneOperator(op)
    PROVE  PromptExchangeSpec => []Agreement
<1> DEFINE Picture == ExchangeTypeOK /\ Numbered /\ TurnInv /\ SideInv /\ DebtInv(op)
<1>1. ExchangeInit => Picture
  BY InitType, DebtInit DEF ExchangeInit, TurnInv, Still
<1>2. Picture /\ [PromptExchangeNext]_exchangeVars => Picture'
  BY PromptIsNext, TypeStep, TurnStep, SideStep, DebtStep
<1>3. Picture => Agreement
  BY DEF DebtInv, Agrees, Agreement
<1> QED BY <1>1, <1>2, <1>3, PTL DEF PromptExchangeSpec
=============================================================================
