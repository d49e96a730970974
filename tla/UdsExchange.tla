---------------------------- MODULE UdsExchange ----------------------------
(***************************************************************************)
(* UDSClient (src/src/diagnostics/uds_client.py) talking to the simulated  *)
(* ECU.  Every diagnostic operation runs on a thread of its own            *)
(* (DiagnosticWorker, the tester present timer); the client's lock is held *)
(* for one exchange, from the transmission to the final answer, and what   *)
(* the answer means for client.state is applied after it was released.     *)
(*                                                                         *)
(* TransportLayer.request does not flush: an answer that comes after its   *)
(* exchange gave up is what the next exchange reads.  A request and its    *)
(* answers carry the number of the call they belong to, which no byte on   *)
(* the wire does; the actions never look at it.  The link between the two  *)
(* is a queue of whole payloads each way, as IsoTp shows it to be.         *)
(***************************************************************************)
EXTENDS EcuSimulator, Sequences

CONSTANTS
    Thread,        \* threads using the client
    Jobs,          \* Jobs[t]: the requests thread t makes
    MaxCalls,      \* bound: MaxCalls[t] calls of thread t
    RetryOnBusy,   \* UDSClientConfig.retry_on_busy
    MaxRetries,    \* UDSClientConfig.max_retries
    MaxPending,    \* UDSClientConfig.max_pending_responses
    PendingCount,  \* the simulator's "pending_response_count", 0 when unsupported
    MaxFaults,     \* bound: payloads lost and transmissions refused
    Nobody         \* the lock is free

ASSUME ExchangeAssumption ==
    /\ Jobs \in [Thread -> SUBSET Request]
    /\ MaxCalls \in [Thread -> Nat]
    /\ RetryOnBusy \in BOOLEAN
    /\ MaxRetries \in Nat /\ MaxPending \in Nat /\ PendingCount \in Nat /\ MaxFaults \in Nat
    /\ Nobody \notin Thread

VARIABLES
    pc,         \* pc[t]: where thread t is in send_request
    call,       \* call[t]: its request and the locals of _exchange
    made,       \* made[t]: calls of thread t so far
    lock,       \* UDSClient._lock
    client,     \* UDSClient.state: session, security state and level
    requests,   \* payloads on their way to the ECU
    answers,    \* payloads on their way to, or queued for, the client
    server,     \* the request ECUSimulator._serve is answering
    calls,      \* the number of the last call
    abandoned,  \* history: calls that ended without their own final answer
    faults      \* faults so far

clientVars == <<pc, call, made, lock, client, calls, abandoned>>
wireVars == <<requests, answers>>
exchangeVars == <<ecu, pc, call, made, lock, client, requests, answers, server, calls, abandoned, faults>>

-----------------------------------------------------------------------------
NoRequest == [svc |-> "none", quiet |-> FALSE]
Outcome == Answer \cup {"pending", "timeout", "none"}

Idle == [id |-> 0, req |-> NoRequest, attempt |-> 0, pending |-> 0,
         result |-> "none", source |-> 0]

AnswerOnWire == [svc : {r.svc : r \in Request}, nrc : Answer \cup {"pending"}, id : Nat]

ExchangeTypeOK ==
    /\ EcuTypeOK
    /\ pc \in [Thread -> {"idle", "locking", "waiting", "pausing", "applying"}]
    /\ call \in [Thread -> [id : Nat, req : Request \cup {NoRequest}, attempt : Nat,
                            pending : Nat, result : Outcome, source : Nat]]
    /\ \A t \in Thread : made[t] \in 0 .. MaxCalls[t]
    /\ lock \in Thread \cup {Nobody}
    /\ client \in [session : SessionNames, secure : BOOLEAN, level : AskedLevels \cup {0}]
    /\ requests \in Seq([req : Request, id : Nat])
    /\ answers \in Seq(AnswerOnWire)
    /\ server \in [req : Request \cup {NoRequest}, id : Nat, left : 0 .. PendingCount]
    /\ calls \in Nat /\ abandoned \subseteq 1 .. calls /\ faults \in 0 .. MaxFaults
    \* What the lock is for: a thread holds it exactly while it exchanges.
    /\ \A t \in Thread : lock = t <=> pc[t] \in {"waiting", "pausing"}

ExchangeInit ==
    /\ EcuInit
    /\ pc = [t \in Thread |-> "idle"]
    /\ call = [t \in Thread |-> Idle]
    /\ made = [t \in Thread |-> 0]
    /\ lock = Nobody
    /\ client = [session |-> "default", secure |-> FALSE, level |-> 0]
    /\ requests = <<>> /\ answers = <<>>
    /\ server = [req |-> NoRequest, id |-> 0, left |-> 0]
    /\ calls = 0 /\ abandoned = {} /\ faults = 0

\* The first byte of the request: seed and key are both SecurityAccess.
Sid(svc) == IF svc \in {"seed", "key"} THEN "securityAccess" ELSE svc

IsNegative(nrc) == nrc \in Negative \cup {"pending"}

-----------------------------------------------------------------------------
(* send_request and _exchange.                                             *)

Call(t, r) ==
    /\ pc[t] = "idle" /\ made[t] < MaxCalls[t] /\ r \in Jobs[t]
    /\ made' = [made EXCEPT ![t] = @ + 1]
    /\ calls' = calls + 1
    /\ call' = [call EXCEPT ![t] = [Idle EXCEPT !.id = calls + 1, !.req = r]]
    /\ pc' = [pc EXCEPT ![t] = "locking"]
    /\ UNCHANGED <<ecu, lock, client, wireVars, server, abandoned, faults>>

\* Mutant: the lock is not waited for.
SendsUnlocked(t) == pc[t] = "locking" \/ pc[t] = "pausing"

\* Where an attempt starts: with the lock just taken, or after the pause.
MaySend(t) == \/ pc[t] = "locking" /\ lock = Nobody
              \/ pc[t] = "pausing"

Send(t) ==
    /\ MaySend(t)
    /\ lock' = t
    /\ pc' = [pc EXCEPT ![t] = "waiting"]
    /\ call' = [call EXCEPT ![t].attempt = @ + 1, ![t].pending = 0]
    /\ requests' = Append(requests, [req |-> call[t].req, id |-> call[t].id])
    /\ UNCHANGED <<ecu, made, client, answers, server, calls, abandoned, faults>>

\* transport.request raises (SendError): the exception leaves the client.
SendFails(t) ==
    /\ MaySend(t)
    /\ faults < MaxFaults
    /\ faults' = faults + 1
    /\ lock' = Nobody
    /\ pc' = [pc EXCEPT ![t] = "idle"]
    /\ call' = [call EXCEPT ![t] = Idle]
    /\ UNCHANGED <<ecu, made, client, wireVars, server, calls, abandoned>>

\* An answer is there for thread t to take.
Receiving(t) == pc[t] = "waiting" /\ answers # <<>>

\* Mutant: responsePending is taken for the answer.
PendingIsFinal(t, m) == FALSE

\* PendingResponseHandler.resolve: wait on, up to max_pending times.
WaitsOn(t, m) == m.nrc = "pending" /\ call[t].pending < MaxPending

TakePending(t) ==
    /\ Receiving(t)
    /\ WaitsOn(t, Head(answers))
    /\ answers' = Tail(answers)
    /\ call' = [call EXCEPT ![t].pending = @ + 1]
    /\ UNCHANGED <<ecu, pc, made, lock, client, requests, server, calls, abandoned, faults>>

\* NRCHandler.should_retry and the check for busyRepeatRequest.
Retries(t, m) == m.nrc = "busy" /\ RetryOnBusy /\ call[t].attempt < MaxRetries

\* The pause before the next attempt is made with the lock held.
BusyAgain(t) ==
    LET m == Head(answers) IN
    /\ Receiving(t)
    /\ Retries(t, m)
    /\ answers' = Tail(answers)
    /\ pc' = [pc EXCEPT ![t] = "pausing"]
    /\ abandoned' = IF m.id = call[t].id THEN abandoned ELSE abandoned \cup {call[t].id}
    /\ UNCHANGED <<ecu, call, made, lock, client, requests, server, calls, faults>>

\* _validate_echo: a negative answer is not compared with the request.
EchoFits(t, m) == IsNegative(m.nrc) \/ Sid(m.svc) = Sid(call[t].req.svc)

Return(t, result, source) ==
    /\ lock' = Nobody
    /\ pc' = [pc EXCEPT ![t] = "applying"]
    /\ call' = [call EXCEPT ![t].result = result, ![t].source = source]
    /\ UNCHANGED <<ecu, made, client, requests, server, calls, faults>>

\* InvalidResponseError: the caller applies nothing.
RejectAnswer(t) ==
    LET m == Head(answers) IN
    /\ Receiving(t)
    /\ ~WaitsOn(t, m) /\ ~Retries(t, m) /\ ~EchoFits(t, m)
    /\ answers' = Tail(answers)
    /\ abandoned' = abandoned \cup {call[t].id}
    /\ lock' = Nobody
    /\ pc' = [pc EXCEPT ![t] = "idle"]
    /\ call' = [call EXCEPT ![t] = Idle]
    /\ UNCHANGED <<ecu, made, client, requests, server, calls, faults>>

AcceptAnswer(t) ==
    LET m == Head(answers) IN
    /\ Receiving(t)
    /\ ~WaitsOn(t, m) /\ ~Retries(t, m) /\ EchoFits(t, m)
    /\ answers' = Tail(answers)
    /\ abandoned' = IF m.id = call[t].id /\ m.nrc # "pending"
                    THEN abandoned ELSE abandoned \cup {call[t].id}
    /\ Return(t, m.nrc, m.id)

\* P2, or P2* after a pending answer, passes with nothing received.
WindowCloses(t) == pc[t] = "waiting" /\ answers = <<>>

\* Mutant: the window is opened anew when it closes.
WaitAnew(t) == WindowCloses(t) /\ UNCHANGED exchangeVars

\* Silence is what a quiet request expects.
GiveUp(t) ==
    /\ WindowCloses(t)
    /\ UNCHANGED answers
    /\ abandoned' = abandoned \cup {call[t].id}
    /\ Return(t, IF call[t].req.quiet THEN "positive" ELSE "timeout", 0)

-----------------------------------------------------------------------------
(* What change_session, ecu_reset and security_access do with the answer,  *)
(* without the lock.                                                       *)

\* Mutant: the default session leaves the client unlocked.
KeepsSecurity(s) == [client EXCEPT !.session = s]

\* SessionState.apply_session
InSession(s) == IF s = "default"
                THEN [session |-> s, secure |-> FALSE, level |-> 0]
                ELSE [client EXCEPT !.session = s]

ApplySession(t) ==
    /\ call[t].req.svc = "session"
    /\ client' = IF call[t].result = "positive" THEN InSession(call[t].req.to) ELSE client

ApplyReset(t) ==
    /\ call[t].req.svc = "reset"
    /\ client' = IF call[t].result = "positive" THEN InSession("default") ELSE client

ApplyKey(t) ==
    /\ call[t].req.svc = "key"
    /\ client' = IF call[t].req.key = "none" THEN client
                 ELSE CASE call[t].result = "positive" ->
                             [client EXCEPT !.secure = TRUE, !.level = call[t].req.level]
                        [] IsNegative(call[t].result) -> [client EXCEPT !.secure = FALSE]
                        [] OTHER -> client

ApplyNothing(t) ==
    /\ call[t].req.svc \notin {"session", "reset", "key"}
    /\ UNCHANGED client

Apply(t) ==
    /\ pc[t] = "applying"
    /\ ApplySession(t) \/ ApplyReset(t) \/ ApplyKey(t) \/ ApplyNothing(t)
    /\ pc' = [pc EXCEPT ![t] = "idle"]
    /\ call' = [call EXCEPT ![t] = Idle]
    /\ UNCHANGED <<ecu, made, lock, wireVars, server, calls, abandoned, faults>>

-----------------------------------------------------------------------------
(* ECUSimulator._serve and _answer, and the link.                          *)

TakeRequest ==
    /\ server.id = 0 /\ requests # <<>>
    /\ server' = [req |-> Head(requests).req, id |-> Head(requests).id, left |-> PendingCount]
    /\ requests' = Tail(requests)
    /\ UNCHANGED <<ecu, answers, clientVars, faults>>

Emit(nrc) == answers' = Append(answers, [svc |-> server.req.svc, nrc |-> nrc, id |-> server.id])

SendPending ==
    /\ server.id # 0 /\ server.left > 0
    /\ Emit("pending")
    /\ server' = [server EXCEPT !.left = @ - 1]
    /\ UNCHANGED <<ecu, requests, clientVars, faults>>

Answering ==
    /\ server.id # 0 /\ server.left = 0
    /\ \E a \in Answer :
          /\ HandleRequest(server.req, a)
          /\ \/ Withheld(server.req, a) /\ UNCHANGED answers
             \/ ~Withheld(server.req, a) /\ Emit(a)
    /\ server' = [req |-> NoRequest, id |-> 0, left |-> 0]
    /\ UNCHANGED <<requests, clientVars, faults>>

DelayPasses == DelayExpires /\ UNCHANGED <<clientVars, wireVars, server, faults>>

LosePayload ==
    /\ faults < MaxFaults
    /\ faults' = faults + 1
    /\ \/ requests # <<>> /\ requests' = Tail(requests) /\ UNCHANGED answers
       \/ answers # <<>> /\ answers' = Tail(answers) /\ UNCHANGED requests
    /\ UNCHANGED <<ecu, server, clientVars>>

\* Every caller has made its calls: the program is at rest.
AtRest == \A t \in Thread : pc[t] = "idle" /\ made[t] = MaxCalls[t]
Rest == AtRest /\ UNCHANGED exchangeVars

-----------------------------------------------------------------------------
Proceed(t) == Send(t) \/ TakePending(t) \/ BusyAgain(t) \/ RejectAnswer(t)
                \/ AcceptAnswer(t) \/ Apply(t)
Serve == TakeRequest \/ SendPending \/ Answering

\* Everything but the passing of time and the faults.
Work == \/ \E t \in Thread : Proceed(t) \/ \E r \in Jobs[t] : Call(t, r)
        \/ Serve \/ Rest

ExchangeNext ==
    \/ Work \/ DelayPasses \/ LosePayload
    \/ \E t \in Thread : SendFails(t) \/ GiveUp(t)

ExchangeSpec == ExchangeInit /\ [][ExchangeNext]_exchangeVars

\* The ECU answers within P2: a window closes only when nothing more comes.
Silent == requests = <<>> /\ server.id = 0

PromptExchangeNext ==
    \/ Work \/ DelayPasses \/ LosePayload
    \/ \E t \in Thread : SendFails(t) \/ (Silent /\ GiveUp(t))

PromptExchangeSpec == ExchangeInit /\ [][PromptExchangeNext]_exchangeVars

\* Threads are scheduled, and a window that stays empty closes.
FairExchangeSpec == ExchangeSpec /\ \A t \in Thread : WF_exchangeVars(Proceed(t) \/ GiveUp(t))

-----------------------------------------------------------------------------
\* However late the answers: what is under way is the current exchange's, or
\* was left behind by a call that ended without its own final answer.  An
\* exchange that took its own answer leaves nothing for the next to trip over.
WireOwned ==
    LET current == IF lock = Nobody THEN {} ELSE {call[lock].id}
        underWay == {requests[i].id : i \in DOMAIN requests}
                        \cup {answers[i].id : i \in DOMAIN answers} \cup ({server.id} \ {0})
    IN  underWay \subseteq abandoned \cup current

\* With an ECU that keeps its times, retries and responsePending included, a
\* call is never given the answer to another call's request, although the
\* client compares no more than the service identifier.
OwnAnswer == \A t \in Thread : pc[t] = "applying" => call[t].source \in {0, call[t].id}

\* As long as nothing was lost, client.state describes the ECU whenever no
\* call is under way: the same session, and unlocked only if the ECU is, at
\* that level.
Agreement ==
    faults = 0 /\ (\A t \in Thread : pc[t] = "idle") =>
        /\ client.session = ecu.session
        /\ client.secure => ecu.unlocked = client.level

\* Every call comes to an end, with any number of busy and pending answers.
RequestReturns == \A t \in Thread : pc[t] # "idle" ~> pc[t] = "idle"
=============================================================================
