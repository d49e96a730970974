------------------------------- MODULE ApiUds -------------------------------
(***************************************************************************)
(* The UDS console of the API service: handlers call DiagnosticRuntime.uds *)
(* (services/api/lib/runtime.js), which asks the session's one UdsSession  *)
(* (diagnostics/uds/index.js) over the one IsotpTransport                  *)
(* (diagnostics/simulator/isotp-transport.js) of that ECU.  Nothing keeps  *)
(* two handlers from calling at once, and nothing ties an answer to its    *)
(* request.  Frames are JsIsoTp's; an answer is a whole payload here.  A   *)
(* call is one _once(): request() makes several, one after the other.      *)
(***************************************************************************)
EXTENDS Naturals

CONSTANTS
    Calls,      \* bound: requests of the console
    Nothing     \* no call

VARIABLES
    call,       \* call[q]: where handler q is, and whose answer it got
    pending,    \* IsotpTransport._pending: the call it would settle
    timers,     \* transport timers that are set
    finish,     \* IsotpTransport._finishTimer
    atEcu       \* requests the ECU has and has not answered

udsVars == <<call, pending, timers, finish, atEcu>>

UdsTypeOK ==
    /\ call \in [Calls -> [pc : {"off", "waiting", "answered", "failed"}, got : Calls \cup {Nothing}]]
    /\ pending \in Calls \cup {Nothing} /\ finish \in Calls \cup {Nothing}
    /\ timers \subseteq Calls /\ atEcu \subseteq Calls

UdsInit ==
    /\ call = [q \in Calls |-> [pc |-> "off", got |-> Nothing]]
    /\ pending = Nothing /\ timers = {} /\ finish = Nothing /\ atEcu = {}

-----------------------------------------------------------------------------
\* Mutant: the session gives up without telling the transport.
CancelNothing == UNCHANGED <<pending, timers, finish>>

\* cancel(): the last request's timer, and whoever is pending.
CancelPending == pending' = Nothing /\ timers' = timers \ {finish} /\ finish' = Nothing

Fail(q) == call' = [call EXCEPT ![q].pc = "failed"]

\* The transport takes the request and the ECU gets it, or gets nothing of it.
RequestCall(q) ==
    /\ call[q].pc = "off" /\ pending = Nothing
    /\ call' = [call EXCEPT ![q].pc = "waiting"]
    /\ pending' = q /\ timers' = timers \cup {q} /\ finish' = q
    /\ atEcu' = atEcu \cup {q} \/ UNCHANGED atEcu

\* send() throws: transport busy.  _once() takes that for a timeout and cancels
\* the request that keeps the transport busy.
RequestBusy(q) ==
    /\ call[q].pc = "off" /\ pending # Nothing
    /\ Fail(q) /\ CancelPending
    /\ UNCHANGED atEcu

\* An answer goes to whoever is pending.
AnswerCall(q) ==
    /\ q \in atEcu
    /\ atEcu' = atEcu \ {q}
    /\ call' = IF pending = Nothing THEN call
               ELSE [call EXCEPT ![pending] = [pc |-> "answered", got |-> q]]
    /\ pending' = Nothing
    /\ UNCHANGED <<timers, finish>>

\* The ECU never answers (fault no_response), or its answer does not get through.
NoAnswer(q) ==
    /\ q \in atEcu
    /\ atEcu' = atEcu \ {q}
    /\ UNCHANGED <<call, pending, timers, finish>>

\* UdsSession's timeoutMs: the call gives up; what it cancels may be another's.
SessionTimeout(q) ==
    /\ call[q].pc = "waiting"
    /\ Fail(q) /\ CancelPending
    /\ UNCHANGED atEcu

\* The receiver gives an answer up (onError, or its flow control is rejected).
ReceiveFails(q) ==
    /\ q \in atEcu /\ pending # Nothing
    /\ atEcu' = atEcu \ {q}
    /\ Fail(pending) /\ CancelPending

\* Request q clears its own timer or had it go off, and rejects whoever is pending.
Reject(q) ==
    /\ q \in timers
    /\ IF pending = Nothing
       THEN timers' = timers \ {q} /\ UNCHANGED <<call, pending, finish>>
       ELSE /\ Fail(pending) /\ pending' = Nothing
            /\ timers' = timers \ {q, finish} /\ finish' = Nothing
    /\ UNCHANGED atEcu

\* The sender gives request q up.  It may be another one that is pending by now.
\* (Once cancel() took q's timer this rejects as well, as SessionTimeout does.)
SendFails(q) == q \notin atEcu /\ Reject(q)

\* The transport's timer is longer than the session's, and an answer does not
\* clear it: it goes off during a later call and rejects that one.
TransportTimeout(q) == call[q].pc # "waiting" /\ Reject(q)

UdsNext ==
    \E q \in Calls :
        \/ RequestCall(q) \/ RequestBusy(q) \/ AnswerCall(q) \/ NoAnswer(q)
        \/ ReceiveFails(q) \/ SendFails(q) \/ SessionTimeout(q) \/ TransportTimeout(q)

UdsSpec == UdsInit /\ [][UdsNext]_udsVars

-----------------------------------------------------------------------------
\* The transport is never busy with a call that is over.
ReadyAgain == pending # Nothing => call[pending].pc = "waiting"
=============================================================================
