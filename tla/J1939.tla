-------------------------------- MODULE J1939 --------------------------------
(***************************************************************************)
(* J1939 messages longer than a frame (src/src/communication/protocols/    *)
(* j1939): nodes announce and send them in packets, the tool's reader      *)
(* thread puts them together by source address and queues them, and a      *)
(* caller of request_pgn() looks through the queue for the one it wants.   *)
(*                                                                         *)
(* The driver's own queue keeps the bus's order, so a frame that is sent   *)
(* is one the reader handles, unless it is lost.                           *)
(***************************************************************************)
EXTENDS SequencesExt, Naturals

CONSTANTS
    Outbox,     \* Outbox[s]: packets of each message node s sends, one after another
    Wanted,     \* the node whose messages request_pgn() asks for
    RxLimit,    \* capacity of _rx_queue
    MaxRequests,\* bound: calls of request_pgn() and receive_message()
    MaxDrops    \* bound: frames the bus or the driver loses

Nodes == DOMAIN Outbox

ASSUME OutboxAssumption ==
    /\ \A s \in Nodes : Outbox[s] \in Seq(Nat \ {0})
    /\ RxLimit \in Nat \ {0} /\ MaxRequests \in Nat /\ MaxDrops \in Nat

VARIABLES
    outgoing,   \* outgoing[s]: message and packet node s sends next; 0: the announcement
    sessions,   \* sessions[s]: J1939TransportProtocol.sessions, as a set of at most one
    rx,         \* _rx_queue
    caller,     \* request_pgn(): where it is, deadline_queue, the answer
    requests, drops,
    assembled,  \* history: what handle_frame() put together
    kept,       \* history: accepted in the queue and not handed out
    bereft      \* history: nodes whose announcement was lost while a session of theirs was open

jVars == <<outgoing, sessions, rx, caller, requests, drops, assembled, kept, bereft>>

Packet == [node : Nodes, msg : Nat, seq : Nat]

\* What is queued: it came with frame "by", which tells equal data apart.
Item == [node : Nodes, kind : {"frame", "message"}, by : Packet, data : Seq(Packet)]
Missing == [node |-> CHOOSE s \in Nodes : TRUE, msg |-> 0, seq |-> 0]

JTypeOK ==
    /\ \A s \in Nodes : outgoing[s].msg \in 1 .. Len(Outbox[s]) + 1
    \* A session is open while it has fewer packets than were announced; they
    \* are of that announcement unless the next one was lost.
    /\ \A s \in Nodes : \A u \in sessions[s] :
          /\ sessions[s] = {u} /\ Cardinality(DOMAIN u.received) < u.packets
          /\ s \notin bereft => DOMAIN u.received \subseteq 1 .. u.packets
    /\ \A i \in DOMAIN rx : rx[i] \in Item
    /\ Len(rx) <= RxLimit
    /\ caller.pc \in {"idle", "getting", "found", "empty"}
    /\ requests \in 0 .. MaxRequests /\ drops \in 0 .. MaxDrops
    /\ assembled \subseteq Item /\ kept \subseteq Item /\ bereft \subseteq Nodes

Idling == [pc |-> "idle", aside |-> <<>>, answer |-> <<>>]

JInit ==
    /\ outgoing = [s \in Nodes |-> [msg |-> 1, seq |-> 0]]
    /\ sessions = [s \in Nodes |-> {}]
    /\ rx = <<>> /\ caller = Idling
    /\ requests = 0 /\ drops = 0
    /\ assembled = {} /\ kept = {} /\ bereft = {}

-----------------------------------------------------------------------------
(* The nodes: send() of J1939TransportProtocol.                            *)

Sending(s) == outgoing[s].msg <= Len(Outbox[s])

FrameOf(s) == [node |-> s, msg |-> outgoing[s].msg, seq |-> outgoing[s].seq]

NextFrame(s) ==
    outgoing' = [outgoing EXCEPT ![s] =
        IF @.seq = Outbox[s][@.msg] THEN [msg |-> @.msg + 1, seq |-> 0] ELSE [msg |-> @.msg, seq |-> @.seq + 1]]

-----------------------------------------------------------------------------
(* The reader: handle_frame() and _offer().                                *)

Offer(item) ==
    IF Len(rx) < RxLimit
    THEN rx' = Append(rx, item) /\ kept' = kept \cup {item}
    ELSE UNCHANGED <<rx, kept>>

AsFrame(f) == [node |-> f.node, kind |-> "frame", by |-> f, data |-> <<f>>]

\* Mutant: an announcement does not replace an incomplete session.
HandleCmOnce(f) ==
    /\ sessions' = [sessions EXCEPT ![f.node] =
                       IF @ # {} THEN @ ELSE {[packets |-> Outbox[f.node][f.msg], received |-> <<>>]}]
    /\ Offer(AsFrame(f))
    /\ UNCHANGED assembled

\* A new announcement replaces whatever was open for that address.  A node sends
\* to one target, and by broadcast: there is no RTS, CTS or abort.
HandleCm(f) ==
    /\ sessions' = [sessions EXCEPT ![f.node] =
                       {[packets |-> Outbox[f.node][f.msg], received |-> <<>>]}]
    /\ Offer(AsFrame(f))
    /\ UNCHANGED assembled

Assemble(u) == [i \in 1 .. u.packets |-> IF i \in DOMAIN u.received THEN u.received[i] ELSE Missing]

WithPacket(u, f) == [u EXCEPT !.received = [i \in DOMAIN @ \cup {f.seq} |-> IF i = f.seq THEN f ELSE @[i]]]

Complete(u) == Cardinality(DOMAIN u.received) >= u.packets

\* A packet counts by its number; the last one missing completes the message.
\* A packet that completes nothing is offered as it came.
HandleDt(f) ==
    IF sessions[f.node] = {} THEN Offer(AsFrame(f)) /\ UNCHANGED <<sessions, assembled>>
    ELSE LET u == WithPacket(CHOOSE v \in sessions[f.node] : TRUE, f)
             whole == [node |-> f.node, kind |-> "message", by |-> f, data |-> Assemble(u)] IN
         IF Complete(u)
         THEN /\ sessions' = [sessions EXCEPT ![f.node] = {}]
              /\ assembled' = assembled \cup {whole}
              /\ Offer(whole)
         ELSE /\ sessions' = [sessions EXCEPT ![f.node] = {u}]
              /\ Offer(AsFrame(f))
              /\ UNCHANGED assembled

HandleFrame(f) == IF f.seq = 0 THEN HandleCm(f) ELSE HandleDt(f)

Hear(s) ==
    /\ Sending(s)
    /\ NextFrame(s)
    /\ HandleFrame(FrameOf(s))
    /\ UNCHANGED <<caller, requests, drops, bereft>>

LoseFrame(s) ==
    /\ Sending(s) /\ drops < MaxDrops
    /\ NextFrame(s)
    /\ drops' = drops + 1
    /\ bereft' = IF outgoing[s].seq = 0 /\ sessions[s] # {} THEN bereft \cup {s} ELSE bereft
    /\ UNCHANGED <<sessions, rx, caller, requests, assembled, kept>>

-----------------------------------------------------------------------------
(* The caller.                                                             *)

\* receive_message() takes whatever comes first.
ReceiveMessage ==
    /\ caller.pc = "idle" /\ requests < MaxRequests /\ rx # <<>>
    /\ requests' = requests + 1
    /\ rx' = Tail(rx) /\ kept' = kept \ {Head(rx)}
    /\ UNCHANGED <<outgoing, sessions, caller, drops, assembled, bereft>>

RequestPgn ==
    /\ caller.pc = "idle" /\ requests < MaxRequests
    /\ requests' = requests + 1
    /\ caller' = [caller EXCEPT !.pc = "getting"]
    /\ UNCHANGED <<outgoing, sessions, rx, drops, assembled, kept, bereft>>

Fits(item) == item.kind = "message" /\ item.node = Wanted

\* What does not fit is set aside; it goes back to the end of the queue.
GetItem ==
    /\ caller.pc = "getting" /\ rx # <<>>
    /\ rx' = Tail(rx)
    /\ caller' = IF Fits(Head(rx))
                 THEN [caller EXCEPT !.pc = "found", !.answer = <<Head(rx)>>]
                 ELSE [caller EXCEPT !.aside = Append(@, Head(rx))]
    /\ UNCHANGED <<outgoing, sessions, requests, drops, assembled, kept, bereft>>

GetEmpty ==
    /\ caller.pc = "getting" /\ rx = <<>>
    /\ caller' = [caller EXCEPT !.pc = "empty"]
    /\ UNCHANGED <<outgoing, sessions, rx, requests, drops, assembled, kept, bereft>>

\* put() waits for room: the reader may have filled the queue meanwhile.
PutBack ==
    /\ caller.pc \in {"found", "empty"} /\ caller.aside # <<>>
    /\ Len(rx) < RxLimit
    /\ rx' = Append(rx, Head(caller.aside))
    /\ caller' = [caller EXCEPT !.aside = Tail(@)]
    /\ UNCHANGED <<outgoing, sessions, requests, drops, assembled, kept, bereft>>

\* Mutant: what was set aside is forgotten when nothing fits.
AnswerForgetting ==
    /\ caller.pc \in {"found", "empty"} /\ (caller.pc = "empty" \/ caller.aside = <<>>)
    /\ kept' = kept \ ToSet(caller.answer)
    /\ caller' = Idling
    /\ UNCHANGED <<outgoing, sessions, rx, requests, drops, assembled, bereft>>

AnswerRequest ==
    /\ caller.pc \in {"found", "empty"} /\ caller.aside = <<>>
    /\ kept' = kept \ ToSet(caller.answer)
    /\ caller' = Idling
    /\ UNCHANGED <<outgoing, sessions, rx, requests, drops, assembled, bereft>>

JNext ==
    \/ \E s \in Nodes : Hear(s) \/ LoseFrame(s)
    \/ ReceiveMessage \/ RequestPgn \/ GetItem \/ GetEmpty \/ PutBack \/ AnswerRequest

JSpec == JInit /\ [][JNext]_jVars

-----------------------------------------------------------------------------
\* What the reader puts together is one message of one node with its packets
\* in order, however the nodes' frames mix and whichever are lost, as long as
\* no announcement was lost while that node's previous message was incomplete.
AssembledIsWhole ==
    \A m \in assembled : m.node \notin bereft =>
        \E k \in DOMAIN Outbox[m.node] :
            m.data = [i \in 1 .. Outbox[m.node][k] |-> [node |-> m.node, msg |-> k, seq |-> i]]

\* request_pgn() looks through other callers' messages without losing or
\* doubling one: all that was queued and not handed out is still there.
NothingForgotten ==
    LET held == rx \o caller.aside \o caller.answer IN ToSet(held) = kept /\ IsInjective(held)
=============================================================================
