------------------------------- MODULE JsIsoTp -------------------------------
(***************************************************************************)
(* The JavaScript product's ISO-TP (diagnostics/isotp/index.js) on its     *)
(* virtual bus: an IsoTpSender and an IsoTpReceiver of two stations, as    *)
(* diagnostics/simulator/isotp-transport.js and uds-server.js wire them.   *)
(* A payload is its first frame and a number of chunks.                    *)
(*                                                                         *)
(* Timers are a second; frames take no time that counts against it, so a   *)
(* timer fires only when nothing is on its way.                            *)
(***************************************************************************)
EXTENDS Sequences, SequencesExt, Naturals

CONSTANTS
    Payloads,   \* Payloads[k]: consecutive frames of the k-th payload; 0: a single frame
    BlockSize,  \* options.blockSize
    SnMod,      \* the sequence number's modulus
    MaxRejects  \* bound: frames the bus drops

Sends == DOMAIN Payloads

ASSUME PayloadsAssumption ==
    /\ Payloads \in Seq(Nat) /\ BlockSize \in Nat /\ SnMod \in Nat \ {0}
    /\ MaxRejects \in Nat

VARIABLES
    strict,     \* the owner's sendFrame rejects when the bus does: the client's, not the server's
    sending,    \* sending[k]: the st of send() k, its loops of _sendConsecutive, its timer
    active,     \* IsoTpSender._active; 0: null
    receiver,   \* IsoTpReceiver
    air, flow,  \* frames on their way to the receiver, flow control to the sender
    rejects,
    received,   \* history: payloads handed to onMessage
    overlapped  \* history: a send() began before the one before had settled

jsVars == <<strict, sending, active, receiver, air, flow, rejects, received, overlapped>>

Unsent == [pc |-> "off", offset |-> 0, blockLeft |-> 0, loops |-> <<>>, timer |-> FALSE]
Resting == [on |-> FALSE, expected |-> 0, length |-> 0, buffer |-> <<>>]

Piece(k, i) == [send |-> k, chunk |-> i]

JsTypeOK ==
    /\ \A k \in Sends :
          /\ sending[k].pc \in {"off", "on", "resolved", "rejected"}
          /\ sending[k].offset \in 0 .. Payloads[k] /\ sending[k].blockLeft \in {0, BlockSize}
          /\ sending[k].pc # "on" => ~sending[k].timer
    /\ active \in Sends \cup {0} /\ (active # 0 => sending[active].pc = "on")
    /\ receiver.on \in BOOLEAN /\ receiver.expected \in 0 .. SnMod - 1
    /\ rejects \in 0 .. MaxRejects /\ {strict, overlapped} \subseteq BOOLEAN

JsInit ==
    /\ strict \in BOOLEAN
    /\ sending = [k \in Sends |-> Unsent]
    /\ active = 0 /\ receiver = Resting /\ air = <<>> /\ flow = <<>>
    /\ rejects = 0 /\ received = {} /\ overlapped = FALSE

-----------------------------------------------------------------------------
(* IsoTpSender.                                                            *)

\* bus.send(): the frame goes out, or is dropped and the promise says so.
Tx(f, Sent(_)) ==
    \/ Sent(TRUE) /\ air' = Append(air, f) /\ UNCHANGED rejects
    \/ Sent(FALSE) /\ rejects < MaxRejects /\ rejects' = rejects + 1 /\ UNCHANGED air

Settled(st, how) == [st EXCEPT !.pc = how, !.timer = FALSE]

\* _finish() and _fail() forget the active state, whoever's it is.
LetGo == active' = 0

\* The state and its timer are armed whatever becomes of the first frame.
SendPayload(k) ==
    /\ sending[k].pc = "off" /\ \A j \in Sends : j < k => sending[j].pc # "off"
    /\ overlapped' = (overlapped \/ \E j \in Sends : sending[j].pc = "on")
    /\ Tx([kind |-> IF Payloads[k] = 0 THEN "single" ELSE "first", send |-> k, sn |-> 0, chunk |-> 0],
          LAMBDA sent :
             LET how == IF ~sent /\ strict THEN "rejected" ELSE IF Payloads[k] = 0 THEN "resolved" ELSE "on" IN
             /\ sending' = [sending EXCEPT ![k].pc = how, ![k].timer = how = "on"]
             /\ active' = IF how = "on" THEN k ELSE 0)
    /\ UNCHANGED <<receiver, flow, received, strict>>

\* handleFlowControl(): the timer goes on; a loop starts, one more if one is running.
TakeFlow ==
    /\ flow # <<>>
    /\ flow' = Tail(flow)
    /\ sending' = IF active = 0 THEN sending
                  ELSE [sending EXCEPT ![active].blockLeft = BlockSize,
                                       ![active].loops = Append(@, 0)]
    /\ UNCHANGED <<active, receiver, air, rejects, received, overlapped, strict>>

\* Mutant: the last frame of a block is left out.
MoreOfBlockBut(st, k, count) == st.offset < Payloads[k] /\ count + 1 < st.blockLeft

MoreOfBlock(st, k, count) == st.offset < Payloads[k] /\ count < st.blockLeft

\* One turn of _sendConsecutive: all loops share offset and sn.
SendChunk(k, n) ==
    LET st == sending[k] IN
    /\ st.pc = "on" /\ n \in DOMAIN st.loops /\ MoreOfBlock(st, k, st.loops[n])
    /\ Tx([kind |-> "chunk", send |-> k, sn |-> (st.offset + 1) % SnMod, chunk |-> st.offset + 1],
          LAMBDA sent :
             IF sent \/ ~strict
             THEN /\ sending' = [sending EXCEPT ![k] = [st EXCEPT !.offset = st.offset + 1, !.loops[n] = st.loops[n] + 1]]
                  /\ UNCHANGED active
             ELSE sending' = [sending EXCEPT ![k] = Settled(st, "rejected")] /\ LetGo)
    /\ UNCHANGED <<receiver, flow, received, overlapped, strict>>

\* The end of a loop: all sent, block sent, or settled meanwhile.
EndLoop(k, n) ==
    LET st == [sending[k] EXCEPT !.loops = RemoveAt(@, n)] IN
    /\ n \in DOMAIN sending[k].loops
    /\ sending[k].pc = "on" => ~MoreOfBlock(sending[k], k, sending[k].loops[n])
    /\ IF st.pc = "on" /\ st.offset = Payloads[k]
       THEN sending' = [sending EXCEPT ![k] = Settled(st, "resolved")] /\ LetGo
       ELSE sending' = [sending EXCEPT ![k] = [st EXCEPT !.timer = st.pc = "on"]] /\ UNCHANGED active
    /\ UNCHANGED <<receiver, air, flow, rejects, received, overlapped, strict>>

NothingInAir == air = <<>> /\ flow = <<>>

FlowTimeout(k) ==
    /\ sending[k].timer /\ NothingInAir /\ sending[k].loops = <<>>
    /\ sending' = [sending EXCEPT ![k] = Settled(@, "rejected")]
    /\ LetGo
    /\ UNCHANGED <<receiver, air, flow, rejects, received, overlapped, strict>>

-----------------------------------------------------------------------------
(* IsoTpReceiver.onFrame; a sender's number of chunks is the length.       *)

Deliver(payload) == received' = received \cup {payload} /\ receiver' = Resting

\* The only frame the receiver answers.
TakeFirst(f) ==
    /\ f.kind = "first"
    /\ receiver' = [on |-> TRUE, expected |-> 1 % SnMod, length |-> Payloads[f.send],
                    buffer |-> <<Piece(f.send, 0)>>]
    /\ flow' = Append(flow, "continue")
    /\ UNCHANGED received

TakeSingle(f) ==
    /\ f.kind = "single"
    /\ Deliver(<<Piece(f.send, 0)>>)
    /\ UNCHANGED flow

Expected(f) == receiver.on /\ f.sn = receiver.expected

\* Mutant: the payload is handed out a chunk early.
EnoughEarly(buffer) == Len(buffer) >= receiver.length

\* The buffer, first frame included, holds the announced length.
Enough(buffer) == Len(buffer) > receiver.length

TakeChunk(f) ==
    LET buffer == Append(receiver.buffer, Piece(f.send, f.chunk)) IN
    /\ f.kind = "chunk"
    /\ IF ~Expected(f) THEN receiver' = [receiver EXCEPT !.on = FALSE] /\ UNCHANGED received
       ELSE IF Enough(buffer) THEN Deliver(buffer)
       ELSE /\ receiver' = [receiver EXCEPT !.buffer = buffer, !.expected = (@ + 1) % SnMod]
            /\ UNCHANGED received
    /\ UNCHANGED flow

OnFrame ==
    /\ air # <<>>
    /\ air' = Tail(air)
    /\ TakeFirst(Head(air)) \/ TakeSingle(Head(air)) \/ TakeChunk(Head(air))
    /\ UNCHANGED <<sending, active, rejects, overlapped, strict>>

\* Flow control the bus drops: sendFrame rejects, or nobody looks.
LoseFlow ==
    /\ flow # <<>> /\ rejects < MaxRejects
    /\ rejects' = rejects + 1 /\ flow' = Tail(flow)
    /\ UNCHANGED <<sending, active, receiver, air, received, overlapped, strict>>

ChunkTimeout ==
    /\ receiver.on /\ NothingInAir /\ \A k \in Sends : sending[k].loops = <<>>
    /\ receiver' = [receiver EXCEPT !.on = FALSE]
    /\ UNCHANGED <<sending, active, air, flow, rejects, received, overlapped, strict>>

-----------------------------------------------------------------------------
Advancing(k) == FlowTimeout(k) \/ \E n \in 1 .. Len(sending[k].loops) : SendChunk(k, n) \/ EndLoop(k, n)

JsNext ==
    \/ \E k \in Sends : SendPayload(k) \/ Advancing(k)
    \/ TakeFlow \/ OnFrame \/ LoseFlow \/ ChunkTimeout

\* Promises and timers of the event loop are carried out.
JsFairness == /\ \A k \in Sends : WF_jsVars(Advancing(k))
              /\ WF_jsVars(TakeFlow) /\ WF_jsVars(OnFrame)

JsSpec == JsInit /\ [][JsNext]_jsVars /\ JsFairness

Whole(k) == [i \in 1 .. Payloads[k] + 1 |-> Piece(k, i - 1)]

\* What reaches onMessage is one payload, whole and in order, whatever the bus
\* drops, as long as every send() waits for the one before.
ReceivedWhole == overlapped \/ received \subseteq {Whole(k) : k \in Sends}

\* A payload of at most one block arrives when the bus drops nothing.  (A longer
\* one cannot: the receiver gives permission for the first block only.)
BlockArrives ==
    \A k \in Sends : Payloads[k] <= BlockSize =>
        (sending[k].pc # "off" ~> (Whole(k) \in received \/ rejects > 0 \/ overlapped))
=============================================================================
