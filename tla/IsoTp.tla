------------------------------- MODULE IsoTp -------------------------------
(***************************************************************************)
(* ISO 15765-2 segmentation as src/src/communication/isotp_handler.py does *)
(* it.  Both ends of the diagnostic link run the same class IsoTpHandler:  *)
(* CANProtocol owns the tester's, ECUSimulator the ECU's.  Each station    *)
(* has one queue of raw frames (CANProtocol._rx_queue, VirtualBusNode      *)
(* .inbox), one thread that is either in send() or in receive(), and every *)
(* frame, flow control included, goes through the peer's queue.            *)
(*                                                                         *)
(* A payload is a first chunk (its single or first frame) and then as many *)
(* chunks as it takes consecutive frames; a chunk is known by the number   *)
(* of its payload and its position in it, so a payload put together from   *)
(* chunks of two payloads can be told from a correct one.                  *)
(***************************************************************************)
EXTENDS Integers, Sequences

CONSTANTS
    Tester, Ecu,    \* the two stations
    Lengths,        \* numbers of consecutive frames a payload may take
    BlockSize,      \* BlockSize[s]: IsoTpConfig.block_size of station s
    SequenceMod,         \* the sequence number is kept modulo this (16: "& 0x0F")
    BsMod,          \* the block size byte is kept modulo this (256: "& 0xFF")
    WaitLimit,      \* IsoTpConfig.wait_frame_limit
    MaxSends,       \* bound: MaxSends[s] payloads station s submits
    MaxLoss,        \* bound: frames the bus loses, or refuses to take
    MaxForeign      \* bound: flow control frames from elsewhere

Station == {Tester, Ecu}
Peer(s) == IF s = Tester THEN Ecu ELSE Tester

ASSUME StationAssumption == Tester # Ecu
ASSUME SizeAssumption ==
    /\ Lengths \subseteq Nat
    /\ BlockSize \in [Station -> Nat]
    /\ SequenceMod \in Nat \ {0}
    /\ BsMod \in Nat \ {0}
ASSUME BoundAssumption ==
    /\ WaitLimit \in Nat /\ MaxSends \in [Station -> Nat]
    /\ MaxLoss \in Nat /\ MaxForeign \in Nat

VARIABLES
    rx,         \* rx[s]: the raw frames queued for station s
    mode,       \* mode[s]: where the thread of s is in IsoTpHandler
    tx,         \* tx[s]: the locals of _send_multi_frame and _await_flow_control
    asm,        \* asm[s]: _rx_buffer, _rx_expected, _rx_sequence, received_in_block
    sent,       \* sent[s]: history, the length of every payload given to send()
    delivered,  \* delivered[s]: history, what receive() returned, in order
    lost,       \* frames lost so far
    foreign     \* foreign flow control frames so far

vars == <<rx, mode, tx, asm, sent, delivered, lost, foreign>>

-----------------------------------------------------------------------------
Chunk == [id : Nat, pos : Nat]

SingleFrame(k) == [kind |-> "SF", id |-> k]
FirstFrame(k, n) == [kind |-> "FF", id |-> k, len |-> n + 1]
ConsecutiveFrame(k, p, q) == [kind |-> "CF", id |-> k, pos |-> p, seq |-> q]
FlowControl(f, b) == [kind |-> "FC", status |-> f, bs |-> b]

SeqNumber == 0 .. SequenceMod - 1

Status == {"CTS", "WAIT", "OVFLW", "RESERVED"}

Frame == [kind : {"SF"}, id : Nat]
            \cup [kind : {"FF"}, id : Nat, len : Nat]
            \cup [kind : {"CF"}, id : Nat, pos : Nat, seq : SeqNumber]
            \cup [kind : {"FC"}, status : Status, bs : Nat]

\* "calling": in _await_flow_control.    "sending": between two of its calls.
\* "listening": in receive().            "collecting": in _receive_remaining.
Mode == {"idle", "calling", "sending", "listening", "collecting"}

TxState == [id : Nat, len : Nat, pos : Nat, seq : SeqNumber, block : Nat, bs : Nat,
            waits : Nat]
AsmState == [buf : Seq(Chunk), len : Nat, seq : SeqNumber, block : Nat]

\* Payload number k, of n + 1 chunks.
Payload(k, n) == [i \in 1 .. n + 1 |-> [id |-> k, pos |-> i - 1]]

TypeOK ==
    /\ rx \in [Station -> Seq(Frame)]
    /\ mode \in [Station -> Mode]
    /\ tx \in [Station -> TxState]
    /\ asm \in [Station -> AsmState]
    /\ sent \in [Station -> Seq(Nat)]
    /\ delivered \in [Station -> Seq(Seq(Chunk))]
    /\ lost \in 0 .. MaxLoss
    /\ foreign \in 0 .. MaxForeign

Init ==
    /\ rx = [s \in Station |-> <<>>]
    /\ mode = [s \in Station |-> "idle"]
    /\ tx = [s \in Station |->
               [id |-> 0, len |-> 0, pos |-> 0, seq |-> 0, block |-> 0, bs |-> 0, waits |-> 0]]
    /\ asm = [s \in Station |-> [buf |-> <<>>, len |-> 0, seq |-> 0, block |-> 0]]
    /\ sent = [s \in Station |-> <<>>]
    /\ delivered = [s \in Station |-> <<>>]
    /\ lost = 0
    /\ foreign = 0

-----------------------------------------------------------------------------
(* Frames on the wire.                                                     *)

Transmit(s, f) == rx' = [rx EXCEPT ![Peer(s)] = Append(@, f)]

Take(s) == rx' = [rx EXCEPT ![s] = Tail(@)]

TakeAndTransmit(s, f) ==
    rx' = [rx EXCEPT ![s] = Tail(@), ![Peer(s)] = Append(@, f)]

\* _send_flow_control(CONTINUE_TO_SEND) with the configured block size.
Continue(s) == FlowControl("CTS", BlockSize[s] % BsMod)

Pending(s, kind) == rx[s] # <<>> /\ Head(rx[s]).kind = kind

-----------------------------------------------------------------------------
(* send()                                                                  *)

\* The payload fits a single frame: no answer is awaited.
SendSingle(s) ==
    /\ mode[s] = "idle"
    /\ Len(sent[s]) < MaxSends[s]
    /\ 0 \in Lengths
    /\ sent' = [sent EXCEPT ![s] = Append(@, 0)]
    /\ Transmit(s, SingleFrame(Len(sent[s]) + 1))
    /\ UNCHANGED <<mode, tx, asm, delivered, lost, foreign>>

\* The first frame goes out; the locals of _send_multi_frame are set up.
\* The negotiated block size is an attribute and survives from before.
SendFirst(s, n) ==
    /\ mode[s] = "idle"
    /\ Len(sent[s]) < MaxSends[s]
    /\ n > 0
    /\ sent' = [sent EXCEPT ![s] = Append(@, n)]
    /\ Transmit(s, FirstFrame(Len(sent[s]) + 1, n))
    /\ tx' = [tx EXCEPT ![s] = [@ EXCEPT !.id = Len(sent[s]) + 1, !.len = n, !.pos = 1,
                                         !.seq = 1 % SequenceMod, !.block = 0, !.waits = 0]]
    /\ mode' = [mode EXCEPT ![s] = "calling"]
    /\ UNCHANGED <<asm, delivered, lost, foreign>>

\* _await_flow_control takes a frame that is no flow control: it is dropped.
SkipFrame(s) ==
    /\ mode[s] = "calling"
    /\ rx[s] # <<>> /\ Head(rx[s]).kind # "FC"
    /\ Take(s)
    /\ UNCHANGED <<mode, tx, asm, sent, delivered, lost, foreign>>

\* The permission to send the next block.
FlowContinue(s) ==
    /\ mode[s] = "calling"
    /\ Pending(s, "FC") /\ Head(rx[s]).status = "CTS"
    /\ Take(s)
    /\ tx' = [tx EXCEPT ![s] = [@ EXCEPT !.block = Head(rx[s]).bs, !.bs = Head(rx[s]).bs]]
    /\ mode' = [mode EXCEPT ![s] = "sending"]
    /\ UNCHANGED <<asm, sent, delivered, lost, foreign>>

FlowWait(s) ==
    /\ mode[s] = "calling"
    /\ Pending(s, "FC") /\ Head(rx[s]).status = "WAIT"
    /\ Take(s)
    /\ tx' = [tx EXCEPT ![s] = [tx[s] EXCEPT !.waits = tx[s].waits + 1]]
    /\ mode' = [mode EXCEPT ![s] = IF tx[s].waits + 1 > WaitLimit THEN "idle" ELSE "calling"]
    /\ UNCHANGED <<asm, sent, delivered, lost, foreign>>

\* Overflow or a reserved status: FlowControlError ends send().
FlowRefused(s) ==
    /\ mode[s] = "calling"
    /\ Pending(s, "FC") /\ Head(rx[s]).status \notin {"CTS", "WAIT"}
    /\ Take(s)
    /\ mode' = [mode EXCEPT ![s] = "idle"]
    /\ UNCHANGED <<tx, asm, sent, delivered, lost, foreign>>

\* N_Bs: the queue stayed empty for n_bs_timeout_ms.
FlowTimeout(s) ==
    /\ mode[s] = "calling"
    /\ rx[s] = <<>>
    /\ mode' = [mode EXCEPT ![s] = "idle"]
    /\ UNCHANGED <<rx, tx, asm, sent, delivered, lost, foreign>>

\* One turn of the loop of _send_multi_frame, up to the test at its next turn.
SendConsecutive(s) ==
    LET t == tx[s]
        left == IF t.block > 0 THEN t.block - 1 ELSE 0
    IN
    /\ mode[s] = "sending"
    /\ Transmit(s, ConsecutiveFrame(t.id, t.pos, t.seq))
    /\ tx' = [tx EXCEPT ![s] = [t EXCEPT !.pos = t.pos + 1, !.seq = (t.seq + 1) % SequenceMod,
                                         !.block = left, !.waits = 0]]
    /\ mode' = [mode EXCEPT ![s] = IF t.pos = t.len THEN "idle"
                                   ELSE IF left = 0 /\ t.bs > 0 THEN "calling"
                                   ELSE "sending"]
    /\ UNCHANGED <<asm, sent, delivered, lost, foreign>>

\* The driver refuses a consecutive frame: SendError ends send().  Single, first
\* and flow control frames are refused nowhere in the model.
SendError(s) ==
    /\ mode[s] = "sending"
    /\ lost < MaxLoss
    /\ lost' = lost + 1
    /\ mode' = [mode EXCEPT ![s] = "idle"]
    /\ UNCHANGED <<rx, tx, asm, sent, delivered, foreign>>

-----------------------------------------------------------------------------
(* receive()                                                               *)

Listen(s) ==
    /\ mode[s] = "idle"
    /\ mode' = [mode EXCEPT ![s] = "listening"]
    /\ UNCHANGED <<rx, tx, asm, sent, delivered, lost, foreign>>

\* The deadline of receive() is tested between two frames.
ListenTimeout(s) ==
    /\ mode[s] = "listening"
    /\ mode' = [mode EXCEPT ![s] = "idle"]
    /\ UNCHANGED <<rx, tx, asm, sent, delivered, lost, foreign>>

\* Mutant: the single frame stays in the queue.
PeekSingle(s) ==
    /\ mode[s] = "listening"
    /\ Pending(s, "SF")
    /\ delivered' = [delivered EXCEPT ![s] = Append(@, Payload(Head(rx[s]).id, 0))]
    /\ mode' = [mode EXCEPT ![s] = "idle"]
    /\ UNCHANGED <<rx, tx, asm, sent, lost, foreign>>

ReceiveSingle(s) ==
    /\ mode[s] = "listening"
    /\ Pending(s, "SF")
    /\ Take(s)
    /\ delivered' = [delivered EXCEPT ![s] = Append(@, Payload(Head(rx[s]).id, 0))]
    /\ mode' = [mode EXCEPT ![s] = "idle"]
    /\ UNCHANGED <<tx, asm, sent, lost, foreign>>

\* Mutant: what an aborted reassembly left in the buffer stays there.
StartedOver(s, f) == [buf |-> asm[s].buf \o Payload(f.id, 0), len |-> f.len,
                      seq |-> 1 % SequenceMod, block |-> 0]

\* asm[s] after the first frame f.
Started(s, f) == [buf |-> Payload(f.id, 0), len |-> f.len, seq |-> 1 % SequenceMod, block |-> 0]

\* Reassembly starts and the sender gets its first flow control frame.
ReceiveFirst(s) ==
    /\ mode[s] = "listening"
    /\ Pending(s, "FF")
    /\ TakeAndTransmit(s, Continue(s))
    /\ asm' = [asm EXCEPT ![s] = Started(s, Head(rx[s]))]
    /\ mode' = [mode EXCEPT ![s] = "collecting"]
    /\ UNCHANGED <<tx, sent, delivered, lost, foreign>>

\* A stray consecutive frame, or a flow control frame nobody waits for.
IgnoreStray(s) ==
    /\ mode[s] = "listening"
    /\ Pending(s, "CF") \/ Pending(s, "FC")
    /\ Take(s)
    /\ UNCHANGED <<mode, tx, asm, sent, delivered, lost, foreign>>

\* _receive_remaining drops every frame that is not a consecutive frame, the
\* start of the next message included.
IgnoreWhileCollecting(s) ==
    /\ mode[s] = "collecting"
    /\ rx[s] # <<>> /\ Head(rx[s]).kind # "CF"
    /\ Take(s)
    /\ UNCHANGED <<mode, tx, asm, sent, delivered, lost, foreign>>

\* Mutant: the sequence number of a consecutive frame is not looked at.
AnyTurn(s) == TRUE

\* The consecutive frame at the head is the one expected next.
InTurn(s) == Head(rx[s]).seq = asm[s].seq

\* SequenceNumberError: the buffer is left as it is.
OutOfSequence(s) ==
    /\ mode[s] = "collecting"
    /\ Pending(s, "CF") /\ ~InTurn(s)
    /\ Take(s)
    /\ mode' = [mode EXCEPT ![s] = "idle"]
    /\ UNCHANGED <<tx, asm, sent, delivered, lost, foreign>>

\* asm[s] after the consecutive frame f.
Extended(s, f) ==
    LET n == asm[s].block + 1 IN
    [buf |-> Append(asm[s].buf, [id |-> f.id, pos |-> f.pos]),
     len |-> asm[s].len,
     seq |-> (asm[s].seq + 1) % SequenceMod,
     block |-> IF BlockSize[s] > 0 /\ n >= BlockSize[s] THEN 0 ELSE n]

\* Mutants: the block is taken to end one frame early, or one frame late.
BlockEndsEarly(s) == BlockSize[s] > 0 /\ asm[s].block + 2 >= BlockSize[s]
BlockEndsLate(s) == BlockSize[s] > 0 /\ asm[s].block >= BlockSize[s]

BlockComplete(s) == BlockSize[s] > 0 /\ asm[s].block + 1 >= BlockSize[s]

\* A consecutive frame in sequence, and more are expected.
Collect(s) ==
    /\ mode[s] = "collecting"
    /\ Pending(s, "CF") /\ InTurn(s)
    /\ Len(asm[s].buf) + 1 < asm[s].len
    /\ IF BlockComplete(s) THEN TakeAndTransmit(s, Continue(s)) ELSE Take(s)
    /\ asm' = [asm EXCEPT ![s] = Extended(s, Head(rx[s]))]
    /\ UNCHANGED <<mode, tx, sent, delivered, lost, foreign>>

\* The last consecutive frame: the payload is returned and reset() clears.
CollectLast(s) ==
    /\ mode[s] = "collecting"
    /\ Pending(s, "CF") /\ InTurn(s)
    /\ Len(asm[s].buf) + 1 >= asm[s].len
    /\ Take(s)
    /\ delivered' = [delivered EXCEPT ![s] = Append(@, Extended(s, Head(rx[s])).buf)]
    /\ asm' = [asm EXCEPT ![s] = [buf |-> <<>>, len |-> 0, seq |-> 0, block |-> 0]]
    /\ mode' = [mode EXCEPT ![s] = "idle"]
    /\ UNCHANGED <<tx, sent, lost, foreign>>

\* Mutant: the deadline is set anew when it passes.
CollectsForEver(s) == mode[s] = "collecting" /\ rx[s] = <<>> /\ UNCHANGED vars

\* N_Cr: the queue stayed empty for n_cr_timeout_ms.
CollectTimeout(s) ==
    /\ mode[s] = "collecting"
    /\ rx[s] = <<>>
    /\ mode' = [mode EXCEPT ![s] = "idle"]
    /\ UNCHANGED <<rx, tx, asm, sent, delivered, lost, foreign>>

-----------------------------------------------------------------------------
(* The bus.                                                                *)

Without(q, i) == SubSeq(q, 1, i - 1) \o SubSeq(q, i + 1, Len(q))

\* A frame is dropped: injected (VirtualVCIDriver.drop_probability), or the
\* queue was full (CANProtocol._read_loop, VirtualBusNode.deliver).
Lose(s) ==
    /\ lost < MaxLoss
    /\ lost' = lost + 1
    /\ \E i \in 1 .. Len(rx[s]) : rx' = [rx EXCEPT ![s] = Without(@, i)]
    /\ UNCHANGED <<mode, tx, asm, sent, delivered, foreign>>

\* A flow control frame this code never sends, from an ECU that is not the
\* simulator or from another node with the same identifier.
ForeignFlow(s) ==
    /\ foreign < MaxForeign
    /\ foreign' = foreign + 1
    /\ \E f \in Status \ {"CTS"} : rx' = [rx EXCEPT ![s] = Append(@, FlowControl(f, 0))]
    /\ UNCHANGED <<mode, tx, asm, sent, delivered, lost>>

-----------------------------------------------------------------------------
SendStep(s) ==
    \/ SkipFrame(s) \/ FlowContinue(s) \/ FlowWait(s) \/ FlowRefused(s)
    \/ SendConsecutive(s)

ReceiveStep(s) ==
    \/ ReceiveSingle(s) \/ ReceiveFirst(s) \/ IgnoreStray(s)
    \/ IgnoreWhileCollecting(s) \/ OutOfSequence(s) \/ Collect(s) \/ CollectLast(s)

CallStep(s) == SendSingle(s) \/ (\E n \in Lengths : SendFirst(s, n)) \/ Listen(s)

Fault(s) == Lose(s) \/ SendError(s)

Timeout(s) == FlowTimeout(s) \/ ListenTimeout(s) \/ CollectTimeout(s)

Next == \E s \in Station :
    CallStep(s) \/ SendStep(s) \/ ReceiveStep(s) \/ Fault(s) \/ Timeout(s) \/ ForeignFlow(s)

Spec == Init /\ [][Next]_vars

(* Prompt stations.  N_Bs and N_Cr are a second and the stations answer in *)
(* milliseconds: a timer expires only once nothing is on the way that      *)
(* could stop it, neither queued at the peer nor about to be sent by it.   *)
Quiet(s) == rx[Peer(s)] = <<>> /\ mode[Peer(s)] # "sending"

PromptTimeout(s) ==
    \/ Quiet(s) /\ (FlowTimeout(s) \/ CollectTimeout(s))
    \/ ListenTimeout(s)

PromptNext == \E s \in Station :
    CallStep(s) \/ SendStep(s) \/ ReceiveStep(s) \/ Fault(s) \/ PromptTimeout(s)

PromptSpec == Init /\ [][PromptNext]_vars

\* A thread inside send() or receive() goes on, and its timers expire.
FairSpec ==
    Spec /\ \A s \in Station : WF_vars(SendStep(s) \/ ReceiveStep(s) \/ Timeout(s))

\* The ECU serves: ECUSimulator._serve calls receive() again and again, and a
\* queued frame is read before the deadline of a later call passes.
ServeSpec ==
    /\ PromptSpec
    /\ WF_vars(Listen(Ecu))
    /\ \A s \in Station :
        /\ WF_vars(SendStep(s)) /\ SF_vars(ReceiveStep(s)) /\ WF_vars(PromptTimeout(s))

-----------------------------------------------------------------------------
(* Properties.                                                             *)

\* Whatever is lost, late or mixed, receive() returns exactly as many chunks
\* as the first frame announced, and chunk i was sent with the sequence
\* number a chunk at position i - 1 has: positions agree modulo SequenceMod
\* (_receive_remaining, _send_multi_frame).
InSequence(p) == \A i \in 1 .. Len(p) : p[i].pos % SequenceMod = (i - 1) % SequenceMod

DeliveredInSequence ==
    \A s \in Station : \A i \in 1 .. Len(delivered[s]) :
        LET p == delivered[s][i] IN
        /\ p # <<>> /\ p[1].id \in 1 .. Len(sent[Peer(s)]) /\ p[1].pos = 0
        /\ Len(p) = sent[Peer(s)][p[1].id] + 1
        /\ InSequence(p)

\* "Receive and reassemble one complete payload": what receive() returns is
\* one of the payloads the peer gave to send(), whole and unmixed.
Intact(s, p) ==
    \E k \in 1 .. Len(sent[Peer(s)]) : p = Payload(k, sent[Peer(s)][k])

DeliveredIntact ==
    \A s \in Station : \A i \in 1 .. Len(delivered[s]) : Intact(s, delivered[s][i])

\* A flow control frame is queued only for a station that waits for one, and
\* never two of them: a permission left over from one message would open the
\* next one before its receiver is ready.
NoStaleFlow ==
    \A s \in Station : \A i \in 1 .. Len(rx[s]) :
        rx[s][i].kind = "FC" =>
            /\ mode[s] = "calling"
            /\ \A j \in 1 .. Len(rx[s]) : rx[s][j].kind = "FC" => i = j

\* send() and receive() return: no call blocks its thread for ever, whatever
\* frames are lost and whatever flow control arrives.
CallReturns == \A s \in Station : mode[s] # "idle" ~> mode[s] = "idle"

\* On a bus that loses nothing, with prompt stations, a serving ECU gets every
\* payload the tester submits: block after block, round the sequence numbers,
\* one payload behind the other.
EveryPayloadArrives ==
    \A k \in 1 .. MaxSends[Tester] :
        Len(sent[Tester]) >= k ~> Len(delivered[Ecu]) >= k

\* The link implements the channel the diagnostic layer relies on.
Number(p) == IF p # <<>> THEN p[1].id ELSE 0

Submitted == [s \in Station |-> Len(sent[Peer(s)])]

HandedOut == [s \in Station |-> [i \in 1 .. Len(delivered[s]) |->
                 IF Intact(s, delivered[s][i]) THEN Number(delivered[s][i]) ELSE 0]]

Channel == INSTANCE MessageChannel WITH
    Link <- Station, submitted <- Submitted, received <- HandedOut

ImplementsChannel == Channel!Spec
-----------------------------------------------------------------------------
(* What makes DeliveredInSequence inductive.                               *)

\* Frames for s that carry what the peer's send() put in them.
Faithful(s) == {f \in Frame :
    /\ f.kind = "SF" => f.id \in 1 .. Len(sent[Peer(s)]) /\ sent[Peer(s)][f.id] = 0
    /\ f.kind = "FF" => /\ f.id \in 1 .. Len(sent[Peer(s)])
                       /\ f.len = sent[Peer(s)][f.id] + 1
                       /\ f.len > 1
    /\ f.kind = "CF" => f.seq = f.pos % SequenceMod}

FramesFaithful == \A s \in Station : rx[s] \in Seq(Faithful(s))

SendersInSequence ==
    \A s \in Station :
        mode[s] \in {"calling", "sending"} => tx[s].seq = tx[s].pos % SequenceMod

ReceiversInSequence ==
    \A s \in Station : mode[s] = "collecting" =>
        LET b == asm[s].buf IN
        /\ b # <<>> /\ b[1].id \in 1 .. Len(sent[Peer(s)]) /\ b[1].pos = 0
        /\ asm[s].len = sent[Peer(s)][b[1].id] + 1
        /\ Len(b) < asm[s].len
        /\ InSequence(b)
        /\ asm[s].seq = Len(b) % SequenceMod

SequenceInv ==
    /\ TypeOK
    /\ FramesFaithful /\ SendersInSequence /\ ReceiversInSequence
    /\ DeliveredInSequence

=============================================================================
