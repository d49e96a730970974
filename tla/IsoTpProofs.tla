---------------------------- MODULE IsoTpProofs ----------------------------
(***************************************************************************)
(* Machine-checked facts about IsoTp, for every block size, message        *)
(* length, sequence modulus and number of lost frames.                     *)
(***************************************************************************)
EXTENDS IsoTp, SequenceTheorems, TLAPS

-----------------------------------------------------------------------------
(* Arithmetic: sequence numbers follow positions round the modulus.        *)

\* Every position is a number of rounds of the sequence number and a rest.
LEMMA Division ==
    ASSUME NEW a \in Nat, NEW m \in Nat \ {0}
    PROVE  \E q \in Nat : \E r \in 0 .. m - 1 : a = m * q + r /\ a % m = r
  BY Z3

\* The rest is what % yields, whichever way the position was split.
LEMMA DivisionUnique ==
    ASSUME NEW a \in Nat, NEW m \in Nat \ {0},
           NEW q \in Nat, NEW r \in 0 .. m - 1, a = m * q + r
    PROVE  a % m = r
  BY SMTT(30)

\* Counting one on from a remainder is counting one on and then taking it:
\* (sequence + 1) & 0x0F follows the position of the frame.
LEMMA NextRemainder ==
    ASSUME NEW a \in Nat, NEW m \in Nat \ {0}
    PROVE  ((a % m) + 1) % m = (a + 1) % m
<1>1. PICK q \in Nat, r \in 0 .. m - 1 : a = m * q + r /\ a % m = r
  BY Division
<1>2. CASE r + 1 < m
  <2>1. a + 1 = m * q + (r + 1) /\ a + 1 \in Nat /\ r + 1 \in 0 .. m - 1
    BY <1>1, <1>2
  <2>2. (a + 1) % m = r + 1
    BY <2>1, DivisionUnique
  <2>3. (r + 1) % m = r + 1
    BY <1>1, <1>2, SMTT(30)
  <2> QED BY <2>2, <2>3, <1>1
<1>3. CASE r + 1 = m
  <2>1. a + 1 = m * (q + 1) + 0 /\ a + 1 \in Nat /\ q + 1 \in Nat /\ 0 \in 0 .. m - 1
    BY <1>1, <1>3
  <2>2. (a + 1) % m = 0
    BY <2>1, DivisionUnique
  <2>3. (r + 1) % m = 0
    BY <1>1, <1>3, DivisionUnique
  <2> QED BY <2>2, <2>3, <1>1
<1> QED BY <1>1, <1>2, <1>3

\* A remainder is below its modulus.
LEMMA RemainderNat ==
    ASSUME NEW a \in Nat, NEW m \in Nat \ {0}
    PROVE  a % m \in Nat /\ a % m \in 0 .. m - 1
  BY Division

\* Masking keeps sequence numbers in their range.
LEMMA Masked == \A a \in Nat : a % SequenceMod \in SeqNumber /\ a % SequenceMod \in Nat
  BY SizeAssumption, RemainderNat DEF SeqNumber

-----------------------------------------------------------------------------
(* Queues.                                                                 *)

\* There are two stations: the peer of the peer is the station itself.
LEMMA PeerFacts ==
    ASSUME NEW s \in Station
    PROVE  Peer(s) \in Station /\ Peer(s) # s /\ Peer(Peer(s)) = s
  BY StationAssumption DEF Station, Peer

\* A frame put at the end of a queue leaves a queue.
LEMMA AppendSeq ==
    ASSUME NEW S, NEW q \in Seq(S), NEW e \in S
    PROVE  Append(q, e) \in Seq(S)
  OBVIOUS

\* So does taking the frame at its head.
LEMMA TailSeq ==
    ASSUME NEW S, NEW q \in Seq(S), q # <<>>
    PROVE  Tail(q) \in Seq(S) /\ Head(q) \in S
  OBVIOUS

\* Dropping an element of a queue leaves a queue of the same elements.
LEMMA WithoutSeq ==
    ASSUME NEW S, NEW q \in Seq(S), NEW i \in 1 .. Len(q)
    PROVE  Without(q, i) \in Seq(S)
<1>1. SubSeq(q, 1, i - 1) \in Seq(S)
  OBVIOUS
<1>2. SubSeq(q, i + 1, Len(q)) \in Seq(S)
  OBVIOUS
<1> QED BY <1>1, <1>2 DEF Without

\* A queue of some frames is a queue of any larger set of frames.
LEMMA SeqWiden ==
    ASSUME NEW S, NEW T, S \subseteq T, NEW q \in Seq(S)
    PROVE  q \in Seq(T)
  OBVIOUS

\* A payload is a sequence of chunks, one more than its consecutive frames.
LEMMA PayloadType ==
    ASSUME NEW k \in Nat, NEW n \in Nat
    PROVE  /\ Payload(k, n) \in Seq(Chunk)
           /\ Len(Payload(k, n)) = n + 1
           /\ \A i \in 1 .. n + 1 : Payload(k, n)[i] = [id |-> k, pos |-> i - 1]
  BY DEF Payload, Chunk

\* A payload that is, so far, its first chunk only.
LEMMA FirstChunk ==
    ASSUME NEW k \in Nat
    PROVE  /\ Payload(k, 0) \in Seq(Chunk)
           /\ Payload(k, 0) # <<>> /\ Len(Payload(k, 0)) = 1
           /\ Payload(k, 0)[1] = [id |-> k, pos |-> 0]
           /\ InSequence(Payload(k, 0))
<1>1. Payload(k, 0) = << [id |-> k, pos |-> 0] >>
  BY DEF Payload
<1>2. [id |-> k, pos |-> 0] \in Chunk /\ [id |-> k, pos |-> 0].pos = 0
  BY DEF Chunk
<1>3. ASSUME NEW c \in Chunk, c.pos = 0
      PROVE  /\ <<c>> \in Seq(Chunk) /\ <<c>> # <<>> /\ Len(<<c>>) = 1 /\ <<c>>[1] = c
             /\ InSequence(<<c>>)
  BY <1>3 DEF InSequence
<1> QED BY <1>1, <1>2, <1>3

-----------------------------------------------------------------------------
(* Type correctness.                                                       *)

\* The frames the handler builds are frames.
LEMMA FrameTypes ==
    /\ \A k \in Nat : SingleFrame(k) \in Frame
    /\ \A k, n \in Nat : FirstFrame(k, n) \in Frame
    /\ \A k, p \in Nat, q \in SeqNumber : ConsecutiveFrame(k, p, q) \in Frame
    /\ \A f \in Status, b \in Nat : FlowControl(f, b) \in Frame
  BY DEF SingleFrame, FirstFrame, ConsecutiveFrame, FlowControl, Frame, Status

\* So is the flow control frame with the configured block size.
LEMMA ContinueType ==
    ASSUME NEW s \in Station
    PROVE  Continue(s) \in Frame
  BY SizeAssumption, RemainderNat, FrameTypes DEF Continue, Status

\* The handler starts well typed.
LEMMA InitType == Init => TypeOK
<1> SUFFICES ASSUME Init PROVE TypeOK
  OBVIOUS
<1>1. asm \in [Station -> AsmState]
  BY SizeAssumption DEF Init, AsmState, SeqNumber
<1>2. tx \in [Station -> TxState]
  BY SizeAssumption DEF Init, TxState, SeqNumber
<1>3. delivered \in [Station -> Seq(Seq(Chunk))] /\ sent \in [Station -> Seq(Nat)]
  BY DEF Init
<1> QED BY <1>1, <1>2, <1>3, BoundAssumption DEF Init, TypeOK, Mode

\* The frame at the head of a queue, and what the branches read from it.
LEMMA HeadType ==
    ASSUME TypeOK, NEW s \in Station, rx[s] # <<>>
    PROVE  LET f == Head(rx[s]) IN
           /\ f \in Frame
           /\ f.kind = "SF" => f.id \in Nat
           /\ f.kind = "FF" => f.id \in Nat /\ f.len \in Nat
           /\ f.kind = "CF" => f.id \in Nat /\ f.pos \in Nat /\ f.seq \in SeqNumber
           /\ f.kind = "FC" => f.status \in Status /\ f.bs \in Nat
<1>1. Head(rx[s]) \in Frame
  BY TailSeq DEF TypeOK
<1> QED BY <1>1 DEF Frame

\* Sending a frame keeps the queues well typed.
LEMMA TransmitType ==
    ASSUME TypeOK, NEW s \in Station, NEW f \in Frame, Transmit(s, f)
    PROVE  rx' \in [Station -> Seq(Frame)]
  BY PeerFacts DEF TypeOK, Transmit

\* Taking a frame keeps the queues well typed.
LEMMA TakeType ==
    ASSUME TypeOK, NEW s \in Station, rx[s] # <<>>, Take(s)
    PROVE  rx' \in [Station -> Seq(Frame)]
  BY TailSeq DEF TypeOK, Take

\* Answering a frame keeps the queues well typed.
LEMMA TakeAndTransmitType ==
    ASSUME TypeOK, NEW s \in Station, rx[s] # <<>>, NEW f \in Frame, TakeAndTransmit(s, f)
    PROVE  rx' \in [Station -> Seq(Frame)]
<1>1. Tail(rx[s]) \in Seq(Frame)
  BY TailSeq DEF TypeOK
<1>2. Append(rx[Peer(s)], f) \in Seq(Frame)
  BY PeerFacts DEF TypeOK
<1>3. rx' = [rx EXCEPT ![s] = Tail(rx[s]), ![Peer(s)] = Append(rx[Peer(s)], f)]
  BY PeerFacts DEF TypeOK, TakeAndTransmit
<1> QED BY <1>1, <1>2, <1>3, PeerFacts DEF TypeOK

\* What _receive_remaining makes of its state with one more consecutive frame.
LEMMA ExtendedType ==
    ASSUME TypeOK, NEW s \in Station, Pending(s, "CF")
    PROVE  /\ Extended(s, Head(rx[s])) \in AsmState
           /\ Extended(s, Head(rx[s])).buf =
                 Append(asm[s].buf, [id |-> Head(rx[s]).id, pos |-> Head(rx[s]).pos])
           /\ Extended(s, Head(rx[s])).buf \in Seq(Chunk)
           /\ Extended(s, Head(rx[s])).len = asm[s].len
           /\ Extended(s, Head(rx[s])).seq = (asm[s].seq + 1) % SequenceMod
<1> DEFINE f == Head(rx[s])
           e == Extended(s, f)
<1>1. [id |-> f.id, pos |-> f.pos] \in Chunk
  BY HeadType DEF Pending, Chunk
<1>2. asm[s] \in AsmState /\ asm[s].buf \in Seq(Chunk) /\ asm[s].seq \in Nat
      /\ asm[s].block \in Nat /\ asm[s].len \in Nat
  BY SizeAssumption DEF TypeOK, AsmState, SeqNumber
<1>3. e.buf = Append(asm[s].buf, [id |-> f.id, pos |-> f.pos]) /\ e.buf \in Seq(Chunk)
  BY <1>1, <1>2 DEF Extended, AsmState
<1>4. e.seq = (asm[s].seq + 1) % SequenceMod /\ e.seq \in SeqNumber
  <2>1. e.seq = (asm[s].seq + 1) % SequenceMod
    BY DEF Extended
  <2>2. (asm[s].seq + 1) % SequenceMod \in SeqNumber
    <3> DEFINE n == asm[s].seq + 1
    <3>1. n \in Nat
      BY <1>2
    <3> HIDE DEF n
    <3>2. n % SequenceMod \in SeqNumber
      BY <3>1, Masked
    <3> QED BY <3>2 DEF n
  <2> QED BY <2>1, <2>2
<1>5. e.len = asm[s].len /\ e.block \in Nat
  BY <1>2, SizeAssumption DEF Extended, AsmState
<1>6. e \in AsmState
  BY <1>2, <1>3, <1>4, <1>5 DEF AsmState, Extended
<1> QED BY <1>3, <1>4, <1>5, <1>6

\* The updates of the locals of a transmission.
LEMMA TxUpdateType ==
    ASSUME NEW t \in TxState, NEW a \in Nat, NEW b \in Nat, NEW c \in Nat, NEW q \in SeqNumber
    PROVE  /\ [t EXCEPT !.waits = a] \in TxState
           /\ [t EXCEPT !.block = a, !.bs = b] \in TxState
           /\ [t EXCEPT !.pos = a, !.seq = q, !.block = c, !.waits = 0] \in TxState
  BY DEF TxState

\* The locals of a transmission, one by one.
LEMMA TxFieldTypes ==
    ASSUME TypeOK, NEW s \in Station
    PROVE  /\ tx[s] \in TxState
           /\ tx[s].id \in Nat /\ tx[s].len \in Nat /\ tx[s].pos \in Nat
           /\ tx[s].seq \in SeqNumber /\ tx[s].seq \in Nat
           /\ tx[s].block \in Nat /\ tx[s].bs \in Nat /\ tx[s].waits \in Nat
  BY SizeAssumption DEF TypeOK, TxState, SeqNumber

\* No step of either station, of the bus or of time breaks the types.
LEMMA TypeStep == TypeOK /\ [Next]_vars => TypeOK'
<1> SUFFICES ASSUME TypeOK, [Next]_vars PROVE TypeOK'
  OBVIOUS
<1> USE DEF Mode
<1>1. CASE UNCHANGED vars
  BY <1>1 DEF vars, TypeOK
<1>2. ASSUME NEW s \in Station, SendSingle(s) PROVE TypeOK'
  <2>1. Len(sent[s]) + 1 \in Nat
    BY DEF TypeOK
  <2>2. rx' \in [Station -> Seq(Frame)]
    BY <1>2, <2>1, FrameTypes, TransmitType DEF SendSingle
  <2>3. sent' \in [Station -> Seq(Nat)]
    BY <1>2 DEF SendSingle, TypeOK
  <2> QED BY <1>2, <2>2, <2>3 DEF SendSingle, TypeOK
<1>3. ASSUME NEW s \in Station, NEW n \in Lengths, SendFirst(s, n) PROVE TypeOK'
  <2>1. Len(sent[s]) + 1 \in Nat /\ n \in Nat /\ 1 % SequenceMod \in SeqNumber
    BY SizeAssumption, RemainderNat DEF TypeOK, SeqNumber
  <2>2. rx' \in [Station -> Seq(Frame)]
    BY <1>3, <2>1, FrameTypes, TransmitType DEF SendFirst
  <2>3. sent' \in [Station -> Seq(Nat)]
    BY <1>3, <2>1 DEF SendFirst, TypeOK
  <2>4. tx' \in [Station -> TxState]
    <3>1. tx[s] \in TxState
      BY DEF TypeOK
    <3>2. [tx[s] EXCEPT !.id = Len(sent[s]) + 1, !.len = n, !.pos = 1,
                        !.seq = 1 % SequenceMod, !.block = 0, !.waits = 0] \in TxState
      BY <3>1, <2>1 DEF TxState
    <3> QED BY <1>3, <3>2 DEF SendFirst, TypeOK
  <2> QED BY <1>3, <2>2, <2>3, <2>4 DEF SendFirst, TypeOK
<1>4. ASSUME NEW s \in Station, SendStep(s) PROVE TypeOK'
  <2>1. CASE SkipFrame(s)
    BY <2>1, TakeType DEF SkipFrame, TypeOK
  <2>2. CASE FlowContinue(s)
    <3>1. Head(rx[s]).bs \in Nat
      BY <2>2, HeadType DEF FlowContinue, Pending
    <3>2. tx' \in [Station -> TxState]
      <4>1. [tx[s] EXCEPT !.block = Head(rx[s]).bs, !.bs = Head(rx[s]).bs] \in TxState
        BY <3>1 DEF TypeOK, TxState
      <4> QED BY <2>2, <4>1 DEF FlowContinue, TypeOK
    <3> QED BY <2>2, <3>2, TakeType DEF FlowContinue, TypeOK, Pending
  <2>3. CASE FlowWait(s)
    <3>1. tx' \in [Station -> TxState]
      <4> DEFINE w == tx[s].waits + 1
      <4>1. w \in Nat
        BY TxFieldTypes
      <4>2. tx' = [tx EXCEPT ![s] = [tx[s] EXCEPT !.waits = w]]
        BY <2>3 DEF FlowWait
      <4> HIDE DEF w
      <4>3. [tx[s] EXCEPT !.waits = w] \in TxState
        BY <4>1, TxFieldTypes, TxUpdateType
      <4> QED BY <4>2, <4>3 DEF TypeOK
    <3> QED BY <2>3, <3>1, TakeType DEF FlowWait, TypeOK, Pending
  <2>4. CASE FlowRefused(s)
    BY <2>4, TakeType DEF FlowRefused, TypeOK, Pending
  <2>5. CASE SendConsecutive(s)
    <3> DEFINE left == IF tx[s].block > 0 THEN tx[s].block - 1 ELSE 0
               pos == tx[s].pos + 1
               seq == (tx[s].seq + 1) % SequenceMod
    <3>1. left \in Nat /\ pos \in Nat
      BY TxFieldTypes
    <3>5. seq \in SeqNumber
      BY TxFieldTypes, Masked
    <3>2. rx' \in [Station -> Seq(Frame)]
      BY <2>5, TxFieldTypes, FrameTypes, TransmitType DEF SendConsecutive
    <3>3. tx' = [tx EXCEPT ![s] = [tx[s] EXCEPT !.pos = pos, !.seq = seq,
                                                !.block = left, !.waits = 0]]
      BY <2>5 DEF SendConsecutive
    <3> HIDE DEF left, pos, seq
    <3>4. tx' \in [Station -> TxState]
      <4>1. [tx[s] EXCEPT !.pos = pos, !.seq = seq, !.block = left, !.waits = 0] \in TxState
        BY <3>1, <3>5, TxFieldTypes, TxUpdateType
      <4> QED BY <3>3, <4>1 DEF TypeOK
    <3> QED BY <2>5, <3>2, <3>4 DEF SendConsecutive, TypeOK
  <2> QED BY <1>4, <2>1, <2>2, <2>3, <2>4, <2>5 DEF SendStep
<1>5. ASSUME NEW s \in Station, ReceiveStep(s) PROVE TypeOK'
  <2>1. CASE ReceiveSingle(s)
    <3>1. Payload(Head(rx[s]).id, 0) \in Seq(Chunk)
      BY <2>1, HeadType, PayloadType DEF ReceiveSingle, Pending
    <3>2. delivered' \in [Station -> Seq(Seq(Chunk))]
      BY <2>1, <3>1 DEF ReceiveSingle, TypeOK
    <3> QED BY <2>1, <3>2, TakeType DEF ReceiveSingle, TypeOK, Pending
  <2>2. CASE ReceiveFirst(s)
    <3>1. Payload(Head(rx[s]).id, 0) \in Seq(Chunk) /\ Head(rx[s]).len \in Nat
      BY <2>2, HeadType, PayloadType DEF ReceiveFirst, Started, Pending
    <3>2. asm' \in [Station -> AsmState]
      BY <2>2, <3>1, SizeAssumption, RemainderNat DEF ReceiveFirst, Started, TypeOK, AsmState, SeqNumber
    <3>3. rx' \in [Station -> Seq(Frame)]
      BY <2>2, ContinueType, TakeAndTransmitType DEF ReceiveFirst, Started, Pending
    <3> QED BY <2>2, <3>2, <3>3 DEF ReceiveFirst, Started, TypeOK
  <2>3. CASE IgnoreStray(s)
    BY <2>3, TakeType DEF IgnoreStray, TypeOK, Pending
  <2>4. CASE IgnoreWhileCollecting(s)
    BY <2>4, TakeType DEF IgnoreWhileCollecting, TypeOK
  <2>5. CASE OutOfSequence(s)
    BY <2>5, TakeType DEF OutOfSequence, TypeOK, Pending
  <2>6. CASE Collect(s)
    <3>1. asm' \in [Station -> AsmState]
      BY <2>6, ExtendedType DEF Collect, TypeOK
    <3>2. rx' \in [Station -> Seq(Frame)]
      BY <2>6, ContinueType, TakeAndTransmitType, TakeType DEF Collect, Pending
    <3> QED BY <2>6, <3>1, <3>2 DEF Collect, TypeOK
  <2>7. CASE CollectLast(s)
    <3>1. delivered' \in [Station -> Seq(Seq(Chunk))]
      <4>1. Extended(s, Head(rx[s])).buf \in Seq(Chunk)
        BY <2>7, ExtendedType DEF CollectLast
      <4>2. Append(delivered[s], Extended(s, Head(rx[s])).buf) \in Seq(Seq(Chunk))
        BY <4>1 DEF TypeOK
      <4> QED BY <2>7, <4>2 DEF CollectLast, TypeOK
    <3>2. asm' \in [Station -> AsmState]
      BY <2>7, SizeAssumption DEF CollectLast, TypeOK, AsmState, SeqNumber
    <3> QED BY <2>7, <3>1, <3>2, TakeType DEF CollectLast, TypeOK, Pending
  <2> QED BY <1>5, <2>1, <2>2, <2>3, <2>4, <2>5, <2>6, <2>7 DEF ReceiveStep
<1>6. ASSUME NEW s \in Station, Fault(s) PROVE TypeOK'
  <2>1. CASE Lose(s)
    <3>1. PICK i \in 1 .. Len(rx[s]) : rx' = [rx EXCEPT ![s] = Without(rx[s], i)]
      BY <2>1 DEF Lose
    <3>2. Without(rx[s], i) \in Seq(Frame)
      BY WithoutSeq DEF TypeOK
    <3>3. rx' \in [Station -> Seq(Frame)]
      BY <3>1, <3>2 DEF TypeOK
    <3> QED BY <2>1, <3>3, BoundAssumption DEF Lose, TypeOK
  <2>2. CASE SendError(s)
    BY <2>2, BoundAssumption DEF SendError, TypeOK
  <2> QED BY <1>6, <2>1, <2>2 DEF Fault
<1>7. ASSUME NEW s \in Station, Timeout(s) \/ Listen(s) PROVE TypeOK'
  BY <1>7 DEF Timeout, Listen, FlowTimeout, ListenTimeout, CollectTimeout, TypeOK
<1>8. ASSUME NEW s \in Station, ForeignFlow(s) PROVE TypeOK'
  <2>1. PICK f \in Status \ {"CTS"} : rx' = [rx EXCEPT ![s] = Append(rx[s], FlowControl(f, 0))]
    BY <1>8 DEF ForeignFlow
  <2>2. FlowControl(f, 0) \in Frame
    BY FrameTypes
  <2>3. rx' \in [Station -> Seq(Frame)]
    BY <2>1, <2>2 DEF TypeOK
  <2> QED BY <1>8, <2>3, BoundAssumption DEF ForeignFlow, TypeOK
<1> QED BY <1>1, <1>2, <1>3, <1>4, <1>5, <1>6, <1>7, <1>8 DEF Next, CallStep

\* Every variable of the model keeps its type, in every behaviour of two
\* IsoTpHandler objects on one bus.
THEOREM TypeCorrect == Spec => []TypeOK
  BY InitType, TypeStep, PTL DEF Spec

-----------------------------------------------------------------------------
(* What receive() returns is in sequence.                                  *)

\* Submitting a payload changes nothing about the earlier ones.
LEMMA SentGrows ==
    ASSUME TypeOK, NEW s \in Station, NEW n \in Nat,
           sent' = [sent EXCEPT ![s] = Append(@, n)]
    PROVE  /\ \A r \in Station : \A k \in 1 .. Len(sent[r]) :
                 k \in 1 .. Len(sent'[r]) /\ sent'[r][k] = sent[r][k]
           /\ \A r \in Station : Faithful(r) \subseteq Faithful(r)'
           /\ Len(sent[s]) + 1 \in 1 .. Len(sent'[s])
           /\ sent'[s][Len(sent[s]) + 1] = n
<1>1. sent[s] \in Seq(Nat) /\ sent'[s] = Append(sent[s], n)
  BY DEF TypeOK
<1>2. \A r \in Station : \A k \in 1 .. Len(sent[r]) :
        k \in 1 .. Len(sent'[r]) /\ sent'[r][k] = sent[r][k]
  <2> SUFFICES ASSUME NEW r \in Station, NEW k \in 1 .. Len(sent[r])
               PROVE  k \in 1 .. Len(sent'[r]) /\ sent'[r][k] = sent[r][k]
    OBVIOUS
  <2>1. CASE r = s
    BY <1>1, <2>1
  <2>2. CASE r # s
    BY <2>2 DEF TypeOK
  <2> QED BY <2>1, <2>2
<1>3. \A r \in Station : Faithful(r) \subseteq Faithful(r)'
  <2> SUFFICES ASSUME NEW r \in Station, NEW f \in Faithful(r) PROVE f \in Faithful(r)'
    OBVIOUS
  <2>1. Peer(r) \in Station
    BY PeerFacts
  <2> QED BY <1>2, <2>1 DEF Faithful
<1> QED BY <1>1, <1>2, <1>3

\* The frames send() and _send_flow_control put on the wire are faithful.
LEMMA FaithfulFrames ==
    ASSUME NEW s \in Station
    PROVE  /\ Continue(s) \in Faithful(Peer(s))
           /\ \A f \in Status : FlowControl(f, 0) \in Faithful(s)
<1>1. Continue(s) \in Frame /\ Continue(s).kind = "FC"
  BY ContinueType DEF Continue, FlowControl
<1>2. \A f \in Status : FlowControl(f, 0) \in Frame /\ FlowControl(f, 0).kind = "FC"
  BY FrameTypes DEF FlowControl
<1> QED BY <1>1, <1>2 DEF Faithful

\* What a receiver may rely on in the frame it takes.
LEMMA FaithfulHead ==
    ASSUME FramesFaithful, NEW s \in Station, rx[s] # <<>>
    PROVE  Head(rx[s]) \in Faithful(s) /\ Tail(rx[s]) \in Seq(Faithful(s))
  BY TailSeq DEF FramesFaithful

\* Taking a frame and perhaps answering keeps both queues faithful.
LEMMA FaithfulTake ==
    ASSUME TypeOK, FramesFaithful, UNCHANGED sent, NEW s \in Station, rx[s] # <<>>,
           Take(s) \/ TakeAndTransmit(s, Continue(s))
    PROVE  FramesFaithful'
<1> SUFFICES ASSUME NEW r \in Station PROVE rx'[r] \in Seq(Faithful(r)')
  BY DEF FramesFaithful
<1>1. Faithful(r)' = Faithful(r)
  BY DEF Faithful
<1>2. rx[r] \in Seq(Faithful(r)) /\ Tail(rx[s]) \in Seq(Faithful(s))
  BY FaithfulHead DEF FramesFaithful
<1>3. CASE Take(s)
  BY <1>1, <1>2, <1>3 DEF Take, TypeOK
<1>4. CASE TakeAndTransmit(s, Continue(s))
  <2>1. rx' = [rx EXCEPT ![s] = Tail(rx[s]), ![Peer(s)] = Append(rx[Peer(s)], Continue(s))]
    BY <1>4, PeerFacts DEF TakeAndTransmit, TypeOK
  <2>2. CASE r = Peer(s)
    <3>1. rx'[r] = Append(rx[r], Continue(s))
      BY <2>1, <2>2, PeerFacts DEF TypeOK
    <3>2. Append(rx[r], Continue(s)) \in Seq(Faithful(r))
      BY <1>2, <2>2, FaithfulFrames, AppendSeq
    <3> QED BY <1>1, <3>1, <3>2
  <2>3. CASE r # Peer(s)
    BY <1>1, <1>2, <2>1, <2>3, PeerFacts DEF TypeOK
  <2> QED BY <2>2, <2>3
<1> QED BY <1>3, <1>4

\* Faithfulness of the queued frames depends on what the peer sent, and only that.
LEMMA FaithfulSame ==
    ASSUME FramesFaithful, UNCHANGED <<sent, rx>>
    PROVE  FramesFaithful'
  BY DEF FramesFaithful, Faithful

\* Queued frames stay faithful.
LEMMA FramesStep ==
    ASSUME SequenceInv, Next
    PROVE  FramesFaithful'
<1> USE DEF SequenceInv
<1>1. ASSUME NEW s \in Station, NEW n \in Nat, NEW f \in Frame,
             sent' = [sent EXCEPT ![s] = Append(@, n)],
             f \in Faithful(Peer(s))', Transmit(s, f)
      PROVE  FramesFaithful'
  <2> SUFFICES ASSUME NEW r \in Station PROVE rx'[r] \in Seq(Faithful(r)')
    BY DEF FramesFaithful
  <2>1. rx[r] \in Seq(Faithful(r)')
    <3>1. Faithful(r) \subseteq Faithful(r)'
      BY <1>1, SentGrows
    <3>2. rx[r] \in Seq(Faithful(r))
      BY DEF FramesFaithful
    <3> QED BY <3>1, <3>2, SeqWiden
  <2>2. CASE r = Peer(s)
    BY <1>1, <2>1, <2>2, AppendSeq, PeerFacts DEF Transmit, TypeOK
  <2>3. CASE r # Peer(s)
    BY <1>1, <2>1, <2>3, PeerFacts DEF Transmit, TypeOK
  <2> QED BY <2>2, <2>3
<1>2. ASSUME NEW s \in Station, SendSingle(s) PROVE FramesFaithful'
  <2> DEFINE f == SingleFrame(Len(sent[s]) + 1)
  <2>1. Len(sent[s]) + 1 \in Nat /\ sent' = [sent EXCEPT ![s] = Append(@, 0)]
    BY <1>2 DEF SendSingle, TypeOK
  <2>2. f \in Frame
    BY <2>1, FrameTypes
  <2>3. f \in Faithful(Peer(s))'
    <3>1. Peer(Peer(s)) = s /\ Peer(s) \in Station
      BY PeerFacts
    <3>2. f.kind = "SF" /\ f.id = Len(sent[s]) + 1
      BY DEF SingleFrame
    <3> HIDE DEF f
    <3>3. Len(sent[s]) + 1 \in 1 .. Len(sent'[s]) /\ sent'[s][Len(sent[s]) + 1] = 0
      BY <2>1, SentGrows
    <3> QED BY <2>1, <2>2, <3>1, <3>2, <3>3 DEF Faithful
  <2> QED BY <1>2, <2>1, <2>2, <2>3, <1>1 DEF SendSingle
<1>3. ASSUME NEW s \in Station, NEW n \in Lengths, SendFirst(s, n) PROVE FramesFaithful'
  <2> DEFINE f == FirstFrame(Len(sent[s]) + 1, n)
  <2>1. n \in Nat /\ n > 0 /\ Len(sent[s]) + 1 \in Nat
        /\ sent' = [sent EXCEPT ![s] = Append(@, n)]
    BY <1>3, SizeAssumption DEF SendFirst, TypeOK
  <2>2. f \in Frame
    BY <2>1, FrameTypes
  <2>3. f \in Faithful(Peer(s))'
    <3>1. Peer(Peer(s)) = s /\ Peer(s) \in Station
      BY PeerFacts
    <3>2. f.kind = "FF" /\ f.id = Len(sent[s]) + 1 /\ f.len = n + 1
      BY DEF FirstFrame
    <3> HIDE DEF f
    <3>3. Len(sent[s]) + 1 \in 1 .. Len(sent'[s]) /\ sent'[s][Len(sent[s]) + 1] = n
      BY <2>1, SentGrows
    <3> QED BY <2>1, <2>2, <3>1, <3>2, <3>3 DEF Faithful
  <2> QED BY <1>3, <2>1, <2>2, <2>3, <1>1 DEF SendFirst
<1>4. ASSUME NEW s \in Station, SendConsecutive(s) PROVE FramesFaithful'
  <2> DEFINE f == ConsecutiveFrame(tx[s].id, tx[s].pos, tx[s].seq)
  <2>1. f \in Frame
    BY TxFieldTypes, FrameTypes
  <2>2. f \in Faithful(Peer(s))
    BY <1>4, <2>1 DEF Faithful, ConsecutiveFrame, SendConsecutive, SendersInSequence
  <2> SUFFICES ASSUME NEW r \in Station PROVE rx'[r] \in Seq(Faithful(r)')
    BY DEF FramesFaithful
  <2>3. Faithful(r)' = Faithful(r) /\ rx[r] \in Seq(Faithful(r))
    BY <1>4 DEF Faithful, SendConsecutive, FramesFaithful
  <2>4. rx' = [rx EXCEPT ![Peer(s)] = Append(@, f)]
    BY <1>4 DEF SendConsecutive, Transmit
  <2> HIDE DEF f
  <2>5. CASE r = Peer(s)
    BY <2>2, <2>3, <2>4, <2>5, AppendSeq, PeerFacts DEF TypeOK
  <2>6. CASE r # Peer(s)
    BY <2>3, <2>4, <2>6, PeerFacts DEF TypeOK
  <2> QED BY <2>5, <2>6
<1>5. ASSUME NEW s \in Station,
             \/ SkipFrame(s) \/ FlowContinue(s) \/ FlowWait(s) \/ FlowRefused(s)
             \/ ReceiveSingle(s) \/ ReceiveFirst(s) \/ IgnoreStray(s)
             \/ IgnoreWhileCollecting(s) \/ OutOfSequence(s) \/ Collect(s) \/ CollectLast(s)
      PROVE  FramesFaithful'
  <2>1. UNCHANGED sent /\ rx[s] # <<>>
    BY <1>5 DEF SkipFrame, FlowContinue, FlowWait, FlowRefused, ReceiveSingle, ReceiveFirst, Started,
        IgnoreStray, IgnoreWhileCollecting, OutOfSequence, Collect, CollectLast, Pending
  <2>2. Take(s) \/ TakeAndTransmit(s, Continue(s))
    BY <1>5 DEF SkipFrame, FlowContinue, FlowWait, FlowRefused, ReceiveSingle, ReceiveFirst, Started,
        IgnoreStray, IgnoreWhileCollecting, OutOfSequence, Collect, CollectLast
  <2> QED BY <2>1, <2>2, FaithfulTake
<1>6. ASSUME NEW s \in Station, Listen(s) \/ SendError(s) \/ Timeout(s) PROVE FramesFaithful'
  BY <1>6, FaithfulSame DEF Listen, SendError, Timeout, FlowTimeout, ListenTimeout, CollectTimeout
<1>7. ASSUME NEW s \in Station, Lose(s) PROVE FramesFaithful'
  <2>1. PICK i \in 1 .. Len(rx[s]) : rx' = [rx EXCEPT ![s] = Without(rx[s], i)]
    BY <1>7 DEF Lose
  <2>2. Without(rx[s], i) \in Seq(Faithful(s))
    BY WithoutSeq DEF FramesFaithful
  <2>3. \A r \in Station : Faithful(r)' = Faithful(r)
    BY <1>7 DEF Lose, Faithful
  <2> QED BY <2>1, <2>2, <2>3 DEF FramesFaithful, TypeOK
<1>8. ASSUME NEW s \in Station, ForeignFlow(s) PROVE FramesFaithful'
  <2>1. PICK f \in Status \ {"CTS"} : rx' = [rx EXCEPT ![s] = Append(rx[s], FlowControl(f, 0))]
    BY <1>8 DEF ForeignFlow
  <2>2. FlowControl(f, 0) \in Faithful(s)
    BY FaithfulFrames
  <2>3. Append(rx[s], FlowControl(f, 0)) \in Seq(Faithful(s))
    BY <2>2, AppendSeq DEF FramesFaithful
  <2>4. \A r \in Station : Faithful(r)' = Faithful(r)
    BY <1>8 DEF ForeignFlow, Faithful
  <2> QED BY <2>1, <2>3, <2>4 DEF FramesFaithful, TypeOK
<1> QED BY <1>2, <1>3, <1>4, <1>5, <1>6, <1>7, <1>8
        DEF Next, CallStep, SendStep, ReceiveStep, Fault

\* A sender keeps its sequence number in step with its position.
LEMMA SendersStep ==
    ASSUME SequenceInv, Next
    PROVE  SendersInSequence'
<1> USE DEF SequenceInv
<1> SUFFICES ASSUME NEW r \in Station, mode'[r] \in {"calling", "sending"}
             PROVE  tx'[r].seq = tx'[r].pos % SequenceMod
  BY DEF SendersInSequence
<1>1. PICK s \in Station :
        CallStep(s) \/ SendStep(s) \/ ReceiveStep(s) \/ Fault(s) \/ Timeout(s) \/ ForeignFlow(s)
  BY DEF Next
<1>2. CASE \E n \in Lengths : SendFirst(s, n)
  <2>1. CASE r = s
    BY <1>2, <2>1 DEF SendFirst, TypeOK, TxState
  <2>2. CASE r # s
    BY <1>2, <2>2 DEF SendFirst, TypeOK, SendersInSequence
  <2> QED BY <2>1, <2>2
<1>3. CASE FlowContinue(s)
  BY <1>3 DEF FlowContinue, TypeOK, TxState, SendersInSequence
<1>4. CASE FlowWait(s)
  BY <1>4 DEF FlowWait, TypeOK, TxState, SendersInSequence
<1>5. CASE SendConsecutive(s)
  <2> DEFINE left == IF tx[s].block > 0 THEN tx[s].block - 1 ELSE 0
             pos == tx[s].pos + 1
             seq == (tx[s].seq + 1) % SequenceMod
  <2>1. tx' = [tx EXCEPT ![s] = [tx[s] EXCEPT !.pos = pos, !.seq = seq,
                                              !.block = left, !.waits = 0]]
    BY <1>5 DEF SendConsecutive
  <2>2. CASE r = s
    <3>1. tx[s].seq = tx[s].pos % SequenceMod
      BY <1>5 DEF SendConsecutive, SendersInSequence
    <3>2. seq = pos % SequenceMod
      BY <3>1, TxFieldTypes, SizeAssumption, NextRemainder
    <3> HIDE DEF left, pos, seq
    <3>3. tx'[r].pos = pos /\ tx'[r].seq = seq
      BY <2>1, <2>2, TxFieldTypes DEF TypeOK, TxState
    <3> QED BY <3>2, <3>3
  <2>3. CASE r # s
    <3> HIDE DEF left, pos, seq
    <3>1. tx'[r] = tx[r]
      BY <2>1, <2>3 DEF TypeOK
    <3>2. mode'[r] = mode[r]
      BY <1>5, <2>3 DEF SendConsecutive, TypeOK
    <3> QED BY <3>1, <3>2 DEF SendersInSequence
  <2> QED BY <2>2, <2>3
<1>6. CASE SendSingle(s) \/ Listen(s) \/ SkipFrame(s) \/ FlowRefused(s)
  BY <1>6 DEF SendSingle, Listen, SkipFrame, FlowRefused, SendersInSequence, TypeOK
<1>7. CASE ReceiveStep(s)
  BY <1>7 DEF ReceiveStep, ReceiveSingle, ReceiveFirst, Started, IgnoreStray, IgnoreWhileCollecting,
      OutOfSequence, Collect, CollectLast, SendersInSequence, TypeOK
<1>8. CASE Fault(s) \/ Timeout(s) \/ ForeignFlow(s)
  BY <1>8 DEF Fault, Lose, SendError, Timeout, FlowTimeout, ListenTimeout, CollectTimeout,
      ForeignFlow, SendersInSequence, TypeOK
<1> QED BY <1>1, <1>2, <1>3, <1>4, <1>5, <1>6, <1>7, <1>8 DEF CallStep, SendStep

\* The conjuncts of ReceiversInSequence, for one station.
Collecting(s) ==
    LET b == asm[s].buf IN
    /\ b # <<>> /\ b[1].id \in 1 .. Len(sent[Peer(s)]) /\ b[1].pos = 0
    /\ asm[s].len = sent[Peer(s)][b[1].id] + 1
    /\ Len(b) < asm[s].len
    /\ InSequence(b)
    /\ asm[s].seq = Len(b) % SequenceMod

\* The buffer after one more consecutive frame that carried the expected
\* sequence number.
LEMMA ExtendedInSequence ==
    ASSUME SequenceInv, NEW s \in Station, mode[s] = "collecting",
           Pending(s, "CF"), Head(rx[s]).seq = asm[s].seq
    PROVE  LET e == Extended(s, Head(rx[s]))
               b == asm[s].buf
           IN  /\ e.buf # <<>> /\ Len(e.buf) = Len(b) + 1 /\ e.buf[1] = b[1]
               /\ e.len = asm[s].len
               /\ InSequence(e.buf)
               /\ e.seq = Len(e.buf) % SequenceMod
<1> DEFINE b == asm[s].buf
           f == Head(rx[s])
           c == [id |-> f.id, pos |-> f.pos]
           e == Extended(s, f)
<1>1. Collecting(s)
  BY DEF SequenceInv, ReceiversInSequence, Collecting
<1>2. f.seq = f.pos % SequenceMod
  BY FaithfulHead DEF Pending, SequenceInv, Faithful
<1>3. c \in Chunk /\ c.pos = f.pos /\ b \in Seq(Chunk)
  BY HeadType DEF Pending, SequenceInv, Chunk, TypeOK, AsmState
<1>4. e.buf = Append(b, c) /\ e.len = asm[s].len /\ e.seq = (asm[s].seq + 1) % SequenceMod
  BY ExtendedType DEF SequenceInv
<1> HIDE DEF c, e
<1>5. e.buf # <<>> /\ Len(e.buf) = Len(b) + 1
  BY <1>3, <1>4
<1>6. e.buf[1] = b[1]
  BY <1>1, <1>3, <1>4 DEF Collecting
<1>7. InSequence(e.buf)
  <2> SUFFICES ASSUME NEW i \in 1 .. Len(b) + 1
               PROVE  e.buf[i].pos % SequenceMod = (i - 1) % SequenceMod
    BY <1>5 DEF InSequence
  <2>1. CASE i \in 1 .. Len(b)
    <3>1. e.buf[i] = b[i]
      BY <1>3, <1>4, <2>1
    <3> QED BY <1>1, <2>1, <3>1 DEF Collecting, InSequence
  <2>2. CASE i = Len(b) + 1
    <3>1. e.buf[i] = c /\ i - 1 = Len(b)
      BY <1>3, <1>4, <2>2
    <3>2. c.pos % SequenceMod = Len(b) % SequenceMod
      BY <1>1, <1>2, <1>3 DEF Collecting
    <3> QED BY <3>1, <3>2
  <2> QED BY <2>1, <2>2, <1>3
<1>8. e.seq = Len(e.buf) % SequenceMod
  <2>1. Len(b) \in Nat /\ asm[s].seq = Len(b) % SequenceMod
    BY <1>1, <1>3 DEF Collecting
  <2> QED BY <1>4, <1>5, <2>1, NextRemainder, SizeAssumption
<1> QED BY <1>4, <1>5, <1>6, <1>7, <1>8 DEF e

\* A receiver in the middle of a message keeps its buffer in sequence.
LEMMA ReceiversStep ==
    ASSUME SequenceInv, Next
    PROVE  ReceiversInSequence'
<1> USE DEF SequenceInv
<1> SUFFICES ASSUME NEW r \in Station, mode'[r] = "collecting"
             PROVE  Collecting(r)'
  BY DEF ReceiversInSequence, Collecting
<1> DEFINE Same == mode[r] = "collecting" /\ asm'[r] = asm[r]
<1>1. ASSUME Same, UNCHANGED sent PROVE Collecting(r)'
  <2>1. Collecting(r)
    BY <1>1 DEF ReceiversInSequence, Collecting
  <2> QED BY <2>1, <1>1 DEF Collecting
<1>2. ASSUME Same, NEW s \in Station, NEW n \in Nat, sent' = [sent EXCEPT ![s] = Append(@, n)]
      PROVE  Collecting(r)'
  <2>1. Collecting(r)
    BY <1>2 DEF ReceiversInSequence, Collecting
  <2>2. asm[r].buf[1].id \in 1 .. Len(sent'[Peer(r)])
        /\ sent'[Peer(r)][asm[r].buf[1].id] = sent[Peer(r)][asm[r].buf[1].id]
    BY <2>1, <1>2, SentGrows, PeerFacts DEF Collecting
  <2> QED BY <2>1, <2>2, <1>2 DEF Collecting
<1>3. PICK s \in Station :
        CallStep(s) \/ SendStep(s) \/ ReceiveStep(s) \/ Fault(s) \/ Timeout(s) \/ ForeignFlow(s)
  BY DEF Next
<1>4. CASE CallStep(s)
  <2>1. CASE SendSingle(s)
    <3>1. Same /\ sent' = [sent EXCEPT ![s] = Append(@, 0)]
      BY <2>1 DEF SendSingle
    <3> QED BY <3>1, <1>2
  <2>2. ASSUME NEW n \in Lengths, SendFirst(s, n) PROVE Collecting(r)'
    <3>1. Same /\ n \in Nat /\ sent' = [sent EXCEPT ![s] = Append(@, n)]
      BY <2>2, SizeAssumption DEF SendFirst, TypeOK
    <3> QED BY <3>1, <1>2
  <2>3. CASE Listen(s)
    BY <2>3, <1>1 DEF Listen, TypeOK
  <2> QED BY <1>4, <2>1, <2>2, <2>3 DEF CallStep
<1>5. CASE SendStep(s)
  BY <1>5, <1>1 DEF SendStep, SkipFrame, FlowContinue, FlowWait, FlowRefused, SendConsecutive, TypeOK
<1>6. CASE ReceiveFirst(s)
  <2>1. CASE r = s
    <3> DEFINE f == Head(rx[s])
    <3>1. f \in Faithful(s) /\ f.kind = "FF" /\ f.id \in Nat
      BY <1>6, FaithfulHead, HeadType DEF ReceiveFirst, Started, Pending
    <3>2. f.id \in 1 .. Len(sent[Peer(s)]) /\ f.len = sent[Peer(s)][f.id] + 1 /\ f.len > 1
      BY <3>1 DEF Faithful
    <3>3. asm'[s] = [buf |-> Payload(f.id, 0), len |-> f.len, seq |-> 1 % SequenceMod, block |-> 0]
      BY <1>6 DEF ReceiveFirst, Started, TypeOK
    <3>4. Len(Payload(f.id, 0)) = 1 /\ Payload(f.id, 0)[1] = [id |-> f.id, pos |-> 0]
      BY <3>1, FirstChunk
    <3>5. Payload(f.id, 0) # <<>> /\ InSequence(Payload(f.id, 0))
      BY <3>1, FirstChunk
    <3>6. sent' = sent
      BY <1>6 DEF ReceiveFirst, Started
    <3> HIDE DEF f
    <3> DEFINE b == Payload(f.id, 0)
    <3>7. b[1].id = f.id /\ b[1].pos = 0
      BY <3>4
    <3>8. asm'[s].buf = b /\ asm'[s].len = f.len /\ asm'[s].seq = 1 % SequenceMod
      BY <3>3
    <3> HIDE DEF b
    <3>9. b # <<>> /\ InSequence(b) /\ Len(b) = 1
      BY <3>4, <3>5 DEF b
    <3> QED BY <2>1, <3>2, <3>6, <3>7, <3>8, <3>9 DEF Collecting
  <2>2. CASE r # s
    BY <1>6, <2>2, <1>1 DEF ReceiveFirst, Started, TypeOK
  <2> QED BY <2>1, <2>2
<1>7. CASE Collect(s)
  <2>1. CASE r = s
    <3> DEFINE e == Extended(s, Head(rx[s]))
    <3>1. Collecting(s) /\ Len(asm[s].buf) + 1 < asm[s].len
      BY <1>7 DEF Collect, ReceiversInSequence, Collecting
    <3>2. /\ e.buf # <<>> /\ Len(e.buf) = Len(asm[s].buf) + 1 /\ e.buf[1] = asm[s].buf[1]
          /\ e.len = asm[s].len /\ InSequence(e.buf) /\ e.seq = Len(e.buf) % SequenceMod
      BY <1>7, ExtendedInSequence DEF Collect, InTurn
    <3>3. asm'[s] = e /\ sent' = sent
      BY <1>7 DEF Collect, TypeOK
    <3> HIDE DEF e
    <3> QED BY <2>1, <3>1, <3>2, <3>3 DEF Collecting
  <2>2. CASE r # s
    BY <1>7, <2>2, <1>1 DEF Collect, TypeOK
  <2> QED BY <2>1, <2>2
<1>8. CASE ReceiveSingle(s) \/ IgnoreStray(s) \/ IgnoreWhileCollecting(s) \/ OutOfSequence(s)
           \/ CollectLast(s)
  BY <1>8, <1>1 DEF ReceiveSingle, IgnoreStray, IgnoreWhileCollecting, OutOfSequence,
      CollectLast, TypeOK
<1>9. CASE Fault(s) \/ Timeout(s) \/ ForeignFlow(s)
  BY <1>9, <1>1 DEF Fault, Lose, SendError, Timeout, FlowTimeout, ListenTimeout, CollectTimeout,
      ForeignFlow, TypeOK
<1> QED BY <1>3, <1>4, <1>5, <1>6, <1>7, <1>8, <1>9 DEF ReceiveStep

\* What DeliveredInSequence says of one payload, given the lengths of the
\* payloads that were sent.
Sequenced(lens, p) ==
    /\ p # <<>> /\ p[1].id \in 1 .. Len(lens) /\ p[1].pos = 0
    /\ Len(p) = lens[p[1].id] + 1
    /\ InSequence(p)

\* What receive() returns is in sequence.
LEMMA DeliveredStep ==
    ASSUME SequenceInv, Next
    PROVE  DeliveredInSequence'
<1> USE DEF SequenceInv
<1> SUFFICES ASSUME NEW r \in Station, NEW i \in 1 .. Len(delivered'[r])
             PROVE  Sequenced(sent'[Peer(r)], delivered'[r][i])
  BY DEF DeliveredInSequence, Sequenced
<1> DEFINE Old == delivered'[r][i] = delivered[r][i] /\ i \in 1 .. Len(delivered[r])
<1>1. ASSUME Old, UNCHANGED sent PROVE Sequenced(sent'[Peer(r)], delivered'[r][i])
  <2>1. Sequenced(sent[Peer(r)], delivered[r][i])
    BY <1>1 DEF DeliveredInSequence, Sequenced
  <2> QED BY <2>1, <1>1 DEF Sequenced
<1>2. ASSUME Old, NEW s \in Station, NEW n \in Nat, sent' = [sent EXCEPT ![s] = Append(@, n)]
      PROVE  Sequenced(sent'[Peer(r)], delivered'[r][i])
  <2>1. Sequenced(sent[Peer(r)], delivered[r][i])
    BY <1>2 DEF DeliveredInSequence, Sequenced
  <2>2. delivered[r][i][1].id \in 1 .. Len(sent'[Peer(r)])
        /\ sent'[Peer(r)][delivered[r][i][1].id] = sent[Peer(r)][delivered[r][i][1].id]
    BY <2>1, <1>2, SentGrows, PeerFacts DEF Sequenced
  <2> QED BY <2>1, <2>2, <1>2 DEF Sequenced
<1>3. ASSUME NEW s \in Station, NEW p \in Seq(Chunk), UNCHANGED sent,
             delivered' = [delivered EXCEPT ![s] = Append(@, p)], Sequenced(sent[Peer(s)], p)
      PROVE  Sequenced(sent'[Peer(r)], delivered'[r][i])
  <2>1. CASE r = s /\ i = Len(delivered[s]) + 1
    <3>1. delivered'[r][i] = p
      BY <1>3, <2>1 DEF TypeOK
    <3> QED BY <1>3, <2>1, <3>1 DEF Sequenced
  <2>2. CASE ~(r = s /\ i = Len(delivered[s]) + 1)
    <3>1. Old
      BY <1>3, <2>2 DEF TypeOK
    <3> QED BY <1>3, <3>1, <1>1
  <2> QED BY <2>1, <2>2
<1>4. PICK s \in Station :
        CallStep(s) \/ SendStep(s) \/ ReceiveStep(s) \/ Fault(s) \/ Timeout(s) \/ ForeignFlow(s)
  BY DEF Next
<1>5. CASE CallStep(s)
  <2>1. CASE SendSingle(s)
    BY <2>1, <1>2 DEF SendSingle
  <2>2. ASSUME NEW n \in Lengths, SendFirst(s, n) PROVE Sequenced(sent'[Peer(r)], delivered'[r][i])
    <3>1. n \in Nat
      BY SizeAssumption
    <3> QED BY <2>2, <3>1, <1>2 DEF SendFirst
  <2>3. CASE Listen(s)
    BY <2>3, <1>1 DEF Listen
  <2> QED BY <1>5, <2>1, <2>2, <2>3 DEF CallStep
<1>6. CASE ReceiveSingle(s)
  <2> DEFINE f == Head(rx[s])
  <2>1. f \in Faithful(s) /\ f.kind = "SF" /\ f.id \in Nat
    BY <1>6, FaithfulHead, HeadType DEF ReceiveSingle, Pending
  <2>2. f.id \in 1 .. Len(sent[Peer(s)]) /\ sent[Peer(s)][f.id] = 0
    BY <2>1 DEF Faithful
  <2>3. /\ Payload(f.id, 0) \in Seq(Chunk) /\ Payload(f.id, 0) # <<>>
        /\ Len(Payload(f.id, 0)) = 1 /\ Payload(f.id, 0)[1] = [id |-> f.id, pos |-> 0]
        /\ InSequence(Payload(f.id, 0))
    BY <2>1, FirstChunk
  <2> HIDE DEF f
  <2>4. Sequenced(sent[Peer(s)], Payload(f.id, 0))
    <3> DEFINE b == Payload(f.id, 0)
    <3>1. b[1].id = f.id /\ b[1].pos = 0
      BY <2>3
    <3> HIDE DEF b
    <3>2. b # <<>> /\ InSequence(b) /\ Len(b) = 1
      BY <2>3 DEF b
    <3>3. Sequenced(sent[Peer(s)], b)
      BY <2>2, <3>1, <3>2 DEF Sequenced
    <3> QED BY <3>3 DEF b
  <2> QED BY <1>6, <2>3, <2>4, <1>3 DEF ReceiveSingle, f
<1>7. CASE CollectLast(s)
  <2> DEFINE e == Extended(s, Head(rx[s]))
  <2>1. Collecting(s) /\ Len(asm[s].buf) + 1 >= asm[s].len
    BY <1>7 DEF CollectLast, ReceiversInSequence, Collecting
  <2>2. /\ e.buf # <<>> /\ Len(e.buf) = Len(asm[s].buf) + 1 /\ e.buf[1] = asm[s].buf[1]
        /\ e.len = asm[s].len /\ InSequence(e.buf)
    BY <1>7, ExtendedInSequence DEF CollectLast, InTurn
  <2>3. e.buf \in Seq(Chunk) /\ asm[s].buf \in Seq(Chunk) /\ asm[s].len \in Nat
    BY <1>7, ExtendedType DEF CollectLast, TypeOK, AsmState
  <2>4. Len(e.buf) = asm[s].len
    BY <2>1, <2>2, <2>3 DEF Collecting
  <2>5. delivered' = [delivered EXCEPT ![s] = Append(@, e.buf)] /\ UNCHANGED sent
    BY <1>7 DEF CollectLast
  <2> HIDE DEF e
  <2>6. Sequenced(sent[Peer(s)], e.buf)
    BY <2>1, <2>2, <2>4 DEF Sequenced, Collecting
  <2> QED BY <2>3, <2>5, <2>6, <1>3
<1>8. CASE SendStep(s) \/ ReceiveFirst(s) \/ IgnoreStray(s) \/ IgnoreWhileCollecting(s)
           \/ OutOfSequence(s) \/ Collect(s) \/ Fault(s) \/ Timeout(s) \/ ForeignFlow(s)
  <2>1. UNCHANGED <<delivered, sent>>
    BY <1>8 DEF SendStep, SkipFrame, FlowContinue, FlowWait, FlowRefused, SendConsecutive,
        ReceiveFirst, IgnoreStray, IgnoreWhileCollecting, OutOfSequence, Collect, Fault, Lose,
        SendError, Timeout, FlowTimeout, ListenTimeout, CollectTimeout, ForeignFlow
  <2> QED BY <2>1, <1>1
<1> QED BY <1>4, <1>5, <1>6, <1>7, <1>8 DEF ReceiveStep

\* The inductive invariant holds at the start.
LEMMA SequenceInit == Init => SequenceInv
<1> SUFFICES ASSUME Init PROVE SequenceInv
  OBVIOUS
<1>1. TypeOK
  BY InitType
<1>2. FramesFaithful
  BY DEF Init, FramesFaithful
<1>3. SendersInSequence /\ ReceiversInSequence /\ DeliveredInSequence
  BY DEF Init, SendersInSequence, ReceiversInSequence, DeliveredInSequence
<1> QED BY <1>1, <1>2, <1>3 DEF SequenceInv

\* Every step keeps the inductive invariant.
LEMMA SequenceStep == SequenceInv /\ [Next]_vars => SequenceInv'
<1> SUFFICES ASSUME SequenceInv, [Next]_vars PROVE SequenceInv'
  OBVIOUS
<1>1. CASE Next
  <2>1. TypeOK'
    BY <1>1, TypeStep DEF SequenceInv
  <2> QED BY <1>1, <2>1, FramesStep, SendersStep, ReceiversStep, DeliveredStep DEF SequenceInv
<1>2. CASE UNCHANGED vars
  BY <1>2 DEF vars, SequenceInv, TypeOK, FramesFaithful, Faithful, SendersInSequence,
      ReceiversInSequence, DeliveredInSequence
<1> QED BY <1>1, <1>2

\* Whatever frames are lost, delayed past a timeout or mixed with those of an
\* abandoned message, a payload receive() returns has the announced length
\* and its chunks are in sequence modulo SequenceMod.
THEOREM DeliveredInSequenceAlways == Spec => []DeliveredInSequence
<1>1. SequenceInv => DeliveredInSequence
  BY DEF SequenceInv
<1> QED BY <1>1, SequenceInit, SequenceStep, PTL DEF Spec

-----------------------------------------------------------------------------
(* A message on its way: pieces of a payload, in the receiver's buffer and  *)
(* behind it in the receiver's queue.                                       *)

\* The pieces of the message a receiver collects: what is in its buffer b, then
\* the consecutive frames at the front of its queue q.
Piece(b, q, i) == IF i \in 1 .. Len(b) THEN b[i] ELSE q[i - Len(b)]
IsPiece(b, q, i) == i \in 1 .. Len(b) \/ q[i - Len(b)].kind = "CF"

\* They are pieces of one message, none comes earlier than its turn, and below
\* position top there is room for those that follow it.
Ordered(b, q, top) ==
    \A j \in 1 .. Len(b) + Len(q) : IsPiece(b, q, j) =>
        \A i \in 1 .. j :
            /\ IsPiece(b, q, i)
            /\ Piece(b, q, i).id = b[1].id
            /\ Piece(b, q, i).pos \in i - 1 .. top - 1 - (j - i)

\* A frame at the end of a queue: the others stay where they are.
LEMMA AppendElements ==
    ASSUME NEW S, NEW q \in Seq(S), NEW e \in S
    PROVE  /\ Append(q, e) \in Seq(S) /\ Append(q, e) # <<>> /\ Len(q) \in Nat
           /\ Len(Append(q, e)) = Len(q) + 1 /\ Append(q, e)[Len(q) + 1] = e
           /\ \A i \in 1 .. Len(q) : Append(q, e)[i] = q[i]
  OBVIOUS

\* The frame at the head of a queue taken: the others move up by one.
LEMMA TailElements ==
    ASSUME NEW S, NEW q \in Seq(S), q # <<>>
    PROVE  /\ Tail(q) \in Seq(S) /\ Head(q) \in S /\ Head(q) = q[1] /\ Len(q) \in Nat \ {0}
           /\ Len(Tail(q)) = Len(q) - 1
           /\ \A i \in 1 .. Len(q) - 1 : Tail(q)[i] = q[i + 1]
  OBVIOUS

\* A frame taken out of a queue: those behind it move up by one.
LEMMA WithoutElements ==
    ASSUME NEW S, NEW q \in Seq(S), NEW m \in 1 .. Len(q)
    PROVE  /\ Without(q, m) \in Seq(S) /\ Len(q) \in Nat /\ Len(Without(q, m)) = Len(q) - 1
           /\ \A i \in 1 .. m - 1 : Without(q, m)[i] = q[i]
           /\ \A i \in m .. Len(q) - 1 : Without(q, m)[i] = q[i + 1]
<1> DEFINE front == SubSeq(q, 1, m - 1)
           back == SubSeq(q, m + 1, Len(q))
<1>1. front \in Seq(S) /\ Len(front) = m - 1 /\ \A i \in 1 .. m - 1 : front[i] = q[i]
  OBVIOUS
<1>2. back \in Seq(S) /\ Len(back) = Len(q) - m /\ \A i \in 1 .. Len(q) - m : back[i] = q[m + i]
  OBVIOUS
<1>3. Without(q, m) = front \o back
  BY DEF Without
<1> HIDE DEF front, back
<1>4. /\ Without(q, m) \in Seq(S) /\ Len(Without(q, m)) = Len(front) + Len(back)
      /\ \A i \in 1 .. Len(front) + Len(back) :
            Without(q, m)[i] = IF i <= Len(front) THEN front[i] ELSE back[i - Len(front)]
  <2>1. front \in Seq(S) /\ back \in Seq(S)
    BY <1>1, <1>2
  <2>2. /\ front \o back \in Seq(S) /\ Len(front \o back) = Len(front) + Len(back)
        /\ \A i \in 1 .. Len(front) + Len(back) :
              (front \o back)[i] = IF i <= Len(front) THEN front[i] ELSE back[i - Len(front)]
    BY <2>1, ConcatProperties
  <2> QED BY <1>3, <2>2
<1>5. ASSUME NEW i \in m .. Len(q) - 1 PROVE Without(q, m)[i] = q[i + 1]
  <2>1. Without(q, m)[i] = back[i - (m - 1)]
    BY <1>1, <1>2, <1>4
  <2>2. back[i - (m - 1)] = q[m + (i - (m - 1))] /\ m + (i - (m - 1)) = i + 1
    BY <1>2
  <2> QED BY <2>1, <2>2
<1>6. ASSUME NEW i \in 1 .. m - 1 PROVE Without(q, m)[i] = q[i]
  <2>1. i \in 1 .. Len(front) + Len(back) /\ i <= Len(front)
    BY <1>1, <1>2
  <2>2. Without(q, m)[i] = front[i]
    BY <1>4, <2>1
  <2> QED BY <1>1, <2>2
<1>7. Len(q) \in Nat /\ Len(front) + Len(back) = Len(q) - 1
  BY <1>1, <1>2
<1> QED BY <1>4, <1>5, <1>6, <1>7

\* The next consecutive frame of a message is sent.
LEMMA PieceAdded ==
    ASSUME NEW B, NEW Q, NEW b \in Seq(B), NEW q \in Seq(Q), NEW top \in Nat, NEW f \in Q,
           b # <<>>, b[1].pos = 0, \A i \in 1 .. Len(q) : q[i].kind = "CF",
           Ordered(b, q, top), f.kind = "CF", f.id = b[1].id, f.pos = top
    PROVE  Ordered(b, Append(q, f), top + 1)
<1> DEFINE r == Append(q, f)
           n == Len(b) + Len(q)
<1>1. /\ Len(b) \in Nat \ {0} /\ Len(q) \in Nat /\ n \in Nat \ {0}
      /\ Len(b) + Len(r) = n + 1 /\ r[Len(q) + 1] = f
      /\ \A i \in 1 .. Len(q) : r[i] = q[i]
  BY AppendElements
<1>2. IsPiece(b, q, n)
  BY <1>1 DEF IsPiece
<1>3. \A i \in 1 .. n : /\ IsPiece(b, q, i) /\ Piece(b, q, i).id = b[1].id
                        /\ Piece(b, q, i).pos \in i - 1 .. top - 1 - (n - i)
  BY <1>1, <1>2 DEF Ordered
<1>4. Piece(b, q, 1).pos = 0 /\ n <= top
  <2>1. Piece(b, q, 1) = b[1]
    BY <1>1 DEF Piece
  <2> QED BY <1>1, <1>3, <2>1
<1>5. \A i \in 1 .. n : IsPiece(b, r, i) /\ Piece(b, r, i) = Piece(b, q, i)
  BY <1>1, <1>3 DEF IsPiece, Piece
<1>6. IsPiece(b, r, n + 1) /\ Piece(b, r, n + 1) = f
  <2>1. n + 1 \notin 1 .. Len(b) /\ (n + 1) - Len(b) = Len(q) + 1
    BY <1>1
  <2> QED BY <1>1, <2>1 DEF IsPiece, Piece
<1> HIDE DEF r, n
<1>7. ASSUME NEW j \in 1 .. n + 1, NEW i \in 1 .. j
      PROVE  /\ IsPiece(b, r, i) /\ Piece(b, r, i).id = b[1].id
             /\ Piece(b, r, i).pos \in i - 1 .. (top + 1) - 1 - (j - i)
  <2>1. CASE i \in 1 .. n
    <3>1. i - 1 .. top - 1 - (n - i) \subseteq i - 1 .. (top + 1) - 1 - (j - i)
      BY <1>1
    <3> QED BY <1>3, <1>5, <2>1, <3>1
  <2>2. CASE i = n + 1
    BY <1>1, <1>4, <1>6, <2>2
  <2> QED BY <1>1, <2>1, <2>2
<1> QED BY <1>1, <1>7 DEF Ordered, r

\* Another frame behind the pieces is none of them.
LEMMA OtherAdded ==
    ASSUME NEW B, NEW Q, NEW b \in Seq(B), NEW q \in Seq(Q), NEW top \in Nat, NEW f \in Q,
           Ordered(b, q, top), f.kind # "CF"
    PROVE  Ordered(b, Append(q, f), top)
<1> DEFINE r == Append(q, f)
           n == Len(b) + Len(q)
<1>1. /\ Len(b) \in Nat /\ Len(q) \in Nat /\ n \in Nat
      /\ Len(b) + Len(r) = n + 1 /\ r[Len(q) + 1] = f
      /\ \A i \in 1 .. Len(q) : r[i] = q[i]
  BY AppendElements
<1>2. \A i \in 1 .. n : (IsPiece(b, r, i) <=> IsPiece(b, q, i)) /\ Piece(b, r, i) = Piece(b, q, i)
  BY <1>1 DEF IsPiece, Piece
<1>3. ~IsPiece(b, r, n + 1)
  <2>1. n + 1 \notin 1 .. Len(b) /\ (n + 1) - Len(b) = Len(q) + 1
    BY <1>1
  <2> QED BY <1>1, <2>1 DEF IsPiece
<1> HIDE DEF r, n
<1>4. ASSUME NEW j \in 1 .. n + 1, IsPiece(b, r, j), NEW i \in 1 .. j
      PROVE  /\ IsPiece(b, r, i) /\ Piece(b, r, i).id = b[1].id
             /\ Piece(b, r, i).pos \in i - 1 .. top - 1 - (j - i)
  <2>1. j \in 1 .. n /\ i \in 1 .. n
    BY <1>1, <1>3, <1>4
  <2>2. /\ IsPiece(b, q, i) /\ Piece(b, q, i).id = b[1].id
        /\ Piece(b, q, i).pos \in i - 1 .. top - 1 - (j - i)
    BY <1>2, <1>4, <2>1 DEF Ordered, n
  <2> QED BY <1>2, <2>1, <2>2
<1> QED BY <1>1, <1>4 DEF Ordered, r

\* A frame is lost, or taken and dropped.
LEMMA PieceLost ==
    ASSUME NEW B, NEW Q, NEW b \in Seq(B), NEW q \in Seq(Q), NEW r \in Seq(Q), NEW top \in Nat,
           NEW m \in 1 .. Len(q), Len(r) = Len(q) - 1,
           \A i \in 1 .. m - 1 : r[i] = q[i], \A i \in m .. Len(q) - 1 : r[i] = q[i + 1],
           Ordered(b, q, top)
    PROVE  Ordered(b, r, top)
<1> DEFINE n == Len(b) + Len(r)
           h == Len(b) + m
<1>1. Len(b) \in Nat /\ Len(q) \in Nat /\ n \in Nat /\ h \in Nat /\ Len(b) + Len(q) = n + 1
  OBVIOUS
<1>2. ASSUME NEW i \in 1 .. n, i < h
      PROVE  (IsPiece(b, r, i) <=> IsPiece(b, q, i)) /\ Piece(b, r, i) = Piece(b, q, i)
  BY <1>1, <1>2 DEF IsPiece, Piece
<1>3. ASSUME NEW i \in 1 .. n, i >= h
      PROVE  (IsPiece(b, r, i) <=> IsPiece(b, q, i + 1)) /\ Piece(b, r, i) = Piece(b, q, i + 1)
  <2>1. i \notin 1 .. Len(b) /\ i + 1 \notin 1 .. Len(b) /\ (i + 1) - Len(b) = (i - Len(b)) + 1
    BY <1>1, <1>3
  <2>2. i - Len(b) \in m .. Len(q) - 1
    BY <1>1, <1>3
  <2>3. r[i - Len(b)] = q[(i + 1) - Len(b)]
    BY <2>1, <2>2
  <2> QED BY <2>1, <2>3 DEF IsPiece, Piece
<1>4. ASSUME NEW j \in 1 .. n, IsPiece(b, r, j), NEW i \in 1 .. j
      PROVE  /\ IsPiece(b, r, i) /\ Piece(b, r, i).id = b[1].id
             /\ Piece(b, r, i).pos \in i - 1 .. top - 1 - (j - i)
  <2> HIDE DEF n, h
  <2>1. CASE j < h
    <3>1. IsPiece(b, q, j) /\ j \in 1 .. Len(b) + Len(q)
      BY <1>1, <1>2, <1>4, <2>1
    <3>2. /\ IsPiece(b, q, i) /\ Piece(b, q, i).id = b[1].id
          /\ Piece(b, q, i).pos \in i - 1 .. top - 1 - (j - i)
      BY <3>1 DEF Ordered
    <3>3. i \in 1 .. n /\ i < h
      BY <1>1, <2>1
    <3> QED BY <1>2, <3>2, <3>3
  <2>2. CASE j >= h
    <3>1. IsPiece(b, q, j + 1) /\ j + 1 \in 1 .. Len(b) + Len(q)
      BY <1>1, <1>3, <1>4, <2>2
    <3>2. \A k \in 1 .. j + 1 : /\ IsPiece(b, q, k) /\ Piece(b, q, k).id = b[1].id
                                /\ Piece(b, q, k).pos \in k - 1 .. top - 1 - ((j + 1) - k)
      BY <3>1 DEF Ordered
    <3>3. CASE i < h
      <4>1. /\ IsPiece(b, q, i) /\ Piece(b, q, i).id = b[1].id
            /\ Piece(b, q, i).pos \in i - 1 .. top - 1 - ((j + 1) - i)
        BY <3>2
      <4>2. i - 1 .. top - 1 - ((j + 1) - i) \subseteq i - 1 .. top - 1 - (j - i)
        BY <1>1
      <4>3. i \in 1 .. n
        BY <1>1
      <4> QED BY <1>2, <3>3, <4>1, <4>2, <4>3
    <3>4. CASE i >= h
      <4>0. i + 1 \in 1 .. j + 1
        BY <1>1
      <4>1. /\ IsPiece(b, q, i + 1) /\ Piece(b, q, i + 1).id = b[1].id
            /\ Piece(b, q, i + 1).pos \in (i + 1) - 1 .. top - 1 - ((j + 1) - (i + 1))
        BY <3>2, <4>0
      <4>2. (i + 1) - 1 .. top - 1 - ((j + 1) - (i + 1)) \subseteq i - 1 .. top - 1 - (j - i)
        BY <1>1
      <4>3. i \in 1 .. n
        BY <1>1
      <4> QED BY <1>3, <3>4, <4>1, <4>2, <4>3
    <3> QED BY <1>1, <3>3, <3>4
  <2> QED BY <1>1, <2>1, <2>2
<1> QED BY <1>1, <1>4 DEF Ordered

\* The frame at the head of the queue goes to the end of the buffer.
LEMMA PieceCollected ==
    ASSUME NEW b \in Seq(Chunk), NEW Q, NEW q \in Seq(Q), NEW top \in Nat, NEW c \in Chunk,
           b # <<>>, q # <<>>, Head(q).kind = "CF",
           c.id = Head(q).id, c.pos = Head(q).pos, Ordered(b, q, top)
    PROVE  Ordered(Append(b, c), Tail(q), top)
<1> DEFINE a == Append(b, c)
           r == Tail(q)
           n == Len(b) + Len(q)
<1>1. /\ Len(b) \in Nat \ {0} /\ Len(q) \in Nat \ {0} /\ n \in Nat
      /\ Len(a) = Len(b) + 1 /\ Len(r) = Len(q) - 1 /\ Len(a) + Len(r) = n
      /\ a[Len(b) + 1] = c /\ q[1] = Head(q)
      /\ \A i \in 1 .. Len(b) : a[i] = b[i]
      /\ \A i \in 1 .. Len(q) - 1 : r[i] = q[i + 1]
  BY AppendElements, TailElements
<1> HIDE DEF a, r
<1>2. ASSUME NEW i \in 1 .. n
      PROVE  /\ IsPiece(a, r, i) <=> IsPiece(b, q, i)
             /\ Piece(a, r, i).id = Piece(b, q, i).id /\ Piece(a, r, i).pos = Piece(b, q, i).pos
  <2>1. CASE i \in 1 .. Len(b)
    BY <1>1, <2>1 DEF IsPiece, Piece
  <2>2. CASE i = Len(b) + 1
    <3>1. i \in 1 .. Len(a) /\ i \notin 1 .. Len(b) /\ i - Len(b) = 1
      BY <1>1, <2>2
    <3>2. Piece(a, r, i) = c /\ Piece(b, q, i) = Head(q)
      BY <1>1, <2>2, <3>1 DEF Piece
    <3>3. IsPiece(a, r, i) /\ IsPiece(b, q, i)
      BY <1>1, <3>1 DEF IsPiece
    <3> QED BY <3>2, <3>3
  <2>3. CASE i > Len(b) + 1
    <3>1. i \notin 1 .. Len(a) /\ i \notin 1 .. Len(b)
      BY <1>1, <2>3
    <3>2. i - Len(a) \in 1 .. Len(q) - 1 /\ (i - Len(a)) + 1 = i - Len(b)
      BY <1>1, <2>3
    <3>3. r[i - Len(a)] = q[i - Len(b)]
      BY <1>1, <3>2
    <3> QED BY <3>1, <3>3 DEF IsPiece, Piece
  <2> QED BY <1>1, <2>1, <2>2, <2>3
<1>3. a[1].id = b[1].id
  BY <1>1
<1>4. ASSUME NEW j \in 1 .. n, IsPiece(a, r, j), NEW i \in 1 .. j
      PROVE  /\ IsPiece(a, r, i) /\ Piece(a, r, i).id = a[1].id
             /\ Piece(a, r, i).pos \in i - 1 .. top - 1 - (j - i)
  <2>1. i \in 1 .. n
    BY <1>1
  <2>2. /\ IsPiece(b, q, i) /\ Piece(b, q, i).id = b[1].id
        /\ Piece(b, q, i).pos \in i - 1 .. top - 1 - (j - i)
    BY <1>2, <1>4 DEF Ordered
  <2> QED BY <1>2, <1>3, <2>1, <2>2
<1> QED BY <1>1, <1>4 DEF Ordered, a, r

\* More room is room enough.
LEMMA MoreRoom ==
    ASSUME NEW B, NEW Q, NEW b \in Seq(B), NEW q \in Seq(Q), NEW top \in Nat, NEW more \in Nat,
           top <= more, Ordered(b, q, top)
    PROVE  Ordered(b, q, more)
<1> SUFFICES ASSUME NEW j \in 1 .. Len(b) + Len(q), IsPiece(b, q, j), NEW i \in 1 .. j
             PROVE  /\ IsPiece(b, q, i) /\ Piece(b, q, i).id = b[1].id
                    /\ Piece(b, q, i).pos \in i - 1 .. more - 1 - (j - i)
  BY DEF Ordered
<1>1. /\ IsPiece(b, q, i) /\ Piece(b, q, i).id = b[1].id
      /\ Piece(b, q, i).pos \in i - 1 .. top - 1 - (j - i)
  BY DEF Ordered
<1>2. i - 1 .. top - 1 - (j - i) \subseteq i - 1 .. more - 1 - (j - i)
  OBVIOUS
<1> QED BY <1>1, <1>2

\* A first chunk and nothing behind it.
LEMMA Begun ==
    ASSUME NEW Q, NEW q \in Seq(Q), NEW c \in Chunk, c.pos = 0, q = <<>>
    PROVE  Ordered(<<c>>, q, 1)
<1>1. Len(<<c>>) = 1 /\ <<c>>[1] = c /\ Len(q) = 0
  OBVIOUS
<1> SUFFICES ASSUME NEW j \in 1 .. 1, NEW i \in 1 .. j
             PROVE  /\ IsPiece(<<c>>, q, i) /\ Piece(<<c>>, q, i).id = <<c>>[1].id
                    /\ Piece(<<c>>, q, i).pos \in i - 1 .. 1 - 1 - (j - i)
  BY <1>1 DEF Ordered
<1>2. i = 1 /\ j = 1 /\ i \in 1 .. Len(<<c>>)
  BY <1>1
<1>3. Piece(<<c>>, q, i) = c /\ IsPiece(<<c>>, q, i)
  BY <1>1, <1>2 DEF Piece, IsPiece
<1> QED BY <1>1, <1>2, <1>3

\* As many pieces as there is room for are all of the payload: none is missing,
\* none is there twice, and none is of another payload.
LEMMA Whole ==
    ASSUME NEW b \in Seq(Chunk), NEW Q, NEW q \in Seq(Q), NEW c \in Chunk,
           b # <<>>, b[1].id \in Nat, q # <<>>, Head(q).kind = "CF",
           c.id = Head(q).id, c.pos = Head(q).pos, Ordered(b, q, Len(b) + 1)
    PROVE  Append(b, c) = Payload(b[1].id, Len(b))
<1> DEFINE a == Append(b, c)
           n == Len(b)
           k == b[1].id
<1>1. /\ n \in Nat \ {0} /\ a \in Seq(Chunk) /\ Len(a) = n + 1 /\ a[n + 1] = c
      /\ \A i \in 1 .. n : a[i] = b[i]
      /\ Len(q) \in Nat \ {0} /\ q[1] = Head(q)
  BY AppendElements, TailElements
<1>2. IsPiece(b, q, n + 1)
  <2>1. (n + 1) - n = 1
    BY <1>1
  <2> QED BY <1>1, <2>1 DEF IsPiece
<1>3. ASSUME NEW i \in 1 .. n + 1
      PROVE  Piece(b, q, i).id = k /\ Piece(b, q, i).pos \in i - 1 .. (n + 1) - 1 - ((n + 1) - i)
  <2>1. n + 1 \in 1 .. n + Len(q)
    BY <1>1
  <2>2. \A j \in 1 .. n + Len(q) : IsPiece(b, q, j) =>
          \A h \in 1 .. j :
            Piece(b, q, h).id = k /\ Piece(b, q, h).pos \in h - 1 .. (n + 1) - 1 - (j - h)
    BY DEF Ordered
  <2> QED BY <1>2, <2>1, <2>2
<1>4. ASSUME NEW i \in 1 .. n + 1
      PROVE  a[i].id = Piece(b, q, i).id /\ a[i].pos = Piece(b, q, i).pos
  <2>1. CASE i \in 1 .. n
    BY <1>1, <2>1 DEF Piece
  <2>2. CASE i = n + 1
    <3>1. i \notin 1 .. n /\ i - n = 1
      BY <1>1, <2>2
    <3>2. Piece(b, q, i) = Head(q)
      BY <1>1, <3>1 DEF Piece
    <3> QED BY <1>1, <2>2, <3>2
  <2> QED BY <1>1, <2>1, <2>2
<1> HIDE DEF a, n, k
<1>5. ASSUME NEW i \in 1 .. n + 1
      PROVE  a[i] = [id |-> k, pos |-> i - 1]
  <2>1. a[i].id = k /\ a[i].pos \in i - 1 .. (n + 1) - 1 - ((n + 1) - i)
    BY <1>3, <1>4
  <2>2. i - 1 .. (n + 1) - 1 - ((n + 1) - i) = {i - 1}
    BY <1>1
  <2>3. a[i] \in Chunk
    BY <1>1
  <2>4. a[i].pos = i - 1
    BY <2>1, <2>2
  <2> QED BY <2>1, <2>3, <2>4 DEF Chunk
<1>6. k \in Nat
  BY DEF k
<1>7. /\ Payload(k, n) \in Seq(Chunk) /\ Len(Payload(k, n)) = n + 1
      /\ \A i \in 1 .. n + 1 : Payload(k, n)[i] = [id |-> k, pos |-> i - 1]
  BY <1>1, <1>6, PayloadType
<1>8. a = Payload(k, n)
  BY <1>1, <1>5, <1>7, SeqEqual
<1> QED BY <1>8 DEF a, n, k

-----------------------------------------------------------------------------
(* The handshake between a sender and the receiver at the other end.        *)

\* The byte that carries the block size can hold it: the settings panel offers
\* 0 to 255 (settings_main_panel.py), and the simulator's is 8.
BlocksFit == \A s \in Station : BlockSize[s] < BsMod

Calls(s) == mode[s] \in {"calling", "sending"}

\* The peer collects the message s is sending.
Working(s) == Calls(s) /\ mode[Peer(s)] = "collecting" /\ asm[Peer(s)].buf[1].id = tx[s].id

HasFlow(s) == \E i \in 1 .. Len(rx[s]) : rx[s][i].kind = "FC"

\* A first frame is the last frame of its sender, which waits for the answer.
FirstLast(s) ==
    LET q == rx[Peer(s)] IN
    \A i \in 1 .. Len(q) : q[i].kind = "FF" =>
        /\ i = Len(q) /\ mode[s] = "calling"
        /\ tx[s].id = q[i].id /\ tx[s].pos = 1 /\ tx[s].len + 1 = q[i].len

\* The permission to go on is the only one, and everything that was sent has
\* been collected.
FlowFits(s) ==
    \A i \in 1 .. Len(rx[s]) : rx[s][i].kind = "FC" =>
        /\ mode[s] = "calling" /\ Working(s)
        /\ rx[Peer(s)] = <<>> /\ Len(asm[Peer(s)].buf) = tx[s].pos /\ asm[Peer(s)].block = 0
        /\ rx[s][i] = Continue(Peer(s))
        /\ \A j \in 1 .. Len(rx[s]) : rx[s][j].kind = "FC" => i = j

SenderFits(s) ==
    Calls(s) =>
        /\ tx[s].id = Len(sent[s]) /\ tx[s].pos \in 1 .. tx[s].len
        /\ mode[s] = "sending" =>
              /\ mode[Peer(s)] = "collecting" => Working(s)
              /\ tx[s].bs = BlockSize[Peer(s)]
              /\ IF BlockSize[Peer(s)] = 0 THEN tx[s].block = 0
                 ELSE tx[s].block \in 1 .. BlockSize[Peer(s)]

\* Where the receiver's block ends, and where the sender's does.
BlockEnd(s) == Len(asm[s].buf) - asm[s].block + BlockSize[s]

InStep(s) ==
    LET p == Peer(s) IN
    Working(s) =>
        /\ \A i \in 1 .. Len(rx[p]) : rx[p][i].kind = "CF"
        /\ asm[p].len = tx[s].len + 1
        /\ Ordered(asm[p].buf, rx[p], tx[s].pos)
        /\ mode[s] = "sending" /\ BlockSize[p] > 0 => tx[s].pos + tx[s].block = BlockEnd(p)
        /\ mode[s] = "calling" =>
              \/ tx[s].pos = Len(asm[p].buf) /\ asm[p].block = 0 /\ rx[p] = <<>>
              \/ BlockSize[p] > 0 /\ tx[s].pos = BlockEnd(p)

LeftBehind(s) ==
    LET p == Peer(s) IN
    mode[p] = "collecting" /\ ~Working(s) =>
        /\ Ordered(asm[p].buf, rx[p], asm[p].len)
        /\ \/ BlockSize[p] = 0
           \/ BlockEnd(p) >= asm[p].len
           \/ \A j \in 1 .. Len(rx[p]) : rx[p][j].kind = "CF" => asm[p].block + j < BlockSize[p]

Handshake(s) == FirstLast(s) /\ FlowFits(s) /\ SenderFits(s) /\ InStep(s) /\ LeftBehind(s)
HandInv == \A s \in Station : Handshake(s)

\* The flow control frame says what the block size is.
LEMMA ContinueFields ==
    ASSUME BlocksFit, NEW s \in Station
    PROVE  /\ Continue(s) \in Frame /\ Continue(s).kind = "FC"
           /\ Continue(s).status = "CTS" /\ Continue(s).bs = BlockSize[s]
<1>1. BlockSize[s] \in 0 .. BsMod - 1 /\ BlockSize[s] \in Nat /\ BsMod \in Nat \ {0}
  BY SizeAssumption DEF BlocksFit
<1>2. BlockSize[s] % BsMod = BlockSize[s]
  <2>1. ASSUME NEW a \in Nat, NEW m \in Nat \ {0}, a \in 0 .. m - 1 PROVE a % m = a
    <3>1. a = m * 0 + a
      BY <2>1
    <3> QED BY <2>1, <3>1, DivisionUnique
  <2> QED BY <1>1, <2>1
<1> QED BY <1>2, ContinueType DEF Continue, FlowControl

\* What the two ends of a direction hold.
LEMMA EndsType ==
    ASSUME TypeOK, NEW s \in Station
    PROVE  /\ rx[s] \in Seq(Frame) /\ Len(rx[s]) \in Nat
           /\ mode[s] \in Mode
           /\ asm[s].buf \in Seq(Chunk) /\ Len(asm[s].buf) \in Nat
           /\ asm[s].len \in Nat /\ asm[s].block \in Nat
           /\ sent[s] \in Seq(Nat) /\ Len(sent[s]) \in Nat /\ BlockSize[s] \in Nat
  BY SizeAssumption DEF TypeOK, AsmState

\* A receiver at work has begun a payload the peer has sent.
LEMMA CollectingFacts ==
    ASSUME SequenceInv, NEW s \in Station, mode[s] = "collecting"
    PROVE  /\ asm[s].buf # <<>> /\ asm[s].buf[1].id \in 1 .. Len(sent[Peer(s)])
           /\ asm[s].buf[1].pos = 0 /\ Len(asm[s].buf) < asm[s].len
           /\ asm[s].len = sent[Peer(s)][asm[s].buf[1].id] + 1
  BY DEF SequenceInv, ReceiversInSequence

\* Nothing happens to either end.
LEMMA HandSame ==
    ASSUME NEW s \in Station, Handshake(s),
           mode'[s] = mode[s], tx'[s] = tx[s], rx'[s] = rx[s], sent'[s] = sent[s],
           mode'[Peer(s)] = mode[Peer(s)], asm'[Peer(s)] = asm[Peer(s)], rx'[Peer(s)] = rx[Peer(s)]
    PROVE  Handshake(s)'
  BY DEF Handshake, FirstLast, FlowFits, SenderFits, InStep, LeftBehind, Calls, Working, BlockEnd,
         Continue, FlowControl

\* A station outside send() may put single frames and flow control on the bus.
LEMMA SenderAside ==
    ASSUME TypeOK, NEW s \in Station, Handshake(s), ~Calls(s), ~Calls(s)',
           mode'[Peer(s)] = mode[Peer(s)], asm'[Peer(s)] = asm[Peer(s)],
           \/ rx'[s] = rx[s]
           \/ rx[s] # <<>> /\ rx'[s] = Tail(rx[s]),
           \/ rx'[Peer(s)] = rx[Peer(s)]
           \/ \E f \in Frame : f.kind \in {"SF", "FC"} /\ rx'[Peer(s)] = Append(rx[Peer(s)], f)
    PROVE  Handshake(s)'
<1> DEFINE p == Peer(s)
<1>0. p \in Station
  BY PeerFacts
<1>1. ~Working(s) /\ ~Working(s)'
  BY DEF Working
<1>2. SenderFits(s)' /\ InStep(s)'
  BY <1>1 DEF SenderFits, InStep
<1>3. FlowFits(s)'
  <2>1. \A i \in 1 .. Len(rx[s]) : rx[s][i].kind # "FC"
    BY DEF Handshake, FlowFits, Calls
  <2>2. CASE rx'[s] = rx[s]
    BY <2>1, <2>2 DEF FlowFits
  <2>3. CASE rx[s] # <<>> /\ rx'[s] = Tail(rx[s])
    <3>1. /\ Len(rx'[s]) = Len(rx[s]) - 1 /\ Len(rx[s]) \in Nat
          /\ \A i \in 1 .. Len(rx[s]) - 1 : rx'[s][i] = rx[s][i + 1]
      BY <2>3, EndsType, TailElements
    <3>2. \A i \in 1 .. Len(rx'[s]) : rx'[s][i].kind # "FC"
      BY <2>1, <3>1
    <3> QED BY <3>2 DEF FlowFits
  <2> QED BY <2>2, <2>3
<1>4. CASE rx'[p] = rx[p]
  <2>1. FirstLast(s)'
    BY <1>4 DEF Handshake, FirstLast, Calls
  <2>2. LeftBehind(s)'
    BY <1>1, <1>4 DEF Handshake, LeftBehind, BlockEnd
  <2> QED BY <1>2, <1>3, <2>1, <2>2 DEF Handshake
<1>5. ASSUME NEW f \in Frame, f.kind \in {"SF", "FC"}, rx'[p] = Append(rx[p], f)
      PROVE  Handshake(s)'
  <2>0. /\ Len(rx'[p]) = Len(rx[p]) + 1 /\ rx'[p][Len(rx[p]) + 1] = f /\ Len(rx[p]) \in Nat
        /\ \A i \in 1 .. Len(rx[p]) : rx'[p][i] = rx[p][i]
    BY <1>0, <1>5, EndsType, AppendElements
  <2>1. FirstLast(s)'
    <3>1. \A i \in 1 .. Len(rx[p]) : rx[p][i].kind # "FF"
      BY DEF Handshake, FirstLast, Calls
    <3>2. \A i \in 1 .. Len(rx'[p]) : rx'[p][i].kind # "FF"
      BY <1>5, <2>0, <3>1
    <3> QED BY <3>2 DEF FirstLast
  <2>2. LeftBehind(s)'
    <3> SUFFICES ASSUME mode[p] = "collecting"
                 PROVE  /\ Ordered(asm[p].buf, rx'[p], asm[p].len)
                        /\ \/ BlockSize[p] = 0
                           \/ BlockEnd(p) >= asm[p].len
                           \/ \A j \in 1 .. Len(rx'[p]) :
                                 rx'[p][j].kind = "CF" => asm[p].block + j < BlockSize[p]
      BY <1>1 DEF LeftBehind, BlockEnd
    <3>1. Ordered(asm[p].buf, rx[p], asm[p].len)
      BY <1>1 DEF Handshake, LeftBehind
    <3>2. Ordered(asm[p].buf, rx'[p], asm[p].len)
      BY <1>0, <1>5, <3>1, EndsType, OtherAdded
    <3>3. \A j \in 1 .. Len(rx'[p]) : rx'[p][j].kind = "CF" => j \in 1 .. Len(rx[p]) /\ rx[p][j].kind = "CF"
      BY <1>5, <2>0
    <3> QED BY <1>1, <3>2, <3>3 DEF Handshake, LeftBehind
  <2> QED BY <1>2, <1>3, <2>1, <2>2 DEF Handshake
<1> QED BY <1>4, <1>5

\* A station that has left the reassembly, or is not in one, may take frames and
\* send some that are no flow control.
LEMMA ReceiverAside ==
    ASSUME TypeOK, NEW s \in Station, Handshake(s), ~HasFlow(s),
           mode'[s] = mode[s], tx'[s] = tx[s], sent'[s] = sent[s], mode'[Peer(s)] # "collecting",
           \/ rx'[Peer(s)] = rx[Peer(s)]
           \/ rx[Peer(s)] # <<>> /\ rx'[Peer(s)] = Tail(rx[Peer(s)]),
           \/ rx'[s] = rx[s]
           \/ \E f \in Frame : f.kind # "FC" /\ rx'[s] = Append(rx[s], f)
    PROVE  Handshake(s)'
<1> DEFINE p == Peer(s)
<1>0. p \in Station
  BY PeerFacts
<1>1. InStep(s)' /\ LeftBehind(s)'
  BY DEF InStep, LeftBehind, Working
<1>2. SenderFits(s)'
  BY DEF Handshake, SenderFits, Calls
<1>3. FlowFits(s)'
  <2>1. \A i \in 1 .. Len(rx[s]) : rx[s][i].kind # "FC"
    BY DEF HasFlow
  <2>2. CASE rx'[s] = rx[s]
    BY <2>1, <2>2 DEF FlowFits
  <2>3. ASSUME NEW f \in Frame, f.kind # "FC", rx'[s] = Append(rx[s], f) PROVE FlowFits(s)'
    <3>1. /\ Len(rx'[s]) = Len(rx[s]) + 1 /\ Len(rx[s]) \in Nat /\ rx'[s][Len(rx[s]) + 1] = f
          /\ \A i \in 1 .. Len(rx[s]) : rx'[s][i] = rx[s][i]
      BY <2>3, EndsType, AppendElements
    <3>2. \A i \in 1 .. Len(rx'[s]) : rx'[s][i].kind # "FC"
      BY <2>1, <2>3, <3>1
    <3> QED BY <3>2 DEF FlowFits
  <2> QED BY <2>2, <2>3
<1>4. FirstLast(s)'
  <2>1. CASE rx'[p] = rx[p]
    BY <2>1 DEF Handshake, FirstLast
  <2>2. CASE rx[p] # <<>> /\ rx'[p] = Tail(rx[p])
    BY <1>0, <2>2, EndsType, TailElements DEF Handshake, FirstLast
  <2> QED BY <2>1, <2>2
<1> QED BY <1>1, <1>2, <1>3, <1>4 DEF Handshake

\* A frame that is no flow control is taken, or any frame is lost, on the way to
\* the sender.
LEMMA FlowsFewer ==
    ASSUME TypeOK, NEW s \in Station, Handshake(s), NEW m \in 1 .. Len(rx[s]),
           rx'[s] = Without(rx[s], m) \/ (m = 1 /\ rx'[s] = Tail(rx[s])),
           mode'[s] = mode[s], tx'[s] = tx[s], sent'[s] = sent[s],
           mode'[Peer(s)] = mode[Peer(s)], asm'[Peer(s)] = asm[Peer(s)], rx'[Peer(s)] = rx[Peer(s)]
    PROVE  Handshake(s)'
<1> DEFINE q == rx[s]
           r == rx'[s]
<1>1. /\ Len(q) \in Nat /\ Len(r) = Len(q) - 1
      /\ \A i \in 1 .. m - 1 : r[i] = q[i]
      /\ \A i \in m .. Len(q) - 1 : r[i] = q[i + 1]
  <2>1. q \in Seq(Frame) /\ q # <<>>
    BY EndsType
  <2>2. CASE r = Without(q, m)
    BY <2>1, <2>2, WithoutElements
  <2>3. CASE m = 1 /\ r = Tail(q)
    <3>1. /\ Len(q) \in Nat /\ Len(r) = Len(q) - 1
          /\ \A i \in 1 .. Len(q) - 1 : r[i] = q[i + 1]
      BY <2>1, <2>3, TailElements
    <3> QED BY <2>3, <3>1
  <2> QED BY <2>2, <2>3
<1>2. FlowFits(s)'
  <2> DEFINE old(i) == IF i < m THEN i ELSE i + 1
  <2>1. \A i \in 1 .. Len(r) : old(i) \in 1 .. Len(q) /\ r[i] = q[old(i)]
    BY <1>1
  <2>2. \A i, j \in 1 .. Len(r) : old(i) = old(j) => i = j
    BY <1>1
  <2>3. Working(s)' <=> Working(s)
    BY DEF Working, Calls
  <2> HIDE DEF old
  <2> SUFFICES ASSUME NEW i \in 1 .. Len(r), r[i].kind = "FC"
               PROVE  /\ mode[s] = "calling" /\ Working(s)
                      /\ rx[Peer(s)] = <<>> /\ Len(asm[Peer(s)].buf) = tx[s].pos
                      /\ asm[Peer(s)].block = 0 /\ r[i] = Continue(Peer(s))
                      /\ \A j \in 1 .. Len(r) : r[j].kind = "FC" => i = j
    BY <2>3 DEF FlowFits, Continue, FlowControl
  <2>4. q[old(i)].kind = "FC" /\ old(i) \in 1 .. Len(q)
    BY <2>1
  <2>5. /\ mode[s] = "calling" /\ Working(s)
        /\ rx[Peer(s)] = <<>> /\ Len(asm[Peer(s)].buf) = tx[s].pos
        /\ asm[Peer(s)].block = 0 /\ q[old(i)] = Continue(Peer(s))
        /\ \A j \in 1 .. Len(q) : q[j].kind = "FC" => old(i) = j
    BY <2>4 DEF Handshake, FlowFits
  <2>6. \A j \in 1 .. Len(r) : r[j].kind = "FC" => i = j
    BY <2>1, <2>2, <2>5
  <2> QED BY <2>1, <2>5, <2>6
<1>3. FirstLast(s)' /\ SenderFits(s)' /\ InStep(s)' /\ LeftBehind(s)'
  BY DEF Handshake, FirstLast, SenderFits, InStep, LeftBehind, Working, Calls, BlockEnd
<1> QED BY <1>2, <1>3 DEF Handshake

\* The peer does not collect a message that is only about to be sent.
LEMMA HandFirst ==
    ASSUME SequenceInv, TypeOK', NEW s \in Station, Handshake(s), NEW n \in Lengths, SendFirst(s, n)
    PROVE  Handshake(s)'
<1> DEFINE p == Peer(s)
           k == Len(sent[s]) + 1
           f == FirstFrame(k, n)
<1>0. p \in Station /\ p # s /\ Peer(p) = s /\ TypeOK /\ n \in Nat \ {0} /\ k \in Nat
  BY PeerFacts, EndsType, SizeAssumption DEF SequenceInv, SendFirst
<1>1. f \in Frame /\ f.kind = "FF" /\ f.id = k /\ f.len = n + 1
  BY <1>0, FrameTypes DEF FirstFrame
<1>2. /\ mode[s] = "idle" /\ mode'[s] = "calling" /\ mode'[p] = mode[p] /\ asm'[p] = asm[p]
      /\ rx'[s] = rx[s] /\ rx'[p] = Append(rx[p], f)
  BY <1>0 DEF SendFirst, Transmit, TypeOK
<1>3. tx'[s].id = k /\ tx'[s].len = n /\ tx'[s].pos = 1
  BY <1>0 DEF SendFirst, TypeOK, TxState
<1>4. Len(sent'[s]) = k
  BY <1>0, EndsType DEF SendFirst, TypeOK
<1> HIDE DEF f, k
<1>5. /\ Len(rx'[p]) = Len(rx[p]) + 1 /\ rx'[p][Len(rx[p]) + 1] = f /\ Len(rx[p]) \in Nat
      /\ \A i \in 1 .. Len(rx[p]) : rx'[p][i] = rx[p][i]
  BY <1>0, <1>1, <1>2, EndsType, AppendElements
<1>6. ~Working(s) /\ ~Working(s)'
  <2>1. mode[p] = "collecting" => asm[p].buf[1].id # k
    BY <1>0, EndsType, CollectingFacts DEF k
  <2> QED BY <1>2, <1>3, <2>1 DEF Working, Calls
<1>7. FirstLast(s)'
  <2>1. \A i \in 1 .. Len(rx[p]) : rx[p][i].kind # "FF"
    BY <1>2 DEF Handshake, FirstLast
  <2>2. \A i \in 1 .. Len(rx'[p]) : rx'[p][i].kind = "FF" => i = Len(rx'[p]) /\ rx'[p][i] = f
    BY <1>5, <2>1
  <2> QED BY <1>0, <1>1, <1>2, <1>3, <2>2 DEF FirstLast
<1>8. FlowFits(s)'
  BY <1>2 DEF Handshake, FlowFits
<1>9. SenderFits(s)'
  BY <1>0, <1>2, <1>3, <1>4 DEF SenderFits
<1>10. InStep(s)'
  BY <1>6 DEF InStep
<1>11. LeftBehind(s)'
  <2> SUFFICES ASSUME mode[p] = "collecting"
               PROVE  /\ Ordered(asm[p].buf, rx'[p], asm[p].len)
                      /\ \/ BlockSize[p] = 0
                         \/ BlockEnd(p) >= asm[p].len
                         \/ \A j \in 1 .. Len(rx'[p]) :
                               rx'[p][j].kind = "CF" => asm[p].block + j < BlockSize[p]
    BY <1>2, <1>6 DEF LeftBehind, BlockEnd
  <2>1. Ordered(asm[p].buf, rx[p], asm[p].len)
    BY <1>6 DEF Handshake, LeftBehind
  <2>2. Ordered(asm[p].buf, rx'[p], asm[p].len)
    BY <1>0, <1>1, <1>2, <2>1, EndsType, OtherAdded
  <2>3. \A j \in 1 .. Len(rx'[p]) : rx'[p][j].kind = "CF" => j \in 1 .. Len(rx[p]) /\ rx[p][j].kind = "CF"
    BY <1>1, <1>5
  <2> QED BY <1>6, <2>2, <2>3 DEF Handshake, LeftBehind
<1> QED BY <1>7, <1>8, <1>9, <1>10, <1>11 DEF Handshake

\* The flow control frame at the head of a sender's queue: all that was sent
\* has been collected, and the receiver waits for the next block.
LEMMA FlowHead ==
    ASSUME TypeOK, BlocksFit, NEW s \in Station, Handshake(s), Pending(s, "FC")
    PROVE  /\ mode[s] = "calling" /\ Working(s)
           /\ rx[Peer(s)] = <<>> /\ Len(asm[Peer(s)].buf) = tx[s].pos /\ asm[Peer(s)].block = 0
           /\ Head(rx[s]).status = "CTS" /\ Head(rx[s]).bs = BlockSize[Peer(s)]
           /\ \A i \in 1 .. Len(Tail(rx[s])) : Tail(rx[s])[i].kind # "FC"
<1>1. /\ rx[s] # <<>> /\ Len(rx[s]) \in Nat \ {0} /\ Head(rx[s]) = rx[s][1]
      /\ Len(Tail(rx[s])) = Len(rx[s]) - 1
      /\ \A i \in 1 .. Len(rx[s]) - 1 : Tail(rx[s])[i] = rx[s][i + 1]
  BY EndsType, TailElements DEF Pending
<1>2. 1 \in 1 .. Len(rx[s]) /\ rx[s][1].kind = "FC"
  BY <1>1 DEF Pending
<1>3. /\ mode[s] = "calling" /\ Working(s)
      /\ rx[Peer(s)] = <<>> /\ Len(asm[Peer(s)].buf) = tx[s].pos /\ asm[Peer(s)].block = 0
      /\ rx[s][1] = Continue(Peer(s))
      /\ \A j \in 1 .. Len(rx[s]) : rx[s][j].kind = "FC" => 1 = j
  BY <1>2 DEF Handshake, FlowFits
<1>4. \A i \in 1 .. Len(Tail(rx[s])) : Tail(rx[s])[i].kind # "FC"
  BY <1>1, <1>3
<1> QED BY <1>1, <1>3, <1>4, ContinueFields, PeerFacts

\* The sender may go on: both ends are where the last block ended.
LEMMA HandContinue ==
    ASSUME SequenceInv, BlocksFit, NEW s \in Station, Handshake(s), FlowContinue(s)
    PROVE  Handshake(s)'
<1> DEFINE p == Peer(s)
           size == BlockSize[p]
<1>0. p \in Station /\ p # s /\ TypeOK /\ size \in Nat
  BY PeerFacts, EndsType DEF SequenceInv
<1>1. /\ mode[s] = "calling" /\ Working(s)
      /\ rx[p] = <<>> /\ Len(asm[p].buf) = tx[s].pos /\ asm[p].block = 0
      /\ Head(rx[s]).bs = size
      /\ \A i \in 1 .. Len(Tail(rx[s])) : Tail(rx[s])[i].kind # "FC"
  BY <1>0, FlowHead DEF FlowContinue
<1>2. /\ mode'[s] = "sending" /\ mode'[p] = mode[p] /\ asm' = asm
      /\ rx'[s] = Tail(rx[s]) /\ rx'[p] = rx[p] /\ sent' = sent
  BY <1>0 DEF FlowContinue, Take, TypeOK
<1>3. /\ tx'[s].id = tx[s].id /\ tx'[s].len = tx[s].len /\ tx'[s].pos = tx[s].pos
      /\ tx'[s].block = size /\ tx'[s].bs = size
  <2>1. tx' = [tx EXCEPT ![s] = [tx[s] EXCEPT !.block = size, !.bs = size]]
    BY <1>1 DEF FlowContinue
  <2>2. tx[s] \in TxState /\ tx \in [Station -> TxState]
    BY <1>0 DEF TypeOK
  <2> HIDE DEF size
  <2>3. tx'[s] = [tx[s] EXCEPT !.block = size, !.bs = size]
    BY <2>1, <2>2
  <2> QED BY <2>2, <2>3 DEF TxState
<1>4. Working(s)'
  BY <1>1, <1>2, <1>3 DEF Working, Calls
<1>5. FirstLast(s)' /\ FlowFits(s)' /\ LeftBehind(s)'
  BY <1>1, <1>2, <1>4 DEF FirstLast, FlowFits, LeftBehind
<1>6. SenderFits(s)'
  <2>1. tx[s].id = Len(sent[s]) /\ tx[s].pos \in 1 .. tx[s].len
    BY <1>1 DEF Handshake, SenderFits, Working
  <2>2. size # 0 => size \in 1 .. size
    BY <1>0
  <2> QED BY <1>2, <1>3, <1>4, <2>1, <2>2 DEF SenderFits
<1>7. InStep(s)'
  <2>1. asm[p].len = tx[s].len + 1 /\ Ordered(asm[p].buf, rx[p], tx[s].pos)
    BY <1>1 DEF Handshake, InStep
  <2>2. tx[s].pos + size = Len(asm[p].buf) - asm[p].block + size
    BY <1>0, <1>1, EndsType
  <2> QED BY <1>1, <1>2, <1>3, <2>1, <2>2 DEF InStep, BlockEnd
<1> QED BY <1>5, <1>6, <1>7 DEF Handshake

\* While the two ends are in step, the receiver holds and has queued no more
\* than was sent.
LEMMA NoMoreThanSent ==
    ASSUME SequenceInv, NEW s \in Station, Handshake(s), Working(s)
    PROVE  Len(asm[Peer(s)].buf) + Len(rx[Peer(s)]) <= tx[s].pos
<1> DEFINE p == Peer(s)
           b == asm[p].buf
           q == rx[p]
           n == Len(b) + Len(q)
<1>1. p \in Station /\ TypeOK /\ mode[p] = "collecting"
  BY PeerFacts DEF SequenceInv, Working
<1>2. b \in Seq(Chunk) /\ q \in Seq(Frame) /\ Len(b) \in Nat /\ Len(q) \in Nat /\ b # <<>> /\ b[1].pos = 0
      /\ tx[s].pos \in Nat
  BY <1>1, EndsType, CollectingFacts, TxFieldTypes
<1>3. (\A i \in 1 .. Len(q) : q[i].kind = "CF") /\ Ordered(b, q, tx[s].pos)
  BY DEF Handshake, InStep
<1> HIDE DEF b, q
<1>4. n \in 1 .. Len(b) + Len(q) /\ 1 \in 1 .. n /\ 1 \in 1 .. Len(b)
  BY <1>2
<1>5. IsPiece(b, q, n)
  BY <1>2, <1>3 DEF IsPiece
<1>6. Piece(b, q, 1).pos \in 1 - 1 .. tx[s].pos - 1 - (n - 1)
  BY <1>3, <1>4, <1>5 DEF Ordered
<1>7. Piece(b, q, 1) = b[1]
  BY <1>4 DEF Piece
<1>8. n <= tx[s].pos
  BY <1>2, <1>6, <1>7
<1> QED BY <1>8 DEF b, q

\* A consecutive frame goes out.
LEMMA HandConsecutive ==
    ASSUME SequenceInv, TypeOK', NEW s \in Station, Handshake(s), SendConsecutive(s)
    PROVE  Handshake(s)'
<1> DEFINE p == Peer(s)
           b == asm[p].buf
           q == rx[p]
           size == BlockSize[p]
           f == ConsecutiveFrame(tx[s].id, tx[s].pos, tx[s].seq)
           left == IF tx[s].block > 0 THEN tx[s].block - 1 ELSE 0
           pos == tx[s].pos + 1
           seq == (tx[s].seq + 1) % SequenceMod
<1>0. p \in Station /\ p # s /\ TypeOK /\ size \in Nat /\ mode[s] = "sending"
  BY PeerFacts, EndsType DEF SequenceInv, SendConsecutive
<1>1. f \in Frame /\ f.kind = "CF" /\ f.id = tx[s].id /\ f.pos = tx[s].pos
  BY <1>0, TxFieldTypes, FrameTypes DEF ConsecutiveFrame
<1>2. /\ mode'[p] = mode[p] /\ asm' = asm /\ sent' = sent /\ rx'[s] = rx[s]
      /\ rx'[p] = Append(q, f)
      /\ mode'[s] = IF tx[s].pos = tx[s].len THEN "idle"
                    ELSE IF left = 0 /\ tx[s].bs > 0 THEN "calling" ELSE "sending"
  BY <1>0 DEF SendConsecutive, Transmit, TypeOK
<1>3. /\ tx'[s].id = tx[s].id /\ tx'[s].len = tx[s].len /\ tx'[s].bs = tx[s].bs
      /\ tx'[s].pos = pos /\ tx'[s].block = left
  <2>1. tx' = [tx EXCEPT ![s] = [tx[s] EXCEPT !.pos = pos, !.seq = seq,
                                              !.block = left, !.waits = 0]]
    BY DEF SendConsecutive
  <2>2. tx[s] \in TxState /\ tx \in [Station -> TxState]
    BY <1>0 DEF TypeOK
  <2> HIDE DEF left, pos, seq
  <2>3. tx'[s] = [tx[s] EXCEPT !.pos = pos, !.seq = seq, !.block = left, !.waits = 0]
    BY <2>1, <2>2
  <2> QED BY <2>2, <2>3 DEF TxState
<1>4. tx[s].pos \in Nat /\ tx[s].len \in Nat /\ tx[s].block \in Nat /\ tx[s].bs \in Nat
  BY <1>0, TxFieldTypes
<1>5. /\ tx[s].id = Len(sent[s]) /\ tx[s].pos \in 1 .. tx[s].len
      /\ mode[p] = "collecting" => Working(s)
      /\ tx[s].bs = size
      /\ IF size = 0 THEN tx[s].block = 0 ELSE tx[s].block \in 1 .. size
  BY <1>0 DEF Handshake, SenderFits, Calls
<1>6. /\ Len(rx'[p]) = Len(q) + 1 /\ rx'[p][Len(q) + 1] = f /\ Len(q) \in Nat
      /\ \A i \in 1 .. Len(q) : rx'[p][i] = q[i]
  BY <1>0, <1>1, <1>2, EndsType, AppendElements
<1> HIDE DEF f, seq
<1>7. FirstLast(s)'
  <2>1. \A i \in 1 .. Len(q) : q[i].kind # "FF"
    BY <1>0 DEF Handshake, FirstLast
  <2>2. \A i \in 1 .. Len(rx'[p]) : rx'[p][i].kind # "FF"
    BY <1>1, <1>6, <2>1
  <2> QED BY <2>2 DEF FirstLast
<1>8. FlowFits(s)'
  BY <1>0, <1>2 DEF Handshake, FlowFits
<1>9. mode[p] = "collecting" =>
        /\ Ordered(b, rx'[p], pos) /\ (\A i \in 1 .. Len(rx'[p]) : rx'[p][i].kind = "CF")
        /\ asm[p].len = tx[s].len + 1
        /\ size > 0 => tx[s].pos + tx[s].block = BlockEnd(p)
  <2> SUFFICES ASSUME mode[p] = "collecting"
               PROVE  /\ Ordered(b, rx'[p], pos) /\ (\A i \in 1 .. Len(rx'[p]) : rx'[p][i].kind = "CF")
                      /\ asm[p].len = tx[s].len + 1
                      /\ size > 0 => tx[s].pos + tx[s].block = BlockEnd(p)
    OBVIOUS
  <2>1. Working(s)
    BY <1>5
  <2>2. /\ \A i \in 1 .. Len(q) : q[i].kind = "CF"
        /\ asm[p].len = tx[s].len + 1
        /\ Ordered(b, q, tx[s].pos)
        /\ size > 0 => tx[s].pos + tx[s].block = BlockEnd(p)
    BY <1>0, <2>1 DEF Handshake, InStep
  <2>3. b \in Seq(Chunk) /\ q \in Seq(Frame) /\ b # <<>> /\ b[1].pos = 0 /\ b[1].id = tx[s].id
    BY <1>0, <2>1, EndsType, CollectingFacts DEF Working
  <2> HIDE DEF b, q
  <2>4. Ordered(b, Append(q, f), tx[s].pos + 1)
    BY <1>1, <1>4, <2>2, <2>3, PieceAdded
  <2>5. \A i \in 1 .. Len(rx'[p]) : rx'[p][i].kind = "CF"
    BY <1>1, <1>6, <2>2
  <2> QED BY <1>2, <2>2, <2>4, <2>5
<1> HIDE DEF b, q
<1>10. CASE tx[s].pos = tx[s].len
  <2>1. mode'[s] = "idle"
    BY <1>2, <1>10
  <2>2. SenderFits(s)' /\ InStep(s)' /\ ~Working(s)'
    BY <2>1 DEF SenderFits, InStep, Calls, Working
  <2>3. LeftBehind(s)'
    <3> SUFFICES ASSUME mode[p] = "collecting"
                 PROVE  Ordered(b, rx'[p], asm[p].len) /\ (size = 0 \/ BlockEnd(p) >= asm[p].len)
      BY <1>2 DEF LeftBehind, BlockEnd, b
    <3>1. Ordered(b, rx'[p], asm[p].len)
      BY <1>4, <1>9, <1>10
    <3>2. size = 0 \/ BlockEnd(p) >= asm[p].len
      BY <1>0, <1>4, <1>5, <1>9, <1>10
    <3> QED BY <3>1, <3>2
  <2> QED BY <1>7, <1>8, <2>2, <2>3 DEF Handshake
<1>11. CASE tx[s].pos # tx[s].len
  <2>1. mode'[s] = IF left = 0 /\ size > 0 THEN "calling" ELSE "sending"
    BY <1>2, <1>5, <1>11
  <2>2. Calls(s)' /\ (mode[p] = "collecting" <=> Working(s)')
    BY <1>2, <1>3, <1>5, <2>1 DEF Calls, Working
  <2>3. pos \in 1 .. tx[s].len
    BY <1>4, <1>5, <1>11
  <2>4. IF size = 0 THEN left = 0 ELSE left \in 0 .. size /\ left + 1 = tx[s].block
    BY <1>0, <1>4, <1>5
  <2>5. SenderFits(s)'
    <3>1. tx'[s].id = Len(sent'[s]) /\ tx'[s].pos \in 1 .. tx'[s].len
      BY <1>2, <1>3, <1>5, <2>3
    <3>2. mode'[p] = "collecting" => Working(s)'
      BY <1>2, <2>2
    <3>3. mode'[s] = "sending" => left # 0 \/ size = 0
      BY <1>0, <2>1
    <3>4. mode'[s] = "sending" => IF size = 0 THEN left = 0 ELSE left \in 1 .. size
      BY <1>0, <2>4, <3>3
    <3>5. tx'[s].bs = size /\ tx'[s].block = left
      BY <1>3, <1>5
    <3> HIDE DEF left, size
    <3> QED BY <3>1, <3>2, <3>4, <3>5 DEF SenderFits, size
  <2>6. LeftBehind(s)'
    BY <1>2, <2>2 DEF LeftBehind
  <2>7. InStep(s)'
    <3> SUFFICES ASSUME mode[p] = "collecting"
                 PROVE  /\ \A i \in 1 .. Len(rx'[p]) : rx'[p][i].kind = "CF"
                        /\ asm[p].len = tx[s].len + 1
                        /\ Ordered(b, rx'[p], pos)
                        /\ mode'[s] = "sending" /\ size > 0 => pos + left = BlockEnd(p)
                        /\ mode'[s] = "calling" => size > 0 /\ pos = BlockEnd(p)
      BY <1>2, <1>3, <2>2 DEF InStep, BlockEnd, b
    <3>1. size > 0 => pos + left = tx[s].pos + tx[s].block
      BY <1>0, <1>4, <2>4
    <3>2. mode'[s] = "calling" => size > 0 /\ left = 0
      BY <2>1
    <3>3. pos \in Nat
      BY <1>4
    <3> QED BY <1>9, <3>1, <3>2, <3>3
  <2> QED BY <1>7, <1>8, <2>5, <2>6, <2>7 DEF Handshake
<1> QED BY <1>10, <1>11

\* The sender gives up in the middle of a block: the receiver will not see the
\* end of that block.
LEMMA HandSendError ==
    ASSUME SequenceInv, NEW s \in Station, Handshake(s), SendError(s)
    PROVE  Handshake(s)'
<1> DEFINE p == Peer(s)
           b == asm[p].buf
           q == rx[p]
           size == BlockSize[p]
<1>0. p \in Station /\ p # s /\ TypeOK /\ size \in Nat /\ mode[s] = "sending"
  BY PeerFacts, EndsType DEF SequenceInv, SendError
<1>1. mode'[s] = "idle" /\ mode'[p] = mode[p] /\ UNCHANGED <<rx, tx, asm, sent>>
  BY <1>0 DEF SendError, TypeOK
<1>2. FirstLast(s)' /\ FlowFits(s)'
  BY <1>0, <1>1 DEF Handshake, FirstLast, FlowFits
<1>3. SenderFits(s)' /\ InStep(s)' /\ ~Working(s)'
  BY <1>1 DEF SenderFits, InStep, Calls, Working
<1>4. LeftBehind(s)'
  <2> SUFFICES ASSUME mode[p] = "collecting"
               PROVE  /\ Ordered(b, q, asm[p].len)
                      /\ size = 0 \/ \A j \in 1 .. Len(q) : asm[p].block + j < size
    BY <1>1 DEF LeftBehind, BlockEnd
  <2>1. /\ Working(s) /\ tx[s].pos \in 1 .. tx[s].len
        /\ IF size = 0 THEN tx[s].block = 0 ELSE tx[s].block \in 1 .. size
    BY <1>0 DEF Handshake, SenderFits, Calls
  <2>2. /\ asm[p].len = tx[s].len + 1 /\ Ordered(b, q, tx[s].pos)
        /\ size > 0 => tx[s].pos + tx[s].block = Len(b) - asm[p].block + size
    BY <1>0, <2>1 DEF Handshake, InStep, BlockEnd
  <2>3. /\ b \in Seq(Chunk) /\ q \in Seq(Frame) /\ Len(b) \in Nat /\ Len(q) \in Nat
        /\ tx[s].pos \in Nat /\ tx[s].len \in Nat /\ tx[s].block \in Nat
        /\ asm[p].len \in Nat /\ asm[p].block \in Nat
    BY <1>0, EndsType, TxFieldTypes
  <2>4. Len(b) + Len(q) <= tx[s].pos
    BY <2>1, NoMoreThanSent
  <2> HIDE DEF b, q
  <2>5. Ordered(b, q, asm[p].len)
    BY <2>1, <2>2, <2>3, MoreRoom
  <2> HIDE DEF size
  <2>6. ASSUME size # 0, NEW j \in 1 .. Len(q) PROVE asm[p].block + j < size
    <3>1. tx[s].pos + tx[s].block = Len(b) - asm[p].block + size /\ tx[s].block >= 1
      BY <1>0, <2>1, <2>2, <2>6
    <3>2. Len(b) + j <= tx[s].pos
      BY <2>3, <2>4
    <3>3. j \in Nat /\ size \in Nat
      BY <1>0, <2>3
    <3> DEFINE held == Len(b)
               block == asm[p].block
               pos == tx[s].pos
               rest == tx[s].block
    <3>4. held \in Nat /\ block \in Nat /\ pos \in Nat /\ rest \in Nat
      BY <2>3
    <3>5. pos + rest = held - block + size /\ rest >= 1 /\ held + j <= pos
      BY <3>1, <3>2
    <3> HIDE DEF held, block, pos, rest
    <3>6. block + j < size
      BY <3>3, <3>4, <3>5
    <3> QED BY <3>6 DEF block
  <2> QED BY <2>5, <2>6
<1> QED BY <1>2, <1>3, <1>4 DEF Handshake

\* The sender waits no longer, with nothing on the way.
LEMMA HandFlowTimeout ==
    ASSUME SequenceInv, NEW s \in Station, Handshake(s), Quiet(s), FlowTimeout(s)
    PROVE  Handshake(s)'
<1> DEFINE p == Peer(s)
<1>0. p \in Station /\ p # s /\ TypeOK
  BY PeerFacts DEF SequenceInv
<1>1. /\ rx[s] = <<>> /\ rx[p] = <<>> /\ mode'[s] = "idle" /\ mode'[p] = mode[p]
      /\ UNCHANGED <<rx, tx, asm, sent>>
  BY <1>0 DEF FlowTimeout, Quiet, TypeOK
<1>2. FirstLast(s)' /\ FlowFits(s)'
  BY <1>1 DEF FirstLast, FlowFits
<1>3. SenderFits(s)' /\ InStep(s)' /\ ~Working(s)'
  BY <1>1 DEF SenderFits, InStep, Calls, Working
<1>4. LeftBehind(s)'
  <2> SUFFICES ASSUME mode[p] = "collecting" PROVE Ordered(asm[p].buf, rx[p], asm[p].len)
    BY <1>1 DEF LeftBehind
  <2>1. CASE Working(s)
    <3>1. /\ asm[p].len = tx[s].len + 1 /\ Ordered(asm[p].buf, rx[p], tx[s].pos)
          /\ tx[s].pos \in 1 .. tx[s].len
      BY <2>1 DEF Handshake, InStep, SenderFits, Working
    <3>2. /\ asm[p].buf \in Seq(Chunk) /\ rx[p] \in Seq(Frame) /\ asm[p].len \in Nat
          /\ tx[s].pos \in Nat /\ tx[s].len \in Nat
      BY <1>0, EndsType, TxFieldTypes
    <3> QED BY <3>1, <3>2, MoreRoom
  <2>2. CASE ~Working(s)
    BY <2>2 DEF Handshake, LeftBehind
  <2> QED BY <2>1, <2>2
<1> QED BY <1>2, <1>3, <1>4 DEF Handshake

\* A first frame is at the head of its receiver's queue only when it is alone
\* there: the permission answers the sender that waits for it.
LEMMA HandReceiveFirst ==
    ASSUME SequenceInv, BlocksFit, NEW s \in Station, Handshake(s), ReceiveFirst(Peer(s))
    PROVE  Handshake(s)'
<1> DEFINE p == Peer(s)
           f == Head(rx[p])
           c == Continue(p)
<1>0. p \in Station /\ p # s /\ Peer(p) = s /\ TypeOK
  BY PeerFacts DEF SequenceInv
<1>1. /\ rx[p] # <<>> /\ f.kind = "FF" /\ f.id \in Nat
      /\ Len(rx[p]) \in Nat \ {0} /\ f = rx[p][1] /\ Tail(rx[p]) \in Seq(Frame)
      /\ Len(Tail(rx[p])) = Len(rx[p]) - 1
  BY <1>0, HeadType, EndsType, TailElements DEF ReceiveFirst, Pending
<1>2. /\ 1 = Len(rx[p]) /\ mode[s] = "calling"
      /\ tx[s].id = f.id /\ tx[s].pos = 1 /\ tx[s].len + 1 = f.len
  <2>1. 1 \in 1 .. Len(rx[p])
    BY <1>1
  <2> QED BY <1>1, <2>1 DEF Handshake, FirstLast
<1>3. /\ mode'[p] = "collecting" /\ mode'[s] = mode[s] /\ asm'[p] = Started(p, f)
      /\ UNCHANGED <<tx, sent>>
  BY <1>0 DEF ReceiveFirst, TypeOK
<1>4. rx'[p] = Tail(rx[p]) /\ rx'[s] = Append(rx[s], c)
  <2>1. rx' = [rx EXCEPT ![p] = Tail(rx[p]), ![s] = Append(rx[s], c)]
    BY <1>0 DEF ReceiveFirst, TakeAndTransmit, TypeOK
  <2> QED BY <1>0, <2>1 DEF TypeOK
<1>5. rx'[p] = <<>>
  <2>1. Len(Tail(rx[p])) = 0
    BY <1>1, <1>2
  <2>2. ASSUME NEW t \in Seq(Frame), Len(t) = 0 PROVE t = <<>>
    BY <2>2, EmptySeq
  <2> QED BY <1>1, <1>4, <2>1, <2>2
<1>6. /\ Payload(f.id, 0) = << [id |-> f.id, pos |-> 0] >> /\ [id |-> f.id, pos |-> 0] \in Chunk
      /\ [id |-> f.id, pos |-> 0].pos = 0
  BY <1>1 DEF Payload, Chunk
<1>7. asm'[p].buf = Payload(f.id, 0) /\ asm'[p].len = f.len /\ asm'[p].block = 0
  BY <1>3 DEF Started
<1>8. Len(asm'[p].buf) = 1 /\ asm'[p].buf[1].id = f.id
  <2>1. Len(Payload(f.id, 0)) = 1 /\ Payload(f.id, 0)[1] = [id |-> f.id, pos |-> 0]
    BY <1>1, FirstChunk
  <2> QED BY <1>7, <2>1
<1>9. c \in Frame /\ c.kind = "FC"
  BY <1>0, ContinueFields
<1>10. /\ Len(rx'[s]) = Len(rx[s]) + 1 /\ rx'[s][Len(rx[s]) + 1] = c /\ Len(rx[s]) \in Nat
       /\ \A i \in 1 .. Len(rx[s]) : rx'[s][i] = rx[s][i]
  BY <1>0, <1>4, <1>9, EndsType, AppendElements
<1>11. \A i \in 1 .. Len(rx[s]) : rx[s][i].kind # "FC"
  BY <1>1 DEF Handshake, FlowFits
<1> HIDE DEF f, c
<1>12. Working(s)'
  BY <1>2, <1>3, <1>8 DEF Working, Calls
<1>13. FirstLast(s)' /\ LeftBehind(s)'
  BY <1>5, <1>12 DEF FirstLast, LeftBehind
<1>14. FlowFits(s)'
  <2>1. \A i \in 1 .. Len(rx'[s]) : rx'[s][i].kind = "FC" => i = Len(rx[s]) + 1 /\ rx'[s][i] = c
    BY <1>10, <1>11
  <2>2. mode'[s] = "calling" /\ Len(asm'[p].buf) = tx'[s].pos
    BY <1>2, <1>3, <1>8
  <2> QED BY <1>5, <1>7, <1>12, <2>1, <2>2 DEF FlowFits, c, Continue
<1>15. SenderFits(s)'
  BY <1>2, <1>3, <1>12 DEF Handshake, SenderFits, Calls
<1>16. InStep(s)'
  <2>1. Ordered(<< [id |-> f.id, pos |-> 0] >>, rx'[p], 1)
    BY <1>1, <1>4, <1>5, <1>6, Begun
  <2>2. Ordered(asm'[p].buf, rx'[p], tx'[s].pos)
    BY <1>2, <1>3, <1>6, <1>7, <2>1
  <2>3. asm'[p].len = tx'[s].len + 1 /\ tx'[s].pos = Len(asm'[p].buf) /\ mode'[s] = "calling"
    BY <1>2, <1>3, <1>7, <1>8
  <2>4. \A i \in 1 .. Len(rx'[p]) : rx'[p][i].kind = "CF"
    BY <1>5
  <2> QED BY <1>5, <1>7, <2>2, <2>3, <2>4 DEF InStep
<1> QED BY <1>13, <1>14, <1>15, <1>16 DEF Handshake

\* A receiver at work that drops a frame has been left behind by the sender.
LEMMA HandIgnore ==
    ASSUME SequenceInv, NEW s \in Station, Handshake(s), IgnoreWhileCollecting(Peer(s))
    PROVE  Handshake(s)'
<1> DEFINE p == Peer(s)
           q == rx[p]
           r == Tail(q)
<1>0. p \in Station /\ p # s /\ Peer(p) = s /\ TypeOK
  BY PeerFacts DEF SequenceInv
<1>1. /\ q # <<>> /\ q \in Seq(Frame) /\ r \in Seq(Frame) /\ Len(q) \in Nat \ {0} /\ Len(r) = Len(q) - 1
      /\ \A i \in 1 .. Len(q) - 1 : r[i] = q[i + 1]
      /\ q[1].kind # "CF" /\ mode[p] = "collecting"
  BY <1>0, EndsType, TailElements DEF IgnoreWhileCollecting
<1>2. rx'[p] = r /\ rx'[s] = rx[s] /\ UNCHANGED <<mode, tx, asm, sent>>
  BY <1>0 DEF IgnoreWhileCollecting, Take, TypeOK
<1>3. ~Working(s)
  BY <1>1 DEF Handshake, InStep
<1> HIDE DEF q, r
<1>4. ~Working(s)'
  BY <1>2, <1>3 DEF Working, Calls
<1>5. FirstLast(s)'
  <2>1. \A i \in 1 .. Len(r) : i + 1 \in 1 .. Len(q) /\ r[i] = q[i + 1] /\ (i + 1 = Len(q) => i = Len(r))
    BY <1>1
  <2> QED BY <1>2, <2>1 DEF Handshake, FirstLast, q
<1>6. FlowFits(s)'
  BY <1>2, <1>3 DEF Handshake, FlowFits
<1>7. SenderFits(s)' /\ InStep(s)'
  BY <1>2, <1>3, <1>4 DEF Handshake, SenderFits, InStep, Calls
<1>8. LeftBehind(s)'
  <2>1. /\ Ordered(asm[p].buf, q, asm[p].len)
        /\ \/ BlockSize[p] = 0
           \/ BlockEnd(p) >= asm[p].len
           \/ \A j \in 1 .. Len(q) : q[j].kind = "CF" => asm[p].block + j < BlockSize[p]
    BY <1>1, <1>3 DEF Handshake, LeftBehind, q
  <2>2. asm[p].buf \in Seq(Chunk) /\ asm[p].len \in Nat /\ asm[p].block \in Nat /\ BlockSize[p] \in Nat
    BY <1>0, EndsType
  <2>3. Ordered(asm[p].buf, r, asm[p].len)
    <3>1. 1 \in 1 .. Len(q) /\ \A i \in 1 .. 1 - 1 : r[i] = q[i]
      BY <1>1
    <3> QED BY <1>1, <2>1, <2>2, <3>1, PieceLost
  <2>4. \A j \in 1 .. Len(r) : j + 1 \in 1 .. Len(q) /\ r[j] = q[j + 1]
    BY <1>1
  <2>5. \A j \in 1 .. Len(r) : asm[p].block + (j + 1) < BlockSize[p] => asm[p].block + j < BlockSize[p]
    BY <1>1, <2>2
  <2> QED BY <1>2, <2>1, <2>3, <2>4, <2>5 DEF LeftBehind, BlockEnd
<1> QED BY <1>5, <1>6, <1>7, <1>8 DEF Handshake

\* A frame is lost on the way to the receiver.
LEMMA HandLose ==
    ASSUME SequenceInv, NEW s \in Station, Handshake(s), Lose(Peer(s))
    PROVE  Handshake(s)'
<1> DEFINE p == Peer(s)
           q == rx[p]
<1>0. p \in Station /\ p # s /\ Peer(p) = s /\ TypeOK /\ q \in Seq(Frame)
  BY PeerFacts, EndsType DEF SequenceInv
<1>1. PICK m \in 1 .. Len(q) : rx' = [rx EXCEPT ![p] = Without(q, m)]
  BY DEF Lose
<1> DEFINE r == Without(q, m)
           old(i) == IF i < m THEN i ELSE i + 1
<1>2. rx'[p] = r /\ rx'[s] = rx[s] /\ UNCHANGED <<mode, tx, asm, sent>>
  BY <1>0, <1>1 DEF Lose, TypeOK
<1>3. /\ r \in Seq(Frame) /\ Len(q) \in Nat \ {0} /\ Len(r) = Len(q) - 1
      /\ \A i \in 1 .. m - 1 : r[i] = q[i]
      /\ \A i \in m .. Len(q) - 1 : r[i] = q[i + 1]
  <2>1. /\ r \in Seq(Frame) /\ Len(q) \in Nat /\ Len(r) = Len(q) - 1
        /\ \A i \in 1 .. m - 1 : r[i] = q[i]
        /\ \A i \in m .. Len(q) - 1 : r[i] = q[i + 1]
    BY <1>0, WithoutElements
  <2>2. Len(q) # 0
    BY <2>1
  <2> QED BY <2>1, <2>2
<1> HIDE DEF q, r
<1>4. \A i \in 1 .. Len(r) : /\ old(i) \in 1 .. Len(q) /\ r[i] = q[old(i)] /\ i <= old(i)
                             /\ old(i) = Len(q) => i = Len(r)
  BY <1>3
<1> HIDE DEF old
<1>5. FirstLast(s)'
  BY <1>2, <1>4 DEF Handshake, FirstLast, q
<1>6. FlowFits(s)'
  <2>1. q # <<>>
    BY <1>0, <1>3, EmptySeq
  <2>2. \A i \in 1 .. Len(rx[s]) : rx[s][i].kind # "FC"
    BY <2>1 DEF Handshake, FlowFits, q
  <2> QED BY <1>2, <2>2 DEF FlowFits
<1>7. Working(s)' <=> Working(s)
  BY <1>2 DEF Working, Calls
<1>8. SenderFits(s)'
  BY <1>2, <1>7 DEF Handshake, SenderFits, Calls
<1>9. /\ asm[p].buf \in Seq(Chunk) /\ asm[p].len \in Nat /\ asm[p].block \in Nat
      /\ BlockSize[p] \in Nat /\ tx[s].pos \in Nat
  BY <1>0, EndsType, TxFieldTypes
<1>10. \A top \in Nat : Ordered(asm[p].buf, q, top) => Ordered(asm[p].buf, r, top)
  BY <1>0, <1>3, <1>9, PieceLost
<1>11. InStep(s)'
  <2> SUFFICES ASSUME Working(s)
               PROVE  /\ \A i \in 1 .. Len(r) : r[i].kind = "CF"
                      /\ asm[p].len = tx[s].len + 1
                      /\ Ordered(asm[p].buf, r, tx[s].pos)
                      /\ mode[s] = "sending" /\ BlockSize[p] > 0 => tx[s].pos + tx[s].block = BlockEnd(p)
                      /\ mode[s] = "calling" => BlockSize[p] > 0 /\ tx[s].pos = BlockEnd(p)
    BY <1>2, <1>7 DEF InStep, BlockEnd
  <2>1. q # <<>>
    BY <1>0, <1>3, EmptySeq
  <2>2. /\ \A i \in 1 .. Len(q) : q[i].kind = "CF"
        /\ asm[p].len = tx[s].len + 1
        /\ Ordered(asm[p].buf, q, tx[s].pos)
        /\ mode[s] = "sending" /\ BlockSize[p] > 0 => tx[s].pos + tx[s].block = BlockEnd(p)
        /\ mode[s] = "calling" => BlockSize[p] > 0 /\ tx[s].pos = BlockEnd(p)
    BY <2>1 DEF Handshake, InStep, q
  <2> QED BY <1>4, <1>9, <1>10, <2>2
<1>12. LeftBehind(s)'
  <2> SUFFICES ASSUME mode[p] = "collecting", ~Working(s)
               PROVE  /\ Ordered(asm[p].buf, r, asm[p].len)
                      /\ \/ BlockSize[p] = 0
                         \/ BlockEnd(p) >= asm[p].len
                         \/ \A j \in 1 .. Len(r) : r[j].kind = "CF" => asm[p].block + j < BlockSize[p]
    BY <1>2, <1>7 DEF LeftBehind, BlockEnd
  <2>1. /\ Ordered(asm[p].buf, q, asm[p].len)
        /\ \/ BlockSize[p] = 0
           \/ BlockEnd(p) >= asm[p].len
           \/ \A j \in 1 .. Len(q) : q[j].kind = "CF" => asm[p].block + j < BlockSize[p]
    BY DEF Handshake, LeftBehind, q
  <2>2. \A j \in 1 .. Len(r) : asm[p].block + old(j) < BlockSize[p] => asm[p].block + j < BlockSize[p]
    <3> SUFFICES ASSUME NEW j \in 1 .. Len(r), asm[p].block + old(j) < BlockSize[p]
                 PROVE  asm[p].block + j < BlockSize[p]
      OBVIOUS
    <3>1. old(j) \in Int /\ j <= old(j) /\ j \in Int
      BY <1>3, <1>4
    <3> QED BY <1>9, <3>1
  <2> QED BY <1>4, <1>9, <1>10, <2>1, <2>2
<1> QED BY <1>5, <1>6, <1>8, <1>11, <1>12 DEF Handshake

\* The receiver asks for the next block only when the sender has come to the
\* end of this one and everything in between has arrived.
LEMMA BlockEndsTogether ==
    ASSUME SequenceInv, NEW s \in Station, Handshake(s), mode[Peer(s)] = "collecting",
           Pending(Peer(s), "CF"), Len(asm[Peer(s)].buf) + 1 < asm[Peer(s)].len,
           BlockComplete(Peer(s))
    PROVE  /\ Working(s) /\ mode[s] = "calling"
           /\ tx[s].pos = Len(asm[Peer(s)].buf) + 1 /\ Len(rx[Peer(s)]) = 1
<1> DEFINE p == Peer(s)
           held == Len(asm[p].buf)
           block == asm[p].block
           size == BlockSize[p]
           queued == Len(rx[p])
<1>0. p \in Station /\ TypeOK
  BY PeerFacts DEF SequenceInv
<1>1. /\ held \in Nat /\ block \in Nat /\ size \in Nat /\ queued \in Nat /\ asm[p].len \in Nat
      /\ tx[s].pos \in Nat /\ tx[s].block \in Nat
  BY <1>0, EndsType, TxFieldTypes
<1>2. rx[p] # <<>> /\ queued # 0 /\ rx[p][1].kind = "CF" /\ 1 \in 1 .. queued
  BY <1>0, EndsType, TailElements DEF Pending
<1>3. size > 0 /\ block + 1 >= size
  BY DEF BlockComplete
<1>4. BlockEnd(p) = held - block + size
  BY DEF BlockEnd
<1>5. Working(s)
  <2> SUFFICES ASSUME ~Working(s) PROVE FALSE
    OBVIOUS
  <2>1. \/ size = 0
        \/ BlockEnd(p) >= asm[p].len
        \/ \A j \in 1 .. queued : rx[p][j].kind = "CF" => block + j < size
    BY DEF Handshake, LeftBehind
  <2>2. BlockEnd(p) >= asm[p].len \/ block + 1 < size
    BY <1>2, <1>3, <2>1
  <2>3. held + 1 < asm[p].len
    OBVIOUS
  <2> HIDE DEF held, block, size, queued
  <2> QED BY <1>1, <1>3, <1>4, <2>2, <2>3
<1>6. held + queued <= tx[s].pos
  BY <1>5, NoMoreThanSent
<1>7. mode[s] = "calling"
  <2> SUFFICES ASSUME mode[s] = "sending" PROVE FALSE
    BY <1>5 DEF Working, Calls
  <2>1. tx[s].pos + tx[s].block = held - block + size
    BY <1>3, <1>5 DEF Handshake, InStep, BlockEnd
  <2>2. tx[s].block >= 1
    BY <1>3, <1>5 DEF Handshake, SenderFits, Working
  <2> DEFINE pos == tx[s].pos
             rest == tx[s].block
  <2>3. pos \in Nat /\ rest \in Nat /\ held + queued <= pos /\ pos + rest = held - block + size /\ rest >= 1
    BY <1>1, <1>6, <2>1, <2>2
  <2> HIDE DEF held, block, size, queued, pos, rest
  <2> QED BY <1>1, <1>2, <1>3, <2>3
<1>8. tx[s].pos = held - block + size
  BY <1>2, <1>5, <1>7 DEF Handshake, InStep, BlockEnd
<1> DEFINE pos == tx[s].pos
<1>9. pos \in Nat /\ held + queued <= pos /\ pos = held - block + size
  BY <1>1, <1>6, <1>8
<1>10. pos = held + 1 /\ queued = 1
  <2> HIDE DEF held, block, size, queued, pos
  <2> QED BY <1>1, <1>2, <1>3, <1>9
<1> QED BY <1>5, <1>7, <1>10

\* A consecutive frame in sequence is collected.
LEMMA HandCollect ==
    ASSUME SequenceInv, TypeOK', BlocksFit, NEW s \in Station, Handshake(s), Collect(Peer(s))
    PROVE  Handshake(s)'
<1> DEFINE p == Peer(s)
           b == asm[p].buf
           q == rx[p]
           f == Head(q)
           r == Tail(q)
           e == Extended(p, f)
           c == [id |-> f.id, pos |-> f.pos]
           size == BlockSize[p]
<1>0. p \in Station /\ p # s /\ Peer(p) = s /\ TypeOK /\ size \in Nat
  BY PeerFacts, EndsType DEF SequenceInv
<1>1. /\ mode[p] = "collecting" /\ Pending(p, "CF") /\ q # <<>> /\ f.kind = "CF"
      /\ Len(b) + 1 < asm[p].len
  BY DEF Collect, Pending
<1>2. /\ q \in Seq(Frame) /\ b \in Seq(Chunk) /\ b # <<>> /\ Len(b) \in Nat \ {0}
      /\ asm[p].block \in Nat /\ asm[p].len \in Nat /\ tx[s].pos \in Nat /\ tx[s].block \in Nat
  BY <1>0, <1>1, EndsType, CollectingFacts, TxFieldTypes, EmptySeq
<1>3. /\ r \in Seq(Frame) /\ Len(q) \in Nat \ {0} /\ Len(r) = Len(q) - 1 /\ q[1] = f
      /\ \A i \in 1 .. Len(q) - 1 : r[i] = q[i + 1]
  BY <1>1, <1>2, TailElements
<1>4. c \in Chunk /\ c.id = f.id /\ c.pos = f.pos
  BY <1>0, <1>1, HeadType DEF Chunk
<1>5. /\ e.buf = Append(b, c) /\ e.len = asm[p].len
      /\ e.block = IF BlockComplete(p) THEN 0 ELSE asm[p].block + 1
  BY <1>0, <1>1, ExtendedType DEF Extended, BlockComplete
<1>6. UNCHANGED <<mode, tx, sent>> /\ asm'[p] = e
  BY <1>0 DEF Collect, TypeOK
<1>7. Len(e.buf) = Len(b) + 1 /\ e.buf[1] = b[1]
  BY <1>2, <1>4, <1>5, AppendElements
<1>8. \A i \in 1 .. Len(rx[s]) : rx[s][i].kind # "FC"
  BY <1>1 DEF Handshake, FlowFits
<1> HIDE DEF e, c, f
<1>9. Working(s)' <=> Working(s)
  BY <1>6, <1>7 DEF Working, Calls
<1>10. \A top \in Nat : Ordered(b, q, top) => Ordered(e.buf, r, top)
  BY <1>1, <1>2, <1>4, <1>5, PieceCollected DEF f
<1>11. SenderFits(s)'
  BY <1>6, <1>9 DEF Handshake, SenderFits, Calls
<1>12. rx'[p] = r => FirstLast(s)'
  <2>1. \A i \in 1 .. Len(r) : i + 1 \in 1 .. Len(q) /\ r[i] = q[i + 1] /\ (i + 1 = Len(q) => i = Len(r))
    BY <1>3
  <2> QED BY <1>6, <2>1 DEF Handshake, FirstLast
<1>13. CASE BlockComplete(p)
  <2>1. /\ Working(s) /\ mode[s] = "calling"
        /\ tx[s].pos = Len(b) + 1 /\ Len(q) = 1
    BY <1>1, <1>13, BlockEndsTogether
  <2>2. rx'[p] = r /\ rx'[s] = Append(rx[s], Continue(p))
    <3>1. rx' = [rx EXCEPT ![p] = Tail(rx[p]), ![s] = Append(rx[s], Continue(p))]
      BY <1>0, <1>13 DEF Collect, TakeAndTransmit, TypeOK
    <3> QED BY <1>0, <3>1 DEF TypeOK
  <2>3. r = <<>> /\ e.block = 0
    <3>1. Len(r) = 0
      BY <1>3, <2>1
    <3>2. ASSUME NEW t \in Seq(Frame), Len(t) = 0 PROVE t = <<>>
      BY <3>2, EmptySeq
    <3>3. r = <<>>
      BY <1>3, <3>1, <3>2
    <3> QED BY <1>5, <1>13, <3>3
  <2>4. FlowFits(s)'
    <3>1. Continue(p) \in Frame /\ rx[s] \in Seq(Frame)
      BY <1>0, ContinueFields, EndsType
    <3>2. /\ Len(rx'[s]) = Len(rx[s]) + 1 /\ rx'[s][Len(rx[s]) + 1] = Continue(p) /\ Len(rx[s]) \in Nat
          /\ \A i \in 1 .. Len(rx[s]) : rx'[s][i] = rx[s][i]
      BY <2>2, <3>1, AppendElements
    <3>3. \A i \in 1 .. Len(rx'[s]) :
            rx'[s][i].kind = "FC" => i = Len(rx[s]) + 1 /\ rx'[s][i] = Continue(p)
      BY <1>8, <3>2
    <3>4. mode'[s] = "calling" /\ Working(s)' /\ rx'[p] = <<>> /\ Len(asm'[p].buf) = tx'[s].pos
          /\ asm'[p].block = 0
      BY <1>6, <1>7, <1>9, <2>1, <2>2, <2>3
    <3> QED BY <3>3, <3>4 DEF FlowFits, Continue, FlowControl
  <2>5. InStep(s)'
    <3>1. asm[p].len = tx[s].len + 1 /\ Ordered(b, q, tx[s].pos)
      BY <2>1 DEF Handshake, InStep
    <3>2. Ordered(e.buf, r, tx[s].pos)
      BY <1>2, <1>10, <3>1
    <3>3. rx'[p] = <<>>
      BY <2>2, <2>3
    <3>4. \A i \in 1 .. Len(rx'[p]) : rx'[p][i].kind = "CF"
      BY <3>3
    <3>5. mode'[s] = "calling" /\ tx'[s].pos = Len(asm'[p].buf) /\ asm'[p].block = 0
      BY <1>6, <1>7, <2>1, <2>3
    <3> QED BY <1>5, <1>6, <2>2, <3>1, <3>2, <3>3, <3>4, <3>5 DEF InStep
  <2>6. LeftBehind(s)'
    BY <1>9, <2>1 DEF LeftBehind
  <2> QED BY <1>11, <1>12, <2>2, <2>4, <2>5, <2>6 DEF Handshake
<1>14. CASE ~BlockComplete(p)
  <2>1. rx'[p] = r /\ rx'[s] = rx[s] /\ e.block = asm[p].block + 1
    BY <1>0, <1>5, <1>14 DEF Collect, Take, TypeOK
  <2>2. Len(e.buf) - e.block + size = Len(b) - asm[p].block + size
    <3> DEFINE held == Len(b)
               block == asm[p].block
    <3>1. /\ held \in Nat /\ block \in Nat /\ size \in Nat
          /\ Len(e.buf) = held + 1 /\ e.block = block + 1
      BY <1>0, <1>2, <1>7, <2>1
    <3> HIDE DEF held, block, size
    <3>2. (held + 1) - (block + 1) + size = held - block + size
      BY <3>1
    <3> QED BY <3>1, <3>2 DEF held, block
  <2>3. FlowFits(s)'
    BY <1>8, <2>1 DEF FlowFits
  <2>4. InStep(s)'
    <3> SUFFICES ASSUME Working(s)
                 PROVE  /\ \A i \in 1 .. Len(r) : r[i].kind = "CF"
                        /\ asm[p].len = tx[s].len + 1
                        /\ Ordered(e.buf, r, tx[s].pos)
                        /\ mode[s] = "sending" /\ size > 0
                             => tx[s].pos + tx[s].block = Len(e.buf) - e.block + size
                        /\ mode[s] = "calling" => size > 0 /\ tx[s].pos = Len(e.buf) - e.block + size
      BY <1>5, <1>6, <1>9, <2>1 DEF InStep, BlockEnd
    <3>1. /\ \A i \in 1 .. Len(q) : q[i].kind = "CF"
          /\ asm[p].len = tx[s].len + 1
          /\ Ordered(b, q, tx[s].pos)
          /\ mode[s] = "sending" /\ size > 0 => tx[s].pos + tx[s].block = Len(b) - asm[p].block + size
          /\ mode[s] = "calling" => size > 0 /\ tx[s].pos = Len(b) - asm[p].block + size
      BY <1>1 DEF Handshake, InStep, BlockEnd
    <3>2. \A i \in 1 .. Len(r) : r[i].kind = "CF"
      BY <1>3, <3>1
    <3> QED BY <1>2, <1>10, <2>2, <3>1, <3>2
  <2>5. LeftBehind(s)'
    <3> SUFFICES ASSUME ~Working(s)
                 PROVE  /\ Ordered(e.buf, r, asm[p].len)
                        /\ \/ size = 0
                           \/ Len(e.buf) - e.block + size >= asm[p].len
                           \/ \A j \in 1 .. Len(r) : r[j].kind = "CF" => e.block + j < size
      BY <1>5, <1>6, <1>9, <2>1 DEF LeftBehind, BlockEnd
    <3>1. /\ Ordered(b, q, asm[p].len)
          /\ \/ size = 0
             \/ Len(b) - asm[p].block + size >= asm[p].len
             \/ \A j \in 1 .. Len(q) : q[j].kind = "CF" => asm[p].block + j < size
      BY <1>1 DEF Handshake, LeftBehind, BlockEnd
    <3>2. \A j \in 1 .. Len(r) : /\ j + 1 \in 1 .. Len(q) /\ r[j] = q[j + 1]
                                 /\ e.block + j = asm[p].block + (j + 1)
      <4> SUFFICES ASSUME NEW j \in 1 .. Len(r)
                   PROVE  /\ j + 1 \in 1 .. Len(q) /\ r[j] = q[j + 1]
                          /\ e.block + j = asm[p].block + (j + 1)
        OBVIOUS
      <4>1. j + 1 \in 1 .. Len(q) /\ r[j] = q[j + 1]
        BY <1>3
      <4> DEFINE block == asm[p].block
      <4>2. block \in Nat /\ e.block = block + 1 /\ j \in Int
        BY <1>2, <2>1
      <4> HIDE DEF block
      <4>3. (block + 1) + j = block + (j + 1)
        BY <4>2
      <4> QED BY <4>1, <4>2, <4>3 DEF block
    <3> QED BY <1>2, <1>10, <2>2, <3>1, <3>2
  <2> QED BY <1>11, <1>12, <2>1, <2>3, <2>4, <2>5 DEF Handshake
<1> QED BY <1>13, <1>14

\* What a station does in the prompt system.
PromptStep(s) == CallStep(s) \/ SendStep(s) \/ ReceiveStep(s) \/ Fault(s) \/ PromptTimeout(s)

\* The sender's steps, those of its own receptions included, keep the handshake.
LEMMA HandBySender ==
    ASSUME SequenceInv, TypeOK', BlocksFit, NEW s \in Station, Handshake(s), PromptStep(s)
    PROVE  Handshake(s)'
<1> DEFINE p == Peer(s)
<1>0. p \in Station /\ p # s /\ Peer(p) = s /\ TypeOK
  BY PeerFacts DEF SequenceInv
<1>1. CASE SendSingle(s)
  <2> DEFINE f == SingleFrame(Len(sent[s]) + 1)
  <2>1. f \in Frame /\ f.kind = "SF"
    BY <1>0, EndsType, FrameTypes DEF SingleFrame
  <2>2. /\ mode' = mode /\ mode[s] = "idle" /\ asm' = asm
        /\ rx'[s] = rx[s] /\ rx'[p] = Append(rx[p], f)
    BY <1>0, <1>1 DEF SendSingle, Transmit, TypeOK
  <2> HIDE DEF f
  <2> QED BY <1>0, <2>1, <2>2, SenderAside DEF Calls
<1>2. CASE Listen(s) \/ ListenTimeout(s) \/ CollectTimeout(s)
  <2>1. /\ mode'[p] = mode[p] /\ UNCHANGED <<rx, asm>>
        /\ mode[s] \in {"idle", "listening", "collecting"} /\ mode'[s] \in {"idle", "listening"}
    BY <1>0, <1>2 DEF Listen, ListenTimeout, CollectTimeout, TypeOK
  <2> QED BY <1>0, <2>1, SenderAside DEF Calls
<1>3. CASE SkipFrame(s) \/ Lose(s)
  <2>1. /\ UNCHANGED <<mode, tx, asm, sent>>
        /\ \E m \in 1 .. Len(rx[s]) :
              rx' = [rx EXCEPT ![s] = Without(rx[s], m)] \/ (m = 1 /\ rx' = [rx EXCEPT ![s] = Tail(rx[s])])
    <3>1. CASE SkipFrame(s)
      <4>1. rx[s] # <<>> /\ rx' = [rx EXCEPT ![s] = Tail(rx[s])]
        BY <3>1 DEF SkipFrame, Take
      <4>2. 1 \in 1 .. Len(rx[s])
        BY <1>0, <4>1, EndsType, TailElements
      <4> QED BY <3>1, <4>1, <4>2 DEF SkipFrame
    <3>2. CASE Lose(s)
      BY <3>2 DEF Lose
    <3> QED BY <1>3, <3>1, <3>2
  <2>2. PICK m \in 1 .. Len(rx[s]) :
          rx' = [rx EXCEPT ![s] = Without(rx[s], m)] \/ (m = 1 /\ rx' = [rx EXCEPT ![s] = Tail(rx[s])])
    BY <2>1
  <2>3. rx'[p] = rx[p] /\ (rx'[s] = Without(rx[s], m) \/ (m = 1 /\ rx'[s] = Tail(rx[s])))
    BY <1>0, <2>2 DEF TypeOK
  <2> QED BY <1>0, <2>1, <2>3, FlowsFewer
<1>4. CASE FlowWait(s) \/ FlowRefused(s)
  <2>1. Pending(s, "FC") /\ Head(rx[s]).status # "CTS"
    BY <1>4 DEF FlowWait, FlowRefused
  <2> QED BY <1>0, <2>1, FlowHead
<1>5. CASE ReceiveStep(s)
  <2>1. /\ mode[s] \in {"listening", "collecting"} /\ mode'[p] = mode[p]
        /\ mode'[s] \in {"idle", "listening", "collecting"} /\ asm'[p] = asm[p] /\ rx[s] # <<>>
        /\ Take(s) \/ TakeAndTransmit(s, Continue(s))
    BY <1>0, <1>5 DEF ReceiveStep, ReceiveSingle, ReceiveFirst, IgnoreStray, IgnoreWhileCollecting,
                      OutOfSequence, Collect, CollectLast, Pending, TypeOK
  <2>2. ~Calls(s) /\ ~Calls(s)'
    BY <2>1 DEF Calls
  <2>3. CASE Take(s)
    <3>1. rx'[s] = Tail(rx[s]) /\ rx'[p] = rx[p]
      BY <1>0, <2>3 DEF Take, TypeOK
    <3> QED BY <1>0, <2>1, <2>2, <3>1, SenderAside
  <2>4. CASE TakeAndTransmit(s, Continue(s))
    <3>1. rx'[s] = Tail(rx[s]) /\ rx'[p] = Append(rx[p], Continue(s))
      <4>1. rx' = [rx EXCEPT ![s] = Tail(rx[s]), ![p] = Append(rx[p], Continue(s))]
        BY <1>0, <2>4 DEF TakeAndTransmit, TypeOK
      <4> QED BY <1>0, <4>1 DEF TypeOK
    <3>2. Continue(s) \in Frame /\ Continue(s).kind \in {"SF", "FC"}
      BY ContinueFields
    <3> QED BY <1>0, <2>1, <2>2, <3>1, <3>2, SenderAside
  <2> QED BY <2>1, <2>3, <2>4
<1>6. CASE \E n \in Lengths : SendFirst(s, n)
  BY <1>6, HandFirst
<1>7. CASE FlowContinue(s) \/ SendConsecutive(s) \/ SendError(s) \/ (Quiet(s) /\ FlowTimeout(s))
  BY <1>7, HandContinue, HandConsecutive, HandSendError, HandFlowTimeout
<1> QED BY <1>1, <1>2, <1>3, <1>4, <1>5, <1>6, <1>7
        DEF PromptStep, CallStep, SendStep, Fault, PromptTimeout

\* The receiver's steps, those of its own transmissions included, keep it too.
LEMMA HandByReceiver ==
    ASSUME SequenceInv, TypeOK', BlocksFit, NEW s \in Station, Handshake(s), PromptStep(Peer(s))
    PROVE  Handshake(s)'
<1> DEFINE p == Peer(s)
<1>0. p \in Station /\ p # s /\ Peer(p) = s /\ TypeOK
  BY PeerFacts DEF SequenceInv
<1>1. HasFlow(s) => mode[p] = "collecting" /\ rx[p] = <<>> /\ rx[s] # <<>>
  <2>1. HasFlow(s) => Working(s) /\ rx[p] = <<>> /\ rx[s] # <<>>
    BY DEF HasFlow, Handshake, FlowFits
  <2> QED BY <2>1 DEF Working
<1>2. CASE SendSingle(p) \/ SendConsecutive(p) \/ \E n \in Lengths : SendFirst(p, n)
  <2>1. /\ mode'[s] = mode[s] /\ tx'[s] = tx[s] /\ sent'[s] = sent[s]
        /\ mode[p] # "collecting" /\ mode'[p] # "collecting"
    BY <1>0, <1>2 DEF SendSingle, SendConsecutive, SendFirst, TypeOK
  <2>2. \E f \in Frame : f.kind # "FC" /\ Transmit(p, f)
    <3>1. CASE SendSingle(p)
      <4>1. SingleFrame(Len(sent[p]) + 1) \in Frame /\ SingleFrame(Len(sent[p]) + 1).kind # "FC"
        BY <1>0, EndsType, FrameTypes DEF SingleFrame
      <4> QED BY <3>1, <4>1 DEF SendSingle
    <3>2. CASE SendConsecutive(p)
      <4> DEFINE f == ConsecutiveFrame(tx[p].id, tx[p].pos, tx[p].seq)
      <4>1. f \in Frame /\ f.kind # "FC"
        BY <1>0, TxFieldTypes, FrameTypes DEF ConsecutiveFrame
      <4> QED BY <3>2, <4>1 DEF SendConsecutive
    <3>3. ASSUME NEW n \in Lengths, SendFirst(p, n) PROVE \E f \in Frame : f.kind # "FC" /\ Transmit(p, f)
      <4> DEFINE f == FirstFrame(Len(sent[p]) + 1, n)
      <4>1. f \in Frame /\ f.kind # "FC"
        BY <1>0, EndsType, FrameTypes, SizeAssumption DEF FirstFrame
      <4> QED BY <3>3, <4>1 DEF SendFirst
    <3> QED BY <1>2, <3>1, <3>2, <3>3
  <2>3. PICK f \in Frame : f.kind # "FC" /\ Transmit(p, f)
    BY <2>2
  <2>4. rx'[p] = rx[p] /\ rx'[s] = Append(rx[s], f)
    BY <1>0, <2>3 DEF Transmit, TypeOK
  <2> QED BY <1>0, <1>1, <2>1, <2>3, <2>4, ReceiverAside
<1>3. CASE \/ Listen(p) \/ ListenTimeout(p) \/ SendError(p) \/ FlowTimeout(p)
           \/ (Quiet(p) /\ CollectTimeout(p))
  <2>1. /\ mode'[s] = mode[s] /\ mode'[p] # "collecting" /\ UNCHANGED <<rx, tx, sent>>
    BY <1>0, <1>3 DEF Listen, ListenTimeout, SendError, FlowTimeout, CollectTimeout, TypeOK
  <2>2. ~HasFlow(s)
    BY <1>0, <1>1, <1>3 DEF Listen, ListenTimeout, SendError, FlowTimeout, Quiet
  <2> QED BY <1>0, <2>1, <2>2, ReceiverAside
<1>4. CASE \/ SkipFrame(p) \/ FlowContinue(p) \/ FlowWait(p) \/ FlowRefused(p)
           \/ ReceiveSingle(p) \/ IgnoreStray(p) \/ OutOfSequence(p) \/ CollectLast(p)
  <2>1. /\ mode'[s] = mode[s] /\ mode'[p] # "collecting" /\ tx'[s] = tx[s] /\ sent' = sent
        /\ rx[p] # <<>> /\ Take(p)
    BY <1>0, <1>4 DEF SkipFrame, FlowContinue, FlowWait, FlowRefused, ReceiveSingle, IgnoreStray,
                      OutOfSequence, CollectLast, Pending, TypeOK
  <2>2. rx'[p] = Tail(rx[p]) /\ rx'[s] = rx[s]
    BY <1>0, <2>1 DEF Take, TypeOK
  <2> QED BY <1>0, <1>1, <2>1, <2>2, ReceiverAside
<1>5. CASE ReceiveFirst(p) \/ IgnoreWhileCollecting(p) \/ Collect(p) \/ Lose(p)
  BY <1>5, HandReceiveFirst, HandIgnore, HandCollect, HandLose
<1> QED BY <1>2, <1>3, <1>4, <1>5
        DEF PromptStep, CallStep, SendStep, ReceiveStep, Fault, PromptTimeout

\* Prompt stations behave as stations do.
LEMMA PromptIsNext == [PromptNext]_vars => [Next]_vars
  BY DEF PromptNext, Next, PromptTimeout, Timeout

\* At the start nothing is on the way.
LEMMA HandInit == Init => HandInv
<1> SUFFICES ASSUME Init, NEW s \in Station PROVE Handshake(s)
  BY DEF HandInv
<1>1. /\ rx[s] = <<>> /\ rx[Peer(s)] = <<>> /\ mode[s] = "idle" /\ mode[Peer(s)] = "idle"
  BY PeerFacts DEF Init
<1> QED BY <1>1 DEF Handshake, FirstLast, FlowFits, SenderFits, InStep, LeftBehind, Calls, Working

\* Every step of prompt stations keeps the handshake, in both directions.
LEMMA HandStep ==
    ASSUME BlocksFit
    PROVE  SequenceInv /\ HandInv /\ [PromptNext]_vars => HandInv'
<1> SUFFICES ASSUME SequenceInv, HandInv, [PromptNext]_vars, NEW s \in Station PROVE Handshake(s)'
  BY DEF HandInv
<1>0. Handshake(s) /\ TypeOK' /\ TypeOK
  BY PromptIsNext, SequenceStep DEF HandInv, SequenceInv
<1>1. CASE UNCHANGED vars
  BY <1>0, <1>1, HandSame DEF vars
<1>2. ASSUME NEW u \in Station, PromptStep(u) PROVE Handshake(s)'
  <2>1. u = s \/ u = Peer(s)
    BY DEF Station, Peer
  <2> QED BY <1>0, <1>2, <2>1, HandBySender, HandByReceiver
<1> QED BY <1>1, <1>2 DEF PromptNext, PromptStep

\* A permission to send is queued only for a station that waits for one, and
\* never two of them (_send_flow_control, _await_flow_control): for any block
\* size the flow control byte can hold, any losses and any refused frame.
THEOREM NoStaleFlowAlways ==
    ASSUME BlocksFit
    PROVE  PromptSpec => []NoStaleFlow
<1>1. Init => SequenceInv /\ HandInv
  BY SequenceInit, HandInit
<1>2. SequenceInv /\ HandInv /\ [PromptNext]_vars => SequenceInv' /\ HandInv'
  BY PromptIsNext, SequenceStep, HandStep
<1>3. HandInv => NoStaleFlow
  BY DEF HandInv, Handshake, FlowFits, NoStaleFlow
<1> QED BY <1>1, <1>2, <1>3, PTL DEF PromptSpec

-----------------------------------------------------------------------------
(* What receive() returns.                                                 *)

\* The receiver of a station, seen from the other end.
LEMMA ReceiverSide ==
    ASSUME HandInv, NEW r \in Station
    PROVE  Handshake(Peer(r)) /\ Peer(r) \in Station /\ Peer(Peer(r)) = r
  BY PeerFacts DEF HandInv

\* The last consecutive frame completes the payload that was sent.
LEMMA CollectedWhole ==
    ASSUME SequenceInv, HandInv, NEW r \in Station, CollectLast(r)
    PROVE  LET k == asm[r].buf[1].id IN
           /\ k \in 1 .. Len(sent[Peer(r)]) /\ sent[Peer(r)][k] \in Nat
           /\ Extended(r, Head(rx[r])).buf = Payload(k, sent[Peer(r)][k])
<1> DEFINE s == Peer(r)
           b == asm[r].buf
           q == rx[r]
           f == Head(q)
           c == [id |-> f.id, pos |-> f.pos]
           k == b[1].id
<1>0. s \in Station /\ Peer(s) = r /\ Handshake(s) /\ TypeOK
  BY ReceiverSide DEF SequenceInv
<1>1. mode[r] = "collecting" /\ Pending(r, "CF") /\ q # <<>> /\ f.kind = "CF" /\ Len(b) + 1 >= asm[r].len
  BY DEF CollectLast, Pending
<1>2. /\ q \in Seq(Frame) /\ b \in Seq(Chunk) /\ Len(b) \in Nat /\ asm[r].len \in Nat
      /\ tx[s].pos \in Nat /\ tx[s].len \in Nat
  BY <1>0, EndsType, TxFieldTypes
<1>3. /\ b # <<>> /\ k \in 1 .. Len(sent[s]) /\ Len(b) < asm[r].len
      /\ asm[r].len = sent[s][k] + 1
  BY <1>1, CollectingFacts
<1>4. c \in Chunk /\ c.id = f.id /\ c.pos = f.pos
  BY <1>0, <1>1, HeadType DEF Chunk
<1>5. Extended(r, f).buf = Append(b, c)
  BY <1>0, <1>1, ExtendedType
<1>6. Ordered(b, q, asm[r].len)
  <2>1. CASE Working(s)
    <3>1. /\ Ordered(b, q, tx[s].pos) /\ asm[r].len = tx[s].len + 1 /\ tx[s].pos \in 1 .. tx[s].len
      BY <1>0, <2>1 DEF Handshake, InStep, SenderFits, Working
    <3> QED BY <1>2, <3>1, MoreRoom
  <2>2. CASE ~Working(s)
    BY <1>0, <1>1, <2>2 DEF Handshake, LeftBehind
  <2> QED BY <2>1, <2>2
<1>7. asm[r].len = Len(b) + 1
  BY <1>1, <1>2, <1>3
<1>8. sent[s][k] \in Nat /\ k \in Nat
  <2>1. sent[s] \in Seq(Nat) /\ Len(sent[s]) \in Nat
    BY <1>0, EndsType
  <2> QED BY <1>3, <2>1
<1> DEFINE n == sent[s][k]
           m == Len(b)
           l == asm[r].len
<1>9. n = m
  <2>1. n \in Nat /\ m \in Nat /\ l = n + 1 /\ l = m + 1
    BY <1>2, <1>3, <1>7, <1>8
  <2> HIDE DEF n, m, l
  <2> QED BY <2>1
<1> HIDE DEF b, q, c, f, k
<1>10. Append(b, c) = Payload(b[1].id, Len(b))
  BY <1>1, <1>2, <1>3, <1>4, <1>6, <1>7, <1>8, Whole DEF f, k
<1> QED BY <1>3, <1>5, <1>8, <1>9, <1>10 DEF b, k, f, q

\* Only the two ways to complete a payload hand one out; the others may send one.
LEMMA DeliverySteps ==
    ASSUME SequenceInv, HandInv, [PromptNext]_vars
    PROVE  \/ UNCHANGED <<sent, delivered>>
           \/ /\ UNCHANGED delivered
              /\ \E s \in Station, n \in Nat : sent' = [sent EXCEPT ![s] = Append(@, n)]
           \/ /\ UNCHANGED sent
              /\ \E r \in Station :
                    /\ ReceiveSingle(r) \/ CollectLast(r)
                    /\ \E k \in 1 .. Len(sent[Peer(r)]) :
                          /\ sent[Peer(r)][k] \in Nat
                          /\ ReceiveSingle(r) => k = Head(rx[r]).id
                          /\ CollectLast(r) => k = asm[r].buf[1].id
                          /\ delivered' = [delivered EXCEPT ![r] =
                                              Append(@, Payload(k, sent[Peer(r)][k]))]
<1>0. TypeOK
  BY DEF SequenceInv
<1>1. CASE UNCHANGED vars
  BY <1>1 DEF vars
<1>2. ASSUME NEW s \in Station, CallStep(s)
      PROVE  /\ UNCHANGED delivered
             /\ UNCHANGED sent \/ \E n \in Nat : sent' = [sent EXCEPT ![s] = Append(@, n)]
  <2>1. 0 \in Nat /\ \A n \in Lengths : n \in Nat
    BY SizeAssumption
  <2> QED BY <1>2, <2>1 DEF CallStep, SendSingle, SendFirst, Listen
<1>3. ASSUME NEW s \in Station, \/ SendStep(s) \/ Fault(s) \/ PromptTimeout(s) \/ ReceiveFirst(s)
                                \/ IgnoreStray(s) \/ IgnoreWhileCollecting(s) \/ OutOfSequence(s)
                                \/ Collect(s)
      PROVE  UNCHANGED <<sent, delivered>>
  BY <1>3 DEF SendStep, SkipFrame, FlowContinue, FlowWait, FlowRefused, SendConsecutive,
              Fault, Lose, SendError, PromptTimeout, FlowTimeout, ListenTimeout, CollectTimeout,
              ReceiveFirst, IgnoreStray, IgnoreWhileCollecting, OutOfSequence, Collect
<1>4. ASSUME NEW r \in Station, ReceiveSingle(r)
      PROVE  /\ UNCHANGED sent
             /\ \E k \in 1 .. Len(sent[Peer(r)]) :
                   /\ sent[Peer(r)][k] \in Nat /\ k = Head(rx[r]).id /\ ~CollectLast(r)
                   /\ delivered' = [delivered EXCEPT ![r] = Append(@, Payload(k, sent[Peer(r)][k]))]
  <2> DEFINE k == Head(rx[r]).id
  <2>1. k \in 1 .. Len(sent[Peer(r)]) /\ sent[Peer(r)][k] = 0
    BY <1>4, FaithfulHead DEF ReceiveSingle, Pending, SequenceInv, Faithful
  <2>2. ~CollectLast(r)
    BY <1>4 DEF ReceiveSingle, CollectLast
  <2>3. UNCHANGED sent /\ delivered' = [delivered EXCEPT ![r] = Append(@, Payload(k, 0))]
    BY <1>4 DEF ReceiveSingle
  <2>4. 0 \in Nat
    OBVIOUS
  <2> HIDE DEF k
  <2> QED BY <2>1, <2>2, <2>3, <2>4 DEF k
<1>5. ASSUME NEW r \in Station, CollectLast(r)
      PROVE  /\ UNCHANGED sent
             /\ \E k \in 1 .. Len(sent[Peer(r)]) :
                   /\ sent[Peer(r)][k] \in Nat /\ k = asm[r].buf[1].id /\ ~ReceiveSingle(r)
                   /\ delivered' = [delivered EXCEPT ![r] = Append(@, Payload(k, sent[Peer(r)][k]))]
  <2> DEFINE k == asm[r].buf[1].id
             e == Extended(r, Head(rx[r])).buf
  <2>1. /\ k \in 1 .. Len(sent[Peer(r)]) /\ sent[Peer(r)][k] \in Nat
        /\ e = Payload(k, sent[Peer(r)][k])
    BY <1>5, CollectedWhole
  <2>2. ~ReceiveSingle(r)
    BY <1>5 DEF ReceiveSingle, CollectLast
  <2>3. UNCHANGED sent /\ delivered' = [delivered EXCEPT ![r] = Append(@, e)]
    BY <1>5 DEF CollectLast
  <2> HIDE DEF e, k
  <2> QED BY <2>1, <2>2, <2>3 DEF k
<1> QED BY <1>1, <1>2, <1>3, <1>4, <1>5 DEF PromptNext, ReceiveStep

\* One of the payloads of these lengths, whole.
OneOf(lens, p) == \E k \in 1 .. Len(lens) : p = Payload(k, lens[k])

\* A payload that was whole stays so when more payloads are sent.
LEMMA IntactStays ==
    ASSUME TypeOK, NEW s \in Station, NEW n \in Nat, sent' = [sent EXCEPT ![s] = Append(@, n)],
           NEW r \in Station, NEW p, OneOf(sent[Peer(r)], p)
    PROVE  OneOf(sent'[Peer(r)], p)
<1>1. PICK k \in 1 .. Len(sent[Peer(r)]) : p = Payload(k, sent[Peer(r)][k])
  BY DEF OneOf
<1>2. k \in 1 .. Len(sent'[Peer(r)]) /\ sent'[Peer(r)][k] = sent[Peer(r)][k]
  BY SentGrows, PeerFacts
<1> QED BY <1>1, <1>2 DEF OneOf

\* Everything receive() returned is whole.
LEMMA IntactStep ==
    ASSUME BlocksFit
    PROVE  SequenceInv /\ HandInv /\ DeliveredIntact /\ [PromptNext]_vars => DeliveredIntact'
<1> SUFFICES ASSUME SequenceInv, HandInv, DeliveredIntact, [PromptNext]_vars,
                    NEW r \in Station, NEW i \in 1 .. Len(delivered'[r])
             PROVE  OneOf(sent'[Peer(r)], delivered'[r][i])
  BY DEF DeliveredIntact, Intact, OneOf
<1>0. TypeOK
  BY DEF SequenceInv
<1>1. CASE UNCHANGED <<sent, delivered>>
  BY <1>1 DEF DeliveredIntact, Intact, OneOf
<1>2. ASSUME UNCHANGED delivered, NEW s \in Station, NEW n \in Nat,
             sent' = [sent EXCEPT ![s] = Append(@, n)]
      PROVE  OneOf(sent'[Peer(r)], delivered'[r][i])
  <2>1. OneOf(sent[Peer(r)], delivered[r][i])
    BY <1>2 DEF DeliveredIntact, Intact, OneOf
  <2>2. OneOf(sent'[Peer(r)], delivered[r][i])
    BY <1>0, <1>2, <2>1, IntactStays
  <2> QED BY <1>2, <2>2
<1>3. ASSUME UNCHANGED sent, NEW u \in Station, NEW k \in 1 .. Len(sent[Peer(u)]),
             delivered' = [delivered EXCEPT ![u] = Append(@, Payload(k, sent[Peer(u)][k]))],
             sent[Peer(u)][k] \in Nat
      PROVE  OneOf(sent'[Peer(r)], delivered'[r][i])
  <2> DEFINE w == Payload(k, sent[Peer(u)][k])
  <2>1. w \in Seq(Chunk)
    <3>1. Len(sent[Peer(u)]) \in Nat
      BY <1>0, EndsType, PeerFacts
    <3>2. k \in Nat
      BY <3>1
    <3> QED BY <1>3, <3>2, PayloadType
  <2>2. /\ delivered[u] \in Seq(Seq(Chunk)) /\ delivered[r] \in Seq(Seq(Chunk))
        /\ delivered' = [delivered EXCEPT ![u] = Append(delivered[u], w)]
        /\ u \in DOMAIN delivered /\ r \in DOMAIN delivered
    BY <1>0, <1>3 DEF TypeOK
  <2>3. OneOf(sent'[Peer(u)], w)
    BY <1>3 DEF OneOf
  <2> HIDE DEF w
  <2>4. CASE r = u /\ i = Len(delivered[u]) + 1
    <3>1. delivered'[r][i] = w
      BY <2>1, <2>2, <2>4
    <3> QED BY <2>3, <2>4, <3>1
  <2>5. CASE ~(r = u /\ i = Len(delivered[u]) + 1)
    <3>1. i \in 1 .. Len(delivered[r]) /\ delivered'[r][i] = delivered[r][i]
      <4>1. CASE r = u
        BY <2>1, <2>2, <2>5, <4>1
      <4>2. CASE r # u
        BY <2>1, <2>2, <2>5, <4>2
      <4> QED BY <4>1, <4>2
    <3> QED BY <1>3, <3>1 DEF DeliveredIntact, Intact, OneOf
  <2> QED BY <2>4, <2>5
<1> QED BY <1>1, <1>2, <1>3, DeliverySteps

\* "Receive and reassemble one complete payload" (IsoTpHandler.receive): with
\* stations whose timers wait for what is still on the way, whatever is lost
\* and however many messages are abandoned half way, what receive() returns is
\* one of the payloads that were sent, whole and unmixed.  The sequence number
\* cannot show that alone: it goes round after SequenceMod frames.
THEOREM DeliveredIntactAlways ==
    ASSUME BlocksFit
    PROVE  PromptSpec => []DeliveredIntact
<1>1. Init => SequenceInv /\ HandInv /\ DeliveredIntact
  BY SequenceInit, HandInit DEF Init, DeliveredIntact
<1>2. SequenceInv /\ HandInv /\ DeliveredIntact /\ [PromptNext]_vars
        => SequenceInv' /\ HandInv' /\ DeliveredIntact'
  BY PromptIsNext, SequenceStep, HandStep, IntactStep
<1> QED BY <1>1, <1>2, PTL DEF PromptSpec

-----------------------------------------------------------------------------
(* The channel: payloads arrive in the order in which they were sent.      *)

\* The frames that begin a payload.
Opening(f) == f.kind \in {"SF", "FF"}

\* Payloads begin in the order of their numbers, all of them after number low.
Rising(q, low) ==
    \A i \in 1 .. Len(q) : Opening(q[i]) =>
        /\ low < q[i].id
        /\ \A j \in 1 .. i - 1 : Opening(q[j]) => q[j].id < q[i].id

\* The newest payload s was handed out, and the newest it has seen begin.
LastNumber(s) ==
    IF delivered[s] = <<>> THEN 0 ELSE Number(delivered[s][Len(delivered[s])])
Seen(s) == IF mode[s] = "collecting" THEN asm[s].buf[1].id ELSE LastNumber(s)

Fresh(s) ==
    /\ Rising(rx[s], Seen(s))
    /\ mode[s] = "collecting" => LastNumber(s) < asm[s].buf[1].id

FreshInv == \A s \in Station : Fresh(s)

\* A frame that begins nothing, at the end of the queue.
LEMMA RisingOther ==
    ASSUME NEW q \in Seq(Frame), NEW f \in Frame, NEW low, Rising(q, low), ~Opening(f)
    PROVE  Rising(Append(q, f), low)
<1> DEFINE a == Append(q, f)
<1>1. /\ Len(q) \in Nat /\ Len(a) = Len(q) + 1 /\ a[Len(q) + 1] = f
      /\ \A i \in 1 .. Len(q) : a[i] = q[i]
  BY AppendElements
<1> HIDE DEF a
<1>2. ASSUME NEW i \in 1 .. Len(a), Opening(a[i])
      PROVE  /\ low < a[i].id
             /\ \A j \in 1 .. i - 1 : Opening(a[j]) => a[j].id < a[i].id
  <2>1. i \in 1 .. Len(q) /\ \A j \in 1 .. i - 1 : j \in 1 .. Len(q)
    BY <1>1, <1>2
  <2> QED BY <1>1, <1>2, <2>1 DEF Rising
<1> QED BY <1>2 DEF Rising, a

\* A frame that begins the next payload, at the end of the queue.
LEMMA RisingNext ==
    ASSUME NEW q \in Seq(Frame), NEW f \in Frame, NEW low, Rising(q, low),
           low < f.id, \A i \in 1 .. Len(q) : Opening(q[i]) => q[i].id < f.id
    PROVE  Rising(Append(q, f), low)
<1> DEFINE a == Append(q, f)
<1>1. /\ Len(q) \in Nat /\ Len(a) = Len(q) + 1 /\ a[Len(q) + 1] = f
      /\ \A i \in 1 .. Len(q) : a[i] = q[i]
  BY AppendElements
<1> HIDE DEF a
<1>2. ASSUME NEW i \in 1 .. Len(a), Opening(a[i])
      PROVE  /\ low < a[i].id
             /\ \A j \in 1 .. i - 1 : Opening(a[j]) => a[j].id < a[i].id
  <2>1. \A j \in 1 .. i - 1 : j \in 1 .. Len(q)
    BY <1>1
  <2>2. CASE i \in 1 .. Len(q)
    BY <1>1, <1>2, <2>1, <2>2 DEF Rising
  <2>3. CASE i \notin 1 .. Len(q)
    <3>1. i = Len(q) + 1
      BY <1>1, <2>3
    <3> QED BY <1>1, <2>1, <3>1
  <2> QED BY <2>2, <2>3
<1> QED BY <1>2 DEF Rising, a

\* The head is taken; a payload it begins is the newest one from then on.
LEMMA RisingTail ==
    ASSUME NEW q \in Seq(Frame), q # <<>>, NEW low, Rising(q, low)
    PROVE  /\ Rising(Tail(q), low)
           /\ Opening(Head(q)) => low < Head(q).id /\ Rising(Tail(q), Head(q).id)
<1> DEFINE t == Tail(q)
<1>1. /\ Head(q) = q[1] /\ Len(q) \in Nat \ {0} /\ Len(t) = Len(q) - 1
      /\ \A i \in 1 .. Len(q) - 1 : t[i] = q[i + 1]
  BY TailElements
<1> HIDE DEF t
<1>2. ASSUME NEW i \in 1 .. Len(t), Opening(t[i])
      PROVE  /\ low < t[i].id /\ (Opening(Head(q)) => Head(q).id < t[i].id)
             /\ \A j \in 1 .. i - 1 : Opening(t[j]) => t[j].id < t[i].id
  <2>1. i + 1 \in 1 .. Len(q) /\ i \in 1 .. Len(q) - 1 /\ 1 \in 1 .. (i + 1) - 1
        /\ \A j \in 1 .. i - 1 : j + 1 \in 1 .. (i + 1) - 1 /\ j \in 1 .. Len(q) - 1
    BY <1>1
  <2>2. t[i] = q[i + 1] /\ \A j \in 1 .. i - 1 : t[j] = q[j + 1]
    BY <1>1, <2>1
  <2>3. /\ low < q[i + 1].id
        /\ \A j \in 1 .. (i + 1) - 1 : Opening(q[j]) => q[j].id < q[i + 1].id
    BY <1>2, <2>1, <2>2 DEF Rising
  <2> QED BY <1>1, <2>1, <2>2, <2>3
<1>3. Opening(Head(q)) => low < Head(q).id
  BY <1>1 DEF Rising
<1> QED BY <1>2, <1>3 DEF Rising, t

\* A frame is lost.
LEMMA RisingWithout ==
    ASSUME NEW q \in Seq(Frame), NEW m \in 1 .. Len(q), NEW low, Rising(q, low)
    PROVE  Rising(Without(q, m), low)
<1> DEFINE t == Without(q, m)
           at(i) == IF i < m THEN i ELSE i + 1
<1>1. Len(q) \in Nat /\ Len(t) = Len(q) - 1 /\ \A i \in 1 .. Len(t) : t[i] = q[at(i)]
  <2>1. /\ Len(q) \in Nat /\ Len(t) = Len(q) - 1
        /\ \A i \in 1 .. m - 1 : t[i] = q[i]
        /\ \A i \in m .. Len(q) - 1 : t[i] = q[i + 1]
    BY WithoutElements
  <2> HIDE DEF t
  <2> QED BY <2>1
<1> HIDE DEF t
<1>2. ASSUME NEW i \in 1 .. Len(t), Opening(t[i])
      PROVE  /\ low < t[i].id
             /\ \A j \in 1 .. i - 1 : Opening(t[j]) => t[j].id < t[i].id
  <2>1. at(i) \in 1 .. Len(q)
        /\ \A j \in 1 .. i - 1 : j \in 1 .. Len(t) /\ at(j) \in 1 .. at(i) - 1
    BY <1>1
  <2>2. t[i] = q[at(i)] /\ \A j \in 1 .. i - 1 : t[j] = q[at(j)]
    BY <1>1, <2>1
  <2> HIDE DEF at
  <2> QED BY <1>2, <2>1, <2>2 DEF Rising
<1> QED BY <1>2 DEF Rising, t

\* What follows a number follows an earlier number.
LEMMA RisingLower ==
    ASSUME NEW q \in Seq(Frame), NEW low \in Nat, NEW least \in Nat, least <= low,
           Rising(q, low), \A i \in 1 .. Len(q) : Opening(q[i]) => q[i].id \in Nat
    PROVE  Rising(q, least)
  BY DEF Rising

\* The numbers that frames, buffers and deliveries carry were given to send().
LEMMA NumbersFit ==
    ASSUME SequenceInv, NEW s \in Station
    PROVE  /\ rx[s] \in Seq(Frame)
           /\ \A i \in 1 .. Len(rx[s]) :
                 Opening(rx[s][i]) => rx[s][i].id \in 1 .. Len(sent[Peer(s)])
           /\ LastNumber(s) \in 0 .. Len(sent[Peer(s)])
           /\ Seen(s) \in 0 .. Len(sent[Peer(s)])
           /\ Len(sent[Peer(s)]) \in Nat
<1>1. rx[s] \in Seq(Frame) /\ Len(sent[Peer(s)]) \in Nat /\ delivered[s] \in Seq(Seq(Chunk))
  BY PeerFacts DEF SequenceInv, TypeOK
<1>2. ASSUME NEW i \in 1 .. Len(rx[s]), Opening(rx[s][i])
      PROVE  rx[s][i].id \in 1 .. Len(sent[Peer(s)])
  <2>1. rx[s][i] \in Faithful(s)
    BY DEF SequenceInv, FramesFaithful
  <2> QED BY <1>2, <2>1 DEF Faithful, Opening
<1>3. LastNumber(s) \in 0 .. Len(sent[Peer(s)])
  <2>1. CASE delivered[s] = <<>>
    BY <1>1, <2>1 DEF LastNumber
  <2>2. CASE delivered[s] # <<>>
    <3>1. Len(delivered[s]) \in 1 .. Len(delivered[s])
      BY <1>1, <2>2
    <3> DEFINE p == delivered[s][Len(delivered[s])]
    <3>2. p # <<>> /\ p[1].id \in 1 .. Len(sent[Peer(s)])
      BY <3>1 DEF SequenceInv, DeliveredInSequence
    <3>3. LastNumber(s) = Number(p)
      BY <2>2 DEF LastNumber
    <3> HIDE DEF p
    <3> QED BY <1>1, <3>2, <3>3 DEF Number
  <2> QED BY <2>1, <2>2
<1>4. Seen(s) \in 0 .. Len(sent[Peer(s)])
  <2>1. CASE mode[s] = "collecting"
    <3>1. asm[s].buf[1].id \in 1 .. Len(sent[Peer(s)])
      BY <2>1, CollectingFacts
    <3> QED BY <1>1, <2>1, <3>1 DEF Seen
  <2>2. CASE mode[s] # "collecting"
    BY <1>3, <2>2 DEF Seen
  <2> QED BY <2>1, <2>2
<1> QED BY <1>1, <1>2, <1>3, <1>4

\* What a step does to the queue of a station keeps the order of the payloads.
LEMMA RisingStep ==
    ASSUME SequenceInv, NEW r \in Station, Fresh(r),
           \/ rx'[r] = rx[r]
           \/ rx[r] # <<>> /\ rx'[r] = Tail(rx[r])
           \/ \E i \in 1 .. Len(rx[r]) : rx'[r] = Without(rx[r], i)
           \/ \E f \in Frame : /\ rx'[r] = Append(rx[r], f)
                               /\ Opening(f) => f.id = Len(sent[Peer(r)]) + 1
    PROVE  Rising(rx'[r], Seen(r))
<1>1. /\ rx[r] \in Seq(Frame) /\ Rising(rx[r], Seen(r)) /\ Len(sent[Peer(r)]) \in Nat
      /\ \A i \in 1 .. Len(rx[r]) : Opening(rx[r][i]) => rx[r][i].id \in 1 .. Len(sent[Peer(r)])
      /\ Seen(r) \in 0 .. Len(sent[Peer(r)])
  BY NumbersFit DEF Fresh
<1>2. CASE rx'[r] = rx[r]
  BY <1>1, <1>2
<1>3. CASE rx[r] # <<>> /\ rx'[r] = Tail(rx[r])
  BY <1>1, <1>3, RisingTail
<1>4. ASSUME NEW i \in 1 .. Len(rx[r]), rx'[r] = Without(rx[r], i)
      PROVE  Rising(rx'[r], Seen(r))
  BY <1>1, <1>4, RisingWithout
<1>5. ASSUME NEW f \in Frame, rx'[r] = Append(rx[r], f),
             Opening(f) => f.id = Len(sent[Peer(r)]) + 1
      PROVE  Rising(rx'[r], Seen(r))
  <2>1. CASE Opening(f)
    <3> DEFINE n == Len(sent[Peer(r)])
               low == Seen(r)
    <3>1. n \in Nat /\ low \in 0 .. n /\ f.id = n + 1
      BY <1>1, <1>5, <2>1
    <3>2. \A i \in 1 .. Len(rx[r]) : Opening(rx[r][i]) => rx[r][i].id \in 1 .. n
      BY <1>1
    <3> HIDE DEF n, low
    <3>3. low < f.id /\ \A i \in 1 .. Len(rx[r]) : Opening(rx[r][i]) => rx[r][i].id < f.id
      BY <3>1, <3>2
    <3> QED BY <1>1, <1>5, <3>3, RisingNext DEF low
  <2>2. CASE ~Opening(f)
    BY <1>1, <1>5, <2>2, RisingOther
  <2> QED BY <2>1, <2>2
<1> QED BY <1>2, <1>3, <1>4, <1>5

\* A station that goes on collecting, or gives it up, has seen no more than before.
LEMMA FreshKept ==
    ASSUME SequenceInv, TypeOK', NEW r \in Station, Fresh(r),
           Rising(rx'[r], Seen(r)), delivered'[r] = delivered[r],
           mode'[r] = "collecting" =>
              mode[r] = "collecting" /\ asm'[r].buf[1].id = asm[r].buf[1].id
    PROVE  Fresh(r)'
<1>1. /\ LastNumber(r) \in Nat /\ Seen(r) \in Nat
      /\ rx'[r] \in Seq(Frame)
      /\ \A i \in 1 .. Len(rx'[r]) : Opening(rx'[r][i]) => rx'[r][i].id \in Nat
  <2>1. rx'[r] \in Seq(Frame)
    BY DEF TypeOK
  <2>2. \A f \in Frame : Opening(f) => f.id \in Nat
    BY DEF Frame, Opening
  <2>3. LastNumber(r) \in Nat /\ Seen(r) \in Nat
    BY NumbersFit
  <2> QED BY <2>1, <2>2, <2>3
<1>2. LastNumber(r)' = LastNumber(r)
  BY DEF LastNumber
<1>3. CASE mode'[r] = "collecting"
  <2>1. Seen(r)' = Seen(r)
    BY <1>3 DEF Seen
  <2> QED BY <1>2, <1>3, <2>1 DEF Fresh
<1>4. CASE mode'[r] # "collecting"
  <2>1. Seen(r)' = LastNumber(r)
    BY <1>2, <1>4 DEF Seen
  <2>2. LastNumber(r) <= Seen(r)
    <3>1. CASE mode[r] = "collecting"
      <4>1. Seen(r) = asm[r].buf[1].id /\ LastNumber(r) < asm[r].buf[1].id
        BY <3>1 DEF Seen, Fresh
      <4> QED BY <1>1, <4>1
    <3>2. CASE mode[r] # "collecting"
      BY <1>1, <3>2 DEF Seen
    <3> QED BY <3>1, <3>2
  <2>3. Rising(rx'[r], LastNumber(r))
    BY <1>1, <2>2, RisingLower
  <2> QED BY <1>4, <2>1, <2>3 DEF Fresh
<1> QED BY <1>3, <1>4

\* The number of a payload is that of its first chunk.
LEMMA FirstNumber ==
    ASSUME NEW k \in Nat, NEW n \in Nat
    PROVE  Payload(k, n)[1].id = k /\ Number(Payload(k, n)) = k
<1>1. 1 \in 1 .. n + 1 /\ n + 1 # 0
  OBVIOUS
<1>2. Payload(k, n) # <<>> /\ Payload(k, n)[1] = [id |-> k, pos |-> 1 - 1]
  BY <1>1, PayloadType, EmptySeq
<1>3. [id |-> k, pos |-> 1 - 1].id = k
  OBVIOUS
<1> QED BY <1>2, <1>3 DEF Number

\* The newest number, after a payload was handed out.
LEMMA HandedNumber ==
    ASSUME TypeOK, NEW r \in Station, NEW p \in Seq(Chunk),
           delivered' = [delivered EXCEPT ![r] = Append(@, p)]
    PROVE  LastNumber(r)' = Number(p)
<1> DEFINE d == delivered[r]
           e == Append(d, p)
<1>1. d \in Seq(Seq(Chunk)) /\ delivered'[r] = e
  BY DEF TypeOK
<1>2. e # <<>> /\ e[Len(e)] = p
  <2> HIDE DEF d
  <2>1. /\ e # <<>> /\ Len(d) \in Nat /\ Len(e) = Len(d) + 1 /\ e[Len(d) + 1] = p
    BY <1>1, AppendElements
  <2> QED BY <2>1
<1> HIDE DEF e
<1> QED BY <1>1, <1>2 DEF LastNumber

\* What a step does to the station at the other end: it may put a frame into
\* its queue, and one that begins a payload has the next number.
LEMMA OtherEnd ==
    ASSUME SequenceInv, NEW s \in Station,
           CallStep(s) \/ SendStep(s) \/ ReceiveStep(s) \/ Fault(s) \/ Timeout(s) \/ ForeignFlow(s)
    PROVE  LET r == Peer(s) IN
           /\ mode'[r] = mode[r] /\ asm'[r] = asm[r] /\ delivered'[r] = delivered[r]
           /\ \/ rx'[r] = rx[r]
              \/ \E f \in Frame : /\ rx'[r] = Append(rx[r], f)
                                  /\ Opening(f) => f.id = Len(sent[s]) + 1
<1> DEFINE r == Peer(s)
<1>0. r \in Station /\ r # s /\ TypeOK
  BY PeerFacts DEF SequenceInv
<1> HIDE DEF r
<1>1. mode'[r] = mode[r] /\ asm'[r] = asm[r] /\ delivered'[r] = delivered[r]
  <2>1. mode' = [mode EXCEPT ![s] = mode'[s]] /\ asm' = [asm EXCEPT ![s] = asm'[s]]
        /\ delivered' = [delivered EXCEPT ![s] = delivered'[s]]
    <3>1. CASE CallStep(s)
      BY <1>0, <3>1 DEF CallStep, SendSingle, SendFirst, Listen, TypeOK
    <3>2. CASE SendStep(s)
      BY <1>0, <3>2 DEF SendStep, SkipFrame, FlowContinue, FlowWait, FlowRefused,
                        SendConsecutive, TypeOK
    <3>3. CASE ReceiveStep(s)
      BY <1>0, <3>3 DEF ReceiveStep, ReceiveSingle, ReceiveFirst, IgnoreStray,
                        IgnoreWhileCollecting, OutOfSequence, Collect, CollectLast, TypeOK
    <3>4. CASE Fault(s) \/ Timeout(s) \/ ForeignFlow(s)
      BY <1>0, <3>4 DEF Fault, Lose, SendError, Timeout, FlowTimeout, ListenTimeout,
                        CollectTimeout, ForeignFlow, TypeOK
    <3> QED BY <3>1, <3>2, <3>3, <3>4
  <2> QED BY <1>0, <2>1 DEF TypeOK
<1>2. ASSUME NEW f \in Frame, Transmit(s, f) \/ TakeAndTransmit(s, f),
             Opening(f) => f.id = Len(sent[s]) + 1
      PROVE  \E g \in Frame : rx'[r] = Append(rx[r], g) /\ (Opening(g) => g.id = Len(sent[s]) + 1)
  BY <1>0, <1>2 DEF Transmit, TakeAndTransmit, TypeOK, r
<1>3. ASSUME \/ Take(s) \/ rx' = rx
             \/ \E q : rx' = [rx EXCEPT ![s] = q]
      PROVE  rx'[r] = rx[r]
  BY <1>0, <1>3 DEF Take, TypeOK
<1>4. CASE CallStep(s)
  <2>1. CASE Listen(s)
    BY <1>1, <1>3, <2>1 DEF Listen, r
  <2>2. CASE SendSingle(s)
    <3>1. SingleFrame(Len(sent[s]) + 1) \in Frame /\ SingleFrame(Len(sent[s]) + 1).id = Len(sent[s]) + 1
      BY <1>0, FrameTypes DEF SingleFrame, TypeOK
    <3> QED BY <1>1, <1>2, <2>2, <3>1 DEF SendSingle, r
  <2>3. ASSUME NEW n \in Lengths, SendFirst(s, n)
        PROVE  \E g \in Frame : rx'[r] = Append(rx[r], g) /\ (Opening(g) => g.id = Len(sent[s]) + 1)
    <3>1. FirstFrame(Len(sent[s]) + 1, n) \in Frame /\ FirstFrame(Len(sent[s]) + 1, n).id = Len(sent[s]) + 1
      <4>1. Len(sent[s]) + 1 \in Nat /\ n \in Nat
        BY <1>0, SizeAssumption DEF TypeOK
      <4>2. FirstFrame(Len(sent[s]) + 1, n) \in Frame
        BY <4>1, FrameTypes
      <4> QED BY <4>2 DEF FirstFrame
    <3> QED BY <1>2, <2>3, <3>1 DEF SendFirst
  <2> QED BY <1>1, <1>4, <2>1, <2>2, <2>3 DEF CallStep, r
<1>5. CASE SendConsecutive(s)
  <2> DEFINE f == ConsecutiveFrame(tx[s].id, tx[s].pos, tx[s].seq)
  <2>1. f \in Frame
    BY <1>0, TxFieldTypes, FrameTypes
  <2>2. ~Opening(f)
    BY DEF ConsecutiveFrame, Opening
  <2>3. Transmit(s, f)
    BY <1>5 DEF SendConsecutive
  <2> HIDE DEF f
  <2> QED BY <1>1, <1>2, <2>1, <2>2, <2>3 DEF r
<1>6. CASE SendStep(s) /\ ~SendConsecutive(s)
  BY <1>1, <1>3, <1>6 DEF SendStep, SkipFrame, FlowContinue, FlowWait, FlowRefused, r
<1>7. CASE ReceiveStep(s)
  <2>1. Continue(s) \in Frame /\ ~Opening(Continue(s))
    BY ContinueType DEF Continue, FlowControl, Opening
  <2>2. Take(s) \/ TakeAndTransmit(s, Continue(s))
    BY <1>7 DEF ReceiveStep, ReceiveSingle, ReceiveFirst, IgnoreStray,
                IgnoreWhileCollecting, OutOfSequence, Collect, CollectLast
  <2> QED BY <1>1, <1>2, <1>3, <2>1, <2>2 DEF r
<1>8. CASE Fault(s) \/ Timeout(s) \/ ForeignFlow(s)
  <2>1. rx' = rx \/ \E q : rx' = [rx EXCEPT ![s] = q]
    BY <1>8 DEF Fault, Lose, SendError, Timeout, FlowTimeout, ListenTimeout,
                CollectTimeout, ForeignFlow
  <2> QED BY <1>1, <1>3, <2>1 DEF r
<1> QED BY <1>4, <1>5, <1>6, <1>7, <1>8

\* One chunk more leaves the first one where it is.
LEMMA FirstStays ==
    ASSUME SequenceInv, NEW s \in Station, mode[s] = "collecting", Pending(s, "CF")
    PROVE  LET e == Extended(s, Head(rx[s])).buf IN
           e \in Seq(Chunk) /\ e # <<>> /\ e[1] = asm[s].buf[1]
<1> DEFINE b == asm[s].buf
           c == [id |-> Head(rx[s]).id, pos |-> Head(rx[s]).pos]
<1>1. b \in Seq(Chunk) /\ b # <<>>
  BY CollectingFacts, EndsType DEF SequenceInv
<1>2. c \in Chunk
  BY HeadType DEF SequenceInv, Pending, Chunk
<1>3. Extended(s, Head(rx[s])).buf = Append(b, c)
  BY ExtendedType DEF SequenceInv
<1> HIDE DEF b, c
<1>4. Append(b, c) \in Seq(Chunk) /\ Append(b, c) # <<>> /\ Append(b, c)[1] = b[1]
  BY <1>1, <1>2
<1> QED BY <1>3, <1>4 DEF b

\* What a step does to the station that takes it.
LEMMA FreshOwn ==
    ASSUME SequenceInv, TypeOK', NEW s \in Station, Fresh(s),
           CallStep(s) \/ SendStep(s) \/ ReceiveStep(s) \/ Fault(s) \/ Timeout(s) \/ ForeignFlow(s)
    PROVE  Fresh(s)'
<1>0. TypeOK /\ Peer(s) # s /\ Peer(s) \in Station
  BY PeerFacts DEF SequenceInv
<1>1. ASSUME delivered'[s] = delivered[s], mode'[s] # "collecting",
             rx'[s] = rx[s] \/ (rx[s] # <<>> /\ rx'[s] = Tail(rx[s]))
      PROVE  Fresh(s)'
  BY <1>1, RisingStep, FreshKept
<1>2. CASE CallStep(s)
  <2>1. delivered' = delivered /\ mode'[s] # "collecting" /\ rx'[s] = rx[s]
    BY <1>0, <1>2 DEF CallStep, SendSingle, SendFirst, Listen, Transmit, TypeOK
  <2> QED BY <1>1, <2>1
<1>3. CASE SendStep(s)
  <2>1. /\ delivered' = delivered /\ mode'[s] # "collecting"
        /\ rx'[s] = rx[s] \/ (rx[s] # <<>> /\ rx'[s] = Tail(rx[s]))
    BY <1>0, <1>3 DEF SendStep, SkipFrame, FlowContinue, FlowWait, FlowRefused,
                      SendConsecutive, Transmit, Take, Pending, TypeOK
  <2> QED BY <1>1, <2>1
<1>4. CASE ReceiveSingle(s)
  <2> DEFINE f == Head(rx[s])
  <2>1. rx[s] # <<>> /\ rx'[s] = Tail(rx[s]) /\ mode'[s] # "collecting" /\ Opening(f)
    BY <1>0, <1>4 DEF ReceiveSingle, Pending, Take, TypeOK, Opening
  <2>2. Rising(Tail(rx[s]), f.id)
    BY <2>1, RisingTail, NumbersFit DEF Fresh
  <2>3. LastNumber(s)' = f.id
    <3>1. f.id \in Nat
      BY <1>0, <1>4, HeadType DEF ReceiveSingle, Pending
    <3>2. LastNumber(s)' = Number(Payload(f.id, 0))
      BY <1>0, <1>4, <3>1, FirstChunk, HandedNumber DEF ReceiveSingle
    <3> QED BY <3>1, <3>2, FirstNumber
  <2> QED BY <2>1, <2>2, <2>3 DEF Fresh, Seen
<1>5. CASE ReceiveFirst(s)
  <2> DEFINE f == Head(rx[s])
  <2>1. /\ rx[s] # <<>> /\ rx'[s] = Tail(rx[s]) /\ mode'[s] = "collecting" /\ Opening(f)
        /\ mode[s] = "listening" /\ delivered' = delivered
    BY <1>0, <1>5 DEF ReceiveFirst, Pending, TakeAndTransmit, TypeOK, Opening
  <2>2. Seen(s) < f.id /\ Rising(Tail(rx[s]), f.id)
    BY <2>1, RisingTail, NumbersFit DEF Fresh
  <2>3. asm'[s].buf[1].id = f.id
    <3>1. f.id \in Nat
      BY <1>0, <1>5, HeadType DEF ReceiveFirst, Pending
    <3>2. asm'[s].buf = Payload(f.id, 0)
      BY <1>0, <1>5 DEF ReceiveFirst, Started, TypeOK
    <3> QED BY <3>1, <3>2, FirstNumber DEF Number
  <2>4. LastNumber(s)' < f.id
    BY <2>1, <2>2 DEF LastNumber, Seen
  <2> QED BY <2>1, <2>2, <2>3, <2>4 DEF Fresh, Seen
<1>6. CASE IgnoreStray(s) \/ OutOfSequence(s)
  <2>1. /\ delivered' = delivered /\ mode'[s] # "collecting"
        /\ rx[s] # <<>> /\ rx'[s] = Tail(rx[s])
    BY <1>0, <1>6 DEF IgnoreStray, OutOfSequence, Take, Pending, TypeOK
  <2> QED BY <1>1, <2>1
<1>7. CASE IgnoreWhileCollecting(s)
  <2>1. /\ delivered' = delivered /\ mode' = mode /\ asm' = asm /\ mode[s] = "collecting"
        /\ rx[s] # <<>> /\ rx'[s] = Tail(rx[s])
    BY <1>0, <1>7 DEF IgnoreWhileCollecting, Take, TypeOK
  <2> QED BY <2>1, RisingStep, FreshKept
<1>8. CASE Collect(s)
  <2>1. /\ delivered' = delivered /\ mode' = mode /\ mode[s] = "collecting"
        /\ rx[s] # <<>> /\ rx'[s] = Tail(rx[s])
    BY <1>0, <1>8 DEF Collect, Take, TakeAndTransmit, Pending, TypeOK
  <2>2. asm'[s].buf[1] = asm[s].buf[1]
    BY <1>0, <1>8, FirstStays DEF Collect, TypeOK
  <2> QED BY <2>1, <2>2, RisingStep, FreshKept
<1>9. CASE CollectLast(s)
  <2> DEFINE e == Extended(s, Head(rx[s])).buf
  <2>1. /\ rx[s] # <<>> /\ rx'[s] = Tail(rx[s]) /\ mode'[s] # "collecting"
        /\ mode[s] = "collecting"
    BY <1>0, <1>9 DEF CollectLast, Pending, Take, TypeOK
  <2>2. Rising(Tail(rx[s]), Seen(s))
    BY <2>1, RisingTail, NumbersFit DEF Fresh
  <2>3. LastNumber(s)' = Seen(s)
    <3>1. e \in Seq(Chunk) /\ e # <<>> /\ e[1] = asm[s].buf[1]
      BY <1>9, FirstStays DEF CollectLast
    <3>2. delivered' = [delivered EXCEPT ![s] = Append(@, e)]
      BY <1>9 DEF CollectLast
    <3> HIDE DEF e
    <3>3. LastNumber(s)' = Number(e)
      BY <1>0, <3>1, <3>2, HandedNumber
    <3> QED BY <2>1, <3>1, <3>3 DEF Number, Seen
  <2> QED BY <2>1, <2>2, <2>3 DEF Fresh, Seen
<1>10. CASE Fault(s)
  <2>1. CASE SendError(s)
    BY <1>1, <1>0, <2>1 DEF SendError, TypeOK
  <2>2. CASE Lose(s)
    <3>1. /\ delivered' = delivered /\ mode' = mode /\ asm' = asm
          /\ \E i \in 1 .. Len(rx[s]) : rx'[s] = Without(rx[s], i)
      BY <1>0, <2>2 DEF Lose, TypeOK
    <3> QED BY <3>1, RisingStep, FreshKept
  <2> QED BY <1>10, <2>1, <2>2 DEF Fault
<1>11. CASE Timeout(s)
  <2>1. delivered' = delivered /\ rx' = rx /\ mode'[s] # "collecting"
    BY <1>0, <1>11 DEF Timeout, FlowTimeout, ListenTimeout, CollectTimeout, TypeOK
  <2> QED BY <1>1, <2>1
<1>12. CASE ForeignFlow(s)
  <2>1. PICK g \in Status : rx'[s] = Append(rx[s], FlowControl(g, 0))
    BY <1>0, <1>12 DEF ForeignFlow, TypeOK
  <2>2. FlowControl(g, 0) \in Frame /\ ~Opening(FlowControl(g, 0))
    BY FrameTypes DEF FlowControl, Opening
  <2>3. Rising(rx'[s], Seen(s))
    BY <2>1, <2>2, RisingStep
  <2>4. delivered' = delivered /\ mode' = mode /\ asm' = asm
    BY <1>12 DEF ForeignFlow
  <2> QED BY <2>3, <2>4, FreshKept
<1> QED BY <1>2, <1>3, <1>4, <1>5, <1>6, <1>7, <1>8, <1>9, <1>10, <1>11, <1>12 DEF ReceiveStep

\* Every step keeps the order, at both stations.
LEMMA FreshStep == SequenceInv /\ TypeOK' /\ FreshInv /\ [Next]_vars => FreshInv'
<1> SUFFICES ASSUME SequenceInv, TypeOK', FreshInv, [Next]_vars, NEW r \in Station
             PROVE  Fresh(r)'
  BY DEF FreshInv
<1>1. Fresh(r)
  BY DEF FreshInv
<1>2. CASE UNCHANGED vars
  BY <1>1, <1>2 DEF vars, Fresh, Seen, LastNumber
<1>3. ASSUME NEW s \in Station,
             CallStep(s) \/ SendStep(s) \/ ReceiveStep(s) \/ Fault(s) \/ Timeout(s) \/ ForeignFlow(s)
      PROVE  Fresh(r)'
  <2>1. CASE r = s
    BY <1>1, <1>3, <2>1, FreshOwn
  <2>2. CASE r # s
    <3>1. r = Peer(s) /\ Peer(r) = s
      BY <2>2 DEF Station, Peer
    <3>2. /\ mode'[r] = mode[r] /\ asm'[r] = asm[r] /\ delivered'[r] = delivered[r]
          /\ \/ rx'[r] = rx[r]
             \/ \E f \in Frame : /\ rx'[r] = Append(rx[r], f)
                                 /\ Opening(f) => f.id = Len(sent[Peer(r)]) + 1
      BY <1>3, <3>1, OtherEnd
    <3>3. Rising(rx'[r], Seen(r))
      BY <1>1, <3>2, RisingStep
    <3> QED BY <1>1, <3>2, <3>3, FreshKept
  <2> QED BY <2>1, <2>2
<1> QED BY <1>2, <1>3 DEF Next

\* The numbers of payloads handed out.
NumbersOf(d) == [i \in 1 .. Len(d) |-> Number(d[i])]
Numbers == [s \in Station |-> NumbersOf(delivered[s])]

\* They are a sequence as long as that of the payloads.
LEMMA NumbersSeq ==
    ASSUME NEW d \in Seq(Seq(Chunk))
    PROVE  /\ NumbersOf(d) \in Seq(Nat) /\ Len(NumbersOf(d)) = Len(d)
           /\ NumbersOf(d) = <<>> <=> d = <<>>
           /\ d # <<>> => NumbersOf(d)[Len(d)] = Number(d[Len(d)])
<1>1. Len(d) \in Nat /\ \A i \in 1 .. Len(d) : Number(d[i]) \in Nat
  <2>1. \A q \in Seq(Chunk) : Number(q) \in Nat
    <3> SUFFICES ASSUME NEW q \in Seq(Chunk) PROVE Number(q) \in Nat
      OBVIOUS
    <3>1. CASE q = <<>>
      BY <3>1 DEF Number
    <3>2. CASE q # <<>>
      <4>1. q[1] \in Chunk
        BY <3>2
      <4> QED BY <3>2, <4>1 DEF Number, Chunk
    <3> QED BY <3>1, <3>2
  <2> QED BY <2>1
<1>2. NumbersOf(d) \in Seq(Nat) /\ Len(NumbersOf(d)) = Len(d)
  BY <1>1 DEF NumbersOf
<1>3. NumbersOf(d) = <<>> <=> d = <<>>
  <2> DEFINE m == NumbersOf(d)
  <2>1. m \in Seq(Nat) /\ Len(m) = Len(d)
    BY <1>2
  <2> HIDE DEF m
  <2>2. m = <<>> <=> Len(m) = 0
    BY <2>1, EmptySeq
  <2>3. d = <<>> <=> Len(d) = 0
    BY EmptySeq
  <2> QED BY <2>1, <2>2, <2>3 DEF m
<1>4. d # <<>> => Len(d) \in 1 .. Len(d)
  BY <1>1
<1> QED BY <1>2, <1>3, <1>4 DEF NumbersOf

\* One payload more is one number more.
LEMMA NumbersAppend ==
    ASSUME NEW d \in Seq(Seq(Chunk)), NEW q \in Seq(Chunk)
    PROVE  NumbersOf(Append(d, q)) = Append(NumbersOf(d), Number(q))
<1> DEFINE e == Append(d, q)
           m == NumbersOf(d)
<1>1. /\ e \in Seq(Seq(Chunk)) /\ Len(d) \in Nat /\ Len(e) = Len(d) + 1 /\ e[Len(d) + 1] = q
      /\ \A i \in 1 .. Len(d) : e[i] = d[i]
  BY AppendElements
<1>2. m \in Seq(Nat) /\ Len(m) = Len(d) /\ \A i \in 1 .. Len(d) : m[i] = Number(d[i])
  BY NumbersSeq DEF NumbersOf
<1> DEFINE u == NumbersOf(e)
           x == Number(q)
<1>3. u \in Seq(Nat) /\ Len(u) = Len(e) /\ \A i \in 1 .. Len(e) : u[i] = Number(e[i])
  BY <1>1, NumbersSeq DEF NumbersOf
<1>4. x \in Nat
  <2>1. u[Len(d) + 1] = x /\ Len(d) + 1 \in 1 .. Len(u)
    <3> HIDE DEF u, e
    <3> QED BY <1>1, <1>3
  <2> HIDE DEF u, x
  <2> QED BY <1>3, <2>1
<1> HIDE DEF e, m, u, x
<1>5. /\ Append(m, x) \in Seq(Nat) /\ Len(Append(m, x)) = Len(m) + 1 /\ Append(m, x)[Len(m) + 1] = x
      /\ \A i \in 1 .. Len(m) : Append(m, x)[i] = m[i]
  BY <1>2, <1>4, AppendElements
<1> DEFINE v == Append(m, x)
<1>6. v \in Seq(Nat) /\ Len(v) = Len(u)
  BY <1>1, <1>2, <1>3, <1>5
<1>7. ASSUME NEW i \in 1 .. Len(u) PROVE u[i] = v[i]
  <2>1. CASE i \in 1 .. Len(d)
    BY <1>1, <1>2, <1>3, <1>5, <2>1
  <2>2. CASE i \notin 1 .. Len(d)
    <3>1. i = Len(d) + 1
      BY <1>1, <1>3, <2>2
    <3> QED BY <1>1, <1>2, <1>3, <1>5, <3>1 DEF x
  <2> QED BY <2>1, <2>2
<1> HIDE DEF v
<1>8. u = v
  BY <1>3, <1>6, <1>7, SeqEqual
<1> QED BY <1>8 DEF e, m, u, v, x

\* What the channel sees of deliveries that are whole.
LEMMA HandedNumbers ==
    /\ DeliveredIntact => HandedOut = Numbers
    /\ DeliveredIntact' => HandedOut' = Numbers'
  BY DEF DeliveredIntact, HandedOut, Numbers, NumbersOf

\* The newest number is what the channel calls so.
LEMMA NewestNumber ==
    ASSUME TypeOK, DeliveredIntact, NEW r \in Station
    PROVE  Channel!Newest(r) = LastNumber(r)
<1>1. delivered[r] \in Seq(Seq(Chunk)) /\ HandedOut[r] = NumbersOf(delivered[r])
  BY HandedNumbers DEF TypeOK, Numbers
<1>2. Channel!Newest(r) = IF HandedOut[r] = <<>> THEN 0 ELSE HandedOut[r][Len(HandedOut[r])]
  BY DEF Channel!Newest
<1> QED BY <1>1, <1>2, NumbersSeq DEF LastNumber

\* At the start both channels are empty.
LEMMA ChannelInit == Init => Channel!Init
<1> SUFFICES ASSUME Init PROVE Channel!Init
  OBVIOUS
<1>1. Submitted = [l \in Station |-> 0]
  <2>1. \A l \in Station : Peer(l) \in Station
    BY PeerFacts
  <2> QED BY <2>1 DEF Init, Submitted
<1>2. HandedOut = [l \in Station |-> <<>>]
  <2>1. \A l \in Station : delivered[l] = <<>>
    BY DEF Init
  <2>2. HandedOut = [l \in Station |-> [i \in 1 .. Len(delivered[l]) |->
              IF Intact(l, delivered[l][i]) THEN Number(delivered[l][i]) ELSE 0]]
    BY DEF HandedOut
  <2>3. \A l \in Station : [i \in 1 .. Len(delivered[l]) |->
              IF Intact(l, delivered[l][i]) THEN Number(delivered[l][i]) ELSE 0] = <<>>
    BY <2>1
  <2> QED BY <2>2, <2>3
<1> QED BY <1>1, <1>2 DEF Channel!Init

\* A payload given to send() is one more submitted to the peer.
LEMMA SubmitStep ==
    ASSUME SequenceInv, DeliveredIntact, DeliveredIntact', UNCHANGED delivered,
           NEW s \in Station, NEW n \in Nat, sent' = [sent EXCEPT ![s] = Append(@, n)]
    PROVE  Channel!Submit(Peer(s))
<1>1. HandedOut' = HandedOut
  <2>1. Numbers' = Numbers
    BY DEF Numbers
  <2> QED BY <2>1, HandedNumbers
<1>2. Submitted' = [Submitted EXCEPT ![Peer(s)] = Submitted[Peer(s)] + 1]
  <2>1. /\ sent[s] \in Seq(Nat) /\ sent'[s] = Append(sent[s], n)
        /\ \A r \in Station : r # s => sent'[r] = sent[r]
    BY DEF SequenceInv, TypeOK
  <2>2. Len(sent'[s]) = Len(sent[s]) + 1
    BY <2>1
  <2>3. \A l \in Station : /\ Peer(l) \in Station /\ (Peer(l) = s <=> l = Peer(s))
                           /\ Peer(s) \in Station /\ Peer(Peer(s)) = s
    BY PeerFacts
  <2>4. Submitted' = [l \in Station |-> Len(sent'[Peer(l)])]
    BY DEF Submitted
  <2>5. Submitted = [l \in Station |-> Len(sent[Peer(l)])]
    BY DEF Submitted
  <2> QED BY <2>1, <2>2, <2>3, <2>4, <2>5
<1> QED BY <1>1, <1>2 DEF Channel!Submit

\* The payload receive() returns is newer than every one it returned before.
LEMMA HandOutStep ==
    ASSUME SequenceInv, FreshInv, DeliveredIntact, DeliveredIntact', UNCHANGED sent,
           NEW r \in Station, ReceiveSingle(r) \/ CollectLast(r),
           NEW k \in 1 .. Len(sent[Peer(r)]), sent[Peer(r)][k] \in Nat,
           ReceiveSingle(r) => k = Head(rx[r]).id,
           CollectLast(r) => k = asm[r].buf[1].id,
           delivered' = [delivered EXCEPT ![r] = Append(@, Payload(k, sent[Peer(r)][k]))]
    PROVE  Channel!HandOut(r, k) /\ k \in 1 .. Submitted[r]
<1> DEFINE q == Payload(k, sent[Peer(r)][k])
<1>0. TypeOK /\ Fresh(r)
  BY DEF SequenceInv, FreshInv
<1>1. LastNumber(r) < k
  <2>1. CASE ReceiveSingle(r)
    <3>1. rx[r] # <<>> /\ Opening(Head(rx[r])) /\ mode[r] # "collecting"
      BY <2>1 DEF ReceiveSingle, Pending, Opening
    <3>2. Seen(r) < k
      BY <1>0, <2>1, <3>1, RisingTail, NumbersFit DEF Fresh
    <3> QED BY <3>1, <3>2 DEF Seen
  <2>2. CASE CollectLast(r)
    BY <1>0, <2>2 DEF Fresh, CollectLast
  <2> QED BY <2>1, <2>2
<1>2. Submitted[r] = Len(sent[Peer(r)]) /\ Submitted' = Submitted
  BY DEF Submitted
<1>3. k \in Nat /\ Len(sent[Peer(r)]) \in Nat /\ LastNumber(r) \in Nat
  BY NumbersFit
<1>4. k \in (LastNumber(r) + 1) .. Submitted[r] /\ k \in 1 .. Submitted[r]
  <2> DEFINE n == LastNumber(r)
             m == Submitted[r]
  <2>1. n \in Nat /\ n < k /\ m \in Nat /\ k \in 1 .. m
    BY <1>1, <1>2, <1>3
  <2> HIDE DEF n, m
  <2>2. k \in (n + 1) .. m
    BY <2>1
  <2> QED BY <2>1, <2>2 DEF n, m
<1>5. q \in Seq(Chunk) /\ Number(q) = k
  BY <1>3, PayloadType, FirstNumber
<1>6. HandedOut' = [HandedOut EXCEPT ![r] = Append(HandedOut[r], k)]
  <2> HIDE DEF q
  <2>1. /\ \A u \in Station : delivered[u] \in Seq(Seq(Chunk))
        /\ delivered'[r] = Append(delivered[r], q)
        /\ \A u \in Station : u # r => delivered'[u] = delivered[u]
    BY <1>0 DEF TypeOK, q
  <2>2. NumbersOf(delivered'[r]) = Append(NumbersOf(delivered[r]), k)
    BY <1>5, <2>1, NumbersAppend
  <2>3. Numbers' = [u \in Station |-> NumbersOf(delivered'[u])]
    BY DEF Numbers, NumbersOf
  <2>4. Numbers' = [Numbers EXCEPT ![r] = Append(Numbers[r], k)]
    <3>1. Numbers = [u \in Station |-> NumbersOf(delivered[u])]
      BY DEF Numbers
    <3>2. \A u \in Station : u # r => NumbersOf(delivered'[u]) = NumbersOf(delivered[u])
      BY <2>1
    <3> QED BY <2>2, <2>3, <3>1, <3>2
  <2> QED BY <2>4, HandedNumbers
<1>7. Channel!Newest(r) = LastNumber(r)
  BY <1>0, NewestNumber
<1> QED BY <1>2, <1>4, <1>6, <1>7 DEF Channel!HandOut

\* Every step of prompt stations is a step of the channel, or none.
LEMMA ChannelStep ==
    ASSUME SequenceInv, HandInv, FreshInv, DeliveredIntact, DeliveredIntact', [PromptNext]_vars
    PROVE  [Channel!Next]_Channel!channelVars
<1>1. CASE UNCHANGED <<sent, delivered>>
  BY <1>1 DEF Channel!channelVars, Submitted, HandedOut, Intact
<1>2. ASSUME UNCHANGED delivered, NEW s \in Station, NEW n \in Nat,
             sent' = [sent EXCEPT ![s] = Append(@, n)]
      PROVE  Channel!Next
  BY <1>2, SubmitStep, PeerFacts DEF Channel!Next
<1>3. ASSUME UNCHANGED sent, NEW r \in Station, ReceiveSingle(r) \/ CollectLast(r),
             NEW k \in 1 .. Len(sent[Peer(r)]), sent[Peer(r)][k] \in Nat,
             ReceiveSingle(r) => k = Head(rx[r]).id,
             CollectLast(r) => k = asm[r].buf[1].id,
             delivered' = [delivered EXCEPT ![r] = Append(@, Payload(k, sent[Peer(r)][k]))]
      PROVE  Channel!Next
  BY <1>3, HandOutStep DEF Channel!Next
<1> QED BY <1>1, <1>2, <1>3, DeliverySteps

\* The link is the message channel the diagnostic layer relies on (send,
\* receive): what receive() returns are payloads given to send(), each at most
\* once, in the order of submission, whatever is lost and whoever gives up, as
\* long as the stations' timers wait for what is still on the way.
THEOREM ImplementsChannelAlways ==
    ASSUME BlocksFit
    PROVE  PromptSpec => ImplementsChannel
<1> DEFINE Inv == SequenceInv /\ HandInv /\ DeliveredIntact /\ FreshInv
<1>1. Init => Inv
  <2>1. Init => FreshInv
    BY DEF Init, FreshInv, Fresh, Rising, LastNumber, Seen
  <2> QED BY <2>1, SequenceInit, HandInit DEF Init, DeliveredIntact
<1>2. Inv /\ [PromptNext]_vars => Inv'
  <2> SUFFICES ASSUME Inv, [PromptNext]_vars PROVE Inv'
    OBVIOUS
  <2>1. [Next]_vars
    BY PromptIsNext
  <2>2. SequenceInv' /\ HandInv' /\ DeliveredIntact'
    BY <2>1, SequenceStep, HandStep, IntactStep
  <2>3. TypeOK'
    BY <2>2 DEF SequenceInv
  <2> QED BY <2>1, <2>2, <2>3, FreshStep
<1>3. Inv /\ Inv' /\ [PromptNext]_vars => [Channel!Next]_Channel!channelVars
  BY ChannelStep
<1>4. Init => Channel!Init
  BY ChannelInit
<1> QED BY <1>1, <1>2, <1>3, <1>4, PTL DEF PromptSpec, ImplementsChannel, Channel!Spec

=============================================================================
