--------------------------- MODULE TransferProofs ---------------------------
(***************************************************************************)
(* Machine-checked facts about the flash manager's block transfer, for all *)
(* files, runs and disturbed exchanges.                                    *)
(***************************************************************************)
EXTENDS Transfer, EcuSimulatorProofs, SequenceLemmas

-----------------------------------------------------------------------------
(* Transfer: what is reported as completed is in the ECU whole.            *)

Services == {"none", "session", "dtcSetting", "communication", "seed", "key", "download", "block", "exit", "reset"}

\* An answer as the client has it.
Got == [svc : Services, nrc : Answer, echo : 0 .. CounterMod - 1, seed : Seed]

IsPositive(x, svc) == x.nrc = "positive" /\ x.svc = svc

\* Locals of a thread.
Local == [pc : ThreadPlace, seg : 1 .. Len(Segments), blk : Nat, counter : 0 .. CounterMod - 1,
          attempt : 0 .. BlockRetries - 1, seed : Seed]

\* The first n blocks of segment s, as run r sends them.
Sent(r, s, n) == [b \in 1 .. n |-> [run |-> r, seg |-> s, blk |-> b]]

\* One answer at most is late, and it is to the last request the ECU handled:
\* so it says where the ECU's counter is.
LateInv ==
    late # <<>> =>
        \E x \in Got :
            /\ late = <<x>>
            /\ IsPositive(x, "block") => x.echo = ecu.counter
            /\ IsPositive(x, "download") => ecu.counter = 0 /\ transferred = <<>>

LateBlock == late # <<>> /\ IsPositive(late[1], "block")

\* The ECU has what run r sent it; it may have the block that run r is about
\* to send again, because of a refusal that was meant for an earlier request.
InStep(r) ==
    LET t == thread[r] IN
    /\ t.pc = "exit" => t.blk = Segments[t.seg] + 1
    /\ t.pc # "exit" => t.blk \in 1 .. Segments[t.seg]
    /\ \/ transferred = Sent(r, t.seg, t.blk - 1) /\ ecu.counter = t.counter /\ ~LateBlock
       \/ t.pc = "send" /\ transferred = Sent(r, t.seg, t.blk) /\ ecu.counter = Up(t.counter)

InSegment == {"check", "hold", "send", "exit"}

TransferInv ==
    /\ EcuTypeOK
    /\ thread \in [Runs -> Local]
    /\ alone \in [Runs -> BOOLEAN]
    /\ LateInv
    /\ \A r \in Runs : alone[r] /\ thread[r].pc \in InSegment => InStep(r)

-----------------------------------------------------------------------------
(* One exchange.                                                           *)

Oldest == IF late = <<>> THEN Silence ELSE late[1]

\* What the client gets, and what comes late after it.
Served(req, chunk, got) ==
    \/ /\ UNCHANGED <<ecu, transferred>>
       /\ got = Oldest /\ late' = <<>>
    \/ \E a \in Answer :
          /\ HandleRequest(req, a)
          /\ transferred' = Stored(req, a, chunk)
          /\ \/ late = <<>> /\ got = Reply(req, a) /\ late' = <<>>
             \/ got = Oldest /\ (late' = <<>> \/ late' = <<Reply(req, a)>>)

\* Adding to a queue of one answer at most, and taking from it.
LEMMA QueueOfOne ==
    ASSUME LateInv, NEW y
    PROVE  /\ late = <<>> => Append(late, y) = <<y>>
           /\ late # <<>> => /\ Append(late, y) # <<>> /\ Head(Append(late, y)) = late[1]
                             /\ Tail(Append(late, y)) = <<y>>
                             /\ Head(late) = late[1] /\ Tail(late) = <<>>
                             /\ Append(Tail(late), y) = <<y>>
           /\ <<y>> # <<>> /\ Head(<<y>>) = y /\ Tail(<<y>>) = <<>>
<1>1. <<y>> # <<>> /\ Head(<<y>>) = y /\ Tail(<<y>>) = <<>>
  OBVIOUS
<1>2. CASE late = <<>>
  BY <1>1, <1>2
<1>3. CASE late # <<>>
  <2>1. PICK x : late = <<x>>
    BY <1>3 DEF LateInv
  <2> DEFINE S == {x, y}
             t == Append(<<x>>, y)
  <2>2. <<x>> \in Seq(S) /\ y \in S /\ Len(<<x>>) = 1 /\ <<x>>[1] = x
    OBVIOUS
  <2>3. t \in Seq(S) /\ Len(t) = 2 /\ t[1] = x /\ t[2] = y
    BY <2>2
  <2> HIDE DEF S, t
  <2>4. t # <<>> /\ Head(t) = x
    <3>1. Len(<<>>) = 0
      OBVIOUS
    <3>2. t # <<>>
      <4>1. Len(t) # Len(<<>>)
        BY <2>3, <3>1
      <4> QED BY <4>1, Zenon
    <3>3. Head(t) = t[1]
      BY <2>3, <3>2
    <3> QED BY <2>3, <3>2, <3>3
  <2>5. Tail(t) = <<y>>
    <3> DEFINE u == Tail(t)
    <3>1. u \in Seq(S) /\ Len(u) = 1 /\ u[1] = y
      <4>1. t \in Seq(S) /\ t # <<>>
        BY <2>3, <2>4
      <4>2. u \in Seq(S) /\ Len(u) = Len(t) - 1
        BY <4>1
      <4>3. u[1] = t[2]
        BY <2>3
      <4> HIDE DEF u
      <4> QED BY <2>3, <4>2, <4>3
    <3> HIDE DEF u
    <3>2. u = <<u[1]>>
      BY <3>1
    <3> QED BY <3>1, <3>2 DEF u
  <2>6. Head(<<x>>) = x /\ Tail(<<x>>) = <<>> /\ Append(<<>>, y) = <<y>>
    OBVIOUS
  <2> QED BY <1>3, <2>1, <2>2, <2>4, <2>5, <2>6 DEF t
<1> QED BY <1>1, <1>2, <1>3

\* What run r's thread asks for, it goes on with.
LEMMA PrepareAsks ==
    ASSUME LateInv, NEW r \in Runs, Prepare(r)
    PROVE  \E chunk, got :
              /\ Served(PreludeRequest(r), chunk, got) /\ Alone(r, FALSE)
              /\ thread' = [thread EXCEPT ![r] = [thread[r] EXCEPT !.pc = AfterPrelude(r, got), !.seed = got.seed]]
<1> DEFINE req == PreludeRequest(r)
           chunk == [run |-> r, seg |-> thread[r].seg, blk |-> thread[r].blk]
           P(got) == thread' = [thread EXCEPT ![r] = [thread[r] EXCEPT !.pc = AfterPrelude(r, got), !.seed = got.seed]]
<1>1. Exchange(req, chunk, P) /\ Alone(r, FALSE)
  BY DEF Prepare, Ask
<1> HIDE DEF P, req, chunk
<1>2. \E got : Served(req, chunk, got) /\ P(got)
  BY <1>1, QueueOfOne DEF Exchange, Read, Served, Oldest
<1> QED BY <1>1, <1>2 DEF P, req

LEMMA RequestAsks ==
    ASSUME LateInv, NEW r \in Runs, RequestPermission(r)
    PROVE  \E chunk, got :
              /\ Served(Plain("download"), chunk, got) /\ Alone(r, TRUE)
              /\ thread' = [thread EXCEPT ![r] = AfterRequest(r, got)]
<1> DEFINE req == Plain("download")
           chunk == [run |-> r, seg |-> thread[r].seg, blk |-> thread[r].blk]
           P(got) == thread' = [thread EXCEPT ![r] = AfterRequest(r, got)]
<1>1. Exchange(req, chunk, P) /\ Alone(r, TRUE)
  BY DEF RequestPermission, Ask
<1> HIDE DEF P, req, chunk
<1>2. \E got : Served(req, chunk, got) /\ P(got)
  BY <1>1, QueueOfOne DEF Exchange, Read, Served, Oldest
<1> QED BY <1>1, <1>2 DEF P, req, chunk

LEMMA BlockAsks ==
    ASSUME LateInv, NEW r \in Runs, SendBlock(r)
    PROVE  \E got :
              /\ Served(Block(Up(thread[r].counter)),
                        [run |-> r, seg |-> thread[r].seg, blk |-> thread[r].blk], got)
              /\ Alone(r, FALSE)
              /\ thread' = [thread EXCEPT ![r] = AfterBlock(r, got)]
<1> DEFINE req == Block(Up(thread[r].counter))
           chunk == [run |-> r, seg |-> thread[r].seg, blk |-> thread[r].blk]
           P(got) == thread' = [thread EXCEPT ![r] = AfterBlock(r, got)]
<1>1. Exchange(req, chunk, P) /\ Alone(r, FALSE)
  BY DEF SendBlock, Ask
<1> HIDE DEF P, req, chunk
<1>2. \E got : Served(req, chunk, got) /\ P(got)
  BY <1>1, QueueOfOne DEF Exchange, Read, Served, Oldest
<1> QED BY <1>1, <1>2 DEF P, req, chunk

LEMMA ExitAsks ==
    ASSUME LateInv, NEW r \in Runs, Exit(r)
    PROVE  \E chunk, got :
              /\ Served(Plain("exit"), chunk, got) /\ Alone(r, FALSE)
              /\ thread' = [thread EXCEPT ![r] = AfterExit(r, got)]
<1> DEFINE req == Plain("exit")
           chunk == [run |-> r, seg |-> thread[r].seg, blk |-> thread[r].blk]
           P(got) == thread' = [thread EXCEPT ![r] = AfterExit(r, got)]
<1>1. Exchange(req, chunk, P) /\ Alone(r, FALSE)
  BY DEF Exit, Ask
<1> HIDE DEF P, req, chunk
<1>2. \E got : Served(req, chunk, got) /\ P(got)
  BY <1>1, QueueOfOne DEF Exchange, Read, Served, Oldest
<1> QED BY <1>1, <1>2 DEF P, req, chunk

LEMMA OthersAsk ==
    ASSUME LateInv, OtherPanel
    PROVE  /\ \E req \in {ToSession("default"), Subfunction("reset")} : \E chunk, got : Served(req, chunk, got)
           /\ Alone(0, FALSE) /\ thread' = thread
  BY QueueOfOne DEF OtherPanel, Read, Served, Oldest

\* The block counter's successor.
LEMMA UpFacts ==
    ASSUME NEW n \in 0 .. CounterMod - 1
    PROVE  Up(n) \in 0 .. CounterMod - 1 /\ Up(n) # n
<1> DEFINE m == CounterMod
           k == n + 1
<1>1. m \in Nat /\ m >= 2 /\ n \in Nat /\ n < m /\ k \in Nat /\ k = n + 1
  BY EcuAssumption
<1>2. Up(n) = k % m
  BY DEF Up
<1> HIDE DEF m, k
<1>3. k % m = IF k = m THEN 0 ELSE k
  <2>1. CASE k = m
    BY <1>1, <2>1
  <2>2. CASE k < m
    BY <1>1, <2>2
  <2> QED BY <1>1, <2>1, <2>2
<1> QED BY <1>1, <1>2, <1>3 DEF m

\* What a request does to the ECU's counter, and when it is answered.
LEMMA CounterMoves ==
    ASSUME EcuTypeOK, NEW req, NEW a, HandleRequest(req, a)
    PROVE  /\ a = "positive" /\ req.svc = "block" =>
                 req.counter = Up(ecu.counter) /\ ecu'.counter = Up(ecu.counter)
           /\ a = "positive" /\ req.svc = "download" => ecu'.counter = 0
           /\ ~(a = "positive" /\ req.svc \in {"block", "download", "reset"}) => ecu'.counter = ecu.counter
<1> USE DEF EcuTypeOK, EcuState
<1>1. CASE UNCHANGED ecu /\ a # "positive"
  BY <1>1
<1>2. CASE SessionControl(req, a)
  BY <1>2 DEF SessionControl, Refuse
<1>3. CASE EcuReset(req, a)
  BY <1>3 DEF EcuReset, Refuse
<1>4. CASE RequestSeed(req, a)
  BY <1>4 DEF RequestSeed, Refuse
<1>5. CASE WrongKey(req, a)
  BY <1>5 DEF WrongKey
<1>6. CASE RightKey(req, a)
  BY <1>6 DEF RightKey
<1>7. CASE RequestDownload(req, a)
  BY <1>7 DEF RequestDownload, Refuse
<1>8. CASE TransferData(req, a)
  BY <1>8 DEF TransferData, Refuse, NextCounter, Up
<1>9. CASE TransferExit(req, a)
  BY <1>9 DEF TransferExit, Refuse
<1>10. CASE InjectError(a) \/ SecurityBarred(req, a) \/ KeyOutOfSequence(req, a)
  BY <1>1, <1>10 DEF InjectError, SecurityBarred, KeyOutOfSequence, Refuse
<1>11. CASE Harmless(req, a)
  BY <1>11 DEF Harmless, IoControl, WriteDid, RoutineControl, ControlDtcSetting,
         CommunicationControl, ReadDtc, ClearDtc, Stateless
<1> QED BY <1>11, <1>2, <1>3, <1>4, <1>5, <1>6, <1>7, <1>8, <1>9, <1>10 DEF HandleRequest, Harmless

\* What an exchange leaves: the ECU typed, the late answer its last one, and
\* no block's answer late unless the ECU took a block.
LEMMA Exchanged ==
    ASSUME TransferInv, NEW req, req.svc \in Services \ {"none"},
           req.svc = "block" => req.counter \in 0 .. CounterMod - 1,
           NEW chunk, NEW got, Served(req, chunk, got)
    PROVE  /\ EcuTypeOK' /\ LateInv'
           /\ got.seed \in Seed
           /\ UNCHANGED ecu => ~LateBlock'
<1>1. 0 \in 0 .. CounterMod - 1
  BY EcuAssumption
<1>2. Oldest.seed \in Seed
  <2>1. CASE late = <<>>
    BY <2>1 DEF Oldest, Silence, Seed
  <2>2. CASE late # <<>>
    BY <2>2 DEF Oldest, TransferInv, LateInv, Got
  <2> QED BY <2>1, <2>2
<1>3. CASE UNCHANGED <<ecu, transferred>> /\ got = Oldest /\ late' = <<>>
  BY <1>2, <1>3 DEF TransferInv, EcuTypeOK, LateInv, LateBlock
<1>4. ASSUME NEW a \in Answer, HandleRequest(req, a), transferred' = Stored(req, a, chunk),
             got = Reply(req, a) \/ got = Oldest,
             late' = <<>> \/ late' = <<Reply(req, a)>>
      PROVE  /\ EcuTypeOK' /\ LateInv'
             /\ got.seed \in Seed
             /\ UNCHANGED ecu => ~LateBlock'
  <2>1. EcuTypeOK /\ EcuTypeOK'
    BY <1>4, HandleType DEF TransferInv
  <2>2. PICK y : y = Reply(req, a)
    OBVIOUS
  <2>3. y = [svc |-> req.svc, nrc |-> a, echo |-> IF req.svc = "block" THEN req.counter ELSE 0,
             seed |-> IF req.svc = "seed" /\ a = "positive" THEN ecu'.seed ELSE "none"]
    BY <2>2 DEF Reply
  <2>4. y \in Got
    <3>1. ecu'.seed \in Seed
      BY <2>1 DEF EcuTypeOK, EcuState
    <3> QED BY <1>1, <2>3, <3>1 DEF Got, Seed
  <2>5. /\ IsPositive(y, "block") =>
              y.echo = ecu'.counter /\ ecu'.counter = Up(ecu.counter) /\ ecu.counter \in 0 .. CounterMod - 1
        /\ IsPositive(y, "download") => ecu'.counter = 0 /\ transferred' = <<>>
    <3>1. y.svc = req.svc /\ y.nrc = a /\ (req.svc = "block" => y.echo = req.counter)
      BY <2>3
    <3>2. a = "positive" /\ req.svc = "download" => transferred' = <<>>
      BY <1>4 DEF Stored
    <3>3. ecu.counter \in 0 .. CounterMod - 1
      BY <2>1 DEF EcuTypeOK, EcuState
    <3> QED BY <1>4, <2>1, <3>1, <3>2, <3>3, CounterMoves DEF IsPositive
  <2>6. <<y>> # <<>> /\ <<y>>[1] = y
    OBVIOUS
  <2>7. LateInv'
    BY <1>4, <2>2, <2>4, <2>5 DEF LateInv
  <2>8. UNCHANGED ecu => ~LateBlock'
    <3> SUFFICES ASSUME UNCHANGED ecu, LateBlock' PROVE FALSE
      OBVIOUS
    <3>1. IsPositive(y, "block")
      BY <1>4, <2>2, <2>6 DEF LateBlock
    <3> QED BY <2>5, <3>1, UpFacts
  <2>9. y.seed \in Seed
    BY <2>4 DEF Got
  <2> QED BY <1>2, <1>4, <2>1, <2>2, <2>7, <2>8, <2>9
<1> QED BY <1>3, <1>4 DEF Served

\* Who is still alone after run r's exchange.
LEMMA AloneFacts ==
    ASSUME TransferInv, NEW r, NEW begins \in BOOLEAN, Alone(r, begins)
    PROVE  /\ alone' \in [Runs -> BOOLEAN]
           /\ \A u \in Runs : u # r /\ alone'[u] => alone[u] /\ UNCHANGED <<ecu, transferred>>
           /\ r \in Runs /\ ~begins => alone'[r] = alone[r]
<1> DEFINE F(s) == CASE s = r /\ begins -> TRUE
                     [] s # r /\ <<ecu, transferred>>' # <<ecu, transferred>> -> FALSE
                     [] OTHER -> alone[s]
<1>1. alone' = [s \in Runs |-> F(s)]
  BY DEF Alone
<1>2. ASSUME NEW s \in Runs
      PROVE  /\ F(s) \in BOOLEAN /\ (s # r /\ F(s) => alone[s] /\ UNCHANGED <<ecu, transferred>>)
             /\ s = r /\ ~begins => F(s) = alone[s]
  <2>1. alone[s] \in BOOLEAN
    BY DEF TransferInv
  <2> QED BY <2>1
<1> HIDE DEF F
<1> QED BY <1>1, <1>2

\* A run that is alone stays in step while another exchanges something that
\* leaves the ECU as it is.
LEMMA OthersInStep ==
    ASSUME TransferInv, NEW u \in Runs, thread'[u] = thread[u], alone[u], thread[u].pc \in InSegment,
           UNCHANGED <<ecu, transferred>>, ~LateBlock'
    PROVE  InStep(u)'
  BY DEF TransferInv, InStep

\* What run r's thread does with an answer concerns its own row.
LEMMA RunStep ==
    ASSUME TransferInv, NEW r \in Runs, NEW begins \in BOOLEAN, Alone(r, begins), NEW row \in Local,
           thread' = [thread EXCEPT ![r] = row], EcuTypeOK', LateInv', UNCHANGED ecu => ~LateBlock',
           alone'[r] /\ row.pc \in InSegment => InStep(r)'
    PROVE  TransferInv'
<1>1. thread' \in [Runs -> Local] /\ thread'[r] = row /\ \A u \in Runs : u # r => thread'[u] = thread[u]
  BY DEF TransferInv
<1>2. ASSUME NEW u \in Runs, alone'[u], thread'[u].pc \in InSegment
      PROVE  InStep(u)'
  <2>1. CASE u = r
    BY <1>1, <1>2, <2>1
  <2>2. CASE u # r
    BY <1>1, <1>2, <2>2, AloneFacts, OthersInStep
  <2> QED BY <2>1, <2>2
<1> QED BY <1>1, <1>2, AloneFacts DEF TransferInv

\* The blocks sent so far, and one more.
LEMMA OneMoreSent ==
    ASSUME NEW r, NEW g, NEW n \in Nat \ {0}
    PROVE  /\ Append(Sent(r, g, n - 1), [run |-> r, seg |-> g, blk |-> n]) = Sent(r, g, n)
           /\ Sent(r, g, 0) = <<>>
<1> DEFINE c(b) == [run |-> r, seg |-> g, blk |-> b]
           S == {c(b) : b \in Nat}
           t == Sent(r, g, n - 1)
           u == Append(t, c(n))
           m == n - 1
<1>1. m \in Nat /\ n = m + 1 /\ n \in Nat
  OBVIOUS
<1>2. \A b \in Nat : c(b) \in S
  OBVIOUS
<1>3. t = [b \in 1 .. m |-> c(b)] /\ Sent(r, g, n) = [b \in 1 .. n |-> c(b)]
  BY DEF Sent
<1> HIDE DEF c, S, t
<1>4. t \in Seq(S) /\ Len(t) = m /\ \A b \in 1 .. m : t[b] = c(b)
  BY <1>1, <1>2, <1>3
<1> HIDE DEF m
<1>5. u \in Seq(S) /\ Len(u) = n /\ DOMAIN u = 1 .. n
  BY <1>1, <1>2, <1>4
<1>6. ASSUME NEW b \in 1 .. n PROVE u[b] = c(b)
  <2>1. CASE b \in 1 .. m
    BY <1>1, <1>4, <2>1
  <2>2. CASE b = n
    BY <1>1, <1>4, <2>2
  <2>3. b \in 1 .. m \/ b = n
    BY <1>1
  <2> QED BY <2>1, <2>2, <2>3
<1> HIDE DEF u
<1>7. u = [b \in 1 .. n |-> c(b)]
  BY <1>5, <1>6
<1>8. Sent(r, g, 0) = <<>>
  BY DEF Sent
<1> QED BY <1>3, <1>7, <1>8 DEF u, t, c, m

\* A thread's row.
LEMMA RowOf ==
    ASSUME TransferInv, NEW r \in Runs
    PROVE  /\ thread[r] \in Local
           /\ thread[r].counter \in 0 .. CounterMod - 1 /\ Up(thread[r].counter) \in 0 .. CounterMod - 1
           /\ thread[r].blk \in Nat /\ Segments[thread[r].seg] \in Nat
  BY TransferAssumption, UpFacts DEF TransferInv, Local

\* Where a block's answer leads.
LEMMA AfterBlockFacts ==
    ASSUME TransferInv, NEW r \in Runs, thread[r].pc = "send", NEW got, NEW row, row = AfterBlock(r, got)
    PROVE  /\ row \in Local /\ row.seg = thread[r].seg
           /\ \/ row.pc = "failed"
              \/ /\ row.pc = "send" /\ row.blk = thread[r].blk
                 /\ \/ Rejected(got) /\ row.counter = thread[r].counter
                    \/ ~Rejected(got) /\ got.svc = "block" /\ got.echo # Up(thread[r].counter)
              \/ /\ row.pc = (IF thread[r].blk + 1 > Segments[thread[r].seg] THEN "exit" ELSE "check")
                 /\ row.blk = thread[r].blk + 1 /\ row.counter = Up(thread[r].counter)
                 /\ ~Rejected(got) /\ got.svc = "block" /\ got.echo = Up(thread[r].counter)
<1> DEFINE t == thread[r]
           up == Up(t.counter)
           b == t.blk + 1
           n == t.attempt + 1
           next == IF b > Segments[t.seg] THEN "exit" ELSE "check"
<1>1. /\ t \in Local /\ t.counter \in 0 .. CounterMod - 1 /\ up \in 0 .. CounterMod - 1 /\ b \in Nat
      /\ t.attempt \in 0 .. BlockRetries - 1 /\ 0 \in 0 .. BlockRetries - 1
      /\ n # BlockRetries => n \in 0 .. BlockRetries - 1
  <2>1. t \in Local /\ t.counter \in 0 .. CounterMod - 1 /\ up \in 0 .. CounterMod - 1 /\ t.blk \in Nat
    BY RowOf
  <2>2. t.attempt \in 0 .. BlockRetries - 1
    BY <2>1 DEF Local
  <2> HIDE DEF t, up
  <2>3. b \in Nat
    BY <2>1
  <2>4. BlockRetries \in Nat \ {0}
    BY TransferAssumption
  <2>5. 0 \in 0 .. BlockRetries - 1 /\ (n # BlockRetries => n \in 0 .. BlockRetries - 1)
    BY <2>2, <2>4
  <2> QED BY <2>1, <2>2, <2>3, <2>5
<1>2. next \in {"exit", "check"} /\ "failed" \in ThreadPlace /\ "exit" \in ThreadPlace /\ "check" \in ThreadPlace
  BY DEF ThreadPlace, Loading, Over
<1>3. AfterBlock(r, got) =
        IF Rejected(got) THEN TryAgain(r, t.counter)
        ELSE IF got.svc # "block" THEN [t EXCEPT !.pc = "failed"]
        ELSE IF got.echo # up THEN TryAgain(r, up)
        ELSE [t EXCEPT !.counter = up, !.attempt = 0, !.blk = b, !.pc = next]
  BY DEF AfterBlock, Loop
<1>4. ASSUME NEW c \in 0 .. CounterMod - 1
      PROVE  TryAgain(r, c) = IF n = BlockRetries THEN [t EXCEPT !.pc = "failed"]
                                                  ELSE [t EXCEPT !.counter = c, !.attempt = n]
  BY DEF TryAgain
<1> HIDE DEF t, up, b, n, next
<1>5. /\ [t EXCEPT !.pc = "failed"] \in Local /\ [t EXCEPT !.pc = "failed"].pc = "failed"
      /\ [t EXCEPT !.pc = "failed"].seg = t.seg
  BY <1>1, <1>2 DEF Local
<1>6. ASSUME NEW c \in 0 .. CounterMod - 1, NEW w, w = TryAgain(r, c)
      PROVE  /\ w \in Local /\ w.seg = t.seg
             /\ w.pc = "failed" \/ (w.pc = t.pc /\ w.blk = t.blk /\ w.counter = c)
  BY <1>1, <1>4, <1>5, <1>6 DEF Local
<1>7. ASSUME NEW w, w = [t EXCEPT !.counter = up, !.attempt = 0, !.blk = b, !.pc = next]
      PROVE  w \in Local /\ w.seg = t.seg /\ w.pc = next /\ w.blk = b /\ w.counter = up
  <2>1. next \in ThreadPlace
    BY <1>2
  <2> QED BY <1>1, <1>7, <2>1 DEF Local
<1>8. t.pc = "send"
  BY DEF t
<1>9. CASE Rejected(got)
  BY <1>1, <1>3, <1>6, <1>8, <1>9 DEF t
<1>10. CASE ~Rejected(got) /\ got.svc # "block"
  BY <1>3, <1>5, <1>10 DEF t
<1>11. CASE ~Rejected(got) /\ got.svc = "block" /\ got.echo # up
  BY <1>1, <1>3, <1>6, <1>8, <1>11 DEF t, up
<1>12. CASE ~Rejected(got) /\ got.svc = "block" /\ got.echo = up
  BY <1>1, <1>3, <1>7, <1>12 DEF t, up, b, next
<1> QED BY <1>9, <1>10, <1>11, <1>12

\* A reply to a block, as the client has it.
LEMMA BlockReply ==
    ASSUME NEW n, NEW a, NEW chunk, transferred' = Stored(Block(n), a, chunk)
    PROVE  /\ Block(n).svc = "block" /\ Block(n).counter = n
           /\ Reply(Block(n), a).svc = "block" /\ Reply(Block(n), a).nrc = a /\ Reply(Block(n), a).echo = n
           /\ a = "positive" => transferred' = Append(transferred, chunk)
           /\ a # "positive" => transferred' = transferred
  BY DEF Block, Reply, Stored

\* What the oldest answer can be.
LEMMA OldestFacts ==
    ASSUME TransferInv
    PROVE  /\ ~LateBlock => ~IsPositive(Oldest, "block")
           /\ IsPositive(Oldest, "block") => Oldest.echo = ecu.counter
           /\ IsPositive(Oldest, "download") => ecu.counter = 0 /\ transferred = <<>> /\ ~LateBlock
           /\ Oldest.svc = "block" => Oldest.nrc = "positive" \/ Rejected(Oldest)
<1>1. CASE late = <<>>
  <2>1. Oldest.svc = "none"
    BY <1>1 DEF Oldest, Silence
  <2> QED BY <2>1 DEF IsPositive
<1>2. CASE late # <<>>
  <2>1. PICK x \in Got : /\ late = <<x>>
                         /\ IsPositive(x, "block") => x.echo = ecu.counter
                         /\ IsPositive(x, "download") => ecu.counter = 0 /\ transferred = <<>>
    BY <1>2 DEF TransferInv, LateInv
  <2>2. Oldest = x /\ late[1] = x
    BY <1>2, <2>1 DEF Oldest
  <2>3. x.nrc \in Answer
    BY DEF Got
  <2> QED BY <1>2, <2>1, <2>2, <2>3 DEF IsPositive, LateBlock, Rejected, Answer
<1> QED BY <1>1, <1>2

\* An exchange of the block that run r is at: the ECU has it afterwards, or
\* the client is not told so; a positive answer is about this block, and it is
\* the last answer to it.
LEMMA BlockServed ==
    ASSUME TransferInv, NEW r \in Runs, thread[r].pc = "send", InStep(r), NEW got, NEW chunk,
           chunk = [run |-> r, seg |-> thread[r].seg, blk |-> thread[r].blk],
           Served(Block(Up(thread[r].counter)), chunk, got)
    PROVE  /\ \/ /\ transferred' = Sent(r, thread[r].seg, thread[r].blk)
                 /\ ecu'.counter = Up(thread[r].counter)
              \/ /\ transferred' = Sent(r, thread[r].seg, thread[r].blk - 1)
                 /\ ecu'.counter = thread[r].counter
                 /\ ~LateBlock' /\ ~IsPositive(got, "block")
           /\ IsPositive(got, "block") => got.echo = Up(thread[r].counter) /\ ~LateBlock'
           /\ got.svc = "block" => got.nrc = "positive" \/ Rejected(got)
<1> DEFINE t == thread[r]
           n == t.counter
           up == Up(n)
           req == Block(up)
           behind == transferred = Sent(r, t.seg, t.blk - 1) /\ ecu.counter = n /\ ~LateBlock
           ahead == transferred = Sent(r, t.seg, t.blk) /\ ecu.counter = up
           had == transferred' = Sent(r, t.seg, t.blk) /\ ecu'.counter = up
           lacked == transferred' = Sent(r, t.seg, t.blk - 1) /\ ecu'.counter = n
           goal == /\ had \/ (lacked /\ ~LateBlock' /\ ~IsPositive(got, "block"))
                   /\ IsPositive(got, "block") => got.echo = up /\ ~LateBlock'
                   /\ got.svc = "block" => got.nrc = "positive" \/ Rejected(got)
<1>1. behind \/ ahead
  BY DEF InStep
<1>2. n \in 0 .. CounterMod - 1 /\ up \in 0 .. CounterMod - 1 /\ up # n /\ Up(up) # up
  BY RowOf, UpFacts
<1>3. Append(Sent(r, t.seg, t.blk - 1), chunk) = Sent(r, t.seg, t.blk)
  <2>1. t.blk \in Nat \ {0}
    BY RowOf DEF InStep
  <2> QED BY <2>1, OneMoreSent
<1>4. EcuTypeOK
  BY DEF TransferInv
<1> HIDE DEF t, up, req
<1>5. CASE UNCHANGED <<ecu, transferred>> /\ got = Oldest /\ late' = <<>>
  <2>1. ~LateBlock'
    BY <1>5 DEF LateBlock
  <2>2. behind => ~IsPositive(got, "block")
    BY <1>5, OldestFacts
  <2>3. ahead /\ IsPositive(got, "block") => got.echo = up
    BY <1>5, OldestFacts
  <2> QED BY <1>1, <1>5, <2>1, <2>2, <2>3, OldestFacts DEF t, up
<1>6. ASSUME NEW a \in Answer, HandleRequest(req, a), transferred' = Stored(req, a, chunk),
             \/ late = <<>> /\ got = Reply(req, a) /\ late' = <<>>
             \/ got = Oldest /\ (late' = <<>> \/ late' = <<Reply(req, a)>>)
      PROVE  goal
  <2>1. /\ req.svc = "block" /\ req.counter = up
        /\ Reply(req, a).svc = "block" /\ Reply(req, a).nrc = a /\ Reply(req, a).echo = up
        /\ a = "positive" => transferred' = Append(transferred, chunk)
        /\ a # "positive" => transferred' = transferred
    BY <1>6, BlockReply DEF req
  <2>2. /\ a = "positive" => up = Up(ecu.counter) /\ ecu'.counter = Up(ecu.counter)
        /\ a # "positive" => ecu'.counter = ecu.counter
    BY <1>4, <1>6, <2>1, CounterMoves
  <2>3. a = "positive" => behind /\ had
    BY <1>1, <1>2, <1>3, <2>1, <2>2
  <2>4. a # "positive" => ~LateBlock' /\ (behind => lacked) /\ (ahead => had)
    <3> DEFINE y == Reply(req, a)
    <3>1. <<y>>[1] = y
      OBVIOUS
    <3>2. a # "positive" => ~IsPositive(y, "block")
      BY <2>1 DEF IsPositive
    <3> HIDE DEF y
    <3>3. late' = <<>> \/ late' = <<y>>
      BY <1>6 DEF y
    <3> QED BY <2>1, <2>2, <3>1, <3>2, <3>3 DEF LateBlock
  <2>5. CASE late = <<>> /\ got = Reply(req, a) /\ late' = <<>>
    <3>1. ~LateBlock'
      BY <2>5 DEF LateBlock
    <3>2. /\ got.svc = "block" /\ got.nrc = a /\ got.echo = up
          /\ IsPositive(got, "block") => a = "positive"
          /\ a = "positive" \/ Rejected(got)
      BY <1>6, <2>1, <2>5 DEF IsPositive, Rejected, Answer
    <3> QED BY <1>1, <2>3, <2>4, <3>1, <3>2
  <2>6. CASE got = Oldest
    <3>1. behind => ~IsPositive(got, "block")
      BY <2>6, OldestFacts
    <3>2. ahead /\ IsPositive(got, "block") => got.echo = up
      BY <2>6, OldestFacts
    <3>3. got.svc = "block" => got.nrc = "positive" \/ Rejected(got)
      BY <2>6, OldestFacts
    <3> QED BY <1>1, <2>3, <2>4, <3>1, <3>2, <3>3
  <2> QED BY <1>6, <2>5, <2>6
<1>7. goal
  BY <1>5, <1>6 DEF Served, req, up, t
<1> QED BY <1>7 DEF t, up

\* What the session, the settings and the security access ask of the ECU.
LEMMA PreludeServices ==
    ASSUME NEW r \in Runs, thread[r].pc \in Prelude
    PROVE  PreludeRequest(r).svc \in {"session", "dtcSetting", "communication", "seed", "key"}
  BY DEF PreludeRequest, Prelude, ToSession, Subfunction

\* Where that leads.
LEMMA AfterPreludeFacts ==
    ASSUME TransferInv, NEW r \in Runs, thread[r].pc \in Prelude, NEW got, got.seed \in Seed,
           NEW row, row = [thread[r] EXCEPT !.pc = AfterPrelude(r, got), !.seed = got.seed]
    PROVE  row \in Local /\ row.pc \notin InSegment
<1> DEFINE p == AfterPrelude(r, got)
<1>1. p \in {"crashed", "dtc", "comm", "programming", "seed", "begin", "key"}
  BY DEF AfterPrelude, Prelude
<1> HIDE DEF p
<1>2. p \in ThreadPlace /\ p \notin InSegment
  BY <1>1 DEF ThreadPlace, Prelude, Loading, Over, InSegment
<1>3. row = [thread[r] EXCEPT !.pc = p, !.seed = got.seed]
  BY DEF p
<1>4. thread[r] \in Local
  BY RowOf
<1>5. row \in Local /\ row.pc = p
  BY <1>2, <1>3, <1>4 DEF Local
<1> QED BY <1>2, <1>5

\* Where the answers to RequestDownload and to RequestTransferExit lead.
LEMMA AfterRequestFacts ==
    ASSUME TransferInv, NEW r \in Runs, NEW got, NEW row, row = AfterRequest(r, got)
    PROVE  /\ row \in Local /\ row.seg = thread[r].seg
           /\ \/ row.pc = "failed"
              \/ /\ IsPositive(got, "download")
                 /\ row.blk = 1 /\ row.counter = 0
                 /\ row.pc = (IF 1 > Segments[thread[r].seg] THEN "exit" ELSE "check")
<1> DEFINE t == thread[r]
           next == IF 1 > Segments[t.seg] THEN "exit" ELSE "check"
<1>1. next \in {"exit", "check"} /\ {"failed", "exit", "check"} \subseteq ThreadPlace
  BY DEF ThreadPlace, Loading, Over
<1>2. t \in Local
  BY RowOf
<1>3. 0 \in 0 .. CounterMod - 1 /\ 0 \in 0 .. BlockRetries - 1
  BY EcuAssumption, TransferAssumption
<1>4. row = IF IsPositive(got, "download")
            THEN [t EXCEPT !.pc = next, !.blk = 1, !.counter = 0, !.attempt = 0]
            ELSE [t EXCEPT !.pc = "failed"]
  BY DEF AfterRequest, Loop, IsPositive
<1> HIDE DEF t, next
<1>5. next \in ThreadPlace /\ "failed" \in ThreadPlace
  BY <1>1
<1>6. CASE IsPositive(got, "download")
  <2>1. row = [t EXCEPT !.pc = next, !.blk = 1, !.counter = 0, !.attempt = 0]
    BY <1>4, <1>6
  <2>2. 1 \in Nat /\ 0 \in 0 .. CounterMod - 1 /\ 0 \in 0 .. BlockRetries - 1 /\ next \in ThreadPlace
    BY <1>3, <1>5
  <2>3. row \in Local
    BY <1>2, <2>1, <2>2 DEF Local
  <2>4. row.seg = t.seg /\ row.pc = next /\ row.blk = 1 /\ row.counter = 0
    BY <1>2, <2>1 DEF Local
  <2> QED BY <1>6, <2>3, <2>4 DEF t, next
<1>7. CASE ~IsPositive(got, "download")
  <2>1. row \in Local /\ row.seg = t.seg /\ row.pc = "failed"
    BY <1>2, <1>4, <1>5, <1>7 DEF Local
  <2> QED BY <2>1 DEF t
<1> QED BY <1>6, <1>7

LEMMA AfterExitFacts ==
    ASSUME TransferInv, NEW r \in Runs, NEW got, NEW row, row = AfterExit(r, got)
    PROVE  row \in Local /\ row.pc \notin InSegment
<1> DEFINE t == thread[r]
           g == t.seg + 1
<1>1. {"failed", "begin", "completed"} \subseteq ThreadPlace
      /\ "failed" \notin InSegment /\ "begin" \notin InSegment /\ "completed" \notin InSegment
  BY DEF ThreadPlace, Loading, Over, InSegment
<1>2. t \in Local
  BY RowOf
<1>3. t.seg \in 1 .. Len(Segments) /\ Len(Segments) \in Nat
  <2>1. Len(Segments) \in Nat
    BY TransferAssumption
  <2> QED BY <1>2, <2>1 DEF Local
<1>4. t.seg < Len(Segments) => g \in 1 .. Len(Segments)
  BY <1>3
<1>5. \/ t.seg < Len(Segments) /\ row = [t EXCEPT !.pc = "begin", !.seg = g]
      \/ row = [t EXCEPT !.pc = "completed"]
      \/ row = [t EXCEPT !.pc = "failed"]
  BY DEF AfterExit
<1> HIDE DEF t, g
<1>6. "failed" \in ThreadPlace /\ "begin" \in ThreadPlace /\ "completed" \in ThreadPlace
  BY <1>1
<1>7. CASE t.seg < Len(Segments) /\ row = [t EXCEPT !.pc = "begin", !.seg = g]
  BY <1>1, <1>2, <1>4, <1>6, <1>7 DEF Local
<1>8. CASE row = [t EXCEPT !.pc = "completed"] \/ row = [t EXCEPT !.pc = "failed"]
  BY <1>1, <1>2, <1>6, <1>8 DEF Local
<1> QED BY <1>5, <1>7, <1>8

\* A step of run r that leaves the ECU and the answers alone.
LEMMA PlaceStep ==
    ASSUME TransferInv, NEW r \in Runs, NEW p \in ThreadPlace, thread' = [thread EXCEPT ![r].pc = p],
           UNCHANGED <<ecu, transferred, late, alone>>,
           p \in InSegment => thread[r].pc \in InSegment \ {"send", "exit"} /\ p # "exit"
    PROVE  TransferInv'
<1>1. /\ thread' \in [Runs -> Local]
      /\ thread'[r].pc = p /\ thread'[r].seg = thread[r].seg /\ thread'[r].blk = thread[r].blk
      /\ thread'[r].counter = thread[r].counter
      /\ \A u \in Runs : u # r => thread'[u] = thread[u]
  <2> DEFINE row == [thread[r] EXCEPT !.pc = p]
  <2>1. thread' = [thread EXCEPT ![r] = row]
    OBVIOUS
  <2>2. /\ row \in Local /\ row.pc = p /\ row.seg = thread[r].seg /\ row.blk = thread[r].blk
        /\ row.counter = thread[r].counter
    <3>1. thread[r] \in Local
      BY RowOf
    <3> QED BY <3>1 DEF Local
  <2> HIDE DEF row
  <2> QED BY <2>1, <2>2 DEF TransferInv
<1>2. ASSUME NEW u \in Runs, alone'[u], thread'[u].pc \in InSegment
      PROVE  InStep(u)'
  <2>1. alone[u] /\ LateBlock' = LateBlock
    BY <1>2 DEF LateBlock
  <2>2. CASE u # r
    <3>1. thread'[u] = thread[u] /\ InStep(u)
      BY <1>1, <1>2, <2>1, <2>2 DEF TransferInv
    <3> QED BY <2>1, <3>1 DEF InStep
  <2>3. CASE u = r
    <3>1. thread[r].pc \in InSegment \ {"send", "exit"} /\ p # "exit" /\ InStep(r)
      BY <1>1, <1>2, <2>1, <2>3 DEF TransferInv
    <3> QED BY <1>1, <2>1, <2>3, <3>1 DEF InStep
  <2> QED BY <2>2, <2>3
<1> QED BY <1>1, <1>2 DEF TransferInv, LateInv, EcuTypeOK

\* The requests of the client.
LEMMA Requests ==
    /\ Plain("download").svc = "download" /\ Plain("exit").svc = "exit"
    /\ ToSession("default").svc = "session" /\ Subfunction("reset").svc = "reset"
    /\ \A n : Block(n).svc = "block" /\ Block(n).counter = n
    /\ {"session", "dtcSetting", "communication", "seed", "key", "download", "exit", "reset"}
          \subseteq Services \ {"none", "block"}
    /\ "block" \in Services \ {"none"}
  BY DEF Plain, ToSession, Subfunction, Block, Services

\* A row that is not on its way through a segment promises nothing.
LEMMA IdleRow ==
    ASSUME TransferInv, NEW r \in Runs, NEW begins \in BOOLEAN, Alone(r, begins), NEW row \in Local,
           thread' = [thread EXCEPT ![r] = row], row.pc \notin InSegment,
           NEW req, req.svc \in Services \ {"none", "block"}, NEW chunk, NEW got, Served(req, chunk, got)
    PROVE  TransferInv'
<1>1. EcuTypeOK' /\ LateInv' /\ (UNCHANGED ecu => ~LateBlock')
  BY Exchanged
<1> QED BY <1>1, RunStep

LEMMA PrepareKeeps ==
    ASSUME TransferInv, NEW r \in Runs, Prepare(r)
    PROVE  TransferInv'
<1>1. LateInv /\ thread[r].pc \in Prelude
  BY DEF TransferInv, Prepare
<1>2. PICK chunk, got :
         /\ Served(PreludeRequest(r), chunk, got) /\ Alone(r, FALSE)
         /\ thread' = [thread EXCEPT ![r] = [thread[r] EXCEPT !.pc = AfterPrelude(r, got), !.seed = got.seed]]
  BY <1>1, PrepareAsks
<1>3. PICK row : row = [thread[r] EXCEPT !.pc = AfterPrelude(r, got), !.seed = got.seed]
  OBVIOUS
<1>4. PICK req : req = PreludeRequest(r)
  OBVIOUS
<1>5. req.svc \in {"session", "dtcSetting", "communication", "seed", "key"}
  BY <1>1, <1>4, PreludeServices
<1>6. req.svc \in Services \ {"none", "block"}
  BY <1>5, Requests
<1>7. got.seed \in Seed
  BY <1>2, <1>4, <1>6, Exchanged
<1>8. row \in Local /\ row.pc \notin InSegment
  BY <1>1, <1>3, <1>7, AfterPreludeFacts
<1>9. Served(req, chunk, got) /\ thread' = [thread EXCEPT ![r] = row]
  BY <1>2, <1>3, <1>4
<1>10. Alone(r, FALSE)
  BY <1>2
<1> HIDE DEF Served
<1> QED BY <1>6, <1>8, <1>9, <1>10, IdleRow

LEMMA ExitKeeps ==
    ASSUME TransferInv, NEW r \in Runs, Exit(r)
    PROVE  TransferInv'
<1>1. LateInv
  BY DEF TransferInv
<1>2. PICK chunk, got :
         /\ Served(Plain("exit"), chunk, got) /\ Alone(r, FALSE)
         /\ thread' = [thread EXCEPT ![r] = AfterExit(r, got)]
  BY <1>1, ExitAsks
<1>3. PICK row : row = AfterExit(r, got)
  OBVIOUS
<1>4. row \in Local /\ row.pc \notin InSegment
  BY <1>3, AfterExitFacts
<1>5. PICK req : req = Plain("exit")
  OBVIOUS
<1>6. req.svc \in Services \ {"none", "block"}
  BY <1>5, Requests
<1> QED BY <1>2, <1>3, <1>4, <1>5, <1>6, IdleRow

\* A segment begins in step: the ECU counts from 0 and holds nothing, whether
\* the positive answer is to this request or to an earlier one.
LEMMA RequestKeeps ==
    ASSUME TransferInv, NEW r \in Runs, RequestPermission(r)
    PROVE  TransferInv'
<1>1. LateInv
  BY DEF TransferInv
<1>2. PICK chunk, got :
         /\ Served(Plain("download"), chunk, got) /\ Alone(r, TRUE)
         /\ thread' = [thread EXCEPT ![r] = AfterRequest(r, got)]
  BY <1>1, RequestAsks
<1>3. PICK row : row = AfterRequest(r, got)
  OBVIOUS
<1>4. PICK req : req = Plain("download")
  OBVIOUS
<1>5. req.svc = "download" /\ req.svc \in Services \ {"none", "block"}
  BY <1>4, Requests
<1>6. Served(req, chunk, got)
  BY <1>2, <1>4
<1>7. EcuTypeOK' /\ LateInv' /\ (UNCHANGED ecu => ~LateBlock')
  BY <1>5, <1>6, Exchanged
<1>8. IsPositive(got, "download") => ecu'.counter = 0 /\ transferred' = <<>> /\ ~LateBlock'
  <2>1. EcuTypeOK
    BY DEF TransferInv
  <2>2. CASE UNCHANGED <<ecu, transferred>> /\ got = Oldest /\ late' = <<>>
    BY <2>2, OldestFacts DEF LateBlock
  <2>3. ASSUME NEW a \in Answer, HandleRequest(req, a), transferred' = Stored(req, a, chunk),
               \/ late = <<>> /\ got = Reply(req, a) /\ late' = <<>>
               \/ got = Oldest /\ (late' = <<>> \/ late' = <<Reply(req, a)>>),
               IsPositive(got, "download")
        PROVE  ecu'.counter = 0 /\ transferred' = <<>> /\ ~LateBlock'
    <3> DEFINE y == Reply(req, a)
    <3>1. y.svc = "download" /\ y.nrc = a /\ <<y>>[1] = y
      BY <1>5 DEF Reply
    <3> HIDE DEF y
    <3>2. ~IsPositive(y, "block") /\ (late' = <<>> \/ late' = <<y>>)
      BY <2>3, <3>1 DEF IsPositive, y
    <3>3. ~LateBlock'
      BY <3>1, <3>2 DEF LateBlock
    <3>4. CASE a = "positive"
      <4>1. ecu'.counter = 0
        BY <1>5, <2>1, <2>3, <3>4, CounterMoves
      <4>2. transferred' = <<>>
        BY <1>5, <2>3, <3>4 DEF Stored
      <4> QED BY <3>3, <4>1, <4>2
    <3>5. CASE a # "positive"
      <4>1. got = Oldest
        BY <2>3, <3>1, <3>5 DEF IsPositive, y
      <4>2. ecu.counter = 0 /\ transferred = <<>>
        BY <2>3, <4>1, OldestFacts
      <4>3. ecu'.counter = ecu.counter
        BY <2>1, <2>3, <3>5, CounterMoves
      <4>4. transferred' = transferred
        BY <2>3, <3>5 DEF Stored
      <4> QED BY <3>3, <4>2, <4>3, <4>4
    <3> QED BY <3>4, <3>5
  <2> QED BY <1>6, <2>2, <2>3 DEF Served
<1>9. /\ row \in Local /\ row.seg = thread[r].seg
      /\ \/ row.pc = "failed"
         \/ /\ IsPositive(got, "download")
            /\ row.blk = 1 /\ row.counter = 0
            /\ row.pc = (IF 1 > Segments[thread[r].seg] THEN "exit" ELSE "check")
  BY <1>3, AfterRequestFacts
<1>10. thread' = [thread EXCEPT ![r] = row] /\ thread'[r] = row
  BY <1>2, <1>3 DEF TransferInv
<1>11. row.pc \in InSegment => InStep(r)'
  <2> SUFFICES ASSUME row.pc \in InSegment PROVE InStep(r)'
    OBVIOUS
  <2>1. IsPositive(got, "download") /\ row.blk = 1 /\ row.counter = 0
        /\ row.pc = (IF 1 > Segments[thread[r].seg] THEN "exit" ELSE "check")
    BY <1>9 DEF InSegment
  <2>2. /\ row.pc = "exit" => row.blk = Segments[row.seg] + 1
        /\ row.pc # "exit" => row.blk \in 1 .. Segments[row.seg]
    BY <1>9, <2>1, RowOf
  <2>3. row.blk - 1 = 0
    BY <2>1
  <2>4. transferred' = Sent(r, row.seg, row.blk - 1)
    <3>1. Sent(r, row.seg, 0) = <<>>
      BY DEF Sent
    <3> QED BY <1>8, <2>1, <2>3, <3>1
  <2> QED BY <1>8, <1>10, <2>1, <2>2, <2>4 DEF InStep
<1>12. Alone(r, TRUE)
  BY <1>2
<1> QED BY <1>7, <1>9, <1>10, <1>11, <1>12, RunStep

\* A block that run r sends keeps it in step, or ends the run.
LEMMA SendBlockKeeps ==
    ASSUME TransferInv, NEW r \in Runs, SendBlock(r)
    PROVE  TransferInv'
<1>1. LateInv /\ thread[r].pc = "send"
  BY DEF TransferInv, SendBlock
<1>2. PICK got :
         /\ Served(Block(Up(thread[r].counter)),
                   [run |-> r, seg |-> thread[r].seg, blk |-> thread[r].blk], got)
         /\ Alone(r, FALSE)
         /\ thread' = [thread EXCEPT ![r] = AfterBlock(r, got)]
  BY <1>1, BlockAsks
<1>3. PICK row : row = AfterBlock(r, got)
  OBVIOUS
<1>4. PICK chunk : chunk = [run |-> r, seg |-> thread[r].seg, blk |-> thread[r].blk]
  OBVIOUS
<1>5. PICK req : req = Block(Up(thread[r].counter))
  OBVIOUS
<1>6. Served(req, chunk, got) /\ Served(Block(Up(thread[r].counter)), chunk, got) /\ Alone(r, FALSE)
  BY <1>2, <1>4, <1>5
<1>7. EcuTypeOK' /\ LateInv' /\ (UNCHANGED ecu => ~LateBlock')
  <2>1. req.svc \in Services \ {"none"}
    BY <1>5, Requests
  <2>2. req.counter \in 0 .. CounterMod - 1
    BY <1>5, Requests, RowOf
  <2> HIDE DEF Served
  <2> QED BY <1>6, <2>1, <2>2, Exchanged
<1>8. /\ row \in Local /\ row.seg = thread[r].seg
      /\ \/ row.pc = "failed"
         \/ /\ row.pc = "send" /\ row.blk = thread[r].blk
            /\ \/ Rejected(got) /\ row.counter = thread[r].counter
               \/ ~Rejected(got) /\ got.svc = "block" /\ got.echo # Up(thread[r].counter)
         \/ /\ row.pc = (IF thread[r].blk + 1 > Segments[thread[r].seg] THEN "exit" ELSE "check")
            /\ row.blk = thread[r].blk + 1 /\ row.counter = Up(thread[r].counter)
            /\ ~Rejected(got) /\ got.svc = "block" /\ got.echo = Up(thread[r].counter)
  BY <1>1, <1>3, AfterBlockFacts
<1>9. thread' = [thread EXCEPT ![r] = row] /\ thread'[r] = row
  BY <1>2, <1>3 DEF TransferInv
<1>10. ASSUME alone'[r], row.pc \in InSegment PROVE InStep(r)'
  <2>1. InStep(r)
    <3>1. alone[r]
      BY <1>6, <1>10, AloneFacts
    <3> QED BY <1>1, <3>1 DEF TransferInv, InSegment
  <2>2. /\ \/ /\ transferred' = Sent(r, thread[r].seg, thread[r].blk)
              /\ ecu'.counter = Up(thread[r].counter)
           \/ /\ transferred' = Sent(r, thread[r].seg, thread[r].blk - 1)
              /\ ecu'.counter = thread[r].counter
              /\ ~LateBlock' /\ ~IsPositive(got, "block")
        /\ IsPositive(got, "block") => got.echo = Up(thread[r].counter) /\ ~LateBlock'
        /\ got.svc = "block" => got.nrc = "positive" \/ Rejected(got)
    BY <1>1, <1>4, <1>6, <2>1, BlockServed
  <2>3. thread[r].blk \in 1 .. Segments[thread[r].seg] /\ Segments[thread[r].seg] \in Nat
    BY <1>1, <2>1, RowOf DEF InStep
  <2>4. got.svc = "block" /\ ~Rejected(got) => IsPositive(got, "block")
    BY <2>2 DEF IsPositive
  <2>5. row.pc # "failed"
    BY <1>10 DEF InSegment
  <2>6. CASE row.pc = "send" /\ row.blk = thread[r].blk /\ row.counter = thread[r].counter
    BY <1>8, <1>9, <2>2, <2>3, <2>6 DEF InStep
  <2>7. CASE /\ row.pc = (IF thread[r].blk + 1 > Segments[thread[r].seg] THEN "exit" ELSE "check")
             /\ row.blk = thread[r].blk + 1 /\ row.counter = Up(thread[r].counter)
             /\ IsPositive(got, "block")
    <3>1. /\ row.pc = "exit" => row.blk = Segments[row.seg] + 1
          /\ row.pc # "exit" => row.blk \in 1 .. Segments[row.seg]
          /\ row.blk - 1 = thread[r].blk
      BY <1>8, <2>3, <2>7
    <3>2. /\ transferred' = Sent(r, row.seg, row.blk - 1) /\ ecu'.counter = row.counter /\ ~LateBlock'
      BY <1>8, <2>2, <2>7, <3>1
    <3> QED BY <1>9, <3>1, <3>2 DEF InStep
  <2> QED BY <1>8, <2>2, <2>4, <2>5, <2>6, <2>7
<1> QED BY <1>6, <1>7, <1>8, <1>9, <1>10, RunStep

\* Another panel's request: a run that is still alone was not disturbed.
LEMMA OtherKeeps ==
    ASSUME TransferInv, OtherPanel
    PROVE  TransferInv'
<1>1. LateInv
  BY DEF TransferInv
<1>2. PICK req, chunk, got : /\ req \in {ToSession("default"), Subfunction("reset")}
                             /\ Served(req, chunk, got)
  BY <1>1, OthersAsk
<1>3. Alone(0, FALSE) /\ thread' = thread
  BY <1>1, OthersAsk
<1>4. req.svc \in Services \ {"none", "block"}
  BY <1>2, Requests
<1>5. EcuTypeOK' /\ LateInv' /\ (UNCHANGED ecu => ~LateBlock')
  <2> HIDE DEF Served
  <2> QED BY <1>2, <1>4, Exchanged
<1>6. /\ alone' \in [Runs -> BOOLEAN]
      /\ \A u \in Runs : alone'[u] => alone[u] /\ UNCHANGED <<ecu, transferred>>
  <2>1. \A u \in Runs : u # 0
    BY TransferAssumption DEF Runs
  <2> QED BY <1>3, <2>1, AloneFacts
<1>7. ASSUME NEW u \in Runs, alone'[u], thread'[u].pc \in InSegment PROVE InStep(u)'
  BY <1>3, <1>5, <1>6, <1>7, OthersInStep
<1> QED BY <1>3, <1>5, <1>6, <1>7 DEF TransferInv

\* Nothing runs at the start.
LEMMA TransferBegins == TransferInit => TransferInv
<1> SUFFICES ASSUME TransferInit PROVE TransferInv
  OBVIOUS
<1>1. EcuTypeOK
  BY PowerOnType DEF TransferInit, EcuInit, EcuTypeOK
<1>2. NewThread \in Local /\ NewThread.pc \notin InSegment
  <2>1. "off" \in ThreadPlace /\ "none" \in Seed
    BY DEF ThreadPlace, Seed
  <2>2. 1 \in 1 .. Len(Segments)
    <3>1. Len(Segments) \in Nat \ {0}
      BY TransferAssumption
    <3> QED BY <3>1
  <2>3. 0 \in 0 .. CounterMod - 1 /\ 0 \in 0 .. BlockRetries - 1
    BY EcuAssumption, TransferAssumption
  <2> QED BY <2>1, <2>2, <2>3 DEF NewThread, Local, InSegment
<1> QED BY <1>1, <1>2 DEF TransferInit, TransferInv, LateInv

\* Every step keeps the runs that are alone in step.
LEMMA TransferStep == TransferInv /\ [TransferNext]_transferVars => TransferInv'
<1> SUFFICES ASSUME TransferInv, [TransferNext]_transferVars PROVE TransferInv'
  OBVIOUS
<1>1. CASE UNCHANGED <<ecu, transferred, late, alone, thread>>
  BY <1>1 DEF TransferInv, LateInv, EcuTypeOK, InStep, LateBlock
<1>2. ASSUME NEW r \in Runs, Start(r) \/ BeginSegment(r) \/ CheckCancel(r) \/ Hold(r) \/ Told(r)
      PROVE  TransferInv'
  <2>1. UNCHANGED <<ecu, transferred, late, alone>>
    BY <1>2 DEF Start, BeginSegment, CheckCancel, Hold, Told
  <2>2. \/ \E p \in {"extended", "request", "cancelled", "told"} : thread' = [thread EXCEPT ![r].pc = p]
        \/ thread[r].pc = "check" /\ thread' = [thread EXCEPT ![r].pc = "hold"]
        \/ thread[r].pc = "hold" /\ thread' = [thread EXCEPT ![r].pc = "send"]
    BY <1>2 DEF Start, BeginSegment, CheckCancel, Hold, Told
  <2>3. /\ {"extended", "request", "cancelled", "told", "hold", "send"} \subseteq ThreadPlace
        /\ {"extended", "request", "cancelled", "told"} \cap InSegment = {}
        /\ {"check", "hold"} \subseteq InSegment \ {"send", "exit"}
    BY DEF ThreadPlace, Prelude, Loading, Over, InSegment
  <2>4. ASSUME NEW p \in {"extended", "request", "cancelled", "told"}, thread' = [thread EXCEPT ![r].pc = p]
        PROVE  TransferInv'
    BY <2>1, <2>3, <2>4, PlaceStep
  <2>5. CASE thread[r].pc = "check" /\ thread' = [thread EXCEPT ![r].pc = "hold"]
    BY <2>1, <2>3, <2>5, PlaceStep
  <2>6. CASE thread[r].pc = "hold" /\ thread' = [thread EXCEPT ![r].pc = "send"]
    BY <2>1, <2>3, <2>6, PlaceStep
  <2> QED BY <2>2, <2>4, <2>5, <2>6
<1>3. ASSUME NEW r \in Runs, Prepare(r) \/ RequestPermission(r) \/ SendBlock(r) \/ Exit(r)
      PROVE  TransferInv'
  BY <1>3, PrepareKeeps, RequestKeeps, SendBlockKeeps, ExitKeeps
<1>4. CASE Cancel \/ Pause(TRUE) \/ Pause(FALSE)
  BY <1>1, <1>4 DEF Cancel, Pause
<1>5. CASE OtherPanel
  BY <1>5, OtherKeeps
<1>6. CASE UNCHANGED transferVars
  BY <1>1, <1>6 DEF transferVars
<1> QED BY <1>2, <1>3, <1>4, <1>5, <1>6 DEF TransferNext, Advance

\* A segment that a flashing run reports as completed is in the ECU whole and
\* in order, every block once, whatever was lost, late or retried on the way,
\* unless somebody else touched the ECU (TransferManager.download,
\* send_block, _send_with_retry, ecu_simulator._svc_transfer_data): for every
\* number of runs, of segments and blocks, of retries and disturbances, and
\* every modulus of the block counter from 2 on.
THEOREM CompletedIsWholeAlways == TransferSpec => CompletedIsWhole
<1>1. TransferInv => [\A r \in Runs : Completes(r) /\ alone[r]
                        => transferred = Payload(r, thread[r].seg)]_transferVars
  <2> SUFFICES ASSUME TransferInv, NEW r \in Runs, thread[r].pc = "exit", alone[r]
               PROVE  transferred = Payload(r, thread[r].seg)
    BY DEF Completes
  <2>1. InStep(r)
    BY DEF TransferInv, InSegment
  <2>2. thread[r].blk - 1 = Segments[thread[r].seg]
    BY <2>1, RowOf DEF InStep
  <2> QED BY <2>1, <2>2 DEF InStep, Sent, Payload
<1> QED BY <1>1, TransferBegins, TransferStep, PTL DEF TransferSpec, CompletedIsWhole
-----------------------------------------------------------------------------
(* Transfer: the blocks the ECU counted are the blocks it stored.          *)

Counts == ecu.counter = Len(transferred) % CounterMod

\* TransferTypeOK, and that a busy view shows a run.
TransferTyped ==
    /\ TransferInv
    /\ manager \in [Runs -> [made : BOOLEAN, cancel : BOOLEAN, pause : BOOLEAN]]
    /\ view \in [busy : BOOLEAN, run : 0 .. MaxRuns] /\ (view.busy => view.run \in Runs)
    /\ transferred \in Seq(Chunk) /\ Counts
    /\ upsets \in 0 .. MaxUpsets

\* Counting on wraps around as the remainder does.
LEMMA CountsOn ==
    ASSUME NEW n \in Nat
    PROVE  Up(n % CounterMod) = (n + 1) % CounterMod
<1> DEFINE m == CounterMod
           q == n \div m
           r == n % m
<1>1. m \in Nat /\ m >= 2
  BY EcuAssumption
<1> HIDE DEF m
<1>2. q \in Nat /\ r \in 0 .. m - 1 /\ n = m * q + r
  BY <1>1, Z3
<1> HIDE DEF q, r
<1>3. (n + 1) % m = (r + 1) % m
  <2>1. CASE r + 1 < m
    BY <1>1, <1>2, <2>1, Z3
  <2>2. CASE r + 1 = m
    <3>1. n + 1 = m * (q + 1)
      BY <1>1, <1>2, <2>2, Z3
    <3>2. q + 1 \in Nat
      BY <1>2
    <3> DEFINE k == n + 1
               d == k \div m
               e == k % m
               p == q + 1
    <3>3. k \in Nat /\ k = m * p
      BY <3>1
    <3>a. k \in Nat
      BY <3>3
    <3> HIDE DEF k, p
    <3>4. d \in Nat /\ e \in 0 .. m - 1 /\ k = m * d + e
      BY <1>1, <3>a, Z3
    <3> HIDE DEF d, e
    <3>5. p \in Nat
      BY <3>2 DEF p
    <3>6. e = 0
      <4> DEFINE f == p - d
      <4>1. f \in Int /\ m * f = e
        BY <1>1, <3>3, <3>4, <3>5, Z3
      <4> HIDE DEF f
      <4>2. ~(f >= 1) /\ ~(f <= -1)
        BY <1>1, <3>4, <4>1, Z3
      <4>3. f = 0
        BY <4>1, <4>2
      <4> QED BY <1>1, <4>1, <4>3, Z3
    <3>7. m % m = 0
      BY <1>1
    <3> QED BY <2>2, <3>6, <3>7 DEF e, k
  <2> QED BY <1>1, <1>2, <2>1, <2>2
<1> QED BY <1>3 DEF Up, m, r

\* What the ECU stores of a request, it counts.
LEMMA StoredCounts ==
    ASSUME TransferTyped, NEW req, NEW chunk, chunk \in Chunk \/ req.svc # "block",
           NEW a \in Answer, HandleRequest(req, a), transferred' = Stored(req, a, chunk)
    PROVE  transferred' \in Seq(Chunk) /\ Counts'
<1>1. EcuTypeOK /\ transferred \in Seq(Chunk) /\ Counts /\ Len(transferred) \in Nat
  BY DEF TransferTyped, TransferInv
<1>2. CASE a = "positive" /\ req.svc = "block"
  <2>1. transferred' = Append(transferred, chunk) /\ chunk \in Chunk
    BY <1>2 DEF Stored
  <2>2. transferred' \in Seq(Chunk) /\ Len(transferred') = Len(transferred) + 1
    BY <1>1, <2>1
  <2>3. ecu'.counter = Up(ecu.counter)
    BY <1>1, <1>2, CounterMoves
  <2> QED BY <1>1, <2>2, <2>3, CountsOn DEF Counts
<1>3. CASE a = "positive" /\ req.svc \in {"download", "reset"}
  <2>1. transferred' = <<>> /\ Len(transferred') = 0 /\ <<>> \in Seq(Chunk)
    BY <1>3 DEF Stored
  <2>2. ecu'.counter = 0
    <3>1. CASE req.svc = "download"
      BY <1>1, <1>3, <3>1, CounterMoves
    <3>2. CASE req.svc = "reset"
      BY <1>3, <3>2 DEF HandleRequest, InjectError, SessionControl, EcuReset, RequestSeed, WrongKey, RightKey,
         SecurityBarred, KeyOutOfSequence, RequestDownload, TransferData, TransferExit, IoControl, WriteDid,
         RoutineControl, ControlDtcSetting, CommunicationControl, ReadDtc, ClearDtc, Stateless, Refuse, PowerOn,
         Negative
    <3> QED BY <1>3, <3>1, <3>2
  <2>3. 0 % CounterMod = 0
    BY EcuAssumption, Z3
  <2> QED BY <2>1, <2>2, <2>3 DEF Counts
<1>4. CASE ~(a = "positive" /\ req.svc \in {"block", "download", "reset"})
  <2>1. transferred' = transferred
    BY <1>4 DEF Stored
  <2>2. ecu'.counter = ecu.counter
    BY <1>1, <1>4, CounterMoves
  <2> QED BY <1>1, <2>1, <2>2 DEF Counts
<1> QED BY <1>2, <1>3, <1>4

\* The same of an exchange.
LEMMA ServedCounts ==
    ASSUME TransferTyped, NEW req, NEW chunk, chunk \in Chunk \/ req.svc # "block",
           NEW got, Served(req, chunk, got)
    PROVE  transferred' \in Seq(Chunk) /\ Counts'
<1>1. CASE UNCHANGED <<ecu, transferred>>
  BY <1>1 DEF TransferTyped, Counts
<1>2. ASSUME NEW a \in Answer, HandleRequest(req, a), transferred' = Stored(req, a, chunk)
      PROVE  transferred' \in Seq(Chunk) /\ Counts'
  BY <1>2, StoredCounts
<1> QED BY <1>1, <1>2 DEF Served

\* Exchanges that are disturbed are counted.
LEMMA UpsetsCounted ==
    ASSUME TransferTyped, NEW r \in Runs, Prepare(r) \/ RequestPermission(r) \/ SendBlock(r) \/ Exit(r)
    PROVE  upsets' \in 0 .. MaxUpsets
<1>1. upsets' = upsets \/ Upset
  <2>2. CASE Prepare(r)
    <3> DEFINE req == PreludeRequest(r)
               After(got) == [thread[r] EXCEPT !.pc = AfterPrelude(r, got), !.seed = got.seed]
    <3>1. Ask(r, req, FALSE, After)
      BY <2>2 DEF Prepare
    <3> HIDE DEF req, After
    <3> QED BY <3>1 DEF Ask, Exchange
  <2>3. CASE RequestPermission(r)
    <3> DEFINE req == Plain("download")
    <3>1. Ask(r, req, TRUE, LAMBDA got : AfterRequest(r, got))
      BY <2>3 DEF RequestPermission
    <3> HIDE DEF req
    <3> QED BY <3>1 DEF Ask, Exchange
  <2>4. CASE SendBlock(r)
    <3> DEFINE req == Block(Up(thread[r].counter))
    <3>1. Ask(r, req, FALSE, LAMBDA got : AfterBlock(r, got))
      BY <2>4 DEF SendBlock
    <3> HIDE DEF req
    <3> QED BY <3>1 DEF Ask, Exchange
  <2>5. CASE Exit(r)
    <3> DEFINE req == Plain("exit")
    <3>1. Ask(r, req, FALSE, LAMBDA got : AfterExit(r, got))
      BY <2>5 DEF Exit
    <3> HIDE DEF req
    <3> QED BY <3>1 DEF Ask, Exchange
  <2> QED BY <2>2, <2>3, <2>4, <2>5
<1>2. upsets \in 0 .. MaxUpsets /\ MaxUpsets \in Nat
  BY TransferAssumption DEF TransferTyped
<1> QED BY <1>1, <1>2 DEF Upset

\* A run's exchanges.
LEMMA AskingTyped ==
    ASSUME TransferTyped, NEW r \in Runs, Prepare(r) \/ RequestPermission(r) \/ SendBlock(r) \/ Exit(r)
    PROVE  transferred' \in Seq(Chunk) /\ Counts'
<1>1. LateInv /\ thread[r] \in Local
  BY DEF TransferTyped, TransferInv
<1>2. CASE Prepare(r)
  <2>1. PICK chunk, got : Served(PreludeRequest(r), chunk, got)
    BY <1>1, <1>2, PrepareAsks
  <2>2. PICK req : req = PreludeRequest(r)
    OBVIOUS
  <2>3. req.svc # "block"
    BY <1>2, <2>2, PreludeServices DEF Prepare
  <2> HIDE DEF Served
  <2> QED BY <2>1, <2>2, <2>3, ServedCounts
<1>3. CASE RequestPermission(r)
  <2>1. PICK chunk, got : Served(Plain("download"), chunk, got)
    BY <1>1, <1>3, RequestAsks
  <2> QED BY <2>1, Requests, ServedCounts
<1>4. CASE SendBlock(r)
  <2> DEFINE chunk == [run |-> r, seg |-> thread[r].seg, blk |-> thread[r].blk]
  <2>1. PICK got : Served(Block(Up(thread[r].counter)), chunk, got)
    BY <1>1, <1>4, BlockAsks
  <2>2. chunk \in Chunk
    BY <1>1 DEF Chunk, Local
  <2> HIDE DEF chunk
  <2> QED BY <2>1, <2>2, ServedCounts
<1>5. CASE Exit(r)
  <2>1. PICK chunk, got : Served(Plain("exit"), chunk, got)
    BY <1>1, <1>5, ExitAsks
  <2> QED BY <2>1, Requests, ServedCounts
<1> QED BY <1>2, <1>3, <1>4, <1>5

\* Every step keeps the types.
LEMMA TypedStep == TransferTyped /\ [TransferNext]_transferVars => TransferTyped'
<1> SUFFICES ASSUME TransferTyped, [TransferNext]_transferVars PROVE TransferTyped'
  OBVIOUS
<1>0. TransferInv'
  BY TransferStep DEF TransferTyped
<1>1. CASE UNCHANGED transferVars
  BY <1>0, <1>1 DEF transferVars, TransferTyped, Counts
<1>2. ASSUME NEW r \in Runs, Prepare(r) \/ RequestPermission(r) \/ SendBlock(r) \/ Exit(r)
      PROVE  TransferTyped'
  <2>1. UNCHANGED <<manager, view>>
    BY <1>2 DEF Prepare, RequestPermission, SendBlock, Exit
  <2> QED BY <1>0, <1>2, <2>1, AskingTyped, UpsetsCounted DEF TransferTyped
<1>3. ASSUME NEW r \in Runs, BeginSegment(r) PROVE TransferTyped'
  BY <1>0, <1>3 DEF BeginSegment, TransferTyped, Counts
<1>4. ASSUME NEW r \in Runs, CheckCancel(r) \/ Hold(r) PROVE TransferTyped'
  BY <1>0, <1>4 DEF CheckCancel, Hold, TransferTyped, Counts
<1>5. ASSUME NEW r \in Runs, Start(r) \/ Told(r) PROVE TransferTyped'
  <2>1. view' \in [busy : BOOLEAN, run : 0 .. MaxRuns] /\ (view'.busy => view'.run \in Runs)
    <3>1. CASE Start(r)
      <4>1. r \in 0 .. MaxRuns /\ view' = [busy |-> TRUE, run |-> r]
        BY <3>1, TransferAssumption DEF Start, Runs
      <4> QED BY <4>1
    <3>2. CASE Told(r)
      BY <3>2 DEF Told, TransferTyped
    <3> QED BY <1>5, <3>1, <3>2
  <2> QED BY <1>0, <1>5, <2>1 DEF Start, Told, TransferTyped, Counts
<1>6. CASE Cancel
  <2>1. view' \in [busy : BOOLEAN, run : 0 .. MaxRuns] /\ ~view'.busy
    BY <1>6 DEF Cancel, TransferTyped
  <2>2. manager' \in [Runs -> [made : BOOLEAN, cancel : BOOLEAN, pause : BOOLEAN]]
    BY <1>6 DEF Cancel, TransferTyped
  <2> QED BY <1>0, <1>6, <2>1, <2>2 DEF Cancel, TransferTyped, Counts
<1>7. CASE Pause(TRUE) \/ Pause(FALSE)
  <2>1. manager' \in [Runs -> [made : BOOLEAN, cancel : BOOLEAN, pause : BOOLEAN]]
    <3>1. PICK on \in BOOLEAN : Pause(on)
      BY <1>7
    <3>2. view.run \in Runs /\ manager' = [manager EXCEPT ![view.run].pause = on]
      BY <3>1 DEF Pause, TransferTyped
    <3> QED BY <3>2 DEF TransferTyped
  <2> QED BY <1>0, <1>7, <2>1 DEF Pause, TransferTyped, Counts
<1>8. CASE OtherPanel
  <2>1. PICK req \in {ToSession("default"), Subfunction("reset")}, a \in Answer :
          HandleRequest(req, a) /\ transferred' = Stored(req, a, transferred) /\ Upset
    BY <1>8 DEF OtherPanel
  <2>2. req.svc # "block"
    BY <2>1, Requests
  <2>3. transferred' \in Seq(Chunk) /\ Counts'
    BY <2>1, <2>2, StoredCounts
  <2>4. upsets' \in 0 .. MaxUpsets
    BY <2>1, TransferAssumption DEF Upset, TransferTyped
  <2> QED BY <1>0, <1>8, <2>3, <2>4 DEF OtherPanel, TransferTyped
<1> QED BY <1>1, <1>2, <1>3, <1>4, <1>5, <1>6, <1>7, <1>8 DEF TransferNext, Advance

\* Nothing runs at the start.
LEMMA TypedBegins == TransferInit => TransferTyped
<1> SUFFICES ASSUME TransferInit PROVE TransferTyped
  OBVIOUS
<1>1. TransferInv
  BY TransferBegins
<1>2. 0 % CounterMod = 0 /\ PowerOn.counter = 0
  BY EcuAssumption, Z3 DEF PowerOn
<1>3. Counts /\ transferred \in Seq(Chunk)
  BY <1>2 DEF TransferInit, EcuInit, Counts
<1> QED BY <1>1, <1>3, TransferAssumption DEF TransferInit, TransferTyped, NewManager

\* Well typed.
LEMMA TypedTypes == TransferTyped => TransferTypeOK
<1> SUFFICES ASSUME TransferTyped PROVE TransferTypeOK
  OBVIOUS
<1>1. \A i \in DOMAIN late : late[i].nrc \in Answer
  <2>1. CASE late = <<>>
    BY <2>1
  <2>2. CASE late # <<>>
    <3>1. PICK x \in Got : late = <<x>>
      BY <2>2 DEF TransferTyped, TransferInv, LateInv
    <3>2. DOMAIN <<x>> = {1} /\ <<x>>[1] = x /\ x.nrc \in Answer
      BY DEF Got
    <3> QED BY <3>1, <3>2
  <2> QED BY <2>1, <2>2
<1>2. thread \in [Runs -> [pc : ThreadPlace, seg : 1 .. Len(Segments), blk : Nat, attempt : 0 .. BlockRetries - 1,
                            counter : 0 .. CounterMod - 1, seed : Seed]]
  BY DEF TransferTyped, TransferInv, Local
<1> QED BY <1>1, <1>2 DEF TransferTyped, TransferInv, TransferTypeOK, Counts

\* The block sequence counter of the ECU is the number of blocks it stored,
\* modulo its range, whoever resets it, asks for a new download or sends the
\* same block twice (ecu_simulator._svc_transfer_data, TransferManager).
THEOREM TransferTypeCorrect == TransferSpec => []TransferTypeOK
<1> QED BY TypedBegins, TypedStep, TypedTypes, PTL DEF TransferSpec
=============================================================================
