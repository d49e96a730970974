------------------------------ MODULE Transfer ------------------------------
(***************************************************************************)
(* Flashing from the flash manager view: FileTransferController starts a   *)
(* _TransferThread (src/ui/controllers/file_transfer_controller.py), which *)
(* changes session, unlocks the ECU and has TransferManager download the   *)
(* segments of the chosen files, block by block.  A run is one press of    *)
(* Start: a thread and a TransferManager.  Runs, and other panels of the   *)
(* tool, share the ECU and the client.                                     *)
(*                                                                         *)
(* An exchange holds the client's lock (UdsExchange), so it is one step    *)
(* here.  Its request or its answer may be lost, and an answer that comes  *)
(* after its exchange gave up is what the next exchange reads.             *)
(***************************************************************************)
EXTENDS EcuSimulator, Sequences

CONSTANTS
    MaxRuns,        \* bound: presses of Start
    Segments,       \* Segments[s]: how many blocks segment s of the files has
    BlockRetries,   \* TransferOptions.retry_failed_blocks
    MaxUpsets       \* bound: exchanges disturbed, requests of other panels

ASSUME TransferAssumption ==
    /\ MaxRuns \in Nat \ {0}
    /\ Segments \in Seq(Nat) \ {<<>>}
    /\ BlockRetries \in Nat \ {0} /\ MaxUpsets \in Nat

Runs == 1 .. MaxRuns

VARIABLES
    thread,     \* thread[r]: where the run is, and the locals of download()
    manager,    \* manager[r]: TransferManager's events, and whether it was created
    view,       \* the view's busy state and the controller's _thread
    transferred,\* SimulatorState.transferred, as the blocks it was made of
    late,       \* answers that came after their exchange gave up
    upsets,     \* exchanges disturbed so far
    alone       \* history: alone[r]: nobody else touched the ECU in run r's segment

transferVars == <<ecu, thread, manager, view, transferred, late, upsets, alone>>

Prelude == {"extended", "dtc", "comm", "programming", "seed", "key"}
Loading == {"begin", "request", "check", "hold", "send", "exit"}
Over == {"completed", "cancelled", "failed", "crashed"}   \* the signal is on its way
ThreadPlace == {"off", "told"} \cup Prelude \cup Loading \cup Over

NewThread == [pc |-> "off", seg |-> 1, blk |-> 1, counter |-> 0, attempt |-> 0, seed |-> "none"]
NewManager == [made |-> FALSE, cancel |-> FALSE, pause |-> FALSE]

Chunk == [run : Runs, seg : 1 .. Len(Segments), blk : Nat]

TransferTypeOK ==
    /\ EcuTypeOK
    /\ thread \in [Runs -> [pc : ThreadPlace, seg : 1 .. Len(Segments), blk : Nat, attempt : 0 .. BlockRetries - 1,
                            counter : 0 .. CounterMod - 1, seed : Seed]]
    /\ manager \in [Runs -> [made : BOOLEAN, cancel : BOOLEAN, pause : BOOLEAN]]
    /\ view \in [busy : BOOLEAN, run : 0 .. MaxRuns]
    /\ transferred \in Seq(Chunk)
    /\ \A i \in DOMAIN late : late[i].nrc \in Answer
    /\ upsets \in 0 .. MaxUpsets
    /\ alone \in [Runs -> BOOLEAN]
    \* The blocks the ECU counted are the blocks it stored.
    /\ ecu.counter = Len(transferred) % CounterMod

TransferInit ==
    /\ EcuInit
    /\ thread = [r \in Runs |-> NewThread]
    /\ manager = [r \in Runs |-> NewManager]
    /\ view = [busy |-> FALSE, run |-> 0]
    /\ transferred = <<>> /\ late = <<>> /\ upsets = 0
    /\ alone = [r \in Runs |-> FALSE]

-----------------------------------------------------------------------------
(* One exchange of the client.                                             *)

Plain(svc) == [svc |-> svc, quiet |-> FALSE]
Subfunction(svc) == [svc |-> svc, known |-> TRUE, quiet |-> FALSE]
ToSession(s) == [svc |-> "session", to |-> s, quiet |-> FALSE]
Block(n) == [svc |-> "block", counter |-> n, quiet |-> FALSE]

Silence == [svc |-> "none", nrc |-> "timeout", echo |-> 0, seed |-> "none"]

\* What the ECU stores of a request it answers with a.
Stored(req, a, chunk) ==
    CASE a = "positive" /\ req.svc = "block"               -> Append(transferred, chunk)
      [] a = "positive" /\ req.svc \in {"download", "reset"} -> <<>>
      [] OTHER                                              -> transferred

Reply(req, a) == [svc |-> req.svc, nrc |-> a,
                  echo |-> IF req.svc = "block" THEN req.counter ELSE 0,
                  seed |-> IF req.svc = "seed" /\ a = "positive" THEN ecu'.seed ELSE "none"]

Upset == upsets < MaxUpsets /\ upsets' = upsets + 1

\* The first answer of queue q is read; none is a timeout.
Read(q, Then(_)) == IF q = <<>> THEN Then(Silence) /\ late' = <<>>
                               ELSE Then(Head(q)) /\ late' = Tail(q)

\* The request is lost; or it is answered, and the answer comes, is lost, or
\* comes after the exchange gave up.
Exchange(req, chunk, Then(_)) ==
    \/ /\ Upset
       /\ UNCHANGED <<ecu, transferred>>
       /\ Read(late, Then)
    \/ \E a \in Answer :
          /\ HandleRequest(req, a)
          /\ transferred' = Stored(req, a, chunk)
          /\ \/ Read(Append(late, Reply(req, a)), Then) /\ UNCHANGED upsets
             \/ Upset /\ Read(late, Then)
             \/ /\ Upset
                /\ IF late = <<>>
                   THEN Then(Silence) /\ late' = <<Reply(req, a)>>
                   ELSE Then(Head(late)) /\ late' = Append(Tail(late), Reply(req, a))

\* Segments others disturb: who is served changes what the ECU holds.
Alone(r, begins) ==
    alone' = [s \in Runs |-> CASE s = r /\ begins -> TRUE
                               [] s # r /\ <<ecu, transferred>>' # <<ecu, transferred>> -> FALSE
                               [] OTHER -> alone[s]]

\* send_request: a positive answer to another service raises InvalidResponseError.
Mismatched(req, got) == got.nrc = "positive" /\ got.svc # req.svc
                            /\ ~{got.svc, req.svc} \subseteq {"seed", "key"}
Rejected(got) == got.nrc \in Negative

\* Run r's thread asks the ECU and goes on as After says of what it got.
Ask(r, req, begins, After(_)) ==
    /\ Exchange(req, [run |-> r, seg |-> thread[r].seg, blk |-> thread[r].blk],
                LAMBDA got : thread' = [thread EXCEPT ![r] = After(got)])
    /\ Alone(r, begins)

-----------------------------------------------------------------------------
(* _TransferThread.run, up to the download.                                *)

PreludeRequest(r) ==
    CASE thread[r].pc = "extended"    -> ToSession("extended")
      [] thread[r].pc = "dtc"         -> Subfunction("dtcSetting")
      [] thread[r].pc = "comm"        -> Subfunction("communication")
      [] thread[r].pc = "programming" -> ToSession("programming")
      [] thread[r].pc = "seed"        -> [svc |-> "seed", level |-> CHOOSE l \in Levels : TRUE, quiet |-> FALSE]
      [] thread[r].pc = "key"         -> [svc |-> "key", level |-> CHOOSE l \in Levels : TRUE,
                                          key |-> thread[r].seed, quiet |-> FALSE]

\* A refused or unanswered step does not stop the run; a refused or all-zero
\* seed leaves out the key.
AfterPrelude(r, got) ==
    LET pc == thread[r].pc IN
    IF Mismatched(PreludeRequest(r), got) THEN "crashed" ELSE
    CASE pc = "extended"    -> "dtc"
      [] pc = "dtc"         -> "comm"
      [] pc = "comm"        -> "programming"
      [] pc = "programming" -> "seed"
      [] pc = "seed"        -> IF Rejected(got) \/ got.seed = "zero" THEN "begin" ELSE "key"
      [] pc = "key"         -> "begin"

Prepare(r) ==
    /\ thread[r].pc \in Prelude
    /\ Ask(r, PreludeRequest(r), FALSE,
           LAMBDA got : [thread[r] EXCEPT !.pc = AfterPrelude(r, got), !.seed = got.seed])
    /\ UNCHANGED <<manager, view>>

-----------------------------------------------------------------------------
(* TransferManager.download of one segment.                                *)

\* The manager is created before the first segment; every download() forgets
\* a cancellation and a pause that were asked for before it.
BeginSegment(r) ==
    /\ thread[r].pc = "begin"
    /\ thread' = [thread EXCEPT ![r].pc = "request"]
    /\ manager' = [manager EXCEPT ![r] = [made |-> TRUE, cancel |-> FALSE, pause |-> FALSE]]
    /\ UNCHANGED <<ecu, transferred, late, upsets, alone, view>>

\* Where the loop over the offsets stands with block b next.
Loop(r, b) == IF b > Segments[thread[r].seg] THEN "exit" ELSE "check"

AfterRequest(r, got) ==
    IF got.nrc = "positive" /\ got.svc = "download"
    THEN [thread[r] EXCEPT !.pc = Loop(r, 1), !.blk = 1, !.counter = 0, !.attempt = 0]
    ELSE [thread[r] EXCEPT !.pc = "failed"]

RequestPermission(r) ==
    /\ thread[r].pc = "request"
    /\ Ask(r, Plain("download"), TRUE, LAMBDA got : AfterRequest(r, got))
    /\ UNCHANGED <<manager, view>>

CheckCancel(r) ==
    /\ thread[r].pc = "check"
    /\ thread' = [thread EXCEPT ![r].pc = IF manager[r].cancel THEN "cancelled" ELSE "hold"]
    /\ UNCHANGED <<ecu, transferred, late, upsets, alone, manager, view>>

\* Mutant: a paused transfer waits for Resume, cancelled or not.
HoldUntilResumed(r) ==
    /\ thread[r].pc = "hold"
    /\ ~manager[r].pause
    /\ thread' = [thread EXCEPT ![r].pc = "send"]
    /\ UNCHANGED <<ecu, transferred, late, upsets, alone, manager, view>>

Hold(r) ==
    /\ thread[r].pc = "hold"
    /\ ~manager[r].pause \/ manager[r].cancel
    /\ thread' = [thread EXCEPT ![r].pc = "send"]
    /\ UNCHANGED <<ecu, transferred, late, upsets, alone, manager, view>>

Up(n) == (n + 1) % CounterMod

\* _send_with_retry: TransferError is retried, until the attempts are used up.
TryAgain(r, counter) ==
    IF thread[r].attempt + 1 = BlockRetries
    THEN [thread[r] EXCEPT !.pc = "failed"]
    ELSE [thread[r] EXCEPT !.counter = counter, !.attempt = @ + 1]

\* Mutant: an unanswered block is sent again.
AfterBlockResent(r, got) ==
    IF Rejected(got) THEN TryAgain(r, thread[r].counter)
    ELSE IF got.svc # "block" THEN TryAgain(r, Up(thread[r].counter))
    ELSE IF got.echo # Up(thread[r].counter) THEN TryAgain(r, Up(thread[r].counter))
    ELSE [thread[r] EXCEPT !.counter = Up(@), !.attempt = 0, !.blk = @ + 1,
                           !.pc = Loop(r, thread[r].blk + 1)]

\* send_block: a rejected block steps the counter back, a wrong echo does not;
\* no answer, or another service's, raises what is not retried.
AfterBlock(r, got) ==
    IF Rejected(got) THEN TryAgain(r, thread[r].counter)
    ELSE IF got.svc # "block" THEN [thread[r] EXCEPT !.pc = "failed"]
    ELSE IF got.echo # Up(thread[r].counter) THEN TryAgain(r, Up(thread[r].counter))
    ELSE [thread[r] EXCEPT !.counter = Up(@), !.attempt = 0, !.blk = @ + 1,
                           !.pc = Loop(r, thread[r].blk + 1)]

SendBlock(r) ==
    /\ thread[r].pc = "send"
    /\ Ask(r, Block(Up(thread[r].counter)), FALSE, LAMBDA got : AfterBlock(r, got))
    /\ UNCHANGED <<manager, view>>

\* The checksum in the answer is reported and compared with nothing.
AfterExit(r, got) ==
    IF got.nrc = "positive" /\ got.svc = "exit"
    THEN IF thread[r].seg < Len(Segments)
         THEN [thread[r] EXCEPT !.pc = "begin", !.seg = @ + 1]
         ELSE [thread[r] EXCEPT !.pc = "completed"]
    ELSE [thread[r] EXCEPT !.pc = "failed"]

Exit(r) ==
    /\ thread[r].pc = "exit"
    /\ Ask(r, Plain("exit"), FALSE, LAMBDA got : AfterExit(r, got))
    /\ UNCHANGED <<manager, view>>

-----------------------------------------------------------------------------
(* FileTransferController.                                                 *)

\* The view's Start button is enabled while it is not busy.
Start(r) ==
    /\ ~view.busy /\ thread[r].pc = "off" /\ \A q \in Runs : q < r => thread[q].pc # "off"
    /\ view' = [busy |-> TRUE, run |-> r]
    /\ thread' = [thread EXCEPT ![r].pc = "extended"]
    /\ UNCHANGED <<ecu, transferred, late, upsets, alone, manager>>

\* Before the manager was created only the view is told.
Cancel ==
    /\ view.busy
    /\ view' = [view EXCEPT !.busy = FALSE]
    /\ manager' = IF manager[view.run].made
                  THEN [manager EXCEPT ![view.run].cancel = TRUE] ELSE manager
    /\ UNCHANGED <<ecu, transferred, late, upsets, alone, thread>>

Pause(on) ==
    /\ view.busy /\ manager[view.run].made /\ manager[view.run].pause # on
    /\ manager' = [manager EXCEPT ![view.run].pause = on]
    /\ UNCHANGED <<ecu, transferred, late, upsets, alone, thread, view>>

\* _on_finished and _on_failed, on the UI thread.
Told(r) ==
    /\ thread[r].pc \in Over
    /\ thread' = [thread EXCEPT ![r].pc = "told"]
    /\ view' = [view EXCEPT !.busy = FALSE]
    /\ UNCHANGED <<ecu, transferred, late, upsets, alone, manager>>

\* Another panel of the tool changes the session or resets the ECU.
OtherPanel ==
    /\ \E req \in {ToSession("default"), Subfunction("reset")}, a \in Answer :
          /\ HandleRequest(req, a)
          /\ transferred' = Stored(req, a, transferred)
          /\ Upset
          /\ Read(Append(late, Reply(req, a)), LAMBDA got : TRUE)
    /\ Alone(0, FALSE)
    /\ UNCHANGED <<thread, manager, view>>

Advance(r) == Prepare(r) \/ BeginSegment(r) \/ RequestPermission(r) \/ CheckCancel(r)
                  \/ Hold(r) \/ SendBlock(r) \/ Exit(r) \/ Told(r)

TransferNext ==
    \/ \E r \in Runs : Start(r) \/ Advance(r)
    \/ Cancel \/ Pause(TRUE) \/ Pause(FALSE)
    \/ OtherPanel

\* A thread goes on, and the event loop takes its signals.
TransferFairness == \A r \in Runs : WF_transferVars(Advance(r))

TransferSpec == TransferInit /\ [][TransferNext]_transferVars /\ TransferFairness

-----------------------------------------------------------------------------
Payload(r, s) == [b \in 1 .. Segments[s] |-> [run |-> r, seg |-> s, blk |-> b]]

\* The step with which download() reports a segment as completed.
Completes(r) == thread[r].pc = "exit" /\ thread'[r].pc \in {"begin", "completed"}

\* A segment that is reported as completed is in the ECU whole and in order,
\* every block once, whatever was lost, late or retried on the way, unless
\* somebody else touched the ECU meanwhile.
CompletedIsWhole ==
    [][\A r \in Runs : Completes(r) /\ alone[r] => transferred = Payload(r, thread[r].seg)]_transferVars

\* Every run comes to its end, unless the operator leaves it paused and does
\* not cancel it: a cancelled download ends even while it is paused, or its next
\* segment begins, which forgets the cancellation.
RunEnds ==
    \A r \in Runs : thread[r].pc # "off" ~>
        (thread[r].pc = "told" \/ (manager[r].pause /\ ~manager[r].cancel))
=============================================================================
