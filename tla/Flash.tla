-------------------------------- MODULE Flash --------------------------------
(***************************************************************************)
(* The flash panel: a sequence of steps the operator edits                 *)
(* (src/src/diagnostics/flash_sequence.py, flash_sequence_editor.py), run  *)
(* step by step by FlashRunner (src/src/diagnostics/flash_runner.py) on a  *)
(* worker thread of FlashPanel (src/ui/.../transfer_panel/flash_panel.py), *)
(* against the simulated ECU.                                              *)
(*                                                                         *)
(* A step is its kind and whether it is enabled.  What the kinds read from *)
(* the ECU or put on the screen is left out; which requests they send, in  *)
(* which order, and when they fail is kept.  The file is one piece of      *)
(* memory, of Blocks blocks.                                               *)
(***************************************************************************)
EXTENDS EcuSimulator, SequencesExt

CONSTANTS
    FirstScript,    \* the kinds of the sequence the editor opens with
    Palette,        \* the kinds the operator may drag in
    Blocks,         \* blocks in the flash file
    MaxEdits,       \* bound: changes of the sequence
    MaxFlashes,     \* bound: presses of Start flash
    MaxFailedAsks   \* bound: exchanges that fail

VARIABLES
    script,     \* FlashSequence.steps
    runner,     \* FlashRunner and the thread it is on
    page,       \* the panel: which page is shown
    stored,     \* blocks stored in the ECU since it last accepted a download
    flashed,    \* history: this run wrote the whole file
    edits, flashes, failedAsks

flashBounds == <<edits, flashes, failedAsks>>
flashVars == <<ecu, script, runner, page, stored, flashed, flashBounds>>

\* FlashStepKind.  Kinds that differ in what they show only are one here:
\* "routine" is the erase, dependency and memory check routines and the
\* operator's own, "can" the two steps of the channel.
OneRequest == [ecuComm  |-> [svc |-> "present", quiet |-> FALSE],
               identify |-> [svc |-> "read", quiet |-> FALSE],
               writeDid |-> [svc |-> "write", quiet |-> FALSE],
               readDtc  |-> [svc |-> "readDtc", quiet |-> FALSE],
               clearDtc |-> [svc |-> "clearDtc", quiet |-> FALSE],
               dtcSetting    |-> [svc |-> "dtcSetting", known |-> TRUE, quiet |-> FALSE],
               communication |-> [svc |-> "communication", known |-> TRUE, quiet |-> FALSE],
               routine     |-> [svc |-> "routine", known |-> TRUE, quiet |-> FALSE],
               reset       |-> [svc |-> "reset", known |-> TRUE, quiet |-> FALSE],
               extended    |-> [svc |-> "session", to |-> "extended", quiet |-> FALSE],
               programming |-> [svc |-> "session", to |-> "programming", quiet |-> FALSE],
               default     |-> [svc |-> "session", to |-> "default", quiet |-> FALSE]]

Kind == DOMAIN OneRequest \cup
        {"can", "present", "hardware", "unlock", "upload", "request", "transfer", "exit",
         "verify", "delay"}

\* Kinds that may appear once only, and kinds that need a flash file.
Single == {"can", "ecuComm", "identify", "hardware", "clearDtc", "dtcSetting", "communication",
           "verify", "reset"}
Filed == {"upload", "request", "transfer", "exit", "verify"}

Step == [kind : Kind, on : BOOLEAN]

ASSUME FlashAssumption ==
    FirstScript \in Seq(Kind) /\ Palette \subseteq Kind /\ Blocks \in Nat

NewRunner == [pc |-> "idle", i |-> 1, staged |-> FALSE, size |-> FALSE, blk |-> 0,
              cancelled |-> FALSE, got |-> FALSE, status |-> <<>>, aborted |-> FALSE]

Phase == {"idle", "starting", "next", "doing", "key", "again", "permit", "blocks", "close", "told"}

FlashTypeOK ==
    /\ EcuTypeOK
    /\ script \in Seq(Step)
    /\ runner.pc \in Phase /\ runner.i \in Nat /\ runner.blk \in 0 .. Blocks
    /\ runner.pc # "idle" => runner.i \in 1 .. Len(script) + 1
    /\ {runner.staged, runner.size, runner.cancelled, runner.got, runner.aborted} \subseteq BOOLEAN
    /\ runner.status \in Seq({"PASSED", "FAILED", "SKIPPED"})
    /\ page \in {"editor", "progress", "finished"}
    /\ stored \in 0 .. Blocks
    /\ flashed \in BOOLEAN
    \* The editor is not shown while a run is under way.
    /\ page = "progress" <=> runner.pc # "idle"

FlashInit ==
    /\ EcuInit
    /\ script = [i \in DOMAIN FirstScript |-> [kind |-> FirstScript[i], on |-> TRUE]]
    /\ runner = NewRunner
    /\ page = "editor" /\ stored = 0 /\ flashed = FALSE
    /\ edits = 0 /\ flashes = 0 /\ failedAsks = 0

-----------------------------------------------------------------------------
(* FlashSequence: editing and validation.                                  *)

Move(from, to) == InsertAt(RemoveAt(script, from), to, script[from])

Edit(edited) ==
    /\ page = "editor" /\ edits < MaxEdits
    /\ edits' = edits + 1
    /\ script' = edited
    /\ UNCHANGED <<ecu, runner, page, stored, flashed, flashes, failedAsks>>

MoveStep == \E from, to \in DOMAIN script : Edit(Move(from, to))
AddStep == \E k \in Palette, to \in 1 .. Len(script) + 1 :
               Edit(InsertAt(script, to, [kind |-> k, on |-> TRUE]))
RemoveStep == \E i \in DOMAIN script : Edit(RemoveAt(script, i))
ToggleStep == \E i \in DOMAIN script : Edit([script EXCEPT ![i].on = ~@])

\* enabled_steps, as their positions in the sequence
Enabled == {i \in DOMAIN script : script[i].on}
Places(k) == {i \in Enabled : script[i].kind = k}

\* _ORDER_RULES
Precedes == {<<"can", "ecuComm">>, <<"upload", "request">>, <<"request", "transfer">>,
             <<"transfer", "exit">>}

\* Mutant: the last occurrence of a kind is looked at.
InOrderAtLast(before, after) ==
    Places(before) # {} /\ Places(after) # {} => Max(Places(before)) < Max(Places(after))

\* The first occurrences are compared; a missing predecessor is no problem.
InOrder(before, after) ==
    Places(before) # {} /\ Places(after) # {} => Min(Places(before)) < Min(Places(after))

\* validate() finds nothing, with the flash file chosen.
Valid ==
    /\ \A k \in Single : Cardinality(Places(k)) <= 1
    /\ \A rule \in Precedes : InOrder(rule[1], rule[2])

-----------------------------------------------------------------------------
(* FlashPanel.                                                             *)

StartFlash ==
    /\ page = "editor" /\ flashes < MaxFlashes
    /\ Valid
    /\ flashes' = flashes + 1
    /\ page' = "progress"
    /\ runner' = [NewRunner EXCEPT !.pc = "starting"]
    /\ flashed' = FALSE
    /\ UNCHANGED <<ecu, script, stored, edits, failedAsks>>

\* The cancel button, enabled from start_flash to _on_finished.
CancelFlash ==
    /\ page = "progress"
    /\ runner' = [runner EXCEPT !.cancelled = TRUE]
    /\ UNCHANGED <<ecu, script, page, stored, flashed, flashBounds>>

\* _on_finished, on the UI thread.
ShowReport ==
    /\ runner.pc = "told"
    /\ runner' = [runner EXCEPT !.pc = "idle"]
    /\ page' = "finished"
    /\ UNCHANGED <<ecu, script, stored, flashed, flashBounds>>

BackToSequence ==
    /\ page = "finished"
    /\ page' = "editor"
    /\ UNCHANGED <<ecu, script, runner, stored, flashed, flashBounds>>

-----------------------------------------------------------------------------
(* FlashRunner.run                                                         *)

\* run() forgets a cancellation that came before it.
EnterRun ==
    /\ runner.pc = "starting"
    /\ runner' = [runner EXCEPT !.pc = "next", !.cancelled = FALSE]
    /\ UNCHANGED <<ecu, script, page, stored, flashed, flashBounds>>

BreakCancelled == [runner EXCEPT !.pc = "told", !.aborted = TRUE]

NextStep ==
    /\ runner.pc = "next"
    /\ runner' = IF runner.i > Len(script) THEN [runner EXCEPT !.pc = "told"]
                 ELSE IF runner.cancelled THEN BreakCancelled
                 ELSE IF ~script[runner.i].on
                 THEN [runner EXCEPT !.status = Append(@, "SKIPPED"), !.i = @ + 1]
                 ELSE [runner EXCEPT !.pc = "doing"]
    /\ UNCHANGED <<ecu, script, page, stored, flashed, flashBounds>>

\* Mutant: a handler's exception is not caught and takes the thread with it.
FailedUncaught(r) == [r EXCEPT !.pc = "dead"]

\* _run_step: a step ends the run when it failed.
Passed(r) == [r EXCEPT !.pc = "next", !.i = @ + 1, !.status = Append(@, "PASSED")]
Failed(r) == [r EXCEPT !.pc = "told", !.i = @ + 1, !.status = Append(@, "FAILED")]
Outcome(r, ok) == IF ok THEN Passed(r) ELSE Failed(r)

Doing(kind) == runner.pc = "doing" /\ script[runner.i].kind = kind

\* What the ECU stores with request req, answered with a.
Keeps(req, a) ==
    IF a # "positive" THEN stored
    ELSE IF req.svc = "block" THEN stored + 1
    ELSE IF req.svc = "download" THEN 0 ELSE stored

\* One request of a step: answered, or the exchange failed and the ECU may
\* have served it.  Then(ok) is where the runner goes.
AskEcu(req, Then(_)) ==
    /\ \/ \E a \in Answer : /\ HandleRequest(req, a)
                            /\ stored' = Keeps(req, a)
                            /\ runner' = Then(a = "positive")
                            /\ UNCHANGED failedAsks
       \/ /\ failedAsks < MaxFailedAsks /\ failedAsks' = failedAsks + 1
          /\ runner' = Then(FALSE)
          /\ \/ \E a \in Answer : HandleRequest(req, a) /\ stored' = Keeps(req, a)
             \/ UNCHANGED <<ecu, stored>>
    /\ UNCHANGED <<script, page, edits, flashes>>

Quiet(r) == runner' = r /\ UNCHANGED <<ecu, script, page, stored, flashed, flashBounds>>

-----------------------------------------------------------------------------
(* The step handlers.                                                      *)

\* A step that is one request, and fails unless the answer is positive.
AskingStep ==
    /\ \E k \in DOMAIN OneRequest : Doing(k) /\ AskEcu(OneRequest[k], LAMBDA ok : Outcome(runner, ok))
    /\ UNCHANGED flashed

\* _can_init and _can_config with the channel open, _tester_present, _delay.
EasyStep ==
    /\ Doing("can") \/ Doing("present") \/ Doing("delay")
    /\ Quiet(Passed(runner))

\* _read_hardware and _read_software: one of the two identifiers is enough.
ReadPair ==
    /\ \/ Doing("hardware") /\ AskEcu(OneRequest.identify, LAMBDA ok :
                [runner EXCEPT !.pc = "again", !.got = ok])
       \/ runner.pc = "again" /\ AskEcu(OneRequest.identify, LAMBDA ok :
                Outcome([runner EXCEPT !.got = FALSE], ok \/ runner.got))
    /\ UNCHANGED flashed

\* FlashSequence.security_level
FileLevel == CHOOSE l \in Levels : TRUE

\* SecurityAccess.execute: no key when the level is unlocked already.
Unlock ==
    /\ \/ Doing("unlock") /\ AskEcu([svc |-> "seed", level |-> FileLevel, quiet |-> FALSE], LAMBDA ok :
                IF ~ok THEN Failed(runner)
                ELSE IF ecu.unlocked = FileLevel THEN Passed(runner)
                ELSE [runner EXCEPT !.pc = "key"])
       \/ runner.pc = "key"
             /\ AskEcu([svc |-> "key", level |-> FileLevel, key |-> ecu.seed, quiet |-> FALSE],
                       LAMBDA ok : Outcome(runner, ok))
    /\ UNCHANGED flashed

UploadFile ==
    /\ Doing("upload")
    /\ Quiet(Passed([runner EXCEPT !.staged = TRUE]))

\* Without an uploaded file there is no address and no payload.
Unstaged ==
    /\ ~runner.staged
    /\ Doing("request") \/ Doing("transfer") \/ Doing("verify")
    /\ Quiet(Failed(runner))

RequestBlocks ==
    /\ Doing("request") /\ runner.staged
    /\ AskEcu([svc |-> "download", quiet |-> FALSE],
              LAMBDA ok : Outcome([runner EXCEPT !.size = @ \/ ok], ok))
    /\ UNCHANGED flashed

\* TransferManager.download: it asks for the download again, whether or not
\* the step before it did, and looks at no cancellation of the runner's.
Permit ==
    /\ Doing("transfer") /\ runner.staged
    /\ AskEcu([svc |-> "download", quiet |-> FALSE],
              LAMBDA ok : IF ok THEN [runner EXCEPT !.pc = "blocks", !.blk = 0] ELSE Failed(runner))
    /\ UNCHANGED flashed

SendBlocks ==
    /\ runner.pc = "blocks" /\ runner.blk < Blocks
    /\ AskEcu([svc |-> "block", counter |-> (runner.blk + 1) % CounterMod, quiet |-> FALSE],
              LAMBDA ok : IF ok THEN [runner EXCEPT !.blk = @ + 1] ELSE Failed(runner))
    /\ UNCHANGED flashed

\* Mutant: what the manager reports of the download is not looked at.
Unchecked(ok) == Passed([runner EXCEPT !.got = ok])

\* report.state of the download decides.
Downloaded(ok) == Outcome([runner EXCEPT !.got = ok], ok)

CloseBlocks ==
    /\ runner.pc = "blocks" /\ runner.blk = Blocks
    /\ AskEcu([svc |-> "exit", quiet |-> FALSE], LAMBDA ok : Downloaded(ok))
    /\ flashed' = (flashed \/ (runner'.got /\ stored = Blocks))

\* A refused or unanswered exit is taken for one the transfer sent already.
ExitStep ==
    /\ Doing("exit")
    /\ AskEcu([svc |-> "exit", quiet |-> FALSE], LAMBDA ok : Passed(runner))
    /\ UNCHANGED flashed

\* The payload's checksum is compared with the payload's own.
VerifyStep ==
    /\ Doing("verify") /\ runner.staged
    /\ Quiet(Passed(runner))

Perform == \/ AskingStep \/ EasyStep \/ ReadPair \/ Unlock \/ UploadFile \/ Unstaged
           \/ RequestBlocks \/ Permit \/ SendBlocks \/ CloseBlocks \/ ExitStep \/ VerifyStep

Work == EnterRun \/ NextStep \/ Perform \/ ShowReport

FlashNext == \/ MoveStep \/ AddStep \/ RemoveStep \/ ToggleStep
             \/ StartFlash \/ CancelFlash \/ BackToSequence \/ Work

\* The worker thread and the UI's event loop go on.
FlashFairness == WF_flashVars(Work)

FlashSpec == FlashInit /\ [][FlashNext]_flashVars /\ FlashFairness

-----------------------------------------------------------------------------
\* FlashReport.completed
Completed == ~runner.aborted /\ \A i \in DOMAIN runner.status : runner.status[i] # "FAILED"

\* A run that is shown as finished, with a transfer among its steps, has put
\* the whole file into the ECU and every enabled step has passed.
CompletedMeansFlashed ==
    page = "finished" /\ Completed =>
        /\ Len(runner.status) = Len(script)
        /\ \A i \in DOMAIN script : runner.status[i] = IF script[i].on THEN "PASSED" ELSE "SKIPPED"
        /\ Places("transfer") # {} => flashed

\* A sequence that validate() let through and that has the upload and the
\* request among its steps never comes to a transfer before them.
TransferPrepared ==
    Doing("transfer") => /\ Places("upload") # {} /\ Places("request") # {} => runner.staged
                         /\ Places("request") # {} => runner.size

\* A run that was started is reported.
RunReported == page = "progress" ~> page = "finished"
=============================================================================
