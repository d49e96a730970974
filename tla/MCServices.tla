----------------------------- MODULE MCServices -----------------------------
(***************************************************************************)
(* Components that owe their callers an end: what was started is finished, *)
(* reported or given up.  As in MCThreads a behaviour is one of a single   *)
(* component while the others rest.                                        *)
(*                                                                         *)
(* The fairness is that of the components' own specifications.  It asks    *)
(* nothing of a component that rests: none of its fair steps is enabled in *)
(* its initial state, the ISO-TP stations' Listen excepted.                *)
(***************************************************************************)
EXTENDS ConnectionManager, Transfer, Flash, JsIsoTp, SessionWatch

CONSTANTS
    \* The ISO-TP link of IsoTp.tla, whose names ConnectionManager has too.
    Tester, Ecu, Lengths, TesterBlock, EcuBlock, TesterSends, SequenceMod, BsMod, WaitLimit

VARIABLES
    which,      \* the component this behaviour is one of
    isoRx, isoMode, isoTx, isoAsm, isoSent, isoDelivered, isoLost, isoForeign

isoVars == <<isoRx, isoMode, isoTx, isoAsm, isoSent, isoDelivered, isoLost, isoForeign>>

IsoBlockSize == [s \in {Tester, Ecu} |-> IF s = Tester THEN TesterBlock ELSE EcuBlock]
IsoMaxSends == [s \in {Tester, Ecu} |-> IF s = Tester THEN TesterSends ELSE 0]

Iso == INSTANCE IsoTp WITH
    BlockSize <- IsoBlockSize, MaxSends <- IsoMaxSends, MaxLoss <- 0, MaxForeign <- 0,
    rx <- isoRx, mode <- isoMode, tx <- isoTx, asm <- isoAsm, sent <- isoSent,
    delivered <- isoDelivered, lost <- isoLost, foreign <- isoForeign

\* What StationAssumption, SizeAssumption and BoundAssumption of IsoTp ask of
\* this link.
ASSUME LinkAssumption ==
    /\ Tester # Ecu
    /\ Lengths \subseteq Nat
    /\ SequenceMod \in Nat \ {0} /\ BsMod \in Nat \ {0}
    /\ {TesterBlock, EcuBlock, TesterSends, WaitLimit} \subseteq Nat

Component == {"connection", "ecu", "transfer", "flash", "link", "js", "watch"}

\* One segment of two blocks and one of one.
MCSegments == <<2, 1>>

\* A flash sequence of every handler with a branch of its own.
MCScript == <<"programming", "unlock", "hardware", "upload", "request", "transfer", "exit", "verify">>

\* Two payloads of a block or more and a single frame.
MCPayloads == <<3, 2, 0>>

ServicesInit ==
    /\ which \in Component
    /\ Init /\ TransferInit /\ FlashInit /\ JsInit /\ WatchInit /\ Iso!Init
    /\ which # "js" => ~strict

Still ==
    /\ which # "connection" => UNCHANGED vars
    /\ which # "transfer" => UNCHANGED <<thread, manager, view, transferred, late, upsets, alone>>
    /\ which # "flash" => UNCHANGED <<script, runner, page, stored, flashed, flashBounds>>
    /\ which \notin {"ecu", "transfer", "flash"} => UNCHANGED ecu
    /\ which # "link" => UNCHANGED isoVars
    /\ which # "js" => UNCHANGED jsVars
    /\ which # "watch" => UNCHANGED watchVars
    /\ UNCHANGED which

ServicesNext ==
    \/ which = "connection" /\ Next /\ Still
    \/ which = "ecu" /\ EcuNext /\ Still
    \/ which = "transfer" /\ TransferNext /\ Still
    \/ which = "flash" /\ FlashNext /\ Still
    \/ which = "link" /\ Iso!PromptNext /\ Still
    \/ which = "js" /\ JsNext /\ Still
    \/ which = "watch" /\ WatchNext /\ Still

servicesVars == <<which, vars, transferVars, flashVars, isoVars, jsVars, watchVars>>

\* The fairness of Iso!ServeSpec.
LinkFairness ==
    /\ WF_isoVars(which = "link" /\ Iso!Listen(Ecu))
    /\ \A s \in {Tester, Ecu} :
          /\ WF_isoVars(Iso!SendStep(s)) /\ SF_isoVars(Iso!ReceiveStep(s))
          /\ WF_isoVars(Iso!PromptTimeout(s))

ServicesSpec ==
    /\ ServicesInit /\ [][ServicesNext]_servicesVars
    /\ Fairness /\ TransferFairness /\ FlashFairness /\ JsFairness /\ WatchFairness /\ LinkFairness

\* Every component's variables have their types.
ServicesTypeOK ==
    /\ which \in Component
    /\ TypeOK /\ FlashTypeOK /\ JsTypeOK /\ WatchTypeOK /\ Iso!TypeOK
    /\ which = "transfer" => TransferTypeOK     \* what it transferred is what the ECU holds

\* Iso!EveryPayloadArrives: every payload that was submitted arrives, on a link
\* that loses nothing.
EveryPayloadArrives == Iso!EveryPayloadArrives
=============================================================================
