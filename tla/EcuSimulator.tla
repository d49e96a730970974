---------------------------- MODULE EcuSimulator ----------------------------
(***************************************************************************)
(* The diagnostic server of src/src/communication/vci_drivers/virtual/     *)
(* ecu_simulator.py: one action per service handler; its argument a is the *)
(* answer the handler returns.  The contents of data identifiers and of    *)
(* the fault memory are left out: no service's state depends on them.      *)
(*                                                                         *)
(* A seed is "configured" (the level's seed), "zero" (the level is already *)
(* unlocked) or "none" (b"", before the first seed request and after a key *)
(* was accepted); a key is known by the seed it was computed from, or is   *)
(* "wrong".  Levels are the odd seed levels; unlocked = l stands for       *)
(* security_unlocked = l + 1 and 0 for None.                               *)
(***************************************************************************)
EXTENDS Naturals

CONSTANTS
    Sessions,      \* config "supported_sessions"
    Levels,        \* config "security_levels"
    AskedLevels,   \* levels a client asks for, configured or not
    MaxAttempts,   \* config "max_security_attempts"
    CounterMod,    \* the block sequence counter is kept modulo this (256: "& 0xFF")
    MayInject      \* config "error_injection": busyRepeatRequest at random

SessionNames == {"default", "programming", "extended", "safety"}

ASSUME EcuAssumption ==
    /\ "default" \in Sessions /\ Sessions \subseteq SessionNames
    /\ Levels \subseteq AskedLevels /\ AskedLevels \subseteq Nat \ {0}
    /\ MaxAttempts \in Nat \ {0}
    /\ CounterMod \in Nat \ {0, 1}
    /\ MayInject \in BOOLEAN

VARIABLE ecu   \* SimulatorState

Seed == {"none", "configured", "zero"}
Key == Seed \cup {"wrong"}

EcuState == [session : Sessions, unlocked : Levels \cup {0}, seed : Seed,
             level : Levels \cup {0}, attempts : 0 .. MaxAttempts - 1, delayed : BOOLEAN,
             download : BOOLEAN, counter : 0 .. CounterMod - 1]

\* Every request a client can build; "quiet" is the suppressPosRspMsgIndicationBit.
Request == [svc : {"session"}, to : SessionNames, quiet : BOOLEAN]
    \cup [svc : {"reset"}, known : BOOLEAN, quiet : BOOLEAN]
    \cup [svc : {"present"}, quiet : BOOLEAN]
    \cup [svc : {"seed"}, level : AskedLevels, quiet : BOOLEAN]
    \cup [svc : {"key"}, level : AskedLevels, key : Key, quiet : BOOLEAN]
    \cup [svc : {"dtcSetting", "communication", "routine"}, known : BOOLEAN, quiet : BOOLEAN]
    \cup [svc : {"read", "write", "readDtc", "clearDtc", "iocontrol", "download", "exit"},
          quiet : {FALSE}]
    \cup [svc : {"block"}, counter : 0 .. CounterMod - 1, quiet : {FALSE}]

Negative == {"busy", "subFunctionNotSupported", "notInSession", "delayNotExpired",
             "sequenceError", "invalidKey", "exceededAttempts", "denied", "wrongCounter"}
Answer == Negative \cup {"positive"}

PowerOn == [session |-> "default", unlocked |-> 0, seed |-> "none", level |-> 0,
            attempts |-> 0, delayed |-> FALSE, download |-> FALSE, counter |-> 0]

EcuTypeOK == ecu \in EcuState

EcuInit == ecu = PowerOn

-----------------------------------------------------------------------------
(* The service handlers, _svc_...                                          *)

Refuse(a, nrc) == a = nrc /\ UNCHANGED ecu

SessionControl(r, a) ==
    /\ r.svc = "session"
    /\ \/ r.to \notin Sessions /\ Refuse(a, "subFunctionNotSupported")
       \/ /\ r.to \in Sessions
          /\ a = "positive"
          /\ ecu' = [ecu EXCEPT !.session = r.to,
                                !.unlocked = IF r.to = "default" THEN 0 ELSE @]

EcuReset(r, a) ==
    /\ r.svc = "reset"
    /\ \/ ~r.known /\ Refuse(a, "subFunctionNotSupported")
       \/ r.known /\ a = "positive" /\ ecu' = PowerOn

\* The first two checks of _svc_security_access, for seed and key alike.
SecurityBarred(r, a) ==
    /\ r.svc \in {"seed", "key"}
    /\ \/ ecu.session = "default" /\ Refuse(a, "notInSession")
       \/ ecu.session # "default" /\ ecu.delayed /\ Refuse(a, "delayNotExpired")

SecurityOpen == ecu.session # "default" /\ ~ecu.delayed

RequestSeed(r, a) ==
    /\ r.svc = "seed"
    /\ SecurityOpen
    /\ \/ r.level \notin Levels /\ Refuse(a, "subFunctionNotSupported")
       \/ /\ r.level \in Levels
          /\ a = "positive"
          /\ ecu' = [ecu EXCEPT !.level = r.level,
                                !.seed = IF ecu.unlocked = r.level THEN "zero" ELSE "configured"]

KeyOutOfSequence(r, a) ==
    /\ r.svc = "key"
    /\ SecurityOpen
    /\ r.level \notin Levels \/ ecu.level # r.level
    /\ Refuse(a, "sequenceError")

\* Mutant: the attempts are counted and never limited.
WrongKeyUnlimited(r, a) ==
    /\ r.svc = "key"
    /\ SecurityOpen
    /\ r.level \in Levels /\ ecu.level = r.level
    /\ r.key # ecu.seed
    /\ a = "invalidKey"
    /\ ecu' = [ecu EXCEPT !.attempts = @ + 1]

WrongKey(r, a) ==
    /\ r.svc = "key"
    /\ SecurityOpen
    /\ r.level \in Levels /\ ecu.level = r.level
    /\ r.key # ecu.seed
    /\ \/ /\ ecu.attempts + 1 >= MaxAttempts
          /\ a = "exceededAttempts"
          /\ ecu' = [ecu EXCEPT !.attempts = 0, !.delayed = TRUE]
       \/ /\ ecu.attempts + 1 < MaxAttempts
          /\ a = "invalidKey"
          /\ ecu' = [ecu EXCEPT !.attempts = @ + 1]

RightKey(r, a) ==
    /\ r.svc = "key"
    /\ SecurityOpen
    /\ r.level \in Levels /\ ecu.level = r.level
    /\ r.key = ecu.seed
    /\ a = "positive"
    /\ ecu' = [ecu EXCEPT !.attempts = 0, !.unlocked = r.level, !.seed = "none"]

RequestDownload(r, a) ==
    /\ r.svc = "download"
    /\ \/ ecu.session # "programming" /\ Refuse(a, "notInSession")
       \/ ecu.session = "programming" /\ ecu.unlocked = 0 /\ Refuse(a, "denied")
       \/ /\ ecu.session = "programming" /\ ecu.unlocked # 0
          /\ a = "positive"
          /\ ecu' = [ecu EXCEPT !.download = TRUE, !.counter = 0]

NextCounter == (ecu.counter + 1) % CounterMod

TransferData(r, a) ==
    /\ r.svc = "block"
    /\ \/ ~ecu.download /\ Refuse(a, "sequenceError")
       \/ ecu.download /\ r.counter # NextCounter /\ Refuse(a, "wrongCounter")
       \/ /\ ecu.download /\ r.counter = NextCounter
          /\ a = "positive"
          /\ ecu' = [ecu EXCEPT !.counter = NextCounter]

TransferExit(r, a) ==
    /\ r.svc = "exit"
    /\ \/ ~ecu.download /\ Refuse(a, "sequenceError")
       \/ /\ ecu.download
          /\ a = "positive"
          /\ ecu' = [ecu EXCEPT !.download = FALSE]

IoControl(r, a) ==
    /\ r.svc = "iocontrol"
    /\ UNCHANGED ecu
    /\ a = IF ecu.session = "default" THEN "notInSession" ELSE "positive"

WriteDid(r, a) ==
    /\ r.svc = "write"
    /\ UNCHANGED ecu
    /\ a = IF ecu.unlocked = 0 THEN "denied" ELSE "positive"

\* Both look at their sub-function only.
RoutineControl(r, a) ==
    /\ r.svc = "routine"
    /\ UNCHANGED ecu
    /\ a = IF r.known THEN "positive" ELSE "subFunctionNotSupported"

ControlDtcSetting(r, a) ==
    /\ r.svc = "dtcSetting"
    /\ UNCHANGED ecu
    /\ a = IF r.known THEN "positive" ELSE "subFunctionNotSupported"

\* Any control type is accepted.
CommunicationControl(r, a) ==
    /\ r.svc = "communication"
    /\ UNCHANGED ecu
    /\ a = "positive"

ReadDtc(r, a) == r.svc = "readDtc" /\ UNCHANGED ecu /\ a = "positive"

ClearDtc(r, a) == r.svc = "clearDtc" /\ UNCHANGED ecu /\ a = "positive"

\* _svc_tester_present, _svc_read_did of a known identifier.
Stateless(r, a) ==
    /\ r.svc \in {"present", "read"}
    /\ a = "positive"
    /\ UNCHANGED ecu

InjectError(a) == MayInject /\ Refuse(a, "busy")

\* handle_request: the injected error is looked at before the handler.
HandleRequest(r, a) ==
    \/ InjectError(a)
    \/ SessionControl(r, a) \/ EcuReset(r, a)
    \/ SecurityBarred(r, a) \/ RequestSeed(r, a)
    \/ KeyOutOfSequence(r, a) \/ WrongKey(r, a) \/ RightKey(r, a)
    \/ RequestDownload(r, a) \/ TransferData(r, a) \/ TransferExit(r, a)
    \/ IoControl(r, a) \/ WriteDid(r, a) \/ RoutineControl(r, a)
    \/ ControlDtcSetting(r, a) \/ CommunicationControl(r, a)
    \/ ReadDtc(r, a) \/ ClearDtc(r, a) \/ Stateless(r, a)

\* A positive answer to a quiet request is not sent.
Withheld(r, a) == r.quiet /\ a = "positive"

\* time.time() passes delay_until.
DelayExpires == ecu.delayed /\ ecu' = [ecu EXCEPT !.delayed = FALSE]

EcuNext == DelayExpires \/ \E r \in Request, a \in Answer : HandleRequest(r, a)

EcuSpec == EcuInit /\ [][EcuNext]_ecu

-----------------------------------------------------------------------------
\* No sequence of services leaves a level unlocked in the default session:
\* _svc_session_control and _svc_ecu_reset lock on the way there, and
\* _svc_security_access unlocks nothing there.
UnlockedOutsideDefault == ecu.unlocked # 0 => ecu.session # "default"
=============================================================================
