------------------------- MODULE EcuSimulatorProofs -------------------------
(***************************************************************************)
(* Machine-checked facts about the simulated ECU, for every set of         *)
(* supported sessions, of security levels, and every attempt limit.        *)
(***************************************************************************)
EXTENDS EcuSimulator, TLAPS

\* The block sequence counter of _svc_transfer_data stays below its modulus.
LEMMA CounterRange ==
    ASSUME NEW c \in 0 .. CounterMod - 1
    PROVE  (c + 1) % CounterMod \in 0 .. CounterMod - 1
<1> DEFINE m == CounterMod
           n == c + 1
<1>1. m \in Nat \ {0} /\ n \in Nat
  BY EcuAssumption
<1> HIDE DEF m, n
<1>2. n % m \in 0 .. m - 1
  BY <1>1, Z3
<1> QED BY <1>2 DEF m, n

\* The fields of the ECU's state.
LEMMA EcuFields ==
    ASSUME EcuTypeOK
    PROVE  /\ ecu.session \in Sessions /\ ecu.unlocked \in Levels \cup {0} /\ ecu.seed \in Seed
           /\ ecu.level \in Levels \cup {0} /\ ecu.attempts \in 0 .. MaxAttempts - 1
           /\ ecu.delayed \in BOOLEAN /\ ecu.download \in BOOLEAN
           /\ ecu.counter \in 0 .. CounterMod - 1
  BY DEF EcuTypeOK, EcuState

\* The ECU powers on well typed.
LEMMA PowerOnType == PowerOn \in EcuState
  BY EcuAssumption DEF PowerOn, EcuState, Seed

\* The updates of the attempts and of the block counter stay in range.
LEMMA Limits ==
    /\ 0 \in 0 .. MaxAttempts - 1 /\ 0 \in 0 .. CounterMod - 1
    /\ \A n \in 0 .. MaxAttempts - 1 : n + 1 < MaxAttempts => n + 1 \in 0 .. MaxAttempts - 1
  BY EcuAssumption

\* The handlers that only look at the state.
Harmless(r, a) ==
    \/ IoControl(r, a) \/ WriteDid(r, a) \/ RoutineControl(r, a)
    \/ ControlDtcSetting(r, a) \/ CommunicationControl(r, a)
    \/ ReadDtc(r, a) \/ ClearDtc(r, a) \/ Stateless(r, a)

LEMMA HarmlessUnchanged ==
    ASSUME NEW r, NEW a, Harmless(r, a)
    PROVE  UNCHANGED ecu
  BY DEF Harmless, IoControl, WriteDid, RoutineControl, ControlDtcSetting,
         CommunicationControl, ReadDtc, ClearDtc, Stateless

\* Every service handler keeps the types, whatever it answers.
LEMMA HandleType ==
    ASSUME EcuTypeOK, NEW r, NEW a, HandleRequest(r, a)
    PROVE  EcuTypeOK'
<1> USE DEF EcuTypeOK
<1>1. CASE UNCHANGED ecu
  BY <1>1
<1>2. CASE SessionControl(r, a)
  BY <1>2, EcuFields DEF SessionControl, Refuse, EcuState
<1>3. CASE EcuReset(r, a)
  BY <1>3, PowerOnType DEF EcuReset, Refuse
<1>4. CASE RequestSeed(r, a)
  BY <1>4, EcuFields DEF RequestSeed, Refuse, EcuState, Seed
<1>5. CASE WrongKey(r, a)
  <2>1. CASE ecu' = [ecu EXCEPT !.attempts = 0, !.delayed = TRUE]
    BY <2>1, EcuFields, Limits DEF EcuState
  <2>2. CASE ecu.attempts + 1 < MaxAttempts /\ ecu' = [ecu EXCEPT !.attempts = ecu.attempts + 1]
    <3> DEFINE n == ecu.attempts + 1
    <3>1. n \in 0 .. MaxAttempts - 1
      BY <2>2, EcuFields, Limits
    <3> HIDE DEF n
    <3> QED BY <2>2, <3>1, EcuFields DEF EcuState, n
  <2> QED BY <1>5, <2>1, <2>2 DEF WrongKey
<1>6. CASE RightKey(r, a)
  <2>1. r.level \in Levels
        /\ ecu' = [ecu EXCEPT !.attempts = 0, !.unlocked = r.level, !.seed = "none"]
    BY <1>6 DEF RightKey
  <2> QED BY <2>1, EcuFields, Limits DEF EcuState, Seed
<1>7. CASE RequestDownload(r, a)
  BY <1>7, EcuFields, Limits DEF RequestDownload, Refuse, EcuState
<1>8. CASE TransferData(r, a)
  <2>1. NextCounter \in 0 .. CounterMod - 1
    BY EcuFields, CounterRange DEF NextCounter
  <2> QED BY <1>8, <2>1, EcuFields DEF TransferData, Refuse, EcuState
<1>9. CASE TransferExit(r, a)
  BY <1>9, EcuFields DEF TransferExit, Refuse, EcuState
<1>10. CASE InjectError(a) \/ SecurityBarred(r, a) \/ KeyOutOfSequence(r, a)
  BY <1>1, <1>10 DEF InjectError, SecurityBarred, KeyOutOfSequence, Refuse
<1>11. CASE Harmless(r, a)
  BY <1>1, <1>11, HarmlessUnchanged
<1> QED BY <1>11, <1>2, <1>3, <1>4, <1>5, <1>6, <1>7, <1>8, <1>9, <1>10 DEF HandleRequest, Harmless

\* Every step of the simulator keeps the types.
LEMMA EcuNextType == EcuTypeOK /\ [EcuNext]_ecu => EcuTypeOK'
<1> SUFFICES ASSUME EcuTypeOK, [EcuNext]_ecu PROVE EcuTypeOK'
  OBVIOUS
<1>1. CASE UNCHANGED ecu
  BY <1>1 DEF EcuTypeOK
<1>2. CASE DelayExpires
  BY <1>2, EcuFields DEF DelayExpires, EcuTypeOK, EcuState
<1>3. ASSUME NEW r \in Request, NEW a \in Answer, HandleRequest(r, a) PROVE EcuTypeOK'
  BY <1>3, HandleType
<1> QED BY <1>1, <1>2, <1>3 DEF EcuNext

\* Type correctness of the simulator's state: the attempt counter stays below
\* its limit and the block counter below its modulus (handle_request).
THEOREM EcuTypeCorrect == EcuSpec => []EcuTypeOK
<1>1. EcuInit => EcuTypeOK
  BY PowerOnType DEF EcuInit, EcuTypeOK
<1> QED BY <1>1, EcuNextType, PTL DEF EcuSpec

\* Of the handlers, only session control and reset change the session, and
\* only a right key unlocks: no sequence of services leaves a level unlocked in
\* the default session (_svc_session_control, _svc_ecu_reset,
\* _svc_security_access).
THEOREM LockedInDefault == EcuSpec => []UnlockedOutsideDefault
<1> DEFINE Inv == EcuTypeOK /\ UnlockedOutsideDefault
<1>1. EcuInit => Inv
  BY PowerOnType DEF EcuInit, EcuTypeOK, UnlockedOutsideDefault, PowerOn
<1>2. Inv /\ [EcuNext]_ecu => UnlockedOutsideDefault'
  <2> SUFFICES ASSUME Inv, [EcuNext]_ecu PROVE UnlockedOutsideDefault'
    OBVIOUS
  <2> USE DEF UnlockedOutsideDefault
  <2>1. CASE UNCHANGED ecu
    BY <2>1
  <2>2. CASE DelayExpires
    BY <2>2, EcuFields DEF DelayExpires, EcuTypeOK, EcuState
  <2>3. ASSUME NEW r \in Request, NEW a \in Answer, HandleRequest(r, a)
        PROVE  UnlockedOutsideDefault'
    <3>1. CASE SessionControl(r, a)
      BY <3>1 DEF SessionControl, Refuse, EcuTypeOK, EcuState
    <3>2. CASE EcuReset(r, a)
      BY <3>2 DEF EcuReset, Refuse, PowerOn
    <3>3. CASE RightKey(r, a)
      BY <3>3 DEF RightKey, SecurityOpen, EcuTypeOK, EcuState
    <3>4. CASE ecu'.session = ecu.session /\ ecu'.unlocked = ecu.unlocked
      BY <3>4
    <3>5. CASE RequestSeed(r, a) \/ WrongKey(r, a)
      BY <3>5, <3>4 DEF RequestSeed, WrongKey, Refuse, EcuTypeOK, EcuState
    <3>6. CASE RequestDownload(r, a) \/ TransferData(r, a) \/ TransferExit(r, a)
      BY <3>6, <3>4 DEF RequestDownload, TransferData, TransferExit, Refuse, EcuTypeOK, EcuState
    <3>7. CASE InjectError(a) \/ SecurityBarred(r, a) \/ KeyOutOfSequence(r, a)
      BY <3>7, <2>1 DEF InjectError, SecurityBarred, KeyOutOfSequence, Refuse
    <3>8. CASE Harmless(r, a)
      BY <3>8, <2>1, HarmlessUnchanged
    <3> QED BY <2>3, <3>1, <3>2, <3>3, <3>5, <3>6, <3>7, <3>8 DEF HandleRequest, Harmless
  <2> QED BY <2>1, <2>2, <2>3 DEF EcuNext
<1>3. EcuSpec => []EcuTypeOK
  BY EcuTypeCorrect
<1> QED BY <1>1, <1>2, <1>3, PTL DEF EcuSpec
=============================================================================
