-------------------------- MODULE MasterStackProofs --------------------------
(***************************************************************************)
(* Theorems about MasterStack, for every number of requesters, every       *)
(* assignment of priorities, every content of the bus and every set of     *)
(* environment faults.                                                     *)
(***************************************************************************)
EXTENDS MasterStack, FiniteSetTheorems, TLAPS

-----------------------------------------------------------------------------
(* What the functions of the port layer do to the types, wherever they are *)
(* called.                                                                 *)
LEMMA PostInOrderType ==
  ASSUME PollTypeOK,
         NEW first \in SUBSET PollEvents,
         NEW second \in SUBSET PollEvents,
         NEW third \in SUBSET PollEvents,
         PostInOrder(first, second, third)
  PROVE  PollTypeOK'
BY DEF PollTypeOK, PostInOrder, PollPcs

LEMMA SendToRequesterType ==
  ASSUME RequesterTypeOK, NEW e \in AppEvents, SendToRequester(e)
  PROVE  /\ evApp' \in SUBSET AppEvents
         /\ appPc' \in [Apps -> AppPcs]
         /\ appGot' \in [Apps -> SUBSET AppEvents]
<1>1. CASE Suspended("wait") = {}
  BY <1>1 DEF RequesterTypeOK, SendToRequester
<1>2. CASE Suspended("wait") # {}
  <2>1. PICK a \in MostUrgent(Suspended("wait")) :
          /\ appPc' = [appPc EXCEPT ![a] = "woken"]
          /\ appGot' = [appGot EXCEPT ![a] = {e}]
          /\ UNCHANGED evApp
    BY <1>2 DEF SendToRequester
  <2>2. "woken" \in AppPcs /\ {e} \in SUBSET AppEvents
    BY DEF AppPcs
  <2>3. QED
    BY <2>1, <2>2 DEF RequesterTypeOK
<1>3. QED
  BY <1>1, <1>2

LEMMA ReleaseType ==
  ASSUME RequesterTypeOK, vMBMasterRunResRelease
  PROVE  sem' \in 0 .. SemMax /\ appPc' \in [Apps -> AppPcs]
BY AppsAssumption DEF RequesterTypeOK, vMBMasterRunResRelease, AppPcs

-----------------------------------------------------------------------------
LEMMA InitTypeOK == Init => TypeOK
<1> SUFFICES ASSUME Init PROVE TypeOK
  OBVIOUS
<1>1. PollTypeOK
  BY DEF Init, PortInit, PollTypeOK, PollPcs
<1>2. RequesterTypeOK
  BY AppsAssumption DEF Init, PortInit, RequesterTypeOK, AppPcs
<1>3. ReceiverTypeOK
  BY LinkAssumption DEF Init, LinkInit, ReceiverTypeOK
<1>4. TransmitterTypeOK
  <2>1. sndBuf \in [by : Apps \cup {NoApp}, data : {"good", "bad"}]
    BY DEF Init, LinkInit
  <2>2. QED
    BY <2>1, LinkAssumption DEF Init, LinkInit, TransmitterTypeOK, TransPcs
<1>5. TimerTypeOK
  BY LinkAssumption DEF Init, LinkInit, TimerTypeOK, ErrorTypes
<1>6. FlagTypeOK
  BY DEF Init, LinkInit, FlagTypeOK
<1>7. HistoryTypeOK
  BY LinkAssumption DEF Init, LinkInit, HistoryTypeOK, Fates
<1>8. StateTypeOK
  BY DEF Init, StateTypeOK
<1>9. QED
  BY <1>1, <1>2, <1>3, <1>4, <1>5, <1>6, <1>7, <1>8
  DEF TypeOK, PortTypeOK, LinkTypeOK

LEMMA ReceiveByteType ==
  ASSUME TypeOK, ReceiveByte, UNCHANGED pollVars
  PROVE  TypeOK'
<1> USE DEF TypeOK, PortTypeOK, LinkTypeOK
<1>1. PollTypeOK' /\ RequesterTypeOK'
  BY DEF PollTypeOK, RequesterTypeOK, ReceiveByte, portVars
<1>2. ReceiverTypeOK'
  BY LinkAssumption DEF ReceiverTypeOK, ReceiveByte, ReceiverSkips,
     ReceiverBegins, ReceiverAppends, ReceiverOverflows
<1>3. TransmitterTypeOK'
  BY DEF TransmitterTypeOK, ReceiveByte, ReceiverSkips, ReceiverBegins,
     ReceiverAppends, ReceiverOverflows
<1>4. TimerTypeOK'
  BY DEF TimerTypeOK, ReceiveByte, TimerEnable
<1>5. FlagTypeOK'
  BY DEF FlagTypeOK, ReceiveByte, TimerEnable
<1>6. HistoryTypeOK'
  BY DEF HistoryTypeOK, ReceiveByte, Assert
<1>7. StateTypeOK'
  BY DEF StateTypeOK, pollVars
<1>8. QED
  BY <1>1, <1>2, <1>3, <1>4, <1>5, <1>6, <1>7

LEMMA TimerExpiredType ==
  ASSUME TypeOK, TimerExpired, UNCHANGED pollVars
  PROVE  TypeOK'
<1> USE DEF TypeOK, PortTypeOK, LinkTypeOK
<1>1. PollTypeOK'
  <2>1. /\ ReceiverEvent \in SUBSET PollEvents
        /\ TransmitterEvent \in SUBSET PollEvents
        /\ ModeEvent \in SUBSET PollEvents
    BY DEF ReceiverEvent, TransmitterEvent, ModeEvent, PollEvents
  <2>2. QED
    BY <2>1, PostInOrderType DEF TimerExpired
<1>2. RequesterTypeOK'
  BY DEF RequesterTypeOK, TimerExpired
<1>3. ReceiverTypeOK'
  BY DEF ReceiverTypeOK, TimerExpired, LinkRests
<1>4. TransmitterTypeOK'
  BY DEF TransmitterTypeOK, TimerExpired, LinkRests
<1>5. TimerTypeOK'
  BY DEF TimerTypeOK, TimerExpired, ExpiryErrorType, ErrorTypes
<1>6. FlagTypeOK'
  BY DEF FlagTypeOK, TimerExpired, vMBMasterPortTimersDisable
<1>7. HistoryTypeOK'
  BY DEF HistoryTypeOK, TimerExpired, SettleAtExpiry, Settle, Assert, Fates
<1>8. StateTypeOK'
  BY DEF StateTypeOK, pollVars
<1>9. QED
  BY <1>1, <1>2, <1>3, <1>4, <1>5, <1>6, <1>7, <1>8

LEMMA TransStepType ==
  ASSUME TypeOK, TransStep, UNCHANGED pollVars
  PROVE  TypeOK'
<1> USE DEF TypeOK, PortTypeOK, LinkTypeOK, TransStep, TransmitFSM,
            TransmitEnableReceiver, TransmitClearEvent, TransmitFinished,
            TransmitArmTimer
<1>1. PollTypeOK' /\ RequesterTypeOK'
  BY DEF PollTypeOK, RequesterTypeOK, portVars
<1>2. ReceiverTypeOK'
  BY DEF ReceiverTypeOK
<1>3. TransmitterTypeOK'
  <2>1. sndCount' \in 0 .. SndBytes
    <3>1. sndCount' = sndCount \/ (sndCount # 0 /\ sndCount' = sndCount - 1)
      BY DEF TransmitterIdle, TransmitterPutByte, TransmitterDone,
         TransmitterSpins
    <3>2. QED
      BY <3>1, LinkAssumption DEF TransmitterTypeOK
  <2>2. UNCHANGED <<sndBuf, sndAddr>>
    OBVIOUS
  <2>3. /\ snd' \in {"IDLE", "XMIT", "XFWR"}
        /\ transPc' \in TransPcs
    BY DEF TransmitterTypeOK, TransmitterIdle, TransmitterPutByte,
       TransmitterDone, TransmitterSpins, TransPcs
  <2>4. QED
    BY <2>1, <2>2, <2>3 DEF TransmitterTypeOK
<1>4. TimerTypeOK'
  BY DEF TimerTypeOK, ArmTimer, TimerEnable
<1>5. FlagTypeOK'
  BY DEF FlagTypeOK, TransmitterIdle, TransmitterPutByte, TransmitterDone,
     TransmitterSpins, vMBMasterPortSerialEnable, ArmTimer, TimerEnable,
     historyVars
<1>6. HistoryTypeOK'
  BY DEF HistoryTypeOK, TransmitterIdle, TransmitterPutByte, TransmitterDone,
     TransmitterSpins, Assert, Fates, historyVars
<1>7. StateTypeOK'
  BY DEF StateTypeOK, pollVars
<1>8. QED
  BY <1>1, <1>2, <1>3, <1>4, <1>5, <1>6, <1>7

LEMMA ControlStepType ==
  ASSUME TypeOK, ControlStep
  PROVE  TypeOK'
<1> USE DEF TypeOK, PortTypeOK, LinkTypeOK, ControlStep, eMBMasterRTUStop,
            Disabled, Restart, Restarted
<1>1. PollTypeOK' /\ RequesterTypeOK'
  BY DEF PollTypeOK, RequesterTypeOK, portVars
<1>2. ReceiverTypeOK'
  BY DEF ReceiverTypeOK, linkVars
<1>3. TransmitterTypeOK'
  BY DEF TransmitterTypeOK, linkVars
<1>4. TimerTypeOK'
  BY DEF TimerTypeOK, TimerEnable, linkVars
<1>5. FlagTypeOK'
  BY DEF FlagTypeOK, vMBMasterPortSerialEnable, vMBMasterPortTimersDisable,
     TimerEnable, linkVars, historyVars
<1>6. HistoryTypeOK'
  BY DEF HistoryTypeOK, historyVars
<1>7. StateTypeOK'
  BY DEF StateTypeOK
<1>8. QED
  BY <1>1, <1>2, <1>3, <1>4, <1>5, <1>6, <1>7

LEMMA RequesterType ==
  ASSUME TypeOK, NEW a \in Apps,
         AppStep(a) \/ xMBMasterRunResTake(a) \/ TakeTimedOut(a)
  PROVE  TypeOK'
<1> USE DEF TypeOK, PortTypeOK, LinkTypeOK, AppStep, xMBMasterRunResTake,
            TakeTimedOut, vMBMasterSetDestAddress, FillFrame, PostFrameSent,
            WaitRequestFinish, Return
<1>1. PollTypeOK'
  <2>1. {"FRAME_SENT"} \in SUBSET PollEvents /\ {} \in SUBSET PollEvents
    BY DEF PollEvents
  <2>2. QED
    BY <2>1, PostInOrderType DEF PollTypeOK, xMBMasterPortEventPost
<1>2. RequesterTypeOK'
  <2>1. CASE xMBMasterRunResTake(a) \/ TakeTimedOut(a)
    BY <2>1, AppsAssumption DEF RequesterTypeOK, AppPcs
  <2>2. CASE AppStep(a)
    BY <2>2 DEF RequesterTypeOK, AppPcs, WaitForResult
  <2>3. QED
    BY <2>1, <2>2
<1>3. ReceiverTypeOK'
  BY DEF ReceiverTypeOK, linkVars
<1>4. TransmitterTypeOK'
  BY DEF TransmitterTypeOK, linkVars
<1>5. TimerTypeOK'
  BY DEF TimerTypeOK, linkVars
<1>6. FlagTypeOK'
  BY DEF FlagTypeOK, linkVars, historyVars
<1>7. HistoryTypeOK'
  BY DEF HistoryTypeOK, historyVars, Fates
<1>8. StateTypeOK'
  BY DEF StateTypeOK, pollVars
<1>9. QED
  BY <1>1, <1>2, <1>3, <1>4, <1>5, <1>6, <1>7, <1>8

LEMMA PollStepType ==
  ASSUME TypeOK, PollStep
  PROVE  TypeOK'
<1> USE DEF TypeOK, PortTypeOK, LinkTypeOK, PollStep, eMBMasterRTUStart,
            Enabled, PollGet, PollNothing, PollReadyEvent, PollReceive,
            PollAccept, PollReject, PollExecute, PollSucceed,
            PollErrorProcess, PollRelease, PollSend, SendLoad,
            SendEnableTransmitter
<1>1. PollTypeOK'
  BY DEF PollTypeOK, PollPcs, PollEvents, PostToSelf, xMBMasterPortEventGet
<1>2. RequesterTypeOK'
  <2>1. CASE PollSucceed
    <3>1. "PROCESS_SUCCESS" \in AppEvents
      BY DEF AppEvents
    <3>2. QED
      BY <2>1, <3>1, SendToRequesterType DEF RequesterTypeOK
  <2>2. CASE PollErrorProcess
    <3>1. errType \in AppEvents
      BY DEF AppEvents, TimerTypeOK
    <3>2. QED
      BY <2>2, <3>1, SendToRequesterType DEF RequesterTypeOK
  <2>3. CASE PollRelease
    BY <2>3, ReleaseType DEF RequesterTypeOK
  <2>4. CASE UNCHANGED <<evApp, appPc, appGot, sem>>
    BY <2>4 DEF RequesterTypeOK
  <2>5. QED
    BY <2>1, <2>2, <2>3, <2>4 DEF xMBMasterPortEventGet
<1>3. ReceiverTypeOK'
  BY DEF ReceiverTypeOK, linkVars
<1>4. TransmitterTypeOK'
  <2>1. CASE SendLoad
    BY <2>1, LinkAssumption DEF TransmitterTypeOK, TimerTypeOK
  <2>2. CASE UNCHANGED <<snd, sndBuf, sndCount, sndAddr, transPc>>
    BY <2>2 DEF TransmitterTypeOK
  <2>3. QED
    BY <2>1, <2>2 DEF linkVars
<1>5. TimerTypeOK'
  <2>1. dest' \in 0 .. TotalSlaveNum
    <3>1. dest' = dest \/ dest' = TotalSlaveNum
      BY DEF linkVars
    <3>2. QED
      BY <3>1, LinkAssumption DEF TimerTypeOK
  <2>2. errType' \in ErrorTypes
    BY DEF TimerTypeOK, ErrorTypes, linkVars
  <2>3. timerMode' \in {"T35", "RESPOND_TIMEOUT", "CONVERT_DELAY"}
    BY DEF TimerTypeOK, TimerEnable, linkVars
  <2>4. QED
    BY <2>1, <2>2, <2>3 DEF TimerTypeOK
<1>6. FlagTypeOK'
  BY DEF FlagTypeOK, vMBMasterPortSerialEnable, TimerEnable, linkVars,
     historyVars
<1>7. HistoryTypeOK'
  BY DEF HistoryTypeOK, TransmitterTypeOK, Assert, Settle, Fates, historyVars
<1>8. StateTypeOK'
  BY LinkAssumption DEF StateTypeOK, ReceiverTypeOK, Frames, pollVars
<1>9. QED
  BY <1>1, <1>2, <1>3, <1>4, <1>5, <1>6, <1>7, <1>8

LEMMA NextTypeOK == TypeOK /\ [Next]_vars => TypeOK'
<1> SUFFICES ASSUME TypeOK, [Next]_vars PROVE TypeOK'
  OBVIOUS
<1>1. CASE UNCHANGED vars
  BY <1>1 DEF vars, portVars, linkVars, historyVars, pollVars, TypeOK,
     PortTypeOK, LinkTypeOK, PollTypeOK, RequesterTypeOK, ReceiverTypeOK,
     TransmitterTypeOK, TimerTypeOK, FlagTypeOK, HistoryTypeOK, StateTypeOK
<1>2. CASE Next
  BY <1>2, PollStepType, TransStepType, RequesterType, ReceiveByteType,
     TimerExpiredType, ControlStepType DEF Next, ByteArrives, TimerTick
<1>3. QED
  BY <1>1, <1>2

(* Every variable keeps its type: the receive position never passes the    *)
(* buffer, the destination is a slave of the system, the semaphore stays   *)
(* within its width, and every event is of the mask it is received by.     *)
THEOREM TypeCorrect == Spec => []TypeOK
<1>1. Init => TypeOK
  BY InitTypeOK
<1>2. TypeOK /\ [Next]_vars => TypeOK'
  BY NextTypeOK
<1>3. QED
  BY <1>1, <1>2, PTL DEF Spec

-----------------------------------------------------------------------------
(* ReceiverTimed is not inductive: a stack that is being enabled again     *)
(* must already have its timer running when it comes to run.               *)
ReceiverTimedInv ==
  pollPc # "start" /\ ctlPc \in {"run", "starting"} /\ rcv # "IDLE" => timerOn

LEMMA PostInOrderStarts ==
  ASSUME NEW first, NEW second, NEW third, PostInOrder(first, second, third)
  PROVE  pollPc' # "start" => pollPc # "start"
BY DEF PostInOrder

LEMMA NextReceiverTimed ==
  ASSUME ReceiverTimedInv, [Next]_vars
  PROVE  ReceiverTimedInv'
<1> USE DEF ReceiverTimedInv
<1>1. CASE UNCHANGED vars
  BY <1>1 DEF vars, portVars, linkVars, pollVars
<1>2. CASE PollStep
  <2>1. CASE eMBMasterRTUStart
    BY <2>1 DEF eMBMasterRTUStart, TimerEnable
  <2>2. CASE ~eMBMasterRTUStart
    <3> USE <1>2, <2>2 DEF PollStep, Enabled, PollGet, PollNothing,
            PollReadyEvent, PollReceive, PollAccept, PollReject, PollExecute,
            PollSucceed, PollErrorProcess, PollRelease, PollSend, SendLoad,
            SendEnableTransmitter, xMBMasterPortEventGet
    <3>1. UNCHANGED <<rcv, timerOn>>
      BY DEF linkVars
    <3>2. UNCHANGED ctlPc
      BY DEF pollVars
    <3>3. pollPc # "start"
      OBVIOUS
    <3>4. QED
      BY <3>1, <3>2, <3>3
  <2>3. QED
    BY <2>1, <2>2
<1>3. CASE TransStep /\ UNCHANGED pollVars
  BY <1>3 DEF TransStep, TransmitFSM, TransmitEnableReceiver,
     TransmitClearEvent, TransmitFinished, TransmitArmTimer, ArmTimer,
     TimerEnable, portVars, pollVars
<1>4. CASE \E a \in Apps : AppStep(a) \/ xMBMasterRunResTake(a)
                           \/ TakeTimedOut(a)
  <2>1. PICK a \in Apps : AppStep(a) \/ xMBMasterRunResTake(a)
                          \/ TakeTimedOut(a)
    BY <1>4
  <2>2. UNCHANGED <<rcv, timerOn, ctlPc>>
    BY <2>1 DEF AppStep, xMBMasterRunResTake, TakeTimedOut, Return,
       vMBMasterSetDestAddress, FillFrame, PostFrameSent, WaitRequestFinish,
       linkVars, pollVars
  <2>3. pollPc' # "start" => pollPc # "start"
    BY <2>1, PostInOrderStarts DEF AppStep, xMBMasterRunResTake, TakeTimedOut,
       Return, vMBMasterSetDestAddress, FillFrame, PostFrameSent,
       WaitRequestFinish, xMBMasterPortEventPost
  <2>4. QED
    BY <2>2, <2>3
<1>5. CASE ByteArrives
  BY <1>5 DEF ByteArrives, ReceiveByte, TimerEnable
<1>6. CASE TimerTick
  BY <1>6 DEF TimerTick, TimerExpired, LinkRests
<1>7. CASE ControlStep
  <2>1. CASE eMBMasterRTUStop \/ Disabled
    BY <2>1 DEF eMBMasterRTUStop, Disabled
  <2>2. CASE Restart
    BY <2>2 DEF Restart, TimerEnable
  <2>3. CASE Restarted
    BY <2>3 DEF Restarted, portVars, linkVars
  <2>4. QED
    BY <1>7, <2>1, <2>2, <2>3 DEF ControlStep
<1>8. QED
  BY <1>1, <1>2, <1>3, <1>4, <1>5, <1>6, <1>7 DEF Next

(* Whatever the bus and the threads do, and however often the stack is     *)
(* disabled and enabled, a receiver that is not idle has its timer         *)
(* running: only the timer brings it back to idle.                         *)
THEOREM ReceiverAlwaysTimed == Spec => []ReceiverTimed
<1>1. Init => ReceiverTimedInv
  BY DEF Init, PortInit, ReceiverTimedInv
<1>2. ReceiverTimedInv /\ [Next]_vars => ReceiverTimedInv'
  BY NextReceiverTimed
<1>3. ReceiverTimedInv => ReceiverTimed
  BY DEF ReceiverTimedInv, ReceiverTimed
<1>4. QED
  BY <1>1, <1>2, <1>3, PTL DEF Spec

-----------------------------------------------------------------------------
(* The right to use the master, counted: the units of the semaphore, the   *)
(* requesters that hold one, and the poll thread that is about to give one *)
(* back.                                                                   *)
LEMMA AppEventsFinite == IsFiniteSet(AppEvents)
<1> DEFINE E1 == {"PROCESS_SUCCESS"} \cup {"RESPOND_TIMEOUT"}
           E2 == E1 \cup {"RECEIVE_DATA"}
<1>1. IsFiniteSet({"PROCESS_SUCCESS"})
  BY FS_Singleton
<1>2. IsFiniteSet(E1)
  BY <1>1, FS_AddElement
<1>3. IsFiniteSet(E2)
  BY <1>2, FS_AddElement
<1>4. IsFiniteSet(E2 \cup {"EXECUTE_FUNCTION"})
  BY <1>3, FS_AddElement
<1>5. E2 \cup {"EXECUTE_FUNCTION"} = AppEvents
  BY DEF AppEvents, ErrorTypes
<1>6. QED
  BY <1>4, <1>5

(* All the counts are of finite sets, before a step and after it.          *)
LEMMA CountsAreNat ==
  ASSUME NEW R \in SUBSET Apps, NEW E \in SUBSET AppEvents
  PROVE  /\ IsFiniteSet(R) /\ Cardinality(R) \in Nat
         /\ IsFiniteSet(E) /\ Cardinality(E) \in Nat
<1>1. IsFiniteSet(R) /\ IsFiniteSet(E)
  BY AppsAssumption, AppEventsFinite, FS_Subset
<1>2. QED
  BY <1>1, FS_CardinalityType

LEMMA StateCounts ==
  ASSUME TypeOK
  PROVE  /\ IsFiniteSet(Requesters) /\ Cardinality(Requesters) \in Nat
         /\ IsFiniteSet(evApp) /\ Cardinality(evApp) \in Nat
         /\ sem \in Nat
<1>1. Requesters \in SUBSET Apps /\ evApp \in SUBSET AppEvents
  BY DEF Requesters, TypeOK, PortTypeOK, RequesterTypeOK
<1>2. sem \in Nat
  BY AppsAssumption DEF TypeOK, PortTypeOK, RequesterTypeOK
<1>3. QED
  BY <1>1, <1>2, CountsAreNat

LEMMA NextStateCounts ==
  ASSUME TypeOK'
  PROVE  /\ Cardinality(Requesters') \in Nat
         /\ Cardinality(evApp') \in Nat
         /\ sem' \in Nat
<1>1. Requesters' \in SUBSET Apps /\ evApp' \in SUBSET AppEvents
  BY DEF Requesters, TypeOK, PortTypeOK, RequesterTypeOK
<1>2. sem' \in Nat
  BY AppsAssumption DEF TypeOK, PortTypeOK, RequesterTypeOK
<1>3. QED
  BY <1>1, <1>2, CountsAreNat

LEMMA PlacesInRequest ==
  /\ "dest" \in InRequest /\ "recv" \in InRequest /\ "wait" \in InRequest
  /\ "idle" \notin InRequest /\ "blocked" \notin InRequest
  /\ "woken" \notin InRequest
BY DEF InRequest

(* One thread that moves between the places of the code changes the number *)
(* of requesters by one at most.                                           *)
LEMMA RequesterMoves ==
  ASSUME TypeOK, NEW a \in Apps, NEW pc,
         appPc' = [appPc EXCEPT ![a] = pc]
  PROVE  /\ appPc[a] \notin InRequest /\ pc \in InRequest =>
              Cardinality(Requesters') = Cardinality(Requesters) + 1
         /\ appPc[a] \in InRequest /\ pc \notin InRequest =>
              Cardinality(Requesters') = Cardinality(Requesters) - 1
         /\ (appPc[a] \in InRequest <=> pc \in InRequest) =>
              Cardinality(Requesters') = Cardinality(Requesters)
<1>1. appPc \in [Apps -> AppPcs]
  BY DEF TypeOK, PortTypeOK, RequesterTypeOK
<1>2. IsFiniteSet(Requesters)
  BY StateCounts
<1>3. a \in Requesters <=> appPc[a] \in InRequest
  BY DEF Requesters
<1>4. ASSUME appPc[a] \notin InRequest, pc \in InRequest
      PROVE  Cardinality(Requesters') = Cardinality(Requesters) + 1
  <2>1. Requesters' = Requesters \cup {a}
    BY <1>1, <1>4 DEF Requesters
  <2>2. Cardinality(Requesters \cup {a}) = Cardinality(Requesters) + 1
    BY <1>2, <1>3, <1>4, FS_AddElement
  <2>3. QED
    BY <2>1, <2>2
<1>5. ASSUME appPc[a] \in InRequest, pc \notin InRequest
      PROVE  Cardinality(Requesters') = Cardinality(Requesters) - 1
  <2>1. Requesters' = Requesters \ {a}
    BY <1>1, <1>5 DEF Requesters
  <2>2. Cardinality(Requesters \ {a}) = Cardinality(Requesters) - 1
    BY <1>2, <1>3, <1>5, FS_RemoveElement
  <2>3. QED
    BY <2>1, <2>2
<1>6. ASSUME appPc[a] \in InRequest <=> pc \in InRequest
      PROVE  Cardinality(Requesters') = Cardinality(Requesters)
  <2>1. Requesters' = Requesters
    BY <1>1, <1>6 DEF Requesters
  <2>2. QED
    BY <2>1
<1>7. QED
  BY <1>4, <1>5, <1>6

(* A result that is sent takes a waiting requester out of its request, or  *)
(* is kept as one more pending bit.                                        *)
LEMMA ResultSent ==
  ASSUME TypeOK, NEW e, SendToRequester(e)
  PROVE  Cardinality(Requesters') - Cardinality(evApp') >=
           Cardinality(Requesters) - Cardinality(evApp) - 1
<1> USE StateCounts
<1>1. CASE Suspended("wait") = {}
  <2>1. evApp' = evApp \cup {e} /\ Requesters' = Requesters
    BY <1>1 DEF SendToRequester, Requesters
  <2>2. Cardinality(evApp') =
          IF e \in evApp THEN Cardinality(evApp) ELSE Cardinality(evApp) + 1
    BY <2>1, FS_AddElement
  <2>3. QED
    BY <2>1, <2>2
<1>2. CASE Suspended("wait") # {}
  <2>1. PICK a \in MostUrgent(Suspended("wait")) :
          appPc' = [appPc EXCEPT ![a] = "woken"] /\ UNCHANGED evApp
    BY <1>2 DEF SendToRequester
  <2>2. a \in Apps /\ appPc[a] = "wait"
    BY DEF MostUrgent, Suspended
  <2>3. Cardinality(Requesters') = Cardinality(Requesters) - 1
    BY <2>1, <2>2, RequesterMoves, PlacesInRequest
  <2>4. QED
    BY <2>1, <2>3
<1>3. QED
  BY <1>1, <1>2

-----------------------------------------------------------------------------
(* A step that leaves the requesters, the semaphore and the results alone. *)
LEMMA MasterUntouched ==
  ASSUME MasterNeverLost,
         UNCHANGED <<evApp, appPc, sem>>,
         pollPc' = "release" <=> pollPc = "release"
  PROVE  MasterNeverLost'
<1>1. Requesters' = Requesters
  BY DEF Requesters
<1>2. QED
  BY <1>1 DEF MasterNeverLost

LEMMA PostInOrderReleases ==
  ASSUME NEW first, NEW second, NEW third, PostInOrder(first, second, third)
  PROVE  pollPc' = "release" <=> pollPc = "release"
BY DEF PostInOrder

LEMMA PollKeepsMaster ==
  ASSUME TypeOK, TypeOK', MasterNeverLost, PollStep
  PROVE  MasterNeverLost'
<1> USE StateCounts, NextStateCounts
<1>1. CASE PollSucceed \/ PollErrorProcess
  <2>1. PICK e : SendToRequester(e)
    BY <1>1 DEF PollSucceed, PollErrorProcess
  <2>2. /\ pollPc # "release" /\ pollPc' = "release"
        /\ sem' = sem
    BY <1>1 DEF PollSucceed, PollErrorProcess
  <2>3. Cardinality(Requesters') - Cardinality(evApp') >=
          Cardinality(Requesters) - Cardinality(evApp) - 1
    BY <2>1, ResultSent
  <2>4. QED
    BY <2>2, <2>3 DEF MasterNeverLost
<1>2. CASE PollRelease
  <2>1. pollPc = "release" /\ pollPc' = "get" /\ evApp' = evApp
    BY <1>2 DEF PollRelease
  <2>2. CASE Suspended("blocked") = {}
    <3>1. sem' = sem + 1 /\ Requesters' = Requesters
      BY <1>2, <2>2 DEF PollRelease, vMBMasterRunResRelease, Requesters
    <3>2. QED
      BY <2>1, <3>1 DEF MasterNeverLost
  <2>3. CASE Suspended("blocked") # {}
    <3>1. PICK a \in MostUrgent(Suspended("blocked")) :
            appPc' = [appPc EXCEPT ![a] = "dest"] /\ sem' = sem
      BY <1>2, <2>3 DEF PollRelease, vMBMasterRunResRelease
    <3>2. a \in Apps /\ appPc[a] = "blocked"
      BY DEF MostUrgent, Suspended
    <3>3. Cardinality(Requesters') = Cardinality(Requesters) + 1
      BY <3>1, <3>2, RequesterMoves, PlacesInRequest
    <3>4. QED
      BY <2>1, <3>1, <3>3 DEF MasterNeverLost
  <2>4. QED
    BY <2>2, <2>3
<1>3. CASE ~(PollSucceed \/ PollErrorProcess \/ PollRelease)
  <2> USE <1>3 DEF PollStep, eMBMasterRTUStart, Enabled, PollGet,
          xMBMasterPortEventGet, PollNothing, PollReadyEvent, PollReceive,
          PollAccept, PollReject, PollExecute, PollSend, SendLoad,
          SendEnableTransmitter
  <2>1. UNCHANGED <<evApp, appPc, sem>>
    OBVIOUS
  <2>2. pollPc # "release" /\ pollPc' # "release"
    OBVIOUS
  <2>3. QED
    BY <2>1, <2>2, MasterUntouched
<1>4. QED
  BY <1>1, <1>2, <1>3

LEMMA RequesterKeepsMaster ==
  ASSUME TypeOK, TypeOK', MasterNeverLost, NEW a \in Apps,
         AppStep(a) \/ xMBMasterRunResTake(a) \/ TakeTimedOut(a)
  PROVE  MasterNeverLost'
<1> USE StateCounts, NextStateCounts
<1>1. CASE xMBMasterRunResTake(a)
  <2>1. /\ appPc[a] = "idle"
        /\ UNCHANGED <<evApp, pollPc>>
    BY <1>1 DEF xMBMasterRunResTake
  <2>2. CASE sem > 0
    <3>1. sem' = sem - 1 /\ appPc' = [appPc EXCEPT ![a] = "dest"]
      BY <1>1, <2>2 DEF xMBMasterRunResTake
    <3>2. Cardinality(Requesters') = Cardinality(Requesters) + 1
      BY <2>1, <3>1, RequesterMoves, PlacesInRequest
    <3>3. QED
      BY <2>1, <3>1, <3>2 DEF MasterNeverLost
  <2>3. CASE ~(sem > 0)
    <3>1. sem' = sem /\ appPc' = [appPc EXCEPT ![a] = "blocked"]
      BY <1>1, <2>3 DEF xMBMasterRunResTake
    <3>2. Cardinality(Requesters') = Cardinality(Requesters)
      BY <2>1, <3>1, RequesterMoves, PlacesInRequest
    <3>3. QED
      BY <2>1, <3>1, <3>2 DEF MasterNeverLost
  <2>4. QED
    BY <2>2, <2>3
<1>2. CASE TakeTimedOut(a) \/ Return(a)
  <2>1. /\ appPc[a] \notin InRequest
        /\ appPc' = [appPc EXCEPT ![a] = "idle"]
        /\ UNCHANGED <<evApp, pollPc, sem>>
    BY <1>2 DEF TakeTimedOut, Return, InRequest
  <2>2. Cardinality(Requesters') = Cardinality(Requesters)
    BY <2>1, RequesterMoves, PlacesInRequest
  <2>3. QED
    BY <2>1, <2>2 DEF MasterNeverLost
<1>3. CASE vMBMasterSetDestAddress(a) \/ FillFrame(a) \/ PostFrameSent(a)
  <2>1. PICK pc \in InRequest : appPc' = [appPc EXCEPT ![a] = pc]
    BY <1>3 DEF vMBMasterSetDestAddress, FillFrame, PostFrameSent, InRequest
  <2>2. appPc[a] \in InRequest
    BY <1>3 DEF vMBMasterSetDestAddress, FillFrame, PostFrameSent, InRequest
  <2>3. Cardinality(Requesters') = Cardinality(Requesters)
    BY <2>1, <2>2, RequesterMoves
  <2>4. UNCHANGED <<evApp, sem>> /\ (pollPc' = "release" <=> pollPc = "release")
    BY <1>3, PostInOrderReleases DEF vMBMasterSetDestAddress, FillFrame,
       PostFrameSent, xMBMasterPortEventPost
  <2>5. QED
    BY <2>3, <2>4 DEF MasterNeverLost
<1>4. CASE WaitRequestFinish(a)
  <2>1. appPc[a] = "recv" /\ UNCHANGED <<pollPc, sem>>
    BY <1>4 DEF WaitRequestFinish
  <2>2. CASE evApp # {}
    <3>1. evApp' = {} /\ appPc' = [appPc EXCEPT ![a] = "woken"]
      BY <1>4, <2>2 DEF WaitRequestFinish, WaitForResult
    <3>2. Cardinality(Requesters') = Cardinality(Requesters) - 1
      BY <2>1, <3>1, RequesterMoves, PlacesInRequest
    <3>3. Cardinality(evApp') = 0 /\ Cardinality(evApp) >= 1
      <4>1. Cardinality(evApp') = 0
        BY <3>1, FS_EmptySet
      <4>2. Cardinality(evApp) # 0
        BY <2>2, FS_EmptySet
      <4>3. QED
        BY <4>1, <4>2
    <3>4. sem' = sem /\ pollPc' = pollPc
      BY <2>1
    <3>5. PICK releasing \in {0, 1} :
            releasing = IF pollPc = "release" THEN 1 ELSE 0
      OBVIOUS
    <3>6. sem + Cardinality(Requesters) + releasing >= 1 + Cardinality(evApp)
      BY <3>5 DEF MasterNeverLost
    <3>7. sem' + Cardinality(Requesters') + releasing
            >= 1 + Cardinality(evApp')
      BY <3>2, <3>3, <3>4, <3>6
    <3>8. QED
      BY <3>4, <3>5, <3>7 DEF MasterNeverLost
  <2>3. CASE evApp = {}
    <3>1. evApp' = evApp /\ appPc' = [appPc EXCEPT ![a] = "wait"]
      BY <1>4, <2>3 DEF WaitRequestFinish, WaitForResult
    <3>2. Cardinality(Requesters') = Cardinality(Requesters)
      BY <2>1, <3>1, RequesterMoves, PlacesInRequest
    <3>3. QED
      BY <2>1, <3>1, <3>2 DEF MasterNeverLost
  <2>4. QED
    BY <2>2, <2>3
<1>5. QED
  BY <1>1, <1>2, <1>3, <1>4 DEF AppStep

LEMMA NextKeepsMaster ==
  ASSUME TypeOK, TypeOK', MasterNeverLost, [Next]_vars
  PROVE  MasterNeverLost'
<1>1. CASE PollStep
  BY <1>1, PollKeepsMaster
<1>2. CASE \E a \in Apps : AppStep(a) \/ xMBMasterRunResTake(a)
                           \/ TakeTimedOut(a)
  BY <1>2, RequesterKeepsMaster
<1>3. CASE UNCHANGED portVars
  BY <1>3, MasterUntouched DEF portVars
<1>4. CASE TimerTick
  BY <1>4, MasterUntouched, PostInOrderReleases DEF TimerTick, TimerExpired
<1>5. QED
  <2>1. TransStep => UNCHANGED portVars
    BY DEF TransStep, TransmitFSM, TransmitEnableReceiver,
       TransmitClearEvent, TransmitFinished,
       TransmitArmTimer
  <2>2. ByteArrives => UNCHANGED portVars
    BY DEF ByteArrives, ReceiveByte, portVars
  <2>3. ControlStep => UNCHANGED portVars
    BY DEF ControlStep, eMBMasterRTUStop, Disabled, Restart, Restarted
  <2>4. UNCHANGED vars => UNCHANGED portVars
    BY DEF vars
  <2>5. QED
    BY <1>1, <1>2, <1>3, <1>4, <2>1, <2>2, <2>3, <2>4 DEF Next

(* Whatever the bus, the slaves, the scheduler and the callers do, the     *)
(* right to use the master is never lost: it is in the semaphore, with a   *)
(* requester that waits for its result, or with the poll thread about to   *)
(* give it back, and every result that is still to be received stands for  *)
(* one more.                                                               *)
THEOREM MasterIsNeverLost == Spec => []MasterNeverLost
<1>1. Init => MasterNeverLost
  <2> SUFFICES ASSUME Init PROVE MasterNeverLost
    OBVIOUS
  <2>1. Requesters = {} /\ evApp = {} /\ sem = 1 /\ pollPc # "release"
    BY DEF Init, PortInit, Requesters, InRequest
  <2>2. QED
    BY <2>1, FS_EmptySet DEF MasterNeverLost
<1>2. TypeOK /\ TypeOK' /\ MasterNeverLost /\ [Next]_vars => MasterNeverLost'
  BY NextKeepsMaster
<1>3. QED
  BY <1>1, <1>2, TypeCorrect, PTL DEF Spec
=============================================================================
