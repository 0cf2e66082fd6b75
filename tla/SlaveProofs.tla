---------------------------- MODULE SlaveProofs ----------------------------
(***************************************************************************)
(* Theorems about SlaveStack: type correctness and the receiver's timer    *)
(* under every fault, and what holds whenever the processor keeps up with  *)
(* the bus, also while the stack is disabled and enabled.                  *)
(***************************************************************************)
EXTENDS SlaveStack, FiniteSetTheorems, TLAPS

-----------------------------------------------------------------------------
LEMMA PostType ==
  ASSUME PortTypeOK, NEW S \in SUBSET Events, Post(S)
  PROVE  PortTypeOK'
BY DEF PortTypeOK, Post, PollPcs

LEMMA InitTypeOK == Init => TypeOK
<1> SUFFICES ASSUME Init PROVE TypeOK
  OBVIOUS
<1>1. PortTypeOK
  BY DEF Init, LinkInit, PortTypeOK, PollPcs
<1>2. ReceiverTypeOK
  BY SlaveAssumption DEF Init, LinkInit, ReceiverTypeOK
<1>3. TransmitterTypeOK
  BY SlaveAssumption DEF Init, LinkInit, TransmitterTypeOK, TransPcs
<1>4. FlagTypeOK
  BY DEF Init, LinkInit, FlagTypeOK
<1>5. HistoryTypeOK /\ StateTypeOK
  BY DEF Init, LinkInit, HistoryTypeOK, StateTypeOK, Dues
<1>6. QED
  BY <1>1, <1>2, <1>3, <1>4, <1>5 DEF TypeOK, LinkTypeOK

LEMMA ReceiveByteType ==
  ASSUME TypeOK, ReceiveByte, UNCHANGED stackVars
  PROVE  TypeOK'
<1> USE DEF TypeOK, LinkTypeOK, ReceiveByte
<1>1. PortTypeOK' /\ StateTypeOK'
  BY DEF PortTypeOK, StateTypeOK, portVars, stackVars
<1>2. ReceiverTypeOK'
  BY SlaveAssumption DEF ReceiverTypeOK, ReceiverSkips, ReceiverBegins,
     ReceiverAppends, ReceiverOverflows
<1>3. TransmitterTypeOK'
  BY DEF TransmitterTypeOK
<1>4. FlagTypeOK'
  BY DEF FlagTypeOK, vMBPortTimersEnable
<1>5. HistoryTypeOK'
  BY DEF HistoryTypeOK, Dues, Assert, ReceiverSkips, ReceiverBegins,
     ReceiverAppends, ReceiverOverflows
<1>6. QED
  BY <1>1, <1>2, <1>3, <1>4, <1>5

LEMMA T35ExpiredType ==
  ASSUME TypeOK, T35Expired, UNCHANGED stackVars
  PROVE  TypeOK'
<1> USE DEF TypeOK, LinkTypeOK, T35Expired
<1>1. PortTypeOK'
  <2>1. ExpiryEvent \in SUBSET Events
    BY DEF ExpiryEvent, Events
  <2>2. QED
    BY <2>1, PostType
<1>2. ReceiverTypeOK'
  BY DEF ReceiverTypeOK, T35ReceiverRests
<1>3. TransmitterTypeOK'
  BY DEF TransmitterTypeOK
<1>4. FlagTypeOK'
  BY DEF FlagTypeOK, vMBPortTimersDisable
<1>5. HistoryTypeOK'
  BY DEF HistoryTypeOK, Dues, Assert, DueForFrame
<1>6. StateTypeOK'
  BY DEF StateTypeOK, stackVars
<1>7. QED
  BY <1>1, <1>2, <1>3, <1>4, <1>5, <1>6

LEMMA TransStepType ==
  ASSUME TypeOK, TransStep, UNCHANGED stackVars
  PROVE  TypeOK'
<1> USE DEF TypeOK, LinkTypeOK, TransStep, TransmitFSM,
            TransmitEnableReceiver, TransmitClearEvent, TransmitFinished,
            TransmitterIdle, TransmitterPutByte, TransmitterDone
<1>1. PortTypeOK'
  <2>1. CASE UNCHANGED portVars
    BY <2>1 DEF PortTypeOK, portVars
  <2>2. CASE xMBPortEventPost("FRAME_SENT")
    <3>1. {"FRAME_SENT"} \in SUBSET Events
      BY DEF Events
    <3>2. QED
      BY <2>2, <3>1, PostType DEF xMBPortEventPost
  <2>3. QED
    BY <2>1, <2>2
<1>2. ReceiverTypeOK'
  BY DEF ReceiverTypeOK
<1>3. TransmitterTypeOK'
  <2>1. sndCount' \in 0 .. SndBytes
    <3>1. sndCount' = sndCount \/ (sndCount # 0 /\ sndCount' = sndCount - 1)
      OBVIOUS
    <3>2. QED
      BY <3>1, SlaveAssumption DEF TransmitterTypeOK
  <2>2. snd' \in {"IDLE", "XMIT"} /\ transPc' \in TransPcs
    BY DEF TransmitterTypeOK, TransPcs
  <2>3. QED
    BY <2>1, <2>2 DEF TransmitterTypeOK
<1>4. FlagTypeOK'
  BY DEF FlagTypeOK
<1>5. HistoryTypeOK'
  BY DEF HistoryTypeOK, Dues, Assert, historyVars
<1>6. StateTypeOK'
  BY DEF StateTypeOK, stackVars
<1>7. QED
  BY <1>1, <1>2, <1>3, <1>4, <1>5, <1>6

LEMMA ControlStepType ==
  ASSUME TypeOK, ControlStep
  PROVE  TypeOK'
<1> USE DEF TypeOK, LinkTypeOK, ControlStep, eMBRTUStop, Disabled, Restart,
            RestartListening, Restarted
<1>1. PortTypeOK'
  BY DEF PortTypeOK, portVars
<1>2. ReceiverTypeOK'
  BY DEF ReceiverTypeOK, linkVars
<1>3. TransmitterTypeOK'
  BY DEF TransmitterTypeOK, linkVars
<1>4. FlagTypeOK'
  BY DEF FlagTypeOK, vMBPortSerialEnable, vMBPortTimersEnable,
     vMBPortTimersDisable, linkVars
<1>5. HistoryTypeOK' /\ StateTypeOK'
  BY DEF HistoryTypeOK, StateTypeOK, historyVars
<1>6. QED
  BY <1>1, <1>2, <1>3, <1>4, <1>5

LEMMA PollStepType ==
  ASSUME TypeOK, PollStep
  PROVE  TypeOK'
<1> USE DEF TypeOK, LinkTypeOK, PollStep, eMBRTUStart, StartListening,
            Enabled, PollGet, PollNothing, PollReceive, PollExecute,
            SendCheck, SendLoad, SendTurnAround
<1>1. PortTypeOK'
  <2>1. CASE PollReceive
    BY <2>1 DEF PortTypeOK, PollPcs, PostToSelf, Events
  <2>2. CASE ~PollReceive
    BY <2>2 DEF PortTypeOK, PollPcs, xMBPortEventGet
  <2>3. QED
    BY <2>1, <2>2
<1>2. ReceiverTypeOK'
  BY DEF ReceiverTypeOK, linkVars
<1>3. TransmitterTypeOK'
  <2>1. CASE SendLoad
    BY <2>1, SlaveAssumption DEF TransmitterTypeOK
  <2>2. CASE ~SendLoad
    <3>1. UNCHANGED <<snd, sndCount, transPc>>
      BY <2>2 DEF linkVars
    <3>2. QED
      BY <3>1 DEF TransmitterTypeOK
  <2>3. QED
    BY <2>1, <2>2
<1>4. FlagTypeOK'
  BY DEF FlagTypeOK, vMBPortSerialEnable, vMBPortTimersEnable, linkVars
<1>5. HistoryTypeOK'
  BY DEF HistoryTypeOK, Dues, Assert, DueAfterExecute, historyVars
<1>6. StateTypeOK'
  <2>1. rcvAddr' \in Nat
    <3>1. buf \in Frames
      BY SlaveAssumption DEF ReceiverTypeOK
    <3>2. buf.addr \in Nat
      BY <3>1 DEF Frames
    <3>3. QED
      BY <3>2 DEF StateTypeOK, stackVars
  <2>2. QED
    BY <2>1 DEF StateTypeOK, stackVars
<1>7. QED
  BY <1>1, <1>2, <1>3, <1>4, <1>5, <1>6

LEMMA NextTypeOK ==
  ASSUME TypeOK, [Next]_vars
  PROVE  TypeOK'
<1>1. CASE UNCHANGED vars
  <2>1. UNCHANGED <<portVars, linkVars, historyVars, stackVars>>
    BY <1>1 DEF vars
  <2>2. PortTypeOK' /\ ReceiverTypeOK' /\ TransmitterTypeOK'
    BY <2>1 DEF TypeOK, LinkTypeOK, PortTypeOK, ReceiverTypeOK,
       TransmitterTypeOK, portVars, linkVars
  <2>3. FlagTypeOK' /\ HistoryTypeOK' /\ StateTypeOK'
    BY <2>1 DEF TypeOK, LinkTypeOK, FlagTypeOK, HistoryTypeOK, StateTypeOK,
       linkVars, historyVars, stackVars
  <2>4. QED
    BY <2>2, <2>3 DEF TypeOK, LinkTypeOK
<1>2. CASE Next
  BY <1>2, PollStepType, TransStepType, ReceiveByteType, T35ExpiredType,
     ControlStepType
  DEF Next, ByteArrives, TimerTick
<1>3. QED
  BY <1>1, <1>2

(* Every variable of the slave keeps its type: in particular the receive   *)
(* position never passes the buffer.                                       *)
THEOREM SlaveTypeCorrect == Spec => []TypeOK
<1>1. Init => TypeOK
  BY InitTypeOK
<1>2. TypeOK /\ [Next]_vars => TypeOK'
  BY NextTypeOK
<1>3. QED
  BY <1>1, <1>2, PTL DEF Spec

-----------------------------------------------------------------------------
(* ReceiverTimed must also hold while the stack is being enabled again.    *)
ReceiverTimedInv ==
  pollPc \notin {"start", "arm"} /\ ctlPc \in {"run", "starting"}
    /\ rcv # "IDLE" => timerOn

LEMMA PostKeepsStart ==
  ASSUME NEW S, Post(S)
  PROVE  pollPc' \notin {"start", "arm"} => pollPc \notin {"start", "arm"}
BY DEF Post

LEMMA NextReceiverTimed ==
  ASSUME ReceiverTimedInv, [Next]_vars
  PROVE  ReceiverTimedInv'
<1> USE DEF ReceiverTimedInv
<1>1. CASE UNCHANGED vars
  BY <1>1 DEF vars, portVars, linkVars, stackVars
<1>2. CASE PollStep
  <2>1. CASE eMBRTUStart
    BY <2>1 DEF eMBRTUStart
  <2>2. CASE StartListening
    BY <2>2 DEF StartListening, vMBPortTimersEnable
  <2>3. CASE ~eMBRTUStart /\ ~StartListening
    <3> USE <1>2, <2>3 DEF PollStep, Enabled, PollGet, PollNothing,
            PollReceive, PollExecute, SendCheck, SendLoad, SendTurnAround,
            xMBPortEventGet
    <3>1. UNCHANGED <<rcv, timerOn>>
      BY DEF linkVars
    <3>2. UNCHANGED ctlPc /\ pollPc \notin {"start", "arm"}
      BY DEF stackVars
    <3>3. QED
      BY <3>1, <3>2
  <2>4. QED
    BY <2>1, <2>2, <2>3
<1>3. CASE TransStep /\ UNCHANGED stackVars
  <2>1. UNCHANGED <<rcv, timerOn, ctlPc>>
    BY <1>3 DEF TransStep, TransmitFSM, TransmitEnableReceiver,
       TransmitClearEvent, TransmitFinished, stackVars
  <2>2. pollPc' \notin {"start", "arm"} => pollPc \notin {"start", "arm"}
    BY <1>3, PostKeepsStart DEF TransStep, TransmitFSM, TransmitterIdle,
       TransmitterPutByte, TransmitterDone, TransmitEnableReceiver,
       TransmitClearEvent, TransmitFinished, xMBPortEventPost, portVars
  <2>3. QED
    BY <2>1, <2>2
<1>4. CASE ByteArrives
  BY <1>4 DEF ByteArrives, ReceiveByte, vMBPortTimersEnable
<1>5. CASE TimerTick
  BY <1>5 DEF TimerTick, T35Expired, T35ReceiverRests
<1>6. CASE ControlStep
  <2>1. CASE eMBRTUStop \/ Disabled \/ Restart
    BY <2>1 DEF eMBRTUStop, Disabled, Restart
  <2>2. CASE RestartListening
    BY <2>2 DEF RestartListening, vMBPortTimersEnable
  <2>3. CASE Restarted
    BY <2>3 DEF Restarted, portVars, linkVars
  <2>4. QED
    BY <1>6, <2>1, <2>2, <2>3 DEF ControlStep
<1>7. QED
  BY <1>1, <1>2, <1>3, <1>4, <1>5, <1>6 DEF Next

(* Whatever the bus and the threads do, and however often the stack is     *)
(* disabled and enabled, a receiver that is not idle has its timer         *)
(* running.                                                                *)
THEOREM SlaveReceiverAlwaysTimed == Spec => []ReceiverTimed
<1>1. Init => ReceiverTimedInv
  BY DEF Init, LinkInit, ReceiverTimedInv
<1>2. ReceiverTimedInv /\ [Next]_vars => ReceiverTimedInv'
  BY NextReceiverTimed
<1>3. ReceiverTimedInv => ReceiverTimed
  BY DEF ReceiverTimedInv, ReceiverTimed
<1>4. QED
  BY <1>1, <1>2, <1>3, PTL DEF Spec

-----------------------------------------------------------------------------
(* A processor on which no interrupt outruns a thread that is ready, while *)
(* the stack may be disabled and enabled at any time.  Then the slave is   *)
(* quiet between an interrupt and the end of the response to it.           *)

(* While the transmit thread has work, the poll thread has none but the    *)
(* end of the response: it cannot begin another one.                       *)
SendingAlone ==
  TransReady => /\ pollPc \in {"get", "waiting", "dispatch"}
                /\ evs \subseteq {"FRAME_SENT"}
                /\ pollPc = "dispatch" => pollGot = {"FRAME_SENT"}

(* The poll thread has taken all events but the end of the response. *)
EventsTaken ==
  /\ pollPc = "dispatch" => pollGot # {}
  /\ pollPc \in {"dispatch", "send", "load", "turn"} =>
       evs \subseteq {"FRAME_SENT"}
  /\ pollPc = "waiting" => evs = {}

(* The receiver is on, or the transmit thread is going to turn it on.      *)
WillListen ==
  ctlPc \in {"run", "starting"} =>
    \/ rxOn
    \/ transPc = "wait" /\ txEvt
    \/ transPc \in {"sent", "spare"}

(* A stack that is being enabled ignores what is on the bus.               *)
StartsAfresh ==
  /\ ctlPc \in {"arming", "starting"} => rcv = "INIT"
  /\ pollPc \in {"start", "arm", "enabled"} =>
       rcv = "INIT" /\ evs = {} /\ mbState = "DISABLED" /\ ctlPc = "run"

DueMatches == due = IF rcvAddr = Broadcast THEN "execute" ELSE "answer"

(* What the poll thread has before it belongs to the last frame, unless    *)
(* the receiver was started anew: then eMBRTUSend drops the response.      *)
FollowsFrame ==
  rcv = "IDLE" =>
    /\ pollPc = "get" /\ mbState = "ENABLED" =>
         evs \subseteq {"FRAME_SENT"} \/ (evs = {"EXECUTE"} /\ DueMatches)
    /\ pollPc = "dispatch" =>
         \/ pollGot = {"READY"} /\ evs = {}
         \/ pollGot = {"FRAME_SENT"}
         \/ pollGot = {"FRAME_RECEIVED"} /\ evs = {} /\ due = DueForFrame
         \/ pollGot = {"EXECUTE"} /\ evs = {} /\ DueMatches
    /\ pollPc = "send" => due = "reply"

PromptInv ==
  /\ SendingAlone /\ EventsTaken /\ WillListen
  /\ StartsAfresh /\ FollowsFrame /\ SendsOnlyWhenDue

(* A single event is read as what it is. *)
LEMMA SingleEvent ==
  ASSUME NEW e PROVE EventsRead({e}) = {e}
BY FS_Singleton DEF EventsRead

LEMMA EachEvent ==
  /\ EventsRead({"READY"}) = {"READY"}
  /\ EventsRead({"FRAME_RECEIVED"}) = {"FRAME_RECEIVED"}
  /\ EventsRead({"EXECUTE"}) = {"EXECUTE"}
  /\ EventsRead({"FRAME_SENT"}) = {"FRAME_SENT"}
BY SingleEvent

LEMMA PromptInit == Init => PromptInv
BY DEF Init, LinkInit, PromptInv, SendingAlone, EventsTaken, WillListen,
   StartsAfresh, FollowsFrame, SendsOnlyWhenDue, TransReady

(* The steps of the poll thread. *)
LEMMA PollPrompt ==
  ASSUME PromptInv, PollStep
  PROVE  PromptInv'
<1> USE DEF PromptInv
<1>1. CASE eMBRTUStart \/ StartListening \/ Enabled
  <2> USE <1>1 DEF eMBRTUStart, StartListening, Enabled,
                   vMBPortSerialEnable, vMBPortTimersEnable, stackVars,
                   linkVars
  <2>1. pollPc \in {"start", "arm", "enabled"} /\ ~TransReady
    BY DEF SendingAlone
  <2>2. /\ rcv' = "INIT" /\ evs' = {} /\ ctlPc' = "run" /\ ~TransReady'
        /\ pollPc' \in {"arm", "enabled", "get"}
        /\ pollPc' # "get" => mbState' = "DISABLED"
    BY <2>1 DEF StartsAfresh, TransReady
  <2>3. rxOn' = rxOn \/ rxOn' = TRUE
    OBVIOUS
  <2>4. rxOn' \/ ~rxOn
    BY <2>3
  <2>5. WillListen'
    BY <2>1, <2>2, <2>4 DEF WillListen, TransReady, StartsAfresh
  <2> QED
    BY <2>2, <2>5 DEF SendingAlone, EventsTaken, StartsAfresh, FollowsFrame,
       SendsOnlyWhenDue
<1>2. CASE PollGet
  <2> USE <1>2 DEF PollGet, xMBPortEventGet
  <2>1. UNCHANGED <<linkVars, due, ctlPc, mbState, rcvAddr>>
    BY DEF historyVars, stackVars
  <2>2. \/ pollGot' = evs /\ evs # {} /\ evs' = {} /\ pollPc' = "dispatch"
        \/ evs = {} /\ evs' = {} /\ pollPc' = "waiting"
    OBVIOUS
  <2>3. TransReady' <=> TransReady
    BY <2>1 DEF TransReady, linkVars
  <2>4. SendingAlone'
    BY <2>2, <2>3 DEF SendingAlone
  <2>5. EventsTaken' /\ StartsAfresh' /\ SendsOnlyWhenDue'
    BY <2>1, <2>2 DEF EventsTaken, StartsAfresh, SendsOnlyWhenDue, linkVars
  <2>6. WillListen'
    BY <2>1 DEF WillListen, linkVars
  <2>7. FollowsFrame'
    BY <2>1, <2>2 DEF FollowsFrame, DueMatches, linkVars
  <2> QED
    BY <2>4, <2>5, <2>6, <2>7
<1>3. CASE PollNothing
  <2> USE <1>3 DEF PollNothing
  <2>1. UNCHANGED <<evs, linkVars, due, ctlPc, mbState, rcvAddr>>
        /\ pollPc' = "get"
    BY DEF historyVars, stackVars
  <2>2. TransReady' <=> TransReady
    BY <2>1 DEF TransReady, linkVars
  <2>3. evs \subseteq {"FRAME_SENT"}
    BY DEF EventsTaken
  <2>4. SendingAlone' /\ EventsTaken' /\ StartsAfresh' /\ SendsOnlyWhenDue'
    BY <2>1, <2>2, <2>3 DEF SendingAlone, EventsTaken, StartsAfresh,
       SendsOnlyWhenDue, linkVars
  <2>5. WillListen'
    BY <2>1 DEF WillListen, linkVars
  <2>6. FollowsFrame'
    BY <2>1, <2>3 DEF FollowsFrame
  <2> QED
    BY <2>4, <2>5, <2>6
<1>4. CASE PollReceive
  <2> USE <1>4 DEF PollReceive
  <2>1. UNCHANGED <<linkVars, due, ctlPc, mbState>> /\ pollPc' = "get"
    OBVIOUS
  <2>2. ~TransReady
    BY EachEvent DEF SendingAlone
  <2>3. ~TransReady'
    BY <2>1, <2>2 DEF TransReady, linkVars
  <2>4. SendingAlone' /\ EventsTaken' /\ StartsAfresh' /\ SendsOnlyWhenDue'
    BY <2>1, <2>3 DEF SendingAlone, EventsTaken, StartsAfresh,
       SendsOnlyWhenDue, linkVars
  <2>5. WillListen'
    BY <2>1 DEF WillListen, linkVars
  <2>6. ASSUME rcv = "IDLE"
        PROVE  evs' \subseteq {"FRAME_SENT"}
               \/ (evs' = {"EXECUTE"} /\ DueMatches')
    <3>1. pollGot = {"FRAME_RECEIVED"} /\ evs = {} /\ due = DueForFrame
      BY <2>6, EachEvent DEF FollowsFrame
    <3>2. CASE FrameIntact /\ ForThisSlave(buf.addr)
      <4>1. due = IF buf.addr = Broadcast THEN "execute" ELSE "answer"
        BY <3>1, <3>2, SlaveAssumption DEF DueForFrame, ForThisSlave
      <4>2. rcvAddr' = buf.addr /\ evs' = {"EXECUTE"}
        BY <3>1, <3>2 DEF PostToSelf
      <4> QED
        BY <2>1, <4>1, <4>2 DEF DueMatches
    <3>3. CASE ~(FrameIntact /\ ForThisSlave(buf.addr))
      BY <3>1, <3>3
    <3> QED
      BY <3>2, <3>3
  <2>7. FollowsFrame'
    BY <2>1, <2>6 DEF FollowsFrame, linkVars
  <2> QED
    BY <2>4, <2>5, <2>7
<1>5. CASE PollExecute
  <2> USE <1>5 DEF PollExecute
  <2>1. /\ UNCHANGED <<evs, rcv, rxOn, txEvt, transPc, ctlPc, mbState>>
        /\ pollPc' \in {"send", "get"}
    BY DEF stackVars
  <2>2. ~TransReady /\ evs \subseteq {"FRAME_SENT"}
    BY EachEvent DEF SendingAlone, EventsTaken
  <2>3. ~TransReady'
    BY <2>1, <2>2 DEF TransReady
  <2>4. SendingAlone' /\ EventsTaken' /\ StartsAfresh' /\ SendsOnlyWhenDue'
    BY <2>1, <2>2, <2>3 DEF SendingAlone, EventsTaken, StartsAfresh,
       SendsOnlyWhenDue
  <2>5. WillListen'
    BY <2>1 DEF WillListen
  <2>6. ASSUME rcv = "IDLE", pollPc' = "send" PROVE due' = "reply"
    <3>1. DueMatches
      BY <2>6, EachEvent DEF FollowsFrame
    <3> QED
      BY <2>6, <3>1 DEF DueMatches, IsAnswered, DueAfterExecute
  <2>7. FollowsFrame'
    BY <2>1, <2>2, <2>6 DEF FollowsFrame
  <2> QED
    BY <2>4, <2>5, <2>7
<1>6. CASE SendCheck \/ SendLoad
  <2> USE <1>6 DEF SendCheck, SendLoad
  <2>1. /\ UNCHANGED <<evs, rcv, rxOn, txEvt, transPc, ctlPc, mbState, due>>
        /\ pollPc \in {"send", "load"} /\ pollPc' \in {"load", "get", "turn"}
    BY DEF linkVars, historyVars, stackVars
  <2>2. ~TransReady /\ evs \subseteq {"FRAME_SENT"}
    BY DEF SendingAlone, EventsTaken
  <2>3. ~TransReady'
    BY <2>1, <2>2 DEF TransReady
  <2>4. SendingAlone' /\ EventsTaken' /\ StartsAfresh'
    BY <2>1, <2>2, <2>3 DEF SendingAlone, EventsTaken, StartsAfresh
  <2>5. WillListen' /\ FollowsFrame'
    BY <2>1, <2>2 DEF WillListen, FollowsFrame
  <2>6. SendsOnlyWhenDue'
    BY <2>1 DEF SendsOnlyWhenDue, FollowsFrame
  <2> QED
    BY <2>4, <2>5, <2>6
<1>7. CASE SendTurnAround
  <2> USE <1>7 DEF SendTurnAround, vMBPortSerialEnable
  <2>1. /\ UNCHANGED <<evs, rcv, transPc, ctlPc, mbState, due>>
        /\ pollPc = "turn" /\ pollPc' = "get" /\ txEvt'
    BY DEF historyVars, stackVars
  <2>2. transPc = "wait" /\ evs \subseteq {"FRAME_SENT"}
    BY DEF SendingAlone, EventsTaken, TransReady
  <2>3. SendingAlone' /\ EventsTaken' /\ StartsAfresh'
    BY <2>1, <2>2 DEF SendingAlone, EventsTaken, StartsAfresh
  <2>4. WillListen' /\ FollowsFrame' /\ SendsOnlyWhenDue'
    BY <2>1, <2>2 DEF WillListen, FollowsFrame, SendsOnlyWhenDue
  <2> QED
    BY <2>3, <2>4
<1> QED
  BY <1>1, <1>2, <1>3, <1>4, <1>5, <1>6, <1>7 DEF PollStep

LEMMA TransPrompt ==
  ASSUME PromptInv, TransStep, UNCHANGED stackVars
  PROVE  PromptInv'
<1> USE DEF PromptInv
<1>1. /\ pollPc \in {"get", "waiting", "dispatch"}
      /\ evs \subseteq {"FRAME_SENT"}
      /\ pollPc = "dispatch" => pollGot = {"FRAME_SENT"}
  BY DEF TransStep, TransmitFSM, TransmitEnableReceiver, TransmitClearEvent,
     TransmitFinished, TransReady, SendingAlone
<1>2. /\ pollPc' \in {"get", "waiting", "dispatch"}
      /\ evs' \subseteq {"FRAME_SENT"}
      /\ pollPc' = "dispatch" => pollGot' = {"FRAME_SENT"}
      /\ pollPc' = "waiting" => evs' = {}
  <2>1. CASE UNCHANGED portVars
    BY <1>1, <2>1 DEF portVars, EventsTaken
  <2>2. CASE xMBPortEventPost("FRAME_SENT")
    BY <1>1, <2>2 DEF xMBPortEventPost, Post, EventsTaken
  <2> QED
    BY <2>1, <2>2 DEF TransStep, TransmitFSM, TransmitterIdle,
       TransmitterPutByte, TransmitterDone, TransmitEnableReceiver,
       TransmitClearEvent, TransmitFinished
<1>3. /\ rcv' = rcv /\ UNCHANGED <<mbState, ctlPc>>
      /\ \/ transPc = "wait" /\ txEvt /\ transPc' \in {"wait", "spare", "sent"}
            /\ txEvt'
         \/ transPc' \in {"sentRx", "spareRx"} /\ rxOn'
         \/ transPc \in {"sentRx", "sentTx", "spareRx"} /\ rxOn' = rxOn
  BY DEF TransStep, TransmitFSM, TransmitterIdle, TransmitterPutByte,
     TransmitterDone, TransmitEnableReceiver, TransmitClearEvent,
     TransmitFinished, stackVars
<1>4. SendingAlone' /\ EventsTaken' /\ FollowsFrame' /\ SendsOnlyWhenDue'
  BY <1>2 DEF SendingAlone, EventsTaken, FollowsFrame, SendsOnlyWhenDue
<1>5. StartsAfresh'
  BY <1>2, <1>3 DEF StartsAfresh
<1>6. WillListen'
  BY <1>3 DEF WillListen
<1> QED
  BY <1>4, <1>5, <1>6

(* At rest the poll thread waits, or spins on a disabled stack.            *)
LEMMA RestPrompt ==
  ASSUME PromptInv, AtRest
  PROVE  /\ ~TransReady /\ ctlPc \notin {"arming", "starting"}
         /\ \/ pollPc = "waiting" /\ evs = {}
            \/ pollPc = "get" /\ mbState = "DISABLED"
BY DEF AtRest, PollReady, PromptInv, EventsTaken, CtlReady

LEMMA BytePrompt ==
  ASSUME PromptInv, "busy" \notin Faults, ByteArrives
  PROVE  PromptInv'
<1>1. AtRest
  BY DEF ByteArrives, InterruptsMayRun
<1>2. /\ ~TransReady /\ ctlPc \notin {"arming", "starting"}
      /\ \/ pollPc = "waiting" /\ evs = {}
         \/ pollPc = "get" /\ mbState = "DISABLED"
  BY <1>1, RestPrompt
<1>3. /\ rxOn' /\ UNCHANGED <<evs, pollPc, txEvt, transPc, mbState, ctlPc>>
  BY DEF ByteArrives, ReceiveByte, portVars, stackVars
<1> QED
  BY <1>2, <1>3 DEF PromptInv, SendingAlone, EventsTaken, WillListen,
     StartsAfresh, FollowsFrame, SendsOnlyWhenDue, TransReady

LEMMA TickPrompt ==
  ASSUME PromptInv, "busy" \notin Faults, TimerTick
  PROVE  PromptInv'
<1>1. AtRest
  BY DEF TimerTick, InterruptsMayRun
<1>2. /\ ~TransReady /\ ctlPc \notin {"arming", "starting"}
      /\ \/ pollPc = "waiting" /\ evs = {}
         \/ pollPc = "get" /\ mbState = "DISABLED"
  BY <1>1, RestPrompt
<1>3. /\ UNCHANGED <<pos, buf, rxOn, txEvt, transPc, mbState, ctlPc, rcvAddr>>
      /\ Post(ExpiryEvent)
      /\ due' = IF rcv = "RCV" THEN DueForFrame ELSE due
  BY DEF TimerTick, T35Expired, stackVars
<1>4. \/ pollPc = "get" /\ pollPc' = "get" /\ mbState' = "DISABLED"
      \/ pollPc' = "waiting" /\ evs' = {}
      \/ /\ pollPc' = "dispatch" /\ evs' = {}
         /\ \/ pollGot' = {"READY"}
            \/ pollGot' = {"FRAME_RECEIVED"} /\ rcv = "RCV"
  <2>1. CASE pollPc = "get"
    BY <1>2, <1>3, <2>1 DEF Post
  <2>2. CASE pollPc = "waiting" /\ rcv = "INIT"
    <3>1. ExpiryEvent = {"READY"}
      BY <2>2 DEF ExpiryEvent
    <3> QED
      BY <1>2, <1>3, <2>2, <3>1 DEF Post
  <2>3. CASE pollPc = "waiting" /\ rcv = "RCV"
    <3>1. ExpiryEvent = {"FRAME_RECEIVED"}
      BY <2>3 DEF ExpiryEvent
    <3> QED
      BY <1>2, <1>3, <2>3, <3>1 DEF Post
  <2>4. CASE pollPc = "waiting" /\ rcv \notin {"INIT", "RCV"}
    <3>1. ExpiryEvent = {}
      BY <2>4 DEF ExpiryEvent
    <3> QED
      BY <1>2, <1>3, <2>4, <3>1 DEF Post
  <2> QED
    BY <1>2, <2>1, <2>2, <2>3, <2>4
<1>5. ~TransReady'
  BY <1>2, <1>3 DEF TransReady
<1>6. SendingAlone' /\ EventsTaken' /\ StartsAfresh' /\ SendsOnlyWhenDue'
  BY <1>2, <1>3, <1>4, <1>5 DEF SendingAlone, EventsTaken, StartsAfresh,
     SendsOnlyWhenDue
<1>7. WillListen'
  BY <1>3 DEF WillListen, PromptInv
<1>8. DueForFrame' = DueForFrame
  BY <1>3 DEF DueForFrame, FrameIntact
<1>9. FollowsFrame'
  BY <1>3, <1>4, <1>8 DEF FollowsFrame
<1> QED
  BY <1>6, <1>7, <1>9 DEF PromptInv

LEMMA ControlPrompt ==
  ASSUME PromptInv, ControlStep
  PROVE  PromptInv'
<1> USE DEF PromptInv
<1>1. UNCHANGED <<evs, pollPc, pollGot, transPc, due, rcvAddr, pos, buf>>
  BY DEF ControlStep, eMBRTUStop, Disabled, Restart, RestartListening,
     Restarted, portVars, linkVars, historyVars
<1>2. TransReady' => TransReady
  BY <1>1 DEF ControlStep, eMBRTUStop, Disabled, Restart, RestartListening,
     Restarted, linkVars, vMBPortSerialEnable, TransReady
<1>3. pollPc \notin {"start", "arm", "enabled"}
  BY DEF ControlStep, eMBRTUStop, Disabled, Restart, RestartListening,
     Restarted, StartsAfresh
<1>4. SendingAlone' /\ EventsTaken' /\ SendsOnlyWhenDue'
  BY <1>1, <1>2 DEF SendingAlone, EventsTaken, SendsOnlyWhenDue
<1>5. WillListen'
  BY <1>1 DEF ControlStep, eMBRTUStop, Disabled, Restart, RestartListening,
     Restarted, linkVars, vMBPortSerialEnable, WillListen
<1>6. StartsAfresh'
  BY <1>1, <1>3 DEF ControlStep, eMBRTUStop, Disabled, Restart,
     RestartListening, Restarted, linkVars, StartsAfresh
<1>7. \/ rcv' = "INIT"
      \/ rcv' = rcv /\ (mbState' = "ENABLED" => mbState = "ENABLED")
  BY DEF ControlStep, eMBRTUStop, Disabled, Restart, RestartListening,
     Restarted, linkVars, StartsAfresh
<1>8. FollowsFrame'
  BY <1>1, <1>7 DEF FollowsFrame, DueMatches, DueForFrame, FrameIntact
<1> QED
  BY <1>4, <1>5, <1>6, <1>8

LEMMA PromptUnchanged ==
  ASSUME PromptInv, UNCHANGED vars
  PROVE  PromptInv'
BY DEF vars, portVars, linkVars, historyVars, stackVars, PromptInv,
   SendingAlone, EventsTaken, WillListen, StartsAfresh, FollowsFrame,
   SendsOnlyWhenDue, TransReady, DueMatches, DueForFrame, FrameIntact

LEMMA PromptInvariant == "busy" \notin Faults => (Spec => []PromptInv)
<1> SUFFICES ASSUME "busy" \notin Faults PROVE Spec => []PromptInv
  OBVIOUS
<1>1. PromptInv /\ [Next]_vars => PromptInv'
  BY PollPrompt, TransPrompt, BytePrompt, TickPrompt, ControlPrompt,
     PromptUnchanged DEF Next
<1> QED
  BY <1>1, PromptInit, PTL DEF Spec

(* On a processor that keeps up with the bus the slave is never deaf,      *)
(* however its stack is disabled and enabled, and wherever that falls in   *)
(* an exchange (mbrtu.c:128, 145).                                         *)
THEOREM NeverDeaf == "busy" \notin Faults => (Spec => []ListensAtRest)
<1> SUFFICES ASSUME "busy" \notin Faults PROVE Spec => []ListensAtRest
  OBVIOUS
<1>1. PromptInv => ListensAtRest
  BY DEF PromptInv, WillListen, ListensAtRest, AtRest, TransReady
<1> QED
  BY <1>1, PromptInvariant, PTL

(* On such a processor the slave sends exactly the response it owes to the *)
(* last frame: never to a broadcast, to a damaged frame, to a frame for    *)
(* another slave, or twice; also when the stack was disabled and enabled   *)
(* meanwhile and the poll thread reads merged events.                      *)
THEOREM OnlyDueResponses ==
  "busy" \notin Faults => (Spec => []SendsOnlyWhenDue)
<1> SUFFICES ASSUME "busy" \notin Faults PROVE Spec => []SendsOnlyWhenDue
  OBVIOUS
<1>1. PromptInv => SendsOnlyWhenDue
  BY DEF PromptInv
<1> QED
  BY <1>1, PromptInvariant, PTL
=============================================================================
