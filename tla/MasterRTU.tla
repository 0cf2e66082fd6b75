------------------------------ MODULE MasterRTU ------------------------------
(***************************************************************************)
(* The RTU link of the Modbus master: modbus/rtu/mbrtu_m.c with the timer  *)
(* and serial port functions it calls (porttimer_m.c, portserial_m.c).     *)
(*                                                                         *)
(* Three actors run this code besides the poll thread: the receive         *)
(* interrupt (ReceiveByte), the system tick that runs the one-shot timer   *)
(* (TimerExpired), and the "master trans" thread, which stands in for a    *)
(* transmitter-empty interrupt (TransmitFSM and the steps after it).  The  *)
(* interrupts preempt every thread, the critical sections included: those  *)
(* only lock the scheduler.                                                *)
(*                                                                         *)
(* A frame is abstracted to its address, whether its CRC is right, whether *)
(* its function code has a handler, has none, or has the exception bit     *)
(* set, and whether the data is good: accepted by the handler, or an       *)
(* exception code of zero.  What the receive buffer holds after a byte is  *)
(* any member of Contents.  Time is abstracted: a running timer may expire *)
(* at any moment.                                                          *)
(***************************************************************************)
EXTENDS MasterPort

CONSTANTS TotalSlaveNum,   \* MB_MASTER_TOTAL_SLAVE_NUM
          PduSizeMin,      \* MB_SER_PDU_SIZE_MIN
          PduSizeMax,      \* MB_SER_PDU_SIZE_MAX
          SndBytes,        \* bytes of a frame that is sent
          Contents,        \* what the receive buffer may hold
          NoApp,           \* the owner of a buffer nobody has filled
          Faults           \* how the environment departs from the ideal one

(* A frame as its receiver tells frames apart. *)
Frames == [addr : Nat, crc : BOOLEAN,
           fc : {"handled", "unhandled", "exception"},
           data : {"good", "bad"}]

(* "busy":   interrupts may outrun threads that are ready to run;          *)
(* "prompt": a slave may answer before the master has armed its timer;     *)
(* "late":   a slave may answer after the response timeout;                *)
(* "noise":  bytes may appear whenever the receiver listens;               *)
(* "disable": a thread may disable and enable the stack at any time.       *)
(* With none of them every thread is faster than the bus, and a slave      *)
(* answers once, in time, if it answers at all.                            *)
FaultKinds == {"busy", "prompt", "late", "noise", "disable"}

ASSUME LinkAssumption ==
  /\ TotalSlaveNum \in Nat \ {0}
  /\ PduSizeMin \in Nat \ {0}
  /\ PduSizeMax \in Nat
  /\ PduSizeMin <= PduSizeMax
  /\ SndBytes \in Nat \ {0}
  /\ Contents \subseteq Frames
  /\ Contents # {}
  /\ NoApp \notin Apps
  /\ Faults \subseteq FaultKinds

VARIABLES rcv,         \* eRcvState
          snd,         \* eSndState
          pos,         \* usMasterRcvBufferPos
          rcvBuf,      \* ucMasterRTURcvBuf
          sndBuf,      \* the PDU in ucMasterRTUSndBuf: who filled it, with what
          sndCount,    \* usMasterSndBufferCount
          sndAddr,     \* ucMasterRTUSndBuf[MB_SER_PDU_ADDR_OFF]
          broadcast,   \* xFrameIsBroadcast
          timerOn,     \* the one-shot timer runs
          timerMode,   \* eMasterCurTimerMode
          rxOn,        \* the receive interrupt is enabled
          txEvt,       \* EVENT_SERIAL_TRANS_START is set in event_serial
          transPc,     \* where the "master trans" thread is
          dest,        \* ucMBMasterDestAddress
          errType      \* eMBMasterCurErrorType

linkVars == <<rcv, snd, pos, rcvBuf, sndBuf, sndCount, sndAddr, broadcast,
              timerOn, timerMode, rxOn, txEvt, transPc, dest, errType>>

(* History: what the code does not keep but its properties speak of.       *)
VARIABLES wireBy,      \* who filled the frame that was loaded last
          fate,        \* what became of each requester's frame
          owed,        \* a slave was asked and has not begun to answer
          failed       \* the assertions of the source that have failed

historyVars == <<wireBy, fate, owed, failed>>

Fates == {"unsent", "sent", "ok", "timeout", "garbled", "exception"}

(* Between "rxon" and "arm" the transmit thread ends a frame; in "spare"    *)
(* and "spareOff" it was called without having one.                        *)
TransPcs == {"wait", "rxon", "txoff", "xfwr", "arm", "spare", "spareOff"}

ReceiverTypeOK ==
  /\ rcv \in {"INIT", "IDLE", "RCV", "ERROR"}
  /\ pos \in 0 .. PduSizeMax
  /\ rcvBuf \in Contents

TransmitterTypeOK ==
  /\ snd \in {"IDLE", "XMIT", "XFWR"}
  /\ sndBuf \in [by : Apps \cup {NoApp}, data : {"good", "bad"}]
  /\ sndCount \in 0 .. SndBytes
  /\ sndAddr \in 0 .. TotalSlaveNum
  /\ transPc \in TransPcs

FlagTypeOK ==
  /\ broadcast \in BOOLEAN
  /\ timerOn \in BOOLEAN
  /\ rxOn \in BOOLEAN
  /\ txEvt \in BOOLEAN
  /\ owed \in BOOLEAN

TimerTypeOK ==
  /\ timerMode \in {"T35", "RESPOND_TIMEOUT", "CONVERT_DELAY"}
  /\ dest \in 0 .. TotalSlaveNum
  /\ errType \in ErrorTypes

HistoryTypeOK ==
  /\ wireBy \in Apps \cup {NoApp}
  /\ fate \in [Apps -> Fates]
  /\ failed \in SUBSET {"receiver", "transmitter", "timer", "length"}

LinkTypeOK ==
  /\ ReceiverTypeOK /\ TransmitterTypeOK /\ TimerTypeOK
  /\ FlagTypeOK /\ HistoryTypeOK

(* The state eMBMasterInit leaves: static variables are zero, the serial   *)
(* device is open and so already receives.                                 *)
LinkInit ==
  /\ rcv = "INIT" /\ snd = "IDLE"
  /\ pos = 0 /\ rcvBuf \in Contents
  /\ sndBuf = [by |-> NoApp, data |-> "bad"]
  /\ sndCount = 0 /\ sndAddr = 0
  /\ broadcast = FALSE
  /\ timerOn = FALSE /\ timerMode = "T35"
  /\ rxOn = TRUE /\ txEvt = FALSE
  /\ transPc = "wait"
  /\ dest = 0 /\ errType = "RESPOND_TIMEOUT"
  /\ wireBy = NoApp
  /\ fate = [a \in Apps |-> "unsent"]
  /\ owed = FALSE /\ failed = {}

-----------------------------------------------------------------------------
(* Port functions. *)
TimerEnable(mode) == timerOn' = TRUE /\ timerMode' = mode

vMBMasterPortTimersDisable == timerOn' = FALSE

vMBMasterPortSerialEnable(rx, tx) == rxOn' = rx /\ txEvt' = tx

(* An assert_param of the source.  The default build compiles them out, so *)
(* a failure is recorded and the code goes on.                             *)
Assert(name, holds) ==
  failed' = IF holds THEN failed ELSE failed \cup {name}

(* The frame on the wire comes to the end o; its first end counts. *)
Settle(o) ==
  fate' = IF wireBy \in Apps /\ fate[wireBy] = "sent"
          THEN [fate EXCEPT ![wireBy] = o] ELSE fate

-----------------------------------------------------------------------------
(* xMBMasterRTUReceiveFSM by the state of the receiver: while the bus      *)
(* settles and inside a damaged frame a byte only restarts the timer; the  *)
(* first byte of a frame ends the wait for an answer; a byte too many      *)
(* spoils the frame.                                                       *)
ReceiverSkips ==
  /\ rcv \in {"INIT", "ERROR"}
  /\ UNCHANGED <<rcv, snd, pos, rcvBuf>>

\* faulty variant: the wait for an answer goes on
ReceiverBeginsWaiting ==
  /\ rcv = "IDLE"
  /\ pos' = 1
  /\ rcvBuf' \in Contents
  /\ rcv' = "RCV"
  /\ UNCHANGED snd

ReceiverBegins ==
  /\ rcv = "IDLE"
  /\ snd' = "IDLE"
  /\ pos' = 1
  /\ rcvBuf' \in Contents
  /\ rcv' = "RCV"

\* faulty variant: the bound is off by one
ReceiverAppendsPastEnd ==
  /\ rcv = "RCV" /\ pos <= PduSizeMax
  /\ pos' = pos + 1
  /\ rcvBuf' \in Contents
  /\ UNCHANGED <<rcv, snd>>

ReceiverAppends ==
  /\ rcv = "RCV" /\ pos < PduSizeMax
  /\ pos' = pos + 1
  /\ rcvBuf' \in Contents
  /\ UNCHANGED <<rcv, snd>>

ReceiverOverflows ==
  /\ rcv = "RCV" /\ pos = PduSizeMax
  /\ rcv' = "ERROR"
  /\ UNCHANGED <<snd, pos, rcvBuf>>

(* The receive interrupt for one byte. *)
ReceiveByte ==
  /\ Assert("receiver", snd \in {"IDLE", "XFWR"})
  /\ \/ ReceiverSkips
     \/ ReceiverBegins
     \/ ReceiverAppends
     \/ ReceiverOverflows
  /\ TimerEnable("T35")
  /\ owed' = (owed /\ rcv # "IDLE")
  /\ UNCHANGED <<portVars, sndBuf, sndCount, sndAddr, broadcast, rxOn, txEvt,
                 transPc, dest, errType, wireBy, fate>>

-----------------------------------------------------------------------------
(* xMBMasterRTUTimerExpired, run by the system tick.  It may post three    *)
(* events: by the state of the receiver, by the state of the transmitter,  *)
(* and because the timer ran the convert delay of a broadcast.             *)
ResponseTimedOut == snd = "XFWR" /\ ~broadcast

ReceiverEvent ==
  CASE rcv = "INIT"  -> {"READY"}
    [] rcv = "RCV"   -> {"FRAME_RECEIVED"}
    [] rcv = "ERROR" -> {"ERROR_PROCESS"}
    [] OTHER         -> {}

TransmitterEvent == IF ResponseTimedOut THEN {"ERROR_PROCESS"} ELSE {}

ModeEvent == IF timerMode = "CONVERT_DELAY" THEN {"EXECUTE"} ELSE {}

\* faulty variant: a timeout leaves the error of an earlier exchange
ExpiryErrorTypeStale == IF rcv = "ERROR" THEN "RECEIVE_DATA" ELSE errType

ExpiryErrorType ==
  IF ResponseTimedOut THEN "RESPOND_TIMEOUT"
  ELSE IF rcv = "ERROR" THEN "RECEIVE_DATA" ELSE errType

\* faulty variant: the receiver is not reset
LinkRestsHalf == snd' = "IDLE" /\ UNCHANGED rcv

LinkRests == snd' = "IDLE" /\ rcv' = "IDLE"

(* The end a frame comes to by expiry, when no answer is being received.   *)
SettleAtExpiry ==
  IF rcv = "ERROR" THEN Settle("garbled")
  ELSE IF ResponseTimedOut /\ rcv # "RCV" THEN Settle("timeout")
  ELSE UNCHANGED fate

TimerExpired ==
  /\ PostInOrder(ReceiverEvent, TransmitterEvent, ModeEvent)
  /\ errType' = ExpiryErrorType
  /\ SettleAtExpiry
  /\ Assert("timer", snd \in {"XFWR", "IDLE"})
  /\ LinkRests
  /\ vMBMasterPortTimersDisable
  /\ owed' = (owed /\ (snd = "XFWR" => "late" \in Faults))
  /\ UNCHANGED <<evApp, appPc, appGot, sem, pos, rcvBuf, sndBuf, sndCount,
                 sndAddr, broadcast, timerMode, rxOn, txEvt, transPc, dest,
                 wireBy>>

-----------------------------------------------------------------------------
(* xMBMasterRTUTransmitFSM, run by "master trans" as long as the event is  *)
(* set.  The end of a frame takes several steps, and neither the poll      *)
(* thread nor an interrupt is locked out between them: not even between    *)
(* the two halves of vMBMasterPortSerialEnable(TRUE, FALSE), which lets    *)
(* the receiver in and then clears the event.                              *)
TransmitterIdle ==
  /\ snd = "IDLE"
  /\ transPc' = "spare"
  /\ UNCHANGED <<sndCount, broadcast, fate, owed>>

TransmitterPutByte ==
  /\ snd = "XMIT" /\ sndCount # 0
  /\ sndCount' = sndCount - 1
  /\ UNCHANGED <<broadcast, transPc, fate, owed>>

TransmitterDone ==
  /\ snd = "XMIT" /\ sndCount = 0
  /\ broadcast' = (sndAddr = 0)
  /\ transPc' = "rxon"
  /\ owed' = (sndAddr # 0)
  /\ fate' = IF wireBy \in Apps THEN [fate EXCEPT ![wireBy] = "sent"] ELSE fate
  /\ UNCHANGED sndCount

TransmitterSpins ==
  /\ snd = "XFWR"
  /\ UNCHANGED <<sndCount, broadcast, transPc, fate, owed>>

TransmitFSM ==
  /\ transPc = "wait" /\ txEvt
  /\ Assert("transmitter", rcv = "IDLE")
  /\ \/ TransmitterIdle
     \/ TransmitterPutByte
     \/ TransmitterDone
     \/ TransmitterSpins
  /\ UNCHANGED <<portVars, rcv, snd, pos, rcvBuf, sndBuf, sndAddr, timerOn,
                 timerMode, rxOn, txEvt, dest, errType, wireBy>>

TransmitEnableReceiver ==
  /\ \/ transPc = "rxon" /\ transPc' = "txoff"
     \/ transPc = "spare" /\ transPc' = "spareOff"
  /\ rxOn' = TRUE
  /\ UNCHANGED <<portVars, rcv, snd, pos, rcvBuf, sndBuf, sndCount, sndAddr,
                 broadcast, timerOn, timerMode, txEvt, dest, errType,
                 historyVars>>

TransmitClearEvent ==
  /\ \/ transPc = "txoff" /\ transPc' = "xfwr"
     \/ transPc = "spareOff" /\ transPc' = "wait"
  /\ txEvt' = FALSE
  /\ UNCHANGED <<portVars, rcv, snd, pos, rcvBuf, sndBuf, sndCount, sndAddr,
                 broadcast, timerOn, timerMode, rxOn, dest, errType,
                 historyVars>>

\* faulty variant: the transmitter stays in its transfer state
TransmitFinishedHalf ==
  /\ transPc = "xfwr"
  /\ transPc' = "arm"
  /\ UNCHANGED <<portVars, rcv, snd, pos, rcvBuf, sndBuf, sndCount, sndAddr,
                 broadcast, timerOn, timerMode, rxOn, txEvt, dest, errType,
                 historyVars>>

TransmitFinished ==
  /\ transPc = "xfwr"
  /\ snd' = "XFWR"
  /\ transPc' = "arm"
  /\ UNCHANGED <<portVars, rcv, pos, rcvBuf, sndBuf, sndCount, sndAddr,
                 broadcast, timerOn, timerMode, rxOn, txEvt, dest, errType,
                 historyVars>>

\* faulty variant: no delay after a broadcast
ArmTimerUnicastOnly ==
  IF broadcast THEN UNCHANGED <<timerOn, timerMode>>
  ELSE TimerEnable("RESPOND_TIMEOUT")

ArmTimer ==
  TimerEnable(IF broadcast THEN "CONVERT_DELAY" ELSE "RESPOND_TIMEOUT")

TransmitArmTimer ==
  /\ transPc = "arm"
  /\ ArmTimer
  /\ transPc' = "wait"
  /\ UNCHANGED <<portVars, rcv, snd, pos, rcvBuf, sndBuf, sndCount, sndAddr,
                 broadcast, rxOn, txEvt, dest, errType, historyVars>>

TransStep == \/ TransmitFSM
             \/ TransmitEnableReceiver
             \/ TransmitClearEvent
             \/ TransmitFinished
             \/ TransmitArmTimer

TransReady == transPc # "wait" \/ txEvt
=============================================================================
