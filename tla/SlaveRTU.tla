------------------------------ MODULE SlaveRTU ------------------------------
(***************************************************************************)
(* The RTU link of the Modbus slave: modbus/rtu/mbrtu.c with the event,    *)
(* timer and serial port functions it calls (portevent.c, porttimer.c,     *)
(* portserial.c).                                                          *)
(*                                                                         *)
(* The receive interrupt runs ReceiveByte, the system tick T35Expired, and *)
(* the "slave trans" thread, which stands in for a transmitter-empty       *)
(* interrupt, TransmitFSM and the steps after it.  Requests and responses  *)
(* share the buffer ucRTUBuf.                                              *)
(*                                                                         *)
(* What the buffer holds is abstracted to the address in its first byte    *)
(* and whether the CRC over its first usRcvBufferPos bytes is right.  Time *)
(* is abstracted: a running timer may expire at any moment.                *)
(***************************************************************************)
EXTENDS Naturals, FiniteSets

CONSTANTS Address,      \* ucMBAddress
          PduSizeMin,   \* MB_SER_PDU_SIZE_MIN
          PduSizeMax,   \* MB_SER_PDU_SIZE_MAX
          SndBytes,     \* bytes of a response
          Contents      \* what the buffer may hold

Broadcast == 0          \* MB_ADDRESS_BROADCAST

Frames == [addr : Nat, crc : BOOLEAN]

ASSUME SlaveAssumption ==
  /\ Address \in Nat \ {Broadcast}
  /\ PduSizeMin \in Nat \ {0}
  /\ PduSizeMax \in Nat
  /\ PduSizeMin <= PduSizeMax
  /\ SndBytes \in Nat \ {0}
  /\ Contents \subseteq Frames
  /\ [addr : {Address}, crc : BOOLEAN] \subseteq Contents

VARIABLES evs,         \* pending bits of xSlaveOsEvent
          pollPc,      \* where the poll thread is
          pollGot,     \* the set rt_event_recv returned to the poll thread
          rcv,         \* eRcvState
          snd,         \* eSndState
          pos,         \* usRcvBufferPos
          buf,         \* ucRTUBuf
          sndCount,    \* usSndBufferCount
          timerOn,     \* the one-shot timer runs
          rxOn,        \* the receive interrupt is enabled
          txEvt,       \* EVENT_SERIAL_TRANS_START is set in event_serial
          transPc      \* where the "slave trans" thread is

(* History: what the slave owes to the last frame on the bus, and the      *)
(* assertions of the source that have failed.                              *)
VARIABLES due, failed

portVars == <<evs, pollPc, pollGot>>
linkVars == <<rcv, snd, pos, buf, sndCount, timerOn, rxOn, txEvt, transPc>>
historyVars == <<due, failed>>

-----------------------------------------------------------------------------
Events == {"READY", "FRAME_RECEIVED", "EXECUTE", "FRAME_SENT"}

PollPcs == {"start", "arm", "enabled", "get", "waiting", "dispatch", "send",
            "load", "turn"}

(* "sent", "sentRx", "sentTx": after the last byte, before and after the   *)
(* two halves of vMBPortSerialEnable(TRUE, FALSE); "spare", "spareRx": the *)
(* same for a transmitter that was called without having a frame.          *)
TransPcs == {"wait", "sent", "sentRx", "sentTx", "spare", "spareRx"}

(* What is due: a frame for this slave is to be executed and then answered *)
(* ("answer", "reply"), a broadcast only executed ("execute").             *)
Dues == {"none", "answer", "execute", "reply"}

PortTypeOK ==
  /\ evs \in SUBSET Events
  /\ pollPc \in PollPcs
  /\ pollGot \in SUBSET Events

ReceiverTypeOK ==
  /\ rcv \in {"INIT", "IDLE", "RCV", "ERROR"}
  /\ pos \in 0 .. PduSizeMax
  /\ buf \in Contents

TransmitterTypeOK ==
  /\ snd \in {"IDLE", "XMIT"}
  /\ sndCount \in 0 .. SndBytes
  /\ transPc \in TransPcs

FlagTypeOK ==
  /\ timerOn \in BOOLEAN
  /\ rxOn \in BOOLEAN
  /\ txEvt \in BOOLEAN

HistoryTypeOK ==
  /\ due \in Dues
  /\ failed \in SUBSET {"receiver", "transmitter", "timer", "length"}

LinkTypeOK ==
  ReceiverTypeOK /\ TransmitterTypeOK /\ FlagTypeOK /\ HistoryTypeOK

(* The state eMBRTUInit leaves: static variables are zero, and the serial  *)
(* device is open and so already receives.                                 *)
LinkInit ==
  /\ evs = {} /\ pollPc = "start" /\ pollGot = {}
  /\ rcv = "INIT" /\ snd = "IDLE"
  /\ pos = 0 /\ buf \in Contents
  /\ sndCount = 0
  /\ timerOn = FALSE /\ rxOn = TRUE /\ txEvt = FALSE
  /\ transPc = "wait"
  /\ due = "none" /\ failed = {}

-----------------------------------------------------------------------------
(* rt_event_send resumes a suspended poll thread with the bit it sent, and *)
(* leaves the bit pending otherwise.  S holds one event or none.           *)
Post(S) ==
  IF pollPc = "waiting" /\ S # {}
  THEN pollGot' = S /\ pollPc' = "dispatch" /\ UNCHANGED evs
  ELSE evs' = evs \cup S /\ UNCHANGED <<pollGot, pollPc>>

xMBPortEventPost(e) == Post({e})

(* A post by the poll thread itself. *)
PostToSelf(e) == evs' = evs \cup {e}

\* faulty variant: without RT_EVENT_FLAG_CLEAR
xMBPortEventGetKeeps ==
  /\ pollPc = "get"
  /\ IF evs # {}
     THEN pollGot' = evs /\ pollPc' = "dispatch" /\ UNCHANGED evs
     ELSE pollGot' = {} /\ pollPc' = "waiting" /\ UNCHANGED evs

xMBPortEventGet ==
  /\ pollPc = "get"
  /\ IF evs # {}
     THEN pollGot' = evs /\ evs' = {} /\ pollPc' = "dispatch"
     ELSE pollGot' = {} /\ pollPc' = "waiting" /\ UNCHANGED evs

(* A set of several bits matches no case of the switch, and eEvent of      *)
(* eMBPoll is then read uninitialised: it may name any event or none.      *)
EventsRead(set) ==
  IF Cardinality(set) = 1 THEN set ELSE Events \cup {"NONE"}

vMBPortSerialEnable(rx, tx) == rxOn' = rx /\ txEvt' = tx

vMBPortTimersEnable == timerOn' = TRUE

vMBPortTimersDisable == timerOn' = FALSE

Assert(name, holds) ==
  failed' = IF holds THEN failed ELSE failed \cup {name}

-----------------------------------------------------------------------------
(* xMBRTUReceiveFSM by the state of the receiver.                          *)
ReceiverSkips ==
  /\ rcv \in {"INIT", "ERROR"}
  /\ UNCHANGED <<rcv, pos, buf, due>>

(* The first byte of the next frame: whatever was due has lapsed.          *)
ReceiverBegins ==
  /\ rcv = "IDLE"
  /\ pos' = 1
  /\ buf' \in Contents
  /\ rcv' = "RCV"
  /\ due' = "none"

\* faulty variant: the bound is off by one
ReceiverAppendsPastEnd ==
  /\ rcv = "RCV" /\ pos <= PduSizeMax
  /\ pos' = pos + 1
  /\ buf' \in Contents
  /\ UNCHANGED <<rcv, due>>

ReceiverAppends ==
  /\ rcv = "RCV" /\ pos < PduSizeMax
  /\ pos' = pos + 1
  /\ buf' \in Contents
  /\ UNCHANGED <<rcv, due>>

ReceiverOverflows ==
  /\ rcv = "RCV" /\ pos = PduSizeMax
  /\ rcv' = "ERROR"
  /\ UNCHANGED <<pos, buf, due>>

(* The receive interrupt for one byte. *)
ReceiveByte ==
  /\ rxOn
  /\ Assert("receiver", snd = "IDLE")
  /\ ReceiverSkips \/ ReceiverBegins \/ ReceiverAppends \/ ReceiverOverflows
  /\ vMBPortTimersEnable
  /\ UNCHANGED <<portVars, snd, sndCount, rxOn, txEvt, transPc>>

-----------------------------------------------------------------------------
(* xMBRTUTimerT35Expired: a frame ends.                                    *)
ExpiryEvent ==
  CASE rcv = "INIT" -> {"READY"}
    [] rcv = "RCV"  -> {"FRAME_RECEIVED"}
    [] OTHER        -> {}

FrameIntact == pos >= PduSizeMin /\ buf.crc

DueForFrame ==
  IF ~FrameIntact \/ buf.addr \notin {Address, Broadcast} THEN "none"
  ELSE IF buf.addr = Address THEN "answer" ELSE "execute"

\* faulty variant: the receiver is not reset
T35ReceiverStays == UNCHANGED rcv

T35ReceiverRests == rcv' = "IDLE"

T35Expired ==
  /\ timerOn
  /\ Post(ExpiryEvent)
  /\ due' = IF rcv = "RCV" THEN DueForFrame ELSE due
  /\ Assert("timer", rcv # "IDLE")
  /\ vMBPortTimersDisable
  /\ T35ReceiverRests
  /\ UNCHANGED <<snd, pos, buf, sndCount, rxOn, txEvt, transPc>>

-----------------------------------------------------------------------------
(* xMBRTUTransmitFSM, run by "slave trans" as long as the event is set.    *)
(* The end of a response takes several steps with no lock between them:    *)
(* vMBPortSerialEnable itself first lets the receiver in and then clears   *)
(* the event.                                                              *)
TransmitterIdle ==
  /\ snd = "IDLE"
  /\ transPc' = "spare"
  /\ UNCHANGED <<portVars, sndCount, due>>

TransmitterPutByte ==
  /\ snd = "XMIT" /\ sndCount # 0
  /\ sndCount' = sndCount - 1
  /\ UNCHANGED <<portVars, transPc, due>>

TransmitterDone ==
  /\ snd = "XMIT" /\ sndCount = 0
  /\ xMBPortEventPost("FRAME_SENT")
  /\ due' = IF due = "reply" THEN "none" ELSE due
  /\ transPc' = "sent"
  /\ UNCHANGED sndCount

TransmitFSM ==
  /\ transPc = "wait" /\ txEvt
  /\ Assert("transmitter", rcv = "IDLE")
  /\ TransmitterIdle \/ TransmitterPutByte \/ TransmitterDone
  /\ UNCHANGED <<rcv, snd, pos, buf, timerOn, rxOn, txEvt>>

\* faulty variant: the receiver stays off after a response
TransmitForgetsReceiver ==
  /\ \/ transPc = "sent" /\ transPc' = "sentRx"
     \/ transPc = "spare" /\ transPc' = "spareRx"
  /\ UNCHANGED <<portVars, rcv, snd, pos, buf, sndCount, timerOn, rxOn, txEvt,
                 historyVars>>

TransmitEnableReceiver ==
  /\ \/ transPc = "sent" /\ transPc' = "sentRx"
     \/ transPc = "spare" /\ transPc' = "spareRx"
  /\ rxOn' = TRUE
  /\ UNCHANGED <<portVars, rcv, snd, pos, buf, sndCount, timerOn, txEvt,
                 historyVars>>

TransmitClearEvent ==
  /\ \/ transPc = "sentRx" /\ transPc' = "sentTx"
     \/ transPc = "spareRx" /\ transPc' = "wait"
  /\ txEvt' = FALSE
  /\ UNCHANGED <<portVars, rcv, snd, pos, buf, sndCount, timerOn, rxOn,
                 historyVars>>

\* faulty variant: the transmitter is not reset
TransmitFinishedHalf ==
  /\ transPc = "sentTx"
  /\ transPc' = "wait"
  /\ UNCHANGED <<portVars, rcv, snd, pos, buf, sndCount, timerOn, rxOn, txEvt,
                 historyVars>>

TransmitFinished ==
  /\ transPc = "sentTx"
  /\ snd' = "IDLE"
  /\ transPc' = "wait"
  /\ UNCHANGED <<portVars, rcv, pos, buf, sndCount, timerOn, rxOn, txEvt,
                 historyVars>>

TransStep == \/ TransmitFSM
             \/ TransmitEnableReceiver
             \/ TransmitClearEvent
             \/ TransmitFinished

TransReady == transPc # "wait" \/ txEvt
=============================================================================
