----------------------------- MODULE MasterStack -----------------------------
(***************************************************************************)
(* The Modbus master as a whole: the poll thread (eMBMasterPoll of         *)
(* modbus/mb_m.c), the requesting threads (the eMBMasterReq... functions   *)
(* of modbus/functions/mbfunc*_m.c, which share one shape), and the link   *)
(* of MasterRTU with its interrupts and its transmit thread.               *)
(***************************************************************************)
EXTENDS MasterRTU

CONSTANTS PollPrio,   \* priority of the poll thread
          TransPrio,  \* priority of the "master trans" thread
          Impatient   \* requesters that pass a finite lTimeOut

ASSUME StackAssumption ==
  /\ PollPrio \in Nat /\ TransPrio \in Nat
  /\ Impatient \subseteq Apps

VARIABLES mbState,    \* eMBState
          frame,      \* ucMBFrame: the buffer it points into
          rcvAddr,    \* ucRcvAddress
          ctlPc       \* where a thread is that disables and enables the stack

pollVars == <<mbState, frame, rcvAddr, ctlPc>>
vars == <<portVars, linkVars, historyVars, pollVars>>

StateTypeOK ==
  /\ mbState \in {"DISABLED", "ENABLED", "ESTABLISHED"}
  /\ frame \in {"snd", "rcv"}
  /\ rcvAddr \in Nat
  /\ ctlPc \in {"run", "stopping", "stopped", "starting"}

TypeOK == PortTypeOK /\ LinkTypeOK /\ StateTypeOK

(* The state in which eMBMasterInit has returned. *)
Init ==
  /\ PortInit
  /\ LinkInit
  /\ mbState = "DISABLED"
  /\ frame = "snd"
  /\ rcvAddr = 0
  /\ ctlPc = "run"

-----------------------------------------------------------------------------
(* The scheduler runs a ready thread of the highest priority; threads of   *)
(* one priority share the processor in any order.  Between entering and    *)
(* leaving eMBMasterRTUSend's critical section the scheduler is locked.    *)
PollReady == pollPc # "waiting"
AppReady(a) == appPc[a] \notin {"idle", "blocked", "wait"}
SchedulerLocked == pollPc \in {"load", "send"}

OutrankedByApp(p) == \E a \in Apps : AppReady(a) /\ Prio[a] < p

PollMayRun ==
  /\ PollReady
  /\ \/ SchedulerLocked
     \/ /\ ~ (TransReady /\ TransPrio < PollPrio)
        /\ ~OutrankedByApp(PollPrio)

TransMayRun ==
  /\ TransReady /\ ~SchedulerLocked
  /\ ~ (PollReady /\ PollPrio < TransPrio)
  /\ ~OutrankedByApp(TransPrio)

AppMayRun(a) ==
  /\ ~SchedulerLocked
  /\ ~ (PollReady /\ PollPrio < Prio[a])
  /\ ~ (TransReady /\ TransPrio < Prio[a])
  /\ ~OutrankedByApp(Prio[a])

CtlReady == ctlPc \in {"stopping", "starting"}

(* A disabled stack makes eMBMasterPoll return at once: the poll thread    *)
(* spins, and does nothing that an interrupt could outrun.                 *)
PollSpins == pollPc = "get" /\ mbState = "DISABLED"

AllBlocked == /\ PollReady => PollSpins
              /\ ~TransReady /\ ~CtlReady
              /\ \A a \in Apps : ~AppReady(a)

(* The bus and the tick run at their own pace: when every thread sleeps,   *)
(* or, on a busy processor, at any moment once the stack has started.      *)
InterruptsMayRun ==
  AllBlocked \/ ("busy" \in Faults /\ mbState # "DISABLED")

-----------------------------------------------------------------------------
(* eMBMasterEnable, called by the poll thread before it polls.             *)
eMBMasterRTUStart ==
  /\ pollPc = "start"
  /\ rcv' = "INIT"
  /\ vMBMasterPortSerialEnable(TRUE, FALSE)
  /\ TimerEnable("T35")
  /\ pollPc' = "enabled"
  /\ UNCHANGED <<evPoll, pollGot, evApp, appPc, appGot, sem, snd, pos, rcvBuf,
                 sndBuf, sndCount, sndAddr, broadcast, transPc, dest, errType,
                 historyVars, pollVars>>

Enabled ==
  /\ pollPc = "enabled"
  /\ mbState' = "ENABLED"
  /\ pollPc' = "get"
  /\ UNCHANGED <<evPoll, pollGot, evApp, appPc, appGot, sem, linkVars,
                 historyVars, frame, rcvAddr, ctlPc>>

-----------------------------------------------------------------------------
(* eMBMasterPoll.  Each case of its switch is one action or several: a     *)
(* step reads or writes what the interrupts or another thread share.       *)
PollGet ==
  /\ mbState \in {"ENABLED", "ESTABLISHED"}
  /\ xMBMasterPortEventGet
  /\ UNCHANGED <<linkVars, historyVars, pollVars>>

PollNothing ==
  /\ pollPc = "dispatch" /\ "NONE" \in EventsRead(pollGot)
  /\ pollPc' = "get"
  /\ UNCHANGED <<evPoll, pollGot, evApp, appPc, appGot, sem, linkVars,
                 historyVars, pollVars>>

PollReadyEvent ==
  /\ pollPc = "dispatch" /\ "READY" \in EventsRead(pollGot)
  /\ mbState' = "ESTABLISHED"
  /\ pollPc' = "get"
  /\ UNCHANGED <<evPoll, pollGot, evApp, appPc, appGot, sem, linkVars,
                 historyVars, frame, rcvAddr, ctlPc>>

(* EV_MASTER_FRAME_RECEIVED: eMBMasterRTUReceive checks length and CRC.    *)
\* faulty variant: the CRC is not looked at
ReceivedLongEnough == pos >= PduSizeMin

ReceivedIntact == pos >= PduSizeMin /\ rcvBuf.crc

PollReceive ==
  /\ pollPc = "dispatch" /\ "FRAME_RECEIVED" \in EventsRead(pollGot)
  /\ Assert("length", pos < PduSizeMax)
  /\ IF ReceivedIntact
     THEN rcvAddr' = rcvBuf.addr /\ frame' = "rcv" /\ pollPc' = "check"
     ELSE pollPc' = "reject" /\ UNCHANGED <<rcvAddr, frame>>
  /\ UNCHANGED <<evPoll, pollGot, evApp, appPc, appGot, sem, linkVars,
                 wireBy, fate, owed, mbState, ctlPc>>

PollAccept ==
  /\ pollPc = "check" /\ rcvAddr = dest
  /\ PostToSelf("EXECUTE")
  /\ pollPc' = "get"
  /\ UNCHANGED <<pollGot, evApp, appPc, appGot, sem, linkVars, historyVars,
                 pollVars>>

PollReject ==
  /\ \/ pollPc = "reject"
     \/ pollPc = "check" /\ rcvAddr # dest
  /\ errType' = "RECEIVE_DATA"
  /\ PostToSelf("ERROR_PROCESS")
  /\ Settle("garbled")
  /\ pollPc' = "get"
  /\ UNCHANGED <<pollGot, evApp, appPc, appGot, sem, rcv, snd, pos, rcvBuf,
                 sndBuf, sndCount, sndAddr, broadcast, timerOn, timerMode,
                 rxOn, txEvt, transPc, dest, wireBy, owed, failed, pollVars>>

(* EV_MASTER_EXECUTE.  ucMBFrame is the received frame, or after the delay *)
(* of a broadcast the frame that was sent, whose function code always has  *)
(* a handler.                                                              *)
HasHandler == frame = "snd" \/ rcvBuf.fc = "handled"

FrameData == IF frame = "snd" THEN sndBuf.data ELSE rcvBuf.data

ExceptionNone ==
  /\ HasHandler \/ (frame = "rcv" /\ rcvBuf.fc = "exception")
  /\ FrameData = "good"

(* A broadcast is executed once for every slave, and leaves the address of *)
(* the last one behind.                                                    *)
PollExecute ==
  /\ pollPc = "dispatch" /\ "EXECUTE" \in EventsRead(pollGot)
  /\ dest' = IF HasHandler /\ broadcast THEN TotalSlaveNum ELSE dest
  /\ IF ExceptionNone
     THEN /\ pollPc' = "succeed"
          /\ Settle("ok")
          /\ UNCHANGED <<evPoll, errType>>
     ELSE /\ errType' = "EXECUTE_FUNCTION"
          /\ PostToSelf("ERROR_PROCESS")
          /\ Settle("exception")
          /\ pollPc' = "get"
  /\ UNCHANGED <<pollGot, evApp, appPc, appGot, sem, rcv, snd, pos, rcvBuf,
                 sndBuf, sndCount, sndAddr, broadcast, timerOn, timerMode,
                 rxOn, txEvt, transPc, wireBy, owed, failed, pollVars>>

PollSucceed ==
  /\ pollPc = "succeed"
  /\ SendToRequester("PROCESS_SUCCESS")
  /\ pollPc' = "release"
  /\ UNCHANGED <<evPoll, pollGot, sem, linkVars, historyVars, pollVars>>

(* EV_MASTER_ERROR_PROCESS: the callback for the error type.               *)
\* faulty variant: the semaphore is not released after an error
PollErrorProcessKeeps ==
  /\ pollPc = "dispatch" /\ "ERROR_PROCESS" \in EventsRead(pollGot)
  /\ frame' = "snd"
  /\ SendToRequester(errType)
  /\ pollPc' = "get"
  /\ UNCHANGED <<evPoll, pollGot, sem, linkVars, historyVars, mbState,
                 rcvAddr, ctlPc>>

PollErrorProcess ==
  /\ pollPc = "dispatch" /\ "ERROR_PROCESS" \in EventsRead(pollGot)
  /\ frame' = "snd"
  /\ SendToRequester(errType)
  /\ pollPc' = "release"
  /\ UNCHANGED <<evPoll, pollGot, sem, linkVars, historyVars, mbState,
                 rcvAddr, ctlPc>>

PollRelease ==
  /\ pollPc = "release"
  /\ vMBMasterRunResRelease
  /\ pollPc' = "get"
  /\ UNCHANGED <<evPoll, pollGot, evApp, appGot, linkVars, historyVars,
                 pollVars>>

(* EV_MASTER_FRAME_SENT: eMBMasterRTUSend.  When the receiver is not idle  *)
(* it returns MB_EIO, and eMBMasterPoll ignores what it returns.           *)
PollSend ==
  /\ pollPc = "dispatch" /\ "FRAME_SENT" \in EventsRead(pollGot)
  /\ frame' = "snd"
  /\ pollPc' = IF rcv = "IDLE" THEN "load" ELSE "get"
  /\ UNCHANGED <<evPoll, pollGot, evApp, appPc, appGot, sem, linkVars,
                 historyVars, mbState, rcvAddr, ctlPc>>

SendLoad ==
  /\ pollPc = "load"
  /\ sndAddr' = dest
  /\ sndCount' = SndBytes
  /\ wireBy' = sndBuf.by
  /\ snd' = "XMIT"
  /\ pollPc' = "send"
  /\ UNCHANGED <<evPoll, pollGot, evApp, appPc, appGot, sem, rcv, pos, rcvBuf,
                 sndBuf, broadcast, timerOn, timerMode, rxOn, txEvt, transPc,
                 dest, errType, fate, owed, failed, pollVars>>

SendEnableTransmitter ==
  /\ pollPc = "send"
  /\ vMBMasterPortSerialEnable(FALSE, TRUE)
  /\ pollPc' = "get"
  /\ UNCHANGED <<evPoll, pollGot, evApp, appPc, appGot, sem, rcv, snd, pos,
                 rcvBuf, sndBuf, sndCount, sndAddr, broadcast, timerOn,
                 timerMode, transPc, dest, errType, historyVars, pollVars>>

PollStep ==
  /\ PollMayRun
  /\ \/ eMBMasterRTUStart \/ Enabled
     \/ PollGet \/ PollNothing \/ PollReadyEvent
     \/ PollReceive \/ PollAccept \/ PollReject
     \/ PollExecute \/ PollSucceed \/ PollErrorProcess \/ PollRelease
     \/ PollSend \/ SendLoad \/ SendEnableTransmitter

-----------------------------------------------------------------------------
(* A requesting thread, in any of the eMBMasterReq... functions.  It calls *)
(* them once the stack is established, as mb_m.h asks.  Its arguments are  *)
(* its own, and chosen where they are used: a slave address up to          *)
(* TotalSlaveNum (a greater one returns MB_MRE_ILL_ARG and changes         *)
(* nothing), and data the master's own registers take or refuse.  A call   *)
(* that returns MB_MRE_MASTER_BUSY without waiting changes nothing.        *)
\* faulty variant: a taken semaphore does not stop a caller
xMBMasterRunResTakeAnyway(a) ==
  /\ appPc[a] = "idle" /\ mbState = "ESTABLISHED"
  /\ sem' = 0 /\ appPc' = [appPc EXCEPT ![a] = "dest"]
  /\ UNCHANGED <<evPoll, pollPc, pollGot, evApp, appGot, linkVars,
                 historyVars, pollVars>>

xMBMasterRunResTake(a) ==
  /\ appPc[a] = "idle" /\ mbState = "ESTABLISHED"
  /\ IF sem > 0
     THEN sem' = sem - 1 /\ appPc' = [appPc EXCEPT ![a] = "dest"]
     ELSE appPc' = [appPc EXCEPT ![a] = "blocked"] /\ UNCHANGED sem
  /\ UNCHANGED <<evPoll, pollPc, pollGot, evApp, appGot, linkVars,
                 historyVars, pollVars>>

\* faulty variant: what rt_sem_take returns is ignored
TakeTimedOutAnyway(a) ==
  /\ appPc[a] = "blocked" /\ a \in Impatient
  /\ appPc' = [appPc EXCEPT ![a] = "dest"]
  /\ UNCHANGED <<evPoll, pollPc, pollGot, evApp, appGot, sem, linkVars,
                 historyVars, pollVars>>

(* The timer of rt_sem_take resumes the thread without the semaphore.      *)
TakeTimedOut(a) ==
  /\ appPc[a] = "blocked" /\ a \in Impatient
  /\ appPc' = [appPc EXCEPT ![a] = "idle"]
  /\ UNCHANGED <<evPoll, pollPc, pollGot, evApp, appGot, sem, linkVars,
                 historyVars, pollVars>>

vMBMasterSetDestAddress(a) ==
  /\ appPc[a] = "dest"
  /\ dest' \in 0 .. TotalSlaveNum
  /\ appPc' = [appPc EXCEPT ![a] = "fill"]
  /\ UNCHANGED <<evPoll, pollPc, pollGot, evApp, appGot, sem, rcv, snd, pos,
                 rcvBuf, sndBuf, sndCount, sndAddr, broadcast, timerOn,
                 timerMode, rxOn, txEvt, transPc, errType, historyVars,
                 pollVars>>

FillFrame(a) ==
  /\ appPc[a] = "fill"
  /\ sndBuf' \in [by : {a}, data : {"good", "bad"}]
  /\ appPc' = [appPc EXCEPT ![a] = "post"]
  /\ UNCHANGED <<evPoll, pollPc, pollGot, evApp, appGot, sem, rcv, snd, pos,
                 rcvBuf, sndCount, sndAddr, broadcast, timerOn, timerMode,
                 rxOn, txEvt, transPc, dest, errType, historyVars, pollVars>>

PostFrameSent(a) ==
  /\ appPc[a] = "post"
  /\ xMBMasterPortEventPost("FRAME_SENT")
  /\ appPc' = [appPc EXCEPT ![a] = "recv"]
  /\ UNCHANGED <<evApp, appGot, sem, linkVars, historyVars, pollVars>>

WaitRequestFinish(a) ==
  /\ appPc[a] = "recv"
  /\ WaitForResult(a)
  /\ UNCHANGED <<evPoll, pollPc, pollGot, sem, linkVars, historyVars,
                 pollVars>>

(* The call returns RequestCode(appGot[a]). *)
Return(a) ==
  /\ appPc[a] = "woken"
  /\ appPc' = [appPc EXCEPT ![a] = "idle"]
  /\ appGot' = [appGot EXCEPT ![a] = {}]
  /\ fate' = [fate EXCEPT ![a] = "unsent"]
  /\ UNCHANGED <<evPoll, pollPc, pollGot, evApp, sem, linkVars, wireBy, owed,
                 failed, pollVars>>

AppStep(a) ==
  /\ AppMayRun(a)
  /\ \/ vMBMasterSetDestAddress(a) \/ FillFrame(a) \/ PostFrameSent(a)
     \/ WaitRequestFinish(a) \/ Return(a)

-----------------------------------------------------------------------------
(* The receive interrupt.  An answer begins with a byte for an idle        *)
(* receiver and goes on as long as the slave likes; before the stack is    *)
(* established the receiver also hears what was on the bus.                *)
ByteArrives ==
  /\ rxOn
  /\ \/ "noise" \in Faults
     \/ "prompt" \in Faults /\ owed
     \/ "late" \in Faults /\ owed /\ InterruptsMayRun
     \/ InterruptsMayRun /\ rcv # "IDLE"
     \/ InterruptsMayRun /\ owed /\ snd = "XFWR" /\ timerOn
  /\ ReceiveByte
  /\ UNCHANGED pollVars

TimerTick ==
  /\ timerOn /\ InterruptsMayRun
  /\ TimerExpired
  /\ UNCHANGED pollVars

(* eMBMasterDisable and eMBMasterEnable, called by another thread.  They   *)
(* change eMBState after the link, and after leaving its critical section; *)
(* a stale READY event may have changed it in between, and then only       *)
(* disabling the stack once more lets it be enabled.                       *)
eMBMasterRTUStop ==
  /\ ctlPc \in {"run", "stopped"} /\ mbState \in {"ENABLED", "ESTABLISHED"}
  /\ vMBMasterPortSerialEnable(FALSE, FALSE)
  /\ vMBMasterPortTimersDisable
  /\ ctlPc' = "stopping"
  /\ UNCHANGED <<portVars, rcv, snd, pos, rcvBuf, sndBuf, sndCount, sndAddr,
                 broadcast, timerMode, transPc, dest, errType, historyVars,
                 mbState, frame, rcvAddr>>

Disabled ==
  /\ ctlPc = "stopping"
  /\ mbState' = "DISABLED"
  /\ ctlPc' = "stopped"
  /\ UNCHANGED <<portVars, linkVars, historyVars, frame, rcvAddr>>

\* faulty variant: the timer is not started
RestartUntimed ==
  /\ ctlPc = "stopped" /\ mbState = "DISABLED"
  /\ rcv' = "INIT"
  /\ vMBMasterPortSerialEnable(TRUE, FALSE)
  /\ ctlPc' = "starting"
  /\ UNCHANGED <<portVars, snd, pos, rcvBuf, sndBuf, sndCount, sndAddr,
                 broadcast, timerOn, timerMode, transPc, dest, errType,
                 historyVars, mbState, frame, rcvAddr>>

\* faulty variant: the events of before are thrown away
RestartPurged ==
  /\ ctlPc = "stopped" /\ mbState = "DISABLED"
  /\ rcv' = "INIT"
  /\ evPoll' = {}
  /\ vMBMasterPortSerialEnable(TRUE, FALSE)
  /\ TimerEnable("T35")
  /\ ctlPc' = "starting"
  /\ UNCHANGED <<pollPc, pollGot, evApp, appPc, appGot, sem, snd, pos, rcvBuf,
                 sndBuf, sndCount, sndAddr, broadcast, transPc, dest, errType,
                 historyVars, mbState, frame, rcvAddr>>

Restart ==
  /\ ctlPc = "stopped" /\ mbState = "DISABLED"
  /\ rcv' = "INIT"
  /\ vMBMasterPortSerialEnable(TRUE, FALSE)
  /\ TimerEnable("T35")
  /\ ctlPc' = "starting"
  /\ UNCHANGED <<portVars, snd, pos, rcvBuf, sndBuf, sndCount, sndAddr,
                 broadcast, transPc, dest, errType, historyVars, mbState,
                 frame, rcvAddr>>

\* faulty variant: the stack does not wait for the bus to fall silent
RestartedEstablished ==
  /\ ctlPc = "starting"
  /\ mbState' = "ESTABLISHED"
  /\ ctlPc' = "run"
  /\ UNCHANGED <<portVars, linkVars, historyVars, frame, rcvAddr>>

Restarted ==
  /\ ctlPc = "starting"
  /\ mbState' = "ENABLED"
  /\ ctlPc' = "run"
  /\ UNCHANGED <<portVars, linkVars, historyVars, frame, rcvAddr>>

ControlStep ==
  /\ "disable" \in Faults /\ ~SchedulerLocked
  /\ eMBMasterRTUStop \/ Disabled \/ Restart \/ Restarted

-----------------------------------------------------------------------------
Next == \/ PollStep
        \/ TransMayRun /\ TransStep /\ UNCHANGED pollVars
        \/ \E a \in Apps : \/ AppStep(a)
                           \/ AppMayRun(a) /\ xMBMasterRunResTake(a)
                           \/ TakeTimedOut(a)
        \/ ByteArrives
        \/ TimerTick
        \/ ControlStep

Spec == Init /\ [][Next]_vars

(* Every thread that may run eventually does, and a timer that stays armed *)
(* expires.  Nobody has to call, a slave does not have to answer, a        *)
(* blocked requester does not have to lose patience, and a disabled stack  *)
(* does not have to be enabled again.                                      *)
Fairness ==
  /\ WF_vars(PollStep)
  /\ WF_vars(TransMayRun /\ TransStep /\ UNCHANGED pollVars)
  /\ \A a \in Apps : WF_vars(AppStep(a))
  /\ WF_vars(TimerTick)
  /\ WF_vars(CtlReady /\ ControlStep)

FairSpec == Spec /\ Fairness

-----------------------------------------------------------------------------
(* The semaphore lets one thread at a time use the master: at most one     *)
(* requester is between taking xMasterRunRes and receiving its result,     *)
(* although it is the poll thread that gives the semaphore back.           *)
OneRequester ==
  /\ sem \in {0, 1}
  /\ \A a, b \in Apps :
       appPc[a] \in InRequest /\ appPc[b] \in InRequest => a = b

(* A request returns the end its own frame came to on the wire, never that *)
(* of another thread's frame or of none: what the poll thread, the timer   *)
(* and the receiver made of the exchange reaches the thread that asked.    *)
ReturnedAs ==
  [unsent |-> "nothing", sent |-> "nothing", ok |-> "NO_ERR",
   timeout |-> "TIMEDOUT", garbled |-> "REV_DATA", exception |-> "EXE_FUN"]

OwnResult ==
  \A a \in Apps :
    appPc[a] = "woken" => RequestCode(appGot[a]) = ReturnedAs[fate[a]]

(* Neither receiver of the event object ever gets two bits at once: the    *)
(* poll thread would read an uninitialised event and lose both, and a      *)
(* requester would take two results for success.                           *)
NoMergedEvents ==
  /\ pollPc = "dispatch" => \E e \in PollEvents : pollGot = {e}
  /\ \A a \in Apps : appPc[a] = "woken" =>
       \E e \in AppEvents : appGot[a] = {e}

(* The state machines of the link never meet the states their assertions   *)
(* exclude: no byte while sending, no sending while a frame comes in, no   *)
(* expiry while sending.                                                   *)
StateAssertionsHold == failed \subseteq {"length"}

(* Handlers only ever see a frame that came whole, from the slave that was *)
(* asked, or the broadcast that was sent; the slave index dest - 1 of the  *)
(* register callbacks is then never negative.                              *)
ExecutesCheckedFrame ==
  pollPc = "dispatch" /\ pollGot = {"EXECUTE"} =>
    IF frame = "rcv"
    THEN /\ pos >= PduSizeMin /\ rcvBuf.crc
         /\ rcvBuf.addr = dest /\ dest # 0 /\ ~broadcast
    ELSE broadcast

(* From the moment a frame is loaded until its end is delivered, no thread *)
(* overwrites the send buffer: it is being shifted out, or will be handled *)
(* as a broadcast.                                                         *)
ExchangeOpen == \E a \in Apps : wireBy = a /\ sndBuf.by = a
                                /\ fate[a] \in {"unsent", "sent"}
                                /\ appPc[a] \in {"recv", "wait"}

SendBufferStable == [][ExchangeOpen => UNCHANGED sndBuf]_vars

(* Whatever happens on the bus, a receiver that is not idle has its timer  *)
(* running, so it never sticks in the middle of a frame.                   *)
ReceiverTimed ==
  pollPc # "start" /\ ctlPc = "run" /\ rcv # "IDLE" => timerOn

(* Whatever happens on the bus, the right to use the master is never lost: *)
(* it is in the semaphore, with a requester that still waits for a result, *)
(* or with the poll thread about to release it.  Spurious results may      *)
(* multiply it, and each pending result stands for one more.               *)
Requesters == {a \in Apps : appPc[a] \in InRequest}

MasterNeverLost ==
  sem + Cardinality(Requesters) + (IF pollPc = "release" THEN 1 ELSE 0)
    >= 1 + Cardinality(evApp)

(* A request that reports success was sent: its frame went out on the bus  *)
(* before the answer that is taken for it.                                 *)
SuccessMeansSent ==
  \A a \in Apps :
    appPc[a] = "woken" /\ RequestCode(appGot[a]) = "NO_ERR"
      => fate[a] # "unsent"

(* A stack that was enabled comes to be established, or is disabled again. *)
EnabledBecomesEstablished ==
  mbState = "ENABLED" ~> mbState # "ENABLED"

(* Nobody uses the master, and the poll thread has no event to handle.     *)
MasterAtRest ==
  /\ pollPc \in {"get", "waiting"} /\ evPoll = {}
  /\ \A a \in Apps : appPc[a] = "idle"

(* The stack may be disabled and enabled again, but only at rest: nobody   *)
(* calls while it is being disabled.                                       *)
DisabledAtRest == [](ctlPc \in {"stopping", "stopped"} => MasterAtRest)

(* Every request that got the master comes back with a result, whatever    *)
(* the slave does, on a stack that is never disabled or only at rest.      *)
RequestsReturn ==
  DisabledAtRest =>
    \A a \in Apps : appPc[a] \in InRequest ~> appPc[a] = "idle"

(* A thread waiting for the master gets it, or gives up, on a stack that   *)
(* is never disabled or only at rest.  The premise is needed: a request    *)
(* that is under way when the stack is disabled never returns the          *)
(* semaphore (mb_m.c:240), and whoever asks then waits for ever.           *)
BlockedGetsMaster ==
  DisabledAtRest =>
    \A a \in Apps : appPc[a] = "blocked" ~> appPc[a] # "blocked"

(* Disabling the stack takes no result back: once it is known what became  *)
(* of a request its caller returns with it, although the stack may be      *)
(* disabled before the poll thread has taken the event (mb_m.c:240).  If   *)
(* the stack is stopped meanwhile the result waits, and the same holds     *)
(* from when it is started again.  A caller that has returned is undecided *)
(* about its next request.                                                 *)
Decided(a) == fate[a] \in {"ok", "timeout", "garbled", "exception"}

DecidedReturns ==
  (\E a \in Apps : Decided(a))
    ~> (\A a \in Apps : ~Decided(a)) \/ ctlPc = "stopped"
=============================================================================
