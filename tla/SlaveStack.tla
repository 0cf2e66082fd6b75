----------------------------- MODULE SlaveStack -----------------------------
(***************************************************************************)
(* The Modbus slave as a whole: the poll thread (eMBPoll of modbus/mb.c),  *)
(* the link of SlaveRTU with its interrupts and its transmit thread, and a *)
(* thread that disables and enables the stack.                             *)
(*                                                                         *)
(* The poll thread and "slave trans" have one priority and share the       *)
(* processor in any order.  What a handler makes of a request is left      *)
(* open: it writes its response, or an exception, into the buffer.         *)
(***************************************************************************)
EXTENDS SlaveRTU

CONSTANT Faults    \* how the environment departs from the ideal one

(* "busy":    bytes and ticks may outrun threads that are ready to run;    *)
(* "disable": a thread may disable and enable the stack at any time.       *)
ASSUME FaultsAssumption == Faults \subseteq {"busy", "disable"}

VARIABLES mbState,    \* eMBState
          rcvAddr,    \* ucRcvAddress
          ctlPc       \* where a thread is that disables and enables the stack

stackVars == <<mbState, rcvAddr, ctlPc>>
vars == <<portVars, linkVars, historyVars, stackVars>>

StateTypeOK ==
  /\ mbState \in {"ENABLED", "DISABLED"}
  /\ rcvAddr \in Nat
  /\ ctlPc \in {"run", "stopping", "stopped", "arming", "starting"}

TypeOK == PortTypeOK /\ LinkTypeOK /\ StateTypeOK

(* The state in which eMBInit has returned. *)
Init ==
  /\ LinkInit
  /\ mbState = "DISABLED"
  /\ rcvAddr = 0
  /\ ctlPc = "run"

-----------------------------------------------------------------------------
(* A disabled stack makes eMBPoll return at once: the poll thread spins.   *)
PollReady == /\ pollPc # "waiting"
             /\ ~(pollPc = "get" /\ mbState = "DISABLED")

(* Between entering and leaving the critical sections of eMBRTUSend and    *)
(* eMBRTUStart the scheduler is locked.                                    *)
PollLocks == pollPc \in {"arm", "load", "turn"}

SchedulerLocked == PollLocks \/ ctlPc = "arming"

CtlReady == ctlPc \in {"stopping", "arming", "starting"}

AtRest == ~PollReady /\ ~TransReady /\ ~CtlReady

(* The bus and the tick run when every thread sleeps or, on a busy         *)
(* processor, at any moment.                                               *)
InterruptsMayRun == AtRest \/ "busy" \in Faults

-----------------------------------------------------------------------------
(* eMBEnable, called by the poll thread before it polls.                   *)
eMBRTUStart ==
  /\ pollPc = "start"
  /\ rcv' = "INIT"
  /\ pollPc' = "arm"
  /\ UNCHANGED <<evs, pollGot, snd, pos, buf, sndCount, timerOn, rxOn, txEvt,
                 transPc, historyVars, stackVars>>

StartListening ==
  /\ pollPc = "arm"
  /\ vMBPortSerialEnable(TRUE, FALSE)
  /\ vMBPortTimersEnable
  /\ pollPc' = "enabled"
  /\ UNCHANGED <<evs, pollGot, rcv, snd, pos, buf, sndCount, transPc,
                 historyVars, stackVars>>

Enabled ==
  /\ pollPc = "enabled"
  /\ mbState' = "ENABLED"
  /\ pollPc' = "get"
  /\ UNCHANGED <<evs, pollGot, linkVars, historyVars, rcvAddr, ctlPc>>

-----------------------------------------------------------------------------
(* eMBPoll. *)
PollGet ==
  /\ mbState = "ENABLED"
  /\ xMBPortEventGet
  /\ UNCHANGED <<linkVars, historyVars, stackVars>>

(* EV_READY, EV_FRAME_SENT, and a value that names no event. *)
PollNothing ==
  /\ pollPc = "dispatch"
  /\ EventsRead(pollGot) \cap {"READY", "FRAME_SENT", "NONE"} # {}
  /\ pollPc' = "get"
  /\ UNCHANGED <<evs, pollGot, linkVars, historyVars, stackVars>>

(* EV_FRAME_RECEIVED: eMBRTUReceive, then the check of the address.        *)
\* faulty variant: every address is ours
ForAnyone(addr) == TRUE

ForThisSlave(addr) == addr \in {Address, Broadcast}

PollReceive ==
  /\ pollPc = "dispatch" /\ "FRAME_RECEIVED" \in EventsRead(pollGot)
  /\ Assert("length", pos < PduSizeMax)
  /\ rcvAddr' = IF FrameIntact THEN buf.addr ELSE rcvAddr
  /\ IF FrameIntact /\ ForThisSlave(buf.addr)
     THEN PostToSelf("EXECUTE") ELSE UNCHANGED evs
  /\ pollPc' = "get"
  /\ UNCHANGED <<pollGot, linkVars, due, mbState, ctlPc>>

(* EV_EXECUTE: the handler writes its response into the buffer it read the *)
(* request from.  Whether the CRC over the old length is right by chance   *)
(* depends on the response, which may repeat the request.                  *)
\* faulty variant: broadcasts are answered
AnswersAnyone(addr) == TRUE

IsAnswered(addr) == addr # Broadcast

DueAfterExecute ==
  CASE due = "answer"  -> "reply"
    [] due = "execute" -> "none"
    [] OTHER           -> due

PollExecute ==
  /\ pollPc = "dispatch" /\ "EXECUTE" \in EventsRead(pollGot)
  /\ buf' \in {f \in Contents : f.addr = buf.addr}
  /\ due' = DueAfterExecute
  /\ pollPc' = IF IsAnswered(rcvAddr) THEN "send" ELSE "get"
  /\ UNCHANGED <<evs, pollGot, rcv, snd, pos, sndCount, timerOn, rxOn, txEvt,
                 transPc, failed, stackVars>>

(* eMBRTUSend: its check of the receiver, the loading of the response, and *)
(* turning the line around.                                                *)
SendCheck ==
  /\ pollPc = "send"
  /\ pollPc' = IF rcv = "IDLE" THEN "load" ELSE "get"
  /\ UNCHANGED <<evs, pollGot, linkVars, historyVars, stackVars>>

SendLoad ==
  /\ pollPc = "load"
  /\ buf' \in {f \in Contents : f.addr = Address}
  /\ sndCount' = SndBytes
  /\ snd' = "XMIT"
  /\ pollPc' = "turn"
  /\ UNCHANGED <<evs, pollGot, rcv, pos, timerOn, rxOn, txEvt, transPc,
                 historyVars, stackVars>>

SendTurnAround ==
  /\ pollPc = "turn"
  /\ vMBPortSerialEnable(FALSE, TRUE)
  /\ pollPc' = "get"
  /\ UNCHANGED <<evs, pollGot, rcv, snd, pos, buf, sndCount, timerOn, transPc,
                 historyVars, stackVars>>

PollStep ==
  /\ SchedulerLocked => PollLocks
  /\ \/ eMBRTUStart \/ StartListening \/ Enabled
     \/ PollGet \/ PollNothing \/ PollReceive \/ PollExecute
     \/ SendCheck \/ SendLoad \/ SendTurnAround

-----------------------------------------------------------------------------
(* The interrupts. *)
ByteArrives ==
  /\ InterruptsMayRun
  /\ ReceiveByte
  /\ UNCHANGED stackVars

TimerTick ==
  /\ InterruptsMayRun
  /\ T35Expired
  /\ UNCHANGED stackVars

(* eMBDisable and eMBEnable, called by another thread.  They change        *)
(* eMBState after the link, and after leaving its critical section.        *)
eMBRTUStop ==
  /\ ctlPc = "run" /\ mbState = "ENABLED"
  /\ vMBPortSerialEnable(FALSE, FALSE)
  /\ vMBPortTimersDisable
  /\ ctlPc' = "stopping"
  /\ UNCHANGED <<portVars, rcv, snd, pos, buf, sndCount, transPc, historyVars,
                 mbState, rcvAddr>>

Disabled ==
  /\ ctlPc = "stopping"
  /\ mbState' = "DISABLED"
  /\ ctlPc' = "stopped"
  /\ UNCHANGED <<portVars, linkVars, historyVars, rcvAddr>>

Restart ==
  /\ ctlPc = "stopped"
  /\ rcv' = "INIT"
  /\ ctlPc' = "arming"
  /\ UNCHANGED <<portVars, snd, pos, buf, sndCount, timerOn, rxOn, txEvt,
                 transPc, historyVars, mbState, rcvAddr>>

\* faulty variant: the timer is not started
RestartUntimed ==
  /\ ctlPc = "arming"
  /\ vMBPortSerialEnable(TRUE, FALSE)
  /\ ctlPc' = "starting"
  /\ UNCHANGED <<portVars, rcv, snd, pos, buf, sndCount, timerOn, transPc,
                 historyVars, mbState, rcvAddr>>

RestartListening ==
  /\ ctlPc = "arming"
  /\ vMBPortSerialEnable(TRUE, FALSE)
  /\ vMBPortTimersEnable
  /\ ctlPc' = "starting"
  /\ UNCHANGED <<portVars, rcv, snd, pos, buf, sndCount, transPc, historyVars,
                 mbState, rcvAddr>>

Restarted ==
  /\ ctlPc = "starting"
  /\ mbState' = "ENABLED"
  /\ ctlPc' = "run"
  /\ UNCHANGED <<portVars, linkVars, historyVars, rcvAddr>>

ControlStep ==
  /\ "disable" \in Faults
  /\ SchedulerLocked => ctlPc = "arming"
  /\ eMBRTUStop \/ Disabled \/ Restart \/ RestartListening \/ Restarted

-----------------------------------------------------------------------------
Next == \/ PollStep
        \/ ~SchedulerLocked /\ TransStep /\ UNCHANGED stackVars
        \/ ByteArrives
        \/ TimerTick
        \/ ControlStep

Spec == Init /\ [][Next]_vars

(* A ready thread runs, in turn with the others of its priority, and a     *)
(* timer that stays armed expires.  No master has to speak, and nobody has *)
(* to enable a disabled stack.                                             *)
Fairness ==
  /\ WF_vars(PollStep)
  /\ WF_vars(~SchedulerLocked /\ TransStep /\ UNCHANGED stackVars)
  /\ WF_vars(TimerTick)
  /\ WF_vars(CtlReady /\ ControlStep)

FairSpec == Spec /\ Fairness

-----------------------------------------------------------------------------
(* The poll thread never gets two events at once, which it would lose.     *)
NoMergedEvents ==
  pollPc = "dispatch" => \E e \in Events : pollGot = {e}

(* The state machines of the link never meet the states their assertions   *)
(* exclude.                                                                *)
StateAssertionsHold == failed \subseteq {"length"}

(* A handler only runs for a frame that came whole and was meant for this  *)
(* slave or for all, and once for each such frame.                         *)
ExecutesEachRequestOnce ==
  pollPc = "dispatch" /\ pollGot = {"EXECUTE"} =>
    due = (IF rcvAddr = Broadcast THEN "execute" ELSE "answer")

(* What is sent is the response to the last frame on the bus: one that was *)
(* intact, for this slave alone and has not been answered, with no other   *)
(* frame begun since.                                                      *)
SendsOnlyWhenDue == pollPc = "load" => due = "reply"

(* When all threads of an enabled slave sleep it listens, and has executed *)
(* and answered the last frame it heard.                                   *)
ServedAndListening ==
  AtRest /\ pollPc = "waiting" /\ ctlPc = "run" =>
    rxOn /\ snd = "IDLE" /\ due = "none"

(* The response does not change while it is shifted out of the buffer it   *)
(* shares with the receiver.                                               *)
ResponseStable == [][snd = "XMIT" => UNCHANGED buf]_vars

(* A receiver that is not idle has its timer running, so it never sticks   *)
(* in the middle of a frame.                                               *)
ReceiverTimed ==
  pollPc \notin {"start", "arm"} /\ ctlPc = "run" /\ rcv # "IDLE" => timerOn

(* A slave never stays deaf: while its stack is enabled and every thread   *)
(* sleeps, the receive interrupt is on.                                    *)
ListensAtRest ==
  AtRest /\ pollPc = "waiting" /\ ctlPc = "run" => rxOn

(* A frame that asks this slave for an answer is answered.                 *)
RequestsAnswered == due = "answer" ~> due = "none"
=============================================================================
