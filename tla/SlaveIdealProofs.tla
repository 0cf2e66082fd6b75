-------------------------- MODULE SlaveIdealProofs --------------------------
(***************************************************************************)
(* The slave on an ideal bus, on which no interrupt outruns a thread that  *)
(* is ready and nobody disables the stack: the phases of an exchange form  *)
(* an inductive invariant, for every address, every buffer size and every  *)
(* content of the bus.                                                     *)
(***************************************************************************)
EXTENDS SlaveProofs

LinkIdle == rcv = "IDLE" /\ ~timerOn

(* The transmitter rests and the receiver listens.                         *)
Quiet == transPc = "wait" /\ ~txEvt /\ snd = "IDLE" /\ rxOn

Booting ==
  /\ Quiet /\ evs = {} /\ due = "none" /\ rcv = "INIT"
  /\ pollPc \in {"start", "arm", "enabled"}
  /\ pollPc = "enabled" => timerOn

(* Nothing is due, and the receiver idles or has its timer running.        *)
Waiting ==
  /\ Quiet /\ evs = {} /\ due = "none"
  /\ pollPc \in {"get", "waiting"}
  /\ LinkIdle \/ (rcv # "IDLE" /\ timerOn)

Ready ==
  /\ Quiet /\ LinkIdle /\ evs = {} /\ due = "none"
  /\ pollPc = "dispatch" /\ pollGot = {"READY"}

Heard ==
  /\ Quiet /\ LinkIdle /\ evs = {} /\ due = DueForFrame
  /\ pollPc = "dispatch" /\ pollGot = {"FRAME_RECEIVED"}

Accepted ==
  /\ Quiet /\ LinkIdle
  /\ due = (IF rcvAddr = Broadcast THEN "execute" ELSE "answer")
  /\ \/ pollPc = "get" /\ evs = {"EXECUTE"}
     \/ pollPc = "dispatch" /\ pollGot = {"EXECUTE"} /\ evs = {}

Executed ==
  /\ Quiet /\ LinkIdle /\ evs = {} /\ due = "reply"
  /\ pollPc \in {"send", "load"}

Loaded ==
  /\ LinkIdle /\ evs = {} /\ due = "reply" /\ snd = "XMIT"
  /\ transPc = "wait" /\ ~txEvt
  /\ pollPc = "turn"

Sending ==
  /\ LinkIdle /\ evs = {} /\ due = "reply" /\ snd = "XMIT"
  /\ transPc = "wait" /\ txEvt
  /\ pollPc \in {"get", "waiting"}

(* EV_FRAME_SENT is pending, being handled, or was handled.                *)
ToldSent ==
  \/ pollPc = "get" /\ evs \in {{}, {"FRAME_SENT"}}
  \/ pollPc = "dispatch" /\ pollGot = {"FRAME_SENT"} /\ evs = {}
  \/ pollPc = "waiting" /\ evs = {}

Finishing ==
  /\ LinkIdle /\ due = "none" /\ snd = "XMIT" /\ ToldSent
  /\ transPc \in {"sent", "sentRx", "sentTx"}
  /\ transPc # "sent" => rxOn
  /\ transPc = "sentTx" => ~txEvt

Finished == Quiet /\ LinkIdle /\ due = "none" /\ ToldSent

(* No fault: nobody disables the stack, and no assertion fails but the one *)
(* on the length of a frame.                                               *)
Undisturbed ==
  /\ ctlPc = "run"
  /\ failed \subseteq {"length"}
  /\ mbState = "DISABLED" => pollPc \in {"start", "arm", "enabled"}

Exchange ==
  \/ Booting \/ Waiting \/ Ready \/ Heard \/ Accepted \/ Executed
  \/ Loaded \/ Sending \/ Finishing \/ Finished

IdealInv == Undisturbed /\ Exchange

-----------------------------------------------------------------------------
(* Every step of the poll thread leads from a phase to the next.           *)
LEMMA PollExchange ==
  ASSUME IdealInv, PollStep
  PROVE  Exchange'
<1> USE DEF IdealInv, Booting, Waiting, Ready, Heard, Accepted, Executed,
            Loaded, Sending, Finishing, Finished, ToldSent, Quiet, LinkIdle,
            linkVars, historyVars
<1>1. CASE eMBRTUStart
  <2>1. Booting'
    BY <1>1 DEF Exchange, eMBRTUStart
  <2>2. QED
    BY <2>1 DEF Exchange
<1>2. CASE StartListening
  <2>1. Booting'
    BY <1>2 DEF Exchange, StartListening, vMBPortSerialEnable,
       vMBPortTimersEnable
  <2>2. QED
    BY <2>1 DEF Exchange
<1>3. CASE Enabled
  <2>1. Waiting'
    BY <1>3 DEF Exchange, Enabled
  <2>2. QED
    BY <2>1 DEF Exchange
<1>4. CASE PollGet
  <2> USE <1>4 DEF PollGet, xMBPortEventGet
  <2>1. CASE Waiting
    BY <2>1 DEF Exchange
  <2>2. CASE Accepted
    <3>1. Accepted'
      BY <2>2 DEF stackVars
    <3>2. QED
      BY <3>1 DEF Exchange
  <2>3. CASE Sending
    BY <2>3 DEF Exchange
  <2>4. CASE Finishing
    <3>1. Finishing'
      BY <2>4
    <3>2. QED
      BY <3>1 DEF Exchange
  <2>5. CASE Finished
    <3>1. Finished'
      BY <2>5
    <3>2. QED
      BY <3>1 DEF Exchange
  <2>6. QED
    BY <2>1, <2>2, <2>3, <2>4, <2>5 DEF Exchange
<1>5. CASE PollNothing
  <2> USE <1>5, EachEvent DEF PollNothing
  <2>1. CASE Ready
    <3>1. Waiting'
      BY <2>1
    <3>2. QED
      BY <3>1 DEF Exchange
  <2>2. CASE Finishing
    <3>1. Finishing'
      BY <2>2
    <3>2. QED
      BY <3>1 DEF Exchange
  <2>3. CASE Finished
    <3>1. Finished'
      BY <2>3
    <3>2. QED
      BY <3>1 DEF Exchange
  <2>4. Ready \/ Finishing \/ Finished
    <3>1. ~Heard /\ ~Accepted
      BY EachEvent
    <3>2. QED
      BY <3>1 DEF Exchange
  <2>5. QED
    BY <2>1, <2>2, <2>3, <2>4
<1>6. CASE PollReceive
  <2> USE <1>6 DEF PollReceive
  <2>1. Heard
    <3>1. ~Ready /\ ~Accepted /\ ~Finishing /\ ~Finished
      BY EachEvent
    <3>2. QED
      BY <3>1 DEF Exchange
  <2>2. CASE FrameIntact /\ ForThisSlave(buf.addr)
    <3>1. due = (IF buf.addr = Broadcast THEN "execute" ELSE "answer")
      BY <2>1, <2>2, SlaveAssumption DEF DueForFrame, ForThisSlave
    <3>2. Accepted'
      BY <2>1, <2>2, <3>1 DEF PostToSelf
    <3>3. QED
      BY <3>2 DEF Exchange
  <2>3. CASE ~(FrameIntact /\ ForThisSlave(buf.addr))
    <3>1. due = "none"
      BY <2>1, <2>3 DEF DueForFrame, ForThisSlave
    <3>2. Waiting'
      BY <2>1, <2>3, <3>1
    <3>3. QED
      BY <3>2 DEF Exchange
  <2>4. QED
    BY <2>2, <2>3
<1>7. CASE PollExecute
  <2> USE <1>7 DEF PollExecute
  <2>1. Accepted /\ pollPc = "dispatch"
    <3>1. ~Ready /\ ~Heard /\ ~Finishing /\ ~Finished
      BY EachEvent
    <3>2. QED
      BY <3>1 DEF Exchange
  <2>2. CASE rcvAddr = Broadcast
    <3>1. Waiting'
      BY <2>1, <2>2 DEF DueAfterExecute, IsAnswered
    <3>2. QED
      BY <3>1 DEF Exchange
  <2>3. CASE rcvAddr # Broadcast
    <3>1. Executed'
      BY <2>1, <2>3 DEF DueAfterExecute, IsAnswered
    <3>2. QED
      BY <3>1 DEF Exchange
  <2>4. QED
    BY <2>2, <2>3
<1>8. CASE SendCheck
  <2>1. Executed'
    BY <1>8 DEF Exchange, SendCheck
  <2>2. QED
    BY <2>1 DEF Exchange
<1>9. CASE SendLoad
  <2>1. Loaded'
    BY <1>9 DEF Exchange, SendLoad
  <2>2. QED
    BY <2>1 DEF Exchange
<1>10. CASE SendTurnAround
  <2>1. Sending'
    BY <1>10 DEF Exchange, SendTurnAround, vMBPortSerialEnable
  <2>2. QED
    BY <2>1 DEF Exchange
<1>11. QED
  BY <1>1, <1>2, <1>3, <1>4, <1>5, <1>6, <1>7, <1>8, <1>9, <1>10
  DEF PollStep

LEMMA PollUndisturbed ==
  ASSUME IdealInv, PollStep
  PROVE  Undisturbed'
<1> USE DEF IdealInv, Undisturbed, PollStep, eMBRTUStart, StartListening,
            Enabled, PollGet, PollNothing, PollReceive, PollExecute,
            SendCheck, SendLoad, SendTurnAround, stackVars
<1>1. ctlPc' = "run"
  OBVIOUS
<1>2. failed' \subseteq {"length"}
  BY DEF Assert, historyVars
<1>3. mbState' = "DISABLED" => pollPc' \in {"start", "arm", "enabled"}
  OBVIOUS
<1>4. QED
  BY <1>1, <1>2, <1>3

-----------------------------------------------------------------------------
(* The transmit thread only has work once a response is loaded.            *)
LEMMA TransIdeal ==
  ASSUME IdealInv, TransStep, UNCHANGED stackVars
  PROVE  IdealInv'
<1> USE DEF IdealInv, Booting, Waiting, Ready, Heard, Accepted, Executed,
            Loaded, Sending, Finishing, Finished, ToldSent, Quiet, LinkIdle
<1>1. CASE TransmitFSM
  <2> USE <1>1 DEF TransmitFSM
  <2>1. Sending
    BY DEF Exchange
  <2>2. Undisturbed'
    BY <2>1 DEF Undisturbed, Assert, stackVars, TransmitterIdle, Post,
       TransmitterPutByte, TransmitterDone, portVars, xMBPortEventPost
  <2>3. CASE TransmitterPutByte
    <3>1. Sending'
      BY <2>1, <2>3 DEF TransmitterPutByte, portVars
    <3>2. QED
      BY <2>2, <3>1 DEF Exchange
  <2>4. CASE TransmitterDone
    <3>1. Finishing'
      BY <2>1, <2>4 DEF TransmitterDone, xMBPortEventPost, Post
    <3>2. QED
      BY <2>2, <3>1 DEF Exchange
  <2>5. QED
    BY <2>1, <2>3, <2>4 DEF TransmitterIdle
<1>2. CASE TransmitEnableReceiver \/ TransmitClearEvent
  <2> USE <1>2 DEF TransmitEnableReceiver, TransmitClearEvent, portVars,
                   historyVars
  <2>1. Finishing
    BY DEF Exchange
  <2>2. Undisturbed'
    BY DEF Undisturbed, stackVars
  <2>3. Finishing'
    BY <2>1
  <2>4. QED
    BY <2>2, <2>3 DEF Exchange
<1>3. CASE TransmitFinished
  <2> USE <1>3 DEF TransmitFinished, portVars, historyVars
  <2>1. Finishing
    BY DEF Exchange
  <2>2. Undisturbed'
    BY DEF Undisturbed, stackVars
  <2>3. Finished'
    BY <2>1
  <2>4. QED
    BY <2>2, <2>3 DEF Exchange
<1>4. QED
  BY <1>1, <1>2, <1>3 DEF TransStep

(* An interrupt only comes when all threads sleep, and nothing is due.     *)
LEMMA AtRestPhase ==
  ASSUME IdealInv, AtRest
  PROVE  /\ pollPc = "waiting" /\ Quiet /\ evs = {} /\ due = "none"
         /\ LinkIdle \/ (rcv # "IDLE" /\ timerOn)
<1>1. pollPc = "waiting"
  BY DEF IdealInv, Undisturbed, AtRest, PollReady
<1>2. Waiting \/ Finished
  BY <1>1 DEF IdealInv, Exchange, AtRest, TransReady, Booting, Ready, Heard,
     Accepted, Executed, Loaded, Sending, Finishing
<1>3. QED
  BY <1>1, <1>2 DEF Waiting, Finished, ToldSent

LEMMA ByteIdeal ==
  ASSUME Faults = {}, IdealInv, ByteArrives
  PROVE  IdealInv'
<1>1. AtRest
  BY DEF ByteArrives, InterruptsMayRun
<1>2. Waiting'
  BY <1>1, AtRestPhase DEF ByteArrives, ReceiveByte, ReceiverSkips,
     ReceiverBegins, ReceiverAppends, ReceiverOverflows, Waiting, Quiet,
     vMBPortTimersEnable, portVars
<1>3. Undisturbed'
  BY <1>1, AtRestPhase DEF IdealInv, Undisturbed, ByteArrives, ReceiveByte,
     Assert, Quiet, portVars, stackVars
<1>4. QED
  BY <1>2, <1>3 DEF IdealInv, Exchange

LEMMA TickIdeal ==
  ASSUME Faults = {}, IdealInv, TimerTick
  PROVE  IdealInv'
<1> USE DEF TimerTick, T35Expired
<1>1. AtRest
  BY DEF InterruptsMayRun
<1>2. rcv # "IDLE"
  BY <1>1, AtRestPhase DEF LinkIdle
<1>3. Undisturbed'
  BY <1>1, <1>2, AtRestPhase DEF IdealInv, Undisturbed, Assert, Post,
     stackVars
<1>4. Quiet' /\ LinkIdle' /\ evs' = {}
  BY <1>1, AtRestPhase DEF Quiet, LinkIdle, Post, T35ReceiverRests,
     vMBPortTimersDisable
<1>5. CASE rcv = "INIT"
  <2>1. Ready'
    BY <1>1, <1>4, <1>5, AtRestPhase DEF Ready, Post, ExpiryEvent
  <2>2. QED
    BY <1>3, <2>1 DEF IdealInv, Exchange
<1>6. CASE rcv = "RCV"
  <2>1. due' = DueForFrame'
    BY <1>6 DEF DueForFrame, FrameIntact
  <2>2. Heard'
    BY <1>1, <1>4, <1>6, <2>1, AtRestPhase DEF Heard, Post, ExpiryEvent
  <2>3. QED
    BY <1>3, <2>2 DEF IdealInv, Exchange
<1>7. CASE rcv \notin {"INIT", "RCV"}
  <2>1. Waiting'
    BY <1>1, <1>4, <1>7, AtRestPhase DEF Waiting, Post, ExpiryEvent
  <2>2. QED
    BY <1>3, <2>1 DEF IdealInv, Exchange
<1>8. QED
  BY <1>5, <1>6, <1>7

-----------------------------------------------------------------------------
LEMMA InitIdeal == Init => IdealInv
BY DEF Init, LinkInit, IdealInv, Undisturbed, Exchange, Booting, Quiet

LEMMA NextIdeal ==
  ASSUME Faults = {}, IdealInv, [Next]_vars
  PROVE  IdealInv'
<1>1. CASE UNCHANGED vars
  <2>1. UNCHANGED <<portVars, linkVars, historyVars, stackVars>>
    BY <1>1 DEF vars
  <2>2. Undisturbed'
    BY <2>1 DEF IdealInv, Undisturbed, portVars, historyVars, stackVars
  <2>3. Exchange'
    BY <2>1 DEF IdealInv, Exchange, Booting, Waiting, Ready, Heard, Accepted,
       Executed, Loaded, Sending, Finishing, Finished, ToldSent, Quiet,
       LinkIdle, DueForFrame, FrameIntact, portVars, linkVars, historyVars,
       stackVars
  <2>4. QED
    BY <2>2, <2>3 DEF IdealInv
<1>2. CASE PollStep
  BY <1>2, PollExchange, PollUndisturbed DEF IdealInv
<1>3. CASE TransStep /\ UNCHANGED stackVars
  BY <1>3, TransIdeal
<1>4. CASE ByteArrives \/ TimerTick
  BY <1>4, ByteIdeal, TickIdeal
<1>5. CASE ControlStep
  BY <1>5 DEF ControlStep
<1>6. QED
  BY <1>1, <1>2, <1>3, <1>4, <1>5 DEF Next

LEMMA IdealInvariant == Faults = {} => (Spec => []IdealInv)
<1> SUFFICES ASSUME Faults = {} PROVE Spec => []IdealInv
  OBVIOUS
<1>1. Init => IdealInv
  BY InitIdeal
<1>2. IdealInv /\ [Next]_vars => IdealInv'
  BY NextIdeal
<1>3. QED
  BY <1>1, <1>2, PTL DEF Spec

-----------------------------------------------------------------------------
(* On an ideal bus the poll thread never gets two events at once.          *)
THEOREM EventsNeverMerge == Faults = {} => (Spec => []NoMergedEvents)
<1> SUFFICES ASSUME Faults = {} PROVE Spec => []NoMergedEvents
  OBVIOUS
<1>1. IdealInv => NoMergedEvents
  BY DEF IdealInv, Exchange, Booting, Waiting, Ready, Heard, Accepted,
     Executed, Loaded, Sending, Finishing, Finished, ToldSent, Events,
     NoMergedEvents
<1>2. QED
  BY <1>1, IdealInvariant, PTL

(* On an ideal bus no assertion of the link fails but the one on lengths.  *)
THEOREM AssertionsHold == Faults = {} => (Spec => []StateAssertionsHold)
<1> SUFFICES ASSUME Faults = {} PROVE Spec => []StateAssertionsHold
  OBVIOUS
<1>1. IdealInv => StateAssertionsHold
  BY DEF IdealInv, Undisturbed, StateAssertionsHold
<1>2. QED
  BY <1>1, IdealInvariant, PTL

(* On an ideal bus a handler runs once for each intact frame for this      *)
(* slave or for all, and for no other.                                     *)
THEOREM EachRequestExecutedOnce ==
  Faults = {} => (Spec => []ExecutesEachRequestOnce)
<1> SUFFICES ASSUME Faults = {} PROVE Spec => []ExecutesEachRequestOnce
  OBVIOUS
<1>1. IdealInv => ExecutesEachRequestOnce
  BY DEF IdealInv, Exchange, Booting, Waiting, Ready, Heard, Accepted,
     Executed, Loaded, Sending, Finishing, Finished, ToldSent,
     ExecutesEachRequestOnce
<1>2. QED
  BY <1>1, IdealInvariant, PTL

(* On an ideal bus a slave whose threads all sleep listens, and owes       *)
(* nothing.                                                                *)
THEOREM ServedAtRest == Faults = {} => (Spec => []ServedAndListening)
<1> SUFFICES ASSUME Faults = {} PROVE Spec => []ServedAndListening
  OBVIOUS
<1>1. IdealInv => ServedAndListening
  BY AtRestPhase DEF ServedAndListening, Quiet
<1>2. QED
  BY <1>1, IdealInvariant, PTL

(* On an ideal bus the response does not change while it is sent, although *)
(* it lies in the buffer the receiver and the handlers write.              *)
THEOREM ResponseStays == Faults = {} => (Spec => ResponseStable)
<1> SUFFICES ASSUME Faults = {} PROVE Spec => ResponseStable
  OBVIOUS
<1>1. IdealInv /\ [Next]_vars => [snd = "XMIT" => UNCHANGED buf]_vars
  <2> SUFFICES ASSUME IdealInv, Next, snd = "XMIT"
               PROVE  UNCHANGED buf
    OBVIOUS
  <2>1. Loaded \/ Sending \/ Finishing
    BY DEF IdealInv, Exchange, Booting, Waiting, Ready, Heard, Accepted,
       Executed, Finished, Quiet
  <2>2. CASE PollStep
    <3>1. ~PollExecute
      BY <2>1, EachEvent DEF Loaded, Sending, Finishing, ToldSent, PollExecute
    <3>2. ~SendLoad
      BY <2>1 DEF Loaded, Sending, Finishing, ToldSent, SendLoad
    <3>3. QED
      BY <2>2, <3>1, <3>2 DEF PollStep, eMBRTUStart, StartListening, Enabled,
         PollGet, PollNothing, PollReceive, SendCheck, SendTurnAround,
         linkVars
  <2>3. CASE TransStep
    BY <2>3 DEF TransStep, TransmitFSM, TransmitEnableReceiver,
       TransmitClearEvent, TransmitFinished
  <2>4. CASE ByteArrives \/ TimerTick
    <3>1. AtRest
      BY <2>4 DEF ByteArrives, TimerTick, InterruptsMayRun
    <3>2. QED
      BY <3>1, AtRestPhase DEF Quiet
  <2>5. CASE ControlStep
    BY <2>5 DEF ControlStep
  <2>6. QED
    BY <2>2, <2>3, <2>4, <2>5 DEF Next
<1>2. QED
  BY <1>1, IdealInvariant, PTL DEF Spec, ResponseStable
=============================================================================
