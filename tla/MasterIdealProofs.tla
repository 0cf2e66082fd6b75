-------------------------- MODULE MasterIdealProofs --------------------------
(***************************************************************************)
(* The master on an ideal bus, on which no interrupt outruns a thread that *)
(* is ready, a slave answers once and in time if it answers at all, and    *)
(* nobody disables the stack: the phases of a request form an inductive    *)
(* invariant, for every number of requesters, every assignment of          *)
(* priorities, every buffer size and every content of the answers.         *)
(***************************************************************************)
EXTENDS MasterRefinement, MasterStackProofs

Ends == {"ok", "timeout", "garbled", "exception"}

(* The bit of the event object that tells a requester of an end.           *)
BitOf == [ok |-> "PROCESS_SUCCESS", timeout |-> "RESPOND_TIMEOUT",
          garbled |-> "RECEIVE_DATA", exception |-> "EXECUTE_FUNCTION"]

-----------------------------------------------------------------------------
(* Places of the poll thread and of the link.                              *)
PollRests == pollPc \in {"get", "waiting"} /\ evPoll = {}

Handles(e) == pollPc = "dispatch" /\ pollGot = {e} /\ evPoll = {}

WillHandle(e) == (pollPc = "get" /\ evPoll = {e}) \/ Handles(e)

TransRests == transPc = "wait" /\ ~txEvt

Listening == TransRests /\ rxOn /\ snd = "IDLE"

Quiet == Listening /\ rcv = "IDLE" /\ ~timerOn

-----------------------------------------------------------------------------
(* The phases before the stack is established.                             *)
Booting ==
  /\ mbState = "DISABLED" /\ Listening /\ rcv = "INIT" /\ evPoll = {}
  /\ \/ pollPc = "start"
     \/ pollPc = "enabled" /\ timerOn /\ timerMode = "T35"

Settling ==
  /\ mbState = "ENABLED" /\ Listening /\ rcv = "INIT" /\ PollRests
  /\ timerOn /\ timerMode = "T35"

Announced == mbState = "ENABLED" /\ Quiet /\ Handles("READY")

NobodyAsks == sem = 1 /\ \A b \in Apps : appPc[b] = "idle"

(* Nobody uses the master. *)
NoRequester == \A b \in Apps : appPc[b] \notin InRequest

Free ==
  /\ Quiet /\ PollRests /\ sem = 1 /\ NoRequester
  /\ \A b \in Apps : appPc[b] # "blocked"

Releasing ==
  /\ Quiet /\ pollPc = "release" /\ evPoll = {} /\ sem = 0 /\ NoRequester

-----------------------------------------------------------------------------
(* The phases of the request of a.  It holds the master alone.             *)
Holds(a) ==
  /\ sem = 0 /\ appPc[a] \in InRequest
  /\ \A b \in Apps : b # a => appPc[b] \notin InRequest

Asking(a) ==
  /\ Quiet /\ PollRests
  /\ appPc[a] \in {"dest", "fill", "post"}
  /\ appPc[a] = "post" => sndBuf.by = a

(* It has filled the send buffer, and its frame has come as far as f.      *)
Waits(a, f) ==
  appPc[a] \in {"recv", "wait"} /\ sndBuf.by = a /\ fate[a] = f

Posted(a) == Quiet /\ WillHandle("FRAME_SENT") /\ Waits(a, "unsent")

Loading(a) ==
  /\ Quiet /\ pollPc = "load" /\ evPoll = {} /\ frame = "snd"
  /\ Waits(a, "unsent")

LinkSends ==
  rcv = "IDLE" /\ ~timerOn /\ frame = "snd" /\ snd = "XMIT"
  /\ transPc = "wait" /\ sndAddr = dest

Loaded(a) ==
  /\ LinkSends /\ ~txEvt /\ pollPc = "send" /\ evPoll = {}
  /\ wireBy = a /\ Waits(a, "unsent")

Sending(a) ==
  LinkSends /\ txEvt /\ PollRests /\ wireBy = a /\ Waits(a, "unsent")

(* A frame is on the wire: it asks no slave if it went to all of them.     *)
OnWire(a) ==
  /\ wireBy = a /\ Waits(a, "sent")
  /\ broadcast <=> dest = 0
  /\ broadcast => ~owed

Ending(a) ==
  /\ OnWire(a) /\ PollRests /\ rcv = "IDLE" /\ ~timerOn /\ frame = "snd"
  /\ \/ snd = "XMIT" /\ transPc = "rxon"
     \/ snd = "XMIT" /\ transPc = "txoff" /\ rxOn
     \/ snd = "XMIT" /\ transPc = "xfwr" /\ rxOn /\ ~txEvt
     \/ snd = "XFWR" /\ transPc = "arm" /\ rxOn /\ ~txEvt

Awaiting(a) ==
  /\ OnWire(a) /\ PollRests /\ rcv = "IDLE" /\ timerOn /\ frame = "snd"
  /\ snd = "XFWR" /\ TransRests /\ rxOn
  /\ timerMode = IF broadcast THEN "CONVERT_DELAY" ELSE "RESPOND_TIMEOUT"

Hearing(a) ==
  /\ OnWire(a) /\ PollRests /\ rcv \in {"RCV", "ERROR"} /\ Listening
  /\ timerOn /\ timerMode = "T35" /\ ~broadcast

(* The thread sleeps, and the link is quiet.                               *)
Sleeps(a) == Quiet /\ appPc[a] = "wait" /\ wireBy = a

Received(a) ==
  /\ Sleeps(a) /\ Handles("FRAME_RECEIVED") /\ fate[a] = "sent"
  /\ dest # 0 /\ ~broadcast

FrameChecked ==
  /\ frame = "rcv" /\ pos >= PduSizeMin /\ rcvBuf.crc /\ dest # 0
  /\ ~broadcast

Judging(a) ==
  /\ Sleeps(a) /\ evPoll = {} /\ fate[a] = "sent"
  /\ \/ pollPc = "reject"
     \/ pollPc = "check" /\ FrameChecked /\ rcvAddr = rcvBuf.addr

Executable(a) ==
  /\ Sleeps(a) /\ WillHandle("EXECUTE") /\ fate[a] = "sent"
  /\ \/ FrameChecked /\ rcvBuf.addr = dest
     \/ frame = "snd" /\ broadcast

Executed(a) ==
  Sleeps(a) /\ pollPc = "succeed" /\ evPoll = {} /\ fate[a] = "ok"

Erring(a) ==
  /\ Sleeps(a) /\ WillHandle("ERROR_PROCESS")
  /\ fate[a] \in Ends /\ errType = BitOf[fate[a]]

-----------------------------------------------------------------------------
InRequestOf(a) ==
  \/ Asking(a) \/ Posted(a) \/ Loading(a) \/ Loaded(a) \/ Sending(a)
  \/ Ending(a) \/ Awaiting(a) \/ Hearing(a) \/ Received(a) \/ Judging(a)
  \/ Executable(a) \/ Executed(a) \/ Erring(a)

Starting == NobodyAsks /\ (Booting \/ Settling \/ Announced)

Serving ==
  /\ mbState = "ESTABLISHED"
  /\ Free \/ Releasing \/ \E a \in Apps : Holds(a) /\ InRequestOf(a)

(* What is true of every requester, whoever holds the master.              *)
Caller(b) ==
  /\ appPc[b] \notin {"recv", "wait", "woken"} => fate[b] = "unsent"
  /\ appPc[b] = "woken" => fate[b] \in Ends /\ appGot[b] = {BitOf[fate[b]]}

Undisturbed == ctlPc = "run" /\ failed \subseteq {"length"} /\ evApp = {}

IdealInv ==
  /\ Undisturbed
  /\ \A b \in Apps : Caller(b)
  /\ Starting \/ Serving
-----------------------------------------------------------------------------
(* A single event is read as what it is. *)
LEMMA SingleEvent ==
  ASSUME NEW e PROVE EventsRead({e}) = {e}
BY FS_Singleton DEF EventsRead

LEMMA Functions ==
  ASSUME TypeOK
  PROVE  /\ appPc \in [Apps -> AppPcs]
         /\ appGot \in [Apps -> SUBSET AppEvents]
         /\ fate \in [Apps -> Fates]
         /\ sem \in Nat
<1>1. sem \in Nat
  BY AppsAssumption DEF TypeOK, PortTypeOK, RequesterTypeOK
<1>2. QED
  BY <1>1 DEF TypeOK, PortTypeOK, RequesterTypeOK, LinkTypeOK, HistoryTypeOK

(* A requester moves within its request, and still holds the master alone. *)
LEMMA HolderMoves ==
  ASSUME TypeOK, NEW a \in Apps, Holds(a), NEW pc \in InRequest,
         appPc' = [appPc EXCEPT ![a] = pc], sem' = sem
  PROVE  Holds(a)' /\ appPc'[a] = pc
BY Functions DEF Holds

(* A requester that does not hold the master moves outside.                *)
LEMMA HolderStays ==
  ASSUME TypeOK, NEW a \in Apps, Holds(a), NEW b \in Apps,
         appPc[b] \notin InRequest, NEW pc, pc \notin InRequest,
         appPc' = [appPc EXCEPT ![b] = pc], sem' = sem
  PROVE  Holds(a)' /\ appPc'[a] = appPc[a]
BY Functions DEF Holds

(* Of two that use the master, both are the one that holds it.             *)
LEMMA SoleHolder ==
  ASSUME NEW a \in Apps, Holds(a), NEW b \in Apps, appPc[b] \in InRequest
  PROVE  b = a
BY DEF Holds

(* A requester that is not woken moves, and its frame stays where it is.   *)
LEMMA CallersMove ==
  ASSUME TypeOK, \A b \in Apps : Caller(b), NEW a \in Apps, NEW pc,
         pc # "woken", pc \in {"recv", "wait"} \/ fate[a] = "unsent",
         appPc' = [appPc EXCEPT ![a] = pc], UNCHANGED <<appGot, fate>>
  PROVE  \A b \in Apps : Caller(b)'
<1> SUFFICES ASSUME NEW b \in Apps PROVE Caller(b)'
  OBVIOUS
<1>1. CASE b = a
  BY <1>1, Functions DEF Caller
<1>2. CASE b # a
  BY <1>2, Functions DEF Caller
<1>3. QED
  BY <1>1, <1>2

LEMMA CallersStay ==
  ASSUME \A b \in Apps : Caller(b), UNCHANGED <<appPc, appGot, fate>>
  PROVE  \A b \in Apps : Caller(b)'
BY DEF Caller

(* The frame of the holder of the master comes to an end, or is sent.      *)
LEMMA CallersSettle ==
  ASSUME TypeOK, \A b \in Apps : Caller(b), NEW a \in Apps, NEW f \in Fates,
         appPc[a] \in {"recv", "wait"}, fate' = [fate EXCEPT ![a] = f],
         UNCHANGED <<appPc, appGot>>
  PROVE  (\A b \in Apps : Caller(b)') /\ fate'[a] = f
<1>1. fate'[a] = f
  BY Functions
<1>2. ASSUME NEW b \in Apps PROVE Caller(b)'
  BY Functions DEF Caller
<1>3. QED
  BY <1>1, <1>2

LEMMA SettleHolder ==
  ASSUME NEW a \in Apps, wireBy = a, fate[a] = "sent", NEW o, Settle(o)
  PROVE  fate' = [fate EXCEPT ![a] = o]
BY DEF Settle

(* A handled event is the only one, and is read as what it is.             *)
LEMMA HandlesOne ==
  ASSUME NEW e, NEW f, Handles(e), f \in EventsRead(pollGot)
  PROVE  f = e
BY SingleEvent DEF Handles

-----------------------------------------------------------------------------
(* What each step of the poll thread finds.                                *)
LEMMA WhileDispatching ==
  ASSUME IdealInv, pollPc = "dispatch", NEW e \in EventsRead(pollGot)
  PROVE  \/ Starting /\ Announced /\ e = "READY"
         \/ \E a \in Apps :
              /\ Holds(a) /\ mbState = "ESTABLISHED"
              /\ \/ Posted(a) /\ e = "FRAME_SENT"
                 \/ Received(a) /\ e = "FRAME_RECEIVED"
                 \/ Executable(a) /\ e = "EXECUTE"
                 \/ Erring(a) /\ e = "ERROR_PROCESS"
<1>1. CASE Starting
  <2>1. Announced
    BY <1>1 DEF Starting, Booting, Settling, PollRests
  <2>2. e = "READY"
    BY <2>1, HandlesOne DEF Announced
  <2>3. QED
    BY <1>1, <2>1, <2>2
<1>2. CASE Serving
  <2>1. PICK a \in Apps : Holds(a) /\ InRequestOf(a)
    BY <1>2 DEF Serving, Free, Releasing, PollRests
  <2>2. Posted(a) \/ Received(a) \/ Executable(a) \/ Erring(a)
    BY <2>1 DEF InRequestOf, Asking, Loading, Loaded, Sending, Ending,
       Awaiting, Hearing, Judging, Executed, PollRests
  <2>3. Posted(a) => e = "FRAME_SENT"
    BY HandlesOne DEF Posted, WillHandle
  <2>4. Received(a) => e = "FRAME_RECEIVED"
    BY HandlesOne DEF Received
  <2>5. Executable(a) => e = "EXECUTE"
    BY HandlesOne DEF Executable, WillHandle
  <2>6. Erring(a) => e = "ERROR_PROCESS"
    BY HandlesOne DEF Erring, WillHandle
  <2>7. QED
    BY <1>2, <2>1, <2>2, <2>3, <2>4, <2>5, <2>6 DEF Serving
<1>3. QED
  BY <1>1, <1>2 DEF IdealInv

LEMMA InPhase ==
  ASSUME NEW a \in Apps, Holds(a), InRequestOf(a), mbState = "ESTABLISHED"
  PROVE  Serving
BY DEF Serving

LEMMA WhilePast ==
  ASSUME IdealInv
  PROVE  /\ pollPc = "load" => \E a \in Apps : Holds(a) /\ Loading(a)
         /\ pollPc = "send" => \E a \in Apps : Holds(a) /\ Loaded(a)
         /\ pollPc \in {"check", "reject"} =>
              \E a \in Apps : Holds(a) /\ Judging(a)
         /\ pollPc = "succeed" => \E a \in Apps : Holds(a) /\ Executed(a)
         /\ pollPc = "release" => Releasing
         /\ pollPc \in {"load", "send", "check", "reject", "succeed",
                        "release"} => mbState = "ESTABLISHED"
<1> SUFFICES ASSUME pollPc \in {"load", "send", "check", "reject", "succeed",
                                "release"}
             PROVE  /\ pollPc = "load" => \E a \in Apps : Holds(a) /\ Loading(a)
                    /\ pollPc = "send" => \E a \in Apps : Holds(a) /\ Loaded(a)
                    /\ pollPc \in {"check", "reject"} =>
                         \E a \in Apps : Holds(a) /\ Judging(a)
                    /\ pollPc = "succeed" =>
                         \E a \in Apps : Holds(a) /\ Executed(a)
                    /\ pollPc = "release" => Releasing
                    /\ mbState = "ESTABLISHED"
  OBVIOUS
<1>1. Serving
  BY DEF IdealInv, Starting, Booting, Settling, Announced, PollRests, Handles
<1>2. CASE Releasing
  BY <1>1, <1>2 DEF Serving, Releasing
<1>3. CASE \E a \in Apps : Holds(a) /\ InRequestOf(a)
  <2>1. PICK a \in Apps : Holds(a) /\ InRequestOf(a)
    BY <1>3
  <2>2. \/ Loading(a) \/ Loaded(a) \/ Judging(a) \/ Executed(a)
    BY <2>1 DEF InRequestOf, Asking, Posted, Sending, Ending, Awaiting,
       Hearing, Received, Executable, Erring, PollRests, WillHandle, Handles
  <2>3. QED
    BY <1>1, <2>1, <2>2 DEF Serving, Loading, Loaded, Judging, Executed
<1>4. QED
  BY <1>1, <1>2, <1>3 DEF Serving, Free, PollRests

-----------------------------------------------------------------------------
(* Steps of the poll thread that change nothing but its own place.         *)
LEMMA StartIdeal ==
  ASSUME TypeOK, IdealInv, eMBMasterRTUStart \/ Enabled
  PROVE  IdealInv'
<1>1. Starting /\ Booting
  <2>1. pollPc \in {"start", "enabled"}
    BY DEF eMBMasterRTUStart, Enabled
  <2>2. ~Serving
    BY <2>1 DEF Serving, Free, Releasing, Holds, InRequestOf, Asking, Posted,
       Loading, Loaded, Sending, Ending, Awaiting, Hearing, Received, Judging,
       Executable, Executed, Erring, PollRests, WillHandle, Handles
  <2>3. QED
    BY <2>1, <2>2 DEF IdealInv, Starting, Settling, Announced, PollRests,
       Handles
<1>2. UNCHANGED <<appPc, appGot, sem, evApp, historyVars, ctlPc>>
  BY DEF eMBMasterRTUStart, Enabled, pollVars
<1>3. Undisturbed' /\ \A b \in Apps : Caller(b)'
  BY <1>2, CallersStay DEF IdealInv, Undisturbed, historyVars
<1>4. NobodyAsks'
  BY <1>1, <1>2 DEF Starting, NobodyAsks
<1>5. CASE eMBMasterRTUStart
  <2>1. Booting'
    BY <1>1, <1>5 DEF Booting, Listening, TransRests, eMBMasterRTUStart,
       pollVars, TimerEnable, vMBMasterPortSerialEnable
  <2>2. QED
    BY <1>3, <1>4, <2>1 DEF IdealInv, Starting
<1>6. CASE Enabled
  <2>1. Settling'
    BY <1>1, <1>6 DEF Booting, Settling, Listening, TransRests, PollRests,
       Enabled, linkVars
  <2>2. QED
    BY <1>3, <1>4, <2>1 DEF IdealInv, Starting
<1>7. QED
  BY <1>5, <1>6

LEMMA PollGetIdeal ==
  ASSUME TypeOK, IdealInv, PollGet
  PROVE  IdealInv'
<1> USE DEF PollGet, xMBMasterPortEventGet
<1>1. UNCHANGED <<appPc, appGot, sem, evApp, linkVars, historyVars, pollVars>>
  OBVIOUS
<1>2. Undisturbed' /\ \A b \in Apps : Caller(b)'
  BY <1>1, CallersStay DEF IdealInv, Undisturbed, historyVars, pollVars
<1>3. PollRests => PollRests'
  BY DEF PollRests
<1>4. ASSUME NEW e, WillHandle(e)
      PROVE  WillHandle(e)'
  BY <1>4 DEF WillHandle, Handles
<1>5. UNCHANGED <<Quiet, Listening, TransRests>>
  BY <1>1 DEF Quiet, Listening, TransRests, linkVars
<1>6. CASE Starting
  <2>1. Settling
    BY <1>6 DEF Starting, Booting, Announced, Handles
  <2>2. Settling'
    BY <1>1, <1>3, <1>5, <2>1 DEF Settling, linkVars, pollVars
  <2>3. NobodyAsks'
    BY <1>1, <1>6 DEF Starting, NobodyAsks
  <2>4. QED
    BY <1>2, <2>2, <2>3 DEF IdealInv, Starting
<1>7. CASE Serving /\ Free
  <2>1. Free'
    BY <1>1, <1>3, <1>5, <1>7 DEF Free, NoRequester
  <2>2. Serving'
    BY <1>1, <1>7, <2>1 DEF Serving, pollVars
  <2>3. QED
    BY <1>2, <2>2 DEF IdealInv
<1>8. CASE Serving /\ ~Free
  <2>1. PICK a \in Apps : Holds(a) /\ InRequestOf(a)
    BY <1>8 DEF Serving, Releasing
  <2>2. Holds(a)'
    BY <1>1, <2>1 DEF Holds
  <2>3. \/ Asking(a) \/ Posted(a) \/ Sending(a) \/ Ending(a) \/ Awaiting(a)
        \/ Hearing(a) \/ Executable(a) \/ Erring(a)
    BY <2>1 DEF InRequestOf, Loading, Loaded, Received, Judging, Executed,
       Handles
  <2> USE <1>1, <1>3, <1>4, <1>5 DEF linkVars, historyVars, pollVars
  <2>4. Asking(a) => Asking(a)'
    BY DEF Asking
  <2>5. UNCHANGED Waits(a, "unsent") /\ UNCHANGED Waits(a, "sent")
    BY DEF Waits
  <2>6. Posted(a) => Posted(a)'
    BY <2>5 DEF Posted
  <2>7. Sending(a) => Sending(a)'
    BY <2>5 DEF Sending, LinkSends
  <2>8. OnWire(a) => OnWire(a)'
    BY <2>5 DEF OnWire
  <2>9. Ending(a) => Ending(a)'
    BY <2>8 DEF Ending
  <2>10. Awaiting(a) => Awaiting(a)'
    BY <2>8 DEF Awaiting
  <2>11. Hearing(a) => Hearing(a)'
    BY <2>8 DEF Hearing
  <2>12. Executable(a) => Executable(a)'
    BY DEF Executable, Sleeps, FrameChecked
  <2>13. Erring(a) => Erring(a)'
    BY DEF Erring, Sleeps
  <2>14. InRequestOf(a)'
    BY <2>3, <2>4, <2>6, <2>7, <2>9, <2>10, <2>11, <2>12, <2>13
    DEF InRequestOf
  <2>15. Serving'
    BY <1>8, <2>2, <2>14 DEF Serving
  <2>16. QED
    BY <1>2, <2>15 DEF IdealInv
<1>9. QED
  BY <1>6, <1>7, <1>8 DEF IdealInv

-----------------------------------------------------------------------------
(* The poll thread handles an event.                                       *)
LEMMA ReadyIdeal ==
  ASSUME TypeOK, IdealInv, PollReadyEvent
  PROVE  IdealInv'
<1> USE DEF PollReadyEvent
<1>1. Starting /\ Announced
  <2>1. "READY" # "FRAME_SENT" /\ "READY" # "FRAME_RECEIVED"
        /\ "READY" # "EXECUTE" /\ "READY" # "ERROR_PROCESS"
    OBVIOUS
  <2>2. QED
    BY <2>1, WhileDispatching
<1>2. UNCHANGED <<appPc, appGot, sem, evApp, linkVars, historyVars, ctlPc>>
  OBVIOUS
<1>3. Undisturbed' /\ \A b \in Apps : Caller(b)'
  BY <1>2, CallersStay DEF IdealInv, Undisturbed, historyVars
<1>4. Quiet' /\ PollRests'
  BY <1>1, <1>2 DEF Announced, Handles, Quiet, Listening, TransRests,
     PollRests, linkVars
<1>5. sem' = 1 /\ \A b \in Apps : appPc'[b] = "idle"
  BY <1>1, <1>2 DEF Starting, NobodyAsks
<1>6. Free'
  BY <1>4, <1>5 DEF Free, NoRequester, InRequest
<1>7. QED
  BY <1>3, <1>6 DEF IdealInv, Serving

LEMMA SendIdeal ==
  ASSUME TypeOK, IdealInv, PollSend
  PROVE  IdealInv'
<1> USE DEF PollSend
<1>1. PICK a \in Apps : Holds(a) /\ Posted(a) /\ mbState = "ESTABLISHED"
  BY WhileDispatching
<1>2. UNCHANGED <<appPc, appGot, sem, evApp, linkVars, historyVars, ctlPc,
                  mbState, evPoll>>
  OBVIOUS
<1>3. Undisturbed' /\ \A b \in Apps : Caller(b)'
  BY <1>2, CallersStay DEF IdealInv, Undisturbed, historyVars
<1>4. Holds(a)'
  BY <1>1, <1>2 DEF Holds
<1>5. Loading(a)'
  BY <1>1, <1>2 DEF Posted, Loading, WillHandle, Handles, Waits, Quiet,
     Listening, TransRests, linkVars, historyVars
<1>6. QED
  BY <1>1, <1>2, <1>3, <1>4, <1>5 DEF IdealInv, Serving, InRequestOf

LEMMA LoadIdeal ==
  ASSUME TypeOK, IdealInv, SendLoad
  PROVE  IdealInv'
<1> USE DEF SendLoad
<1>1. PICK a \in Apps : Holds(a) /\ Loading(a) /\ mbState = "ESTABLISHED"
  BY WhilePast
<1>2. UNCHANGED <<appPc, appGot, sem, evApp, fate, failed, ctlPc, mbState>>
  BY DEF pollVars
<1>3. Undisturbed' /\ \A b \in Apps : Caller(b)'
  BY <1>2, CallersStay DEF IdealInv, Undisturbed
<1>4. Holds(a)'
  BY <1>1, <1>2 DEF Holds
<1>5. Loaded(a)'
  BY <1>1, <1>2 DEF Loading, Loaded, LinkSends, Waits, Quiet, Listening,
     TransRests, pollVars
<1>6. QED
  BY <1>1, <1>2, <1>3, <1>4, <1>5 DEF IdealInv, Serving, InRequestOf

LEMMA EnableTransmitterIdeal ==
  ASSUME TypeOK, IdealInv, SendEnableTransmitter
  PROVE  IdealInv'
<1> USE DEF SendEnableTransmitter
<1>1. PICK a \in Apps : Holds(a) /\ Loaded(a) /\ mbState = "ESTABLISHED"
  BY WhilePast
<1>2. UNCHANGED <<appPc, appGot, sem, evApp, historyVars, pollVars>>
  OBVIOUS
<1>3. Undisturbed' /\ \A b \in Apps : Caller(b)'
  BY <1>2, CallersStay DEF IdealInv, Undisturbed, historyVars, pollVars
<1>4. Holds(a)'
  BY <1>1, <1>2 DEF Holds
<1>5. Sending(a)'
  BY <1>1, <1>2 DEF Loaded, Sending, LinkSends, Waits, PollRests, historyVars,
     pollVars, vMBMasterPortSerialEnable
<1>6. QED
  BY <1>1, <1>2, <1>3, <1>4, <1>5 DEF IdealInv, Serving, InRequestOf, pollVars

LEMMA ReceiveIdeal ==
  ASSUME TypeOK, IdealInv, PollReceive
  PROVE  IdealInv'
<1> USE DEF PollReceive
<1>1. PICK a \in Apps : Holds(a) /\ Received(a) /\ mbState = "ESTABLISHED"
  BY WhileDispatching
<1>2. UNCHANGED <<appPc, appGot, sem, evApp, evPoll, linkVars, wireBy, fate,
                  ctlPc, mbState>>
  OBVIOUS
<1>3. Undisturbed' /\ \A b \in Apps : Caller(b)'
  BY <1>2, CallersStay DEF IdealInv, Undisturbed, Assert
<1>4. Holds(a)'
  BY <1>1, <1>2 DEF Holds
<1>5. Sleeps(a)' /\ evPoll' = {} /\ fate'[a] = "sent"
  BY <1>1, <1>2 DEF Received, Sleeps, Handles, Quiet, Listening, TransRests,
     linkVars
<1>6. pollPc' = "reject" \/ (pollPc' = "check" /\ FrameChecked'
                             /\ rcvAddr' = rcvBuf'.addr)
  BY <1>1, <1>2 DEF Received, ReceivedIntact, FrameChecked, linkVars
<1>7. Judging(a)'
  BY <1>5, <1>6 DEF Judging
<1>8. QED
  BY <1>1, <1>2, <1>3, <1>4, <1>7 DEF IdealInv, Serving, InRequestOf

LEMMA AcceptIdeal ==
  ASSUME TypeOK, IdealInv, PollAccept
  PROVE  IdealInv'
<1> USE DEF PollAccept
<1>1. PICK a \in Apps : Holds(a) /\ Judging(a) /\ mbState = "ESTABLISHED"
  BY WhilePast
<1>2. UNCHANGED <<appPc, appGot, sem, evApp, linkVars, historyVars, pollVars>>
  OBVIOUS
<1>3. Undisturbed' /\ \A b \in Apps : Caller(b)'
  BY <1>2, CallersStay DEF IdealInv, Undisturbed, historyVars, pollVars
<1>4. Holds(a)'
  BY <1>1, <1>2 DEF Holds
<1>5. Sleeps(a)' /\ fate'[a] = "sent"
  BY <1>1, <1>2 DEF Judging, Sleeps, Quiet, Listening, TransRests, linkVars,
     historyVars
<1>6. WillHandle("EXECUTE")'
  BY <1>1 DEF Judging, PostToSelf, WillHandle
<1>7. FrameChecked' /\ rcvBuf'.addr = dest'
  BY <1>1, <1>2 DEF Judging, FrameChecked, linkVars, pollVars
<1>8. Executable(a)'
  BY <1>5, <1>6, <1>7 DEF Executable
<1>9. QED
  BY <1>1, <1>2, <1>3, <1>4, <1>8 DEF IdealInv, Serving, InRequestOf, pollVars

(* The frame of a sleeping requester has come to an end of the kind f, and *)
(* the poll thread has posted itself the error.                            *)
LEMMA ErrsNext ==
  ASSUME TypeOK, IdealInv, NEW a \in Apps, Holds(a), Sleeps(a),
         fate[a] = "sent", mbState = "ESTABLISHED", evPoll = {},
         NEW f \in Ends, Settle(f), errType' = BitOf[f],
         PostToSelf("ERROR_PROCESS"), pollPc' = "get",
         UNCHANGED <<appPc, appGot, sem, evApp, rcv, snd, timerOn, rxOn,
                     txEvt, transPc, wireBy, failed, pollVars>>
  PROVE  IdealInv'
<1>1. appPc[a] \in {"recv", "wait"} /\ wireBy = a
  BY DEF Sleeps
<1>2. fate' = [fate EXCEPT ![a] = f]
  BY <1>1, SettleHolder
<1>3. (\A b \in Apps : Caller(b)') /\ fate'[a] = f
  <2>1. \A b \in Apps : Caller(b)
    BY DEF IdealInv
  <2>2. UNCHANGED <<appPc, appGot>>
    OBVIOUS
  <2>3. f \in Fates
    BY DEF Fates, Ends
  <2>4. QED
    BY <1>1, <1>2, <2>1, <2>2, <2>3, CallersSettle
<1>4. Undisturbed'
  BY DEF IdealInv, Undisturbed, pollVars
<1>5. Holds(a)'
  BY DEF Holds
<1>6. Sleeps(a)' /\ WillHandle("ERROR_PROCESS")'
  BY DEF Sleeps, Quiet, Listening, TransRests, PostToSelf, WillHandle
<1>7. Erring(a)'
  BY <1>3, <1>6 DEF Erring
<1>8. QED
  BY <1>3, <1>4, <1>5, <1>7 DEF IdealInv, Serving, InRequestOf, pollVars

LEMMA RejectIdeal ==
  ASSUME TypeOK, IdealInv, PollReject
  PROVE  IdealInv'
<1> USE DEF PollReject
<1>1. PICK a \in Apps : Holds(a) /\ Judging(a) /\ mbState = "ESTABLISHED"
  BY WhilePast
<1>2. Sleeps(a) /\ fate[a] = "sent" /\ evPoll = {}
  BY <1>1 DEF Judging
<1>3. "garbled" \in Ends /\ errType' = BitOf["garbled"]
  BY DEF Ends, BitOf
<1>4. QED
  BY <1>1, <1>2, <1>3, ErrsNext

LEMMA ExecuteIdeal ==
  ASSUME TypeOK, IdealInv, PollExecute
  PROVE  IdealInv'
<1> USE DEF PollExecute
<1>1. PICK a \in Apps : Holds(a) /\ Executable(a) /\ mbState = "ESTABLISHED"
  BY WhileDispatching
<1>2. Sleeps(a) /\ fate[a] = "sent" /\ evPoll = {}
  BY <1>1 DEF Executable, WillHandle, Handles
<1>3. CASE ExceptionNone
  <2> USE <1>3
  <2>1. UNCHANGED <<appPc, appGot, sem, evApp, evPoll, rcv, snd, timerOn,
                    rxOn, txEvt, transPc, wireBy, failed, pollVars>>
    OBVIOUS
  <2>2. appPc[a] \in {"recv", "wait"} /\ wireBy = a
    BY <1>2 DEF Sleeps
  <2>3. fate' = [fate EXCEPT ![a] = "ok"]
    BY <1>2, <2>2, SettleHolder
  <2>4. (\A b \in Apps : Caller(b)') /\ fate'[a] = "ok"
    <3>1. \A b \in Apps : Caller(b)
      BY DEF IdealInv
    <3>2. UNCHANGED <<appPc, appGot>>
      BY <2>1
    <3>3. "ok" \in Fates
      BY DEF Fates
    <3>4. QED
      BY <2>2, <2>3, <3>1, <3>2, <3>3, CallersSettle
  <2>5. Undisturbed'
    BY <2>1 DEF IdealInv, Undisturbed, pollVars
  <2>6. Holds(a)'
    BY <1>1, <2>1 DEF Holds
  <2>7. Sleeps(a)' /\ evPoll' = {}
    BY <1>2, <2>1 DEF Sleeps, Quiet, Listening, TransRests
  <2>8. Executed(a)'
    BY <2>4, <2>7 DEF Executed
  <2>9. QED
    BY <1>1, <2>1, <2>4, <2>5, <2>6, <2>8
    DEF IdealInv, Serving, InRequestOf, pollVars
<1>4. CASE ~ExceptionNone
  <2>1. "exception" \in Ends /\ errType' = BitOf["exception"]
    BY <1>4 DEF Ends, BitOf
  <2>2. QED
    BY <1>1, <1>2, <1>4, <2>1, ErrsNext
<1>5. QED
  BY <1>3, <1>4

-----------------------------------------------------------------------------
(* The poll thread tells the requester, and gives the master back.         *)
LEMMA TheSleeper ==
  ASSUME NEW a \in Apps, Holds(a), appPc[a] = "wait",
         NEW e, SendToRequester(e)
  PROVE  /\ appPc' = [appPc EXCEPT ![a] = "woken"]
         /\ appGot' = [appGot EXCEPT ![a] = {e}]
         /\ UNCHANGED evApp
<1>1. a \in Suspended("wait")
  BY DEF Suspended
<1>2. \A b \in Suspended("wait") : b = a
  BY DEF Suspended, Holds, InRequest
<1>3. QED
  BY <1>1, <1>2 DEF SendToRequester, MostUrgent

LEMMA ReleasesNext ==
  ASSUME TypeOK, IdealInv, NEW a \in Apps, Holds(a), Sleeps(a),
         fate[a] \in Ends, mbState = "ESTABLISHED", evPoll = {},
         SendToRequester(BitOf[fate[a]]), pollPc' = "release",
         UNCHANGED <<sem, evPoll, linkVars, historyVars, mbState, ctlPc>>
  PROVE  IdealInv'
<1>1. appPc[a] = "wait"
  BY DEF Sleeps
<1>2. /\ appPc' = [appPc EXCEPT ![a] = "woken"]
      /\ appGot' = [appGot EXCEPT ![a] = {BitOf[fate[a]]}]
      /\ UNCHANGED evApp
  BY <1>1, TheSleeper
<1>3. \A b \in Apps : Caller(b)'
  <2> SUFFICES ASSUME NEW b \in Apps PROVE Caller(b)'
    OBVIOUS
  <2>1. CASE b = a
    BY <1>2, <2>1, Functions DEF Caller, historyVars
  <2>2. CASE b # a
    BY <1>2, <2>2, Functions DEF IdealInv, Caller, historyVars
  <2>3. QED
    BY <2>1, <2>2
<1>4. Undisturbed'
  BY <1>2 DEF IdealInv, Undisturbed, historyVars
<1>5. NoRequester'
  BY <1>2, Functions DEF Holds, NoRequester, InRequest
<1>6. Releasing'
  BY <1>5 DEF Releasing, Holds, Sleeps, Quiet, Listening, TransRests, linkVars
<1>7. QED
  BY <1>3, <1>4, <1>6 DEF IdealInv, Serving

LEMMA SucceedIdeal ==
  ASSUME TypeOK, IdealInv, PollSucceed
  PROVE  IdealInv'
<1> USE DEF PollSucceed
<1>1. PICK a \in Apps : Holds(a) /\ Executed(a) /\ mbState = "ESTABLISHED"
  BY WhilePast
<1>2. Sleeps(a) /\ fate[a] \in Ends /\ evPoll = {}
  BY <1>1 DEF Executed, Ends
<1>3. SendToRequester(BitOf[fate[a]])
  BY <1>1 DEF Executed, BitOf
<1>4. QED
  BY <1>1, <1>2, <1>3, ReleasesNext DEF pollVars

LEMMA ErrorProcessIdeal ==
  ASSUME TypeOK, IdealInv, PollErrorProcess
  PROVE  IdealInv'
<1> USE DEF PollErrorProcess
<1>1. PICK a \in Apps : Holds(a) /\ Erring(a) /\ mbState = "ESTABLISHED"
  BY WhileDispatching
<1>2. Sleeps(a) /\ fate[a] \in Ends /\ evPoll = {}
  BY <1>1 DEF Erring, WillHandle, Handles
<1>3. SendToRequester(BitOf[fate[a]])
  BY <1>1 DEF Erring
<1>4. QED
  BY <1>1, <1>2, <1>3, ReleasesNext

LEMMA ReleaseIdeal ==
  ASSUME TypeOK, IdealInv, PollRelease
  PROVE  IdealInv'
<1> USE DEF PollRelease
<1>1. Releasing /\ mbState = "ESTABLISHED"
  BY WhilePast
<1>2. UNCHANGED <<evPoll, evApp, appGot, linkVars, historyVars, pollVars>>
  OBVIOUS
<1>3. Undisturbed'
  BY <1>2 DEF IdealInv, Undisturbed, historyVars, pollVars
<1>4. Quiet' /\ PollRests' /\ mbState' = "ESTABLISHED"
  BY <1>1, <1>2 DEF Releasing, Quiet, Listening, TransRests, PollRests,
     linkVars, pollVars
<1>5. CASE Suspended("blocked") = {}
  <2>1. sem' = sem + 1 /\ UNCHANGED appPc
    BY <1>5 DEF vMBMasterRunResRelease
  <2>2. \A b \in Apps : Caller(b)'
    BY <1>2, <2>1, CallersStay DEF IdealInv, historyVars
  <2>3. Free'
    BY <1>1, <1>4, <1>5, <2>1 DEF Releasing, Free, NoRequester, Suspended
  <2>4. QED
    BY <1>3, <1>4, <2>2, <2>3 DEF IdealInv, Serving
<1>6. CASE Suspended("blocked") # {}
  <2>1. PICK a \in MostUrgent(Suspended("blocked")) :
          appPc' = [appPc EXCEPT ![a] = "dest"] /\ sem' = sem
    BY <1>6 DEF vMBMasterRunResRelease
  <2>2. a \in Apps /\ appPc[a] = "blocked"
    BY DEF MostUrgent, Suspended
  <2>3. fate[a] = "unsent"
    BY <2>2 DEF IdealInv, Caller
  <2>4. \A b \in Apps : Caller(b)'
    BY <1>2, <2>1, <2>2, <2>3, CallersMove DEF IdealInv, historyVars
  <2>5. Holds(a)' /\ appPc'[a] = "dest"
    BY <1>1, <2>1, <2>2, Functions DEF Releasing, NoRequester, Holds, InRequest
  <2>6. Asking(a)'
    BY <1>4, <2>5 DEF Asking
  <2>7. QED
    BY <1>3, <1>4, <2>2, <2>4, <2>5, <2>6 DEF IdealInv, Serving, InRequestOf
<1>7. QED
  BY <1>5, <1>6

-----------------------------------------------------------------------------
(* The transmit thread only has work while a frame is sent.                *)
LEMMA TransIdeal ==
  ASSUME TypeOK, IdealInv, TransStep, UNCHANGED pollVars
  PROVE  IdealInv'
<1>1. PICK a \in Apps : /\ Holds(a) /\ mbState = "ESTABLISHED"
                        /\ Sending(a) \/ Ending(a)
  <2>1. ~TransRests
    BY DEF TransStep, TransmitFSM, TransmitEnableReceiver, TransmitClearEvent,
       TransmitFinished, TransmitArmTimer, TransRests
  <2>2. ~Starting
    BY <2>1 DEF Starting, Booting, Settling, Announced, Quiet, Listening
  <2>3. ~Free /\ ~Releasing
    BY <2>1 DEF Free, Releasing, Quiet, Listening
  <2>4. PICK a \in Apps : Holds(a) /\ InRequestOf(a)
    BY <2>2, <2>3 DEF IdealInv, Serving
  <2>5. ~Loaded(a)
    BY <2>1 DEF Loaded, LinkSends, TransRests
  <2>6. Sending(a) \/ Ending(a)
    BY <2>1, <2>4, <2>5 DEF InRequestOf, Asking, Posted, Loading, Awaiting,
       Hearing, Received, Judging, Executable, Executed, Erring, Sleeps,
       Quiet, Listening
  <2>7. QED
    BY <2>2, <2>4, <2>6 DEF IdealInv, Serving
<1>2. UNCHANGED <<portVars, rcv, dest, wireBy, frame, ctlPc, mbState>>
  BY DEF TransStep, TransmitFSM, TransmitEnableReceiver, TransmitClearEvent,
     TransmitFinished, TransmitArmTimer, historyVars, pollVars
<1>3. Holds(a)' /\ PollRests'
  BY <1>1, <1>2 DEF Holds, PollRests, Sending, Ending, portVars
<1>4. ASSUME Sending(a)' \/ Ending(a)' \/ Awaiting(a)', Undisturbed',
             \A b \in Apps : Caller(b)'
      PROVE  IdealInv'
  BY <1>1, <1>2, <1>3, <1>4 DEF IdealInv, Serving, InRequestOf
<1>5. CASE TransmitFSM
  <2> USE <1>5 DEF TransmitFSM
  <2>1. Sending(a)
    BY <1>1 DEF Ending
  <2>2. Undisturbed'
    BY <1>2, <2>1 DEF IdealInv, Undisturbed, Assert, Sending, LinkSends,
       portVars
  <2>3. CASE TransmitterPutByte
    <3>1. UNCHANGED fate
      BY <2>3 DEF TransmitterPutByte
    <3>2. \A b \in Apps : Caller(b)'
      BY <1>2, <3>1, CallersStay DEF IdealInv, portVars
    <3>3. Sending(a)'
      BY <1>2, <1>3, <2>1, <2>3 DEF Sending, LinkSends, Waits,
         TransmitterPutByte, portVars
    <3>4. QED
      BY <1>4, <2>2, <3>2, <3>3
  <2>4. CASE TransmitterDone
    <3>1. /\ wireBy = a /\ sndAddr = dest
          /\ appPc[a] \in {"recv", "wait"} /\ sndBuf.by = a
      BY <2>1 DEF Sending, LinkSends, Waits
    <3>2. fate' = [fate EXCEPT ![a] = "sent"]
      BY <2>4, <3>1 DEF TransmitterDone
    <3>3. (\A b \in Apps : Caller(b)') /\ fate'[a] = "sent"
      <4>1. \A b \in Apps : Caller(b)
        BY DEF IdealInv
      <4>2. UNCHANGED <<appPc, appGot>> /\ "sent" \in Fates
        BY <1>2 DEF portVars, Fates
      <4>3. QED
        BY <3>1, <3>2, <4>1, <4>2, CallersSettle
    <3>4. OnWire(a)'
      BY <1>2, <2>4, <3>1, <3>3 DEF OnWire, Waits, TransmitterDone, portVars
    <3>5. Ending(a)'
      BY <1>2, <1>3, <2>1, <2>4, <3>4 DEF Ending, Sending, LinkSends,
         TransmitterDone
    <3>6. QED
      BY <1>4, <2>2, <3>3, <3>5
  <2>5. ~TransmitterIdle /\ ~TransmitterSpins
    BY <2>1 DEF Sending, LinkSends, TransmitterIdle, TransmitterSpins
  <2>6. QED
    BY <2>3, <2>4, <2>5
<1>6. CASE ~TransmitFSM
  <2>1. UNCHANGED <<sndBuf, broadcast, historyVars>>
    BY <1>6 DEF TransStep, TransmitEnableReceiver, TransmitClearEvent,
       TransmitFinished, TransmitArmTimer
  <2>2. Undisturbed' /\ \A b \in Apps : Caller(b)'
    BY <1>2, <2>1, CallersStay DEF IdealInv, Undisturbed, historyVars,
       portVars
  <2>3. Ending(a)
    BY <1>1, <1>6 DEF TransStep, TransmitEnableReceiver, TransmitClearEvent,
       TransmitFinished, TransmitArmTimer, Sending, LinkSends
  <2>4. OnWire(a)'
    BY <1>2, <2>1, <2>3 DEF Ending, OnWire, Waits, portVars, historyVars
  <2>5. CASE TransmitArmTimer
    <3>1. Awaiting(a)'
      BY <1>2, <1>3, <2>3, <2>4, <2>5 DEF TransmitArmTimer, Ending, Awaiting,
         TransRests, ArmTimer, TimerEnable
    <3>2. QED
      BY <1>4, <2>2, <3>1
  <2>6. CASE ~TransmitArmTimer
    <3>1. Ending(a)'
      BY <1>2, <1>3, <1>6, <2>3, <2>4, <2>6 DEF TransStep, Ending,
         TransmitEnableReceiver, TransmitClearEvent, TransmitFinished
    <3>2. QED
      BY <1>4, <2>2, <3>1
  <2>7. QED
    BY <2>5, <2>6
<1>7. QED
  BY <1>5, <1>6

-----------------------------------------------------------------------------
(* A thread that does not hold the master moves: whoever does is not       *)
(* concerned.                                                              *)
LEMMA OthersConcernNobody ==
  ASSUME TypeOK, Serving, NEW a \in Apps, appPc[a] \notin InRequest,
         NEW pc, pc \notin InRequest, appPc' = [appPc EXCEPT ![a] = pc],
         sem = 0 \/ pc # "blocked",
         UNCHANGED fate \/ fate' = [fate EXCEPT ![a] = "unsent"],
         UNCHANGED <<evPoll, pollPc, pollGot, sem, linkVars, wireBy, owed,
                     pollVars>>
  PROVE  Serving'
<1>1. UNCHANGED <<Quiet, Listening, TransRests, PollRests>>
  BY DEF Quiet, Listening, TransRests, PollRests, linkVars
<1>2. UNCHANGED mbState
  BY DEF pollVars
<1>3. CASE Free
  <2>1. Free'
    BY <1>1, <1>3, Functions DEF Free, NoRequester
  <2>2. QED
    BY <1>2, <2>1 DEF Serving
<1>4. CASE Releasing
  <2>1. Releasing'
    BY <1>1, <1>4, Functions DEF Releasing, NoRequester
  <2>2. QED
    BY <1>2, <2>1 DEF Serving
<1>5. CASE \E b \in Apps : Holds(b) /\ InRequestOf(b)
  <2>1. PICK b \in Apps : Holds(b) /\ InRequestOf(b)
    BY <1>5
  <2>2. b # a
    BY <2>1 DEF Holds
  <2>3. appPc'[b] = appPc[b] /\ fate'[b] = fate[b]
    BY <2>2, Functions
  <2>4. Holds(b)'
    BY <2>1, HolderStays
  <2> USE <1>1, <2>3 DEF linkVars, pollVars
  <2>5. /\ UNCHANGED Waits(b, "unsent") /\ UNCHANGED Waits(b, "sent")
        /\ UNCHANGED Sleeps(b)
    BY DEF Waits, Sleeps
  <2>6. ASSUME NEW e PROVE WillHandle(e) => WillHandle(e)'
    BY DEF WillHandle, Handles
  <2>7. Asking(b) => Asking(b)'
    BY DEF Asking
  <2>8. Posted(b) => Posted(b)'
    BY <2>5, <2>6 DEF Posted
  <2>9. /\ Loading(b) => Loading(b)'
        /\ Loaded(b) => Loaded(b)'
        /\ Sending(b) => Sending(b)'
    BY <2>5 DEF Loading, Loaded, Sending, LinkSends
  <2>10. OnWire(b) => OnWire(b)'
    BY <2>5 DEF OnWire
  <2>11. Ending(b) => Ending(b)'
    BY <2>10 DEF Ending
  <2>12. Awaiting(b) => Awaiting(b)'
    BY <2>10 DEF Awaiting
  <2>13. Hearing(b) => Hearing(b)'
    BY <2>10 DEF Hearing
  <2>14. Received(b) => Received(b)'
    BY <2>5 DEF Received, Handles
  <2>15. Judging(b) => Judging(b)'
    BY <2>5 DEF Judging, FrameChecked
  <2>16. Executable(b) => Executable(b)'
    BY <2>5, <2>6 DEF Executable, FrameChecked
  <2>17. Executed(b) => Executed(b)'
    BY <2>5 DEF Executed
  <2>18. Erring(b) => Erring(b)'
    BY <2>5, <2>6 DEF Erring
  <2>19. InRequestOf(b)'
    BY <2>1, <2>7, <2>8, <2>9, <2>11, <2>12, <2>13, <2>14, <2>15, <2>16,
       <2>17, <2>18 DEF InRequestOf
  <2>20. QED
    BY <1>2, <2>4, <2>19 DEF Serving
<1>6. QED
  BY <1>3, <1>4, <1>5 DEF Serving

LEMMA WhileAsking ==
  ASSUME IdealInv, NEW a \in Apps,
         appPc[a] \notin {"idle", "blocked", "woken"}
  PROVE  Serving
BY DEF IdealInv, Starting, NobodyAsks

LEMMA TakeIdeal ==
  ASSUME TypeOK, IdealInv, NEW a \in Apps, xMBMasterRunResTake(a)
  PROVE  IdealInv'
<1> USE DEF xMBMasterRunResTake
<1>1. Serving /\ appPc[a] = "idle"
  BY DEF IdealInv, Starting, Booting, Settling, Announced
<1>2. UNCHANGED <<evPoll, pollPc, pollGot, evApp, appGot, linkVars,
                  historyVars, pollVars>>
  OBVIOUS
<1>3. Undisturbed'
  BY <1>2 DEF IdealInv, Undisturbed, historyVars, pollVars
<1>4. fate[a] = "unsent"
  BY <1>1 DEF IdealInv, Caller
<1>5. CASE sem > 0
  <2>1. sem' = sem - 1 /\ appPc' = [appPc EXCEPT ![a] = "dest"]
    BY <1>5
  <2>2. Free
    BY <1>1, <1>5 DEF Serving, Releasing, Holds
  <2>3. \A b \in Apps : Caller(b)'
    BY <1>2, <1>4, <2>1, CallersMove DEF IdealInv, historyVars
  <2>4. Holds(a)' /\ appPc'[a] = "dest"
    BY <2>1, <2>2, Functions DEF Free, NoRequester, Holds, InRequest
  <2>5. Asking(a)'
    BY <1>2, <2>2, <2>4 DEF Free, Asking, Quiet, Listening, TransRests,
       PollRests, linkVars
  <2>6. QED
    BY <1>1, <1>2, <1>3, <2>3, <2>4, <2>5
    DEF IdealInv, Serving, InRequestOf, pollVars
<1>6. CASE ~(sem > 0)
  <2>1. sem' = sem /\ appPc' = [appPc EXCEPT ![a] = "blocked"]
    BY <1>6
  <2>2. sem = 0
    BY <1>6, Functions
  <2>3. \A b \in Apps : Caller(b)'
    BY <1>2, <1>4, <2>1, CallersMove DEF IdealInv, historyVars
  <2>4. "blocked" \notin InRequest /\ appPc[a] \notin InRequest
    BY <1>1 DEF InRequest
  <2>5. Serving'
    BY <1>1, <1>2, <2>1, <2>2, <2>4, OthersConcernNobody DEF historyVars
  <2>6. QED
    BY <1>3, <2>3, <2>5 DEF IdealInv
<1>7. QED
  BY <1>5, <1>6

LEMMA TimedOutIdeal ==
  ASSUME TypeOK, IdealInv, NEW a \in Apps, TakeTimedOut(a)
  PROVE  IdealInv'
<1> USE DEF TakeTimedOut
<1>1. UNCHANGED <<evPoll, pollPc, pollGot, evApp, appGot, sem, linkVars,
                  historyVars, pollVars>>
  OBVIOUS
<1>2. Undisturbed'
  BY <1>1 DEF IdealInv, Undisturbed, historyVars, pollVars
<1>3. fate[a] = "unsent" /\ Serving
  BY DEF IdealInv, Caller, Starting, NobodyAsks
<1>4. \A b \in Apps : Caller(b)'
  BY <1>1, <1>3, CallersMove DEF IdealInv, historyVars
<1>5. "idle" \notin InRequest /\ appPc[a] \notin InRequest
  BY DEF InRequest
<1>6. Serving'
  BY <1>1, <1>3, <1>5, OthersConcernNobody DEF historyVars
<1>7. QED
  BY <1>2, <1>4, <1>6 DEF IdealInv

LEMMA ReturnIdeal ==
  ASSUME TypeOK, IdealInv, NEW a \in Apps, Return(a)
  PROVE  IdealInv'
<1> USE DEF Return
<1>1. UNCHANGED <<evPoll, pollPc, pollGot, evApp, sem, linkVars, wireBy, owed,
                  failed, pollVars>>
  OBVIOUS
<1>2. Undisturbed'
  BY <1>1 DEF IdealInv, Undisturbed, pollVars
<1>3. Serving
  BY DEF IdealInv, Starting, NobodyAsks
<1>4. \A b \in Apps : Caller(b)'
  <2> SUFFICES ASSUME NEW b \in Apps PROVE Caller(b)'
    OBVIOUS
  <2>1. CASE b = a
    BY <2>1, Functions DEF Caller
  <2>2. CASE b # a
    BY <2>2, Functions DEF IdealInv, Caller
  <2>3. QED
    BY <2>1, <2>2
<1>5. "idle" \notin InRequest /\ appPc[a] \notin InRequest
  BY DEF InRequest
<1>6. Serving'
  BY <1>1, <1>3, <1>5, OthersConcernNobody
<1>7. QED
  BY <1>2, <1>4, <1>6 DEF IdealInv

-----------------------------------------------------------------------------
(* The requester that holds the master asks, and waits.                    *)
LEMMA WhilePreparing ==
  ASSUME IdealInv, NEW a \in Apps, appPc[a] \in {"dest", "fill", "post"}
  PROVE  Holds(a) /\ Asking(a) /\ mbState = "ESTABLISHED"
<1>1. appPc[a] \in InRequest
  BY DEF InRequest
<1>2. PICK b \in Apps : Holds(b) /\ InRequestOf(b)
  BY <1>1, WhileAsking DEF Serving, Free, Releasing, NoRequester
<1>3. b = a
  BY <1>1, <1>2, SoleHolder
<1>4. Asking(a)
  BY <1>2, <1>3 DEF InRequestOf, Posted, Loading, Loaded, Sending, Ending,
     Awaiting, Hearing, Received, Judging, Executable, Executed, Erring,
     Waits, OnWire, Sleeps
<1>5. QED
  BY <1>2, <1>3, <1>4, WhileAsking DEF Serving

LEMMA SetDestIdeal ==
  ASSUME TypeOK, IdealInv, NEW a \in Apps, vMBMasterSetDestAddress(a)
  PROVE  IdealInv'
<1> USE DEF vMBMasterSetDestAddress
<1>1. Holds(a) /\ Asking(a) /\ mbState = "ESTABLISHED"
  BY WhilePreparing
<1>2. "fill" \in InRequest /\ fate[a] = "unsent"
  BY DEF IdealInv, Caller, InRequest
<1>3. Undisturbed' /\ \A b \in Apps : Caller(b)'
  BY <1>2, CallersMove DEF IdealInv, Undisturbed, historyVars, pollVars
<1>4. Holds(a)' /\ appPc'[a] = "fill"
  BY <1>1, <1>2, HolderMoves
<1>5. Asking(a)'
  BY <1>1, <1>4 DEF Asking, Quiet, Listening, TransRests, PollRests
<1>6. QED
  BY <1>1, <1>3, <1>4, <1>5 DEF IdealInv, Serving, InRequestOf, pollVars

LEMMA FillIdeal ==
  ASSUME TypeOK, IdealInv, NEW a \in Apps, FillFrame(a)
  PROVE  IdealInv'
<1> USE DEF FillFrame
<1>1. Holds(a) /\ Asking(a) /\ mbState = "ESTABLISHED"
  BY WhilePreparing
<1>2. "post" \in InRequest /\ fate[a] = "unsent"
  BY DEF IdealInv, Caller, InRequest
<1>3. Undisturbed' /\ \A b \in Apps : Caller(b)'
  BY <1>2, CallersMove DEF IdealInv, Undisturbed, historyVars, pollVars
<1>4. Holds(a)' /\ appPc'[a] = "post"
  BY <1>1, <1>2, HolderMoves
<1>5. Asking(a)'
  BY <1>1, <1>4 DEF Asking, Quiet, Listening, TransRests, PollRests
<1>6. QED
  BY <1>1, <1>3, <1>4, <1>5 DEF IdealInv, Serving, InRequestOf, pollVars

LEMMA PostOne ==
  ASSUME PollRests, NEW e, xMBMasterPortEventPost(e)
  PROVE  WillHandle(e)'
BY DEF PollRests, xMBMasterPortEventPost, PostInOrder, WillHandle, Handles

LEMMA PostIdeal ==
  ASSUME TypeOK, IdealInv, NEW a \in Apps, PostFrameSent(a)
  PROVE  IdealInv'
<1> USE DEF PostFrameSent
<1>1. Holds(a) /\ Asking(a) /\ mbState = "ESTABLISHED"
  BY WhilePreparing
<1>2. "recv" \in InRequest /\ fate[a] = "unsent"
  BY DEF IdealInv, Caller, InRequest
<1>3. Undisturbed' /\ \A b \in Apps : Caller(b)'
  BY <1>2, CallersMove DEF IdealInv, Undisturbed, historyVars, pollVars
<1>4. Holds(a)' /\ appPc'[a] = "recv"
  BY <1>1, <1>2, HolderMoves
<1>5. WillHandle("FRAME_SENT")'
  BY <1>1, PostOne DEF Asking
<1>6. Posted(a)'
  BY <1>1, <1>2, <1>4, <1>5 DEF Asking, Posted, Waits, Quiet, Listening,
     TransRests, linkVars, historyVars
<1>7. QED
  BY <1>1, <1>3, <1>4, <1>6 DEF IdealInv, Serving, InRequestOf, pollVars

LEMMA WaitIdeal ==
  ASSUME TypeOK, IdealInv, NEW a \in Apps, WaitRequestFinish(a)
  PROVE  IdealInv'
<1> USE DEF WaitRequestFinish
<1>1. UNCHANGED <<evPoll, pollPc, pollGot, sem, linkVars, historyVars,
                  pollVars>>
  OBVIOUS
<1>2. /\ appPc[a] = "recv" /\ appPc' = [appPc EXCEPT ![a] = "wait"]
      /\ UNCHANGED <<evApp, appGot>>
  BY DEF IdealInv, Undisturbed, WaitForResult
<1>3. appPc[a] \in InRequest /\ "wait" \in InRequest
  BY <1>2 DEF InRequest
<1>4. PICK b \in Apps : Holds(b) /\ InRequestOf(b)
  BY <1>2, <1>3, WhileAsking DEF Serving, Free, Releasing, NoRequester
<1>5. b = a
  BY <1>3, <1>4, SoleHolder
<1>6. Undisturbed' /\ \A c \in Apps : Caller(c)'
  BY <1>1, <1>2, CallersMove DEF IdealInv, Undisturbed, historyVars, pollVars
<1>7. Holds(a)' /\ appPc'[a] = "wait"
  BY <1>1, <1>2, <1>3, <1>4, <1>5, HolderMoves
<1>8. UNCHANGED <<Quiet, Listening, TransRests, PollRests>>
  BY <1>1 DEF Quiet, Listening, TransRests, PollRests, linkVars
<1> USE <1>1, <1>8 DEF linkVars, historyVars, pollVars
<1>9. ASSUME NEW f, Waits(a, f) PROVE Waits(a, f)'
  BY <1>7, <1>9 DEF Waits
<1>10. Posted(a) => Posted(a)'
  BY <1>9 DEF Posted, WillHandle, Handles
<1>11. /\ Loading(a) => Loading(a)'
       /\ Loaded(a) => Loaded(a)'
       /\ Sending(a) => Sending(a)'
  BY <1>9 DEF Loading, Loaded, Sending, LinkSends
<1>12. OnWire(a) => OnWire(a)'
  BY <1>9 DEF OnWire
<1>13. Ending(a) => Ending(a)'
  BY <1>12 DEF Ending
<1>14. Awaiting(a) => Awaiting(a)'
  BY <1>12 DEF Awaiting
<1>15. Hearing(a) => Hearing(a)'
  BY <1>12 DEF Hearing
<1>16. InRequestOf(a)'
  BY <1>2, <1>4, <1>5, <1>10, <1>11, <1>13, <1>14, <1>15
  DEF InRequestOf, Asking, Received, Judging, Executable, Executed, Erring,
      Sleeps
<1>17. Serving'
  BY <1>2, <1>7, <1>16, WhileAsking DEF Serving
<1>18. QED
  BY <1>6, <1>17 DEF IdealInv

-----------------------------------------------------------------------------
(* An interrupt only comes when all threads sleep: the bus settles, nobody *)
(* uses the master, or a requester sleeps while its frame is answered.     *)
LEMMA AtRestPhase ==
  ASSUME IdealInv, AllBlocked
  PROVE  /\ pollPc = "waiting"
         /\ \/ Starting /\ Settling
            \/ Serving /\ Free
            \/ Serving /\ \E a \in Apps : /\ Holds(a) /\ appPc[a] = "wait"
                                          /\ Awaiting(a) \/ Hearing(a)
<1> USE DEF AllBlocked, PollReady, PollSpins, TransReady, AppReady
<1>1. CASE Starting
  BY <1>1 DEF Starting, Booting, Settling, Announced, PollRests, Handles
<1>2. CASE Serving
  <2>1. pollPc = "waiting"
    BY <1>2 DEF Serving
  <2>2. ~Releasing
    BY <2>1 DEF Releasing
  <2>3. ASSUME NEW a \in Apps, Holds(a), InRequestOf(a)
        PROVE  appPc[a] = "wait" /\ (Awaiting(a) \/ Hearing(a))
    <3>1. appPc[a] = "wait"
      BY <2>3 DEF Holds, InRequest
    <3>2. Awaiting(a) \/ Hearing(a)
      BY <2>1, <2>3, <3>1 DEF InRequestOf, Asking, Posted, Loading, Loaded,
         Sending, Ending, Received, Judging, Executable, Executed, Erring,
         WillHandle, Handles
    <3>3. QED
      BY <3>1, <3>2
  <2>4. QED
    BY <1>2, <2>1, <2>2, <2>3 DEF Serving
<1>3. QED
  BY <1>1, <1>2 DEF IdealInv

LEMMA ByteIdeal ==
  ASSUME Faults = {}, TypeOK, IdealInv, ByteArrives
  PROVE  IdealInv'
<1> USE DEF ByteArrives, ReceiveByte
<1>1. AllBlocked /\ (rcv # "IDLE" \/ (owed /\ snd = "XFWR" /\ timerOn))
  BY DEF InterruptsMayRun
<1>2. UNCHANGED <<portVars, sndBuf, sndCount, sndAddr, broadcast, rxOn, txEvt,
                  transPc, dest, errType, wireBy, fate, pollVars>>
  OBVIOUS
<1>3. timerOn' = TRUE /\ timerMode' = "T35"
  BY DEF TimerEnable
<1>4. \A b \in Apps : Caller(b)'
  BY <1>2, CallersStay DEF IdealInv, portVars
<1>5. ASSUME snd # "XMIT" PROVE Undisturbed'
  <2>1. snd \in {"IDLE", "XFWR"}
    BY <1>5 DEF TypeOK, LinkTypeOK, TransmitterTypeOK
  <2>2. QED
    BY <1>2, <2>1 DEF IdealInv, Undisturbed, Assert, portVars, pollVars
<1>6. CASE Starting /\ Settling
  <2>1. ReceiverSkips
    BY <1>6 DEF Settling, ReceiverBegins, ReceiverAppends, ReceiverOverflows
  <2>2. Settling'
    BY <1>2, <1>3, <1>6, <2>1 DEF Settling, ReceiverSkips, Listening,
       TransRests, PollRests, portVars, pollVars
  <2>3. NobodyAsks'
    BY <1>2, <1>6 DEF Starting, NobodyAsks, portVars
  <2>4. Undisturbed'
    BY <1>5, <1>6 DEF Settling, Listening
  <2>5. QED
    BY <1>4, <2>2, <2>3, <2>4 DEF IdealInv, Starting
<1>7. CASE Serving /\ Free
  BY <1>1, <1>7 DEF Free, Quiet, Listening
<1>8. ASSUME Serving, NEW a \in Apps, Holds(a),
             Awaiting(a) \/ Hearing(a)
      PROVE  IdealInv'
  <2> USE <1>8
  <2>1. Holds(a)' /\ PollRests' /\ rxOn' /\ TransRests'
    BY <1>2 DEF Holds, Awaiting, Hearing, PollRests, Listening, TransRests,
       portVars
  <2>2. OnWire(a) /\ ~broadcast
    BY <1>1 DEF Awaiting, Hearing, OnWire
  <2>3. OnWire(a)' /\ ~broadcast'
    BY <1>2, <2>2 DEF OnWire, Waits, portVars
  <2>4. rcv' \in {"RCV", "ERROR"} /\ snd' = "IDLE"
    BY DEF Awaiting, Hearing, Listening, ReceiverSkips, ReceiverBegins,
       ReceiverAppends, ReceiverOverflows
  <2>5. Hearing(a)'
    BY <1>3, <2>1, <2>3, <2>4 DEF Hearing, Listening
  <2>6. Undisturbed'
    BY <1>5 DEF Awaiting, Hearing, Listening
  <2>7. Serving'
    BY <1>2, <2>1, <2>5 DEF Serving, InRequestOf, pollVars
  <2>8. QED
    BY <1>4, <2>6, <2>7 DEF IdealInv
<1>9. QED
  BY <1>1, <1>6, <1>7, <1>8, AtRestPhase

(* What the expiry posts to a poll thread that sleeps.                     *)
LEMMA PostWakes ==
  ASSUME pollPc = "waiting", evPoll = {},
         NEW first, NEW second, NEW third, NEW e,
         first \cup second \cup third = {e},
         PostInOrder(first, second, third),
         \/ first = {e} /\ second = {} /\ third = {}
         \/ first = {} /\ second = {e} /\ third = {}
         \/ first = {} /\ second = {} /\ third = {e}
  PROVE  Handles(e)'
BY DEF PostInOrder, Handles

LEMMA TickIdeal ==
  ASSUME Faults = {}, TypeOK, IdealInv, TimerTick
  PROVE  IdealInv'
<1> USE DEF TimerTick, TimerExpired
<1>1. AllBlocked
  BY DEF InterruptsMayRun
<1>2. UNCHANGED <<evApp, appPc, appGot, sem, pos, rcvBuf, sndBuf, broadcast,
                  rxOn, txEvt, transPc, dest, wireBy, mbState, frame, ctlPc>>
  BY DEF pollVars
<1>3. rcv' = "IDLE" /\ snd' = "IDLE" /\ timerOn' = FALSE
  BY DEF LinkRests, vMBMasterPortTimersDisable
<1>4. ASSUME snd # "XMIT" PROVE Undisturbed'
  <2>1. snd \in {"IDLE", "XFWR"}
    BY <1>4 DEF TypeOK, LinkTypeOK, TransmitterTypeOK
  <2>2. QED
    BY <1>2, <2>1 DEF IdealInv, Undisturbed, Assert
<1>5. CASE Starting /\ Settling
  <2>1. /\ ReceiverEvent = {"READY"} /\ TransmitterEvent = {}
        /\ ModeEvent = {}
    BY <1>5 DEF Settling, Listening, ReceiverEvent, TransmitterEvent,
       ResponseTimedOut, ModeEvent
  <2>2. Handles("READY")'
    BY <1>1, <1>5, <2>1, AtRestPhase, PostWakes DEF Settling, PollRests
  <2>3. Announced'
    BY <1>2, <1>3, <1>5, <2>2 DEF Announced, Settling, Quiet, Listening,
       TransRests
  <2>4. UNCHANGED fate
    BY <1>5 DEF Settling, Listening, SettleAtExpiry, ResponseTimedOut
  <2>5. \A b \in Apps : Caller(b)'
    BY <1>2, <2>4, CallersStay DEF IdealInv
  <2>6. NobodyAsks'
    BY <1>2, <1>5 DEF Starting, NobodyAsks
  <2>7. Undisturbed'
    BY <1>4, <1>5 DEF Settling, Listening
  <2>8. QED
    BY <2>3, <2>5, <2>6, <2>7 DEF IdealInv, Starting
<1>6. CASE Serving /\ Free
  BY <1>6 DEF Free, Quiet
<1>7. ASSUME Serving, NEW a \in Apps, Holds(a), appPc[a] = "wait",
             pollPc = "waiting", Awaiting(a) \/ Hearing(a)
      PROVE  IdealInv'
  <2>1. OnWire(a) /\ Listening' /\ evPoll = {} /\ fate[a] = "sent"
    BY <1>2, <1>3, <1>7 DEF Awaiting, Hearing, OnWire, Waits, PollRests,
       Listening, TransRests
  <2>2. Holds(a)' /\ Sleeps(a)'
    BY <1>2, <1>3, <1>7, <2>1 DEF Holds, Sleeps, Quiet, OnWire
  <2>3. Undisturbed'
    BY <1>4, <1>7 DEF Awaiting, Hearing, Listening
  <2>4. ASSUME InRequestOf(a)', \A b \in Apps : Caller(b)'
        PROVE  IdealInv'
    BY <1>2, <1>7, <2>2, <2>3, <2>4 DEF IdealInv, Serving
  <2>5. ASSUME UNCHANGED fate
        PROVE  fate'[a] = "sent" /\ \A b \in Apps : Caller(b)'
    BY <1>2, <2>1, <2>5, CallersStay DEF IdealInv
  <2>6. ASSUME NEW f \in Ends, Settle(f)
        PROVE  fate'[a] = f /\ \A b \in Apps : Caller(b)'
    <3>1. fate' = [fate EXCEPT ![a] = f]
      BY <2>1, <2>6, SettleHolder DEF OnWire
    <3>2. \A b \in Apps : Caller(b)
      BY DEF IdealInv
    <3>3. appPc[a] \in {"recv", "wait"} /\ f \in Fates
      BY <1>7 DEF Ends, Fates
    <3>4. QED
      BY <1>2, <3>1, <3>2, <3>3, CallersSettle
  <2>7. CASE Awaiting(a) /\ broadcast
    <3>1. /\ ReceiverEvent = {} /\ TransmitterEvent = {}
          /\ ModeEvent = {"EXECUTE"} /\ UNCHANGED fate
      BY <2>7 DEF Awaiting, ReceiverEvent, TransmitterEvent,
         ResponseTimedOut, ModeEvent, SettleAtExpiry
    <3>2. Handles("EXECUTE")'
      BY <1>7, <2>1, <3>1, PostWakes
    <3>3. frame' = "snd" /\ broadcast'
      BY <1>2, <2>7 DEF Awaiting
    <3>4. Executable(a)'
      BY <2>2, <2>5, <3>1, <3>2, <3>3 DEF Executable, WillHandle
    <3>5. QED
      BY <2>4, <2>5, <3>1, <3>4 DEF InRequestOf
  <2>8. CASE Awaiting(a) /\ ~broadcast
    <3>1. /\ ReceiverEvent = {} /\ TransmitterEvent = {"ERROR_PROCESS"}
          /\ ModeEvent = {} /\ Settle("timeout")
          /\ errType' = "RESPOND_TIMEOUT"
      BY <2>8 DEF Awaiting, ReceiverEvent, TransmitterEvent,
         ResponseTimedOut, ModeEvent, SettleAtExpiry, ExpiryErrorType
    <3>2. Handles("ERROR_PROCESS")'
      BY <1>7, <2>1, <3>1, PostWakes
    <3>3. "timeout" \in Ends /\ BitOf["timeout"] = "RESPOND_TIMEOUT"
      BY DEF Ends, BitOf
    <3>4. Erring(a)'
      BY <2>2, <2>6, <3>1, <3>2, <3>3 DEF Erring, WillHandle
    <3>5. QED
      BY <2>4, <2>6, <3>1, <3>3, <3>4 DEF InRequestOf
  <2>9. CASE Hearing(a) /\ rcv = "RCV"
    <3>1. /\ ReceiverEvent = {"FRAME_RECEIVED"} /\ TransmitterEvent = {}
          /\ ModeEvent = {} /\ UNCHANGED fate
      BY <2>9 DEF Hearing, Listening, ReceiverEvent, TransmitterEvent,
         ResponseTimedOut, ModeEvent, SettleAtExpiry
    <3>2. Handles("FRAME_RECEIVED")'
      BY <1>7, <2>1, <3>1, PostWakes
    <3>3. dest' # 0 /\ ~broadcast'
      BY <1>2, <2>9 DEF Hearing, OnWire
    <3>4. Received(a)'
      BY <2>2, <2>5, <3>1, <3>2, <3>3 DEF Received
    <3>5. QED
      BY <2>4, <2>5, <3>1, <3>4 DEF InRequestOf
  <2>10. CASE Hearing(a) /\ rcv = "ERROR"
    <3>1. /\ ReceiverEvent = {"ERROR_PROCESS"} /\ TransmitterEvent = {}
          /\ ModeEvent = {} /\ Settle("garbled")
          /\ errType' = "RECEIVE_DATA"
      BY <2>10 DEF Hearing, Listening, ReceiverEvent, TransmitterEvent,
         ResponseTimedOut, ModeEvent, SettleAtExpiry, ExpiryErrorType
    <3>2. Handles("ERROR_PROCESS")'
      BY <1>7, <2>1, <3>1, PostWakes
    <3>3. "garbled" \in Ends /\ BitOf["garbled"] = "RECEIVE_DATA"
      BY DEF Ends, BitOf
    <3>4. Erring(a)'
      BY <2>2, <2>6, <3>1, <3>2, <3>3 DEF Erring, WillHandle
    <3>5. QED
      BY <2>4, <2>6, <3>1, <3>3, <3>4 DEF InRequestOf
  <2>11. QED
    BY <1>7, <2>7, <2>8, <2>9, <2>10 DEF Hearing
<1>8. QED
  BY <1>1, <1>5, <1>6, <1>7, AtRestPhase

-----------------------------------------------------------------------------
LEMMA InitIdeal == Init => IdealInv
<1> SUFFICES ASSUME Init PROVE IdealInv
  OBVIOUS
<1> USE DEF Init, PortInit, LinkInit
<1>1. Undisturbed
  BY DEF Undisturbed
<1>2. \A b \in Apps : Caller(b)
  BY DEF Caller
<1>3. Starting
  BY DEF Starting, NobodyAsks, Booting, Listening, TransRests
<1>4. QED
  BY <1>1, <1>2, <1>3 DEF IdealInv

LEMMA PollIdeal ==
  ASSUME TypeOK, IdealInv, PollStep
  PROVE  IdealInv'
<1>1. ~PollNothing
  <2>1. /\ "NONE" # "READY" /\ "NONE" # "FRAME_SENT" /\ "NONE" # "EXECUTE"
        /\ "NONE" # "FRAME_RECEIVED" /\ "NONE" # "ERROR_PROCESS"
    OBVIOUS
  <2>2. QED
    BY <2>1, WhileDispatching DEF PollNothing
<1>2. QED
  BY <1>1, StartIdeal, PollGetIdeal, ReadyIdeal, ReceiveIdeal, AcceptIdeal,
     RejectIdeal, ExecuteIdeal, SucceedIdeal, ErrorProcessIdeal,
     ReleaseIdeal, SendIdeal, LoadIdeal, EnableTransmitterIdeal DEF PollStep

LEMMA StutterIdeal ==
  ASSUME IdealInv, UNCHANGED vars
  PROVE  IdealInv'
<1> USE DEF vars, portVars, linkVars, historyVars, pollVars
<1>1. Undisturbed'
  BY DEF IdealInv, Undisturbed
<1>2. \A b \in Apps : Caller(b)'
  BY DEF IdealInv, Caller
<1>3. UNCHANGED <<Starting, Free, Releasing>>
  BY DEF Starting, NobodyAsks, Booting, Settling, Announced, Free, Releasing,
     NoRequester, PollRests, Handles, TransRests, Listening, Quiet
<1>4. ASSUME NEW a \in Apps PROVE InRequestOf(a) <=> InRequestOf(a)'
  BY DEF InRequestOf, Asking, Posted, Loading, Loaded, Sending, Ending,
     Awaiting, Hearing, Received, Judging, Executable, Executed, Erring,
     PollRests, WillHandle, Handles, TransRests, Listening, Quiet, Waits,
     LinkSends, OnWire, Sleeps, FrameChecked
<1>5. Serving => Serving'
  BY <1>3, <1>4 DEF Serving, Holds
<1>6. QED
  BY <1>1, <1>2, <1>3, <1>5 DEF IdealInv

LEMMA NextIdeal ==
  ASSUME Faults = {}, TypeOK, IdealInv, [Next]_vars
  PROVE  IdealInv'
<1>1. CASE UNCHANGED vars
  BY <1>1, StutterIdeal
<1>2. CASE PollStep
  BY <1>2, PollIdeal
<1>3. CASE TransStep /\ UNCHANGED pollVars
  BY <1>3, TransIdeal
<1>4. CASE \E a \in Apps : AppStep(a) \/ xMBMasterRunResTake(a)
                           \/ TakeTimedOut(a)
  BY <1>4, SetDestIdeal, FillIdeal, PostIdeal, WaitIdeal, ReturnIdeal,
     TakeIdeal, TimedOutIdeal DEF AppStep
<1>5. CASE ByteArrives \/ TimerTick
  BY <1>5, ByteIdeal, TickIdeal
<1>6. CASE ControlStep
  BY <1>6 DEF ControlStep
<1>7. QED
  BY <1>1, <1>2, <1>3, <1>4, <1>5, <1>6 DEF Next

LEMMA IdealInvariant == Faults = {} => (Spec => [](TypeOK /\ IdealInv))
<1> SUFFICES ASSUME Faults = {} PROVE Spec => [](TypeOK /\ IdealInv)
  OBVIOUS
<1>1. Init => IdealInv
  BY InitIdeal
<1>2. TypeOK /\ IdealInv /\ [Next]_vars => IdealInv'
  BY NextIdeal
<1>3. QED
  BY <1>1, <1>2, TypeCorrect, PTL DEF Spec

-----------------------------------------------------------------------------
(* On an ideal bus one requester at a time uses the master, although the   *)
(* poll thread gives the semaphore back and not the requester.             *)
THEOREM OneRequesterAtATime == Faults = {} => (Spec => []OneRequester)
<1> SUFFICES ASSUME Faults = {} PROVE Spec => []OneRequester
  OBVIOUS
<1>1. IdealInv => OneRequester
  <2> SUFFICES ASSUME IdealInv PROVE OneRequester
    OBVIOUS
  <2>1. sem \in {0, 1}
    BY DEF IdealInv, Starting, NobodyAsks, Serving, Free, Releasing, Holds
  <2>2. ASSUME NEW a \in Apps, NEW b \in Apps,
               appPc[a] \in InRequest, appPc[b] \in InRequest
        PROVE  a = b
    <3>1. PICK c \in Apps : Holds(c)
      BY <2>2 DEF IdealInv, Starting, NobodyAsks, Serving, Free, Releasing,
         NoRequester, InRequest
    <3>2. QED
      BY <2>2, <3>1, SoleHolder
  <2>3. QED
    BY <2>1, <2>2 DEF OneRequester
<1>2. QED
  BY <1>1, IdealInvariant, PTL

(* On an ideal bus every call returns the end of its own frame.            *)
THEOREM EachCallGetsItsResult == Faults = {} => (Spec => []OwnResult)
<1> SUFFICES ASSUME Faults = {} PROVE Spec => []OwnResult
  OBVIOUS
<1>1. IdealInv => OwnResult
  <2> SUFFICES ASSUME IdealInv, NEW a \in Apps, appPc[a] = "woken"
               PROVE  RequestCode(appGot[a]) = ReturnedAs[fate[a]]
    BY DEF OwnResult
  <2>1. fate[a] \in Ends /\ appGot[a] = {BitOf[fate[a]]}
    BY DEF IdealInv, Caller
  <2>2. QED
    BY <2>1 DEF Ends, BitOf, RequestCode, ReturnedAs
<1>2. QED
  BY <1>1, IdealInvariant, PTL

(* On an ideal bus neither receiver of the event object gets two bits.     *)
THEOREM BitsNeverMerge == Faults = {} => (Spec => []NoMergedEvents)
<1> SUFFICES ASSUME Faults = {} PROVE Spec => []NoMergedEvents
  OBVIOUS
<1>1. IdealInv => NoMergedEvents
  <2> SUFFICES ASSUME IdealInv PROVE NoMergedEvents
    OBVIOUS
  <2>1. ASSUME pollPc = "dispatch"
        PROVE  \E e \in PollEvents : pollGot = {e}
    <3>1. CASE Starting
      BY <2>1, <3>1 DEF Starting, Booting, Settling, Announced, PollRests,
         Handles, PollEvents
    <3>2. CASE Serving
      <4>1. PICK a \in Apps : InRequestOf(a)
        BY <2>1, <3>2 DEF Serving, Free, Releasing, PollRests
      <4>2. Posted(a) \/ Received(a) \/ Executable(a) \/ Erring(a)
        BY <2>1, <4>1 DEF InRequestOf, Asking, Loading, Loaded, Sending,
           Ending, Awaiting, Hearing, Judging, Executed, PollRests
      <4>3. QED
        BY <2>1, <4>2 DEF Posted, Received, Executable, Erring, WillHandle,
           Handles, PollEvents
    <3>3. QED
      BY <3>1, <3>2 DEF IdealInv
  <2>2. ASSUME NEW a \in Apps, appPc[a] = "woken"
        PROVE  \E e \in AppEvents : appGot[a] = {e}
    <3>1. fate[a] \in Ends /\ appGot[a] = {BitOf[fate[a]]}
      BY <2>2 DEF IdealInv, Caller
    <3>2. BitOf[fate[a]] \in AppEvents
      BY <3>1 DEF Ends, BitOf, AppEvents, ErrorTypes
    <3>3. QED
      BY <3>1, <3>2
  <2>3. QED
    BY <2>1, <2>2 DEF NoMergedEvents
<1>2. QED
  BY <1>1, IdealInvariant, PTL

(* On an ideal bus no assertion on the state of the link ever fails.       *)
THEOREM StateAssertionsNeverFail ==
  Faults = {} => (Spec => []StateAssertionsHold)
<1> SUFFICES ASSUME Faults = {} PROVE Spec => []StateAssertionsHold
  OBVIOUS
<1>1. IdealInv => StateAssertionsHold
  BY DEF IdealInv, Undisturbed, StateAssertionsHold
<1>2. QED
  BY <1>1, IdealInvariant, PTL

(* On an ideal bus a handler is only run on a whole frame from the slave   *)
(* that was asked, or on the broadcast that was sent.                      *)
THEOREM OnlyCheckedFrames == Faults = {} => (Spec => []ExecutesCheckedFrame)
<1> SUFFICES ASSUME Faults = {} PROVE Spec => []ExecutesCheckedFrame
  OBVIOUS
<1>1. IdealInv => ExecutesCheckedFrame
  <2> SUFFICES ASSUME IdealInv, pollPc = "dispatch", pollGot = {"EXECUTE"}
               PROVE  IF frame = "rcv"
                      THEN /\ pos >= PduSizeMin /\ rcvBuf.crc
                           /\ rcvBuf.addr = dest /\ dest # 0 /\ ~broadcast
                      ELSE broadcast
    BY DEF ExecutesCheckedFrame
  <2>1. "EXECUTE" \in EventsRead(pollGot)
    BY SingleEvent
  <2>2. PICK a \in Apps : Executable(a)
    BY <2>1, WhileDispatching
  <2>3. QED
    BY <2>2 DEF Executable, FrameChecked
<1>2. QED
  BY <1>1, IdealInvariant, PTL

(* On an ideal bus the send buffer keeps what a requester put there until  *)
(* the end of its exchange is known.                                       *)
THEOREM SendBufferStays == Faults = {} => (Spec => SendBufferStable)
<1> SUFFICES ASSUME Faults = {} PROVE Spec => SendBufferStable
  OBVIOUS
<1>1. IdealInv /\ [Next]_vars => [ExchangeOpen => UNCHANGED sndBuf]_vars
  <2> SUFFICES ASSUME IdealInv, Next, NEW a \in Apps,
                      appPc[a] \in {"recv", "wait"}
               PROVE  UNCHANGED sndBuf
    BY DEF ExchangeOpen
  <2>1. ASSUME NEW b \in Apps PROVE ~FillFrame(b)
    <3>1. SUFFICES ASSUME appPc[b] = "fill" PROVE FALSE
      BY DEF FillFrame
    <3>2. Holds(b)
      BY <3>1, WhilePreparing
    <3>3. QED
      BY <3>1, <3>2, SoleHolder DEF InRequest
  <2>2. CASE PollStep
    BY <2>2 DEF PollStep, eMBMasterRTUStart, Enabled, PollGet, PollNothing,
       PollReadyEvent, PollReceive, PollAccept, PollReject, PollExecute,
       PollSucceed, PollErrorProcess, PollRelease, PollSend, SendLoad,
       SendEnableTransmitter, linkVars
  <2>3. CASE TransStep
    BY <2>3 DEF TransStep, TransmitFSM, TransmitEnableReceiver,
       TransmitClearEvent, TransmitFinished, TransmitArmTimer
  <2>4. CASE \E b \in Apps : AppStep(b) \/ xMBMasterRunResTake(b)
                             \/ TakeTimedOut(b)
    BY <2>1, <2>4 DEF AppStep, vMBMasterSetDestAddress, PostFrameSent,
       WaitRequestFinish, Return, xMBMasterRunResTake, TakeTimedOut, linkVars
  <2>5. CASE ByteArrives \/ TimerTick
    BY <2>5 DEF ByteArrives, ReceiveByte, TimerTick, TimerExpired
  <2>6. CASE ControlStep
    BY <2>6 DEF ControlStep, eMBMasterRTUStop, Disabled, Restart, Restarted,
       linkVars
  <2>7. QED
    BY <2>2, <2>3, <2>4, <2>5, <2>6 DEF Next
<1>2. QED
  BY <1>1, IdealInvariant, PTL DEF Spec, SendBufferStable
=============================================================================
