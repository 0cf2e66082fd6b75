------------------------ MODULE MasterRefinementProofs ------------------------
(***************************************************************************)
(* On an ideal bus the master keeps the promises of MasterRequests: every  *)
(* step of MasterStack is a step of MasterRequests under the mapping of    *)
(* MasterRefinement, or changes nothing a caller can see.                  *)
(***************************************************************************)
EXTENDS MasterIdealProofs

(* The mapped variables. *)
Calls == [a \in Apps |-> CallOf(a)]

Results ==
  [a \in Apps |-> IF appPc[a] = "woken" THEN RequestCode(appGot[a])
                  ELSE "none"]

(* The call of a thread that is at the place pc.                           *)
CallAt(pc) ==
  IF pc \in InRequest THEN "asking"
  ELSE IF pc = "blocked" THEN "queued"
  ELSE IF pc = "woken" THEN "returned" ELSE "idle"

Promised == Requests!Next \/ UNCHANGED Requests!vars

-----------------------------------------------------------------------------
LEMMA CallIsAt ==
  ASSUME NEW a \in Apps
  PROVE  Calls[a] = CallAt(appPc[a])
BY DEF Calls, CallOf, CallAt

LEMMA CallPlaces ==
  /\ CallAt("idle") = "idle" /\ CallAt("blocked") = "queued"
  /\ CallAt("dest") = "asking" /\ CallAt("wait") = "asking"
  /\ CallAt("woken") = "returned"
  /\ "idle" \in AppPcs /\ "blocked" \in AppPcs /\ "dest" \in AppPcs
  /\ "woken" \in AppPcs /\ InRequest \subseteq AppPcs
BY DEF CallAt, InRequest, AppPcs

(* The mapping after one thread has moved.                                 *)
LEMMA CallsAfter ==
  ASSUME TypeOK, NEW a \in Apps, NEW pc \in AppPcs,
         appPc' = [appPc EXCEPT ![a] = pc]
  PROVE  Calls' = [Calls EXCEPT ![a] = CallAt(pc)]
BY Functions DEF Calls, CallOf, CallAt

LEMMA SameResults ==
  ASSUME TypeOK, NEW a \in Apps, NEW pc \in AppPcs,
         appPc' = [appPc EXCEPT ![a] = pc],
         appPc[a] # "woken", pc # "woken", UNCHANGED appGot
  PROVE  Results' = Results
BY Functions DEF Results

LEMMA SameCalls ==
  ASSUME TypeOK, NEW a \in Apps, NEW pc \in AppPcs,
         appPc' = [appPc EXCEPT ![a] = pc],
         CallAt(pc) = CallAt(appPc[a])
  PROVE  Calls' = Calls
BY Functions DEF Calls, CallOf, CallAt

(* A step no caller sees. *)
LEMMA Unseen ==
  ASSUME UNCHANGED <<appPc, appGot, fate, sem>>
  PROVE  Promised
<1>1. Calls' = Calls /\ Results' = Results
  BY DEF Calls, Results, CallOf
<1>2. UNCHANGED Requests!vars
  BY <1>1 DEF Requests!vars, Calls, Results
<1>3. QED
  BY <1>2 DEF Promised

LEMMA Moves ==
  ASSUME Calls' = Calls, Results' = Results, UNCHANGED <<fate, sem>>
  PROVE  Promised
BY DEF Requests!vars, Calls, Results, Promised

-----------------------------------------------------------------------------
LEMMA TakePromised ==
  ASSUME TypeOK, NEW a \in Apps, xMBMasterRunResTake(a), IdealInv
  PROVE  Promised
<1> USE DEF xMBMasterRunResTake
<1>1. appPc[a] = "idle" /\ UNCHANGED <<appGot, fate>>
  BY DEF historyVars
<1>2. Calls[a] = "idle"
  BY <1>1, CallIsAt, CallPlaces
<1>3. CASE sem > 0
  <2>1. sem' = sem - 1 /\ appPc' = [appPc EXCEPT ![a] = "dest"]
    BY <1>3
  <2>2. /\ Calls' = [Calls EXCEPT ![a] = "asking"]
        /\ Results' = Results
    BY <1>1, <2>1, CallsAfter, CallPlaces, SameResults
  <2>3. sem = 1
    BY <1>3 DEF IdealInv, Starting, NobodyAsks, Serving, Free, Releasing,
       Holds
  <2>4. (sem > 0) = TRUE /\ (sem' > 0) = FALSE
    BY <2>1, <2>3
  <2>5. Requests!Ask(a)
    BY <1>1, <1>2, <2>2, <2>4 DEF Requests!Ask, Calls, Results
  <2>6. QED
    BY <2>5 DEF Requests!Next, Promised
<1>4. CASE ~(sem > 0)
  <2>1. sem' = sem /\ appPc' = [appPc EXCEPT ![a] = "blocked"]
    BY <1>4
  <2>2. /\ Calls' = [Calls EXCEPT ![a] = "queued"]
        /\ Results' = Results
    BY <1>1, <2>1, CallsAfter, CallPlaces, SameResults
  <2>3. Requests!Queue(a)
    BY <1>1, <1>2, <1>4, <2>1, <2>2 DEF Requests!Queue, Calls, Results
  <2>4. QED
    BY <2>3 DEF Requests!Next, Promised
<1>5. QED
  BY <1>3, <1>4

LEMMA TimedOutPromised ==
  ASSUME TypeOK, NEW a \in Apps, TakeTimedOut(a)
  PROVE  Promised
<1> USE DEF TakeTimedOut
<1>1. /\ appPc[a] = "blocked" /\ appPc' = [appPc EXCEPT ![a] = "idle"]
      /\ UNCHANGED <<appGot, fate, sem>>
  BY DEF historyVars
<1>2. Calls[a] = "queued"
  BY <1>1, CallIsAt, CallPlaces
<1>3. /\ Calls' = [Calls EXCEPT ![a] = "idle"]
      /\ Results' = Results
  BY <1>1, CallsAfter, CallPlaces, SameResults
<1>4. Requests!GiveUp(a)
  BY <1>1, <1>2, <1>3 DEF Requests!GiveUp, Calls, Results
<1>5. QED
  BY <1>4 DEF Requests!Next, Promised

LEMMA ReturnPromised ==
  ASSUME TypeOK, NEW a \in Apps, Return(a)
  PROVE  Promised
<1> USE DEF Return
<1>1. /\ appPc[a] = "woken" /\ appPc' = [appPc EXCEPT ![a] = "idle"]
      /\ UNCHANGED sem
  OBVIOUS
<1>2. Calls[a] = "returned"
  BY <1>1, CallIsAt, CallPlaces
<1>3. Calls' = [Calls EXCEPT ![a] = "idle"]
  BY <1>1, CallsAfter, CallPlaces
<1>4. Results' = [Results EXCEPT ![a] = "none"]
  BY Functions DEF Results
<1>5. Requests!Return(a)
  BY <1>1, <1>2, <1>3, <1>4 DEF Requests!Return, Calls, Results
<1>6. QED
  BY <1>5 DEF Requests!Next, Promised

LEMMA RequesterPromised ==
  ASSUME TypeOK, IdealInv, NEW a \in Apps,
         \/ vMBMasterSetDestAddress(a) \/ FillFrame(a) \/ PostFrameSent(a)
         \/ WaitRequestFinish(a)
  PROVE  Promised
<1>1. PICK pc \in InRequest : appPc' = [appPc EXCEPT ![a] = pc]
  BY DEF vMBMasterSetDestAddress, FillFrame, PostFrameSent,
     WaitRequestFinish, WaitForResult, IdealInv, Undisturbed, InRequest
<1>2. appPc[a] \in InRequest /\ UNCHANGED <<appGot, fate, sem>>
  BY DEF vMBMasterSetDestAddress, FillFrame, PostFrameSent,
     WaitRequestFinish, WaitForResult, IdealInv, Undisturbed, InRequest,
     historyVars
<1>3. Calls' = Calls
  BY <1>1, <1>2, SameCalls, CallPlaces DEF CallAt
<1>4. Results' = Results
  BY <1>1, <1>2, SameResults, CallPlaces DEF InRequest
<1>5. QED
  BY <1>2, <1>3, <1>4, Moves

-----------------------------------------------------------------------------
(* The frame of a requester goes out, or comes to an end.                  *)
LEMMA SentPromised ==
  ASSUME TypeOK, NEW a \in Apps, appPc[a] \in InRequest, fate[a] = "unsent",
         fate' = [fate EXCEPT ![a] = "sent"], UNCHANGED <<appPc, appGot, sem>>
  PROVE  Promised
<1>1. Calls[a] = "asking"
  BY CallIsAt DEF CallAt
<1>2. Calls' = Calls /\ Results' = Results
  BY DEF Calls, Results, CallOf
<1>3. Requests!Send(a)
  BY <1>1, <1>2 DEF Requests!Send, Calls, Results
<1>4. QED
  BY <1>3 DEF Requests!Next, Promised

LEMMA EndPromised ==
  ASSUME TypeOK, NEW a \in Apps, appPc[a] \in InRequest, fate[a] = "sent",
         NEW f \in Ends, fate' = [fate EXCEPT ![a] = f],
         UNCHANGED <<appPc, appGot, sem>>
  PROVE  Promised
<1>1. Calls[a] = "asking"
  BY CallIsAt DEF CallAt
<1>2. Calls' = Calls /\ Results' = Results
  BY DEF Calls, Results, CallOf
<1>3. f \in Requests!Ends
  BY DEF Ends, Requests!Ends
<1>4. Requests!End(a, f)
  BY <1>1, <1>2 DEF Requests!End, Calls, Results
<1>5. QED
  BY <1>3, <1>4 DEF Requests!Next, Promised

(* A sleeping requester is told of the end of its frame.                   *)
LEMMA DeliverPromised ==
  ASSUME TypeOK, NEW a \in Apps, Holds(a), appPc[a] = "wait",
         fate[a] \in Ends, SendToRequester(BitOf[fate[a]]),
         UNCHANGED <<fate, sem>>
  PROVE  Promised
<1>1. /\ appPc' = [appPc EXCEPT ![a] = "woken"]
      /\ appGot' = [appGot EXCEPT ![a] = {BitOf[fate[a]]}]
  BY TheSleeper
<1>2. Calls[a] = "asking"
  BY CallIsAt, CallPlaces
<1>3. Calls' = [Calls EXCEPT ![a] = "returned"]
  BY <1>1, CallsAfter, CallPlaces
<1>4. RequestCode({BitOf[fate[a]]}) = Requests!Says[fate[a]]
  BY DEF Ends, BitOf, RequestCode, Requests!Says
<1>5. Results' = [Results EXCEPT ![a] = RequestCode({BitOf[fate[a]]})]
  BY <1>1, Functions DEF Results
<1>6. fate[a] \in Requests!Ends
  BY DEF Ends, Requests!Ends
<1>7. Requests!Deliver(a)
  BY <1>2, <1>3, <1>4, <1>5, <1>6 DEF Requests!Deliver, Calls, Results
<1>8. QED
  BY <1>7 DEF Requests!Next, Promised

(* The poll thread gives the master back, to the most urgent thread that   *)
(* waits for it if there is one.                                           *)
LEMMA ReleasePromised ==
  ASSUME TypeOK, IdealInv, PollRelease
  PROVE  Promised
<1> USE DEF PollRelease
<1>1. Releasing /\ UNCHANGED <<appGot, fate>>
  BY WhilePast DEF historyVars
<1>2. sem = 0 /\ \A b \in Apps : appPc[b] \notin InRequest
  BY <1>1 DEF Releasing, NoRequester
<1>3. \A b \in Apps : Calls[b] # "asking"
  BY <1>2, CallIsAt DEF CallAt
<1>4. \A b \in Apps : Calls[b] = "queued" <=> appPc[b] = "blocked"
  BY CallIsAt DEF CallAt, InRequest
<1>5. Requests!Queued = Suspended("blocked")
  BY <1>4 DEF Requests!Queued, Suspended, Calls
<1>6. Requests!Ended
  BY <1>2, <1>3 DEF Requests!Ended, Calls
<1>7. CASE Suspended("blocked") = {}
  <2>1. sem' = 1 /\ UNCHANGED appPc
    BY <1>2, <1>7 DEF vMBMasterRunResRelease
  <2>2. Calls' = Calls /\ Results' = Results
    BY <1>1, <2>1 DEF Calls, Results, CallOf
  <2>3. (sem' > 0) = TRUE
    BY <2>1
  <2>4. Requests!Release
    BY <1>1, <1>5, <1>6, <1>7, <2>2, <2>3
    DEF Requests!Release, Calls, Results
  <2>5. QED
    BY <2>4 DEF Requests!Next, Promised
<1>8. CASE Suspended("blocked") # {}
  <2>1. PICK a \in MostUrgent(Suspended("blocked")) :
          appPc' = [appPc EXCEPT ![a] = "dest"] /\ sem' = sem
    BY <1>8 DEF vMBMasterRunResRelease
  <2>2. /\ a \in Suspended("blocked") /\ a \in Apps /\ appPc[a] = "blocked"
        /\ \A b \in Suspended("blocked") : Prio[a] <= Prio[b]
    BY DEF MostUrgent, Suspended
  <2>3. /\ Calls' = [Calls EXCEPT ![a] = "asking"]
        /\ Results' = Results
    BY <1>1, <2>1, <2>2, CallsAfter, CallPlaces, SameResults
  <2>4. Requests!PassOn(a)
    BY <1>1, <1>5, <1>6, <2>1, <2>2, <2>3
    DEF Requests!PassOn, Calls, Results
  <2>5. QED
    BY <2>2, <2>4 DEF Requests!Next, Promised
<1>9. QED
  BY <1>7, <1>8

-----------------------------------------------------------------------------
LEMMA PollPromised ==
  ASSUME TypeOK, IdealInv, PollStep
  PROVE  Promised
<1>1. CASE PollReject
  <2>1. PICK a \in Apps : Judging(a)
    BY <1>1, WhilePast DEF PollReject
  <2>2. /\ wireBy = a /\ fate[a] = "sent" /\ appPc[a] \in InRequest
    BY <2>1 DEF Judging, Sleeps, InRequest
  <2>3. fate' = [fate EXCEPT ![a] = "garbled"]
    BY <1>1, <2>2, SettleHolder DEF PollReject
  <2>4. "garbled" \in Ends /\ UNCHANGED <<appPc, appGot, sem>>
    BY <1>1 DEF PollReject, Ends
  <2>5. QED
    BY <2>2, <2>3, <2>4, EndPromised
<1>2. CASE PollExecute
  <2>1. PICK a \in Apps : Executable(a)
    BY <1>2, WhileDispatching DEF PollExecute
  <2>2. /\ wireBy = a /\ fate[a] = "sent" /\ appPc[a] \in InRequest
    BY <2>1 DEF Executable, Sleeps, InRequest
  <2>3. PICK f \in Ends : Settle(f)
    BY <1>2 DEF PollExecute, Ends
  <2>4. fate' = [fate EXCEPT ![a] = f]
    BY <2>2, <2>3, SettleHolder
  <2>5. UNCHANGED <<appPc, appGot, sem>>
    BY <1>2 DEF PollExecute
  <2>6. QED
    BY <2>2, <2>4, <2>5, EndPromised
<1>3. CASE PollSucceed
  <2>1. PICK a \in Apps : Holds(a) /\ Executed(a)
    BY <1>3, WhilePast DEF PollSucceed
  <2>2. appPc[a] = "wait" /\ fate[a] \in Ends
    BY <2>1 DEF Executed, Sleeps, Ends
  <2>3. SendToRequester(BitOf[fate[a]]) /\ UNCHANGED <<fate, sem>>
    BY <1>3, <2>1 DEF PollSucceed, Executed, BitOf, historyVars
  <2>4. QED
    BY <2>1, <2>2, <2>3, DeliverPromised
<1>4. CASE PollErrorProcess
  <2>1. PICK a \in Apps : Holds(a) /\ Erring(a)
    BY <1>4, WhileDispatching DEF PollErrorProcess
  <2>2. appPc[a] = "wait" /\ fate[a] \in Ends
    BY <2>1 DEF Erring, Sleeps
  <2>3. SendToRequester(BitOf[fate[a]]) /\ UNCHANGED <<fate, sem>>
    BY <1>4, <2>1 DEF PollErrorProcess, Erring, historyVars
  <2>4. QED
    BY <2>1, <2>2, <2>3, DeliverPromised
<1>5. CASE PollRelease
  BY <1>5, ReleasePromised
<1>6. CASE ~(PollReject \/ PollExecute \/ PollSucceed \/ PollErrorProcess
             \/ PollRelease)
  <2>1. UNCHANGED <<appPc, appGot, fate, sem>>
    BY <1>6 DEF PollStep, eMBMasterRTUStart, Enabled, PollGet,
       xMBMasterPortEventGet, PollNothing, PollReadyEvent, PollReceive,
       PollAccept, PollSend, SendLoad, SendEnableTransmitter, historyVars
  <2>2. QED
    BY <2>1, Unseen
<1>7. QED
  BY <1>1, <1>2, <1>3, <1>4, <1>5, <1>6

LEMMA TransPromised ==
  ASSUME TypeOK, IdealInv, TransStep
  PROVE  Promised
<1>1. UNCHANGED <<appPc, appGot, sem>>
  BY DEF TransStep, TransmitFSM, TransmitEnableReceiver, TransmitClearEvent,
     TransmitFinished, TransmitArmTimer, portVars
<1>2. CASE TransmitFSM /\ TransmitterDone
  <2>1. snd = "XMIT" /\ transPc = "wait" /\ txEvt
    BY <1>2 DEF TransmitFSM, TransmitterDone
  <2>2. ~Starting /\ ~Free /\ ~Releasing
    BY <2>1 DEF Starting, Booting, Settling, Announced, Free, Releasing,
       Quiet, Listening
  <2>3. PICK a \in Apps : Holds(a) /\ InRequestOf(a)
    BY <2>2 DEF IdealInv, Serving
  <2>4. Sending(a)
    BY <2>1, <2>3 DEF InRequestOf, Asking, Posted, Loading, Loaded, Ending,
       Awaiting, Hearing, Received, Judging, Executable, Executed, Erring,
       Sleeps, Quiet, Listening, TransRests
  <2>5. wireBy = a /\ fate[a] = "unsent" /\ appPc[a] \in InRequest
    BY <2>3, <2>4 DEF Sending, Waits, Holds
  <2>6. fate' = [fate EXCEPT ![a] = "sent"]
    BY <1>2, <2>5 DEF TransmitterDone
  <2>7. QED
    BY <1>1, <2>5, <2>6, SentPromised
<1>3. CASE ~(TransmitFSM /\ TransmitterDone)
  <2>1. UNCHANGED fate
    BY <1>3 DEF TransStep, TransmitFSM, TransmitEnableReceiver,
       TransmitClearEvent, TransmitFinished, TransmitArmTimer,
       TransmitterIdle, TransmitterPutByte, TransmitterSpins, historyVars
  <2>2. QED
    BY <1>1, <2>1, Unseen
<1>4. QED
  BY <1>2, <1>3

LEMMA TickPromised ==
  ASSUME Faults = {}, TypeOK, IdealInv, TimerTick
  PROVE  Promised
<1> USE DEF TimerTick, TimerExpired
<1>1. AllBlocked /\ UNCHANGED <<appPc, appGot, sem>>
  BY DEF InterruptsMayRun
<1>2. CASE UNCHANGED fate
  BY <1>1, <1>2, Unseen
<1>3. ASSUME NEW f \in Ends, Settle(f), fate' # fate
      PROVE  Promised
  <2>1. wireBy \in Apps /\ fate[wireBy] = "sent"
        /\ fate' = [fate EXCEPT ![wireBy] = f]
    BY <1>3 DEF Settle
  <2>2. appPc[wireBy] \in {"recv", "wait", "woken"}
    BY <2>1 DEF IdealInv, Caller
  <2>3. appPc[wireBy] # "woken"
    BY <2>1 DEF IdealInv, Caller, Ends
  <2>4. appPc[wireBy] \in InRequest
    BY <2>2, <2>3 DEF InRequest
  <2>5. QED
    BY <1>1, <1>3, <2>1, <2>4, EndPromised
<1>4. SettleAtExpiry => \/ UNCHANGED fate
                        \/ \E f \in Ends : Settle(f)
  BY DEF SettleAtExpiry, Ends
<1>5. QED
  BY <1>2, <1>3, <1>4

-----------------------------------------------------------------------------
LEMMA InitPromised == Init => Requests!Init
<1> SUFFICES ASSUME Init PROVE Requests!Init
  OBVIOUS
<1> USE DEF Init, PortInit, LinkInit
<1>1. (sem > 0) = TRUE
  OBVIOUS
<1>2. Calls = [a \in Apps |-> "idle"]
  BY DEF Calls, CallOf, InRequest
<1>3. Results = [a \in Apps |-> "none"]
  BY DEF Results
<1>4. QED
  BY <1>1, <1>2, <1>3 DEF Requests!Init, Calls, Results

LEMMA NextPromised ==
  ASSUME Faults = {}, TypeOK, IdealInv, [Next]_vars
  PROVE  Promised
<1>1. CASE UNCHANGED vars
  BY <1>1, Unseen DEF vars, portVars, historyVars
<1>2. CASE PollStep
  BY <1>2, PollPromised
<1>3. CASE TransStep
  BY <1>3, TransPromised
<1>4. CASE \E a \in Apps : AppStep(a) \/ xMBMasterRunResTake(a)
                           \/ TakeTimedOut(a)
  BY <1>4, RequesterPromised, ReturnPromised, TakePromised, TimedOutPromised
  DEF AppStep
<1>5. CASE ByteArrives
  BY <1>5, Unseen DEF ByteArrives, ReceiveByte, portVars
<1>6. CASE TimerTick
  BY <1>6, TickPromised
<1>7. CASE ControlStep
  BY <1>7 DEF ControlStep
<1>8. QED
  BY <1>1, <1>2, <1>3, <1>4, <1>5, <1>6, <1>7 DEF Next

(* On an ideal bus the master implements what it promises: calls are       *)
(* served one after the other, the most urgent first, and each returns     *)
(* what became of its own frame, for every number of requesters and every  *)
(* assignment of priorities.                                               *)
THEOREM PromisesKept == Faults = {} => (Spec => KeepsPromises)
<1> SUFFICES ASSUME Faults = {} PROVE Spec => KeepsPromises
  OBVIOUS
<1>1. Init => Requests!Init
  BY InitPromised
<1>2. TypeOK /\ IdealInv /\ [Next]_vars => [Requests!Next]_Requests!vars
  BY NextPromised DEF Promised
<1>3. QED
  BY <1>1, <1>2, IdealInvariant, PTL DEF Spec, KeepsPromises, Requests!Spec
=============================================================================
