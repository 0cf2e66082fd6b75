------------------------ MODULE MasterRequestsProofs ------------------------
(* The promises of MasterRequests follow from its steps, for any number of *)
(* threads and any priorities.                                             *)
EXTENDS MasterRequests, TLAPS

(* Type correctness: every call, the fate of its frame and its result keep *)
(* their ranges, whatever the order of the steps of any number of threads. *)
THEOREM PromisesWellTyped == Spec => []TypeOK
<1>1. Init => TypeOK
  BY DEF Init, TypeOK
<1>2. TypeOK /\ [Next]_vars => TypeOK'
  <2> SUFFICES ASSUME TypeOK, [Next]_vars PROVE TypeOK'
    OBVIOUS
  <2>1. ASSUME NEW a \in Apps, Ask(a) \/ Queue(a) \/ GiveUp(a)
        PROVE TypeOK'
    BY <2>1 DEF TypeOK, Ask, Queue, GiveUp
  <2>2. ASSUME NEW a \in Apps, Send(a) PROVE TypeOK'
    BY <2>2 DEF TypeOK, Send
  <2>3. ASSUME NEW a \in Apps, NEW e \in Ends, End(a, e) PROVE TypeOK'
    BY <2>3 DEF TypeOK, End
  <2>4. ASSUME NEW a \in Apps, Deliver(a) PROVE TypeOK'
    BY <2>4 DEF TypeOK, Deliver
  <2>5. ASSUME NEW a \in Apps, Return(a) PROVE TypeOK'
    BY <2>5 DEF TypeOK, Return
  <2>6. ASSUME NEW a \in Apps, PassOn(a) PROVE TypeOK'
    BY <2>6 DEF TypeOK, PassOn
  <2>7. CASE Release
    BY <2>7 DEF TypeOK, Release
  <2>8. CASE UNCHANGED vars
    BY <2>8 DEF TypeOK, vars
  <2> QED
    BY <2>1, <2>2, <2>3, <2>4, <2>5, <2>6, <2>7, <2>8 DEF Next
<1> QED
  BY <1>1, <1>2, PTL DEF Spec

-----------------------------------------------------------------------------
(* A call uses the master only when it was available, or passed on when    *)
(* nobody was asking: at most one at a time does (OneAtATime).             *)
THEOREM PromisesOneAtATime == Spec => []OneAtATime
<1>1. Init => OneAtATime
  BY DEF Init, OneAtATime
<1>2. TypeOK /\ OneAtATime /\ [Next]_vars => OneAtATime'
  <2> SUFFICES ASSUME TypeOK, OneAtATime, [Next]_vars PROVE OneAtATime'
    OBVIOUS
  <2> USE DEF TypeOK, OneAtATime
  <2>1. ASSUME NEW a \in Apps, Ask(a) PROVE OneAtATime'
    BY <2>1 DEF Ask
  <2>2. ASSUME NEW a \in Apps, Queue(a) \/ GiveUp(a) PROVE OneAtATime'
    BY <2>2 DEF Queue, GiveUp
  <2>3. ASSUME NEW a \in Apps, Send(a) \/ \E e \in Ends : End(a, e)
        PROVE OneAtATime'
    BY <2>3 DEF Send, End
  <2>4. ASSUME NEW a \in Apps, Deliver(a) \/ Return(a) PROVE OneAtATime'
    BY <2>4 DEF Deliver, Return
  <2>5. ASSUME NEW a \in Apps, PassOn(a) PROVE OneAtATime'
    BY <2>5 DEF PassOn, Ended
  <2>6. CASE Release
    BY <2>6 DEF Release, Ended
  <2>7. CASE UNCHANGED vars
    BY <2>7 DEF vars
  <2> QED
    BY <2>1, <2>2, <2>3, <2>4, <2>5, <2>6, <2>7 DEF Next
<1> QED
  BY <1>1, <1>2, PromisesWellTyped, PTL DEF Spec

-----------------------------------------------------------------------------
(* A call that has returned keeps the end of its frame until the caller    *)
(* goes on, and says that end (Truthful).                                  *)
THEOREM PromisesTruthful == Spec => []Truthful
<1>1. Init => Truthful
  BY DEF Init, Truthful
<1>2. TypeOK /\ Truthful /\ [Next]_vars => Truthful'
  <2> SUFFICES ASSUME TypeOK, Truthful, [Next]_vars PROVE Truthful'
    OBVIOUS
  <2> USE DEF TypeOK, Truthful
  <2>1. ASSUME NEW a \in Apps, Ask(a) \/ Queue(a) \/ GiveUp(a) \/ PassOn(a)
        PROVE Truthful'
    BY <2>1 DEF Ask, Queue, GiveUp, PassOn
  <2>2. ASSUME NEW a \in Apps, Send(a) \/ \E e \in Ends : End(a, e)
        PROVE Truthful'
    BY <2>2 DEF Send, End
  <2>3. ASSUME NEW a \in Apps, Deliver(a) PROVE Truthful'
    BY <2>3 DEF Deliver
  <2>4. ASSUME NEW a \in Apps, Return(a) PROVE Truthful'
    BY <2>4 DEF Return
  <2>5. CASE Release
    BY <2>5 DEF Release
  <2>6. CASE UNCHANGED vars
    BY <2>6 DEF vars
  <2> QED
    BY <2>1, <2>2, <2>3, <2>4, <2>5, <2>6 DEF Next
<1> QED
  BY <1>1, <1>2, PromisesWellTyped, PTL DEF Spec
=============================================================================
