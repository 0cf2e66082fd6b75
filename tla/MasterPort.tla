----------------------------- MODULE MasterPort -----------------------------
(***************************************************************************)
(* The port layer of the Modbus master on RT-Thread: the event object      *)
(* xMasterOsEvent, the semaphore xMasterRunRes, and the functions of       *)
(* port/rtt/portevent_m.c that use them.                                   *)
(*                                                                         *)
(* One event object serves two audiences with disjoint masks: the poll     *)
(* thread receives PollEvents, the requesting threads receive AppEvents.   *)
(* It is modelled as two sets of pending bits, evPoll and evApp.           *)
(* rt_event_send resumes a suspended receiver at once with the bit it      *)
(* sent, and leaves the bit pending when no receiver is suspended;         *)
(* rt_event_recv returns, and clears, every pending bit of its mask.       *)
(*                                                                         *)
(* pollPc and appPc are the places of the threads in the code.  "waiting"  *)
(* and "wait" are threads suspended in rt_event_recv, "blocked" a thread   *)
(* suspended in rt_sem_take.                                               *)
(***************************************************************************)
EXTENDS Naturals, FiniteSets

CONSTANTS Apps,      \* threads that call the eMBMasterReq... functions
          Prio,      \* priority of each of them, 0 is the most urgent
          SemMax     \* bound on the semaphore, 65535 in the code

ASSUME AppsAssumption ==
  /\ Apps # {}
  /\ IsFiniteSet(Apps)
  /\ Prio \in [Apps -> Nat]
  /\ SemMax \in Nat \ {0}

VARIABLES evPoll,    \* pending bits of the poll thread's mask
          pollPc,    \* where the poll thread is
          pollGot,   \* the set rt_event_recv returned to the poll thread
          evApp,     \* pending bits of the requesters' mask
          appPc,     \* where each requesting thread is
          appGot,    \* the set rt_event_recv returned to each of them
          sem        \* value of xMasterRunRes

portVars == <<evPoll, pollPc, pollGot, evApp, appPc, appGot, sem>>

-----------------------------------------------------------------------------
(* The two halves of eMBMasterEventType. *)
PollEvents == {"READY", "FRAME_RECEIVED", "EXECUTE", "FRAME_SENT",
               "ERROR_PROCESS"}

ErrorTypes == {"RESPOND_TIMEOUT", "RECEIVE_DATA", "EXECUTE_FUNCTION"}

AppEvents == {"PROCESS_SUCCESS"} \cup ErrorTypes

PollPcs == {"start", "enabled", "get", "waiting", "dispatch", "check",
            "reject", "execute", "succeed", "release", "load", "send",
            "process"}

AppPcs == {"idle", "blocked", "dest", "fill", "post", "recv", "wait", "woken"}

(* A requester from the moment it holds xMasterRunRes until it has its     *)
(* result.                                                                 *)
InRequest == {"dest", "fill", "post", "recv", "wait"}

PollTypeOK ==
  /\ evPoll \in SUBSET PollEvents
  /\ pollPc \in PollPcs
  /\ pollGot \in SUBSET PollEvents

RequesterTypeOK ==
  /\ evApp \in SUBSET AppEvents
  /\ appPc \in [Apps -> AppPcs]
  /\ appGot \in [Apps -> SUBSET AppEvents]
  /\ sem \in 0 .. SemMax

PortTypeOK == PollTypeOK /\ RequesterTypeOK

PortInit ==
  /\ evPoll = {}
  /\ pollPc = "start"
  /\ pollGot = {}
  /\ evApp = {}
  /\ appPc = [a \in Apps |-> "idle"]
  /\ appGot = [a \in Apps |-> {}]
  /\ sem = 1                                \* vMBMasterOsResInit

-----------------------------------------------------------------------------
(* Posts up to three events to the poll thread, in this order; each of     *)
(* first, second, third is {} or a singleton.  A suspended poll thread is  *)
(* resumed by the first bit sent, so the later ones stay pending.          *)
PostInOrder(first, second, third) ==
  LET sent   == first \cup second \cup third
      waking == IF first # {} THEN first
                ELSE IF second # {} THEN second ELSE third
      later  == IF first # {} THEN second \cup third
                ELSE IF second # {} THEN third ELSE {}
  IN  IF pollPc = "waiting" /\ sent # {}
      THEN /\ pollGot' = waking
           /\ pollPc' = "dispatch"
           /\ evPoll' = evPoll \cup later
      ELSE /\ evPoll' = evPoll \cup sent
           /\ UNCHANGED <<pollGot, pollPc>>

xMBMasterPortEventPost(e) == PostInOrder({e}, {}, {})

(* A post by the poll thread itself, which is running and not suspended;   *)
(* the caller says where it goes next.                                     *)
PostToSelf(e) == evPoll' = evPoll \cup {e}

xMBMasterPortEventGet ==
  /\ pollPc = "get"
  /\ IF evPoll # {}
     THEN /\ pollGot' = evPoll
          /\ evPoll' = {}
          /\ pollPc' = "dispatch"
     ELSE /\ pollPc' = "waiting"
          /\ pollGot' = {}
          /\ UNCHANGED evPoll
  /\ UNCHANGED <<evApp, appPc, appGot, sem>>

(* The switch of xMBMasterPortEventGet has no case for a set of several    *)
(* bits: eEvent of eMBMasterPoll, which nothing initialises, is then read  *)
(* as it is, so it may name any event or none.                             *)
EventsRead(set) ==
  IF Cardinality(set) = 1 THEN set ELSE PollEvents \cup {"NONE"}

-----------------------------------------------------------------------------
(* The threads of S that RT_IPC_FLAG_PRIO puts at the head of a wait list. *)
MostUrgent(S) == {a \in S : \A b \in S : Prio[a] <= Prio[b]}

Suspended(pc) == {a \in Apps : appPc[a] = pc}

(* vMBMasterCBRequestScuuess and the three vMBMasterErrorCB functions.     *)
SendToRequester(e) ==
  IF Suspended("wait") = {}
  THEN /\ evApp' = evApp \cup {e}
       /\ UNCHANGED <<appPc, appGot>>
  ELSE \E a \in MostUrgent(Suspended("wait")) :
         /\ appPc' = [appPc EXCEPT ![a] = "woken"]
         /\ appGot' = [appGot EXCEPT ![a] = {e}]
         /\ UNCHANGED evApp

(* rt_sem_release hands the unit to a suspended thread, if there is one.   *)
vMBMasterRunResRelease ==
  IF Suspended("blocked") = {}
  THEN sem < SemMax /\ sem' = sem + 1 /\ UNCHANGED appPc
  ELSE /\ \E a \in MostUrgent(Suspended("blocked")) :
            appPc' = [appPc EXCEPT ![a] = "dest"]
       /\ UNCHANGED sem

(* The receive of eMBMasterWaitRequestFinish.                              *)
WaitForResult(a) ==
  IF evApp # {}
  THEN /\ appGot' = [appGot EXCEPT ![a] = evApp]
       /\ evApp' = {}
       /\ appPc' = [appPc EXCEPT ![a] = "woken"]
  ELSE /\ appPc' = [appPc EXCEPT ![a] = "wait"]
       /\ UNCHANGED <<evApp, appGot>>

(* The code eMBMasterWaitRequestFinish makes of the received set: a set of *)
(* several bits matches no case and leaves the initial MB_MRE_NO_ERR.      *)
RequestCode(set) ==
  CASE set = {"RESPOND_TIMEOUT"}  -> "TIMEDOUT"
    [] set = {"RECEIVE_DATA"}     -> "REV_DATA"
    [] set = {"EXECUTE_FUNCTION"} -> "EXE_FUN"
    [] OTHER                      -> "NO_ERR"
=============================================================================
