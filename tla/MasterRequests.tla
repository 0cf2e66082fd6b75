--------------------------- MODULE MasterRequests ---------------------------
(***************************************************************************)
(* What the master promises the threads that call eMBMasterReq...          *)
(* (modbus/functions/mbfunc*_m.c, include/mb_m.h): calls are served one    *)
(* after the other, the most urgent waiting one first; a call comes back   *)
(* with the end of its own frame; and whoever has lost patience is out.    *)
(* Nothing here knows of events, timers, buffers or a poll thread.         *)
(***************************************************************************)
EXTENDS Naturals

CONSTANTS Apps,       \* threads that call the eMBMasterReq... functions
          Prio,       \* their priorities, 0 is the most urgent
          Impatient   \* those that wait for the master with a time limit

VARIABLES available,  \* nobody uses the master
          call,       \* the call of each thread
          fate,       \* what became of its frame
          result      \* what its call returns

vars == <<available, call, fate, result>>

(* What a call returns for each end of its frame (eMBMasterReqErrCode).    *)
Ends == {"ok", "timeout", "garbled", "exception"}

Says == [ok |-> "NO_ERR", timeout |-> "TIMEDOUT", garbled |-> "REV_DATA",
         exception |-> "EXE_FUN"]

TypeOK ==
  /\ available \in BOOLEAN
  /\ call \in [Apps -> {"idle", "queued", "asking", "returned"}]
  /\ fate \in [Apps -> {"unsent", "sent"} \cup Ends]
  /\ result \in [Apps -> {"none"} \cup {Says[e] : e \in Ends}]

Init ==
  /\ available = TRUE
  /\ call = [a \in Apps |-> "idle"]
  /\ fate = [a \in Apps |-> "unsent"]
  /\ result = [a \in Apps |-> "none"]

-----------------------------------------------------------------------------
Queued == {a \in Apps : call[a] = "queued"}

Ask(a) ==
  /\ call[a] = "idle" /\ available
  /\ available' = FALSE
  /\ call' = [call EXCEPT ![a] = "asking"]
  /\ UNCHANGED <<fate, result>>

Queue(a) ==
  /\ call[a] = "idle" /\ ~available
  /\ call' = [call EXCEPT ![a] = "queued"]
  /\ UNCHANGED <<available, fate, result>>

GiveUp(a) ==
  /\ call[a] = "queued" /\ a \in Impatient
  /\ call' = [call EXCEPT ![a] = "idle"]
  /\ UNCHANGED <<available, fate, result>>

Send(a) ==
  /\ call[a] = "asking" /\ fate[a] = "unsent"
  /\ fate' = [fate EXCEPT ![a] = "sent"]
  /\ UNCHANGED <<available, call, result>>

End(a, e) ==
  /\ call[a] = "asking" /\ fate[a] = "sent"
  /\ fate' = [fate EXCEPT ![a] = e]
  /\ UNCHANGED <<available, call, result>>

Deliver(a) ==
  /\ call[a] = "asking" /\ fate[a] \in Ends
  /\ call' = [call EXCEPT ![a] = "returned"]
  /\ result' = [result EXCEPT ![a] = Says[fate[a]]]
  /\ UNCHANGED <<available, fate>>

Return(a) ==
  /\ call[a] = "returned"
  /\ call' = [call EXCEPT ![a] = "idle"]
  /\ fate' = [fate EXCEPT ![a] = "unsent"]
  /\ result' = [result EXCEPT ![a] = "none"]
  /\ UNCHANGED available

(* The master is free again when the call is answered, which may be before *)
(* or after the caller goes on.                                            *)
Ended == ~available /\ \A a \in Apps : call[a] # "asking"

Release ==
  /\ Ended /\ Queued = {}
  /\ available' = TRUE
  /\ UNCHANGED <<call, fate, result>>

PassOn(a) ==
  /\ Ended /\ a \in Queued
  /\ \A b \in Queued : Prio[a] <= Prio[b]
  /\ call' = [call EXCEPT ![a] = "asking"]
  /\ UNCHANGED <<available, fate, result>>

Next ==
  \/ \E a \in Apps : \/ Ask(a) \/ Queue(a) \/ GiveUp(a)
                     \/ Send(a) \/ (\E e \in Ends : End(a, e))
                     \/ Deliver(a) \/ Return(a) \/ PassOn(a)
  \/ Release

Spec == Init /\ [][Next]_vars

-----------------------------------------------------------------------------
(* At most one call at a time uses the master, and none while it is        *)
(* available (the semaphore of portevent_m.c).                             *)
OneAtATime ==
  /\ \A a, b \in Apps : call[a] = "asking" /\ call[b] = "asking" => a = b
  /\ available => \A a \in Apps : call[a] # "asking"

(* A call that comes back has been sent, and says what became of its own   *)
(* frame.                                                                  *)
Truthful ==
  \A a \in Apps :
    call[a] = "returned" => fate[a] \in Ends /\ result[a] = Says[fate[a]]
=============================================================================
