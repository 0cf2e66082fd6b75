-------------------------- MODULE MasterRefinement --------------------------
(***************************************************************************)
(* The master of MasterStack keeps the promises of MasterRequests: the     *)
(* semaphore, the places of the requesting threads and the sets that       *)
(* rt_event_recv returned to them, read as the state of their calls.       *)
(***************************************************************************)
EXTENDS MasterStack

CallOf(a) ==
  IF appPc[a] \in InRequest THEN "asking"
  ELSE IF appPc[a] = "blocked" THEN "queued"
  ELSE IF appPc[a] = "woken" THEN "returned" ELSE "idle"

Requests ==
  INSTANCE MasterRequests WITH
    available <- sem > 0,
    call <- [a \in Apps |-> CallOf(a)],
    result <- [a \in Apps |-> IF appPc[a] = "woken"
                              THEN RequestCode(appGot[a]) ELSE "none"]

(* Every step of the threads, the interrupts and the timer is a step of    *)
(* MasterRequests or changes nothing a caller can see: the sharing of one  *)
(* event object, one buffer, one timer and one semaphore between four      *)
(* actors (portevent_m.c, mbrtu_m.c, mb_m.c) does not show.                *)
KeepsPromises == Requests!Spec
=============================================================================
