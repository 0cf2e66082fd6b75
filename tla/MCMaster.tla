------------------------------ MODULE MCMaster ------------------------------
(* Small instances of MasterStack.                                         *)
EXTENDS MasterRefinement

CONSTANTS a1, a2

(* Priorities of app_task.c: poll 9, "master trans" 10, the requester 11;  *)
(* a second requester of the same priority.                                *)
OneApp == {a1}
TwoApps == {a1, a2}
AppPrio == [a \in Apps |-> 11]
EqualPrio == [a \in Apps |-> 0]

Frame(ad, ok, f, d) == [addr |-> ad, crc |-> ok, fc |-> f, data |-> d]

(* A good answer, a damaged one, one from elsewhere, an exception, and one *)
(* for which there is no handler.                                          *)
AllContents == {Frame(1, TRUE, "handled", "good"),
                Frame(1, FALSE, "handled", "good"),
                Frame(2, TRUE, "handled", "good"),
                Frame(1, TRUE, "exception", "bad"),
                Frame(1, TRUE, "unhandled", "good")}

FewContents == {Frame(1, TRUE, "handled", "good"),
                Frame(1, FALSE, "exception", "bad")}
=============================================================================
