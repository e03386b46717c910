------------------------------ MODULE Gallery ------------------------------
(***************************************************************************)
(* Images and advent entries over one bucket and in one process: a crash   *)
(* stops both.  Their keys are drawn apart, and requests for thumbnails    *)
(* name keys of images here.                                               *)
(***************************************************************************)
EXTENDS ImageStore, AdventCalendar

vars == <<imageVars, adventVars, stored>>

Init == ImageInit /\ AdventInit /\ StoreInit

Crash == ImageCrash /\ AdventCrash /\ UNCHANGED stored

Next ==
    \/ ImageNext /\ UNCHANGED adventVars
    \/ AdventNext /\ UNCHANGED imageVars
    \/ Crash

Spec == Init /\ [][Next]_vars
=============================================================================
