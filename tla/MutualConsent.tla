---------------------------- MODULE MutualConsent ----------------------------
(***************************************************************************)
(* What resolving and archiving promise.  Each user sets and withdraws a   *)
(* mark of their own.  When every user has marked, the session becomes     *)
(* resolved (or archived) in that very step; a resolved session is         *)
(* archived by any single user; an archived session never changes again.   *)
(***************************************************************************)
CONSTANT Users

VARIABLES phase,        \* "open", "resolved" or "archived"
          resolveMarks, \* the users who agree to resolve
          archiveMarks  \* the users who agree to archive

vars == <<phase, resolveMarks, archiveMarks>>

Init == phase = "open" /\ resolveMarks = {} /\ archiveMarks = {}

Resolve(u) ==
    /\ phase = "open"
    /\ resolveMarks' = resolveMarks \cup {u}
    /\ phase' = IF resolveMarks' = Users THEN "resolved" ELSE phase
    /\ UNCHANGED archiveMarks

Unresolve(u) ==
    /\ phase = "open"
    /\ resolveMarks' = resolveMarks \ {u}
    /\ UNCHANGED <<phase, archiveMarks>>

Archive(u) ==
    /\ phase # "archived"
    /\ archiveMarks' = archiveMarks \cup {u}
    /\ phase' = IF phase = "resolved" \/ archiveMarks' = Users THEN "archived" ELSE phase
    /\ UNCHANGED resolveMarks

Unarchive(u) ==
    /\ phase # "archived"
    /\ archiveMarks' = archiveMarks \ {u}
    /\ UNCHANGED <<phase, resolveMarks>>

Next == \E u \in Users : Resolve(u) \/ Unresolve(u) \/ Archive(u) \/ Unarchive(u)

Spec == Init /\ [][Next]_vars
=============================================================================
