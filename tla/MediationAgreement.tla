------------------------- MODULE MediationAgreement -------------------------
(***************************************************************************)
(* Resolving and archiving a mediation session (MediationService).  Every  *)
(* handler reads the session document, computes the new list of marks and  *)
(* whether it is complete, and then writes both with an unconditional      *)
(* $set.  Another request can run between the read and the write.          *)
(***************************************************************************)
CONSTANTS
    Users,      \* UserType: the two people of a mediation
    NoUser,
    Requests,   \* slots for requests in flight at the same time
    Offered     \* bound: which of the four operations are called

ASSUME NoUserAssumption == NoUser \notin Users
ASSUME UsersAssumption  == Users # {}
ASSUME OfferedAssumption ==
    Offered \subseteq {"resolve", "unresolve", "archive", "unarchive"}

VARIABLES
    status,        \* MediationSession.status
    resolvedBy,    \* resolved_by_user_types
    archivedBy,    \* archived_by_user_types
    req,           \* req[r]: what the request in slot r is about to write
    wantsResolve,  \* history: users whose last resolve/unresolve was a resolve
    wantsArchive,  \* history: likewise for archive/unarchive
    askedResolve,  \* history: users who ever called resolve
    askedArchive,  \* history: users who ever called archive
    overlapped     \* history: two requests were once in flight together

history == <<wantsResolve, wantsArchive, askedResolve, askedArchive, overlapped>>
vars == <<status, resolvedBy, archivedBy, req, history>>

SessionStatus == {"AWAITING_PERSPECTIVES", "PARTIAL_PERSPECTIVE_SUBMITTED",
                  "AI_MEDIATION_PROCESSING", "AI_ADVICE_AVAILABLE",
                  "DISCUSSION_OPEN", "RESOLVED", "ARCHIVED"}
Ops     == {"resolve", "unresolve", "archive", "unarchive"}
Request == [op : Ops \cup {"none"}, user : Users \cup {NoUser},
            marks : SUBSET Users, finalize : BOOLEAN]
Idle    == [op |-> "none", user |-> NoUser, marks |-> {}, finalize |-> FALSE]

Init == /\ status = "AWAITING_PERSPECTIVES"
        /\ resolvedBy = {} /\ archivedBy = {}
        /\ req = [r \in Requests |-> Idle]
        /\ wantsResolve = {} /\ wantsArchive = {}
        /\ askedResolve = {} /\ askedArchive = {}
        /\ overlapped = FALSE

\* The request has read the session and decided what to write.
Decide(r, op, u, marks, finalize) ==
    /\ op \in Offered
    /\ req[r] = Idle
    /\ req' = [req EXCEPT ![r] = [op |-> op, user |-> u,
                                  marks |-> marks, finalize |-> finalize]]
    /\ overlapped' = (overlapped \/ \E q \in Requests : req[q] # Idle)
    /\ UNCHANGED <<status, resolvedBy, archivedBy, wantsResolve, wantsArchive>>

-----------------------------------------------------------------------------
\* First halves: get_by_id, the conflict checks, the new set of marks.

\* Mutants: finalize on any mark; finalize counts the marks of either kind.
ResolveOnFirstMark(r, u) ==
    /\ status \notin {"ARCHIVED", "RESOLVED"}
    /\ Decide(r, "resolve", u, resolvedBy \cup {u}, resolvedBy \cup {u} # {})
    /\ askedResolve' = askedResolve \cup {u}
    /\ UNCHANGED askedArchive

ResolveCountsAnyMark(r, u) ==
    /\ status \notin {"ARCHIVED", "RESOLVED"}
    /\ Decide(r, "resolve", u, resolvedBy \cup {u}, resolvedBy \cup archivedBy \cup {u} = Users)
    /\ askedResolve' = askedResolve \cup {u}
    /\ UNCHANGED askedArchive

ResolveSession(r, u) ==
    /\ status \notin {"ARCHIVED", "RESOLVED"}
    /\ Decide(r, "resolve", u, resolvedBy \cup {u}, resolvedBy \cup {u} = Users)
    /\ askedResolve' = askedResolve \cup {u}
    /\ UNCHANGED askedArchive

\* Mutant: withdrawing a mark clears the list.
UnresolveClears(r, u) ==
    /\ status \notin {"ARCHIVED", "RESOLVED"}
    /\ Decide(r, "unresolve", u, {}, FALSE)
    /\ UNCHANGED <<askedResolve, askedArchive>>

UnresolveSession(r, u) ==
    /\ status \notin {"ARCHIVED", "RESOLVED"}
    /\ Decide(r, "unresolve", u, resolvedBy \ {u}, FALSE)
    /\ UNCHANGED <<askedResolve, askedArchive>>

\* Mutant: any earlier mark, the caller's own too, completes the archive.
ArchiveOnSecondCall(r, u) ==
    /\ status # "ARCHIVED"
    /\ Decide(r, "archive", u, archivedBy \cup {u}, status = "RESOLVED" \/ archivedBy # {})
    /\ askedArchive' = askedArchive \cup {u}
    /\ UNCHANGED askedResolve

ArchiveSession(r, u) ==
    /\ status # "ARCHIVED"
    /\ Decide(r, "archive", u, archivedBy \cup {u},
              status = "RESOLVED" \/ archivedBy \cup {u} = Users)
    /\ askedArchive' = askedArchive \cup {u}
    /\ UNCHANGED askedResolve

\* Mutant: no test for ARCHIVED.
UnarchiveAnytime(r, u) ==
    /\ Decide(r, "unarchive", u, archivedBy \ {u}, FALSE)
    /\ UNCHANGED <<askedResolve, askedArchive>>

UnarchiveSession(r, u) ==
    /\ status # "ARCHIVED"
    /\ Decide(r, "unarchive", u, archivedBy \ {u}, FALSE)
    /\ UNCHANGED <<askedResolve, askedArchive>>

-----------------------------------------------------------------------------
\* Second halves: update_fields, whatever the document holds by now.

MarkResolved(r) ==
    /\ req[r].op = "resolve"
    /\ resolvedBy' = req[r].marks
    /\ status' = IF req[r].finalize THEN "RESOLVED" ELSE status
    /\ req' = [req EXCEPT ![r] = Idle]
    /\ wantsResolve' = wantsResolve \cup {req[r].user}
    /\ UNCHANGED <<archivedBy, wantsArchive, askedResolve, askedArchive, overlapped>>

UnmarkResolved(r) ==
    /\ req[r].op = "unresolve"
    /\ resolvedBy' = req[r].marks
    /\ req' = [req EXCEPT ![r] = Idle]
    /\ wantsResolve' = wantsResolve \ {req[r].user}
    /\ UNCHANGED <<status, archivedBy, wantsArchive, askedResolve, askedArchive, overlapped>>

MarkArchived(r) ==
    /\ req[r].op = "archive"
    /\ archivedBy' = req[r].marks
    /\ status' = IF req[r].finalize THEN "ARCHIVED" ELSE status
    /\ req' = [req EXCEPT ![r] = Idle]
    /\ wantsArchive' = wantsArchive \cup {req[r].user}
    /\ UNCHANGED <<resolvedBy, wantsResolve, askedResolve, askedArchive, overlapped>>

UnmarkArchived(r) ==
    /\ req[r].op = "unarchive"
    /\ archivedBy' = req[r].marks
    /\ req' = [req EXCEPT ![r] = Idle]
    /\ wantsArchive' = wantsArchive \ {req[r].user}
    /\ UNCHANGED <<status, resolvedBy, wantsResolve, askedResolve, askedArchive, overlapped>>

\* Mutant: a request that dies leaves its plan to be carried out for nobody.
AbortKeepsPlan(r) ==
    /\ req[r] # Idle
    /\ req' = [req EXCEPT ![r].user = NoUser]
    /\ UNCHANGED <<status, resolvedBy, archivedBy, history>>

\* The server stops, or the database call raises, before the write.
Abort(r) ==
    /\ req[r] # Idle
    /\ req' = [req EXCEPT ![r] = Idle]
    /\ UNCHANGED <<status, resolvedBy, archivedBy, history>>

-----------------------------------------------------------------------------
Read(r, u) == \/ ResolveSession(r, u) \/ UnresolveSession(r, u)
              \/ ArchiveSession(r, u) \/ UnarchiveSession(r, u)
Write(r)   == \/ MarkResolved(r) \/ UnmarkResolved(r)
              \/ MarkArchived(r) \/ UnmarkArchived(r)

Next == \E r \in Requests : \/ \E u \in Users : Read(r, u)
                            \/ Write(r)
                            \/ Abort(r)

Spec == Init /\ [][Next]_vars
=============================================================================
