----------------------- MODULE MediationAgreementProofs -----------------------
(***************************************************************************)
(* Proofs about resolving and archiving, for any users and any number of   *)
(* requests in flight.  What holds with overlapping requests follows from  *)
(* Asked: no list of marks, stored or about to be written, names a user    *)
(* who did not ask.  What holds without overlap follows from Current: the  *)
(* one request in flight still has what it read.                           *)
(***************************************************************************)
EXTENDS MediationAgreementProperties, TLAPS

USE NoUserAssumption, UsersAssumption

\* What a request will write was asked for by everyone it speaks for.
PlanAsked(p) ==
    /\ p.op \in {"resolve", "unresolve"} => p.marks \subseteq askedResolve
    /\ p.op \in {"archive", "unarchive"} => p.marks \subseteq askedArchive
    /\ p.op = "resolve" /\ p.finalize => askedResolve = Users
    /\ p.op = "archive" => askedArchive # {}
    /\ p.op = "archive" /\ p.finalize => askedArchive = Users \/ askedResolve = Users

Asked == /\ resolvedBy \subseteq askedResolve /\ archivedBy \subseteq askedArchive
         /\ \A r \in Requests : PlanAsked(req[r])
         /\ ResolvedWasAskedByAll /\ ArchivedWasAskedFor

\* What a request will write is what it would decide if it read again now.
PlanCurrent(p) ==
    /\ p.op = "resolve" => /\ status \notin {"ARCHIVED", "RESOLVED"}
                           /\ p.marks = resolvedBy \cup {p.user}
                           /\ p.finalize <=> p.marks = Users
    /\ p.op = "unresolve" => /\ status \notin {"ARCHIVED", "RESOLVED"}
                             /\ p.marks = resolvedBy \ {p.user}
    /\ p.op = "archive" => /\ status # "ARCHIVED"
                           /\ p.marks = archivedBy \cup {p.user}
                           /\ p.finalize <=> (status = "RESOLVED" \/ p.marks = Users)
    /\ p.op = "unarchive" => /\ status # "ARCHIVED"
                             /\ p.marks = archivedBy \ {p.user}

Current == ~overlapped => /\ \A r \in Requests : PlanCurrent(req[r])
                          /\ \A q, r \in Requests : q = r \/ req[q] = Idle \/ req[r] = Idle
                          /\ MarksAreWishes

Inv == TypeOK /\ Asked /\ Current

-----------------------------------------------------------------------------
LEMMA InvInit == Init => Inv
<1> SUFFICES ASSUME Init PROVE Inv
  OBVIOUS
<1> USE DEF Init, Idle
<1>1. TypeOK
  BY DEF TypeOK, SessionStatus, Request, Ops
<1>2. Asked
  BY DEF Asked, PlanAsked, ResolvedWasAskedByAll, ArchivedWasAskedFor
<1>3. Current
  BY DEF Current, PlanCurrent, MarksAreWishes
<1>4. QED
  BY <1>1, <1>2, <1>3 DEF Inv

\* A request that read the session records a well-formed plan in its slot.
LEMMA TypeStep == TypeOK /\ [Next]_vars => TypeOK'
<1> SUFFICES ASSUME TypeOK, [Next]_vars PROVE TypeOK'
  OBVIOUS
<1> USE DEF TypeOK, SessionStatus, Request, Ops, Idle
<1>1. ASSUME NEW r \in Requests, NEW u \in Users, ResolveSession(r, u) PROVE TypeOK'
  BY <1>1 DEF ResolveSession, Decide
<1>2. ASSUME NEW r \in Requests, NEW u \in Users, UnresolveSession(r, u) PROVE TypeOK'
  BY <1>2 DEF UnresolveSession, Decide
<1>3. ASSUME NEW r \in Requests, NEW u \in Users, ArchiveSession(r, u) PROVE TypeOK'
  BY <1>3 DEF ArchiveSession, Decide
<1>4. ASSUME NEW r \in Requests, NEW u \in Users, UnarchiveSession(r, u) PROVE TypeOK'
  BY <1>4 DEF UnarchiveSession, Decide
<1>5. ASSUME NEW r \in Requests, MarkResolved(r) PROVE TypeOK'
  BY <1>5 DEF MarkResolved
<1>6. ASSUME NEW r \in Requests, UnmarkResolved(r) PROVE TypeOK'
  BY <1>6 DEF UnmarkResolved
<1>7. ASSUME NEW r \in Requests, MarkArchived(r) PROVE TypeOK'
  BY <1>7 DEF MarkArchived
<1>8. ASSUME NEW r \in Requests, UnmarkArchived(r) PROVE TypeOK'
  BY <1>8 DEF UnmarkArchived
<1>9. ASSUME NEW r \in Requests, Abort(r) PROVE TypeOK'
  BY <1>9 DEF Abort, history
<1>10. CASE UNCHANGED vars
  BY <1>10 DEF vars, history
<1>11. QED
  BY <1>1, <1>2, <1>3, <1>4, <1>5, <1>6, <1>7, <1>8, <1>9, <1>10 DEF Next, Read, Write

LEMMA AskedStep == TypeOK /\ Asked /\ [Next]_vars => Asked'
<1> SUFFICES ASSUME TypeOK, Asked, [Next]_vars PROVE Asked'
  OBVIOUS
<1> USE DEF TypeOK, Request, Idle, Asked, PlanAsked, ResolvedWasAskedByAll, ArchivedWasAskedFor
<1>1. ASSUME NEW r \in Requests, NEW u \in Users, ResolveSession(r, u) PROVE Asked'
  BY <1>1 DEF ResolveSession, Decide
<1>2. ASSUME NEW r \in Requests, NEW u \in Users, UnresolveSession(r, u) PROVE Asked'
  BY <1>2 DEF UnresolveSession, Decide
<1>3. ASSUME NEW r \in Requests, NEW u \in Users, ArchiveSession(r, u) PROVE Asked'
  BY <1>3 DEF ArchiveSession, Decide
<1>4. ASSUME NEW r \in Requests, NEW u \in Users, UnarchiveSession(r, u) PROVE Asked'
  BY <1>4 DEF UnarchiveSession, Decide
<1>5. ASSUME NEW r \in Requests, MarkResolved(r) PROVE Asked'
  BY <1>5 DEF MarkResolved
<1>6. ASSUME NEW r \in Requests, UnmarkResolved(r) PROVE Asked'
  BY <1>6 DEF UnmarkResolved
<1>7. ASSUME NEW r \in Requests, MarkArchived(r) PROVE Asked'
  BY <1>7 DEF MarkArchived
<1>8. ASSUME NEW r \in Requests, UnmarkArchived(r) PROVE Asked'
  BY <1>8 DEF UnmarkArchived
<1>9. ASSUME NEW r \in Requests, Abort(r) PROVE Asked'
  BY <1>9 DEF Abort, history
<1>10. CASE UNCHANGED vars
  BY <1>10 DEF vars, history
<1>11. QED
  BY <1>1, <1>2, <1>3, <1>4, <1>5, <1>6, <1>7, <1>8, <1>9, <1>10 DEF Next, Read, Write

\* Without overlap, a request that decides finds every slot idle.
LEMMA DecideAlone ==
    ASSUME TypeOK, Current, ~overlapped', NEW r \in Requests,
           NEW p, req' = [req EXCEPT ![r] = p],
           overlapped' = (overlapped \/ \E q \in Requests : req[q] # Idle)
    PROVE  /\ ~overlapped /\ MarksAreWishes
           /\ \A q \in Requests : q # r => req'[q] = Idle
           /\ req'[r] = p
  BY DEF TypeOK, Current

\* So only its own plan has to be current afterwards.
LEMMA OnePlanIsCurrent ==
    ASSUME MarksAreWishes', NEW r \in Requests,
           \A q \in Requests : q # r => req'[q] = Idle,
           PlanCurrent(req[r])'
    PROVE  Current'
<1>1. ASSUME NEW q \in Requests PROVE PlanCurrent(req[q])'
  <2>1. CASE q = r
    BY <2>1
  <2>2. CASE q # r
    BY <2>2 DEF PlanCurrent, Idle
  <2>3. QED
    BY <2>1, <2>2
<1>2. \A q, t \in Requests : q = t \/ req'[q] = Idle \/ req'[t] = Idle
  OBVIOUS
<1>3. QED
  BY <1>1, <1>2 DEF Current

\* When a request ends without overlap, every slot is idle.
LEMMA EndsAlone ==
    ASSUME TypeOK, Current, ~overlapped, NEW r \in Requests, req[r] # Idle,
           req' = [req EXCEPT ![r] = Idle], MarksAreWishes'
    PROVE  Current'
<1>1. \A q \in Requests : req'[q] = Idle
  BY DEF TypeOK, Current
<1>2. PlanCurrent(req[r])'
  BY <1>1 DEF PlanCurrent, Idle
<1>3. QED
  BY <1>1, <1>2, OnePlanIsCurrent

LEMMA CurrentStep == Inv /\ [Next]_vars => Current'
<1> SUFFICES ASSUME TypeOK, Current, [Next]_vars, ~overlapped' PROVE Current'
  BY DEF Inv, Current
<1>1. ASSUME NEW r \in Requests, NEW u \in Users, ResolveSession(r, u) PROVE Current'
  <2> DEFINE p == [op |-> "resolve", user |-> u, marks |-> resolvedBy \cup {u},
                   finalize |-> resolvedBy \cup {u} = Users]
  <2>1. /\ req' = [req EXCEPT ![r] = p]
        /\ overlapped' = (overlapped \/ \E q \in Requests : req[q] # Idle)
        /\ status' = status /\ resolvedBy' = resolvedBy /\ archivedBy' = archivedBy
        /\ wantsResolve' = wantsResolve /\ wantsArchive' = wantsArchive
    BY <1>1 DEF ResolveSession, Decide
  <2>2. /\ p.op = "resolve" /\ p.user = u /\ p.marks = resolvedBy \cup {u}
        /\ p.finalize <=> (resolvedBy \cup {u} = Users)
    OBVIOUS
  <2> HIDE DEF p
  <2>3. /\ MarksAreWishes /\ req'[r] = p
        /\ \A q \in Requests : q # r => req'[q] = Idle
    BY <2>1, DecideAlone
  <2>4. PlanCurrent(req[r])'
    BY <1>1, <2>1, <2>2, <2>3 DEF ResolveSession, PlanCurrent
  <2>5. MarksAreWishes'
    BY <2>1, <2>3 DEF MarksAreWishes
  <2>6. QED
    BY <2>3, <2>4, <2>5, OnePlanIsCurrent
<1>2. ASSUME NEW r \in Requests, NEW u \in Users, UnresolveSession(r, u) PROVE Current'
  <2> DEFINE p == [op |-> "unresolve", user |-> u, marks |-> resolvedBy \ {u},
                   finalize |-> FALSE]
  <2>1. /\ req' = [req EXCEPT ![r] = p]
        /\ overlapped' = (overlapped \/ \E q \in Requests : req[q] # Idle)
        /\ status' = status /\ resolvedBy' = resolvedBy /\ archivedBy' = archivedBy
        /\ wantsResolve' = wantsResolve /\ wantsArchive' = wantsArchive
    BY <1>2 DEF UnresolveSession, Decide
  <2>2. /\ p.op = "unresolve" /\ p.user = u /\ p.marks = resolvedBy \ {u}
    OBVIOUS
  <2> HIDE DEF p
  <2>3. /\ MarksAreWishes /\ req'[r] = p
        /\ \A q \in Requests : q # r => req'[q] = Idle
    BY <2>1, DecideAlone
  <2>4. PlanCurrent(req[r])'
    BY <1>2, <2>1, <2>2, <2>3 DEF UnresolveSession, PlanCurrent
  <2>5. MarksAreWishes'
    BY <2>1, <2>3 DEF MarksAreWishes
  <2>6. QED
    BY <2>3, <2>4, <2>5, OnePlanIsCurrent
<1>3. ASSUME NEW r \in Requests, NEW u \in Users, ArchiveSession(r, u) PROVE Current'
  <2> DEFINE p == [op |-> "archive", user |-> u, marks |-> archivedBy \cup {u},
                   finalize |-> status = "RESOLVED" \/ archivedBy \cup {u} = Users]
  <2>1. /\ req' = [req EXCEPT ![r] = p]
        /\ overlapped' = (overlapped \/ \E q \in Requests : req[q] # Idle)
        /\ status' = status /\ resolvedBy' = resolvedBy /\ archivedBy' = archivedBy
        /\ wantsResolve' = wantsResolve /\ wantsArchive' = wantsArchive
    BY <1>3 DEF ArchiveSession, Decide
  <2>2. /\ p.op = "archive" /\ p.user = u /\ p.marks = archivedBy \cup {u}
        /\ p.finalize <=> (status = "RESOLVED" \/ archivedBy \cup {u} = Users)
    OBVIOUS
  <2> HIDE DEF p
  <2>3. /\ MarksAreWishes /\ req'[r] = p
        /\ \A q \in Requests : q # r => req'[q] = Idle
    BY <2>1, DecideAlone
  <2>4. PlanCurrent(req[r])'
    BY <1>3, <2>1, <2>2, <2>3 DEF ArchiveSession, PlanCurrent
  <2>5. MarksAreWishes'
    BY <2>1, <2>3 DEF MarksAreWishes
  <2>6. QED
    BY <2>3, <2>4, <2>5, OnePlanIsCurrent
<1>4. ASSUME NEW r \in Requests, NEW u \in Users, UnarchiveSession(r, u) PROVE Current'
  <2> DEFINE p == [op |-> "unarchive", user |-> u, marks |-> archivedBy \ {u},
                   finalize |-> FALSE]
  <2>1. /\ req' = [req EXCEPT ![r] = p]
        /\ overlapped' = (overlapped \/ \E q \in Requests : req[q] # Idle)
        /\ status' = status /\ resolvedBy' = resolvedBy /\ archivedBy' = archivedBy
        /\ wantsResolve' = wantsResolve /\ wantsArchive' = wantsArchive
    BY <1>4 DEF UnarchiveSession, Decide
  <2>2. /\ p.op = "unarchive" /\ p.user = u /\ p.marks = archivedBy \ {u}
    OBVIOUS
  <2> HIDE DEF p
  <2>3. /\ MarksAreWishes /\ req'[r] = p
        /\ \A q \in Requests : q # r => req'[q] = Idle
    BY <2>1, DecideAlone
  <2>4. PlanCurrent(req[r])'
    BY <1>4, <2>1, <2>2, <2>3 DEF UnarchiveSession, PlanCurrent
  <2>5. MarksAreWishes'
    BY <2>1, <2>3 DEF MarksAreWishes
  <2>6. QED
    BY <2>3, <2>4, <2>5, OnePlanIsCurrent
<1>5. ASSUME NEW r \in Requests, MarkResolved(r) PROVE Current'
  <2>1. ~overlapped /\ PlanCurrent(req[r]) /\ MarksAreWishes
    BY <1>5 DEF MarkResolved, Current
  <2>2. MarksAreWishes'
    BY <1>5, <2>1 DEF MarkResolved, PlanCurrent, MarksAreWishes
  <2>3. req[r] # Idle /\ req' = [req EXCEPT ![r] = Idle]
    BY <1>5 DEF MarkResolved, Idle
  <2>4. QED
    BY <2>1, <2>2, <2>3, EndsAlone
<1>6. ASSUME NEW r \in Requests, UnmarkResolved(r) PROVE Current'
  <2>1. ~overlapped /\ PlanCurrent(req[r]) /\ MarksAreWishes
    BY <1>6 DEF UnmarkResolved, Current
  <2>2. MarksAreWishes'
    BY <1>6, <2>1 DEF UnmarkResolved, PlanCurrent, MarksAreWishes
  <2>3. req[r] # Idle /\ req' = [req EXCEPT ![r] = Idle]
    BY <1>6 DEF UnmarkResolved, Idle
  <2>4. QED
    BY <2>1, <2>2, <2>3, EndsAlone
<1>7. ASSUME NEW r \in Requests, MarkArchived(r) PROVE Current'
  <2>1. ~overlapped /\ PlanCurrent(req[r]) /\ MarksAreWishes
    BY <1>7 DEF MarkArchived, Current
  <2>2. MarksAreWishes'
    BY <1>7, <2>1 DEF MarkArchived, PlanCurrent, MarksAreWishes
  <2>3. req[r] # Idle /\ req' = [req EXCEPT ![r] = Idle]
    BY <1>7 DEF MarkArchived, Idle
  <2>4. QED
    BY <2>1, <2>2, <2>3, EndsAlone
<1>8. ASSUME NEW r \in Requests, UnmarkArchived(r) PROVE Current'
  <2>1. ~overlapped /\ PlanCurrent(req[r]) /\ MarksAreWishes
    BY <1>8 DEF UnmarkArchived, Current
  <2>2. MarksAreWishes'
    BY <1>8, <2>1 DEF UnmarkArchived, PlanCurrent, MarksAreWishes
  <2>3. req[r] # Idle /\ req' = [req EXCEPT ![r] = Idle]
    BY <1>8 DEF UnmarkArchived, Idle
  <2>4. QED
    BY <2>1, <2>2, <2>3, EndsAlone
<1>9. ASSUME NEW r \in Requests, Abort(r) PROVE Current'
  <2>1. ~overlapped /\ MarksAreWishes /\ MarksAreWishes'
    BY <1>9 DEF Abort, Current, history, MarksAreWishes
  <2>2. QED
    BY <1>9, <2>1, EndsAlone DEF Abort
<1>10. CASE UNCHANGED vars
  BY <1>10 DEF vars, history, Current, PlanCurrent, MarksAreWishes
<1>11. QED
  BY <1>1, <1>2, <1>3, <1>4, <1>5, <1>6, <1>7, <1>8, <1>9, <1>10 DEF Next, Read, Write

\* The inductive invariant holds of every behaviour of the agreement.
THEOREM Invariance == Spec => []Inv
<1>1. Inv /\ [Next]_vars => Inv'
  BY TypeStep, AskedStep, CurrentStep DEF Inv
<1>2. QED
  BY InvInit, <1>1, PTL DEF Spec

-----------------------------------------------------------------------------
\* Every reachable session document and request is well formed.
THEOREM TypeCorrect == Spec => []TypeOK
<1>1. Inv => TypeOK
  BY DEF Inv
<1>2. QED
  BY Invariance, <1>1, PTL

\* With any number of overlapping requests, a session is RESOLVED only if all
\* asked for it.
THEOREM NothingUnasked == Spec => []ResolvedWasAskedByAll
<1>1. Inv => ResolvedWasAskedByAll
  BY DEF Inv, Asked
<1>2. QED
  BY Invariance, <1>1, PTL

\* Likewise ARCHIVED, only if all asked for it or all asked to resolve and one
\* to archive.
THEOREM ArchivedOnlyIfAsked == Spec => []ArchivedWasAskedFor
<1>1. Inv => ArchivedWasAskedFor
  BY DEF Inv, Asked
<1>2. QED
  BY Invariance, <1>1, PTL

\* As long as requests do not overlap, no mark is lost or resurrected.
THEOREM MarksStayWishes == Spec => []MarksAreWishes
<1>1. Inv => MarksAreWishes
  BY DEF Inv, Current, MarksAreWishes
<1>2. QED
  BY Invariance, <1>1, PTL

-----------------------------------------------------------------------------
(* Without overlap, the handlers implement MutualConsent. *)

Phase == CASE status = "RESOLVED" -> "resolved"
           [] status = "ARCHIVED" -> "archived"
           [] OTHER -> "open"

LEMMA PhaseOfStatus ==
    /\ Phase = "resolved" <=> status = "RESOLVED"
    /\ Phase = "archived" <=> status = "ARCHIVED"
    /\ Phase = "open" <=> status \notin {"RESOLVED", "ARCHIVED"}
    /\ (status' = status) => (Phase' = Phase)
    /\ Phase' = "resolved" <=> status' = "RESOLVED"
    /\ Phase' = "archived" <=> status' = "ARCHIVED"
<1>1. CASE status = "RESOLVED"
  BY <1>1 DEF Phase
<1>2. CASE status = "ARCHIVED"
  BY <1>2 DEF Phase
<1>3. CASE status \notin {"RESOLVED", "ARCHIVED"}
  BY <1>3 DEF Phase
<1>4. QED
  BY <1>1, <1>2, <1>3

\* A request that only read, or died, changed nothing the agreement shows.
LEMMA Invisible ==
    ASSUME UNCHANGED <<status, resolvedBy, archivedBy>>
    PROVE  UNCHANGED Consent!vars
  BY DEF Consent!vars

LEMMA ConsentStep ==
    ASSUME Inv, [Next]_vars, ~overlapped'
    PROVE  Consent!Next \/ UNCHANGED Consent!vars
<1> USE DEF Inv, TypeOK, Request
<1>1. ASSUME NEW r \in Requests, NEW u \in Users, Read(r, u)
      PROVE  UNCHANGED Consent!vars
  BY <1>1, Invisible DEF Read, ResolveSession, UnresolveSession, ArchiveSession,
                         UnarchiveSession, Decide
<1>2. ASSUME NEW r \in Requests, Abort(r) PROVE UNCHANGED Consent!vars
  BY <1>2, Invisible DEF Abort
<1>3. ASSUME NEW r \in Requests, MarkResolved(r) PROVE Consent!Next
  <2>1. /\ PlanCurrent(req[r]) /\ req[r].op = "resolve" /\ req[r].user \in Users
        /\ resolvedBy' = req[r].marks /\ archivedBy' = archivedBy
        /\ status' = IF req[r].finalize THEN "RESOLVED" ELSE status
    BY <1>3 DEF MarkResolved, Current
  <2>2. /\ status \notin {"RESOLVED", "ARCHIVED"}
        /\ resolvedBy' = resolvedBy \cup {req[r].user}
        /\ status' = IF resolvedBy' = Users THEN "RESOLVED" ELSE status
    BY <2>1 DEF PlanCurrent
  <2>3. /\ Phase = "open"
        /\ Phase' = IF resolvedBy' = Users THEN "resolved" ELSE Phase
    BY <2>2, PhaseOfStatus
  <2>4. Consent!Resolve(req[r].user)
    BY <2>1, <2>2, <2>3 DEF Consent!Resolve, Phase
  <2>5. QED
    BY <2>1, <2>4 DEF Consent!Next
<1>4. ASSUME NEW r \in Requests, UnmarkResolved(r) PROVE Consent!Next
  <2>1. /\ PlanCurrent(req[r]) /\ req[r].op = "unresolve" /\ req[r].user \in Users
        /\ resolvedBy' = req[r].marks /\ archivedBy' = archivedBy /\ status' = status
    BY <1>4 DEF UnmarkResolved, Current
  <2>2. /\ status \notin {"RESOLVED", "ARCHIVED"}
        /\ resolvedBy' = resolvedBy \ {req[r].user}
    BY <2>1 DEF PlanCurrent
  <2>3. Phase = "open" /\ Phase' = Phase
    BY <2>1, <2>2, PhaseOfStatus
  <2>4. Consent!Unresolve(req[r].user)
    BY <2>1, <2>2, <2>3 DEF Consent!Unresolve, Phase
  <2>5. QED
    BY <2>1, <2>4 DEF Consent!Next
<1>5. ASSUME NEW r \in Requests, MarkArchived(r) PROVE Consent!Next
  <2>1. /\ PlanCurrent(req[r]) /\ req[r].op = "archive" /\ req[r].user \in Users
        /\ archivedBy' = req[r].marks /\ resolvedBy' = resolvedBy
        /\ status' = IF req[r].finalize THEN "ARCHIVED" ELSE status
    BY <1>5 DEF MarkArchived, Current
  <2>2. /\ status # "ARCHIVED"
        /\ archivedBy' = archivedBy \cup {req[r].user}
        /\ status' = IF status = "RESOLVED" \/ archivedBy' = Users THEN "ARCHIVED" ELSE status
    BY <2>1 DEF PlanCurrent
  <2>3. /\ Phase # "archived"
        /\ Phase' = IF Phase = "resolved" \/ archivedBy' = Users THEN "archived" ELSE Phase
    BY <2>2, PhaseOfStatus
  <2>4. Consent!Archive(req[r].user)
    BY <2>1, <2>2, <2>3 DEF Consent!Archive, Phase
  <2>5. QED
    BY <2>1, <2>4 DEF Consent!Next
<1>6. ASSUME NEW r \in Requests, UnmarkArchived(r) PROVE Consent!Next
  <2>1. /\ PlanCurrent(req[r]) /\ req[r].op = "unarchive" /\ req[r].user \in Users
        /\ archivedBy' = req[r].marks /\ resolvedBy' = resolvedBy /\ status' = status
    BY <1>6 DEF UnmarkArchived, Current
  <2>2. /\ status # "ARCHIVED"
        /\ archivedBy' = archivedBy \ {req[r].user}
    BY <2>1 DEF PlanCurrent
  <2>3. Phase # "archived" /\ Phase' = Phase
    BY <2>1, <2>2, PhaseOfStatus
  <2>4. Consent!Unarchive(req[r].user)
    BY <2>1, <2>2, <2>3 DEF Consent!Unarchive, Phase
  <2>5. QED
    BY <2>1, <2>4 DEF Consent!Next
<1>7. CASE UNCHANGED vars
  BY <1>7, Invisible DEF vars
<1>8. QED
  BY <1>1, <1>2, <1>3, <1>4, <1>5, <1>6, <1>7 DEF Next, Write

\* As long as requests do not overlap, the handlers implement MutualConsent:
\* the second mark finalizes in that very step, and ARCHIVED is the end.
THEOREM ConsentImplemented == Spec => ConsentUnlessOverlapped
<1>1. Inv /\ [Next]_vars => [~overlapped' => Consent!Next \/ UNCHANGED Consent!vars]_vars
  BY ConsentStep
<1>2. QED
  BY Invariance, <1>1, PTL DEF Spec, ConsentUnlessOverlapped
=============================================================================
