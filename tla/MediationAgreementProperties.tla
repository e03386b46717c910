-------------------- MODULE MediationAgreementProperties --------------------
EXTENDS MediationAgreement

\* Every variable holds what the session document can store.
TypeOK ==
    /\ status \in SessionStatus
    /\ resolvedBy \subseteq Users /\ archivedBy \subseteq Users
    /\ req \in [Requests -> Request]
    /\ wantsResolve \subseteq Users /\ wantsArchive \subseteq Users
    /\ askedResolve \subseteq Users /\ askedArchive \subseteq Users
    /\ overlapped \in BOOLEAN
    /\ \A r \in Requests : req[r].op # "none" => req[r].user \in Users

\* However requests overlap, a session is RESOLVED only if every user has
\* called resolve at some time: finalize is computed from stored marks and the
\* caller, and no mark is ever stored for someone who did not ask.
ResolvedWasAskedByAll == status = "RESOLVED" => askedResolve = Users

\* Likewise ARCHIVED: every user asked to archive it, or every user asked to
\* resolve it and some user to archive it.
ArchivedWasAskedFor ==
    status = "ARCHIVED" => /\ askedArchive # {}
                           /\ askedArchive = Users \/ askedResolve = Users

\* While requests do not overlap, the stored marks are the wishes the users
\* last expressed: what one user asked for is not undone by the other's call.
MarksAreWishes ==
    ~overlapped => resolvedBy = wantsResolve /\ archivedBy = wantsArchive

\* The second resolve mark finalizes the session.
SecondResolveFinalizes ==
    wantsResolve = Users => status \in {"RESOLVED", "ARCHIVED"}

\* The abstract agreement.
Consent == INSTANCE MutualConsent WITH
    phase <- CASE status = "RESOLVED" -> "resolved"
               [] status = "ARCHIVED" -> "archived"
               [] OTHER -> "open",
    resolveMarks <- resolvedBy,
    archiveMarks <- archivedBy

\* While requests do not overlap, every step of a handler is a step of the
\* abstract agreement or invisible to it: marks only of the caller, RESOLVED by
\* the last mark, ARCHIVED by the last mark or at once when RESOLVED, and
\* nothing after ARCHIVED.
ConsentUnlessOverlapped ==
    [][~overlapped' => Consent!Next \/ UNCHANGED Consent!vars]_vars
=============================================================================
