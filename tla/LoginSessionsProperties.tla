---------------------- MODULE LoginSessionsProperties ----------------------
EXTENDS LoginSessions

\* Documents and requests are what AuthService can store and hold.
TypeOK ==
    /\ clock \in 0 .. MaxTime
    /\ docs \in [Ids -> Session \cup {NoSession}]
    /\ call \in [Callers -> Call]
    /\ drawn \subseteq Ids /\ loggedOut \subseteq Ids /\ overlapped \subseteq Users

\* A user has at most one unexpired session, unless two logins of that user
\* were once in flight together: login_user's lookup and insert are apart and
\* nothing else keeps the second one out.
OneSessionUnlessOverlapped ==
    \A i, j \in Ids :
        /\ i # j /\ Live(i, clock) /\ Live(j, clock)
        /\ docs[i].user = docs[j].user
        => docs[i].user \in overlapped

\* Once a logout has been acknowledged, no login, check or other logout that
\* read the session before brings its document back.
LogoutIsFinal == \A id \in loggedOut : ~Stored(id)

\* require_session admits no id whose logout was acknowledged before the
\* request began, and none that had expired when its lookup was sent, the very
\* instant of expiry included, which the purge before it leaves in place.
AdmittedIsLive ==
    \A c \in Callers : At(c, "check", "admitted") =>
        ~call[c].revoked /\ call[c].until > call[c].now

\* A session ends only by its own logout or after its expiry: neither another
\* user's logout nor a purge sent late ends it early.
OthersStayIn ==
    [][\A id \in Ids : Stored(id) /\ docs'[id] = NoSession =>
          id \in loggedOut' \/ docs[id].expires < clock]_vars
=============================================================================
