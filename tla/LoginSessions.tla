--------------------------- MODULE LoginSessions ---------------------------
(***************************************************************************)
(* Login sessions (AuthService over SessionRepository).  Every call is a   *)
(* sequence of single MongoDB operations with an await between them, and   *)
(* each operation compares expires_at with the time at which it was sent.  *)
(* The collection has no unique index and no TTL index: expired documents  *)
(* are deleted by the next login or session check.                         *)
(***************************************************************************)
EXTENDS Naturals, FiniteSets

CONSTANTS
    Users, NoUser,  \* UserType; NoUser: an access key of nobody
    Ids, NoId,      \* what generate_session_id draws, never the same twice
    Callers,        \* slots for requests in flight at the same time
    Duration,       \* settings.session_duration
    MaxTime         \* bound: the clock

ASSUME NamesAssumption    == NoUser \notin Users /\ NoId \notin Ids
ASSUME DurationAssumption == Duration \in Nat \ {0} /\ MaxTime \in Nat

VARIABLES
    clock,      \* utc_now()
    docs,       \* the sessions collection, by session_id
    drawn,      \* ids generated so far
    call,       \* call[c]: the request in slot c
    loggedOut,  \* history: ids whose logout was acknowledged
    overlapped  \* history: users two of whose logins were in flight together

vars == <<clock, docs, drawn, call, loggedOut, overlapped>>

Session   == [user : Users, expires : 0 .. MaxTime + Duration]
NoSession == [user |-> NoUser, expires |-> 0]
\* now: when the pending operation was sent.  revoked: the id had been logged
\* out before this request began.  until: expires_at of the session admitted.
Call == [op : {"none", "login", "check", "logout"},
         step : {"purge", "find", "insert", "delete", "admitted"},
         user : Users \cup {NoUser}, id : Ids \cup {NoId}, now : 0 .. MaxTime,
         revoked : BOOLEAN, until : 0 .. MaxTime + Duration]
Idle == [op |-> "none", step |-> "purge", user |-> NoUser, id |-> NoId,
         now |-> 0, revoked |-> FALSE, until |-> 0]

Free(c) == call[c].op = "none" \/ call[c].step = "admitted"
At(c, op, step) == call[c].op = op /\ call[c].step = step
Stored(id) == docs[id] # NoSession
Return(c) == call' = [call EXCEPT ![c] = Idle]

Init == /\ clock = 0
        /\ docs = [id \in Ids |-> NoSession]
        /\ drawn = {} /\ call = [c \in Callers |-> Idle]
        /\ loggedOut = {} /\ overlapped = {}

-----------------------------------------------------------------------------
\* Mutants: the comparisons the other way round, or without the expiry.
ExpiredSwapped(id, now) == Stored(id) /\ docs[id].expires > now
LiveStored(id, now)     == Stored(id)

\* delete_many {expires_at < now}; find_one {expires_at > now}.
Expired(id, now) == Stored(id) /\ docs[id].expires < now
Live(id, now)    == Stored(id) /\ docs[id].expires > now

Purge(c) ==
    docs' = [id \in Ids |-> IF Expired(id, call[c].now) THEN NoSession ELSE docs[id]]

\* A request begins: its first operation is sent.
Begin(c, op, step, u, id) ==
    /\ Free(c)
    /\ call' = [call EXCEPT ![c] =
          [op |-> op, step |-> step, user |-> u, id |-> id, now |-> clock,
           revoked |-> id \in loggedOut, until |-> 0]]
    /\ UNCHANGED <<clock, docs, drawn, loggedOut>>

\* POST /login with the access key of u.
Login(c, u) ==
    /\ Begin(c, "login", "purge", u, NoId)
    /\ overlapped' = overlapped \cup
          {v \in {u} \cap Users : \E d \in Callers : call[d].op = "login" /\ call[d].user = v}

\* require_session with the id of the cookie or of X-Session-Id; POST /logout.
Check(c, id)  == Begin(c, "check", "purge", NoUser, id) /\ UNCHANGED overlapped
Logout(c, id) == Begin(c, "logout", "find", NoUser, id) /\ UNCHANGED overlapped

\* Mutant: an unknown access key is not rejected.
PurgesOnly(c) ==
    /\ call[c].op \in {"login", "check"} /\ call[c].step = "purge"
    /\ Purge(c)
    /\ call' = [call EXCEPT ![c] = [@ EXCEPT !.step = "find", !.now = clock]]
    /\ UNCHANGED <<clock, drawn, loggedOut, overlapped>>

\* delete_expired_sessions; then an access key of nobody ends in
\* ForbiddenException, and the lookup is sent.
Purges(c) ==
    /\ call[c].op \in {"login", "check"} /\ call[c].step = "purge"
    /\ Purge(c)
    /\ call' = [call EXCEPT ![c] =
          IF call[c].op = "login" /\ call[c].user = NoUser THEN Idle
          ELSE [@ EXCEPT !.step = "find", !.now = clock]]
    /\ UNCHANGED <<clock, drawn, loggedOut, overlapped>>

\* Mutant: the found session is written back with a new expiry.
RenewsSession(c) ==
    /\ At(c, "login", "find")
    /\ \E id \in Ids : /\ Live(id, call[c].now) /\ docs[id].user = call[c].user
                       /\ call' = [call EXCEPT ![c] =
                             [@ EXCEPT !.step = "insert", !.id = id, !.now = clock]]
    /\ UNCHANGED <<clock, docs, drawn, loggedOut, overlapped>>

\* get_session_by_access_key: an unexpired session of the user is reused as it
\* is; otherwise a new id is drawn and its insert is sent.
FindsSession(c) ==
    /\ At(c, "login", "find")
    /\ \E id \in Ids : Live(id, call[c].now) /\ docs[id].user = call[c].user
    /\ Return(c)
    /\ UNCHANGED <<clock, docs, drawn, loggedOut, overlapped>>

\* Mutant: an unexpired session of the user is overlooked.
DrawsAnyway(c) ==
    /\ At(c, "login", "find")
    /\ \E id \in Ids \ drawn :
          /\ drawn' = drawn \cup {id}
          /\ call' = [call EXCEPT ![c] =
                [@ EXCEPT !.step = "insert", !.id = id, !.now = clock]]
    /\ UNCHANGED <<clock, docs, loggedOut, overlapped>>

DrawsSession(c) ==
    /\ At(c, "login", "find")
    /\ \A id \in Ids : ~(Live(id, call[c].now) /\ docs[id].user = call[c].user)
    /\ \E id \in Ids \ drawn :
          /\ drawn' = drawn \cup {id}
          /\ call' = [call EXCEPT ![c] =
                [@ EXCEPT !.step = "insert", !.id = id, !.now = clock]]
    /\ UNCHANGED <<clock, docs, loggedOut, overlapped>>

\* create_session: expires_at was computed before the insert was sent.
InsertsSession(c) ==
    /\ At(c, "login", "insert")
    /\ docs' = [docs EXCEPT ![call[c].id] =
          [user |-> call[c].user, expires |-> call[c].now + Duration]]
    /\ Return(c)
    /\ UNCHANGED <<clock, drawn, loggedOut, overlapped>>

\* get_session_by_id for require_session: admitted, or UnauthorizedException.
ChecksSession(c) ==
    /\ At(c, "check", "find")
    /\ IF Live(call[c].id, call[c].now)
       THEN call' = [call EXCEPT ![c] =
               [@ EXCEPT !.step = "admitted", !.until = docs[call[c].id].expires]]
       ELSE Return(c)
    /\ UNCHANGED <<clock, docs, drawn, loggedOut, overlapped>>

\* invalidate_session: an expired or unknown session is not deleted ...
FindsOwnSession(c) ==
    /\ At(c, "logout", "find")
    /\ IF Live(call[c].id, call[c].now)
       THEN call' = [call EXCEPT ![c] = [@ EXCEPT !.step = "delete", !.now = clock]]
       ELSE Return(c)
    /\ UNCHANGED <<clock, docs, drawn, loggedOut, overlapped>>

\* Mutant: every session of the user is deleted.
DeletesSessionsOfUser(c) ==
    /\ At(c, "logout", "delete")
    /\ docs' = [id \in Ids |-> IF docs[id].user = docs[call[c].id].user
                               THEN NoSession ELSE docs[id]]
    /\ loggedOut' = loggedOut \cup {id \in {call[c].id} : Stored(id)}
    /\ Return(c)
    /\ UNCHANGED <<clock, drawn, overlapped>>

\* ... and delete_one counts: only the call that deleted it reports success.
DeletesSession(c) ==
    /\ At(c, "logout", "delete")
    /\ docs' = [docs EXCEPT ![call[c].id] = NoSession]
    /\ loggedOut' = loggedOut \cup {id \in {call[c].id} : Stored(id)}
    /\ Return(c)
    /\ UNCHANGED <<clock, drawn, overlapped>>

\* The process stops: requests are lost, the collection is not.
Crash ==
    /\ call' = [c \in Callers |-> Idle]
    /\ UNCHANGED <<clock, docs, drawn, loggedOut, overlapped>>

Tick ==
    /\ clock < MaxTime
    /\ clock' = clock + 1
    /\ UNCHANGED <<docs, drawn, call, loggedOut, overlapped>>

Next ==
    \/ Tick \/ Crash
    \/ \E c \in Callers :
          \/ \E u \in Users \cup {NoUser} : Login(c, u)
          \/ \E id \in drawn : Check(c, id) \/ Logout(c, id)
          \/ Purges(c) \/ FindsSession(c) \/ DrawsSession(c) \/ InsertsSession(c)
          \/ ChecksSession(c) \/ FindsOwnSession(c) \/ DeletesSession(c)

Spec == Init /\ [][Next]_vars
=============================================================================
