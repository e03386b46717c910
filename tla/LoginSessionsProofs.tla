------------------------ MODULE LoginSessionsProofs ------------------------
(***************************************************************************)
(* Proofs about login sessions, for any users, ids, requests in flight and *)
(* durations.  Ids come first: a pending insert holds an id that is not    *)
(* stored, was never logged out and is held by nobody else.  From that     *)
(* follow the logout and the admission.  That a user has one session       *)
(* follows from Alone: who is the only login of a user and is about to     *)
(* insert still sees no unexpired session of that user.                    *)
(***************************************************************************)
EXTENDS LoginSessionsProperties, TLAPS

USE NamesAssumption, DurationAssumption

Inserting(c) == At(c, "login", "insert")

\* Where the ids of stored, pending and logged out sessions come from.
IdsKnown ==
    /\ \A id \in Ids : Stored(id) => id \in drawn
    /\ loggedOut \subseteq drawn
    /\ \A c \in Callers : Inserting(c) =>
          /\ call[c].id \in drawn /\ call[c].user \in Users
          /\ ~Stored(call[c].id) /\ call[c].id \notin loggedOut
          /\ \A d \in Callers : Inserting(d) /\ call[d].id = call[c].id => c = d

\* What a request remembers was true when it was written down.
CallsRemember ==
    \A c \in Callers :
        /\ call[c].now <= clock
        /\ call[c].op \in {"check", "logout"} => call[c].id \in drawn
        /\ call[c].op = "login" => call[c].step \in {"purge", "find", "insert"}
        /\ At(c, "login", "find") => call[c].user \in Users
        /\ call[c].op = "check" /\ call[c].revoked => call[c].id \in loggedOut

\* Of a user none of whose logins overlapped, at most one login is in flight,
\* and it inserts only while no unexpired session of that user is stored.
Alone ==
    \A u \in Users \ overlapped :
        /\ \A c, d \in Callers :
              call[c].op = "login" /\ call[c].user = u /\ call[d].op = "login" /\ call[d].user = u
              => c = d
        /\ \A c \in Callers, id \in Ids :
              Inserting(c) /\ call[c].user = u /\ docs[id].user = u => ~Live(id, clock)

Inv == TypeOK /\ IdsKnown /\ CallsRemember /\ LogoutIsFinal /\ AdmittedIsLive
       /\ Alone /\ OneSessionUnlessOverlapped

-----------------------------------------------------------------------------
LEMMA InvInit == Init => Inv
BY DEF Init, Inv, TypeOK, IdsKnown, CallsRemember, LogoutIsFinal, AdmittedIsLive, Alone,
       OneSessionUnlessOverlapped, Inserting, At, Stored, Live, Idle, Call, NoSession, Session

\* Every step is one of these.
LEMMA Steps ==
  ASSUME [Next]_vars
  PROVE \/ Tick \/ Crash \/ UNCHANGED vars
        \/ \E c \in Callers :
              \/ \E u \in Users \cup {NoUser} : Login(c, u)
              \/ \E id \in drawn : Check(c, id) \/ Logout(c, id)
              \/ Purges(c) \/ FindsSession(c) \/ DrawsSession(c) \/ InsertsSession(c)
              \/ ChecksSession(c) \/ FindsOwnSession(c) \/ DeletesSession(c)
BY DEF Next

LEMMA IdleIsCall == Idle \in Call
BY DEF Idle, Call

LEMMA BeginIsCall ==
  ASSUME TypeOK, NEW c \in Callers, NEW op \in {"login", "check", "logout"},
         NEW step \in {"purge", "find"}, NEW u \in Users \cup {NoUser},
         NEW id \in Ids \cup {NoId}, Begin(c, op, step, u, id)
  PROVE  call' \in [Callers -> Call]
<1>1. (id \in loggedOut) \in BOOLEAN
  OBVIOUS
<1>2. [op |-> op, step |-> step, user |-> u, id |-> id, now |-> clock,
       revoked |-> id \in loggedOut, until |-> 0] \in Call
  BY <1>1 DEF TypeOK, Call
<1>3. QED
  BY <1>2 DEF Begin, TypeOK

LEMMA BeginCall ==
  ASSUME TypeOK, NEW c \in Callers, NEW op, NEW step, NEW u, NEW id, Begin(c, op, step, u, id)
  PROVE  /\ \A d \in Callers \ {c} : call'[d] = call[d]
         /\ call'[c].op = op /\ call'[c].step = step /\ call'[c].user = u
         /\ call'[c].id = id /\ call'[c].now = clock
         /\ call'[c].revoked => id \in loggedOut
         /\ UNCHANGED <<clock, docs, drawn, loggedOut>>
<1>1. ASSUME NEW b, call' = [call EXCEPT ![c] =
                [op |-> op, step |-> step, user |-> u, id |-> id, now |-> clock,
                 revoked |-> b, until |-> 0]]
      PROVE  /\ \A d \in Callers \ {c} : call'[d] = call[d]
             /\ call'[c].op = op /\ call'[c].step = step /\ call'[c].user = u
             /\ call'[c].id = id /\ call'[c].now = clock
             /\ call'[c].revoked = b
  BY <1>1 DEF TypeOK
<1>2. call' = [call EXCEPT ![c] = [op |-> op, step |-> step, user |-> u, id |-> id,
                now |-> clock, revoked |-> id \in loggedOut, until |-> 0]]
  BY DEF Begin
<1>3. call'[c].revoked = (id \in loggedOut)
  BY <1>1, <1>2, Zenon
<1>4. QED
  BY <1>1, <1>2, <1>3, Zenon DEF Begin

LEMMA MovedFields ==
  ASSUME NEW k \in Call, NEW step, NEW n, NEW id, NEW until
  PROVE  /\ LET m == [k EXCEPT !.step = step, !.now = n]
            IN  /\ m.op = k.op /\ m.step = step /\ m.user = k.user /\ m.id = k.id
                /\ m.now = n /\ m.revoked = k.revoked
         /\ LET m == [k EXCEPT !.step = step, !.id = id, !.now = n]
            IN  /\ m.op = k.op /\ m.step = step /\ m.user = k.user /\ m.id = id
                /\ m.now = n /\ m.revoked = k.revoked
         /\ LET m == [k EXCEPT !.step = step, !.until = until]
            IN  /\ m.op = k.op /\ m.step = step /\ m.user = k.user /\ m.id = k.id
                /\ m.now = k.now /\ m.revoked = k.revoked /\ m.until = until
BY DEF Call

LEMMA MoveKeepsOp ==
  ASSUME TypeOK, NEW c \in Callers,
         FindsSession(c) \/ ChecksSession(c) \/ FindsOwnSession(c) \/ DeletesSession(c)
  PROVE  call'[c].op # "login"
<1>1. \/ call'[c] = Idle
      \/ /\ call[c].op # "login"
         /\ \/ call'[c] = [call[c] EXCEPT !.step = "delete", !.now = clock]
            \/ call'[c] = [call[c] EXCEPT !.step = "admitted", !.until = docs[call[c].id].expires]
  BY DEF FindsSession, ChecksSession, FindsOwnSession, DeletesSession, Return, At, TypeOK
<1>2. call[c] \in Call
  BY DEF TypeOK
<1>3. [call[c] EXCEPT !.step = "delete", !.now = clock].op = call[c].op
  BY <1>2, MovedFields
<1>4. [call[c] EXCEPT !.step = "admitted", !.until = docs[call[c].id].expires].op = call[c].op
  BY <1>2, MovedFields
<1>5. call'[c] = Idle \/ (call[c].op # "login" /\ call'[c].op = call[c].op)
  BY <1>1, <1>3, <1>4, Zenon
<1>6. QED
  BY <1>5 DEF Idle

LEMMA MovedIsCall ==
  ASSUME NEW k \in Call, NEW n \in 0 .. MaxTime,
         NEW step \in {"find", "insert", "delete", "admitted"}
  PROVE  /\ [k EXCEPT !.step = step, !.now = n] \in Call
         /\ \A id \in Ids : [k EXCEPT !.step = step, !.id = id, !.now = n] \in Call
         /\ \A until \in 0 .. MaxTime + Duration :
               [k EXCEPT !.step = step, !.until = until] \in Call
BY DEF Call

LEMMA TypeStep == Inv /\ [Next]_vars => TypeOK'
<1> SUFFICES ASSUME TypeOK, IdsKnown, CallsRemember, [Next]_vars PROVE TypeOK'
  BY DEF Inv
<1> USE DEF TypeOK
<1>1. CASE Tick
  BY <1>1 DEF Tick
<1>2. CASE Crash
  BY <1>2, IdleIsCall DEF Crash
<1>3. ASSUME NEW c \in Callers, NEW u \in Users \cup {NoUser}, Login(c, u) PROVE TypeOK'
  <2>1. call' \in [Callers -> Call]
    BY <1>3, BeginIsCall DEF Login
  <2>2. QED
    BY <1>3, <2>1 DEF Login, Begin
<1>4. ASSUME NEW c \in Callers, NEW id \in drawn, Check(c, id) \/ Logout(c, id) PROVE TypeOK'
  <2>1. call' \in [Callers -> Call]
    BY <1>4, BeginIsCall DEF Check, Logout
  <2>2. QED
    BY <1>4, <2>1 DEF Check, Logout, Begin
<1>5. ASSUME NEW c \in Callers, Purges(c) PROVE TypeOK'
  <2>1. docs' \in [Ids -> Session \cup {NoSession}]
    BY <1>5 DEF Purges, Purge
  <2>2. [call[c] EXCEPT !.step = "find", !.now = clock] \in Call
    BY MovedIsCall
  <2>3. QED
    BY <1>5, <2>1, <2>2, IdleIsCall DEF Purges
<1>6. ASSUME NEW c \in Callers, FindsSession(c) PROVE TypeOK'
  BY <1>6, IdleIsCall DEF FindsSession, Return
<1>7. ASSUME NEW c \in Callers, DrawsSession(c) PROVE TypeOK'
  <2>1. PICK id \in Ids : /\ drawn' = drawn \cup {id}
                          /\ call' = [call EXCEPT ![c] =
                                [@ EXCEPT !.step = "insert", !.id = id, !.now = clock]]
    BY <1>7 DEF DrawsSession
  <2>2. [call[c] EXCEPT !.step = "insert", !.id = id, !.now = clock] \in Call
    BY MovedIsCall
  <2>3. QED
    BY <1>7, <2>1, <2>2 DEF DrawsSession
<1>8. ASSUME NEW c \in Callers, InsertsSession(c) PROVE TypeOK'
  <2>1. [user |-> call[c].user, expires |-> call[c].now + Duration] \in Session
    BY <1>8 DEF InsertsSession, IdsKnown, Inserting, Session, Call
  <2>2. QED
    BY <1>8, <2>1, IdleIsCall DEF InsertsSession, Return
<1>9. ASSUME NEW c \in Callers, ChecksSession(c) PROVE TypeOK'
  <2>1. CASE Live(call[c].id, call[c].now)
    <3>1. docs[call[c].id] \in Session
      BY <1>9, <2>1 DEF Live, Stored, CallsRemember, ChecksSession, At
    <3>2. docs[call[c].id].expires \in 0 .. MaxTime + Duration
      BY <3>1 DEF Session
    <3>3. [call[c] EXCEPT !.step = "admitted", !.until = docs[call[c].id].expires] \in Call
      BY <3>2, MovedIsCall, clock \in 0 .. MaxTime
    <3>4. QED
      BY <1>9, <2>1, <3>3 DEF ChecksSession
  <2>2. CASE ~Live(call[c].id, call[c].now)
    BY <1>9, <2>2, IdleIsCall DEF ChecksSession, Return
  <2>3. QED
    BY <2>1, <2>2
<1>10. ASSUME NEW c \in Callers, FindsOwnSession(c) PROVE TypeOK'
  <2>1. CASE Live(call[c].id, call[c].now)
    <3>1. [call[c] EXCEPT !.step = "delete", !.now = clock] \in Call
      BY MovedIsCall
    <3>2. QED
      BY <1>10, <2>1, <3>1 DEF FindsOwnSession
  <2>2. CASE ~Live(call[c].id, call[c].now)
    BY <1>10, <2>2, IdleIsCall DEF FindsOwnSession, Return
  <2>3. QED
    BY <2>1, <2>2
<1>11. ASSUME NEW c \in Callers, DeletesSession(c) PROVE TypeOK'
  <2>1. loggedOut' \subseteq Ids
    BY <1>11 DEF DeletesSession, At, CallsRemember
  <2>2. QED
    BY <1>11, <2>1, IdleIsCall DEF DeletesSession, Return
<1>12. CASE UNCHANGED vars
  BY <1>12 DEF vars
<1>13. QED
  BY <1>1, <1>2, <1>3, <1>4, <1>5, <1>6, <1>7, <1>8, <1>9, <1>10, <1>11, <1>12, Steps

\* What a step can add to the collection is a pending insert, and an id that
\* was drawn is not drawn again.
LEMMA IdsStep == Inv /\ [Next]_vars => IdsKnown'
<1> SUFFICES ASSUME TypeOK, IdsKnown, CallsRemember, [Next]_vars PROVE IdsKnown'
  BY DEF Inv
<1> USE DEF IdsKnown, Inserting, At, Stored
<1>1. CASE Tick \/ Crash \/ UNCHANGED vars
  BY <1>1 DEF Tick, Crash, vars, Idle
<1>2. ASSUME NEW c \in Callers, NEW u \in Users \cup {NoUser}, Login(c, u) PROVE IdsKnown'
  <2>1. Begin(c, "login", "purge", u, NoId)
    BY <1>2 DEF Login
  <2>2. QED
    BY <2>1, BeginCall
<1>3. ASSUME NEW c \in Callers, NEW id \in drawn, Check(c, id) \/ Logout(c, id) PROVE IdsKnown'
  <2>1. Begin(c, "check", "purge", NoUser, id) \/ Begin(c, "logout", "find", NoUser, id)
    BY <1>3 DEF Check, Logout
  <2>2. QED
    BY <2>1, BeginCall
<1>4. ASSUME NEW c \in Callers, Purges(c) PROVE IdsKnown'
  BY <1>4 DEF Purges, Purge, Idle, TypeOK
<1>5. ASSUME NEW c \in Callers, FindsSession(c) PROVE IdsKnown'
  BY <1>5 DEF FindsSession, Return, Idle, TypeOK
<1>6. ASSUME NEW c \in Callers, DrawsSession(c) PROVE IdsKnown'
  BY <1>6 DEF DrawsSession, CallsRemember, TypeOK, Call
<1>7. ASSUME NEW c \in Callers, InsertsSession(c) PROVE IdsKnown'
  BY <1>7 DEF InsertsSession, Return, Idle, TypeOK
<1>8. ASSUME NEW c \in Callers, ChecksSession(c) \/ FindsOwnSession(c) PROVE IdsKnown'
  <2>1. /\ UNCHANGED <<docs, drawn, loggedOut>>
        /\ \A d \in Callers \ {c} : call'[d] = call[d]
    BY <1>8 DEF ChecksSession, FindsOwnSession, Return, TypeOK
  <2>2. call'[c].op # "login"
    BY <1>8, MoveKeepsOp
  <2>3. QED
    BY <2>1, <2>2
<1>9. ASSUME NEW c \in Callers, DeletesSession(c) PROVE IdsKnown'
  BY <1>9 DEF DeletesSession, Return, Idle, TypeOK, CallsRemember
<1>10. QED
  BY <1>1, <1>2, <1>3, <1>4, <1>5, <1>6, <1>7, <1>8, <1>9, Steps

LEMMA CallsStep == Inv /\ [Next]_vars => CallsRemember' /\ AdmittedIsLive'
<1> SUFFICES ASSUME TypeOK, IdsKnown, CallsRemember, LogoutIsFinal, AdmittedIsLive, [Next]_vars
             PROVE  CallsRemember' /\ AdmittedIsLive'
  BY DEF Inv
<1> USE DEF CallsRemember, AdmittedIsLive, At, TypeOK
<1>1. CASE Tick \/ UNCHANGED vars
  BY <1>1 DEF Tick, vars, Call
<1>0. CASE Crash
  BY <1>0 DEF Crash, Idle
<1>2. ASSUME NEW c \in Callers, NEW u \in Users \cup {NoUser}, Login(c, u)
      PROVE  CallsRemember' /\ AdmittedIsLive'
  <2>1. Begin(c, "login", "purge", u, NoId)
    BY <1>2 DEF Login
  <2>2. QED
    BY <2>1, BeginCall
<1>3. ASSUME NEW c \in Callers, NEW id \in drawn, Check(c, id) \/ Logout(c, id)
      PROVE  CallsRemember' /\ AdmittedIsLive'
  <2>1. Begin(c, "check", "purge", NoUser, id) \/ Begin(c, "logout", "find", NoUser, id)
    BY <1>3 DEF Check, Logout
  <2>2. QED
    BY <2>1, BeginCall
<1>4. ASSUME NEW c \in Callers, Purges(c) PROVE CallsRemember' /\ AdmittedIsLive'
  BY <1>4 DEF Purges, Idle, Call
<1>5. ASSUME NEW c \in Callers, FindsSession(c) PROVE CallsRemember' /\ AdmittedIsLive'
  BY <1>5 DEF FindsSession, Return, Idle
<1>6. ASSUME NEW c \in Callers, DrawsSession(c) PROVE CallsRemember' /\ AdmittedIsLive'
  <2>1. PICK id \in Ids : /\ drawn' = drawn \cup {id}
                          /\ call' = [call EXCEPT ![c] =
                                [@ EXCEPT !.step = "insert", !.id = id, !.now = clock]]
    BY <1>6 DEF DrawsSession
  <2>2. At(c, "login", "find") /\ UNCHANGED <<clock, loggedOut>>
    BY <1>6 DEF DrawsSession
  <2>3. /\ \A d \in Callers \ {c} : call'[d] = call[d]
        /\ call'[c].op = "login" /\ call'[c].step = "insert" /\ call'[c].now = clock
    BY <2>1, <2>2, MovedFields
  <2>4. QED
    BY <2>1, <2>2, <2>3
<1>7. ASSUME NEW c \in Callers, InsertsSession(c) PROVE CallsRemember' /\ AdmittedIsLive'
  BY <1>7 DEF InsertsSession, Return, Idle
<1>8. ASSUME NEW c \in Callers, ChecksSession(c) PROVE CallsRemember' /\ AdmittedIsLive'
  <2>1. CASE Live(call[c].id, call[c].now)
    <3>1. call' = [call EXCEPT ![c] =
             [@ EXCEPT !.step = "admitted", !.until = docs[call[c].id].expires]]
      BY <1>8, <2>1 DEF ChecksSession
    <3>2. QED
      BY <1>8, <2>1, <3>1, MovedFields DEF ChecksSession, Live, LogoutIsFinal
  <2>2. CASE ~Live(call[c].id, call[c].now)
    BY <1>8, <2>2 DEF ChecksSession, Return, Idle
  <2>3. QED
    BY <2>1, <2>2
<1>9. ASSUME NEW c \in Callers, FindsOwnSession(c) PROVE CallsRemember' /\ AdmittedIsLive'
  <2>1. CASE Live(call[c].id, call[c].now)
    <3>1. call' = [call EXCEPT ![c] = [@ EXCEPT !.step = "delete", !.now = clock]]
      BY <1>9, <2>1 DEF FindsOwnSession
    <3>2. QED
      BY <1>9, <3>1, MovedFields DEF FindsOwnSession
  <2>2. CASE ~Live(call[c].id, call[c].now)
    BY <1>9, <2>2 DEF FindsOwnSession, Return, Idle
  <2>3. QED
    BY <2>1, <2>2
<1>10. ASSUME NEW c \in Callers, DeletesSession(c) PROVE CallsRemember' /\ AdmittedIsLive'
  BY <1>10 DEF DeletesSession, Return, Idle
<1>11. QED
  BY <1>0, <1>1, <1>2, <1>3, <1>4, <1>5, <1>6, <1>7, <1>8, <1>9, <1>10, Steps

\* Only a pending insert stores a document, and what it stores was not logged out.
LEMMA LogoutStep == Inv /\ [Next]_vars => LogoutIsFinal'
<1> SUFFICES ASSUME TypeOK, IdsKnown, CallsRemember, LogoutIsFinal, [Next]_vars
             PROVE  LogoutIsFinal'
  BY DEF Inv
<1> USE DEF LogoutIsFinal, Stored, TypeOK
<1>1. CASE UNCHANGED <<docs, loggedOut>>
  BY <1>1
<1>2. ASSUME NEW c \in Callers, Purges(c) PROVE LogoutIsFinal'
  BY <1>2 DEF Purges, Purge
<1>3. ASSUME NEW c \in Callers, InsertsSession(c) PROVE LogoutIsFinal'
  BY <1>3 DEF InsertsSession, IdsKnown, Inserting
<1>4. ASSUME NEW c \in Callers, DeletesSession(c) PROVE LogoutIsFinal'
  BY <1>4 DEF DeletesSession, CallsRemember, At
<1>5. QED
  BY <1>1, <1>2, <1>3, <1>4, Steps DEF Tick, Crash, vars, Login, Check, Logout, Begin,
     FindsSession, DrawsSession, ChecksSession, FindsOwnSession

\* The lookup saw no unexpired session of the user, time only ends sessions,
\* and nobody else inserts one.
LEMMA AloneStep == Inv /\ [Next]_vars => Alone' /\ OneSessionUnlessOverlapped'
<1> SUFFICES ASSUME TypeOK, IdsKnown, CallsRemember, Alone, OneSessionUnlessOverlapped,
                    [Next]_vars
             PROVE  Alone' /\ OneSessionUnlessOverlapped'
  BY DEF Inv
<1> USE DEF Alone, OneSessionUnlessOverlapped, Inserting, At, Live, Stored
<1>1. CASE UNCHANGED vars
  BY <1>1 DEF vars
<1>2. CASE Tick
  <2>1. \A id \in Ids : Live(id, clock)' => Live(id, clock)
    BY <1>2 DEF Tick, TypeOK, Session, NoSession
  <2>2. QED
    BY <1>2, <2>1 DEF Tick
<1>3. CASE Crash
  BY <1>3 DEF Crash, Idle
<1>4. ASSUME NEW c \in Callers, NEW u \in Users \cup {NoUser}, Login(c, u)
      PROVE  Alone' /\ OneSessionUnlessOverlapped'
  <2>1. Begin(c, "login", "purge", u, NoId)
    BY <1>4 DEF Login
  <2>2. overlapped \subseteq overlapped'
    BY <1>4 DEF Login
  <2>3. \A d \in Callers : call[d].op = "login" /\ call[d].user = u /\ u \in Users
                        => u \in overlapped'
    BY <1>4 DEF Login
  <2>4. QED
    BY <2>1, <2>2, <2>3, BeginCall
<1>5. ASSUME NEW c \in Callers, NEW id \in drawn, Check(c, id) \/ Logout(c, id)
      PROVE  Alone' /\ OneSessionUnlessOverlapped'
  <2>1. Begin(c, "check", "purge", NoUser, id) \/ Begin(c, "logout", "find", NoUser, id)
    BY <1>5 DEF Check, Logout
  <2>2. UNCHANGED overlapped
    BY <1>5 DEF Check, Logout
  <2>3. QED
    BY <2>1, <2>2, BeginCall
<1>6. ASSUME NEW c \in Callers, Purges(c) PROVE Alone' /\ OneSessionUnlessOverlapped'
  <2>1. \A id \in Ids : docs'[id] = docs[id] \/ docs'[id] = NoSession
    BY <1>6 DEF Purges, Purge
  <2>2. /\ \A d \in Callers \ {c} : call'[d] = call[d]
        /\ call'[c] = Idle \/ call'[c] = [call[c] EXCEPT !.step = "find", !.now = clock]
        /\ UNCHANGED <<clock, overlapped>>
    BY <1>6 DEF Purges, TypeOK
  <2>3. call'[c] = Idle \/ /\ call'[c].op = call[c].op /\ call'[c].user = call[c].user
                           /\ call'[c].step = "find"
    <3>1. call[c] \in Call
      BY DEF TypeOK
    <3>2. LET m == [call[c] EXCEPT !.step = "find", !.now = clock]
          IN  m.op = call[c].op /\ m.user = call[c].user /\ m.step = "find"
      BY <3>1, MovedFields
    <3>3. QED
      BY <2>2, <3>2, Zenon
  <2>4. QED
    BY <2>1, <2>2, <2>3 DEF Idle
<1>7. ASSUME NEW c \in Callers, DrawsSession(c) PROVE Alone' /\ OneSessionUnlessOverlapped'
  <2>1. PICK id \in Ids : call' = [call EXCEPT ![c] =
                                [@ EXCEPT !.step = "insert", !.id = id, !.now = clock]]
    BY <1>7 DEF DrawsSession
  <2>2. /\ \A d \in Callers \ {c} : call'[d] = call[d]
        /\ call'[c].op = "login" /\ call'[c].step = "insert" /\ call'[c].user = call[c].user
    BY <1>7, <2>1, MovedFields DEF TypeOK, DrawsSession
  <2>3. \A i \in Ids : docs[i].user = call[c].user => ~Live(i, clock)
    <3>1. call[c].now \in Nat /\ clock \in Nat /\ call[c].now <= clock
      BY DEF TypeOK, Call, CallsRemember
    <3>2. SUFFICES ASSUME NEW i \in Ids, docs[i].user = call[c].user, Stored(i),
                          docs[i].expires > clock
                   PROVE  FALSE
      OBVIOUS
    <3>3. docs[i].expires \in Nat
      BY DEF TypeOK, Session, NoSession
    <3>4. QED
      BY <1>7, <3>1, <3>2, <3>3 DEF DrawsSession
  <2>4. UNCHANGED <<clock, docs, overlapped>>
    BY <1>7 DEF DrawsSession
  <2>5. QED
    BY <1>7, <2>2, <2>3, <2>4 DEF DrawsSession
<1>8. ASSUME NEW c \in Callers, InsertsSession(c) PROVE Alone' /\ OneSessionUnlessOverlapped'
  <2>1. /\ \A d \in Callers \ {c} : call'[d] = call[d]
        /\ call'[c].op = "none" /\ UNCHANGED <<clock, overlapped>>
        /\ \A id \in Ids \ {call[c].id} : docs'[id] = docs[id]
        /\ call[c].id \in Ids /\ docs'[call[c].id].user = call[c].user
    BY <1>8 DEF InsertsSession, Return, Idle, IdsKnown, TypeOK
  <2>2. QED
    BY <1>8, <2>1 DEF InsertsSession, IdsKnown
<1>9. ASSUME NEW c \in Callers,
             FindsSession(c) \/ ChecksSession(c) \/ FindsOwnSession(c) \/ DeletesSession(c)
      PROVE  Alone' /\ OneSessionUnlessOverlapped'
  <2>1. \A id \in Ids : docs'[id] = docs[id] \/ docs'[id] = NoSession
    BY <1>9 DEF FindsSession, ChecksSession, FindsOwnSession, DeletesSession, TypeOK
  <2>2. /\ \A d \in Callers \ {c} : call'[d] = call[d]
        /\ UNCHANGED <<clock, overlapped>>
    BY <1>9 DEF FindsSession, ChecksSession, FindsOwnSession, DeletesSession, Return, TypeOK
  <2>3. call'[c].op # "login"
    BY <1>9, MoveKeepsOp
  <2>4. QED
    BY <2>1, <2>2, <2>3
<1>10. QED
  BY <1>1, <1>2, <1>3, <1>4, <1>5, <1>6, <1>7, <1>8, <1>9, Steps

-----------------------------------------------------------------------------
LEMMA InvStep == Inv /\ [Next]_vars => Inv'
BY TypeStep, IdsStep, CallsStep, LogoutStep, AloneStep DEF Inv

\* The inductive invariant holds in every reachable state.
THEOREM Invariant == Spec => []Inv
BY InvInit, InvStep, PTL DEF Spec

\* Documents and requests are well typed, for every choice of the constants.
THEOREM TypeCorrect == Spec => []TypeOK
BY Invariant, PTL DEF Inv

\* An acknowledged logout is final: no other login, check or logout that read
\* the session earlier brings its document back.
THEOREM LogoutFinal == Spec => []LogoutIsFinal
BY Invariant, PTL DEF Inv

\* require_session admits neither a session logged out before the request nor
\* one expired when its lookup was sent.
THEOREM AdmissionIsLive == Spec => []AdmittedIsLive
BY Invariant, PTL DEF Inv

\* Only two logins in flight together give a user two unexpired sessions.
THEOREM OneSession == Spec => []OneSessionUnlessOverlapped
BY Invariant, PTL DEF Inv

\* A session ends by its own logout or after its expiry, and not otherwise.
THEOREM NobodyElseEndsIt == Spec => OthersStayIn
<1>1. Inv /\ [Next]_vars =>
      [\A id \in Ids : Stored(id) /\ docs'[id] = NoSession =>
          id \in loggedOut' \/ docs[id].expires < clock]_vars
  <2> SUFFICES ASSUME TypeOK, IdsKnown, CallsRemember, [Next]_vars,
                      NEW id \in Ids, Stored(id), docs'[id] = NoSession
               PROVE  id \in loggedOut' \/ docs[id].expires < clock
    BY DEF Inv
  <2> USE DEF Stored
  <2>1. CASE UNCHANGED docs
    BY <2>1
  <2>2. ASSUME NEW c \in Callers, Purges(c) PROVE docs[id].expires < clock
    <3>1. call[c].now \in Nat /\ clock \in Nat /\ call[c].now <= clock
      BY DEF TypeOK, Call, CallsRemember
    <3>2. docs[id].expires \in Nat
      BY DEF TypeOK, Session, NoSession
    <3>3. docs[id].expires < call[c].now
      BY <2>2 DEF Purges, Purge, Expired
    <3>4. QED
      BY <3>1, <3>2, <3>3
  <2>3. ASSUME NEW c \in Callers, InsertsSession(c) PROVE FALSE
    <3>1. call[c].user \in Users /\ call[c].id \in Ids
      BY <2>3 DEF InsertsSession, IdsKnown, Inserting, TypeOK
    <3>2. docs'[id] = docs[id] \/ docs'[id].user \in Users
      BY <2>3, <3>1 DEF InsertsSession, TypeOK
    <3>3. QED
      BY <3>2 DEF NoSession
  <2>4. ASSUME NEW c \in Callers, DeletesSession(c) PROVE id \in loggedOut'
    BY <2>4 DEF DeletesSession, TypeOK
  <2>5. QED
    BY <2>1, <2>2, <2>3, <2>4, Steps DEF Tick, Crash, vars, Login, Check, Logout, Begin,
       FindsSession, DrawsSession, ChecksSession, FindsOwnSession
<1>2. QED
  BY Invariant, <1>1, PTL DEF Spec, OthersStayIn
=============================================================================
