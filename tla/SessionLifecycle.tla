--------------------------- MODULE SessionLifecycle ---------------------------
(***************************************************************************)
(* What a mediation session promises its two users, whatever requests,     *)
(* jobs, workers, retries and faults it takes: a text stays as it was      *)
(* submitted, only a text that is long enough can be submitted, AI output  *)
(* speaks about locked texts only, comments open after the advice, and     *)
(* only a comment is answered.                                             *)
(***************************************************************************)
CONSTANTS Users, Comments

VARIABLES
    phase,      \* phase[u]: "writing", "submitted" or "locked"
    long,       \* long[u]: the text of u has 50 characters
    reflected,  \* the users who have a private reflection
    advised,    \* there is shared advice
    open,       \* the session is in discussion
    posted,     \* the comments
    answered    \* the comments that have an answer

vars == <<phase, long, reflected, advised, open, posted, answered>>

Init == /\ phase = [u \in Users |-> "writing"]
        /\ long = [u \in Users |-> FALSE]
        /\ reflected = {} /\ advised = FALSE /\ open = FALSE
        /\ posted = {} /\ answered = {}

Write(u) ==
    /\ phase[u] = "writing"
    /\ \E b \in BOOLEAN : long' = [long EXCEPT ![u] = b]
    /\ UNCHANGED <<phase, reflected, advised, open, posted, answered>>

Submit(u) ==
    /\ phase[u] = "writing" /\ long[u]
    /\ phase' = [phase EXCEPT ![u] = "submitted"]
    /\ UNCHANGED <<long, reflected, advised, open, posted, answered>>

Lock(u) ==
    /\ phase[u] = "submitted"
    /\ phase' = [phase EXCEPT ![u] = "locked"]
    /\ UNCHANGED <<long, reflected, advised, open, posted, answered>>

Reflect(u) ==
    /\ phase[u] = "locked"
    /\ reflected' = reflected \cup {u}
    /\ UNCHANGED <<phase, long, advised, open, posted, answered>>

Advise ==
    /\ \A u \in Users : phase[u] = "locked"
    /\ advised' = TRUE
    /\ UNCHANGED <<phase, long, reflected, open, posted, answered>>

Open ==
    /\ advised
    /\ open' = TRUE
    /\ UNCHANGED <<phase, long, reflected, advised, posted, answered>>

\* An agreement to resolve or archive, or a moderation that is run again.
Close ==
    /\ open' = FALSE
    /\ UNCHANGED <<phase, long, reflected, advised, posted, answered>>

Post(c) ==
    /\ c \notin posted
    /\ posted' = posted \cup {c}
    /\ UNCHANGED <<phase, long, reflected, advised, open, answered>>

Answer(c) ==
    /\ c \in posted
    /\ answered' = answered \cup {c}
    /\ UNCHANGED <<phase, long, reflected, advised, open, posted>>

Next ==
    \/ \E u \in Users : Write(u) \/ Submit(u) \/ Lock(u) \/ Reflect(u)
    \/ Advise \/ Open \/ Close
    \/ \E c \in Comments : Post(c) \/ Answer(c)

Spec == Init /\ [][Next]_vars
=============================================================================
