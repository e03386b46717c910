------------------------- MODULE FlightsProperties -------------------------
EXTENDS Flights

\* Documents and requests are what FlightService can store and hold.
TypeOK ==
    /\ clock \in Times /\ updates \in 0 .. MaxUpdates
    /\ ports \subseteq Ports /\ removed \subseteq Ports \ ports
    /\ docs \in [Flts -> Flight \cup {Absent}]
    /\ Stored \subseteq created /\ overlapped \subseteq created
    /\ \A c \in Callers : call[c].step \in {"map", "answered"} =>
          \A f \in DOMAIN call[c].found : call[c].found[f] \in Flight /\ call[c].found[f].valid

\* Every listing answers with flights that had not landed when the request
\* began or are no longer ACTIVE, unless a create or update of that flight was
\* written while the sweep was under way: however many sweeps run, one request's
\* sweep is enough for its own answer.
ListedHasNotLanded ==
    \A c \in Callers : call[c].step = "answered" =>
        \A f \in DOMAIN call[c].found :
            \/ f \in call[c].touched
            \/ call[c].found[f].status # "ACTIVE"
            \/ call[c].found[f].lands >= call[c].now

\* Unless an update and another write of the flight read it before either
\* wrote, the stored flight is what the acknowledged writes amount to, in
\* order, with EXPIRED in place of ACTIVE only after it landed: the sweep's
\* whole-document write undoes nothing, and a deleted flight stays deleted.
WritesSurviveUnlessOverlapped ==
    \A f \in Flts \ overlapped : docs[f] = intended[f]

\* What a failed request met.
Explained(k) ==
    /\ k.unread \cup k.missing \cup k.unknown # {}
    /\ k.unread \subseteq nulled \cup (created \ Stored)
    /\ k.missing \subseteq removed
    /\ \A code \in k.unknown, p \in Seeded \ removed : code \notin {Icao[p], Iata[p]}

\* A listing, create or update ends in an internal error only if a flight it
\* read had had a null stored into it, the flight it created was deleted before
\* it was read back, an airport of a flight it read was deleted, or it named a
\* code that belongs to no airport that was there from the start: no order of
\* the calls makes one flight fail for what was done to another, or stores a
\* flight with an airport that never was.
FailuresAreExplained ==
    \A c \in Callers : call[c].step = "failed" => Explained(call[c])
=============================================================================
