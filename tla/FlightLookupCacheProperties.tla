-------------------- MODULE FlightLookupCacheProperties --------------------
EXTENDS FlightLookupCache, Integers

\* Entries and answers are what lookup_flight can build.
TypeOK ==
    /\ clock \in 0 .. MaxTime /\ today \in Dates
    /\ cache \in [Keys -> Entry \cup {NoEntry}]
    /\ call \in [Callers -> {Idle} \cup Asked \cup Said \cup Served \cup Refused]

\* However lookups of one key overlap, an answer is one the provider gave for
\* the flight number and the days this caller asked about, at most one call ago
\* if it was fetched and less than one lifetime more if it was cached; "no
\* flights" is believed no longer than its own shorter lifetime.
AnswersAreGrounded ==
    \A c \in Callers : call[c].phase = "served" =>
        LET a   == call[c]
            age == a.at - a.response.seen
        IN  /\ a.response.about = <<NumberOf[a.raw], a.window>>
            /\ age <= MaxLatency \/ (a.cached /\ age < Ttl(a.response.found) + MaxLatency)

\* What is stored for a key never moves back by more than one call: a lookup
\* that began earlier and arrives later replaces a newer answer, but not with
\* one from before the newer call could have started.
NeverFarBehind ==
    [][\A k \in Keys : cache[k] # NoEntry /\ cache'[k] # NoEntry =>
          cache'[k].response.seen + MaxLatency >= cache[k].response.seen]_vars
=============================================================================
