------------------------- MODULE FlightLookupCache -------------------------
(***************************************************************************)
(* Flight lookup with a process-local TTL cache in front of AeroDataBox.   *)
(* lookup_flight reads the cache, awaits the provider on a miss and stores *)
(* what arrives under the key it computed before the await.  Lookups of    *)
(* one key that overlap each call the provider, and their answers arrive   *)
(* in any order.                                                           *)
(***************************************************************************)
EXTENDS Naturals

CONSTANTS
    Callers,     \* slots for lookups in flight at the same time
    Raws,        \* what callers type
    Numbers,     \* normalized flight numbers
    NumberOf,    \* normalize_flight_number: Raws -> Numbers, or NoNumber
    NoNumber,    \* the input is rejected
    WindowDays,  \* aerodatabox_lookup_window_days
    TtlFound,    \* aerodatabox_cache_ttl_success_seconds
    TtlNone,     \* aerodatabox_cache_ttl_no_results_seconds
    MaxLatency,  \* aerodatabox_timeout_seconds, taken as the limit of a whole call
    MaxTime, MaxDay  \* bounds: the clock and the calendar

ASSUME NumberAssumption ==
    NoNumber \notin Numbers /\ NumberOf \in [Raws -> Numbers \cup {NoNumber}]
ASSUME TimeAssumption ==
    {WindowDays, TtlFound, TtlNone, MaxLatency, MaxTime, MaxDay} \subseteq Nat

VARIABLES
    clock,   \* time.monotonic()
    today,   \* date.today(), which moves independently of the clock
    cache,   \* _cache: key -> (inserted_at, response)
    call     \* call[c]: the lookup in slot c

vars == <<clock, today, cache, call>>

Dates    == 0 .. MaxDay
Windows  == (Dates \X (0 .. MaxDay + WindowDays + 1))
Keys     == Numbers \X Windows
\* A response: what the provider was asked, when it answered, whether it found
\* any flight.
Response == [about : Keys, seen : 0 .. MaxTime, found : BOOLEAN]
NoEntry  == [none |-> TRUE]
Entry    == [at : 0 .. MaxTime, response : Response]

Idle      == [phase |-> "idle"]
Asked     == [phase : {"asked"}, raw : Raws, window : Windows, started : 0 .. MaxTime]
Said      == [phase : {"said"}, raw : Raws, window : Windows, started : 0 .. MaxTime,
              response : Response]
Served    == [phase : {"served"}, raw : Raws, window : Windows, at : 0 .. MaxTime,
              response : Response, cached : BOOLEAN]
Refused   == [phase : {"rejected", "unavailable"}]
InFlight(c) == call[c].phase \in {"asked", "said"}

Init == /\ clock = 0 /\ today = 0
        /\ cache = [k \in Keys |-> NoEntry]
        /\ call = [c \in Callers |-> Idle]

-----------------------------------------------------------------------------
\* Mutant: the window is left out of the cache key.
KeyWithoutWindow(number, window) == <<number, <<0, 1>>>>

CacheKey(number, window) == <<number, window>>

\* The single day asked for, or the default window from today.
SingleDay(d)  == <<d, d + 1>>
DefaultWindow == <<today, today + WindowDays>>

\* Mutants: one lifetime for both kinds of answer; an entry never expires.
FreshBySuccessTtl(entry) == clock - entry.at < TtlFound
FreshForever(entry)      == TRUE

Ttl(found) == IF found THEN TtlFound ELSE TtlNone
Fresh(entry) == clock - entry.at < Ttl(entry.response.found)

\* lookup_flight up to the await: a fresh entry is the answer, a miss or an
\* expired entry starts a call.
Lookup(c, raw, window) ==
    LET k == CacheKey(NumberOf[raw], window)
        hit == cache[k] # NoEntry /\ Fresh(cache[k])
    IN  /\ ~InFlight(c)
        /\ NumberOf[raw] # NoNumber
        /\ \/ /\ hit
              /\ call' = [call EXCEPT ![c] =
                    [phase |-> "served", raw |-> raw, window |-> window, at |-> clock,
                     response |-> cache[k].response, cached |-> TRUE]]
           \/ /\ ~hit
              /\ call' = [call EXCEPT ![c] =
                    [phase |-> "asked", raw |-> raw, window |-> window, started |-> clock]]
        /\ UNCHANGED <<clock, today, cache>>

LookupOnDate(c, raw, d)  == Lookup(c, raw, SingleDay(d))
LookupUpcoming(c, raw)   == Lookup(c, raw, DefaultWindow)

\* BadRequestException before anything is read.
Reject(c, raw) ==
    /\ ~InFlight(c) /\ NumberOf[raw] = NoNumber
    /\ call' = [call EXCEPT ![c] = [phase |-> "rejected"]]
    /\ UNCHANGED <<clock, today, cache>>

\* The provider reads its data: flights, an empty list, or 404 taken as empty.
ProviderAnswers(c, found) ==
    /\ call[c].phase = "asked"
    /\ call' = [call EXCEPT ![c] =
          [phase |-> "said", raw |-> @.raw, window |-> @.window, started |-> @.started,
           response |-> [about |-> <<NumberOf[@.raw], @.window>>,
                         seen |-> clock, found |-> found]]]
    /\ UNCHANGED <<clock, today, cache>>

\* Mutant: the stored time is when the entry ends.
ArrivesWithDeadline(c) ==
    /\ call[c].phase = "said"
    /\ cache' = [cache EXCEPT ![CacheKey(NumberOf[call[c].raw], call[c].window)] =
          [at |-> clock + Ttl(call[c].response.found), response |-> call[c].response]]
    /\ call' = [call EXCEPT ![c] =
          [phase |-> "served", raw |-> @.raw, window |-> @.window, at |-> clock,
           response |-> @.response, cached |-> FALSE]]
    /\ UNCHANGED <<clock, today>>

\* The answer arrives: it is stored, whatever was stored meanwhile, with the
\* time of arrival, and served.
Arrives(c) ==
    /\ call[c].phase = "said"
    /\ cache' = [cache EXCEPT ![CacheKey(NumberOf[call[c].raw], call[c].window)] =
          [at |-> clock, response |-> call[c].response]]
    /\ call' = [call EXCEPT ![c] =
          [phase |-> "served", raw |-> @.raw, window |-> @.window, at |-> clock,
           response |-> @.response, cached |-> FALSE]]
    /\ UNCHANGED <<clock, today>>

\* AeroDataBoxError (timeout, network, 401, 403, 429, any other status) becomes
\* ServiceUnavailableException; nothing is cached.
Fails(c) ==
    /\ InFlight(c)
    /\ call' = [call EXCEPT ![c] = [phase |-> "unavailable"]]
    /\ UNCHANGED <<clock, today, cache>>

\* Mutant: the client waits for ever.
TimeoutNever == TRUE

\* The client's timeout: no call outlives MaxLatency.
TimeoutLeaves == \A c \in Callers : InFlight(c) => clock < call[c].started + MaxLatency

Tick ==
    /\ clock < MaxTime /\ TimeoutLeaves
    /\ clock' = clock + 1
    /\ UNCHANGED <<today, cache, call>>

NextDay ==
    /\ today < MaxDay
    /\ today' = today + 1
    /\ UNCHANGED <<clock, cache, call>>

\* The cache lives in the process, and so do the calls.
Restart ==
    /\ cache' = [k \in Keys |-> NoEntry]
    /\ call' = [c \in Callers |-> Idle]
    /\ UNCHANGED <<clock, today>>

Next ==
    \/ Tick \/ NextDay \/ Restart
    \/ \E c \in Callers :
          \/ \E raw \in Raws : LookupUpcoming(c, raw) \/ Reject(c, raw)
          \/ \E raw \in Raws, d \in Dates : LookupOnDate(c, raw, d)
          \/ \E found \in BOOLEAN : ProviderAnswers(c, found)
          \/ Arrives(c) \/ Fails(c)

Spec == Init /\ [][Next]_vars
=============================================================================
