---------------------- MODULE FlightLookupCacheProofs ----------------------
(***************************************************************************)
(* Proofs about the flight lookup cache, for any numbers, windows, times   *)
(* to live, timeout and number of overlapping lookups.  The invariant says *)
(* of each lookup in flight that it is no older than the timeout, and of   *)
(* each entry that its answer was no older than that when it was stored.   *)
(***************************************************************************)
EXTENDS FlightLookupCacheProperties, TLAPS

USE NumberAssumption, TimeAssumption

\* A lookup in flight began at most MaxLatency ago, and what the provider said
\* it said since then, about what was asked.
CallsInTime ==
    \A c \in Callers :
        /\ InFlight(c) => /\ call[c].started <= clock
                          /\ clock <= call[c].started + MaxLatency
                          /\ NumberOf[call[c].raw] \in Numbers
        /\ call[c].phase = "said" =>
              /\ call[c].started <= call[c].response.seen
              /\ call[c].response.seen <= clock
              /\ call[c].response.about = CacheKey(NumberOf[call[c].raw], call[c].window)

\* An entry is about its key and was at most MaxLatency old when it was stored.
EntriesInTime ==
    \A k \in Keys : cache[k] # NoEntry =>
        /\ cache[k].response.about = k
        /\ cache[k].response.seen <= cache[k].at
        /\ cache[k].at <= cache[k].response.seen + MaxLatency
        /\ cache[k].at <= clock

Inv == TypeOK /\ CallsInTime /\ EntriesInTime /\ AnswersAreGrounded

-----------------------------------------------------------------------------
LEMMA InvInit == Init => Inv
BY DEF Init, Inv, TypeOK, CallsInTime, EntriesInTime, AnswersAreGrounded, InFlight,
       Idle, Dates, Keys, NoEntry

LEMMA WindowsAsked ==
  ASSUME NEW d \in Dates
  PROVE  SingleDay(d) \in Windows
BY DEF SingleDay, Windows, Dates

LEMMA WindowUpcoming ==
  ASSUME TypeOK
  PROVE  DefaultWindow \in Windows
BY DEF DefaultWindow, Windows, Dates, TypeOK

\* What the phase of a lookup says about its other fields.
LEMMA PhaseFields ==
  ASSUME TypeOK, NEW c \in Callers
  PROVE  /\ call[c].phase = "asked" => call[c] \in Asked
         /\ call[c].phase = "said" => call[c] \in Said
         /\ call[c].phase = "served" => call[c] \in Served
BY DEF TypeOK, Idle, Asked, Said, Served, Refused

LEMMA EntryFields ==
  ASSUME TypeOK, NEW k \in Keys, cache[k] # NoEntry
  PROVE  /\ cache[k] \in Entry /\ cache[k].at \in Nat
         /\ cache[k].response \in Response /\ cache[k].response.seen \in Nat
BY DEF TypeOK, Entry, Response

\* A lookup that another step leaves alone stays in time.
LEMMA OthersUnchanged ==
  ASSUME Inv, NEW c \in Callers, clock' = clock,
         \A d \in Callers \ {c} : call'[d] = call[d],
         InFlight(c)' => /\ call'[c].started <= clock
                         /\ clock <= call'[c].started + MaxLatency
                         /\ NumberOf[call'[c].raw] \in Numbers,
         call'[c].phase = "said" =>
              /\ call'[c].started <= call'[c].response.seen
              /\ call'[c].response.seen <= clock
              /\ call'[c].response.about = CacheKey(NumberOf[call'[c].raw], call'[c].window)
  PROVE  CallsInTime'
BY DEF Inv, CallsInTime, InFlight, CacheKey

LEMMA OthersServed ==
  ASSUME Inv, NEW c \in Callers, \A d \in Callers \ {c} : call'[d] = call[d],
         call'[c].phase = "served" =>
            /\ call'[c].response.about = <<NumberOf[call'[c].raw], call'[c].window>>
            /\ \/ call'[c].at - call'[c].response.seen <= MaxLatency
               \/ /\ call'[c].cached
                  /\ call'[c].at - call'[c].response.seen
                        < Ttl(call'[c].response.found) + MaxLatency
  PROVE  AnswersAreGrounded'
BY DEF Inv, AnswersAreGrounded, Ttl

-----------------------------------------------------------------------------
LEMMA LookupKeepsInv ==
  ASSUME Inv, NEW c \in Callers, NEW raw \in Raws, NEW window \in Windows,
         Lookup(c, raw, window)
  PROVE  Inv'
<1> DEFINE k == CacheKey(NumberOf[raw], window)
<1>1. NumberOf[raw] \in Numbers /\ k \in Keys /\ k = <<NumberOf[raw], window>>
  BY DEF Lookup, Keys, CacheKey
<1>2. UNCHANGED <<clock, today, cache>>
  BY DEF Lookup
<1>3. \A d \in Callers \ {c} : call'[d] = call[d]
  BY DEF Lookup, Inv, TypeOK
<1>4. EntriesInTime'
  BY <1>2 DEF Inv, EntriesInTime
<1>5. CASE call' = [call EXCEPT ![c] = [phase |-> "asked", raw |-> raw, window |-> window,
                                        started |-> clock]]
  <2>1. call'[c] = [phase |-> "asked", raw |-> raw, window |-> window, started |-> clock]
    BY <1>5 DEF Inv, TypeOK
  <2>2. call'[c] \in Asked
    BY <2>1 DEF Asked, Inv, TypeOK
  <2>3. TypeOK'
    BY <1>2, <1>5, <2>1, <2>2 DEF Inv, TypeOK
  <2>4. CallsInTime'
    BY <1>1, <1>2, <1>3, <2>1, OthersUnchanged DEF Inv, TypeOK, InFlight
  <2>5. AnswersAreGrounded'
    BY <1>3, <2>1, OthersServed
  <2>6. QED
    BY <1>4, <2>3, <2>4, <2>5 DEF Inv
<1>6. CASE /\ cache[k] # NoEntry /\ Fresh(cache[k])
           /\ call' = [call EXCEPT ![c] =
                [phase |-> "served", raw |-> raw, window |-> window, at |-> clock,
                 response |-> cache[k].response, cached |-> TRUE]]
  <2>1. call'[c] = [phase |-> "served", raw |-> raw, window |-> window, at |-> clock,
                    response |-> cache[k].response, cached |-> TRUE]
    BY <1>6 DEF Inv, TypeOK
  <2>2. call'[c] \in Served
    BY <1>1, <1>6, <2>1, EntryFields DEF Served, Inv, TypeOK
  <2>3. TypeOK'
    BY <1>2, <1>6, <2>1, <2>2 DEF Inv, TypeOK
  <2>4. CallsInTime'
    BY <1>1, <1>2, <1>3, <2>1, OthersUnchanged DEF InFlight
  <2>5. clock - cache[k].response.seen < Ttl(cache[k].response.found) + MaxLatency
    BY <1>1, <1>6, EntryFields DEF Inv, TypeOK, EntriesInTime, Fresh, Ttl
  <2>6. cache[k].response.about = <<NumberOf[raw], window>>
    BY <1>1, <1>6 DEF Inv, EntriesInTime
  <2>7. AnswersAreGrounded'
    BY <1>3, <2>1, <2>5, <2>6, OthersServed
  <2>8. QED
    BY <1>4, <2>3, <2>4, <2>7 DEF Inv
<1>7. QED
  BY <1>5, <1>6 DEF Lookup

LEMMA GivesUpKeepsInv ==
  ASSUME Inv, NEW c \in Callers, NEW phase \in {"rejected", "unavailable"},
         call' = [call EXCEPT ![c] = [phase |-> phase]], UNCHANGED <<clock, today, cache>>
  PROVE  Inv'
<1>1. call'[c] = [phase |-> phase] /\ \A d \in Callers \ {c} : call'[d] = call[d]
  BY DEF Inv, TypeOK
<1>2. TypeOK'
  BY <1>1 DEF Inv, TypeOK, Refused
<1>3. CallsInTime'
  BY <1>1, OthersUnchanged DEF InFlight
<1>4. AnswersAreGrounded'
  BY <1>1, OthersServed
<1>5. QED
  BY <1>2, <1>3, <1>4 DEF Inv, EntriesInTime

LEMMA AnswerKeepsInv ==
  ASSUME Inv, NEW c \in Callers, NEW found \in BOOLEAN, ProviderAnswers(c, found)
  PROVE  Inv'
<1> DEFINE o == call[c]
           said == [phase |-> "said", raw |-> o.raw, window |-> o.window,
                    started |-> o.started,
                    response |-> [about |-> <<NumberOf[o.raw], o.window>>,
                                  seen |-> clock, found |-> found]]
<1>1. o \in Asked /\ InFlight(c)
  BY PhaseFields DEF ProviderAnswers, Inv, InFlight
<1>2. NumberOf[o.raw] \in Numbers /\ o.started <= clock /\ clock <= o.started + MaxLatency
  BY <1>1 DEF Inv, CallsInTime
<1>3. call'[c] = said /\ \A d \in Callers \ {c} : call'[d] = call[d]
  BY DEF ProviderAnswers, Inv, TypeOK
<1>4. UNCHANGED <<clock, today, cache>>
  BY DEF ProviderAnswers
<1>5. said \in Said
  BY <1>1, <1>2 DEF Asked, Said, Response, Keys, Inv, TypeOK
<1>6. TypeOK'
  <2>1. call' = [call EXCEPT ![c] = said]
    BY DEF ProviderAnswers
  <2>2. QED
    BY <1>4, <1>5, <2>1 DEF Inv, TypeOK
<1>7. CallsInTime'
  BY <1>1, <1>2, <1>3, <1>4, OthersUnchanged DEF InFlight, CacheKey, Inv, TypeOK
<1>8. AnswersAreGrounded'
  BY <1>3, OthersServed
<1>9. QED
  BY <1>4, <1>6, <1>7, <1>8 DEF Inv, EntriesInTime

\* What arrives: no older than one call, for the key that was asked about.
LEMMA ArrivalFields ==
  ASSUME Inv, NEW c \in Callers, Arrives(c)
  PROVE  /\ call[c] \in Said /\ call[c].response \in Response
         /\ CacheKey(NumberOf[call[c].raw], call[c].window) \in Keys
         /\ call[c].response.about = CacheKey(NumberOf[call[c].raw], call[c].window)
         /\ call[c].response.seen \in Nat /\ call[c].response.seen <= clock
         /\ clock <= call[c].response.seen + MaxLatency
<1>1. call[c] \in Said /\ InFlight(c) /\ call[c].phase = "said"
  BY PhaseFields DEF Arrives, Inv, InFlight
<1>2. call[c].response \in Response /\ call[c].started \in Nat /\ call[c].window \in Windows
  BY <1>1 DEF Said
<1>3. call[c].response.seen \in Nat
  BY <1>2 DEF Response
<1>4. QED
  BY <1>1, <1>2, <1>3 DEF Inv, TypeOK, CallsInTime, CacheKey, Keys

LEMMA ArrivesKeepsInv ==
  ASSUME Inv, NEW c \in Callers, Arrives(c)
  PROVE  Inv'
<1> DEFINE o == call[c]
           k == CacheKey(NumberOf[o.raw], o.window)
           served == [phase |-> "served", raw |-> o.raw, window |-> o.window,
                      at |-> clock, response |-> o.response, cached |-> FALSE]
           entry == [at |-> clock, response |-> o.response]
<1>1. call' = [call EXCEPT ![c] = served] /\ cache' = [cache EXCEPT ![k] = entry]
      /\ UNCHANGED <<clock, today>>
  BY DEF Arrives
<1>2. call'[c] = served /\ \A d \in Callers \ {c} : call'[d] = call[d]
  BY <1>1 DEF Inv, TypeOK
<1>3. served \in Served /\ entry \in Entry
  BY ArrivalFields DEF Said, Served, Entry, Inv, TypeOK
<1>4. TypeOK'
  BY <1>1, <1>3 DEF Inv, TypeOK
<1>5. CallsInTime'
  BY <1>1, <1>2, OthersUnchanged DEF InFlight
<1>6. EntriesInTime'
  <2> SUFFICES ASSUME NEW j \in Keys, cache'[j] # NoEntry
               PROVE  /\ cache'[j].response.about = j
                      /\ cache'[j].response.seen <= cache'[j].at
                      /\ cache'[j].at <= cache'[j].response.seen + MaxLatency
                      /\ cache'[j].at <= clock
    BY <1>1 DEF EntriesInTime
  <2>1. CASE j = k
    BY <1>1, <2>1, ArrivalFields DEF Inv, TypeOK
  <2>2. CASE j # k
    BY <1>1, <2>2 DEF Inv, TypeOK, EntriesInTime
  <2>3. QED
    BY <2>1, <2>2
<1>7. AnswersAreGrounded'
  <2>1. served.at - served.response.seen <= MaxLatency
    BY ArrivalFields DEF Inv, TypeOK
  <2>2. served.response.about = <<NumberOf[served.raw], served.window>>
    BY ArrivalFields DEF CacheKey
  <2>3. QED
    BY <1>2, <2>1, <2>2, OthersServed
<1>8. QED
  BY <1>4, <1>5, <1>6, <1>7 DEF Inv

LEMMA TickKeepsInv ==
  ASSUME Inv, Tick
  PROVE  Inv'
<1>1. TypeOK'
  BY DEF Inv, TypeOK, Tick
<1>2. CallsInTime'
  <2> SUFFICES ASSUME NEW c \in Callers, InFlight(c)
               PROVE  /\ call[c].started <= clock'
                      /\ clock' <= call[c].started + MaxLatency
                      /\ call[c].phase = "said" => call[c].response.seen <= clock'
    BY DEF Inv, CallsInTime, Tick, InFlight, CacheKey
  <2>1. call[c].started \in Nat /\ (call[c].phase = "said" => call[c].response.seen \in Nat)
    BY PhaseFields DEF Inv, InFlight, Asked, Said, Response
  <2>2. QED
    BY <2>1 DEF Inv, TypeOK, CallsInTime, Tick, TimeoutLeaves
<1>3. EntriesInTime'
  BY EntryFields DEF Inv, TypeOK, EntriesInTime, Tick
<1>4. AnswersAreGrounded'
  BY DEF Inv, AnswersAreGrounded, Tick, Ttl
<1>5. QED
  BY <1>1, <1>2, <1>3, <1>4 DEF Inv

LEMMA RestartKeepsInv ==
  ASSUME Inv, Restart
  PROVE  Inv'
BY DEF Inv, Restart, TypeOK, CallsInTime, EntriesInTime, AnswersAreGrounded, InFlight, Idle

LEMMA NextDayKeepsInv ==
  ASSUME Inv, NextDay
  PROVE  Inv'
BY DEF Inv, NextDay, TypeOK, CallsInTime, EntriesInTime, AnswersAreGrounded, InFlight,
       Dates, CacheKey, Ttl

LEMMA InvNext == Inv /\ [Next]_vars => Inv'
<1> SUFFICES ASSUME Inv, [Next]_vars
             PROVE  Inv'
  OBVIOUS
<1>1. CASE Tick
  BY <1>1, TickKeepsInv
<1>2. CASE NextDay
  BY <1>2, NextDayKeepsInv
<1>3. CASE Restart
  BY <1>3, RestartKeepsInv
<1>4. ASSUME NEW c \in Callers, NEW raw \in Raws, LookupUpcoming(c, raw)
      PROVE  Inv'
  BY <1>4, WindowUpcoming, LookupKeepsInv DEF LookupUpcoming, Inv
<1>5. ASSUME NEW c \in Callers, NEW raw \in Raws, NEW d \in Dates, LookupOnDate(c, raw, d)
      PROVE  Inv'
  BY <1>5, WindowsAsked, LookupKeepsInv DEF LookupOnDate
<1>6. ASSUME NEW c \in Callers, NEW raw \in Raws, Reject(c, raw)
      PROVE  Inv'
  BY <1>6, GivesUpKeepsInv DEF Reject
<1>7. ASSUME NEW c \in Callers, NEW found \in BOOLEAN, ProviderAnswers(c, found)
      PROVE  Inv'
  BY <1>7, AnswerKeepsInv
<1>8. ASSUME NEW c \in Callers, Arrives(c)
      PROVE  Inv'
  BY <1>8, ArrivesKeepsInv
<1>9. ASSUME NEW c \in Callers, Fails(c)
      PROVE  Inv'
  BY <1>9, GivesUpKeepsInv DEF Fails
<1>10. CASE UNCHANGED vars
  BY <1>10 DEF vars, Inv, TypeOK, CallsInTime, EntriesInTime, AnswersAreGrounded, InFlight,
               CacheKey, Ttl
<1>11. QED
  BY <1>1, <1>2, <1>3, <1>4, <1>5, <1>6, <1>7, <1>8, <1>9, <1>10 DEF Next

\* The invariant of all the theorems below.
THEOREM Invariant == Spec => []Inv
<1>1. QED
  BY InvInit, InvNext, PTL DEF Spec

\* Entries and answers are what lookup_flight can build, for any constants.
THEOREM TypeCorrect == Spec => []TypeOK
<1>1. Inv => TypeOK
  BY DEF Inv
<1>2. QED
  BY <1>1, Invariant, PTL

\* However many lookups overlap, an answer is about what its caller asked and
\* never older than a lifetime and a call.
THEOREM AnswersGrounded == Spec => []AnswersAreGrounded
<1>1. Inv => AnswersAreGrounded
  BY DEF Inv
<1>2. QED
  BY <1>1, Invariant, PTL

\* However late an answer arrives, it sets its key back by no more than a call.
THEOREM SeldomBehind == Spec => NeverFarBehind
<1>1. ASSUME Inv, [Next]_vars, NEW k \in Keys, cache[k] # NoEntry, cache'[k] # NoEntry
      PROVE  cache'[k].response.seen + MaxLatency >= cache[k].response.seen
  <2>1. cache[k].response.seen \in Nat /\ cache[k].response.seen <= clock
    BY <1>1, EntryFields DEF Inv, TypeOK, EntriesInTime
  <2>2. ASSUME NEW c \in Callers, Arrives(c)
        PROVE  cache'[k].response.seen + MaxLatency >= cache[k].response.seen
    <3>1. \/ cache'[k] = cache[k]
          \/ cache'[k] = [at |-> clock, response |-> call[c].response]
      BY <1>1, <2>2 DEF Arrives, Inv, TypeOK
    <3>2. QED
      BY <1>1, <2>1, <2>2, <3>1, ArrivalFields DEF Inv, TypeOK
  <2>3. CASE cache' = cache
    BY <2>1, <2>3
  <2>4. CASE Restart
    BY <1>1, <2>4 DEF Restart
  <2>5. QED
    BY <1>1, <2>2, <2>3, <2>4 DEF Next, vars, Tick, NextDay, LookupUpcoming, LookupOnDate,
       Lookup, Reject, ProviderAnswers, Fails
<1>2. ASSUME Inv, [Next]_vars
      PROVE  [\A k \in Keys : cache[k] # NoEntry /\ cache'[k] # NoEntry =>
                 cache'[k].response.seen + MaxLatency >= cache[k].response.seen]_vars
  BY <1>1, <1>2
<1>3. QED
  BY <1>2, Invariant, PTL DEF Spec, NeverFarBehind
=============================================================================
