--------------------------- MODULE FlightsProofs ---------------------------
(***************************************************************************)
(* Theorems about Flights, for every set of flights, airports and requests.*)
(* Inv adds to the properties what a request has in hand: AllSound (a      *)
(* document is readable unless a null was stored into that flight, and its *)
(* airports are there unless deleted), AllSwept (a listing that has not read*)
(* yet still holds every landed flight it must write), InHand and Current  *)
(* (what is about to be written is what is stored, unless overlapped).     *)
(***************************************************************************)
EXTENDS FlightsProperties, TLAPS

USE CodeAssumption

\* What a request can hold.
Found    == UNION {[F -> Flight] : F \in SUBSET Flts}
Begun    == [step : {"begun"}, now : Times, touched : SUBSET Flts]
Sweeping == [step : {"sweep"}, now : Times, touched : SUBSET Flts, todo : Found,
             wrote : SUBSET Flts]
Listing  == [step : {"map", "answered"}, found : Found, now : Times, touched : SUBSET Flts]
Creating == [step : {"insert"}, doc : Flight]
Updating == [step : {"lookup", "write"}, flt : Flts, change : Change, dep : Ports, doc : Flight]
Answering == [step : {"reread"}, flt : Flts, creates : BOOLEAN]
Failures == [step : {"failed"}, unread : SUBSET Flts, missing : SUBSET Ports, unknown : SUBSET Codes]
Calls    == {Idle} \cup Failures \cup Begun \cup Sweeping \cup Listing
            \cup Creating \cup Updating \cup Answering

Formed ==
    /\ call \in [Callers -> Calls]
    /\ intended \in [Flts -> Flight \cup {Absent}]
    /\ \A f \in Flts : docs[f] = Absent <=> intended[f] = Absent
    /\ nulled \subseteq created /\ created \subseteq Flts

\* A document holds a null only after one was stored into that flight, and the
\* airports it refers to are there or were deleted.
Grounded(doc) == {doc.dep, doc.arr} \subseteq ports \cup removed
Sound(f, doc) == (~doc.valid => f \in nulled) /\ Grounded(doc)

SoundCall(k) ==
    /\ k.step = "failed" => Explained(k)
    /\ k.step = "sweep" => \A f \in DOMAIN k.todo : Sound(f, k.todo[f])
    /\ k.step \in {"map", "answered"} => \A f \in DOMAIN k.found : Sound(f, k.found[f])
    /\ k.step = "insert" => Grounded(k.doc) /\ k.doc.valid
    /\ k.step \in {"lookup", "write"} =>
          Grounded(k.doc) /\ k.doc.valid /\ k.dep \in ports \cup removed
    /\ k.step = "lookup" => k.change.code \in Called
    /\ k.step = "reread" => k.flt \in created

AllSound == /\ \A f \in Stored : Sound(f, docs[f])
            /\ \A c \in Callers : SoundCall(call[c])
            /\ Seeded \subseteq ports \cup removed

Recent(f, doc, k) == f \in k.touched \/ doc.status # "ACTIVE" \/ doc.lands >= k.now

\* A sweep has written, or is about to write, every landed flight it is not
\* excused for; what is listed afterwards is recent.
SweptCall(k) ==
    /\ k.step = "sweep" =>
          \A f \in Stored : f \in DOMAIN k.todo \/ Recent(f, docs[f], k)
    /\ k.step \in {"map", "answered"} =>
          \A f \in DOMAIN k.found : k.found[f].valid /\ Recent(f, k.found[f], k)

AllSwept == \A c \in Callers : SweptCall(call[c])

Expire(doc) == [doc EXCEPT !.status = "EXPIRED"]

\* Flights in hand exist or existed, and a sweep holds landed ones.
InHand ==
    /\ \A c \in Callers, f \in Flts : PendingUpdate(c, f) \/ PendingSweep(c, f) => f \in created
    /\ \A c \in Callers : call[c].step \in {"begun", "sweep"} => call[c].now <= clock
    /\ \A c \in Callers, f \in Flts : PendingSweep(c, f) =>
          call[c].todo[f].status = "ACTIVE" /\ call[c].todo[f].lands < clock

\* Of a flight without overlapping writes, whoever is about to write it has
\* read what is stored, or what a deletion or a like sweep made of it.
Current ==
    \A f \in Flts \ overlapped :
        /\ \A c \in Callers : PendingUpdate(c, f) => docs[f] \in {Absent, call[c].doc}
        /\ \A c \in Callers : PendingSweep(c, f) =>
              docs[f] \in {Absent, call[c].todo[f], Expire(call[c].todo[f])}
        /\ \A c, d \in Callers : PendingUpdate(c, f) =>
              ~PendingSweep(d, f) /\ (PendingUpdate(d, f) => c = d)

Inv == TypeOK /\ Formed /\ AllSound /\ AllSwept /\ InHand /\ Current
       /\ WritesSurviveUnlessOverlapped

-----------------------------------------------------------------------------
LEMMA AbsentIsNoFlight == Absent \notin Flight
BY DEF Absent, Flight

LEMMA StoredFlight ==
  ASSUME TypeOK, NEW f \in Stored
  PROVE  f \in Flts /\ docs[f] \in Flight
BY DEF TypeOK, Stored

\* The step of a request says what it holds.
LEMMA CallFields ==
  ASSUME NEW k \in Calls
  PROVE  /\ k.step = "begun" => k \in Begun
         /\ k.step = "sweep" => k \in Sweeping
         /\ k.step \in {"map", "answered"} => k \in Listing
         /\ k.step = "insert" => k \in Creating
         /\ k.step \in {"lookup", "write"} => k \in Updating
         /\ k.step = "reread" => k \in Answering
BY DEF Calls, Idle, Failures, Begun, Sweeping, Listing, Creating, Updating, Answering

LEMMA FoundFields ==
  ASSUME NEW g \in Found
  PROVE  DOMAIN g \subseteq Flts /\ \A f \in DOMAIN g : g[f] \in Flight
BY DEF Found

LEMMA InvInit == Init => Inv
<1> SUFFICES ASSUME Init
             PROVE  Inv
  OBVIOUS
<1> USE DEF Init, Idle
<1>1. Stored = {}
  BY DEF Stored
<1>2. TypeOK
  BY <1>1 DEF TypeOK, Times
<1>3. Formed
  BY DEF Formed, Calls
<1>4. AllSound /\ AllSwept /\ InHand /\ Current /\ WritesSurviveUnlessOverlapped
  BY <1>1 DEF AllSound, SoundCall, AllSwept, SweptCall, InHand, Current, PendingUpdate, PendingSweep,
     WritesSurviveUnlessOverlapped
<1>5. QED
  BY <1>2, <1>3, <1>4 DEF Inv

\* Flights touched are added to the listings under way, and nothing else is.
LEMMA TouchFields ==
  ASSUME Formed, NEW c \in Callers, NEW f \in Flts, NEW r \in Calls, Touch(c, f, r)
  PROVE  /\ call' \in [Callers -> Calls]
         /\ call'[c] = r
         /\ \A d \in Callers \ {c} :
               \/ call[d].step \notin {"begun", "sweep"} /\ call'[d] = call[d]
               \/ /\ call[d].step \in {"begun", "sweep"}
                  /\ call'[d].step = call[d].step /\ call'[d].now = call[d].now
                  /\ call'[d].touched = call[d].touched \cup {f}
                  /\ call[d].step = "sweep" => call'[d].todo = call[d].todo
<1>1. ASSUME NEW k \in Begun
      PROVE  LET m == [k EXCEPT !.touched = @ \cup {f}]
             IN  /\ m \in Begun /\ m.step = k.step /\ m.now = k.now
                 /\ m.touched = k.touched \cup {f}
  BY DEF Begun
<1>2. ASSUME NEW k \in Sweeping
      PROVE  LET m == [k EXCEPT !.touched = @ \cup {f}]
             IN  /\ m \in Sweeping /\ m.step = k.step /\ m.now = k.now
                 /\ m.touched = k.touched \cup {f} /\ m.todo = k.todo
  BY DEF Sweeping
<1>3. /\ call'[c] = r /\ DOMAIN call' = Callers
      /\ call' = [d \in Callers |-> call'[d]]
      /\ \A d \in Callers \ {c} :
            call'[d] = IF call[d].step \in {"begun", "sweep"}
                       THEN [call[d] EXCEPT !.touched = @ \cup {f}] ELSE call[d]
  BY DEF Touch
<1>4. \A d \in Callers : call[d].step = "begun" => call[d] \in Begun
  BY CallFields DEF Formed
<1>5. \A d \in Callers : call[d].step = "sweep" => call[d] \in Sweeping
  BY CallFields DEF Formed
<1>6. \A d \in Callers \ {c} :
         /\ call'[d] \in Calls
         /\ \/ call[d].step \notin {"begun", "sweep"} /\ call'[d] = call[d]
            \/ /\ call[d].step \in {"begun", "sweep"}
               /\ call'[d].step = call[d].step /\ call'[d].now = call[d].now
               /\ call'[d].touched = call[d].touched \cup {f}
               /\ call[d].step = "sweep" => call'[d].todo = call[d].todo
  <2> TAKE d \in Callers \ {c}
  <2>1. CASE call[d].step = "begun"
    BY <1>1, <1>3, <1>4, <2>1 DEF Calls, Begun
  <2>2. CASE call[d].step = "sweep"
    BY <1>2, <1>3, <1>5, <2>2 DEF Calls
  <2>3. CASE call[d].step \notin {"begun", "sweep"}
    BY <1>3, <2>3 DEF Formed
  <2>4. QED
    BY <2>1, <2>2, <2>3
<1>7. QED
  BY <1>3, <1>6

\* The steps, by what they do to the request in slot c.
LEMMA Steps ==
  ASSUME TypeOK, [Next]_vars
  PROVE  \/ Tick \/ Crash \/ UNCHANGED vars
         \/ \E p \in Ports : AddAirport(p) \/ DeleteAirport(p)
         \/ \E f \in Flts : DeleteFlight(f)
         \/ \E c \in Callers :
              \/ ListBegins(c) \/ SweepReads(c) \/ Maps(c)
              \/ \E read, shown \in SUBSET Stored : shown \subseteq read /\ Reads(c, read, shown)
              \/ SweepReadsBack(c) \/ ReadsBack(c)
              \/ \E f \in Flts : SweepWrites(c, f) \/ CreateInserts(c, f)
              \/ \E dep, arr \in Called, lands \in Times, status \in Statuses \ {"NULL"} :
                    CreateLooksUp(c, dep, arr, lands, status)
              \/ \E f \in Flts, ch \in Change : UpdateReads(c, f, ch)
              \/ UpdateLooksUp(c) \/ UpdateWrites(c)
<1>1. Active \subseteq Stored /\ Stored \subseteq Flts
  BY DEF Active, Stored
<1>2. ASSUME NEW c \in Callers, \/ ReadsActive(c) \/ ReadsAll(c) \/ ReadsNext(c) \/ ReadsNothing(c)
                                \/ \E f \in Flts : ReadsOne(c, f) \/ ReadsByNumber(c, f)
                                \/ \E p \in Ports : ReadsArrivals(c, p) \/ ReadsDepartures(c, p)
      PROVE  \E read, shown \in SUBSET Stored : shown \subseteq read /\ Reads(c, read, shown)
  BY <1>1, <1>2 DEF ReadsActive, ReadsAll, ReadsNext, ReadsNothing, ReadsOne, ReadsByNumber,
                    ReadsArrivals, ReadsDepartures, ReadsByAirport
<1>3. ASSUME NEW code \in Codes, DeleteAirportByCode(code)
      PROVE  \E q \in Ports : DeleteAirport(q)
  BY <1>3 DEF DeleteAirportByCode, Matching, TypeOK
<1>4. ASSUME NEW p \in Ports, AddAirport(p) \/ DeleteAirportById(p)
      PROVE  AddAirport(p) \/ DeleteAirport(p)
  BY <1>4 DEF DeleteAirportById
<1>5. CASE Next
  BY <1>2, <1>3, <1>4, <1>5, Zenon DEF Next
<1>6. QED
  BY <1>5

-----------------------------------------------------------------------------
\* Types.
LEMMA ApplyFlight ==
  ASSUME NEW doc \in Flight, NEW ch \in Change, NEW dep \in Ports
  PROVE  Apply(doc, ch, dep) \in Flight
<1>1. /\ ch.field \in {"lands", "status", "departure", "arrival", "null"}
      /\ ch.lands \in Times /\ ch.status \in Status
  BY DEF Change, Status
<1>2. (doc.valid /\ ch.status # "NULL") \in BOOLEAN
  OBVIOUS
<1>3. ASSUME NEW b \in BOOLEAN
      PROVE  [doc EXCEPT !.status = ch.status, !.valid = b] \in Flight
  BY <1>1 DEF Flight
<1>4. [doc EXCEPT !.status = ch.status, !.valid = @ /\ ch.status # "NULL"] \in Flight
  BY <1>2, <1>3
<1>5. /\ [doc EXCEPT !.lands = ch.lands] \in Flight
      /\ [doc EXCEPT !.dep = dep] \in Flight
      /\ [doc EXCEPT !.valid = FALSE] \in Flight
  BY <1>1 DEF Flight
<1>6. QED
  BY <1>1, <1>4, <1>5 DEF Apply

LEMMA ExpireFlight ==
  ASSUME NEW doc \in Flight
  PROVE  /\ Expire(doc) \in Flight /\ Expire(doc).status = "EXPIRED"
         /\ Expire(doc).dep = doc.dep /\ Expire(doc).arr = doc.arr
         /\ Expire(doc).lands = doc.lands /\ Expire(doc).valid = doc.valid
BY DEF Expire, Flight, Status

-----------------------------------------------------------------------------
\* Requests that only move on: nothing but slot c changes.
LEMMA MovingOn ==
  ASSUME Inv, NEW c \in Callers, NEW k \in Calls, Goto(c, k),
         UNCHANGED <<clock, ports, docs, intended, removed, nulled, created>>,
         updates' \in 0 .. MaxUpdates,
         overlapped \subseteq overlapped', overlapped' \subseteq created,
         SoundCall(k), SweptCall(k), k.step \in {"begun", "sweep"} => k.now <= clock,
         k.step \in {"lookup", "write"} =>
            /\ k.flt \in created
            /\ k.flt \notin overlapped' =>
                 /\ docs[k.flt] \in {Absent, k.doc}
                 /\ \A d \in Callers \ {c} : ~PendingUpdate(d, k.flt) /\ ~PendingSweep(d, k.flt),
         k.step = "sweep" =>
            \A f \in DOMAIN k.todo :
               /\ f \in created /\ k.todo[f].status = "ACTIVE" /\ k.todo[f].lands < clock
               /\ f \notin overlapped' =>
                    /\ docs[f] \in {Absent, k.todo[f], Expire(k.todo[f])}
                    /\ \A d \in Callers \ {c} : ~PendingUpdate(d, f)
  PROVE  Inv'
<1>1. call'[c] = k /\ \A d \in Callers \ {c} : call'[d] = call[d]
  BY DEF Goto, Inv, Formed
<1>2. call' \in [Callers -> Calls]
  BY DEF Goto, Inv, Formed
<1>3. Stored' = Stored
  BY DEF Stored
<1>4. \A d \in Callers \ {c}, f \in Flts :
         (PendingUpdate(d, f)' <=> PendingUpdate(d, f)) /\ (PendingSweep(d, f)' <=> PendingSweep(d, f))
  BY <1>1 DEF PendingUpdate, PendingSweep
<1>5. \A f \in Flts :
         /\ PendingUpdate(c, f)' <=> k.step \in {"lookup", "write"} /\ k.flt = f
         /\ PendingSweep(c, f)' <=> k.step = "sweep" /\ f \in DOMAIN k.todo
  BY <1>1 DEF PendingUpdate, PendingSweep
<1>6. TypeOK'
  <2>1. \A d \in Callers : call'[d].step \in {"map", "answered"} =>
           \A f \in DOMAIN call'[d].found :
              call'[d].found[f] \in Flight /\ call'[d].found[f].valid
    <3>1. k.step \in {"map", "answered"} =>
             \A f \in DOMAIN k.found : k.found[f] \in Flight /\ k.found[f].valid
      BY CallFields, FoundFields DEF SweptCall, Listing
    <3>2. QED
      BY <1>1, <3>1 DEF Inv, TypeOK
  <2>2. QED
    BY <1>3, <2>1 DEF Inv, TypeOK
<1>7. Formed'
  BY <1>2 DEF Inv, Formed
<1>8. AllSound'
  BY <1>1, <1>3 DEF Inv, AllSound, SoundCall, Sound, Grounded, Explained
<1>9. AllSwept'
  BY <1>1, <1>3 DEF Inv, AllSwept, SweptCall, Recent
<1>10. InHand'
  <2>1. \A d \in Callers : call'[d].step \in {"begun", "sweep"} => call'[d].now <= clock'
    BY <1>1 DEF Inv, InHand
  <2>2. \A d \in Callers, f \in Flts : PendingUpdate(d, f)' \/ PendingSweep(d, f)' => f \in created'
    BY <1>4, <1>5 DEF Inv, InHand
  <2>3. \A d \in Callers, f \in Flts : PendingSweep(d, f)' =>
           call'[d].todo[f].status = "ACTIVE" /\ call'[d].todo[f].lands < clock'
    BY <1>1, <1>4, <1>5 DEF Inv, InHand
  <2>4. QED
    BY <2>1, <2>2, <2>3 DEF InHand
<1>11. Current'
  <2> SUFFICES ASSUME NEW f \in Flts, f \notin overlapped'
               PROVE  /\ \A d \in Callers : PendingUpdate(d, f)' => docs[f] \in {Absent, call'[d].doc}
                      /\ \A d \in Callers : PendingSweep(d, f)' =>
                            docs[f] \in {Absent, call'[d].todo[f], Expire(call'[d].todo[f])}
                      /\ \A d, e \in Callers : PendingUpdate(d, f)' =>
                            ~PendingSweep(e, f)' /\ (PendingUpdate(e, f)' => d = e)
    BY DEF Current, Expire
  <2>1. f \notin overlapped
    OBVIOUS
  <2>2. /\ \A d \in Callers : PendingUpdate(d, f) => docs[f] \in {Absent, call[d].doc}
        /\ \A d \in Callers : PendingSweep(d, f) =>
              docs[f] \in {Absent, call[d].todo[f], Expire(call[d].todo[f])}
        /\ \A d, e \in Callers : PendingUpdate(d, f) =>
              ~PendingSweep(e, f) /\ (PendingUpdate(e, f) => d = e)
    BY <2>1 DEF Inv, Current
  <2>3. \A d \in Callers : PendingUpdate(d, f)' => docs[f] \in {Absent, call'[d].doc}
    BY <1>1, <1>4, <1>5, <2>2
  <2>4. \A d \in Callers : PendingSweep(d, f)' =>
            docs[f] \in {Absent, call'[d].todo[f], Expire(call'[d].todo[f])}
    BY <1>1, <1>4, <1>5, <2>2
  <2>5. \A d, e \in Callers : PendingUpdate(d, f)' =>
            ~PendingSweep(e, f)' /\ (PendingUpdate(e, f)' => d = e)
    BY <1>4, <1>5, <2>2
  <2>6. QED
    BY <2>3, <2>4, <2>5
<1>12. WritesSurviveUnlessOverlapped'
  BY DEF Inv, WritesSurviveUnlessOverlapped
<1>13. QED
  BY <1>6, <1>7, <1>8, <1>9, <1>10, <1>11, <1>12 DEF Inv

\* Requests that end.
LEMMA Ending ==
  ASSUME Inv, NEW c \in Callers, NEW k \in {Idle} \cup Failures, Goto(c, k), SoundCall(k),
         UNCHANGED <<clock, ports, docs, intended, removed, nulled, created, overlapped>>,
         updates' \in 0 .. MaxUpdates
  PROVE  Inv'
<1>1. k \in Calls /\ k.step \in {"idle", "failed"}
  BY DEF Calls, Idle, Failures
<1>2. SweptCall(k)
  BY <1>1 DEF SweptCall
<1>3. overlapped \subseteq created
  BY DEF Inv, TypeOK
<1>4. QED
  BY <1>1, <1>2, <1>3, MovingOn

LEMMA EndingIdle ==
  ASSUME Inv, NEW c \in Callers, Goto(c, Idle),
         UNCHANGED <<clock, ports, docs, intended, removed, nulled, created, overlapped>>,
         updates' \in 0 .. MaxUpdates
  PROVE  Inv'
<1>1. SoundCall(Idle)
  BY DEF SoundCall, Idle
<1>2. QED
  BY <1>1, Ending

\* An exception of the code, explained.
LEMMA Failing ==
  ASSUME Inv, NEW c \in Callers, NEW unread \in SUBSET Flts, NEW missing \in SUBSET Ports,
         NEW unknown \in SUBSET Codes, Goto(c, Failure(unread, missing, unknown)),
         unread \cup missing \cup unknown # {}, unread \subseteq nulled \cup (created \ Stored),
         missing \subseteq removed,
         \A code \in unknown : Matching(code) = {},
         UNCHANGED <<clock, ports, docs, intended, removed, nulled, created, overlapped>>,
         updates' \in 0 .. MaxUpdates
  PROVE  Inv'
<1> DEFINE k == Failure(unread, missing, unknown)
<1>1. /\ k \in Failures /\ k.step = "failed"
      /\ k.unread = unread /\ k.missing = missing /\ k.unknown = unknown
  BY DEF Failure, Failures
<1>2. \A code \in unknown, p \in Seeded \ removed : code \notin {Icao[p], Iata[p]}
  BY DEF Inv, AllSound, Matching
<1>3. SoundCall(k)
  BY <1>1, <1>2 DEF SoundCall, Explained
<1>4. QED
  BY <1>1, <1>3, Ending

LEMMA FailingUnread ==
  ASSUME Inv, NEW c \in Callers, NEW unread, unread \subseteq Flts, unread # {},
         Goto(c, Failure(unread, {}, {})), unread \subseteq nulled \cup (created \ Stored),
         UNCHANGED <<clock, ports, docs, intended, removed, nulled, created, overlapped>>,
         updates' \in 0 .. MaxUpdates
  PROVE  Inv'
<1>1. /\ unread \in SUBSET Flts /\ {} \in SUBSET Ports /\ {} \in SUBSET Codes
      /\ unread \cup {} \cup {} # {} /\ {} \subseteq removed
      /\ \A code \in {} : Matching(code) = {}
  OBVIOUS
<1>2. QED
  BY <1>1, Failing

\* A flight that validation refuses had a null stored into it.
LEMMA RefusedNulled ==
  ASSUME Inv, NEW S \in SUBSET Stored
  PROVE  Refused(S) \in SUBSET Flts /\ Refused(S) \subseteq nulled
BY DEF Refused, Inv, AllSound, Sound, Stored

LEMMA ListBeginsKeepsInv ==
  ASSUME Inv, NEW c \in Callers, ListBegins(c)
  PROVE  Inv'
<1> DEFINE k == [step |-> "begun", now |-> clock, touched |-> {}]
<1>1. k \in Calls
  BY DEF Calls, Begun, Inv, TypeOK
<1>2. SoundCall(k) /\ SweptCall(k)
  BY DEF SoundCall, SweptCall
<1>3. Goto(c, k) /\ UNCHANGED <<clock, ports, docs, updates, history>>
  BY DEF ListBegins
<1>4. k.now <= clock /\ overlapped \subseteq created /\ updates \in 0 .. MaxUpdates
  BY DEF Inv, TypeOK, Times
<1>5. QED
  BY <1>1, <1>2, <1>3, <1>4, MovingOn DEF history

\* The sweep takes every active flight that has landed by its time.
LEMMA SweepReadsKeepsInv ==
  ASSUME Inv, NEW c \in Callers, SweepReads(c)
  PROVE  Inv'
<1> DEFINE landed == {f \in Active : Landed(docs[f], call[c].now)}
           k == [step |-> "sweep", now |-> call[c].now, touched |-> call[c].touched,
                 todo |-> [f \in landed |-> docs[f]], wrote |-> {}]
<1>1. CASE Refused(Active) # {}
  <2>1. Active \in SUBSET Stored /\ updates \in 0 .. MaxUpdates
    BY DEF Active, Inv, TypeOK
  <2>2. /\ Goto(c, Failure(Refused(Active), {}, {})) /\ UNCHANGED overlapped
        /\ UNCHANGED <<clock, ports, docs, updates, intended, created, removed, nulled>>
    BY <1>1 DEF SweepReads
  <2>3. QED
    BY <1>1, <2>1, <2>2, RefusedNulled, FailingUnread
<1>2. CASE Refused(Active) = {}
  <2>1. call[c] \in Begun /\ landed \subseteq Stored /\ landed \subseteq Flts
    BY CallFields DEF SweepReads, Inv, Formed, Active, Stored
  <2>2. \A f \in landed : docs[f] \in Flight /\ f \in created
    BY <2>1, StoredFlight DEF Inv, TypeOK
  <2>3. k.todo \in Found
    <3>1. k.todo \in [landed -> Flight] /\ landed \in SUBSET Flts
      BY <2>1, <2>2
    <3>2. QED
      BY <3>1 DEF Found
  <2>4. k \in Calls
    BY <2>1, <2>3 DEF Calls, Begun, Sweeping
  <2>5. /\ Goto(c, k)
        /\ overlapped' = overlapped \cup {f \in landed : \E d \in Callers \ {c} : PendingUpdate(d, f)}
        /\ UNCHANGED <<clock, ports, docs, updates, intended, created, removed, nulled>>
    BY <1>2 DEF SweepReads
  <2>6. SoundCall(k)
    BY <2>1 DEF SoundCall, Inv, AllSound
  <2>7. SweptCall(k)
    <3>1. \A f \in Stored : f \in landed \/ Recent(f, docs[f], k)
      <4> SUFFICES ASSUME NEW f \in Stored, docs[f].status = "ACTIVE", ~(docs[f].lands >= call[c].now)
                   PROVE  f \in landed
        BY DEF Recent
      <4>1. docs[f].lands < call[c].now
        BY <2>1, StoredFlight DEF Inv, Flight, Begun, Times
      <4>2. QED
        BY <4>1 DEF Active, Landed
    <3>2. QED
      BY <3>1 DEF SweptCall
  <2>8. k.now <= clock
    BY DEF SweepReads, Inv, InHand
  <2>9. overlapped \subseteq overlapped' /\ overlapped' \subseteq created
    BY <2>2, <2>5 DEF Inv, TypeOK
  <2>10. \A f \in DOMAIN k.todo :
            /\ f \in created /\ k.todo[f].status = "ACTIVE" /\ k.todo[f].lands < clock
            /\ docs[f] = k.todo[f]
            /\ f \notin overlapped' => \A d \in Callers \ {c} : ~PendingUpdate(d, f)
    <3> SUFFICES ASSUME NEW f \in landed
                 PROVE  /\ f \in created /\ docs[f].status = "ACTIVE" /\ docs[f].lands < clock
                        /\ f \notin overlapped' => \A d \in Callers \ {c} : ~PendingUpdate(d, f)
      OBVIOUS
    <3>1. docs[f].lands < clock
      BY <2>1, <2>2, <2>8 DEF Landed, Flight, Times, Begun, Inv, TypeOK
    <3>2. QED
      BY <2>2, <2>5, <3>1 DEF Active
  <2>11. updates' \in 0 .. MaxUpdates
    BY <2>5 DEF Inv, TypeOK
  <2>12. QED
    BY <2>4, <2>5, <2>6, <2>7, <2>8, <2>9, <2>10, <2>11, MovingOn
<1>3. QED
  BY <1>1, <1>2

\* What a listing reads after its sweep is recent.
LEMMA ReadsKeepsInv ==
  ASSUME Inv, NEW c \in Callers, NEW read \in SUBSET Stored, NEW shown \in SUBSET read,
         Reads(c, read, shown)
  PROVE  Inv'
<1> DEFINE k == Mapping([f \in shown |-> docs[f]], call[c].now, call[c].touched)
<1>1. CASE Refused(read) # {}
  <2>1. updates \in 0 .. MaxUpdates
    BY DEF Inv, TypeOK
  <2>2. /\ Goto(c, Failure(Refused(read), {}, {}))
        /\ UNCHANGED <<clock, ports, docs, updates, history>>
    BY <1>1 DEF Reads
  <2>3. QED
    BY <1>1, <2>1, <2>2, RefusedNulled, FailingUnread DEF history
<1>2. CASE Refused(read) = {}
  <2>1. call[c] \in Sweeping /\ shown \subseteq Flts /\ \A f \in shown : docs[f] \in Flight
    BY CallFields, StoredFlight DEF Reads, Inv, Formed
  <2>2. k \in Calls
    BY <2>1 DEF Calls, Sweeping, Listing, Mapping, Found
  <2>3. Goto(c, k) /\ UNCHANGED <<clock, ports, docs, updates, history>>
    BY <1>2 DEF Reads
  <2>4. SoundCall(k)
    BY DEF SoundCall, Inv, AllSound, Mapping
  <2>5. SweptCall(k)
    <3>1. \A f \in Stored : Recent(f, docs[f], call[c])
      BY DEF Reads, Inv, AllSwept, SweptCall
    <3>2. QED
      BY <1>2, <3>1 DEF SweptCall, Recent, Mapping, Refused
  <2>6. overlapped \subseteq created /\ updates \in 0 .. MaxUpdates
    BY DEF Inv, TypeOK
  <2>7. QED
    BY <2>2, <2>3, <2>4, <2>5, <2>6, MovingOn DEF history, Mapping
<1>3. QED
  BY <1>1, <1>2

LEMMA MapsKeepsInv ==
  ASSUME Inv, NEW c \in Callers, Maps(c)
  PROVE  Inv'
<1> DEFINE k == [call[c] EXCEPT !.step = "answered"]
           found   == call[c].found
           missing == {p \in Ports : \E f \in DOMAIN found : p \in {found[f].dep, found[f].arr}} \ ports
<1>0. call[c] \in Listing
  BY CallFields DEF Maps, Inv, Formed
<1>1. CASE missing = {}
  <2>1. /\ k \in Listing /\ k.step = "answered" /\ k.found = call[c].found
        /\ k.now = call[c].now /\ k.touched = call[c].touched
    BY <1>0 DEF Listing
  <2>2. Goto(c, k) /\ UNCHANGED <<clock, ports, docs, updates, history>>
    BY <1>1 DEF Maps
  <2>3. SoundCall(k)
    BY <2>1 DEF SoundCall, Inv, AllSound, Maps
  <2>4. SweptCall(k)
    BY <2>1 DEF SweptCall, Inv, AllSwept, Maps, Recent
  <2>5. overlapped \subseteq created /\ updates \in 0 .. MaxUpdates
    BY DEF Inv, TypeOK
  <2>6. QED
    BY <2>1, <2>2, <2>3, <2>4, <2>5, MovingOn DEF history, Calls
<1>2. CASE missing # {}
  <2>1. missing \subseteq removed
    BY DEF Inv, AllSound, SoundCall, Sound, Grounded, Maps
  <2>2. Goto(c, Failure({}, missing, {})) /\ UNCHANGED <<clock, ports, docs, updates, history>>
    BY <1>2 DEF Maps
  <2>3. updates \in 0 .. MaxUpdates /\ missing \in SUBSET Ports
    BY DEF Inv, TypeOK
  <2>4. QED
    BY <1>2, <2>1, <2>2, <2>3, Failing DEF history
<1>3. QED
  BY <1>1, <1>2

\* A sweep that has read back what it wrote goes on with the rest.
LEMMA SweepReadsBackKeepsInv ==
  ASSUME Inv, NEW c \in Callers, SweepReadsBack(c)
  PROVE  Inv'
<1> DEFINE refused == Refused(call[c].wrote \cap Stored)
           k == [call[c] EXCEPT !.wrote = {}]
<1>1. UNCHANGED <<clock, ports, docs, updates, history>> /\ updates \in 0 .. MaxUpdates
  BY DEF SweepReadsBack, Inv, TypeOK
<1>2. CASE refused # {}
  <2>1. Goto(c, Failure(refused, {}, {}))
    BY <1>2 DEF SweepReadsBack
  <2>2. refused \in SUBSET Flts /\ refused \subseteq nulled
    BY RefusedNulled
  <2>3. QED
    BY <1>1, <1>2, <2>1, <2>2, FailingUnread DEF history
<1>3. CASE refused = {}
  <2>1. call[c] \in Sweeping
    BY CallFields DEF SweepReadsBack, Inv, Formed
  <2>2. /\ k \in Sweeping /\ k.step = "sweep" /\ k.todo = call[c].todo
        /\ k.now = call[c].now /\ k.touched = call[c].touched
    BY <2>1 DEF Sweeping
  <2>3. Goto(c, k) /\ overlapped \subseteq created
    BY <1>3 DEF SweepReadsBack, Inv, TypeOK
  <2>4. SoundCall(k)
    BY <2>2 DEF SoundCall, SweepReadsBack, Inv, AllSound
  <2>5. SweptCall(k)
    BY <2>2 DEF SweptCall, SweepReadsBack, Inv, AllSwept, Recent
  <2>6. k.now <= clock
    BY <2>2 DEF SweepReadsBack, Inv, InHand
  <2>7. ASSUME NEW f \in DOMAIN k.todo
        PROVE  /\ f \in created /\ k.todo[f].status = "ACTIVE" /\ k.todo[f].lands < clock
               /\ f \notin overlapped =>
                    /\ docs[f] \in {Absent, k.todo[f], Expire(k.todo[f])}
                    /\ \A d \in Callers \ {c} : ~PendingUpdate(d, f)
    <3>1. f \in Flts /\ PendingSweep(c, f)
      BY <2>1, <2>2, <2>7, FoundFields DEF Sweeping, PendingSweep
    <3>2. QED
      BY <2>2, <3>1 DEF Inv, InHand, Current
  <2>8. QED
    BY <1>1, <2>2, <2>3, <2>4, <2>5, <2>6, <2>7, MovingOn DEF history, Calls
<1>4. QED
  BY <1>2, <1>3

-----------------------------------------------------------------------------
LEMMA CreateLooksUpKeepsInv ==
  ASSUME Inv, NEW c \in Callers, NEW dep \in Called, NEW arr \in Called,
         NEW lands \in Times, NEW status \in Statuses \ {"NULL"},
         CreateLooksUp(c, dep, arr, lands, status)
  PROVE  Inv'
<1>0. UNCHANGED <<clock, ports, docs, updates, history>> /\ updates \in 0 .. MaxUpdates
  BY DEF CreateLooksUp, Inv, TypeOK
<1>1. CASE \E code \in {dep, arr} : Matching(code) = {}
  <2> DEFINE unknown == {code \in {dep, arr} : Matching(code) = {}}
  <2>1. Goto(c, Failure({}, {}, unknown)) /\ unknown # {} /\ unknown \in SUBSET Codes
    BY <1>1 DEF CreateLooksUp
  <2>2. QED
    BY <1>0, <2>1, Failing DEF history
<1>2. ASSUME NEW d \in Matching(dep), NEW a \in Matching(arr),
             Goto(c, [step |-> "insert", doc |-> [dep |-> d, arr |-> a, lands |-> lands,
                                                  status |-> status, valid |-> TRUE]])
      PROVE  Inv'
  <2> DEFINE doc == [dep |-> d, arr |-> a, lands |-> lands, status |-> status, valid |-> TRUE]
             k   == [step |-> "insert", doc |-> doc]
  <2>1. d \in ports /\ a \in ports /\ ports \subseteq Ports
    BY DEF Matching, Inv, TypeOK
  <2>2. doc \in Flight
    BY <2>1 DEF Flight, Status
  <2>3. k \in Calls
    BY <2>2 DEF Calls, Creating
  <2>4. SoundCall(k) /\ SweptCall(k)
    BY <2>1 DEF SoundCall, SweptCall, Grounded
  <2>5. overlapped \subseteq created /\ updates \in 0 .. MaxUpdates
    BY DEF Inv, TypeOK
  <2>6. UNCHANGED <<clock, ports, docs, updates, history>>
    BY DEF CreateLooksUp
  <2>7. QED
    BY <1>2, <2>3, <2>4, <2>5, <2>6, MovingOn DEF history
<1>3. QED
  BY <1>1, <1>2 DEF CreateLooksUp

\* An update takes what is stored; another write in hand is an overlap.
LEMMA UpdateReadsKeepsInv ==
  ASSUME Inv, NEW c \in Callers, NEW f \in Flts, NEW ch \in Change, UpdateReads(c, f, ch)
  PROVE  Inv'
<1>1. updates' \in 0 .. MaxUpdates
  BY DEF UpdateReads, Inv, TypeOK
<1>2. UNCHANGED <<clock, ports, docs, intended, created, removed, nulled>>
  BY DEF UpdateReads
<1>3. overlapped \subseteq created
  BY DEF Inv, TypeOK
<1>4. CASE f \notin Stored
  <2>1. Goto(c, Idle) /\ UNCHANGED overlapped
    BY <1>4 DEF UpdateReads
  <2>2. QED
    BY <1>1, <1>2, <2>1, EndingIdle
<1>5. CASE f \in Stored /\ ~docs[f].valid
  <2>1. f \in nulled
    BY <1>5 DEF Inv, AllSound, Sound
  <2>2. Goto(c, Failure({f}, {}, {})) /\ UNCHANGED overlapped
    BY <1>5 DEF UpdateReads
  <2>3. QED
    BY <1>1, <1>2, <2>1, <2>2, FailingUnread
<1>6. CASE f \in Stored /\ docs[f].valid
  <2> DEFINE step == IF ch.field = "departure" THEN "lookup" ELSE "write"
             k == [step |-> step, flt |-> f, change |-> ch, dep |-> docs[f].dep, doc |-> docs[f]]
  <2>1. /\ Goto(c, k)
        /\ overlapped' = overlapped \cup
              {g \in {f} : \E d \in Callers : PendingUpdate(d, f) \/ PendingSweep(d, f)}
    BY <1>6 DEF UpdateReads
  <2>2. docs[f] \in Flight /\ f \in created
    BY <1>6, StoredFlight DEF Inv, TypeOK
  <2>3. step \in {"lookup", "write"}
    OBVIOUS
  <2> HIDE DEF step
  <2>4. k \in Calls
    BY <2>2, <2>3 DEF Calls, Updating, Flight
  <2>a. step = "lookup" => ch.code \in Called
    BY DEF step, Change
  <2>5. SoundCall(k) /\ SweptCall(k)
    BY <1>6, <2>3, <2>a DEF SoundCall, SweptCall, Inv, AllSound, Sound, Grounded
  <2>6. overlapped \subseteq overlapped' /\ overlapped' \subseteq created
    BY <1>3, <2>1, <2>2
  <2>7. f \notin overlapped' => \A d \in Callers : ~PendingUpdate(d, f) /\ ~PendingSweep(d, f)
    BY <2>1
  <2>8. QED
    BY <1>1, <1>2, <2>1, <2>2, <2>3, <2>4, <2>5, <2>6, <2>7, MovingOn
<1>7. QED
  BY <1>4, <1>5, <1>6

LEMMA UpdateLooksUpKeepsInv ==
  ASSUME Inv, NEW c \in Callers, UpdateLooksUp(c)
  PROVE  Inv'
<1>1. call[c] \in Updating
  BY CallFields DEF UpdateLooksUp, Inv, Formed
<1>2. UNCHANGED <<clock, ports, docs, updates, history>>
  BY DEF UpdateLooksUp
<1>3. overlapped \subseteq created /\ updates \in 0 .. MaxUpdates
  BY DEF Inv, TypeOK
<1>4. ASSUME NEW p \in Matching(call[c].change.code),
             Goto(c, [call[c] EXCEPT !.step = "write", !.dep = p])
      PROVE  Inv'
  <2> DEFINE k == [call[c] EXCEPT !.step = "write", !.dep = p]
  <2>1. p \in ports /\ p \in Ports
    BY DEF Matching, Inv, TypeOK
  <2>2. /\ k \in Updating /\ k.step = "write" /\ k.dep = p
        /\ k.flt = call[c].flt /\ k.doc = call[c].doc
    BY <1>1, <2>1 DEF Updating
  <2>3. SoundCall(k) /\ SweptCall(k)
    BY <2>1, <2>2 DEF SoundCall, SweptCall, Inv, AllSound, Grounded, UpdateLooksUp
  <2>4. PendingUpdate(c, call[c].flt) /\ call[c].flt \in Flts
    BY <1>1 DEF PendingUpdate, UpdateLooksUp, Updating
  <2>5. /\ k.flt \in created
        /\ k.flt \notin overlapped =>
             /\ docs[k.flt] \in {Absent, k.doc}
             /\ \A d \in Callers \ {c} : ~PendingUpdate(d, k.flt) /\ ~PendingSweep(d, k.flt)
    BY <2>2, <2>4 DEF Inv, InHand, Current
  <2>6. QED
    BY <1>2, <1>3, <1>4, <2>2, <2>3, <2>5, MovingOn DEF history, Calls
<1>5. CASE /\ Matching(call[c].change.code) = {}
           /\ Goto(c, Failure({}, {}, {call[c].change.code}))
  <2>1. {call[c].change.code} \in SUBSET Codes
    BY DEF UpdateLooksUp, Inv, AllSound, SoundCall
  <2>2. QED
    BY <1>2, <1>3, <1>5, <2>1, Failing DEF history
<1>6. QED
  BY <1>4, <1>5 DEF UpdateLooksUp

-----------------------------------------------------------------------------
\* The two requests that store a user's document.
LEMMA Writing ==
  ASSUME Inv, NEW c \in Callers, NEW f \in Flts, NEW doc \in Flight, NEW creates \in BOOLEAN,
         Touch(c, f, [step |-> "reread", flt |-> f, creates |-> creates]),
         docs' = [docs EXCEPT ![f] = doc],
         UNCHANGED <<clock, ports, updates, overlapped, removed>>,
         f \in Stored \/ f \notin created,
         created' = created \cup {f}, nulled' = nulled \cup {g \in {f} : ~doc.valid},
         Grounded(doc),
         f \notin overlapped => \A d \in Callers \ {c} : ~PendingUpdate(d, f) /\ ~PendingSweep(d, f),
         \E d \in Flight : intended' = [intended EXCEPT ![f] = d] /\ (f \notin overlapped => d = doc)
  PROVE  Inv'
<1> DEFINE k == [step |-> "reread", flt |-> f, creates |-> creates]
<1>0. k \in Calls /\ k.step = "reread" /\ k.flt = f
  BY DEF Calls, Answering
<1> HIDE DEF k
<1>1. /\ call' \in [Callers -> Calls] /\ call'[c] = k
      /\ \A d \in Callers \ {c} :
            \/ call[d].step \notin {"begun", "sweep"} /\ call'[d] = call[d]
            \/ /\ call[d].step \in {"begun", "sweep"}
               /\ call'[d].step = call[d].step /\ call'[d].now = call[d].now
               /\ call'[d].touched = call[d].touched \cup {f}
               /\ call[d].step = "sweep" => call'[d].todo = call[d].todo
  BY <1>0, TouchFields DEF Inv, k
<1>2. /\ docs'[f] = doc /\ \A g \in Flts \ {f} : docs'[g] = docs[g]
      /\ docs' \in [Flts -> Flight \cup {Absent}]
  BY DEF Inv, TypeOK
<1>3. Stored' = Stored \cup {f}
  BY <1>2, AbsentIsNoFlight DEF Stored
<1>4. \A d \in Callers \ {c}, g \in Flts :
         /\ PendingUpdate(d, g)' <=> PendingUpdate(d, g)
         /\ PendingUpdate(d, g)' => call'[d] = call[d]
         /\ PendingSweep(d, g)' <=> PendingSweep(d, g)
  BY <1>1 DEF PendingUpdate, PendingSweep
<1>5. \A g \in Flts : ~PendingUpdate(c, g)' /\ ~PendingSweep(c, g)'
  BY <1>0, <1>1 DEF PendingUpdate, PendingSweep
<1>6. TypeOK'
  <2>1. \A d \in Callers : call'[d].step \in {"map", "answered"} =>
           \A g \in DOMAIN call'[d].found :
              call'[d].found[g] \in Flight /\ call'[d].found[g].valid
    BY <1>0, <1>1 DEF Inv, TypeOK
  <2>2. Stored' \subseteq created' /\ overlapped' \subseteq created'
    BY <1>3 DEF Inv, TypeOK
  <2>3. QED
    BY <1>2, <2>1, <2>2 DEF Inv, TypeOK
<1>7. Formed'
  BY <1>1, <1>2, AbsentIsNoFlight DEF Inv, Formed
<1>8. AllSound'
  <2>0. nulled \subseteq nulled' /\ created \subseteq created'
    OBVIOUS
  <2>1. \A g \in Stored' : Sound(g, docs[g])'
    BY <1>2, <1>3 DEF Inv, AllSound, Sound, Grounded, Stored
  <2>2. ASSUME NEW d \in Callers \ {c}
        PROVE  SoundCall(call[d])'
    <3>1. SoundCall(call[d])
      BY DEF Inv, AllSound
    <3>2. CASE call[d].step = "failed"
      <4>1. call'[d] = call[d] /\ Explained(call[d])
        BY <1>1, <3>1, <3>2 DEF SoundCall
      <4>2. call[d].unread \subseteq nulled' \cup (created' \ Stored')
        BY <1>3, <2>0, <4>1 DEF Explained, Inv, Formed
      <4>3. Explained(call[d])'
        BY <4>1, <4>2 DEF Explained
      <4>4. QED
        BY <3>2, <4>1, <4>3 DEF SoundCall
    <3>3. CASE call[d].step # "failed"
      BY <1>1, <2>0, <3>1, <3>3 DEF SoundCall, Sound, Grounded
    <3>4. QED
      BY <3>2, <3>3
  <2>3. SoundCall(call[c])'
    BY <1>0, <1>1 DEF SoundCall
  <2>4. QED
    BY <2>1, <2>2, <2>3 DEF AllSound, Inv
<1>9. AllSwept'
  <2>1. ASSUME NEW d \in Callers \ {c}, call[d].step = "sweep"
        PROVE  \A g \in Stored' : g \in DOMAIN call'[d].todo \/ Recent(g, docs'[g], call'[d])
    BY <1>1, <1>2, <1>3, <2>1 DEF Inv, AllSwept, SweptCall, Recent, Stored
  <2>2. \A d \in Callers \ {c} : SweptCall(call[d])'
    BY <1>1, <2>1 DEF Inv, AllSwept, SweptCall, Recent
  <2>3. SweptCall(call[c])'
    BY <1>0, <1>1 DEF SweptCall, Recent
  <2>4. QED
    BY <2>2, <2>3 DEF AllSwept
<1>10. InHand'
  <2>1. \A d \in Callers : call'[d].step \in {"begun", "sweep"} => call'[d].now <= clock'
    BY <1>0, <1>1 DEF Inv, InHand
  <2>2. \A d \in Callers, g \in Flts : PendingUpdate(d, g)' \/ PendingSweep(d, g)' => g \in created'
    BY <1>4, <1>5 DEF Inv, InHand
  <2>3. \A d \in Callers \ {c}, g \in Flts : PendingSweep(d, g) => call'[d].todo = call[d].todo
    BY <1>1 DEF PendingSweep
  <2>4. \A d \in Callers, g \in Flts : PendingSweep(d, g)' =>
           call'[d].todo[g].status = "ACTIVE" /\ call'[d].todo[g].lands < clock'
    BY <1>4, <1>5, <2>3 DEF Inv, InHand
  <2>5. QED
    BY <2>1, <2>2, <2>4 DEF InHand
<1>11. Current'
  <2> SUFFICES ASSUME NEW g \in Flts, g \notin overlapped
               PROVE  /\ \A d \in Callers : PendingUpdate(d, g)' => docs'[g] \in {Absent, call'[d].doc}
                      /\ \A d \in Callers : PendingSweep(d, g)' =>
                            docs'[g] \in {Absent, call'[d].todo[g], Expire(call'[d].todo[g])}
                      /\ \A d, e \in Callers : PendingUpdate(d, g)' =>
                            ~PendingSweep(e, g)' /\ (PendingUpdate(e, g)' => d = e)
    BY DEF Current, Expire
  <2>1. CASE g = f
    BY <1>4, <1>5, <2>1
  <2>2. CASE g # f
    <3>1. /\ \A d \in Callers : PendingUpdate(d, g) => docs[g] \in {Absent, call[d].doc}
          /\ \A d \in Callers : PendingSweep(d, g) =>
                docs[g] \in {Absent, call[d].todo[g], Expire(call[d].todo[g])}
          /\ \A d, e \in Callers : PendingUpdate(d, g) =>
                ~PendingSweep(e, g) /\ (PendingUpdate(e, g) => d = e)
      BY DEF Inv, Current
    <3>2. \A d \in Callers \ {c} : PendingSweep(d, g) => call'[d].todo = call[d].todo
      BY <1>1 DEF PendingSweep
    <3>3. docs'[g] = docs[g]
      BY <1>2, <2>2
    <3>4. QED
      BY <1>4, <1>5, <3>1, <3>2, <3>3
  <2>3. QED
    BY <2>1, <2>2
<1>12. WritesSurviveUnlessOverlapped'
  BY <1>2 DEF Inv, Formed, WritesSurviveUnlessOverlapped
<1>13. QED
  BY <1>6, <1>7, <1>8, <1>9, <1>10, <1>11, <1>12 DEF Inv

LEMMA CreateInsertsKeepsInv ==
  ASSUME Inv, NEW c \in Callers, NEW f \in Flts, CreateInserts(c, f)
  PROVE  Inv'
<1>1. PICK doc \in Flight : doc = call[c].doc /\ doc.valid /\ Grounded(doc)
  BY CallFields DEF CreateInserts, Creating, Inv, Formed, AllSound, SoundCall
<1>2. \A d \in Callers \ {c} : ~PendingUpdate(d, f) /\ ~PendingSweep(d, f)
  BY DEF CreateInserts, Inv, InHand
<1>3. \E d \in Flight : intended' = [intended EXCEPT ![f] = d] /\ (f \notin overlapped => d = doc)
  BY <1>1 DEF CreateInserts
<1>4. /\ docs' = [docs EXCEPT ![f] = doc]
      /\ UNCHANGED <<clock, ports, updates, overlapped, removed>>
      /\ f \notin created /\ created' = created \cup {f}
      /\ nulled' = nulled \cup {g \in {f} : ~doc.valid}
  BY <1>1 DEF CreateInserts
<1>5. Touch(c, f, [step |-> "reread", flt |-> f, creates |-> TRUE])
  BY DEF CreateInserts
<1>6. QED
  BY <1>1, <1>2, <1>3, <1>4, <1>5, Writing

\* The read that answers finds the flight, or was overtaken.
LEMMA ReadsBackKeepsInv ==
  ASSUME Inv, NEW c \in Callers, ReadsBack(c)
  PROVE  Inv'
<1>1. PICK f \in Flts : f = call[c].flt
  BY CallFields DEF ReadsBack, Inv, Formed, Answering
<1>2. f \in created /\ UNCHANGED <<clock, ports, docs, updates, history>> /\ updates \in 0 .. MaxUpdates
  BY <1>1 DEF ReadsBack, Inv, AllSound, SoundCall, TypeOK
<1>3. CASE Goto(c, Idle)
  BY <1>2, <1>3, EndingIdle DEF history
<1>4. CASE Goto(c, Failure({f}, {}, {})) /\ (f \notin Stored \/ ~docs[f].valid)
  <2>1. {f} \subseteq nulled \cup (created \ Stored)
    BY <1>2, <1>4 DEF Inv, AllSound, Sound
  <2>2. QED
    BY <1>2, <1>4, <2>1, FailingUnread DEF history
<1>5. CASE Goto(c, Mapping([g \in {f} |-> docs[f]], clock, {f})) /\ f \in Stored /\ docs[f].valid
  <2> DEFINE found == [g \in {f} |-> docs[f]]
             k == Mapping(found, clock, {f})
  <2>1. found \in Found /\ DOMAIN found = {f} /\ found[f] = docs[f]
    <3>1. found \in [{f} -> Flight] /\ {f} \in SUBSET Flts
      BY <1>5, StoredFlight DEF Inv
    <3>2. QED
      BY <3>1 DEF Found
  <2>2. /\ k \in Calls /\ k.step = "map" /\ DOMAIN k.found = {f}
        /\ k.found[f] = docs[f] /\ k.touched = {f}
    BY <2>1 DEF Calls, Listing, Mapping, Inv, TypeOK
  <2>3. SoundCall(k) /\ SweptCall(k)
    BY <1>5, <2>2 DEF SoundCall, SweptCall, Recent, Inv, AllSound
  <2>4. overlapped \subseteq created
    BY DEF Inv, TypeOK
  <2>5. QED
    BY <1>2, <1>5, <2>2, <2>3, <2>4, MovingOn DEF history
<1>6. QED
  BY <1>1, <1>3, <1>4, <1>5 DEF ReadsBack

LEMMA ApplyPorts ==
  ASSUME NEW doc \in Flight, NEW ch \in Change, NEW dep \in Ports
  PROVE  Apply(doc, ch, dep).dep \in {doc.dep, dep} /\ Apply(doc, ch, dep).arr = doc.arr
<1>1. ch.field \in {"lands", "status", "departure", "arrival", "null"}
  BY DEF Change
<1>2. QED
  BY <1>1 DEF Apply, Flight

LEMMA UpdateWritesKeepsInv ==
  ASSUME Inv, NEW c \in Callers, UpdateWrites(c)
  PROVE  Inv'
<1>1. PICK f \in Flts, ch \in Change, dep \in Ports, doc \in Flight :
         call[c].flt = f /\ call[c].change = ch /\ call[c].dep = dep /\ call[c].doc = doc
  BY CallFields DEF UpdateWrites, Updating, Inv, Formed
<1>2. PICK new \in Flight :
         new = Apply(doc, ch, dep) /\ new.dep \in {doc.dep, dep} /\ new.arr = doc.arr
  BY ApplyFlight, ApplyPorts
<1>3. PendingUpdate(c, f)
  BY <1>1 DEF UpdateWrites, PendingUpdate
<1>4. f \notin overlapped =>
         /\ docs[f] \in {Absent, doc}
         /\ \A d \in Callers \ {c} : ~PendingUpdate(d, f) /\ ~PendingSweep(d, f)
  BY <1>1, <1>3 DEF Inv, Current
<1>5. CASE f \notin Stored
  <2>1. Goto(c, Idle) /\ UNCHANGED <<docs, intended, nulled>>
        /\ UNCHANGED <<clock, ports, updates, overlapped, created, removed>>
    BY <1>1, <1>5 DEF UpdateWrites
  <2>2. updates \in 0 .. MaxUpdates
    BY DEF Inv, TypeOK
  <2>3. QED
    BY <2>1, <2>2, EndingIdle
<1>6. CASE f \in Stored
  <2>1. /\ docs' = [docs EXCEPT ![f] = new]
        /\ intended' = [intended EXCEPT ![f] = Apply(intended[f], ch, dep)]
        /\ nulled' = nulled \cup {g \in {f} : ~new.valid}
        /\ Touch(c, f, [step |-> "reread", flt |-> f, creates |-> FALSE])
        /\ UNCHANGED <<clock, ports, updates, overlapped, created, removed>>
    BY <1>1, <1>2, <1>6, Zenon DEF UpdateWrites
  <2>3. Grounded(new)
    BY <1>1, <1>2 DEF UpdateWrites, Inv, AllSound, SoundCall, Grounded
  <2>4. intended[f] \in Flight
    BY <1>6 DEF Inv, Formed, Stored
  <2>5. f \notin overlapped => intended[f] = doc
    BY <1>4, <1>6 DEF Inv, WritesSurviveUnlessOverlapped, Stored
  <2>6. \E d \in Flight : intended' = [intended EXCEPT ![f] = d] /\ (f \notin overlapped => d = new)
    BY <1>2, <2>1, <2>4, <2>5, ApplyFlight
  <2>7. created' = created \cup {f}
    BY <1>3, <2>1 DEF Inv, InHand
  <2>8. QED
    BY <1>4, <1>6, <2>1, <2>3, <2>6, <2>7, Writing
<1>7. QED
  BY <1>5, <1>6

-----------------------------------------------------------------------------
\* A sweep writes what it read, with EXPIRED: no listing under way is disturbed,
\* and a flight written twice by sweeps that read it alike is written alike.
LEMMA SweepWritesKeepsInv ==
  ASSUME Inv, NEW c \in Callers, NEW f \in Flts, SweepWrites(c, f)
  PROVE  Inv'
<1>1. call[c] \in Sweeping /\ f \in DOMAIN call[c].todo /\ PendingSweep(c, f)
  BY CallFields DEF SweepWrites, Inv, Formed, PendingSweep
<1>2. PICK t \in Flight : t = call[c].todo[f]
  BY <1>1, FoundFields DEF Sweeping
<1>3. PICK e \in Flight : e = Expire(t)
  BY ExpireFlight
<1>4. /\ e.status = "EXPIRED" /\ e.dep = t.dep /\ e.arr = t.arr /\ e.valid = t.valid
      /\ t.status = "ACTIVE" /\ t.lands < clock
  BY <1>1, <1>2, <1>3, ExpireFlight DEF Inv, InHand
<1>5. PICK k \in Sweeping :
         /\ Goto(c, k) /\ k.now = call[c].now /\ k.touched = call[c].touched
         /\ DOMAIN k.todo = DOMAIN call[c].todo \ {f}
         /\ \A g \in DOMAIN k.todo : k.todo[g] = call[c].todo[g]
  <2> DEFINE F == DOMAIN call[c].todo \ {f}
             m == [call[c] EXCEPT !.todo = [g \in F |-> call[c].todo[g]], !.wrote = {f}]
  <2>1. [g \in F |-> call[c].todo[g]] \in Found
    <3>1. [g \in F |-> call[c].todo[g]] \in [F -> Flight] /\ F \in SUBSET Flts
      BY <1>1, FoundFields DEF Sweeping
    <3>2. QED
      BY <3>1 DEF Found
  <2>2. /\ m \in Sweeping /\ m.now = call[c].now /\ m.touched = call[c].touched
        /\ m.todo = [g \in F |-> call[c].todo[g]]
    BY <1>1, <2>1 DEF Sweeping
  <2>3. Goto(c, m)
    BY DEF SweepWrites
  <2>4. QED
    BY <2>2, <2>3
<1>6. /\ call' \in [Callers -> Calls] /\ call'[c] = k /\ k.step = "sweep"
      /\ \A d \in Callers \ {c} : call'[d] = call[d]
  BY <1>5 DEF Goto, Inv, Formed, Calls, Sweeping
<1>7. /\ UNCHANGED <<clock, ports, updates, overlapped, created, removed, nulled>>
      /\ docs' = IF f \in Stored THEN [docs EXCEPT ![f] = e] ELSE docs
      /\ intended' = IF f \in Stored /\ intended[f].status = "ACTIVE" /\ intended[f].lands < clock
                     THEN [intended EXCEPT ![f] = Expire(intended[f])] ELSE intended
  BY <1>2, <1>3 DEF SweepWrites, Expire
<1>8. /\ docs' \in [Flts -> Flight \cup {Absent}]
      /\ \A g \in Flts : docs'[g] = IF g = f /\ f \in Stored THEN e ELSE docs[g]
  BY <1>7 DEF Inv, TypeOK
<1>9. Stored' = Stored
  BY <1>8, AbsentIsNoFlight DEF Stored
<1>10. f \in Stored => intended[f] \in Flight
  BY DEF Inv, Formed, Stored
<1>11. /\ intended' \in [Flts -> Flight \cup {Absent}]
       /\ \A g \in Flts : intended'[g] =
             IF g = f /\ f \in Stored /\ intended[f].status = "ACTIVE" /\ intended[f].lands < clock
             THEN Expire(intended[f]) ELSE intended[g]
       /\ \A g \in Flts : docs'[g] = Absent <=> intended'[g] = Absent
  <2>1. f \in Stored => Expire(intended[f]) \in Flight
    BY <1>10, ExpireFlight
  <2>2. /\ intended' \in [Flts -> Flight \cup {Absent}]
        /\ \A g \in Flts : intended'[g] =
             IF g = f /\ f \in Stored /\ intended[f].status = "ACTIVE" /\ intended[f].lands < clock
             THEN Expire(intended[f]) ELSE intended[g]
    BY <1>7, <2>1 DEF Inv, Formed
  <2>3. QED
    BY <1>8, <1>10, <2>1, <2>2, AbsentIsNoFlight DEF Inv, Formed
<1>12. \A d \in Callers, g \in Flts :
          /\ PendingUpdate(d, g)' <=> PendingUpdate(d, g) /\ d # c
          /\ PendingSweep(d, g)' <=> PendingSweep(d, g) /\ (d = c => g # f)
          /\ PendingUpdate(d, g)' => call'[d] = call[d]
          /\ PendingSweep(d, g)' => call'[d].todo[g] = call[d].todo[g]
  BY <1>1, <1>5, <1>6 DEF PendingUpdate, PendingSweep, Sweeping
<1>13. TypeOK'
  <2>1. \A d \in Callers : call'[d].step \in {"map", "answered"} => call'[d] = call[d]
    BY <1>6
  <2>2. QED
    BY <1>7, <1>8, <1>9, <2>1 DEF Inv, TypeOK
<1>14. Formed'
  BY <1>6, <1>7, <1>11 DEF Inv, Formed
<1>15. AllSound'
  <2>1. Sound(f, call[c].todo[f])
    BY <1>1 DEF SweepWrites, Inv, AllSound, SoundCall
  <2>2. \A g \in Stored' : Sound(g, docs[g])'
    BY <1>2, <1>4, <1>7, <1>8, <1>9, <2>1 DEF Inv, AllSound, Sound, Grounded, Stored
  <2>3. \A d \in Callers \ {c} : SoundCall(call[d])'
    BY <1>6, <1>7, <1>9 DEF Inv, AllSound, SoundCall, Sound, Grounded, Explained
  <2>4. SoundCall(call[c])'
    <3>1. \A g \in DOMAIN call[c].todo : Sound(g, call[c].todo[g])
      BY DEF SweepWrites, Inv, AllSound, SoundCall
    <3>2. QED
      BY <1>5, <1>6, <1>7, <3>1 DEF SoundCall, Sound, Grounded
  <2>5. QED
    BY <1>7, <2>2, <2>3, <2>4 DEF AllSound, Inv
<1>16. AllSwept'
  <2>1. ASSUME NEW d \in Callers, call'[d].step = "sweep", NEW g \in Stored'
        PROVE  g \in DOMAIN call'[d].todo \/ Recent(g, docs'[g], call'[d])
    <3>1. call[d].step = "sweep" /\ g \in Stored /\ g \in Flts
      BY <1>6, <1>9, <2>1 DEF SweepWrites, Stored
    <3>2. g \in DOMAIN call[d].todo \/ Recent(g, docs[g], call[d])
      BY <3>1 DEF Inv, AllSwept, SweptCall
    <3>3. /\ call'[d].now = call[d].now /\ call'[d].touched = call[d].touched
          /\ DOMAIN call[d].todo \ {f} \subseteq DOMAIN call'[d].todo
      BY <1>5, <1>6
    <3>4. CASE g = f
      BY <1>4, <1>8, <3>1, <3>4 DEF Recent
    <3>5. CASE g # f
      BY <1>8, <3>1, <3>2, <3>3, <3>5 DEF Recent
    <3>6. QED
      BY <3>4, <3>5
  <2>2. \A d \in Callers : call'[d].step \in {"map", "answered"} => call'[d] = call[d]
    BY <1>6
  <2>3. QED
    BY <2>1, <2>2 DEF Inv, AllSwept, SweptCall, Recent
<1>17. InHand'
  <2>1. \A d \in Callers : call'[d].step \in {"begun", "sweep"} => call'[d].now <= clock'
    BY <1>5, <1>6, <1>7 DEF SweepWrites, Inv, InHand
  <2>2. QED
    BY <1>7, <1>12, <2>1 DEF Inv, InHand
<1>18. f \in Stored \ overlapped =>
          /\ docs[f] \in {t, e} /\ \A d \in Callers : ~PendingUpdate(d, f)
          /\ \A d \in Callers : PendingSweep(d, f) => e = Expire(call[d].todo[f])
  <2> SUFFICES ASSUME f \in Stored, f \notin overlapped
               PROVE  /\ docs[f] \in {t, e} /\ \A d \in Callers : ~PendingUpdate(d, f)
                      /\ \A d \in Callers : PendingSweep(d, f) => e = Expire(call[d].todo[f])
    OBVIOUS
  <2>1. \A d \in Callers : PendingSweep(d, f) => docs[f] \in {call[d].todo[f], Expire(call[d].todo[f])}
    BY DEF Inv, Current, Stored
  <2>2. docs[f] \in {t, e} /\ \A d \in Callers : ~PendingUpdate(d, f)
    BY <1>1, <1>2, <1>3, <2>1 DEF Inv, Current
  <2>3. ASSUME NEW d \in Callers, PendingSweep(d, f)
        PROVE  e = Expire(call[d].todo[f])
    <3>1. call[d] \in Sweeping
      BY <2>3, CallFields DEF PendingSweep, Inv, Formed
    <3>2. PICK u \in Flight : u = call[d].todo[f]
      BY <2>3, <3>1, FoundFields DEF Sweeping, PendingSweep
    <3>3. u.status = "ACTIVE" /\ Expire(u).status = "EXPIRED"
      BY <2>3, <3>2, ExpireFlight DEF Inv, InHand
    <3>4. docs[f] \in {u, Expire(u)}
      BY <2>1, <2>3, <3>2
    <3>5. QED
      BY <1>3, <1>4, <2>2, <3>2, <3>3, <3>4
  <2>4. QED
    BY <2>2, <2>3
<1>19. Current'
  <2> SUFFICES ASSUME NEW g \in Flts, g \notin overlapped
               PROVE  /\ \A d \in Callers : PendingUpdate(d, g)' => docs'[g] \in {Absent, call'[d].doc}
                      /\ \A d \in Callers : PendingSweep(d, g)' =>
                            docs'[g] \in {Absent, call'[d].todo[g], Expire(call'[d].todo[g])}
                      /\ \A d, h \in Callers : PendingUpdate(d, g)' =>
                            ~PendingSweep(h, g)' /\ (PendingUpdate(h, g)' => d = h)
    BY <1>7 DEF Current, Expire
  <2>1. /\ \A d \in Callers : PendingUpdate(d, g) => docs[g] \in {Absent, call[d].doc}
        /\ \A d \in Callers : PendingSweep(d, g) =>
              docs[g] \in {Absent, call[d].todo[g], Expire(call[d].todo[g])}
        /\ \A d, h \in Callers : PendingUpdate(d, g) =>
              ~PendingSweep(h, g) /\ (PendingUpdate(h, g) => d = h)
    BY DEF Inv, Current
  <2>2. CASE g = f /\ f \in Stored
    BY <1>8, <1>12, <1>18, <2>2
  <2>3. CASE ~(g = f /\ f \in Stored)
    BY <1>8, <1>12, <2>1, <2>3
  <2>4. QED
    BY <2>2, <2>3
<1>20. WritesSurviveUnlessOverlapped'
  <2> SUFFICES ASSUME NEW g \in Flts, g \notin overlapped
               PROVE  docs'[g] = intended'[g]
    BY <1>7 DEF WritesSurviveUnlessOverlapped
  <2>1. docs[g] = intended[g]
    BY DEF Inv, WritesSurviveUnlessOverlapped
  <2>2. CASE g = f /\ f \in Stored
    <3>1. CASE docs[f] = t
      BY <1>3, <1>4, <1>8, <1>11, <2>1, <2>2, <3>1
    <3>2. CASE docs[f] = e
      BY <1>4, <1>8, <1>11, <2>1, <2>2, <3>2
    <3>3. QED
      BY <1>18, <2>2, <3>1, <3>2
  <2>3. CASE ~(g = f /\ f \in Stored)
    BY <1>8, <1>11, <2>1, <2>3
  <2>4. QED
    BY <2>2, <2>3
<1>21. QED
  BY <1>13, <1>14, <1>15, <1>16, <1>17, <1>19, <1>20 DEF Inv

-----------------------------------------------------------------------------
\* Steps that leave the requests alone.
LEMMA DeleteFlightKeepsInv ==
  ASSUME Inv, NEW f \in Flts, DeleteFlight(f)
  PROVE  Inv'
<1>1. UNCHANGED <<clock, ports, call, updates, overlapped, created, removed, nulled>>
  BY DEF DeleteFlight
<1>2. /\ docs' \in [Flts -> Flight \cup {Absent}] /\ intended' \in [Flts -> Flight \cup {Absent}]
      /\ docs'[f] = Absent /\ intended'[f] = Absent
      /\ \A g \in Flts \ {f} : docs'[g] = docs[g] /\ intended'[g] = intended[g]
  BY DEF DeleteFlight, Inv, TypeOK, Formed
<1>3. Stored' = Stored \ {f}
  BY <1>2 DEF Stored
<1>4. TypeOK'
  BY <1>1, <1>2, <1>3 DEF Inv, TypeOK
<1>5. Formed'
  BY <1>1, <1>2 DEF Inv, Formed
<1>6. AllSound'
  BY <1>1, <1>2, <1>3 DEF Inv, AllSound, SoundCall, Sound, Grounded, Explained, Stored
<1>7. AllSwept'
  BY <1>1, <1>2, <1>3 DEF Inv, AllSwept, SweptCall, Recent, Stored
<1>8. InHand'
  BY <1>1 DEF Inv, InHand, PendingUpdate, PendingSweep
<1>9. \A c \in Callers, g \in Flts :
         (PendingUpdate(c, g)' <=> PendingUpdate(c, g)) /\ (PendingSweep(c, g)' <=> PendingSweep(c, g))
  BY <1>1 DEF PendingUpdate, PendingSweep
<1>10. Current'
  <2>1. \A g \in Flts : docs'[g] \in {docs[g], Absent}
    BY <1>2
  <2>2. QED
    BY <1>1, <1>9, <2>1 DEF Inv, Current, Expire
<1>11. WritesSurviveUnlessOverlapped'
  BY <1>1, <1>2 DEF Inv, WritesSurviveUnlessOverlapped
<1>12. QED
  BY <1>4, <1>5, <1>6, <1>7, <1>8, <1>10, <1>11 DEF Inv

\* Airports come and go, and time passes.
LEMMA WorldKeepsInv ==
  ASSUME Inv, UNCHANGED <<docs, call, updates, intended, overlapped, created, nulled>>,
         clock' \in Times, clock <= clock',
         ports' \subseteq Ports, removed' \subseteq Ports \ ports',
         removed \subseteq removed', ports \cup removed \subseteq ports' \cup removed'
  PROVE  Inv'
<1>1. Stored' = Stored
  BY DEF Stored
<1>2. TypeOK' /\ Formed'
  BY <1>1 DEF Inv, TypeOK, Formed
<1>3. AllSound'
  BY <1>1 DEF Inv, AllSound, SoundCall, Sound, Grounded, Explained
<1>4. AllSwept'
  BY <1>1 DEF Inv, AllSwept, SweptCall, Recent
<1>5. InHand'
  <2>1. \A c \in Callers : call[c].step \in {"begun", "sweep"} => call[c].now <= clock'
    <3>1. \A c \in Callers : call[c].step \in {"begun", "sweep"} => call[c].now \in Times
      BY CallFields DEF Inv, Formed, Begun, Sweeping
    <3>2. QED
      BY <3>1 DEF Inv, InHand, TypeOK, Times
  <2>2. \A c \in Callers, f \in Flts : PendingSweep(c, f) => call[c].todo[f].lands < clock'
    <3>1. \A c \in Callers, f \in Flts : PendingSweep(c, f) => call[c].todo[f] \in Flight
      BY CallFields, FoundFields DEF Inv, Formed, Sweeping, PendingSweep
    <3>2. QED
      BY <3>1 DEF Inv, InHand, TypeOK, Times, Flight
  <2>3. QED
    BY <2>1, <2>2 DEF Inv, InHand, PendingUpdate, PendingSweep
<1>6. Current' /\ WritesSurviveUnlessOverlapped'
  BY DEF Inv, Current, WritesSurviveUnlessOverlapped, PendingUpdate, PendingSweep, Expire
<1>7. QED
  BY <1>2, <1>3, <1>4, <1>5, <1>6 DEF Inv

LEMMA CrashKeepsInv ==
  ASSUME Inv, Crash
  PROVE  Inv'
<1>1. \A c \in Callers : call'[c] = Idle
  BY DEF Crash
<1>2. UNCHANGED <<clock, ports, docs, updates, history>> /\ Stored' = Stored
  BY DEF Crash, Stored
<1>3. TypeOK'
  BY <1>1, <1>2 DEF Inv, TypeOK, history, Idle
<1>4. Formed'
  BY <1>2 DEF Inv, Formed, history, Crash, Calls
<1>5. AllSound' /\ AllSwept'
  BY <1>1, <1>2 DEF Inv, AllSound, AllSwept, SoundCall, SweptCall, Sound, Grounded, Idle, history
<1>6. InHand' /\ Current'
  BY <1>1, <1>2 DEF InHand, Current, PendingUpdate, PendingSweep, Idle
<1>7. WritesSurviveUnlessOverlapped'
  BY <1>2 DEF Inv, WritesSurviveUnlessOverlapped, history
<1>8. QED
  BY <1>3, <1>4, <1>5, <1>6, <1>7 DEF Inv

-----------------------------------------------------------------------------
LEMMA InvNext == Inv /\ [Next]_vars => Inv'
<1> SUFFICES ASSUME Inv, [Next]_vars
             PROVE  Inv'
  OBVIOUS
<1>1. TypeOK
  BY DEF Inv
<1>2. CASE Tick
  BY <1>1, <1>2, WorldKeepsInv DEF Tick, history, TypeOK, Times
<1>3. CASE Crash
  BY <1>3, CrashKeepsInv
<1>4. CASE UNCHANGED vars
  BY <1>1, <1>4, WorldKeepsInv DEF vars, history, TypeOK, Times
<1>5. ASSUME NEW p \in Ports, AddAirport(p) PROVE Inv'
  BY <1>1, <1>5, WorldKeepsInv DEF AddAirport, history, TypeOK, Times
<1>6. ASSUME NEW p \in Ports, DeleteAirport(p) PROVE Inv'
  BY <1>1, <1>6, WorldKeepsInv DEF DeleteAirport, TypeOK, Times
<1>7. ASSUME NEW f \in Flts, DeleteFlight(f) PROVE Inv'
  BY <1>7, DeleteFlightKeepsInv
<1>8. ASSUME NEW c \in Callers, ListBegins(c) \/ SweepReads(c) \/ Maps(c) PROVE Inv'
  BY <1>8, ListBeginsKeepsInv, SweepReadsKeepsInv, MapsKeepsInv
<1>9. ASSUME NEW c \in Callers, NEW read \in SUBSET Stored, NEW shown \in SUBSET Stored,
             shown \subseteq read, Reads(c, read, shown)
      PROVE  Inv'
  BY <1>9, ReadsKeepsInv
<1>10. ASSUME NEW c \in Callers, NEW f \in Flts, SweepWrites(c, f) \/ CreateInserts(c, f) PROVE Inv'
  BY <1>10, SweepWritesKeepsInv, CreateInsertsKeepsInv
<1>11. ASSUME NEW c \in Callers, NEW dep \in Called, NEW arr \in Called, NEW lands \in Times,
              NEW status \in Statuses \ {"NULL"}, CreateLooksUp(c, dep, arr, lands, status)
       PROVE  Inv'
  BY <1>11, CreateLooksUpKeepsInv
<1>12. ASSUME NEW c \in Callers, NEW f \in Flts, NEW ch \in Change, UpdateReads(c, f, ch) PROVE Inv'
  BY <1>12, UpdateReadsKeepsInv
<1>13. ASSUME NEW c \in Callers, \/ UpdateLooksUp(c) \/ UpdateWrites(c)
                                 \/ SweepReadsBack(c) \/ ReadsBack(c)
       PROVE  Inv'
  BY <1>13, UpdateLooksUpKeepsInv, UpdateWritesKeepsInv, SweepReadsBackKeepsInv, ReadsBackKeepsInv
<1>14. QED
  BY <1>1, <1>2, <1>3, <1>4, <1>5, <1>6, <1>7, <1>8, <1>9, <1>10, <1>11, <1>12, <1>13, Steps, Zenon

LEMMA Invariant == Spec => []Inv
BY InvInit, InvNext, PTL DEF Spec

\* Whatever the requests and their order, documents and requests are what
\* FlightService can store and hold.
THEOREM TypeCorrect == Spec => []TypeOK
<1>1. Inv => TypeOK
  BY DEF Inv
<1>2. QED
  BY <1>1, Invariant, PTL

\* For any number of requests and flights, a listing answers with flights that
\* had not landed when it began, unless a create or update of the flight was
\* written since: no other request's sweep takes a flight out of its answer's
\* guarantee.
THEOREM ListingsRecent == Spec => []ListedHasNotLanded
<1>1. Inv => ListedHasNotLanded
  BY DEF Inv, AllSwept, SweptCall, Recent, ListedHasNotLanded
<1>2. QED
  BY <1>1, Invariant, PTL

\* For any number of requests, a flight that no update shared with another
\* write is stored as its users' acknowledged writes and its landing made it.
THEOREM WritesSurvive == Spec => []WritesSurviveUnlessOverlapped
<1>1. Inv => WritesSurviveUnlessOverlapped
  BY DEF Inv
<1>2. QED
  BY <1>1, Invariant, PTL

\* For any number of requests, airports and flights, one that ends in an
\* internal error met a flight into which a null was stored, the deletion of the
\* flight it created, an airport that was deleted, or a code it named itself
\* that no airport there from the start has.
THEOREM FailuresExplained == Spec => []FailuresAreExplained
<1>1. Inv => FailuresAreExplained
  BY DEF Inv, AllSound, SoundCall, FailuresAreExplained
<1>2. QED
  BY <1>1, Invariant, PTL
=============================================================================
