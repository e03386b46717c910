------------------------------ MODULE Flights ------------------------------
(***************************************************************************)
(* Flights and the airports they refer to (FlightService, AirportService). *)
(* Every listing first writes EXPIRED over the active flights that have    *)
(* landed; that sweep and update_flight both read a whole document and     *)
(* later $set a whole document, with other requests between, and every     *)
(* write is followed by a read of what is stored then.  Nothing keeps an   *)
(* airport from being deleted while flights refer to its id, and an update *)
(* with an explicit null stores a document no later read accepts.  No      *)
(* exception is handled: each ends the request in an internal error.       *)
(***************************************************************************)
EXTENDS Naturals, FiniteSets

CONSTANTS
    Flts,        \* flight ids
    Ports,       \* airport ids; an airport added again gets a new one
    Codes,       \* ICAO and IATA codes, and what matches no airport: an
                 \* unknown code, or the null an update can name
    Icao, Iata,  \* Ports -> Codes
    Seeded,      \* the airports present at the start
    NoPort,
    Callers,     \* slots for requests in flight at the same time
    Called,      \* bound: the codes that creates and updates name
    Fields,      \* bound: which fields updates name
    Statuses,    \* bound: which statuses creates and updates name
    MaxTime,     \* bound: the clock, and arrival times
    MaxUpdates   \* bound: updates begun

ASSUME CodeAssumption ==
    /\ Icao \in [Ports -> Codes] /\ Iata \in [Ports -> Codes]
    /\ Called \subseteq Codes /\ Seeded \subseteq Ports /\ NoPort \notin Ports
    /\ Statuses \subseteq {"DRAFT", "ACTIVE", "CANCELLED", "EXPIRED", "NULL"}
    /\ Fields \subseteq {"lands", "status", "departure", "arrival", "null"}
    /\ MaxTime \in Nat /\ MaxUpdates \in Nat

VARIABLES
    clock,      \* utc_now()
    ports,      \* ids in the airports collection
    docs,       \* the flights collection
    call,       \* call[c]: the request in slot c
    updates,    \* number of updates begun
    intended,   \* history: what the writes of the users and rightful expiry amount to
    overlapped, \* history: flights read for a write while another write of it
                \* was pending, one of the two an update
    created,    \* history: ids drawn for flights, never drawn again
    removed,    \* history: airports deleted, whose ids are never drawn again
    nulled      \* history: flights into which an update stored a null

history == <<intended, overlapped, created, removed, nulled>>
vars    == <<clock, ports, docs, call, updates, history>>

Times  == 0 .. MaxTime
\* FlightStatus, and the null an update can store instead.
Status == {"DRAFT", "ACTIVE", "CANCELLED", "EXPIRED", "NULL"}
\* valid: no required field holds null, so a read accepts the document.
Flight == [dep : Ports, arr : Ports, lands : Times, status : Status, valid : BOOLEAN]
Absent == [dep |-> NoPort, arr |-> NoPort, lands |-> 0, status |-> "DRAFT", valid |-> TRUE]
\* A FlightUpdate that sets one field.
Change == {ch \in [field : Fields, lands : Times, status : Statuses \cup {"DRAFT"}, code : Called \cup {NoPort}] :
              /\ ch.field # "lands" => ch.lands = 0
              /\ ch.field # "status" => ch.status = "DRAFT"
              /\ ch.field = "departure" <=> ch.code # NoPort}

Idle     == [step |-> "idle"]
\* An exception, and what it is about: flights that validation refused or that
\* were gone, airport ids that were not found, codes that were not found.
Failure(unread, missing, unknown) ==
    [step |-> "failed", unread |-> unread, missing |-> missing, unknown |-> unknown]
Stored   == {f \in Flts : docs[f] # Absent}
Active   == {f \in Stored : docs[f].status = "ACTIVE"}
Refused(S) == {f \in S : ~docs[f].valid}
Free(c)  == call[c].step \in {"idle", "answered", "failed"}
Goto(c, r) == call' = [call EXCEPT ![c] = r]
Matching(code) == {p \in ports : code \in {Icao[p], Iata[p]}}

Init == /\ clock = 0 /\ ports = Seeded /\ updates = 0
        /\ docs = [f \in Flts |-> Absent] /\ intended = docs
        /\ call = [c \in Callers |-> Idle]
        /\ overlapped = {} /\ created = {} /\ removed = {} /\ nulled = {}

\* f is about to be written by the request in slot c, from what it read.
PendingUpdate(c, f) == call[c].step \in {"lookup", "write"} /\ call[c].flt = f
PendingSweep(c, f)  == call[c].step = "sweep" /\ f \in DOMAIN call[c].todo

\* A user's write of f is seen by the listings under way.
Touch(c, f, r) ==
    call' = [d \in Callers |-> CASE d = c -> r
                               [] d # c /\ call[d].step \in {"begun", "sweep"} ->
                                     [call[d] EXCEPT !.touched = @ \cup {f}]
                               [] OTHER -> call[d]]

\* _to_schema looks up both airports of every flight read.
Mapping(found, now, touched) ==
    [step |-> "map", found |-> found, now |-> now, touched |-> touched]

-----------------------------------------------------------------------------
\* check_flights_for_expiration, then the reads of the listings.

ListBegins(c) ==
    /\ Free(c)
    /\ Goto(c, [step |-> "begun", now |-> clock, touched |-> {}])
    /\ UNCHANGED <<clock, ports, docs, updates, history>>

\* Mutant: a flight has landed only after a grace period.
LandedWithGrace(doc, now) == doc.lands + 1 < now

Landed(doc, now) == doc.lands < now

\* list_active_flights: one invalid document fails the request.
SweepReads(c) ==
    LET landed == {f \in Active : Landed(docs[f], call[c].now)}
    IN  /\ call[c].step = "begun"
        /\ IF Refused(Active) # {}
           THEN Goto(c, Failure(Refused(Active), {}, {})) /\ UNCHANGED overlapped
           ELSE /\ Goto(c, [step |-> "sweep", now |-> call[c].now, touched |-> call[c].touched,
                            todo |-> [f \in landed |-> docs[f]], wrote |-> {}])
                /\ overlapped' = overlapped \cup
                      {f \in landed : \E d \in Callers \ {c} : PendingUpdate(d, f)}
        /\ UNCHANGED <<clock, ports, docs, updates, intended, created, removed, nulled>>

\* The whole document read by the sweep is written, with the status EXPIRED,
\* if the flight still exists.
SweepWrites(c, f) ==
    /\ call[c].step = "sweep" /\ f \in DOMAIN call[c].todo /\ call[c].wrote = {}
    /\ docs' = IF f \in Stored
               THEN [docs EXCEPT ![f] = [call[c].todo[f] EXCEPT !.status = "EXPIRED"]]
               ELSE docs
    /\ intended' = IF /\ f \in Stored /\ intended[f].status = "ACTIVE"
                      /\ intended[f].lands < clock
                   THEN [intended EXCEPT ![f].status = "EXPIRED"] ELSE intended
    /\ Goto(c, [call[c] EXCEPT !.todo = [g \in DOMAIN @ \ {f} |-> @[g]], !.wrote = {f}])
    /\ UNCHANGED <<clock, ports, updates, overlapped, created, removed, nulled>>

\* update_flight of the repository reads back what it wrote: the sweep drops the
\* answer, but not the exception if the flight holds a null by now.
SweepReadsBack(c) ==
    /\ call[c].step = "sweep" /\ call[c].wrote # {}
    /\ LET refused == Refused(call[c].wrote \cap Stored)
       IN  Goto(c, IF refused = {} THEN [call[c] EXCEPT !.wrote = {}]
                                   ELSE Failure(refused, {}, {}))
    /\ UNCHANGED <<clock, ports, docs, updates, history>>

\* Mutant: documents are used without validation.
ReadsUnvalidated(c, read, shown) ==
    /\ call[c].step = "sweep" /\ DOMAIN call[c].todo = {} /\ call[c].wrote = {}
    /\ Goto(c, Mapping([f \in shown |-> docs[f]], call[c].now, call[c].touched))
    /\ UNCHANGED <<clock, ports, docs, updates, history>>

\* The read that follows the sweep; every document read is validated.
Reads(c, read, shown) ==
    /\ call[c].step = "sweep" /\ DOMAIN call[c].todo = {} /\ call[c].wrote = {}
    /\ Goto(c, IF Refused(read) = {}
               THEN Mapping([f \in shown |-> docs[f]], call[c].now, call[c].touched)
               ELSE Failure(Refused(read), {}, {}))
    /\ UNCHANGED <<clock, ports, docs, updates, history>>

\* list_active_flights; list_flights; the ACTIVE flight that departs first.
ReadsActive(c) == Reads(c, Active, Active)
ReadsAll(c)    == Reads(c, Stored, Stored)
ReadsNext(c)   == \E f \in Active : Reads(c, {f}, {f})
\* ACTIVE flights of one airport.
ReadsByAirport(c, F)  == F \subseteq Active /\ Reads(c, F, F)
ReadsArrivals(c, p)   == ReadsByAirport(c, {f \in Active : docs[f].arr = p})
ReadsDepartures(c, p) == ReadsByAirport(c, {f \in Active : docs[f].dep = p})
\* One flight by id; by flight number, for which all are read.
ReadsOne(c, f)      == f \in Stored /\ Reads(c, {f}, {f})
ReadsByNumber(c, f) == f \in Stored /\ Reads(c, Stored, {f})
\* Nothing found: NotFoundException, or no next flight.
ReadsNothing(c) == Reads(c, {}, {})

\* A missing airport of any flight read fails the whole request.
Maps(c) ==
    /\ call[c].step = "map"
    /\ LET found   == call[c].found
           missing == {p \in Ports : \E f \in DOMAIN found : p \in {found[f].dep, found[f].arr}} \ ports
       IN  Goto(c, IF missing = {} THEN [call[c] EXCEPT !.step = "answered"]
                                   ELSE Failure({}, missing, {}))
    /\ UNCHANGED <<clock, ports, docs, updates, history>>

-----------------------------------------------------------------------------
\* create_flight: both airports by code, insert, and the read of what was inserted.

CreateLooksUp(c, depCode, arrCode, lands, status) ==
    LET unknown == {code \in {depCode, arrCode} : Matching(code) = {}}
    IN
    /\ Free(c)
    /\ IF unknown = {}
       THEN \E dep \in Matching(depCode), arr \in Matching(arrCode) :
               Goto(c, [step |-> "insert",
                        doc |-> [dep |-> dep, arr |-> arr, lands |-> lands,
                                 status |-> status, valid |-> TRUE]])
       ELSE Goto(c, Failure({}, {}, unknown))
    /\ UNCHANGED <<clock, ports, docs, updates, history>>

CreateInserts(c, f) ==
    /\ call[c].step = "insert"
    /\ f \notin created /\ created' = created \cup {f}
    /\ docs' = [docs EXCEPT ![f] = call[c].doc]
    /\ intended' = [intended EXCEPT ![f] = call[c].doc]
    /\ Touch(c, f, [step |-> "reread", flt |-> f, creates |-> TRUE])
    /\ UNCHANGED <<clock, ports, updates, overlapped, removed, nulled>>

\* The read that answers a create or an update shows what is stored by now.  A
\* flight deleted since is not found by the update, and not expected by the create.
ReadsBack(c) ==
    LET f == call[c].flt
    IN  /\ call[c].step = "reread"
        /\ Goto(c, IF f \notin Stored
                   THEN IF call[c].creates THEN Failure({f}, {}, {}) ELSE Idle
                   ELSE IF ~docs[f].valid THEN Failure({f}, {}, {})
                   ELSE Mapping([g \in {f} |-> docs[f]], clock, {f}))
        /\ UNCHANGED <<clock, ports, docs, updates, history>>

\* update_flight: read, optional airport lookup, write of the whole document.

Apply(doc, ch, dep) ==
    CASE ch.field = "lands"     -> [doc EXCEPT !.lands = ch.lands]
      [] ch.field = "status"    -> [doc EXCEPT !.status = ch.status,
                                               !.valid = @ /\ ch.status # "NULL"]
      [] ch.field = "departure" -> [doc EXCEPT !.dep = dep]
      [] ch.field = "arrival"   -> doc  \* accepted, translated to no field
      [] ch.field = "null"      -> [doc EXCEPT !.valid = FALSE]

UpdateReads(c, f, ch) ==
    /\ Free(c) /\ updates < MaxUpdates
    /\ updates' = updates + 1
    /\ IF f \notin Stored THEN Goto(c, Idle) /\ UNCHANGED overlapped
       ELSE IF ~docs[f].valid THEN Goto(c, Failure({f}, {}, {})) /\ UNCHANGED overlapped
       ELSE /\ Goto(c, [step |-> IF ch.field = "departure" THEN "lookup" ELSE "write",
                        flt |-> f, change |-> ch, dep |-> docs[f].dep, doc |-> docs[f]])
            /\ overlapped' = overlapped \cup
                  {g \in {f} : \E d \in Callers : PendingUpdate(d, f) \/ PendingSweep(d, f)}
    /\ UNCHANGED <<clock, ports, docs, intended, created, removed, nulled>>

\* Mutant: the code is stored without finding its airport.
UpdateTakesAnyAirport(c) ==
    /\ call[c].step = "lookup"
    /\ \E p \in Ports : /\ call[c].change.code \in {Icao[p], Iata[p]}
                        /\ Goto(c, [call[c] EXCEPT !.step = "write", !.dep = p])
    /\ UNCHANGED <<clock, ports, docs, updates, history>>

UpdateLooksUp(c) ==
    /\ call[c].step = "lookup"
    /\ \/ \E p \in Matching(call[c].change.code) :
             Goto(c, [call[c] EXCEPT !.step = "write", !.dep = p])
       \/ /\ Matching(call[c].change.code) = {}
          /\ Goto(c, Failure({}, {}, {call[c].change.code}))
    /\ UNCHANGED <<clock, ports, docs, updates, history>>

\* Mutant: the write upserts.
UpdateUpserts(c) ==
    LET f   == call[c].flt
        new == Apply(call[c].doc, call[c].change, call[c].dep)
    IN  /\ call[c].step = "write"
        /\ docs' = [docs EXCEPT ![f] = new]
        /\ IF f \in Stored
           THEN intended' = [intended EXCEPT ![f] = Apply(@, call[c].change, call[c].dep)]
           ELSE UNCHANGED intended
        /\ nulled' = nulled \cup {g \in {f} : ~new.valid}
        /\ Touch(c, f, [step |-> "reread", flt |-> f, creates |-> FALSE])
        /\ UNCHANGED <<clock, ports, updates, overlapped, created, removed>>

UpdateWrites(c) ==
    LET f   == call[c].flt
        new == Apply(call[c].doc, call[c].change, call[c].dep)
    IN  /\ call[c].step = "write"
        /\ IF f \in Stored
           THEN /\ docs' = [docs EXCEPT ![f] = new]
                /\ intended' = [intended EXCEPT ![f] = Apply(@, call[c].change, call[c].dep)]
                /\ nulled' = nulled \cup {g \in {f} : ~new.valid}
                /\ Touch(c, f, [step |-> "reread", flt |-> f, creates |-> FALSE])
           ELSE Goto(c, Idle) /\ UNCHANGED <<docs, intended, nulled>>
        /\ UNCHANGED <<clock, ports, updates, overlapped, created, removed>>

\* delete_one.
DeleteFlight(f) ==
    /\ f \in Stored
    /\ docs' = [docs EXCEPT ![f] = Absent]
    /\ intended' = [intended EXCEPT ![f] = Absent]
    /\ UNCHANGED <<clock, ports, call, updates, overlapped, created, removed, nulled>>

-----------------------------------------------------------------------------
\* Airports: the unique index is on icao only; a code is an ICAO or an IATA code.

AddAirport(p) ==
    /\ p \notin ports \cup removed
    /\ \A q \in ports : Icao[q] # Icao[p]
    /\ ports' = ports \cup {p}
    /\ UNCHANGED <<clock, docs, call, updates, history>>

DeleteAirport(p) ==
    /\ ports' = ports \ {p} /\ removed' = removed \cup {p}
    /\ UNCHANGED <<clock, docs, call, updates, intended, overlapped, created, nulled>>

DeleteAirportById(p)      == p \in ports /\ DeleteAirport(p)
DeleteAirportByCode(code) == \E p \in Matching(code) : DeleteAirport(p)

Crash ==
    /\ call' = [c \in Callers |-> Idle]
    /\ UNCHANGED <<clock, ports, docs, updates, history>>

Tick ==
    /\ clock < MaxTime /\ clock' = clock + 1
    /\ UNCHANGED <<ports, docs, call, updates, history>>

Next ==
    \/ Tick \/ Crash
    \/ \E p \in Ports : AddAirport(p) \/ DeleteAirportById(p)
    \/ \E code \in Codes : DeleteAirportByCode(code)
    \/ \E f \in Flts : DeleteFlight(f)
    \/ \E c \in Callers :
          \/ ListBegins(c) \/ SweepReads(c) \/ Maps(c)
          \/ ReadsActive(c) \/ ReadsAll(c) \/ ReadsNext(c) \/ ReadsNothing(c)
          \/ \E f \in Flts : ReadsOne(c, f) \/ ReadsByNumber(c, f)
          \/ \E p \in Ports : ReadsArrivals(c, p) \/ ReadsDepartures(c, p)
          \/ SweepReadsBack(c) \/ ReadsBack(c)
          \/ \E f \in Flts : SweepWrites(c, f) \/ CreateInserts(c, f)
          \/ \E dep, arr \in Called, lands \in Times, status \in Statuses \ {"NULL"} :
                CreateLooksUp(c, dep, arr, lands, status)
          \/ \E f \in Flts, ch \in Change : UpdateReads(c, f, ch)
          \/ UpdateLooksUp(c) \/ UpdateWrites(c)

Spec == Init /\ [][Next]_vars
=============================================================================
