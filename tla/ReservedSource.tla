--------------------------- MODULE ReservedSource ---------------------------
(***************************************************************************)
(* HttpReservedSource: a catalogue fetched from a dataset and kept for a   *)
(* while, with the fixtures underneath, and the requests that are answered *)
(* from it.                                                                *)
(*                                                                         *)
(* A request looks things up one at a time: the services, or the service,  *)
(* then its seat map, then its fare table.  Each lookup is answered from   *)
(* the kept catalogue, from a fetch of its own or from the fixtures, so    *)
(* that one request may be put together from several catalogues.  What a   *)
(* request does to the seats is ReservedOrder's.                           *)
(***************************************************************************)
EXTENDS ReservedCatalogue

CONSTANTS Catalogues,   \* what the dataset may answer, by name
          Contents,     \* the catalogue under each name
          Fixture,      \* the name of the fixtures
          Files,        \* and their files
          Ttl,          \* cacheTtlMs
          Timeout,      \* timeoutMs
          Requests,
          Inputs,       \* what each request may carry
          MaxReleases,  \* bound on how often the dataset changes
          MaxClock      \* bound on the clock: its last instant is all later ones

ASSUME SourceAssumption ==
    /\ Fixture \notin Catalogues /\ None \notin Catalogues \cup {Fixture}
    /\ "pending" \notin Catalogues /\ None \notin Nat
    /\ None \notin {"request", "service", "TOO_FAR", "seatMap", "fareTable", "pair", "cell",
                    "TRAVEL-DATE-REQUIRED"}
    /\ Ttl \in Nat /\ Timeout \in Nat /\ MaxReleases \in Nat /\ MaxClock \in Nat

FixtureCatalogue == LoadReservedCatalogue(Files)
Content(c) == IF c = Fixture THEN FixtureCatalogue ELSE Contents[c]
SoundCatalogues == {c \in Catalogues : ValidReservedCatalogue(Contents[c])}

IsArray(list) == list \in Seq(Range(list))

\* What JSON and its schema give: arrays with no hole in them, and services with
\* ids of at least a character (and, taken for granted, no line break).
ASSUME ContentAssumption ==
    \A c \in Catalogues \cup {Fixture} :
        /\ \A list \in {Content(c).services, Content(c).seatMaps, Content(c).fareTables} :
              IsArray(list) /\ None \notin Range(list)
        /\ \A s \in Range(Content(c).services) :
              /\ IsArray(s.boarding) /\ IsArray(s.dropping)
              /\ IsArray(s.id) /\ s.id # <<>>
        /\ \A t \in Range(Content(c).fareTables) : IsArray(t.fares)

\* What the schemas and the parsing of a request leave: whole days and counts, and
\* lists of item ids and of seats.
ASSUME InputAssumption ==
    \A r \in Requests : \A i \in Inputs[r] :
        IF i.kind = "search" THEN i.date \in Int \cup {None}
        ELSE i.count \in Nat /\ IsArray(i.seats) /\ IsArray(i.items)

VARIABLES remote,    \* what the dataset holds
          releases,  \* how often it changed
          heldAt,    \* the last instant it held each catalogue
          cached,    \* this.cached
          req,
          clock

vars == <<remote, releases, heldAt, cached, req, clock>>

NoRequest == [pc |-> "idle", in |-> None, stage |-> None, now |-> 0, at |-> 0,
              body |-> None, from |-> None, map |-> None, todo |-> {}, used |-> {},
              after |-> {}, items |-> {}, answer |-> None, failed |-> None,
              total |-> 0, stops |-> None]

\* The process starts only on fixtures that pass the check.
Init ==
    /\ ValidReservedCatalogue(FixtureCatalogue)
    /\ remote \in SoundCatalogues
    /\ releases = 0
    /\ heldAt = [c \in Catalogues |-> IF c = remote THEN 0 ELSE None]
    /\ cached = None
    /\ req = [r \in Requests |-> NoRequest]
    /\ clock = 0

-----------------------------------------------------------------------------
(* How a request goes on when a lookup is answered.                        *)

\* Answered: what it carried, what it was served from and the outcome remain.
\* failed names the check that refused it.
Settled(r, answer, failed) ==
    [NoRequest EXCEPT !.pc = "done", !.in = r.in, !.used = r.used, !.after = r.after,
                      !.items = r.items, !.answer = answer, !.failed = failed]

LookUp(r, stage) == [r EXCEPT !.pc = "ask", !.stage = stage, !.at = 0, !.body = None]

\* What the id of the item an order names says of it.
Parsed(r) == ParseReservedItemId(Head(r.in.items))

\* The service a request is looking at: the next candidate of a search, or the
\* one an order names.
ServiceOf(r) ==
    LET services == Content(r.from).services IN
    IF r.in.kind = "search" THEN services[Min(r.todo)]
    ELSE Carried(services, Parsed(r).service)

\* search: the next candidate, or the answer.
NextCandidate(r) ==
    IF r.todo = {} THEN Settled(r, "OK", None) ELSE LookUp(r, "seatMap")

\* search: the candidates whose sale is open at the instant it arrived.
WithServices(r, c) ==
    LET departs(i) == StopInstant(r.in.date, Content(c).services[i].departure, 0) IN
    NextCandidate([r EXCEPT !.from = c, !.now = 0,
        !.todo = {i \in ServicesFor(Content(c), r.in) :
                     BookingWindowStatus(departs(i), r.now) = "OPEN"}])

\* resolveSelection: the item is a run of the service, and its sale is open now.
WithService(r, c) ==
    LET item == Parsed(r)
        service == Carried(Content(c).services, item.service) IN
    IF service = None THEN Settled(r, "SERVICE-NOT-FOUND", "service")
    ELSE IF service.class # item.class \/ ~RunsOn(service.pattern, item.date)
    THEN Settled(r, "SERVICE-NOT-FOUND", "service")
    ELSE LET window == BookingWindowStatus(StopInstant(item.date, service.departure, 0), clock) IN
         IF window # "OPEN" THEN Settled(r, "OUTSIDE-BOOKING-WINDOW", window)
         ELSE LookUp([r EXCEPT !.from = c], "seatMap")

\* seatMapFor
WithSeatMap(r, c) ==
    IF Carried(Content(c).seatMaps, ServiceOf(r).seatMap) = None
    THEN Settled(r, "SERVICE-NOT-FOUND", "seatMap")
    ELSE LookUp([r EXCEPT !.map = c], "fareTable")

\* search: an item whose whole run has no fare is left out.
Publish(r, table) ==
    LET service == ServiceOf(r)
        cell == FindFareCell(table, HeadlinePair(service), service.class) IN
    NextCandidate([r EXCEPT !.todo = @ \ {Min(@)},
                            !.items = IF cell = None THEN @ ELSE @ \cup
        {[item |-> ReservedItemId(service, r.in.date), info |-> ServiceInfo(service, r.in.date),
          price |-> cell.fare, stops |-> CatalogueStops(service, r.in.date)]}])

SeatsOnMap(r) ==
    Range(r.in.seats) \subseteq Ids(Carried(Content(r.map).seatMaps, ServiceOf(r).seatMap).seats)

\* select, init and confirm: the checks between the lookups and the price, in
\* their order.  Only a select names seats.
Price(r, table) ==
    LET service == ServiceOf(r)
        pair == BoardingPairFromStops(service, r.in.stops)
        cell == FindFareCell(table, pair, service.class)
        count == IF r.in.seats = <<>> THEN r.in.count ELSE Len(r.in.seats)
        refusal == ConcessionRefusal(r.in.claim, service.class) IN
    IF r.in.seats # <<>> /\ r.in.count # count THEN Settled(r, "SEAT-COUNT-MISMATCH", "count")
    ELSE IF ~Serves(service, pair) THEN Settled(r, "FARE-NOT-PUBLISHED", "pair")
    ELSE IF cell = None THEN Settled(r, "FARE-NOT-PUBLISHED", "cell")
    ELSE IF ~SeatsOnMap(r) THEN Settled(r, "SEAT-NOT-ON-MAP", "seats")
    ELSE IF refusal # None THEN Settled(r, refusal, "concession")
    ELSE [Settled(r, "OK", None) EXCEPT
             !.total = TotalPaise(service, cell.fare, count, r.in.claim),
             !.stops = OrderStops(service, Parsed(r).date, pair)]

\* fareTableFor
WithFareTable(r, c) ==
    LET table == Carried(Content(c).fareTables, ServiceOf(r).fareTable) IN
    IF table = None THEN Settled(r, "FARE-NOT-PUBLISHED", "fareTable")
    ELSE IF r.in.kind = "search" THEN Publish(r, table) ELSE Price(r, table)

\* The lookup of request id is answered from catalogue c.
Serve(id, c) ==
    LET r == [req[id] EXCEPT !.used = @ \cup {c}] IN
    req' = [req EXCEPT ![id] =
        CASE r.stage = "services" -> WithServices(r, c)
          [] r.stage = "service" -> WithService(r, c)
          [] r.stage = "seatMap" -> WithSeatMap(r, c)
          [] r.stage = "fareTable" -> WithFareTable(r, c)]

-----------------------------------------------------------------------------
(* The requests and their lookups.                                         *)

\* What is refused before anything is looked up: reservedSearchQuery, and the
\* provider, the number of items and the item id of an order.
Unusable(i) ==
    IF i.kind = "search"
    THEN IF i.date = None THEN "TRAVEL-DATE-REQUIRED"
         ELSE IF i.from = None \/ i.to = None THEN "SERVICE-NOT-FOUND" ELSE None
    ELSE IF ~i.provider THEN "SERVICE-NOT-FOUND"
         ELSE IF Len(i.items) # 1 THEN "MIXED-CATEGORY-ORDER"
         ELSE IF ~Matches(Head(i.items)) THEN "SERVICE-NOT-FOUND" ELSE None

Arrive(r, i) ==
    LET fresh == [NoRequest EXCEPT !.in = i, !.now = IF i.kind = "search" THEN clock ELSE 0,
                                   !.after = {f \in Requests : req[f].pc = "done"}] IN
    /\ req[r].pc = "idle"
    /\ req' = [req EXCEPT ![r] =
          IF Unusable(i) # None THEN Settled(fresh, Unusable(i), "request")
          ELSE LookUp(fresh, IF i.kind = "search" THEN "services" ELSE "service")]
    /\ UNCHANGED <<remote, releases, heldAt, cached, clock>>

\* The kept catalogue is young enough.
Fresh == IF cached = None THEN FALSE ELSE clock - cached.fetchedAt < Ttl

\* catalogue: it answers at once, or a fetch begins.
Ask(r) ==
    /\ req[r].pc = "ask"
    /\ \/ /\ Fresh
          /\ Serve(r, cached.catalogue)
       \/ /\ ~Fresh
          /\ req' = [req EXCEPT ![r].pc = "fetch", ![r].at = clock, ![r].body = "pending"]
    /\ UNCHANGED <<remote, releases, heldAt, cached, clock>>

\* The dataset reads what it holds.
Respond(r) ==
    /\ req[r].pc = "fetch" /\ req[r].body = "pending"
    /\ req' = [req EXCEPT ![r].body = remote]
    /\ UNCHANGED <<remote, releases, heldAt, cached, clock>>

Keep_AsOfNow(r) == [catalogue |-> req[r].body, fetchedAt |-> clock]

\* A catalogue is as old as the question, whatever was kept since.
Keep(r) == [catalogue |-> req[r].body, fetchedAt |-> req[r].at]

\* The answer is there.  One that is not a sound catalogue leaves this lookup to
\* the fixtures, and what is kept as it is.
Land(r) ==
    /\ req[r].pc = "fetch" /\ req[r].body # "pending"
    /\ \/ /\ req[r].body \in SoundCatalogues
          /\ cached' = Keep(r)
          /\ Serve(r, req[r].body)
       \/ /\ req[r].body \notin SoundCatalogues
          /\ Serve(r, Fixture)
          /\ UNCHANGED cached
    /\ UNCHANGED <<remote, releases, heldAt, clock>>

Expired_Never(r) == FALSE
Expired(r) == clock >= req[r].at + Timeout \/ clock = MaxClock

\* The fetch is aborted.
Abort(r) ==
    /\ req[r].pc = "fetch"
    /\ Expired(r)
    /\ Serve(r, Fixture)
    /\ UNCHANGED <<remote, releases, heldAt, cached, clock>>

\* The dataset is replaced, or goes down: an error and a body that fails the check
\* are the same to the source.
Release(c) ==
    /\ releases < MaxReleases /\ releases' = releases + 1
    /\ c # remote /\ remote' = c
    /\ heldAt' = [d \in Catalogues |-> IF d = c THEN clock ELSE heldAt[d]]
    /\ UNCHANGED <<cached, req, clock>>

Tick ==
    /\ clock < MaxClock /\ clock' = clock + 1
    /\ heldAt' = [c \in Catalogues |-> IF c = remote THEN clock' ELSE heldAt[c]]
    /\ UNCHANGED <<remote, releases, cached, req>>

Next ==
    \/ \E r \in Requests : \E i \in Inputs[r] : Arrive(r, i)
    \/ \E r \in Requests : Ask(r) \/ Respond(r) \/ Land(r) \/ Abort(r)
    \/ \E c \in Catalogues : Release(c)
    \/ Tick

Spec == Init /\ [][Next]_vars

\* What the event loop has to do for a request: Ask, Land or Abort is enabled.
Due(r) ==
    \/ req[r].pc = "ask"
    \/ req[r].pc = "fetch" /\ (req[r].body # "pending" \/ Expired(r))

\* One of the three is taken: no other step moves a request that has arrived.
Runs(r) ==
    req[r].pc # "idle" /\ <<req'[r].pc, req'[r].stage>> # <<req[r].pc, req[r].stage>>

\* The event loop runs what is due (weak fairness of the three, with the condition
\* that enables them written out) and time passes; nothing is asked of the
\* dataset, which need not answer.
FairSpec ==
    /\ Spec
    /\ \A r \in Requests : []<>~Due(r) \/ []<><<Runs(r)>>_vars
    /\ WF_vars(Tick)

-----------------------------------------------------------------------------
(* Properties.                                                             *)

\* What a lookup would be answered from the cache, the dataset still held less
\* than the time to live ago, however long the fetch took, whatever was released
\* meanwhile and whichever of two fetches landed last (catalogue).
CacheIsFresh ==
    Fresh => /\ cached.catalogue \in SoundCatalogues
             /\ heldAt[cached.catalogue] # None
             /\ heldAt[cached.catalogue] > clock - Ttl

\* A service whose seat map or fare table is not carried is met only by a
\* request that was served from two catalogues: inside each, what a service
\* names is there (validateReservedCatalogue, seatMapFor, fareTableFor).
MissingOnlyAcrossCatalogues ==
    \A r \in Requests :
        req[r].failed \in {"seatMap", "fareTable"} => Cardinality(req[r].used) > 1

\* Order r, of this provider, names item p of search f, which was over before it
\* came and was served from one catalogue, as the order was as far as it got.
Follows(r, f, p) ==
    /\ req[r].pc = "done" /\ req[r].in.kind = "order" /\ req[r].in.provider
    /\ f \in req[r].after /\ p \in req[f].items
    /\ req[r].in.items = <<p.item>>
    /\ req[r].used \subseteq req[f].used /\ Cardinality(req[f].used) = 1

\* The stops it names are published as ones to get on and to get off at.
NamesPublishedStops(r, p) ==
    \A end \in {<<req[r].in.stops.from, "BOARDING">>, <<req[r].in.stops.to, "DROPPING">>} :
        end[1] = None \/ \E s \in p.stops : s.stop.point = end[1] /\ end[2] \in s.roles

\* What was published can be bought: the order of a published item is never told
\* that its id says nothing, that there is no such service, or that its sale is
\* not open yet; published stops are never refused as a pair; the whole run always
\* has a fare; and that fare is the published one, less the concession to the
\* nearest paisa and with the instants that were published (reservedItemId,
\* parseReservedItemId, search, resolveSelection, buildOrder).
PublishedIsSold ==
    \A r, f \in Requests : \A p \in req[f].items :
        Follows(r, f, p) =>
            LET in == req[r].in
                count == IF in.seats = <<>> THEN in.count ELSE Len(in.seats)
                service == Carried(Content(CHOOSE c \in req[f].used : TRUE).services, p.info.service)
                off == count * (p.price + service.fee + service.toll) - req[r].total IN
            /\ req[r].failed \notin {"request", "service", "TOO_FAR"}
            /\ NamesPublishedStops(r, p) => req[r].failed # "pair"
            /\ in.stops = [from |-> None, to |-> None] => req[r].failed # "cell"
            /\ (in.stops = [from |-> None, to |-> None] /\ req[r].answer = "OK") =>
                  /\ 100 * off - ConcessionRatePercent(in.claim) * count * p.price \in -49..50
                  /\ {req[r].stops.from, req[r].stops.to} \subseteq {s.stop : s \in p.stops}

\* A dataset that is down, slow or never answers holds nobody up: every request
\* is answered, from the fixtures if from nothing else (catalogue's abort).
EveryRequestEnds == \A r \in Requests : (req[r].pc # "idle") ~> (req[r].pc = "done")
=============================================================================
