------------------------ MODULE ReservedSourceProofs ------------------------
(***************************************************************************)
(* Proofs about ReservedSource, for any catalogues, requests, time to live *)
(* and timeout: what is kept was held by the dataset when it was asked     *)
(* for, a request that is served from one catalogue finds in it what the   *)
(* catalogue names, and what a search has published an order can buy from  *)
(* the same catalogue, at its price.                                       *)
(***************************************************************************)
EXTENDS ReservedSource, FiniteSetTheorems, SequenceTheorems, WellFoundedInduction, TLAPS

Sources == SoundCatalogues \cup {Fixture}

Fields == {"pc", "in", "stage", "now", "at", "body", "from", "map", "todo", "used",
           "after", "items", "answer", "failed", "total", "stops"}

Stages == {"services", "service", "seatMap", "fareTable"}

\* The service request x is at is one of the catalogue it was found in.
Chosen(x) ==
    LET services == Content(x.from).services IN
    /\ x.from \in x.used
    /\ IF x.in.kind = "search" THEN x.todo # {} /\ x.todo \subseteq DOMAIN services
       ELSE Carried(services, Parsed(x).service) # None

\* A search begins with the services, an order with its service.
AtItsFirst(x) ==
    /\ x.stage = "services" => x.in.kind = "search"
    /\ x.stage = "service" => x.in.kind # "search"

\* Request x: what it was served from is sound, it is at a lookup or answered, and
\* a map or a table is missing only where it was served from two catalogues.
Sound(x) ==
    /\ DOMAIN x = Fields
    /\ x.pc \in {"idle", "ask", "fetch", "done"}
    /\ x.used \subseteq Sources /\ IsFiniteSet(x.used)
    /\ x.pc \in {"ask", "fetch"} =>
          /\ x.stage \in Stages /\ x.failed = None
          /\ AtItsFirst(x)
          /\ x.stage \in {"seatMap", "fareTable"} => Chosen(x)
    /\ x.failed \in {"seatMap", "fareTable"} => Cardinality(x.used) > 1

\* The dataset held catalogue c at instant t or later.
HeldSince(c, t) == heldAt[c] \in Nat /\ heldAt[c] >= t

\* A fetch of x brings what the dataset held after it began.
Fetching(x) ==
    x.pc = "fetch" =>
        /\ x.at \in Nat /\ x.at <= clock
        /\ x.body # "pending" => x.body \in Catalogues /\ HeldSince(x.body, x.at)

Kept ==
    \/ cached = None
    \/ /\ cached \in [catalogue : SoundCatalogues, fetchedAt : Nat]
       /\ cached.fetchedAt <= clock
       /\ HeldSince(cached.catalogue, cached.fetchedAt)

Dataset ==
    /\ clock \in Nat
    /\ remote \in Catalogues
    /\ DOMAIN heldAt = Catalogues
    /\ heldAt[remote] = clock

SourceInv ==
    /\ ValidReservedCatalogue(FixtureCatalogue)
    /\ Dataset
    /\ Kept
    /\ DOMAIN req = Requests
    /\ \A r \in Requests : Sound(req[r]) /\ Fetching(req[r])

-----------------------------------------------------------------------------
(* The catalogue.                                                          *)

\* A set of indices has a first one.
LEMMA FirstIndex ==
    ASSUME NEW S \in SUBSET Nat, S # {}
    PROVE  Min(S) \in S
<1>1. PICK m \in S : \A n \in S : <<n, m>> \notin OpToRel(<, Nat)
  BY NatLessThanWellFounded, WFMin
<1>2. \A n \in S : m =< n
  <2> TAKE n \in S
  <2>1. m \in Nat /\ n \in Nat
    OBVIOUS
  <2>2. ~(n < m)
    BY <1>1, <2>1 DEF OpToRel
  <2> QED
    BY <2>1, <2>2
<1> QED
  BY <1>2 DEF Min

\* What a list has an id of is found under it, and what is found is of the list.
LEMMA FoundUnderItsId ==
    ASSUME NEW list, NEW id, DOMAIN list \subseteq Nat, None \notin Range(list)
    PROVE  /\ id \in Ids(list) => Carried(list, id) # None
           /\ Carried(list, id) # None => Carried(list, id) \in Range(list)
<1> DEFINE found == {i \in DOMAIN list : list[i].id = id}
<1>1. Carried(list, id) = IF found = {} THEN None ELSE list[Min(found)]
  BY DEF Carried, First
<1>2. found # {} => Min(found) \in found
  BY FirstIndex
<1>3. found # {} => list[Min(found)] \in Range(list)
  BY <1>2 DEF Range
<1>4. id \in Ids(list) => found # {}
  BY DEF Ids, Range
<1> QED
  BY <1>1, <1>3, <1>4

\* An array has an index for each of its elements and no other.
LEMMA ArraysAreIndexed ==
    ASSUME NEW list, IsArray(list)
    PROVE  /\ Len(list) \in Nat /\ DOMAIN list = 1..Len(list) /\ DOMAIN list \subseteq Nat
<1>1. list \in Seq(Range(list))
  BY DEF IsArray
<1> QED
  BY <1>1, LenProperties

\* What the assumptions say of the lists of a catalogue.
LEMMA ListsOfACatalogue ==
    ASSUME NEW c \in Catalogues \cup {Fixture},
           NEW list \in {Content(c).services, Content(c).seatMaps, Content(c).fareTables}
    PROVE  /\ IsArray(list) /\ DOMAIN list \subseteq Nat /\ None \notin Range(list)
<1>1. IsArray(list) /\ None \notin Range(list)
  BY ContentAssumption
<1> QED
  BY <1>1, ArraysAreIndexed

\* Every catalogue a request is served from has passed the check.
LEMMA SourcesAreSound ==
    ASSUME ValidReservedCatalogue(FixtureCatalogue), NEW c \in Sources
    PROVE  ValidReservedCatalogue(Content(c)) /\ c \in Catalogues \cup {Fixture}
<1>1. CASE c = Fixture
  BY <1>1 DEF Content
<1>2. CASE c # Fixture
  BY <1>2 DEF Content, Sources, SoundCatalogues
<1> QED
  BY <1>1, <1>2

\* A sound catalogue has the seat map and the fare table of each of its services.
LEMMA ReferencesAreCarried ==
    ASSUME ValidReservedCatalogue(FixtureCatalogue), NEW c \in Sources,
           NEW s \in Range(Content(c).services)
    PROVE  /\ Carried(Content(c).seatMaps, s.seatMap) # None
           /\ Carried(Content(c).fareTables, s.fareTable) # None
<1>1. c \in Catalogues \cup {Fixture} /\ ValidReservedCatalogue(Content(c))
  BY SourcesAreSound
<1>3. ServiceSound(s, Content(c))
  BY <1>1 DEF ValidReservedCatalogue
<1>4. ReferencesResolve(s, Content(c))
  BY <1>3 DEF ServiceSound
<1>5. s.seatMap \in Ids(Content(c).seatMaps) /\ s.fareTable \in Ids(Content(c).fareTables)
  BY <1>4 DEF ReferencesResolve
<1>6. /\ DOMAIN Content(c).seatMaps \subseteq Nat /\ None \notin Range(Content(c).seatMaps)
      /\ DOMAIN Content(c).fareTables \subseteq Nat /\ None \notin Range(Content(c).fareTables)
  BY <1>1, ListsOfACatalogue
<1> QED
  BY <1>5, <1>6, FoundUnderItsId

\* The service a request is at is one of the catalogue it was found in.
LEMMA TheServiceIsCarried ==
    ASSUME NEW x, Chosen(x), x.used \subseteq Sources
    PROVE  ServiceOf(x) \in Range(Content(x.from).services)
<1> DEFINE services == Content(x.from).services
<1>1. x.from \in Catalogues \cup {Fixture}
  BY DEF Chosen, Sources, SoundCatalogues
<1>2. DOMAIN services \subseteq Nat /\ None \notin Range(services)
  BY <1>1, ListsOfACatalogue
<1>3. CASE x.in.kind = "search"
  <2>1. x.todo # {} /\ x.todo \subseteq DOMAIN services
    BY <1>3 DEF Chosen
  <2>2. Min(x.todo) \in DOMAIN services
    BY <1>2, <2>1, FirstIndex
  <2>3. services[Min(x.todo)] \in Range(services)
    BY <2>2 DEF Range
  <2>4. ServiceOf(x) = services[Min(x.todo)]
    BY <1>3 DEF ServiceOf
  <2> QED
    BY <2>3, <2>4
<1>4. CASE x.in.kind # "search"
  <2>1. Carried(services, Parsed(x).service) # None
    BY <1>4 DEF Chosen
  <2>2. ServiceOf(x) = Carried(services, Parsed(x).service)
    BY <1>4 DEF ServiceOf
  <2> QED
    BY <1>2, <2>1, <2>2, FoundUnderItsId
<1> QED
  BY <1>3, <1>4

\* Two that differ make more than one.
LEMMA TwoAreMoreThanOne ==
    ASSUME NEW S, IsFiniteSet(S), NEW a \in S, NEW b \in S, a # b
    PROVE  Cardinality(S) > 1
<1>1. IsFiniteSet({a}) /\ Cardinality({a}) = 1
  BY FS_Singleton
<1>2. IsFiniteSet({a} \cup {b}) /\ Cardinality({a} \cup {b}) = 2
  <2>1. b \notin {a}
    OBVIOUS
  <2>2. /\ IsFiniteSet({a} \cup {b})
        /\ Cardinality({a} \cup {b}) = IF b \in {a} THEN Cardinality({a})
                                      ELSE Cardinality({a}) + 1
    BY <1>1, FS_AddElement, Zenon
  <2> QED
    BY <1>1, <2>1, <2>2
<1>3. {a} \cup {b} \subseteq S
  OBVIOUS
<1>4. Cardinality({a} \cup {b}) <= Cardinality(S) /\ Cardinality(S) \in Nat
  BY <1>3, FS_Subset, FS_CardinalityType
<1> QED
  BY <1>2, <1>4

-----------------------------------------------------------------------------
(* A lookup is answered.                                                   *)

\* Request r has been served from catalogue c, among others.
Served(r, c) ==
    /\ DOMAIN r = Fields /\ r.failed = None
    /\ r.used \subseteq Sources /\ IsFiniteSet(r.used)
    /\ c \in r.used

\* Request y is sound, and goes on looking or is answered.
GoesOn(y) == Sound(y) /\ y.pc \in {"ask", "done"}

\* An answer.
LEMMA SettledGoesOn ==
    ASSUME NEW r, r.used \subseteq Sources, IsFiniteSet(r.used), NEW answer, NEW failed,
           failed \in {"seatMap", "fareTable"} => Cardinality(r.used) > 1
    PROVE  GoesOn(Settled(r, answer, failed))
<1> DEFINE y == Settled(r, answer, failed)
<1>1. DOMAIN y = Fields
  BY DEF Settled, NoRequest, Fields
<1>2. y.pc = "done" /\ y.used = r.used /\ y.failed = failed
  BY DEF Settled, NoRequest
<1> HIDE DEF y
<1> QED
  BY <1>1, <1>2 DEF GoesOn, Sound, y

\* A further lookup.
LEMMA LookUpGoesOn ==
    ASSUME NEW r, DOMAIN r = Fields, r.failed = None,
           r.used \subseteq Sources, IsFiniteSet(r.used), NEW stage \in Stages,
           stage = "services" => r.in.kind = "search",
           stage = "service" => r.in.kind # "search",
           stage \in {"seatMap", "fareTable"} => Chosen(r)
    PROVE  GoesOn(LookUp(r, stage))
<1> DEFINE y == LookUp(r, stage)
<1>1. DOMAIN y = Fields
  BY DEF LookUp
<1>2. /\ y.pc = "ask" /\ y.stage = stage /\ y.failed = None
      /\ y.used = r.used /\ y.from = r.from /\ y.in = r.in /\ y.todo = r.todo
  BY DEF LookUp, Fields
<1>3. None \notin {"seatMap", "fareTable"}
  BY SourceAssumption
<1> HIDE DEF y
<1>4. Chosen(r) => Chosen(y)
  BY <1>2 DEF Chosen, Parsed
<1>5. Sound(y)
  BY <1>1, <1>2, <1>3, <1>4 DEF Sound, AtItsFirst
<1> QED
  BY <1>2, <1>5 DEF GoesOn, y

\* The next candidate of a search.
LEMMA NextCandidateGoesOn ==
    ASSUME NEW r, NEW c, Served(r, c), r.from \in r.used, r.in.kind = "search",
           r.todo \subseteq DOMAIN Content(r.from).services
    PROVE  GoesOn(NextCandidate(r))
<1>1. CASE r.todo = {}
  <2>1. GoesOn(Settled(r, "OK", None))
    BY SettledGoesOn, SourceAssumption DEF Served
  <2> QED
    BY <1>1, <2>1 DEF NextCandidate
<1>2. CASE r.todo # {}
  <2>1. Chosen(r)
    BY <1>2 DEF Chosen
  <2>2. GoesOn(LookUp(r, "seatMap"))
    BY <2>1, LookUpGoesOn DEF Served, Stages
  <2> QED
    BY <1>2, <2>2 DEF NextCandidate
<1> QED
  BY <1>1, <1>2

\* The services of a search.
LEMMA ServicesGoOn ==
    ASSUME NEW r, NEW c, Served(r, c), r.in.kind = "search"
    PROVE  GoesOn(WithServices(r, c))
<1> DEFINE departs(i) == StopInstant(r.in.date, Content(c).services[i].departure, 0)
           open == {i \in ServicesFor(Content(c), r.in) :
                       BookingWindowStatus(departs(i), r.now) = "OPEN"}
<1>1. open \subseteq DOMAIN Content(c).services
  BY DEF ServicesFor
<1> HIDE DEF open
<1> DEFINE y == [r EXCEPT !.from = c, !.now = 0, !.todo = open]
<1>2. /\ DOMAIN y = Fields /\ y.failed = None /\ y.used = r.used
      /\ y.from = c /\ y.in = r.in /\ y.todo = open
  BY DEF Served, Fields
<1> HIDE DEF y
<1>3. Served(y, c) /\ y.from \in y.used /\ y.in.kind = "search"
      /\ y.todo \subseteq DOMAIN Content(y.from).services
  BY <1>1, <1>2 DEF Served
<1>4. GoesOn(NextCandidate(y))
  BY <1>3, NextCandidateGoesOn
<1> QED
  BY <1>4 DEF WithServices, y, open

\* The service of an order.
LEMMA ServiceGoesOn ==
    ASSUME NEW r, NEW c, Served(r, c), r.in.kind # "search"
    PROVE  GoesOn(WithService(r, c))
<1> DEFINE service == Carried(Content(c).services, Parsed(r).service)
           window == BookingWindowStatus(StopInstant(Parsed(r).date, service.departure, 0), clock)
           y == [r EXCEPT !.from = c]
<1>1. GoesOn(Settled(r, "SERVICE-NOT-FOUND", "service"))
  BY SettledGoesOn DEF Served
<1>2. window \in {"OPEN", "TOO_LATE", "TOO_FAR"}
  BY DEF BookingWindowStatus
<1> HIDE DEF window
<1>3. GoesOn(Settled(r, "OUTSIDE-BOOKING-WINDOW", window))
  BY <1>2, SettledGoesOn DEF Served
<1>4. ASSUME service # None
      PROVE  GoesOn(LookUp(y, "seatMap"))
  <2>1. /\ DOMAIN y = Fields /\ y.failed = None /\ y.used = r.used
        /\ y.from = c /\ y.in = r.in
    BY DEF Served, Fields
  <2> HIDE DEF y
  <2>2. Chosen(y)
    BY <1>4, <2>1 DEF Chosen, Parsed, Served
  <2> QED
    BY <2>1, <2>2, LookUpGoesOn DEF Served, Stages
<1> HIDE DEF service, y
<1>5. \/ WithService(r, c) = Settled(r, "SERVICE-NOT-FOUND", "service")
      \/ WithService(r, c) = Settled(r, "OUTSIDE-BOOKING-WINDOW", window)
      \/ service # None /\ WithService(r, c) = LookUp(y, "seatMap")
  BY DEF WithService, service, window, y
<1> QED
  BY <1>1, <1>3, <1>4, <1>5

\* The seat map.  It is missing only where the service is another catalogue's.
LEMMA SeatMapGoesOn ==
    ASSUME ValidReservedCatalogue(FixtureCatalogue),
           NEW r, NEW c, Served(r, c), Chosen(r)
    PROVE  GoesOn(WithSeatMap(r, c))
<1>1. ServiceOf(r) \in Range(Content(r.from).services)
  BY TheServiceIsCarried DEF Served
<1>2. r.from \in r.used /\ r.from \in Sources /\ c \in r.used
  BY DEF Chosen, Served
<1>3. CASE Carried(Content(c).seatMaps, ServiceOf(r).seatMap) = None
  <2>1. c # r.from
    BY <1>1, <1>2, <1>3, ReferencesAreCarried
  <2>2. Cardinality(r.used) > 1
    BY <1>2, <2>1, TwoAreMoreThanOne DEF Served
  <2>3. GoesOn(Settled(r, "SERVICE-NOT-FOUND", "seatMap"))
    BY <2>2, SettledGoesOn DEF Served
  <2> QED
    BY <1>3, <2>3 DEF WithSeatMap
<1>4. CASE Carried(Content(c).seatMaps, ServiceOf(r).seatMap) # None
  <2> DEFINE y == [r EXCEPT !.map = c]
  <2>1. /\ DOMAIN y = Fields /\ y.failed = None /\ y.used = r.used
        /\ y.from = r.from /\ y.in = r.in /\ y.todo = r.todo
    BY DEF Served, Fields
  <2> HIDE DEF y
  <2>2. Chosen(y)
    BY <2>1 DEF Chosen, Parsed
  <2>3. GoesOn(LookUp(y, "fareTable"))
    BY <2>1, <2>2, LookUpGoesOn DEF Served, Stages
  <2> QED
    BY <1>4, <2>3 DEF WithSeatMap, y
<1> QED
  BY <1>3, <1>4

\* An item of a search is published, or left out.
LEMMA PublishGoesOn ==
    ASSUME NEW r, NEW c, Served(r, c), Chosen(r), r.in.kind = "search", NEW table
    PROVE  GoesOn(Publish(r, table))
<1> DEFINE service == ServiceOf(r)
           cell == FindFareCell(table, HeadlinePair(service), service.class)
           items == IF cell = None THEN r.items ELSE r.items \cup
               {[item |-> ReservedItemId(service, r.in.date),
                 info |-> ServiceInfo(service, r.in.date),
                 price |-> cell.fare, stops |-> CatalogueStops(service, r.in.date)]}
           y == [r EXCEPT !.todo = r.todo \ {Min(r.todo)}, !.items = items]
<1>1. Publish(r, table) = NextCandidate(y)
  BY DEF Publish
<1> HIDE DEF items
<1>2. /\ DOMAIN y = Fields /\ y.failed = None /\ y.used = r.used
      /\ y.from = r.from /\ y.in = r.in /\ y.todo = r.todo \ {Min(r.todo)}
  BY DEF Served, Fields
<1> HIDE DEF y
<1>3. Served(y, c) /\ y.from \in y.used /\ y.in.kind = "search"
      /\ y.todo \subseteq DOMAIN Content(y.from).services
  BY <1>2 DEF Served, Chosen
<1> QED
  BY <1>1, <1>3, NextCandidateGoesOn

\* An order is refused for what it asks, or priced.
LEMMA PriceGoesOn ==
    ASSUME NEW r, NEW c, Served(r, c), NEW table
    PROVE  GoesOn(Price(r, table))
<1> DEFINE Failures == {"count", "pair", "cell", "seats", "concession"}
           service == ServiceOf(r)
           pair == BoardingPairFromStops(service, r.in.stops)
           cell == FindFareCell(table, pair, service.class)
           count == IF r.in.seats = <<>> THEN r.in.count ELSE Len(r.in.seats)
           refusal == ConcessionRefusal(r.in.claim, service.class)
           total == TotalPaise(service, cell.fare, count, r.in.claim)
           stops == OrderStops(service, Parsed(r).date, pair)
           ok == Settled(r, "OK", None)
           y == [ok EXCEPT !.total = total, !.stops = stops]
<1>1. \A answer : \A failed \in Failures : GoesOn(Settled(r, answer, failed))
  <2> TAKE answer
  <2> TAKE failed \in Failures
  <2> QED
    BY SettledGoesOn DEF Served
<1>2. GoesOn(y)
  <2>1. GoesOn(ok)
    BY SettledGoesOn, SourceAssumption DEF Served
  <2> HIDE DEF total, stops
  <2>2. DOMAIN ok = Fields /\ ok.pc = "done" /\ ok.used = r.used /\ ok.failed = None
    BY DEF Settled, NoRequest, Fields
  <2> HIDE DEF ok
  <2>3. DOMAIN y = Fields /\ y.pc = "done" /\ y.used = r.used /\ y.failed = None
    BY <2>2 DEF Fields
  <2> HIDE DEF y
  <2> QED
    BY <2>1, <2>2, <2>3 DEF GoesOn, Sound
<1> HIDE DEF count
<1>3. \/ Price(r, table) = Settled(r, "SEAT-COUNT-MISMATCH", "count")
      \/ Price(r, table) = Settled(r, "FARE-NOT-PUBLISHED", "pair")
      \/ Price(r, table) = Settled(r, "FARE-NOT-PUBLISHED", "cell")
      \/ Price(r, table) = Settled(r, "SEAT-NOT-ON-MAP", "seats")
      \/ Price(r, table) = Settled(r, refusal, "concession")
      \/ Price(r, table) = y
  BY Zenon DEF Price, count
<1> HIDE DEF y, refusal
<1> QED
  BY <1>1, <1>2, <1>3

\* The fare table.
LEMMA FareTableGoesOn ==
    ASSUME ValidReservedCatalogue(FixtureCatalogue),
           NEW r, NEW c, Served(r, c), Chosen(r)
    PROVE  GoesOn(WithFareTable(r, c))
<1> DEFINE table == Carried(Content(c).fareTables, ServiceOf(r).fareTable)
<1>1. ServiceOf(r) \in Range(Content(r.from).services)
  BY TheServiceIsCarried DEF Served
<1>2. r.from \in r.used /\ r.from \in Sources /\ c \in r.used
  BY DEF Chosen, Served
<1>3. CASE table = None
  <2>1. c # r.from
    BY <1>1, <1>2, <1>3, ReferencesAreCarried
  <2>2. Cardinality(r.used) > 1
    BY <1>2, <2>1, TwoAreMoreThanOne DEF Served
  <2>3. GoesOn(Settled(r, "FARE-NOT-PUBLISHED", "fareTable"))
    BY <2>2, SettledGoesOn DEF Served
  <2> QED
    BY <1>3, <2>3 DEF WithFareTable
<1>4. CASE table # None /\ r.in.kind = "search"
  <2>1. GoesOn(Publish(r, table))
    BY <1>4, PublishGoesOn
  <2> QED
    BY <1>4, <2>1 DEF WithFareTable
<1>5. CASE table # None /\ r.in.kind # "search"
  <2>1. GoesOn(Price(r, table))
    BY PriceGoesOn
  <2> QED
    BY <1>5, <2>1 DEF WithFareTable
<1> QED
  BY <1>3, <1>4, <1>5

\* A lookup that is answered leaves a sound request.
LEMMA ServeGoesOn ==
    ASSUME SourceInv, NEW id \in Requests, req[id].pc \in {"ask", "fetch"},
           NEW c \in Sources, Serve(id, c)
    PROVE  \E y : GoesOn(y) /\ req' = [req EXCEPT ![id] = y]
<1> DEFINE r == [req[id] EXCEPT !.used = req[id].used \cup {c}]
<1>1. /\ Sound(req[id]) /\ ValidReservedCatalogue(FixtureCatalogue)
      /\ req[id].stage \in Stages /\ req[id].failed = None /\ AtItsFirst(req[id])
      /\ req[id].stage \in {"seatMap", "fareTable"} => Chosen(req[id])
  BY DEF SourceInv, Sound
<1>2. /\ DOMAIN r = Fields /\ r.failed = None /\ r.used = req[id].used \cup {c}
      /\ r.from = req[id].from /\ r.in = req[id].in /\ r.todo = req[id].todo
      /\ r.stage = req[id].stage
  BY <1>1 DEF Sound, Fields
<1>3. req' = [req EXCEPT ![id] =
                 CASE r.stage = "services" -> WithServices(r, c)
                   [] r.stage = "service" -> WithService(r, c)
                   [] r.stage = "seatMap" -> WithSeatMap(r, c)
                   [] r.stage = "fareTable" -> WithFareTable(r, c)]
  BY DEF Serve
<1> HIDE DEF r
<1>4. IsFiniteSet(r.used)
  BY <1>1, <1>2, FS_AddElement DEF Sound
<1>5. Served(r, c)
  BY <1>1, <1>2, <1>4 DEF Served, Sound
<1>6. Chosen(req[id]) => Chosen(r)
  BY <1>2 DEF Chosen, Parsed
<1>7. CASE r.stage = "services"
  <2>1. GoesOn(WithServices(r, c))
    BY <1>1, <1>2, <1>5, <1>7, ServicesGoOn DEF AtItsFirst
  <2> QED
    BY <1>3, <1>7, <2>1
<1>8. CASE r.stage = "service"
  <2>1. GoesOn(WithService(r, c))
    BY <1>1, <1>2, <1>5, <1>8, ServiceGoesOn DEF AtItsFirst
  <2> QED
    BY <1>3, <1>8, <2>1
<1>9. CASE r.stage = "seatMap"
  <2>1. GoesOn(WithSeatMap(r, c))
    BY <1>1, <1>2, <1>5, <1>6, <1>9, SeatMapGoesOn
  <2> QED
    BY <1>3, <1>9, <2>1
<1>10. CASE r.stage = "fareTable"
  <2>1. GoesOn(WithFareTable(r, c))
    BY <1>1, <1>2, <1>5, <1>6, <1>10, FareTableGoesOn
  <2> QED
    BY <1>3, <1>10, <2>1
<1> QED
  BY <1>1, <1>2, <1>7, <1>8, <1>9, <1>10 DEF Stages

-----------------------------------------------------------------------------
(* The invariant.                                                          *)

\* A step that moves one request on, and the dataset and the clock not at all.
LEMMA OneRequestGoesOn ==
    ASSUME SourceInv, NEW id \in Requests, NEW y, GoesOn(y), req' = [req EXCEPT ![id] = y],
           UNCHANGED <<remote, releases, heldAt, clock>>, Kept'
    PROVE  SourceInv'
<1>1. DOMAIN req' = Requests
  BY DEF SourceInv
<1>2. ASSUME NEW r \in Requests
      PROVE  (Sound(req[r]) /\ Fetching(req[r]))'
  <2>1. CASE r = id
    <3>1. req'[r] = y
      BY <2>1 DEF SourceInv
    <3> QED
      BY <3>1 DEF GoesOn, Fetching
  <2>2. CASE r # id
    <3>1. req'[r] = req[r]
      BY <2>2 DEF SourceInv
    <3>2. Sound(req[r]) /\ Fetching(req[r])
      BY DEF SourceInv
    <3> QED
      BY <3>1, <3>2 DEF Fetching, HeldSince
  <2> QED
    BY <2>1, <2>2
<1>3. Dataset'
  BY DEF SourceInv, Dataset
<1> QED
  BY <1>1, <1>2, <1>3 DEF SourceInv

\* A lookup that is answered keeps the invariant, if what is kept does.
LEMMA ServeKeepsInv ==
    ASSUME SourceInv, NEW id \in Requests, req[id].pc \in {"ask", "fetch"},
           NEW c \in Sources, Serve(id, c),
           UNCHANGED <<remote, releases, heldAt, clock>>, Kept'
    PROVE  SourceInv'
<1>1. PICK y : GoesOn(y) /\ req' = [req EXCEPT ![id] = y]
  BY ServeGoesOn
<1> QED
  BY <1>1, OneRequestGoesOn

\* What is kept stays what it is while nothing of the dataset moves.
LEMMA KeptStays ==
    ASSUME SourceInv, UNCHANGED <<heldAt, cached, clock>>
    PROVE  Kept'
BY DEF SourceInv, Kept, HeldSince

\* What is kept stays a catalogue held since it was asked for, whatever the
\* dataset turns to and however late it gets.
LEMMA HeldForGood ==
    ASSUME SourceInv, cached' = cached, req' = req, clock' \in Nat, clock <= clock',
           remote' \in Catalogues, DOMAIN heldAt' = Catalogues, heldAt'[remote'] = clock',
           \A c \in Catalogues : heldAt'[c] = heldAt[c] \/ heldAt'[c] = clock'
    PROVE  SourceInv'
<1>1. clock \in Nat
  BY DEF SourceInv, Dataset
<1>2. \A c \in Catalogues : \A t \in Nat :
          t <= clock /\ HeldSince(c, t) => HeldSince(c, t)'
  BY <1>1 DEF HeldSince
<1>3. Kept'
  <2>1. CASE cached = None
    BY <2>1 DEF Kept
  <2>2. CASE cached # None
    <3>1. /\ cached \in [catalogue : SoundCatalogues, fetchedAt : Nat]
          /\ cached.fetchedAt <= clock /\ HeldSince(cached.catalogue, cached.fetchedAt)
      BY <2>2 DEF SourceInv, Kept
    <3>2. cached.catalogue \in Catalogues /\ cached.fetchedAt \in Nat
      BY <3>1 DEF SoundCatalogues
    <3>3. HeldSince(cached.catalogue, cached.fetchedAt)'
      BY <1>2, <3>1, <3>2 DEF HeldSince
    <3>4. cached'.fetchedAt <= clock'
      BY <1>1, <3>1, <3>2
    <3> QED
      BY <3>1, <3>3, <3>4 DEF Kept
  <2> QED
    BY <2>1, <2>2
<1>4. ASSUME NEW r \in Requests
      PROVE  (Sound(req[r]) /\ Fetching(req[r]))'
  <2>1. Sound(req[r]) /\ Fetching(req[r])
    BY DEF SourceInv
  <2>2. req'[r] = req[r]
    OBVIOUS
  <2>3. CASE req[r].pc = "fetch"
    <3>1. /\ req[r].at \in Nat /\ req[r].at <= clock
          /\ req[r].body # "pending" =>
                req[r].body \in Catalogues /\ HeldSince(req[r].body, req[r].at)
      BY <2>1, <2>3 DEF Fetching
    <3>2. req[r].at <= clock'
      BY <1>1, <3>1
    <3>3. req[r].body # "pending" => HeldSince(req[r].body, req[r].at)'
      BY <1>2, <2>2, <3>1 DEF HeldSince
    <3> QED
      BY <2>1, <2>2, <3>1, <3>2, <3>3 DEF Fetching
  <2>4. CASE req[r].pc # "fetch"
    BY <2>1, <2>2, <2>4 DEF Fetching
  <2> QED
    BY <2>3, <2>4
<1>5. Dataset'
  BY DEF Dataset
<1> QED
  BY <1>3, <1>4, <1>5 DEF SourceInv

\* The process starts in it.
LEMMA InitHasSourceInv == Init => SourceInv
<1> SUFFICES ASSUME Init PROVE SourceInv
  OBVIOUS
<1>1. Dataset
  BY DEF Init, Dataset, SoundCatalogues
<1>2. Kept
  BY DEF Init, Kept
<1>3. ASSUME NEW r \in Requests
      PROVE  Sound(req[r]) /\ Fetching(req[r])
  <2>1. req[r] = NoRequest
    BY DEF Init
  <2>2. IsFiniteSet({})
    BY FS_EmptySet
  <2>3. DOMAIN NoRequest = Fields
    BY DEF NoRequest, Fields
  <2>4. NoRequest.pc = "idle" /\ NoRequest.used = {} /\ NoRequest.failed = None
    BY DEF NoRequest
  <2> QED
    BY <2>1, <2>2, <2>3, <2>4, SourceAssumption DEF Sound, Fetching
<1> QED
  BY <1>1, <1>2, <1>3 DEF Init, SourceInv

\* A request arrives.
LEMMA ArriveKeepsInv ==
    ASSUME SourceInv, NEW r \in Requests, NEW i \in Inputs[r], Arrive(r, i)
    PROVE  SourceInv'
<1> DEFINE now == IF i.kind = "search" THEN clock ELSE 0
           after == {f \in Requests : req[f].pc = "done"}
           fresh == [NoRequest EXCEPT !.in = i, !.now = now, !.after = after]
           first == IF i.kind = "search" THEN "services" ELSE "service"
           y == IF Unusable(i) # None THEN Settled(fresh, Unusable(i), "request")
                ELSE LookUp(fresh, first)
<1>1. req' = [req EXCEPT ![r] = y] /\ UNCHANGED <<remote, releases, heldAt, cached, clock>>
  BY DEF Arrive
<1> HIDE DEF now, after
<1>2. DOMAIN fresh = Fields
  BY DEF NoRequest, Fields
<1>3. fresh.used = {} /\ fresh.failed = None /\ fresh.in = i
  BY DEF NoRequest
<1> HIDE DEF fresh
<1>4. IsFiniteSet({})
  BY FS_EmptySet
<1>5. GoesOn(Settled(fresh, Unusable(i), "request"))
  BY <1>3, <1>4, SettledGoesOn
<1>6. GoesOn(LookUp(fresh, first))
  <2>1. first \in Stages
    BY DEF Stages
  <2>2. /\ first = "services" => fresh.in.kind = "search"
        /\ first = "service" => fresh.in.kind # "search"
        /\ first \notin {"seatMap", "fareTable"}
    BY <1>3
  <2> HIDE DEF first
  <2> QED
    BY <1>2, <1>3, <1>4, <2>1, <2>2, LookUpGoesOn
<1>7. GoesOn(y)
  BY <1>5, <1>6
<1>8. Kept'
  BY <1>1, KeptStays
<1> QED
  BY <1>1, <1>7, <1>8, OneRequestGoesOn

\* A lookup is answered from what is kept, or a fetch begins.
LEMMA AskKeepsInv ==
    ASSUME SourceInv, NEW r \in Requests, Ask(r)
    PROVE  SourceInv'
<1>1. req[r].pc = "ask" /\ UNCHANGED <<remote, releases, heldAt, cached, clock>>
  BY DEF Ask
<1>2. Kept'
  BY <1>1, KeptStays
<1>3. CASE Fresh /\ Serve(r, cached.catalogue)
  <2>1. cached.catalogue \in Sources
    BY <1>3 DEF SourceInv, Kept, Fresh, Sources
  <2> QED
    BY <1>1, <1>2, <1>3, <2>1, ServeKeepsInv
<1>4. CASE req' = [req EXCEPT ![r].pc = "fetch", ![r].at = clock, ![r].body = "pending"]
  <2> DEFINE y == [req[r] EXCEPT !.pc = "fetch", !.at = clock, !.body = "pending"]
  <2>1. Sound(req[r]) /\ DOMAIN req = Requests /\ clock \in Nat
    BY DEF SourceInv, Dataset
  <2>2. req' = [req EXCEPT ![r] = y]
    BY <1>4, <2>1
  <2>3. /\ DOMAIN y = Fields /\ y.pc = "fetch" /\ y.at = clock /\ y.body = "pending"
        /\ y.stage = req[r].stage /\ y.failed = req[r].failed /\ y.used = req[r].used
        /\ y.from = req[r].from /\ y.in = req[r].in /\ y.todo = req[r].todo
    BY <2>1 DEF Sound, Fields
  <2> HIDE DEF y
  <2>4. Chosen(req[r]) => Chosen(y)
    BY <2>3 DEF Chosen, Parsed
  <2>5. Sound(y)
    BY <1>1, <2>1, <2>3, <2>4 DEF Sound, AtItsFirst
  <2>6. ASSUME NEW q \in Requests
        PROVE  (Sound(req[q]) /\ Fetching(req[q]))'
    <3>1. CASE q = r
      <4>1. req'[q] = y
        BY <2>1, <2>2, <3>1
      <4> QED
        BY <1>1, <2>1, <2>3, <2>5, <4>1 DEF Fetching
    <3>2. CASE q # r
      <4>1. req'[q] = req[q] /\ Sound(req[q]) /\ Fetching(req[q])
        BY <2>2, <3>2 DEF SourceInv
      <4> QED
        BY <1>1, <4>1 DEF Fetching, HeldSince
    <3> QED
      BY <3>1, <3>2
  <2>7. Dataset' /\ DOMAIN req' = Requests
    BY <1>1, <2>1, <2>2 DEF SourceInv, Dataset
  <2> QED
    BY <1>2, <2>6, <2>7 DEF SourceInv
<1> QED
  BY <1>3, <1>4 DEF Ask

\* The dataset reads what it holds at this instant.
LEMMA RespondKeepsInv ==
    ASSUME SourceInv, NEW r \in Requests, Respond(r)
    PROVE  SourceInv'
<1>1. /\ req[r].pc = "fetch" /\ UNCHANGED <<remote, releases, heldAt, cached, clock>>
      /\ req' = [req EXCEPT ![r].body = remote]
  BY DEF Respond
<1>2. Kept'
  BY <1>1, KeptStays
<1> DEFINE y == [req[r] EXCEPT !.body = remote]
<1>3. /\ Sound(req[r]) /\ Fetching(req[r]) /\ DOMAIN req = Requests
      /\ clock \in Nat /\ remote \in Catalogues /\ heldAt[remote] = clock
  BY DEF SourceInv, Dataset
<1>4. req' = [req EXCEPT ![r] = y]
  BY <1>1, <1>3
<1>5. /\ DOMAIN y = Fields /\ y.pc = "fetch" /\ y.at = req[r].at /\ y.body = remote
      /\ y.stage = req[r].stage /\ y.failed = req[r].failed /\ y.used = req[r].used
      /\ y.from = req[r].from /\ y.in = req[r].in /\ y.todo = req[r].todo
  BY <1>1, <1>3 DEF Sound, Fields
<1> HIDE DEF y
<1>6. Chosen(req[r]) => Chosen(y)
  BY <1>5 DEF Chosen, Parsed
<1>7. Sound(y)
  BY <1>1, <1>3, <1>5, <1>6 DEF Sound, AtItsFirst
<1>8. HeldSince(remote, req[r].at) /\ req[r].at \in Nat /\ req[r].at <= clock
  BY <1>1, <1>3 DEF HeldSince, Fetching
<1>9. ASSUME NEW q \in Requests
      PROVE  (Sound(req[q]) /\ Fetching(req[q]))'
  <2>1. CASE q = r
    <3>1. req'[q] = y
      BY <1>3, <1>4, <2>1
    <3> QED
      BY <1>1, <1>3, <1>5, <1>7, <1>8, <3>1 DEF Fetching, HeldSince
  <2>2. CASE q # r
    <3>1. req'[q] = req[q] /\ Sound(req[q]) /\ Fetching(req[q])
      BY <1>4, <2>2 DEF SourceInv
    <3> QED
      BY <1>1, <3>1 DEF Fetching, HeldSince
  <2> QED
    BY <2>1, <2>2
<1>10. Dataset' /\ DOMAIN req' = Requests
  BY <1>1, <1>3, <1>4 DEF SourceInv, Dataset
<1> QED
  BY <1>2, <1>9, <1>10 DEF SourceInv

\* The answer of a fetch lands: what is kept was held since it was asked for.
LEMMA LandKeepsInv ==
    ASSUME SourceInv, NEW r \in Requests, Land(r)
    PROVE  SourceInv'
<1>1. /\ req[r].pc = "fetch" /\ req[r].body # "pending"
      /\ UNCHANGED <<remote, releases, heldAt, clock>>
  BY DEF Land
<1>2. CASE req[r].body \in SoundCatalogues /\ cached' = Keep(r) /\ Serve(r, req[r].body)
  <2>1. Fetching(req[r])
    BY DEF SourceInv
  <2>2. req[r].at \in Nat /\ req[r].at <= clock /\ HeldSince(req[r].body, req[r].at)
    BY <1>1, <2>1 DEF Fetching
  <2>3. /\ cached' \in [catalogue : SoundCatalogues, fetchedAt : Nat]
        /\ cached'.catalogue = req[r].body /\ cached'.fetchedAt = req[r].at
    BY <1>2, <2>2 DEF Keep
  <2>4. Kept'
    BY <1>1, <2>2, <2>3 DEF Kept, HeldSince
  <2>5. req[r].body \in Sources
    BY <1>2 DEF Sources
  <2> QED
    BY <1>1, <1>2, <2>4, <2>5, ServeKeepsInv
<1>3. CASE Serve(r, Fixture) /\ cached' = cached
  <2>1. Kept'
    BY <1>1, <1>3, KeptStays
  <2>2. Fixture \in Sources
    BY DEF Sources
  <2> QED
    BY <1>1, <1>3, <2>1, <2>2, ServeKeepsInv
<1> QED
  BY <1>2, <1>3 DEF Land

\* A fetch is aborted.
LEMMA AbortKeepsInv ==
    ASSUME SourceInv, NEW r \in Requests, Abort(r)
    PROVE  SourceInv'
<1>1. /\ req[r].pc = "fetch" /\ Serve(r, Fixture)
      /\ UNCHANGED <<remote, releases, heldAt, cached, clock>>
  BY DEF Abort
<1>2. Kept'
  BY <1>1, KeptStays
<1>3. Fixture \in Sources
  BY DEF Sources
<1> QED
  BY <1>1, <1>2, <1>3, ServeKeepsInv

\* The dataset changes.
LEMMA ReleaseKeepsInv ==
    ASSUME SourceInv, NEW c \in Catalogues, Release(c)
    PROVE  SourceInv'
<1>1. clock \in Nat
  BY DEF SourceInv, Dataset
<1>2. /\ remote' = c /\ UNCHANGED <<cached, req, clock>>
      /\ heldAt' = [d \in Catalogues |-> IF d = c THEN clock ELSE heldAt[d]]
  BY DEF Release
<1> QED
  BY <1>1, <1>2, HeldForGood

\* Time passes.
LEMMA TickKeepsInv ==
    ASSUME SourceInv, Tick
    PROVE  SourceInv'
<1>1. clock \in Nat /\ remote \in Catalogues
  BY DEF SourceInv, Dataset
<1>2. /\ clock' = clock + 1 /\ UNCHANGED <<remote, cached, req>>
      /\ heldAt' = [c \in Catalogues |-> IF c = remote THEN clock' ELSE heldAt[c]]
  BY DEF Tick
<1> QED
  BY <1>1, <1>2, HeldForGood

\* The invariant of the sources: every step of a request, of the dataset or of the
\* clock keeps it.
THEOREM SourceInvariant == Spec => []SourceInv
<1>1. SourceInv /\ [Next]_vars => SourceInv'
  <2> SUFFICES ASSUME SourceInv, [Next]_vars PROVE SourceInv'
    OBVIOUS
  <2>1. CASE \E r \in Requests : \E i \in Inputs[r] : Arrive(r, i)
    BY <2>1, ArriveKeepsInv
  <2>2. CASE \E r \in Requests : Ask(r) \/ Respond(r) \/ Land(r) \/ Abort(r)
    BY <2>2, AskKeepsInv, RespondKeepsInv, LandKeepsInv, AbortKeepsInv
  <2>3. CASE \E c \in Catalogues : Release(c)
    BY <2>3, ReleaseKeepsInv
  <2>4. CASE Tick
    BY <2>4, TickKeepsInv
  <2>5. CASE UNCHANGED vars
    <3>1. UNCHANGED <<remote, heldAt, cached, req, clock>>
      BY <2>5 DEF vars
    <3>2. clock \in Nat /\ remote \in Catalogues /\ DOMAIN heldAt = Catalogues
          /\ heldAt[remote] = clock
      BY DEF SourceInv, Dataset
    <3> QED
      BY <3>1, <3>2, HeldForGood
  <2> QED
    BY <2>1, <2>2, <2>3, <2>4, <2>5 DEF Next
<1> QED
  BY InitHasSourceInv, <1>1, PTL DEF Spec

\* What a lookup is answered from the cache, the dataset still held less than the
\* time to live ago (catalogue): whatever was released, however long a fetch took
\* and whichever of two landed last.
THEOREM CacheStaysFresh == Spec => []CacheIsFresh
<1>1. SourceInv => CacheIsFresh
  <2> SUFFICES ASSUME SourceInv, Fresh
               PROVE  /\ cached.catalogue \in SoundCatalogues
                      /\ heldAt[cached.catalogue] # None
                      /\ heldAt[cached.catalogue] > clock - Ttl
    BY DEF CacheIsFresh
  <2>1. clock - cached.fetchedAt < Ttl /\ cached # None
    BY DEF Fresh
  <2>2. /\ cached.catalogue \in SoundCatalogues /\ cached.fetchedAt \in Nat
        /\ heldAt[cached.catalogue] \in Nat /\ heldAt[cached.catalogue] >= cached.fetchedAt
    BY <2>1 DEF SourceInv, Kept, HeldSince
  <2>3. clock \in Nat /\ Ttl \in Nat /\ None \notin Nat
    BY SourceAssumption DEF SourceInv, Dataset
  <2> QED
    BY <2>1, <2>2, <2>3
<1> QED
  BY <1>1, SourceInvariant, PTL

\* A seat map or a fare table is missing only to a request that was served from two
\* catalogues (validateReservedCatalogue, seatMapFor, fareTableFor).
THEOREM NothingIsMissingInside == Spec => []MissingOnlyAcrossCatalogues
<1>1. SourceInv => MissingOnlyAcrossCatalogues
  BY DEF SourceInv, Sound, MissingOnlyAcrossCatalogues
<1> QED
  BY <1>1, SourceInvariant, PTL

-----------------------------------------------------------------------------
(* What was published can be bought.                                       *)

Questions == UNION {Inputs[r] : r \in Requests}

\* Service i of catalogue c runs on the date, and its sale has opened.
OnSale(c, i, date) ==
    /\ i \in DOMAIN Content(c).services
    /\ date \in Int
    /\ RunsOn(Content(c).services[i].pattern, date)
    /\ StopInstant(date, Content(c).services[i].departure, 0) <= clock + HorizonDays * Day

\* The fare of the whole run of a service, in the catalogue's own table.
WholeRun(c, service) ==
    FindFareCell(Carried(Content(c).fareTables, service.fareTable), HeadlinePair(service),
                 service.class)

\* Item p is what a search answers for service i of catalogue c.
Is(p, c, i) ==
    LET service == Content(c).services[i] IN
    /\ p.item = ReservedItemId(service, p.info.date) /\ p.info = ServiceInfo(service, p.info.date)
    /\ WholeRun(c, service) # None
    /\ p.price = WholeRun(c, service).fare
    /\ p.stops = CatalogueStops(service, p.info.date)

OfferedBy(c, p) == \E i \in DOMAIN Content(c).services : OnSale(c, i, p.info.date) /\ Is(p, c, i)

\* The candidates a search is left with are on sale.
Searching(x) ==
    x.pc \in {"ask", "fetch"} =>
        /\ x.in \in Questions /\ Unusable(x.in) = None
        /\ x.stage = "services" => x.now \in Nat /\ x.now <= clock
        /\ x.stage \in {"seatMap", "fareTable"} /\ x.in.kind = "search" =>
              \A i \in x.todo : OnSale(x.from, i, x.in.date)

\* What a request that has met one catalogue at most has published, is on sale.
Publishing(x) == \A c \in Sources : x.used \subseteq {c} => \A p \in x.items : OfferedBy(c, p)

SaleInv ==
    /\ \A r \in Requests :
          /\ Searching(req[r]) /\ Publishing(req[r])
          /\ req[r].after \subseteq {f \in Requests : req[f].pc = "done"}
    /\ PublishedIsSold

\* A service is found under its id: no other has the same one.
LEMMA NoTwoAlike ==
    ASSUME NEW list, IsArray(list), NoDuplicates(list), NEW i \in DOMAIN list
    PROVE  Carried(list, list[i].id) = list[i]
<1> DEFINE n == Len(list)
           ids == {x.id : x \in Range(list)}
           f == [j \in 1..n |-> list[j].id]
<1>1. n \in Nat /\ DOMAIN list = 1..n
  BY ArraysAreIndexed
<1>2. IsFiniteSet(1..n) /\ Cardinality(1..n) = n
  <2>1. 1 \in Int /\ n \in Int
    BY <1>1
  <2>2. IsFiniteSet(1..n) /\ Cardinality(1..n) = IF 1 > n THEN 0 ELSE n - 1 + 1
    BY <2>1, FS_Interval
  <2> QED
    BY <1>1, <2>2
<1>3. f \in Surjection(1..n, ids)
  BY <1>1 DEF Surjection, Range
<1>4. Cardinality(1..n) = Cardinality(ids)
  BY <1>2 DEF NoDuplicates
<1>d. DOMAIN f = 1..n /\ \A j \in 1..n : f[j] = list[j].id
  OBVIOUS
<1> HIDE DEF f, ids, n
<1>5. f \in Injection(1..n, ids)
  BY <1>2, <1>3, <1>4, FS_SurjSameCardinalityImpliesInj
<1>6. \A j \in 1..n : list[j].id = list[i].id => j = i
  BY <1>1, <1>d, <1>5 DEF Injection, IsInjective
<1> DEFINE found == {j \in DOMAIN list : list[j].id = list[i].id}
<1>7. found = {i}
  BY <1>1, <1>6
<1>8. Carried(list, list[i].id) = IF found = {} THEN None ELSE list[Min(found)]
  BY DEF Carried, First
<1>9. Min({i}) = i
  <2>1. {i} \in SUBSET Nat /\ {i} # {}
    BY <1>1
  <2> QED
    BY <2>1, FirstIndex
<1> QED
  BY <1>7, <1>8, <1>9

\* A service of a sound catalogue has stops to get on and off at, and whole
\* numbers for its times and its money.
LEMMA ServiceFacts ==
    ASSUME ValidReservedCatalogue(FixtureCatalogue), NEW c \in Sources,
           NEW s \in Range(Content(c).services)
    PROVE  /\ s.departure \in Nat /\ s.fee \in Nat /\ s.toll \in Nat
           /\ s.boarding \in Seq(Range(s.boarding)) /\ s.boarding # <<>>
           /\ s.dropping \in Seq(Range(s.dropping)) /\ s.dropping # <<>>
<1>1. c \in Catalogues \cup {Fixture} /\ ValidReservedCatalogue(Content(c))
  BY SourcesAreSound
<1>2. ServiceSound(s, Content(c))
  BY <1>1 DEF ValidReservedCatalogue
<1>3. IsArray(s.boarding) /\ IsArray(s.dropping)
  BY <1>1, ContentAssumption
<1> QED
  BY <1>2, <1>3 DEF ServiceSound, IsArray

\* The first of a list and the last are of the list, and those of two lists are of
\* the two put together.
LEMMA EndsOfAList ==
    ASSUME NEW list, list \in Seq(Range(list)), list # <<>>
    PROVE  Head(list).id \in Ids(list) /\ list[Len(list)].id \in Ids(list)
<1>1. Head(list) \in Range(list)
  BY HeadTailProperties
<1>2. Len(list) \in Nat \ {0}
  BY EmptySeq
<1>3. list[Len(list)] \in Range(list)
  <2>1. Len(list) \in 1..Len(list)
    BY <1>2
  <2> QED
    BY <2>1, ElementOfSeq
<1> QED
  BY <1>1, <1>3 DEF Ids

LEMMA IdsOfTwoLists ==
    ASSUME NEW a, NEW b, a \in Seq(Range(a)), b \in Seq(Range(b))
    PROVE  Ids(a) \subseteq Ids(a \o b) /\ Ids(b) \subseteq Ids(a \o b)
<1> DEFINE S == Range(a) \cup Range(b)
           m == Len(a)
           n == Len(b)
<1>1. m \in Nat /\ n \in Nat /\ DOMAIN a = 1..m /\ DOMAIN b = 1..n
  BY LenProperties
<1>2. a \in Seq(S) /\ b \in Seq(S)
  <2>1. a \in [1..m -> Range(a)] /\ b \in [1..n -> Range(b)]
    BY LenProperties
  <2>2. a \in [1..m -> S] /\ b \in [1..n -> S]
    BY <2>1
  <2> QED
    BY <1>1, <2>2, SeqDef
<1>3. /\ a \o b \in Seq(S) /\ Len(a \o b) = m + n
      /\ \A i \in 1..(m + n) : (a \o b)[i] = IF i <= m THEN a[i] ELSE b[i - m]
  BY <1>2, ConcatProperties
<1>4. DOMAIN (a \o b) = 1..(m + n)
  BY <1>3, LenProperties
<1> HIDE DEF m, n
<1>5. ASSUME NEW i \in 1..m
      PROVE  a[i] \in Range(a \o b)
  <2>1. i \in 1..(m + n) /\ (a \o b)[i] = a[i]
    BY <1>1, <1>3
  <2> QED
    BY <1>4, <2>1 DEF Range
<1>6. ASSUME NEW i \in 1..n
      PROVE  b[i] \in Range(a \o b)
  <2>1. m + i \in 1..(m + n) /\ ~(m + i <= m) /\ (m + i) - m = i
    BY <1>1
  <2>2. (a \o b)[m + i] = b[i]
    BY <1>3, <2>1
  <2> QED
    BY <1>4, <2>1, <2>2 DEF Range
<1>7. Range(a) \subseteq Range(a \o b) /\ Range(b) \subseteq Range(a \o b)
  BY <1>1, <1>5, <1>6 DEF Range
<1> QED
  BY <1>7 DEF Ids

\* The fare of a whole run is a whole number of paise.
LEMMA FareIsWhole ==
    ASSUME ValidReservedCatalogue(FixtureCatalogue), NEW c \in Sources,
           NEW s \in Range(Content(c).services), WholeRun(c, s) # None
    PROVE  WholeRun(c, s).fare \in Nat
<1> DEFINE table == Carried(Content(c).fareTables, s.fareTable)
           pair == HeadlinePair(s)
           found == {i \in DOMAIN table.fares :
                        /\ table.fares[i].from = pair.from /\ table.fares[i].to = pair.to
                        /\ table.fares[i].class = s.class}
<1>1. c \in Catalogues \cup {Fixture} /\ ValidReservedCatalogue(Content(c))
  BY SourcesAreSound
<1>2. table # None
  BY ReferencesAreCarried
<1>3. table \in Range(Content(c).fareTables)
  BY <1>1, <1>2, ListsOfACatalogue, FoundUnderItsId
<1>4. FareTableSound(table, Content(c)) /\ IsArray(table.fares)
  BY <1>1, <1>3, ContentAssumption DEF ValidReservedCatalogue
<1>5. DOMAIN table.fares \subseteq Nat
  BY <1>4, ArraysAreIndexed
<1> HIDE DEF table
<1>6. WholeRun(c, s) = IF found = {} THEN None ELSE table.fares[Min(found)]
  BY DEF WholeRun, FindFareCell, First, table
<1>7. found # {} /\ found \in SUBSET Nat
  BY <1>5, <1>6
<1>8. Min(found) \in DOMAIN table.fares
  BY <1>7, FirstIndex
<1>9. WholeRun(c, s) \in Range(table.fares)
  BY <1>6, <1>7, <1>8 DEF Range
<1> QED
  BY <1>4, <1>9 DEF FareTableSound

\* The concession is off by half a paisa at most.
LEMMA ToTheNearestPaisa ==
    ASSUME NEW base \in Int, NEW claim
    PROVE  LET rate == ConcessionRatePercent(claim) IN
           /\ rate \in {0, 25, 100}
           /\ ConcessionDiscount(base, rate) \in Int
           /\ 100 * ConcessionDiscount(base, rate) - rate * base \in -49..50
<1> DEFINE rate == ConcessionRatePercent(claim)
<1>1. rate \in {0, 25, 100}
  BY DEF ConcessionRatePercent
<1> HIDE DEF rate
<1>2. /\ ConcessionDiscount(base, rate) \in Int
      /\ 100 * ConcessionDiscount(base, rate) - rate * base \in -49..50
  <2>1. CASE rate = 0
    BY <2>1 DEF ConcessionDiscount
  <2>2. CASE rate = 25
    BY <2>2 DEF ConcessionDiscount
  <2>3. CASE rate = 100
    BY <2>3 DEF ConcessionDiscount
  <2> QED
    BY <1>1, <2>1, <2>2, <2>3
<1> QED
  BY <1>1, <1>2 DEF rate

\* The price of an order against what was published.
LEMMA PriceAsPublished ==
    ASSUME NEW service, NEW fare \in Nat, NEW count \in Nat, NEW claim,
           service.fee \in Nat, service.toll \in Nat
    PROVE  LET total == TotalPaise(service, fare, count, claim)
               off == count * (fare + service.fee + service.toll) - total IN
           100 * off - ConcessionRatePercent(claim) * count * fare \in -49..50
<1> DEFINE rate == ConcessionRatePercent(claim)
           base == fare * count
           discount == ConcessionDiscount(base, rate)
           fee == service.fee
           toll == service.toll
<1>1. base \in Int /\ fee \in Nat /\ toll \in Nat
  OBVIOUS
<1>2. rate \in {0, 25, 100} /\ discount \in Int /\ 100 * discount - rate * base \in -49..50
  BY <1>1, ToTheNearestPaisa
<1>3. TotalPaise(service, fare, count, claim) = base - discount + fee * count + toll * count
  BY DEF TotalPaise
<1> HIDE DEF rate, discount, fee, toll
<1>4. count * (fare + fee + toll) = base + fee * count + toll * count
  BY <1>1
<1>5. fee * count \in Int /\ toll * count \in Int
  BY <1>1
<1> DEFINE fees == fee * count
           tolls == toll * count
<1>6. rate * count * fare = rate * base
  BY <1>2
<1> HIDE DEF base
<1>7. base - discount + fees + tolls \in Int
  BY <1>1, <1>2, <1>5
<1> HIDE DEF fees, tolls
<1>8. (base + fees + tolls) - (base - discount + fees + tolls) = discount
  BY <1>1, <1>2, <1>5 DEF fees, tolls
<1> QED
  BY <1>2, <1>3, <1>4, <1>6, <1>8 DEF rate, fee, toll, fees, tolls

-----------------------------------------------------------------------------

\* An id that was written is read back, whatever hyphens and dates the service has
\* in its own.
LEMMA IdsAreReadBack ==
    ASSUME NEW s, IsArray(s.id), s.id # <<>>, s.class \in SERVICE_CLASSES, NEW date
    PROVE  LET id == ReservedItemId(s, date) IN
           Matches(id) /\ ParseReservedItemId(id) = ServiceInfo(s, date)
<1> DEFINE day == <<"date", date>>
           class == ClassPart(s.class)
           T == Range(s.id) \cup {RSV, day, class}
           tail == <<day, class>>
           head == <<RSV>> \o s.id
           id == head \o tail
           n == Len(s.id)
<1>1. s.id \in Seq(T) /\ n \in Nat /\ n >= 1
  BY DEF IsArray
<1>2. class[1] \in {"letters", "digits"} /\ class[2] = s.class
  BY DEF ClassPart
<1>3. day[1] = "date" /\ day[2] = date
  OBVIOUS
<1>4. tail \in Seq(T) /\ Len(tail) = 2 /\ tail[1] = day /\ tail[2] = class
  OBVIOUS
<1> HIDE DEF day, class, T, tail
<1>5. <<RSV>> \in Seq(T)
  BY DEF T
<1> HIDE DEF n
<1>6. head \in Seq(T) /\ Len(head) = n + 1 /\ head[1] = RSV
      /\ \A i \in 1..n : head[i + 1] = s.id[i]
  BY <1>1, <1>5 DEF n
<1> HIDE DEF head
<1>7. /\ id \in Seq(T) /\ Len(id) = n + 3
      /\ \A i \in 1..(n + 1) : id[i] = head[i]
      /\ id[n + 2] = day /\ id[n + 3] = class
  <2>1. id \in Seq(T) /\ Len(id) = Len(head) + Len(tail)
    BY <1>4, <1>6, ConcatProperties
  <2>2. \A i \in 1..(Len(head) + Len(tail)) :
            id[i] = IF i <= Len(head) THEN head[i] ELSE tail[i - Len(head)]
    BY <1>4, <1>6, ConcatProperties
  <2> HIDE DEF id
  <2>3. ASSUME NEW i \in Nat, i > n + 1, i <= n + 3
        PROVE  id[i] = tail[i - (n + 1)]
    <3>1. i \in 1..(Len(head) + Len(tail)) /\ ~(i <= Len(head)) /\ Len(head) = n + 1
      BY <1>1, <1>4, <1>6, <2>3
    <3> HIDE DEF tail, head
    <3> QED
      BY <2>2, <3>1
  <2>4. id[n + 2] = tail[1] /\ id[n + 3] = tail[2]
    <3>1. n + 2 \in Nat /\ n + 3 \in Nat /\ (n + 2) - (n + 1) = 1 /\ (n + 3) - (n + 1) = 2
      BY <1>1
    <3>2. id[n + 2] = tail[(n + 2) - (n + 1)]
      BY <1>1, <2>3, <3>1
    <3>3. id[n + 3] = tail[(n + 3) - (n + 1)]
      BY <1>1, <2>3, <3>1
    <3> QED
      BY <3>1, <3>2, <3>3
  <2>5. \A i \in 1..(n + 1) : id[i] = head[i]
    BY <1>1, <1>4, <1>6, <2>2
  <2>6. Len(id) = n + 3
    BY <1>1, <1>4, <1>6, <2>1
  <2> QED
    BY <1>4, <2>1, <2>4, <2>5, <2>6
<1>8. id = ReservedItemId(s, date)
  BY DEF ReservedItemId, head, tail, day, class
<1> HIDE DEF id
<1>9. /\ Len(id) >= 4 /\ id[1] = RSV
      /\ Len(id) - 1 = n + 2 /\ Len(id) - 2 = n + 1 /\ id[Len(id) - 1] = day /\ id[Len(id)] = class
  BY <1>1, <1>6, <1>7
<1>10. Matches(id)
  BY <1>2, <1>3, <1>9 DEF Matches, ClassGroup
<1>11. SubSeq(id, 2, Len(id) - 2) = s.id
  <2> DEFINE sub == SubSeq(id, 2, n + 1)
  <2>1. sub \in Seq(T) /\ Len(sub) = n /\ \A i \in 1..n : sub[i] = id[i + 1]
    BY <1>1, <1>7
  <2>2. \A i \in 1..n : sub[i] = s.id[i]
    BY <1>1, <1>6, <1>7, <2>1
  <2> HIDE DEF sub
  <2>3. sub = s.id
    BY <1>1, <2>1, <2>2, SeqEqual DEF n
  <2> QED
    BY <1>9, <2>3 DEF sub
<1> QED
  BY <1>2, <1>3, <1>8, <1>9, <1>10, <1>11 DEF ParseReservedItemId, ServiceInfo

\* The item a search has answered names one service of the catalogue, and its id
\* is read as it was written.
LEMMA TheOfferedService ==
    ASSUME ValidReservedCatalogue(FixtureCatalogue), NEW c \in Sources, NEW p, OfferedBy(c, p)
    PROVE  LET s == Carried(Content(c).services, p.info.service) IN
           /\ s \in Range(Content(c).services) /\ s # None
           /\ s.class = p.info.class /\ p.info.date \in Int
           /\ Matches(p.item) /\ ParseReservedItemId(p.item) = p.info
           /\ RunsOn(s.pattern, p.info.date)
           /\ StopInstant(p.info.date, s.departure, 0) <= clock + HorizonDays * Day
           /\ WholeRun(c, s) # None /\ p.price = WholeRun(c, s).fare
           /\ p.stops = CatalogueStops(s, p.info.date)
<1> DEFINE services == Content(c).services
<1>1. PICK i \in DOMAIN services : OnSale(c, i, p.info.date) /\ Is(p, c, i)
  BY DEF OfferedBy
<1>2. c \in Catalogues \cup {Fixture} /\ ValidReservedCatalogue(Content(c))
  BY SourcesAreSound
<1>3. IsArray(services) /\ None \notin Range(services)
  BY <1>2, ListsOfACatalogue
<1>4. NoDuplicates(services)
  BY <1>2 DEF ValidReservedCatalogue
<1>5. services[i] \in Range(services)
  BY DEF Range
<1>6. /\ p.item = ReservedItemId(services[i], p.info.date)
      /\ p.info = ServiceInfo(services[i], p.info.date)
  BY <1>1 DEF Is
<1>7. p.info.service = services[i].id /\ p.info.class = services[i].class
  BY <1>6 DEF ServiceInfo
<1>r. Matches(p.item) /\ ParseReservedItemId(p.item) = p.info
  <2>1. IsArray(services[i].id) /\ services[i].id # <<>>
    BY <1>2, <1>5, ContentAssumption
  <2>2. services[i].class \in SERVICE_CLASSES
    BY <1>2, <1>5 DEF ValidReservedCatalogue, ServiceSound
  <2> HIDE DEF services
  <2> QED
    BY <1>6, <2>1, <2>2, IdsAreReadBack
<1> HIDE DEF services
<1>8. Carried(services, p.info.service) = services[i]
  BY <1>3, <1>4, <1>7, NoTwoAlike
<1>9. /\ p.info.date \in Int /\ RunsOn(services[i].pattern, p.info.date)
      /\ StopInstant(p.info.date, services[i].departure, 0) <= clock + HorizonDays * Day
  BY <1>1 DEF OnSale, services
<1>10. /\ WholeRun(c, services[i]) # None /\ p.price = WholeRun(c, services[i]).fare
       /\ p.stops = CatalogueStops(services[i], p.info.date)
  BY <1>1 DEF Is, services
<1> QED
  BY <1>3, <1>5, <1>7, <1>r, <1>8, <1>9, <1>10 DEF services

\* NamesPublishedStops and what PublishedIsSold asks of an order, of its record.
NamesStopsOf(x, p) ==
    \A end \in {<<x.in.stops.from, "BOARDING">>, <<x.in.stops.to, "DROPPING">>} :
        end[1] = None \/ \E s \in p.stops : s.stop.point = end[1] /\ end[2] \in s.roles

SoldAs(x, p, c) ==
    LET in == x.in
        count == IF in.seats = <<>> THEN in.count ELSE Len(in.seats)
        service == Carried(Content(c).services, p.info.service)
        off == count * (p.price + service.fee + service.toll) - x.total IN
    /\ x.failed \notin {"request", "service", "TOO_FAR"}
    /\ NamesStopsOf(x, p) => x.failed # "pair"
    /\ in.stops = [from |-> None, to |-> None] => x.failed # "cell"
    /\ (in.stops = [from |-> None, to |-> None] /\ x.answer = "OK") =>
          /\ 100 * off - ConcessionRatePercent(in.claim) * count * p.price \in -49..50
          /\ {x.stops.from, x.stops.to} \subseteq {s.stop : s \in p.stops}

\* Order y is answered as the one catalogue it has met offers its item.
Honest(y) ==
    y.pc = "done" /\ y.in.kind = "order" /\ y.in.provider =>
        \A c \in Sources : \A p :
            y.used \subseteq {c} /\ y.in.items = <<p.item>> /\ OfferedBy(c, p) => SoldAs(y, p, c)

\* How request y comes out of r.
Deal(y, r) ==
    /\ y.in = r.in /\ y.used = r.used /\ y.after = r.after
    /\ Searching(y) /\ Publishing(y) /\ Honest(y)

\* An answer.
LEMMA SettledFields ==
    ASSUME NEW r, Publishing(r), NEW answer, NEW failed
    PROVE  LET y == Settled(r, answer, failed) IN
           /\ y.pc = "done" /\ y.in = r.in /\ y.used = r.used /\ y.after = r.after
           /\ y.answer = answer /\ y.failed = failed
           /\ Searching(y) /\ Publishing(y)
<1> DEFINE y == Settled(r, answer, failed)
<1>1. /\ y.pc = "done" /\ y.in = r.in /\ y.used = r.used /\ y.after = r.after
      /\ y.answer = answer /\ y.failed = failed /\ y.items = r.items
  BY DEF Settled, NoRequest
<1> HIDE DEF y
<1>2. Searching(y) /\ Publishing(y)
  BY <1>1 DEF Searching, Publishing
<1> QED
  BY <1>1, <1>2 DEF y

\* A refusal that says nothing of what was published.
LEMMA RefusedElsewhere ==
    ASSUME NEW r, Publishing(r), NEW answer, answer # "OK",
           NEW failed \in {"seatMap", "fareTable", "count", "seats", "concession", "TOO_LATE"}
    PROVE  Deal(Settled(r, answer, failed), r)
<1> DEFINE y == Settled(r, answer, failed)
<1>1. /\ y.pc = "done" /\ y.in = r.in /\ y.used = r.used /\ y.after = r.after
      /\ y.answer = answer /\ y.failed = failed
      /\ Searching(y) /\ Publishing(y)
  BY SettledFields
<1> HIDE DEF y
<1>2. Honest(y)
  BY <1>1 DEF Honest, SoldAs
<1> QED
  BY <1>1, <1>2 DEF Deal, y

\* A further lookup.
LEMMA LookUpDeals ==
    ASSUME NEW r, DOMAIN r = Fields, NEW stage \in {"seatMap", "fareTable"},
           r.in \in Questions, Unusable(r.in) = None, Publishing(r),
           r.in.kind = "search" => \A i \in r.todo : OnSale(r.from, i, r.in.date)
    PROVE  Deal(LookUp(r, stage), r)
<1> DEFINE y == LookUp(r, stage)
<1>1. /\ y.pc = "ask" /\ y.stage = stage /\ y.in = r.in /\ y.used = r.used
      /\ y.after = r.after /\ y.items = r.items /\ y.from = r.from /\ y.todo = r.todo
  BY DEF LookUp, Fields
<1> HIDE DEF y
<1>2. Searching(y) /\ Publishing(y) /\ Honest(y)
  BY <1>1 DEF Searching, Publishing, Honest
<1> QED
  BY <1>1, <1>2 DEF Deal, y

\* The next candidate of a search.
LEMMA NextCandidateDeals ==
    ASSUME NEW r, DOMAIN r = Fields, r.in \in Questions, Unusable(r.in) = None, Publishing(r),
           r.in.kind = "search", \A i \in r.todo : OnSale(r.from, i, r.in.date)
    PROVE  Deal(NextCandidate(r), r)
<1>1. CASE r.todo = {}
  <2> DEFINE y == Settled(r, "OK", None)
  <2>1. /\ y.in = r.in /\ y.used = r.used /\ y.after = r.after
        /\ Searching(y) /\ Publishing(y)
    BY SettledFields
  <2>2. NextCandidate(r) = y
    BY <1>1 DEF NextCandidate
  <2> HIDE DEF y
  <2>3. Honest(y)
    BY <2>1 DEF Honest
  <2> QED
    BY <2>1, <2>2, <2>3 DEF Deal
<1>2. CASE r.todo # {}
  <2>1. Deal(LookUp(r, "seatMap"), r)
    BY LookUpDeals
  <2> QED
    BY <1>2, <2>1 DEF NextCandidate
<1> QED
  BY <1>1, <1>2

\* What the parsing has left of a request that is being served.
LEMMA UsableInputs ==
    ASSUME NEW i \in Questions, Unusable(i) = None
    PROVE  /\ i.kind = "search" => i.date \in Int
           /\ i.kind # "search" => /\ i.count \in Nat
                                   /\ i.seats # <<>> => Len(i.seats) \in Nat
<1>1. PICK r \in Requests : i \in Inputs[r]
  BY DEF Questions
<1>2. CASE i.kind = "search"
  <2>1. i.date \in Int \cup {None}
    BY <1>1, <1>2, InputAssumption
  <2>2. i.date # None
    <3>1. SUFFICES ASSUME i.date = None PROVE FALSE
      OBVIOUS
    <3>2. "TRAVEL-DATE-REQUIRED" = None
      BY <1>2, <3>1 DEF Unusable
    <3> QED
      BY <3>2, SourceAssumption
  <2> QED
    BY <1>2, <2>1, <2>2
<1>3. CASE i.kind # "search"
  <2>1. i.count \in Nat /\ IsArray(i.seats)
    BY <1>1, <1>3, InputAssumption
  <2> QED
    BY <1>3, <2>1, ArraysAreIndexed
<1> QED
  BY <1>2, <1>3

\* The services of a search: what is left of them is on sale.
LEMMA ServicesDeal ==
    ASSUME ValidReservedCatalogue(FixtureCatalogue), clock \in Nat,
           NEW r, NEW c \in Sources, DOMAIN r = Fields, r.in \in Questions,
           Unusable(r.in) = None, Publishing(r), r.in.kind = "search",
           r.now \in Nat, r.now <= clock
    PROVE  Deal(WithServices(r, c), r)
<1> DEFINE services == Content(c).services
           departs(i) == StopInstant(r.in.date, services[i].departure, 0)
           open == {i \in ServicesFor(Content(c), r.in) :
                       BookingWindowStatus(departs(i), r.now) = "OPEN"}
           y == [r EXCEPT !.from = c, !.now = 0, !.todo = open]
<1>1. r.in.date \in Int
  BY UsableInputs
<1>2. ASSUME NEW i \in open
      PROVE  OnSale(c, i, r.in.date)
  <2>1. i \in DOMAIN services /\ RunsOn(services[i].pattern, r.in.date)
    BY DEF ServicesFor
  <2>2. services[i].departure \in Nat
    <3>1. services[i] \in Range(services)
      BY <2>1 DEF Range
    <3> QED
      BY <3>1, ServiceFacts
  <2>3. departs(i) \in Int
    BY <1>1, <2>2, CalendarAssumption DEF StopInstant, Midnight
  <2>4. BookingWindowStatus(departs(i), r.now) = "OPEN"
    OBVIOUS
  <2> DEFINE at == departs(i)
             horizon == HorizonDays * Day
  <2>5. horizon \in Int
    BY CalendarAssumption
  <2>6. at <= r.now + horizon
    <3> HIDE DEF departs
    <3>1. ~(at > r.now + horizon)
      BY <2>4 DEF BookingWindowStatus
    <3> HIDE DEF at, horizon
    <3> QED
      BY <2>3, <2>5, <3>1 DEF at
  <2>7. at <= clock + horizon
    <3>1. at \in Int
      BY <2>3
    <3> HIDE DEF at, horizon
    <3> QED
      BY <2>5, <2>6, <3>1
  <2> QED
    BY <1>1, <2>1, <2>7 DEF OnSale
<1> HIDE DEF open
<1>3. /\ DOMAIN y = Fields /\ y.in = r.in /\ y.used = r.used /\ y.after = r.after
      /\ y.items = r.items /\ y.from = c /\ y.todo = open
  BY DEF Fields
<1>4. WithServices(r, c) = NextCandidate(y)
  BY DEF WithServices, open
<1> HIDE DEF y
<1>5. Publishing(y)
  BY <1>3 DEF Publishing
<1>6. Deal(NextCandidate(y), y)
  BY <1>2, <1>3, <1>5, NextCandidateDeals
<1> QED
  BY <1>3, <1>4, <1>6 DEF Deal

\* The service of an order: one that was offered is found, runs and is not too far
\* ahead.
LEMMA ServiceDeals ==
    ASSUME ValidReservedCatalogue(FixtureCatalogue), clock \in Nat,
           NEW r, NEW c \in Sources, DOMAIN r = Fields, r.in \in Questions,
           Unusable(r.in) = None, Publishing(r), r.in.kind # "search", c \in r.used
    PROVE  Deal(WithService(r, c), r)
<1> DEFINE item == Parsed(r)
           service == Carried(Content(c).services, item.service)
           window == BookingWindowStatus(StopInstant(item.date, service.departure, 0), clock)
           missing == service = None \/ service.class # item.class
                                     \/ ~RunsOn(service.pattern, item.date)
           unknown == Settled(r, "SERVICE-NOT-FOUND", "service")
           outside == Settled(r, "OUTSIDE-BOOKING-WINDOW", window)
           y == [r EXCEPT !.from = c]
<1>1. ASSUME NEW p, r.in.items = <<p.item>>,
             NEW d \in Sources, r.used \subseteq {d}, OfferedBy(d, p)
      PROVE  ~missing /\ window # "TOO_FAR"
  <2>1. d = c
    BY <1>1
  <2>2. OfferedBy(c, p)
    BY <1>1, <2>1
  <2>i. item = p.info
    BY <1>1, <2>2, TheOfferedService DEF Parsed
  <2>3. /\ service \in Range(Content(c).services) /\ service # None
        /\ service.class = item.class /\ item.date \in Int
        /\ RunsOn(service.pattern, item.date)
        /\ StopInstant(item.date, service.departure, 0) <= clock + HorizonDays * Day
    BY <1>1, <2>2, <2>i, TheOfferedService
  <2>4. service.departure \in Nat
    BY <2>3, ServiceFacts
  <2> DEFINE at == StopInstant(item.date, service.departure, 0)
             horizon == HorizonDays * Day
  <2>5. at \in Int /\ horizon \in Int
    BY <2>3, <2>4, CalendarAssumption DEF StopInstant, Midnight
  <2>6. at <= clock + horizon
    BY <2>3
  <2>7. window = BookingWindowStatus(at, clock)
    OBVIOUS
  <2> HIDE DEF service, item, window, at
  <2>8. ~(at > clock + horizon)
    <3> HIDE DEF horizon
    <3> QED
      BY <2>5, <2>6
  <2>9. window # "TOO_FAR"
    BY <2>7, <2>8 DEF BookingWindowStatus
  <2> QED
    BY <2>3, <2>9
<1>2. window \in {"OPEN", "TOO_LATE", "TOO_FAR"}
  BY DEF BookingWindowStatus
<1>3. /\ missing => WithService(r, c) = unknown
      /\ ~missing /\ window # "OPEN" => WithService(r, c) = outside
      /\ ~missing /\ window = "OPEN" => WithService(r, c) = LookUp(y, "seatMap")
  BY DEF WithService
<1>4. /\ unknown.pc = "done" /\ unknown.in = r.in /\ unknown.used = r.used
      /\ unknown.after = r.after
      /\ unknown.answer = "SERVICE-NOT-FOUND" /\ unknown.failed = "service"
      /\ Searching(unknown) /\ Publishing(unknown)
  BY SettledFields
<1>5. /\ outside.pc = "done" /\ outside.in = r.in /\ outside.used = r.used
      /\ outside.after = r.after
      /\ outside.answer = "OUTSIDE-BOOKING-WINDOW" /\ outside.failed = window
      /\ Searching(outside) /\ Publishing(outside)
  BY SettledFields
<1>6. /\ DOMAIN y = Fields /\ y.in = r.in /\ y.used = r.used /\ y.after = r.after
      /\ y.items = r.items
  BY DEF Fields
<1> HIDE DEF item, service, window, missing, unknown, outside, y
<1>7. CASE missing
  <2>1. Honest(unknown)
    BY <1>1, <1>4, <1>7 DEF Honest
  <2> QED
    BY <1>3, <1>4, <1>7, <2>1 DEF Deal
<1>8. CASE ~missing /\ window # "OPEN"
  <2>1. ASSUME outside.in.kind = "order", NEW d \in Sources, NEW p, outside.used \subseteq {d},
               outside.in.items = <<p.item>>, OfferedBy(d, p)
        PROVE  SoldAs(outside, p, d)
    <3>1. window = "TOO_LATE"
      BY <1>1, <1>2, <1>5, <1>8, <2>1
    <3> QED
      BY <1>5, <3>1 DEF SoldAs
  <2>2. Honest(outside)
    BY <2>1 DEF Honest
  <2> QED
    BY <1>3, <1>5, <1>8, <2>2 DEF Deal
<1>9. CASE ~missing /\ window = "OPEN"
  <2>1. Publishing(y)
    BY <1>6 DEF Publishing
  <2>2. Deal(LookUp(y, "seatMap"), y)
    BY <1>6, <2>1, LookUpDeals
  <2> QED
    BY <1>3, <1>6, <1>9, <2>2 DEF Deal
<1> QED
  BY <1>7, <1>8, <1>9

\* The seat map.
LEMMA SeatMapDeals ==
    ASSUME NEW r, NEW c, DOMAIN r = Fields, r.in \in Questions,
           Unusable(r.in) = None, Publishing(r),
           r.in.kind = "search" => \A i \in r.todo : OnSale(r.from, i, r.in.date)
    PROVE  Deal(WithSeatMap(r, c), r)
<1> DEFINE y == [r EXCEPT !.map = c]
<1>1. Deal(Settled(r, "SERVICE-NOT-FOUND", "seatMap"), r)
  BY RefusedElsewhere
<1>2. /\ DOMAIN y = Fields /\ y.in = r.in /\ y.used = r.used /\ y.after = r.after
      /\ y.items = r.items /\ y.from = r.from /\ y.todo = r.todo
  BY DEF Fields
<1>3. \/ WithSeatMap(r, c) = Settled(r, "SERVICE-NOT-FOUND", "seatMap")
      \/ WithSeatMap(r, c) = LookUp(y, "fareTable")
  BY DEF WithSeatMap
<1> HIDE DEF y
<1>4. Publishing(y)
  BY <1>2 DEF Publishing
<1>5. Deal(LookUp(y, "fareTable"), y)
  BY <1>2, <1>4, LookUpDeals
<1> QED
  BY <1>1, <1>2, <1>3, <1>5 DEF Deal

\* A candidate with a fare is published as the one catalogue it was met in offers it.
LEMMA PublishDeals ==
    ASSUME ValidReservedCatalogue(FixtureCatalogue),
           NEW r, NEW c \in r.used, DOMAIN r = Fields, r.in \in Questions,
           Unusable(r.in) = None, Publishing(r), r.in.kind = "search",
           r.used \subseteq Sources, Chosen(r), \A i \in r.todo : OnSale(r.from, i, r.in.date)
    PROVE  Deal(Publish(r, Carried(Content(c).fareTables, ServiceOf(r).fareTable)), r)
<1> DEFINE service == ServiceOf(r)
           table == Carried(Content(c).fareTables, service.fareTable)
           cell == FindFareCell(table, HeadlinePair(service), service.class)
           p == [item |-> ReservedItemId(service, r.in.date),
                 info |-> ServiceInfo(service, r.in.date),
                 price |-> cell.fare, stops |-> CatalogueStops(service, r.in.date)]
           first == Min(r.todo)
           items == IF cell = None THEN r.items ELSE r.items \cup {p}
           y == [r EXCEPT !.todo = @ \ {first}, !.items = items]
<1>1. /\ r.from \in r.used /\ r.todo # {}
      /\ r.todo \subseteq DOMAIN Content(r.from).services
  BY DEF Chosen
<1>2. first \in r.todo
  <2>1. r.from \in Catalogues \cup {Fixture}
    BY <1>1 DEF Sources, SoundCatalogues
  <2>2. DOMAIN Content(r.from).services \subseteq Nat
    BY <2>1, ListsOfACatalogue
  <2> QED
    BY <1>1, <2>2, FirstIndex
<1>3. service = Content(r.from).services[first]
  BY DEF ServiceOf
<1>4. ASSUME NEW d \in Sources, r.used \subseteq {d}, cell # None
      PROVE  OfferedBy(d, p)
  <2>1. r.from = d /\ c = d
    BY <1>1, <1>4
  <2>2. cell = WholeRun(d, service)
    BY <2>1 DEF WholeRun
  <2>3. /\ p.item = ReservedItemId(service, r.in.date) /\ p.price = cell.fare
        /\ p.info = ServiceInfo(service, r.in.date)
        /\ p.stops = CatalogueStops(service, r.in.date)
    OBVIOUS
  <2>4. p.info.date = r.in.date
    BY <2>3 DEF ServiceInfo
  <2>5. OnSale(d, first, p.info.date) /\ first \in DOMAIN Content(d).services
    BY <1>1, <1>2, <2>1, <2>4
  <2>6. service = Content(d).services[first]
    BY <1>3, <2>1
  <2> HIDE DEF p, cell, service, first
  <2>7. Is(p, d, first)
    BY <1>4, <2>2, <2>3, <2>4, <2>6 DEF Is
  <2> QED
    BY <2>5, <2>7 DEF OfferedBy
<1>5. Publish(r, table) = NextCandidate(y)
  BY DEF Publish
<1> HIDE DEF p, cell, first
<1>6. \A q \in items : q \in r.items \/ (q = p /\ cell # None)
  OBVIOUS
<1> HIDE DEF items
<1>7. /\ DOMAIN y = Fields /\ y.in = r.in /\ y.used = r.used /\ y.after = r.after
      /\ y.from = r.from /\ y.todo = r.todo \ {first} /\ y.items = items
  BY DEF Fields
<1> HIDE DEF y
<1>8. Publishing(y)
  <2>1. ASSUME NEW d \in Sources, y.used \subseteq {d}, NEW q \in y.items
        PROVE  OfferedBy(d, q)
    <3>1. CASE q \in r.items
      BY <1>7, <2>1, <3>1 DEF Publishing
    <3>2. CASE q = p /\ cell # None
      BY <1>4, <1>7, <2>1, <3>2
    <3> QED
      BY <1>6, <1>7, <2>1, <3>1, <3>2
  <2> QED
    BY <2>1 DEF Publishing
<1>9. Deal(NextCandidate(y), y)
  BY <1>7, <1>8, NextCandidateDeals
<1> QED
  BY <1>5, <1>7, <1>9 DEF Deal

\* Published stops are served, and so are the ends of the whole run.
LEMMA PublishedStopsServe ==
    ASSUME NEW service, NEW date, NEW x, NEW p,
           service.boarding \in Seq(Range(service.boarding)), service.boarding # <<>>,
           service.dropping \in Seq(Range(service.dropping)), service.dropping # <<>>,
           p.stops = CatalogueStops(service, date), NamesStopsOf(x, p)
    PROVE  Serves(service, BoardingPairFromStops(service, x.in.stops))
<1> DEFINE pair == BoardingPairFromStops(service, x.in.stops)
<1>1. /\ Head(service.boarding).id \in Ids(service.boarding)
      /\ service.dropping[Len(service.dropping)].id \in Ids(service.dropping)
  BY EndsOfAList
<1>2. ASSUME NEW s \in p.stops
      PROVE  s.roles = Roles(service, s.stop.point)
  <2>1. PICK id \in Ids(service.boarding \o service.dropping) :
           s = [stop |-> PublishedStop(service, date, id), roles |-> Roles(service, id)]
    BY DEF CatalogueStops
  <2>2. s.stop = PublishedStop(service, date, id) /\ s.roles = Roles(service, id)
    BY <2>1
  <2> QED
    BY <2>2 DEF PublishedStop
<1>3. pair.from \in Ids(service.boarding)
  <2>1. CASE x.in.stops.from = None
    BY <1>1, <2>1 DEF BoardingPairFromStops
  <2>2. CASE x.in.stops.from # None
    <3> DEFINE end == <<x.in.stops.from, "BOARDING">>
    <3>1. end[1] = None \/ \E s \in p.stops : s.stop.point = end[1] /\ end[2] \in s.roles
      BY DEF NamesStopsOf
    <3>2. PICK s \in p.stops : s.stop.point = x.in.stops.from /\ "BOARDING" \in s.roles
      BY <2>2, <3>1
    <3>3. "BOARDING" \in Roles(service, x.in.stops.from)
      BY <1>2, <3>2
    <3>4. x.in.stops.from \in Ids(service.boarding)
      BY <3>3 DEF Roles
    <3> QED
      BY <2>2, <3>4 DEF BoardingPairFromStops
  <2> QED
    BY <2>1, <2>2
<1>4. pair.to \in Ids(service.dropping)
  <2>1. CASE x.in.stops.to = None
    BY <1>1, <2>1 DEF BoardingPairFromStops
  <2>2. CASE x.in.stops.to # None
    <3> DEFINE end == <<x.in.stops.to, "DROPPING">>
    <3>1. end[1] = None \/ \E s \in p.stops : s.stop.point = end[1] /\ end[2] \in s.roles
      BY DEF NamesStopsOf
    <3>2. PICK s \in p.stops : s.stop.point = x.in.stops.to /\ "DROPPING" \in s.roles
      BY <2>2, <3>1
    <3>3. "DROPPING" \in Roles(service, x.in.stops.to)
      BY <1>2, <3>2
    <3>4. x.in.stops.to \in Ids(service.dropping)
      BY <3>3 DEF Roles
    <3> QED
      BY <2>2, <3>4 DEF BoardingPairFromStops
  <2> QED
    BY <2>1, <2>2
<1> QED
  BY <1>3, <1>4 DEF Serves

\* The ends of the whole run are among the published stops.
LEMMA EndsArePublished ==
    ASSUME NEW service, NEW date, NEW p,
           service.boarding \in Seq(Range(service.boarding)), service.boarding # <<>>,
           service.dropping \in Seq(Range(service.dropping)), service.dropping # <<>>,
           p.stops = CatalogueStops(service, date)
    PROVE  LET stops == OrderStops(service, date, HeadlinePair(service)) IN
           {stops.from, stops.to} \subseteq {s.stop : s \in p.stops}
<1> DEFINE ids == Ids(service.boarding \o service.dropping)
           pair == HeadlinePair(service)
           stops == OrderStops(service, date, pair)
<1>1. pair.from \in ids /\ pair.to \in ids
  <2>1. /\ Head(service.boarding).id \in Ids(service.boarding)
        /\ service.dropping[Len(service.dropping)].id \in Ids(service.dropping)
    BY EndsOfAList
  <2>2. Ids(service.boarding) \subseteq ids /\ Ids(service.dropping) \subseteq ids
    BY IdsOfTwoLists
  <2> QED
    BY <2>1, <2>2 DEF HeadlinePair
<1>2. ASSUME NEW id \in ids
      PROVE  PublishedStop(service, date, id) \in {s.stop : s \in p.stops}
  <2> DEFINE s == [stop |-> PublishedStop(service, date, id), roles |-> Roles(service, id)]
  <2>1. s \in p.stops
    BY DEF CatalogueStops
  <2>2. s.stop = PublishedStop(service, date, id)
    OBVIOUS
  <2> QED
    BY <2>1, <2>2
<1>3. /\ stops.from = PublishedStop(service, date, pair.from)
      /\ stops.to = PublishedStop(service, date, pair.to)
  BY DEF OrderStops
<1> HIDE DEF pair, stops, ids
<1> QED
  BY <1>1, <1>2, <1>3 DEF stops, pair

\* A claim is refused for one of two reasons.
LEMMA RefusalsAreTwo ==
    ASSUME NEW claim, NEW class, ConcessionRefusal(claim, class) # None
    PROVE  ConcessionRefusal(claim, class) \in
              {"CONCESSION-RATE-NOT-PUBLISHED", "CONCESSION-NOT-APPLICABLE"}
BY DEF ConcessionRefusal

\* An order that has met one catalogue is checked and priced as that one offers it.
LEMMA PriceDeals ==
    ASSUME ValidReservedCatalogue(FixtureCatalogue),
           NEW r, NEW c \in r.used, r.in \in Questions, Unusable(r.in) = None, Publishing(r),
           r.in.kind # "search", r.used \subseteq Sources, Chosen(r)
    PROVE  Deal(Price(r, Carried(Content(c).fareTables, ServiceOf(r).fareTable)), r)
<1> DEFINE service == ServiceOf(r)
           table == Carried(Content(c).fareTables, service.fareTable)
           pair == BoardingPairFromStops(service, r.in.stops)
           cell == FindFareCell(table, pair, service.class)
           count == IF r.in.seats = <<>> THEN r.in.count ELSE Len(r.in.seats)
           refusal == ConcessionRefusal(r.in.claim, service.class)
           total == TotalPaise(service, cell.fare, count, r.in.claim)
           stops == OrderStops(service, Parsed(r).date, pair)
           noPair == Settled(r, "FARE-NOT-PUBLISHED", "pair")
           noCell == Settled(r, "FARE-NOT-PUBLISHED", "cell")
           ok == [Settled(r, "OK", None) EXCEPT !.total = total, !.stops = stops]
           whole == r.in.stops = [from |-> None, to |-> None]
<1>1. \/ Price(r, table) = Settled(r, "SEAT-COUNT-MISMATCH", "count")
      \/ ~Serves(service, pair) /\ Price(r, table) = noPair
      \/ cell = None /\ Price(r, table) = noCell
      \/ Price(r, table) = Settled(r, "SEAT-NOT-ON-MAP", "seats")
      \/ refusal # None /\ Price(r, table) = Settled(r, refusal, "concession")
      \/ cell # None /\ Price(r, table) = ok
  BY DEF Price
<1>2. /\ Deal(Settled(r, "SEAT-COUNT-MISMATCH", "count"), r)
      /\ Deal(Settled(r, "SEAT-NOT-ON-MAP", "seats"), r)
  BY RefusedElsewhere
<1>3. refusal # None => Deal(Settled(r, refusal, "concession"), r)
  <2>1. refusal # None => refusal # "OK"
    BY RefusalsAreTwo
  <2> HIDE DEF refusal
  <2> QED
    BY <2>1, RefusedElsewhere
<1>4. count \in Nat
  BY UsableInputs
\* What the one catalogue offers.
<1>5. ASSUME NEW d \in Sources, NEW p, r.used \subseteq {d}, r.in.items = <<p.item>>, OfferedBy(d, p)
      PROVE  /\ Parsed(r) = p.info
             /\ service = Carried(Content(d).services, p.info.service)
             /\ service.fee \in Nat /\ service.toll \in Nat
             /\ service.boarding \in Seq(Range(service.boarding)) /\ service.boarding # <<>>
             /\ service.dropping \in Seq(Range(service.dropping)) /\ service.dropping # <<>>
             /\ p.stops = CatalogueStops(service, p.info.date)
             /\ whole => /\ pair = HeadlinePair(service)
                         /\ cell # None /\ cell.fare = p.price /\ p.price \in Nat
  <2>1. r.from = d /\ c = d
    BY <1>5 DEF Chosen
  <2>i. Parsed(r) = p.info
    BY <1>5, TheOfferedService DEF Parsed
  <2>2. service = Carried(Content(d).services, p.info.service)
    BY <1>5, <2>1, <2>i DEF ServiceOf
  <2> HIDE DEF service
  <2>3. /\ service \in Range(Content(d).services)
        /\ WholeRun(d, service) # None /\ p.price = WholeRun(d, service).fare
        /\ p.stops = CatalogueStops(service, p.info.date)
    BY <1>5, <2>2, TheOfferedService
  <2>4. /\ service.fee \in Nat /\ service.toll \in Nat
        /\ service.boarding \in Seq(Range(service.boarding)) /\ service.boarding # <<>>
        /\ service.dropping \in Seq(Range(service.dropping)) /\ service.dropping # <<>>
    BY <2>3, ServiceFacts
  <2>5. whole => pair = HeadlinePair(service)
    BY DEF BoardingPairFromStops, HeadlinePair
  <2>6. WholeRun(d, service).fare \in Nat
    BY <2>3, FareIsWhole
  <2>7. whole => cell = WholeRun(d, service)
    BY <2>1, <2>5 DEF WholeRun
  <2> QED
    BY <2>i, <2>2, <2>3, <2>4, <2>5, <2>6, <2>7
<1>6. ASSUME ~Serves(service, pair)
      PROVE  Deal(noPair, r)
  <2>1. /\ noPair.in = r.in /\ noPair.used = r.used /\ noPair.after = r.after
        /\ noPair.answer = "FARE-NOT-PUBLISHED" /\ noPair.failed = "pair"
        /\ Searching(noPair) /\ Publishing(noPair)
    BY SettledFields
  <2> HIDE DEF noPair
  <2>2. ASSUME NEW d \in Sources, NEW p, noPair.used \subseteq {d}, noPair.in.items = <<p.item>>,
               OfferedBy(d, p)
        PROVE  SoldAs(noPair, p, d)
    <3>1. /\ service.boarding \in Seq(Range(service.boarding)) /\ service.boarding # <<>>
          /\ service.dropping \in Seq(Range(service.dropping)) /\ service.dropping # <<>>
          /\ p.stops = CatalogueStops(service, p.info.date)
      BY <1>5, <2>1, <2>2
    <3>2. pair = BoardingPairFromStops(service, noPair.in.stops)
      BY <2>1
    <3> HIDE DEF service, pair
    <3>3. ~NamesStopsOf(noPair, p)
      BY <1>6, <3>1, <3>2, PublishedStopsServe
    <3> QED
      BY <2>1, <3>3 DEF SoldAs
  <2>3. Honest(noPair)
    BY <2>2 DEF Honest
  <2> QED
    BY <2>1, <2>3 DEF Deal
<1>7. ASSUME cell = None
      PROVE  Deal(noCell, r)
  <2>1. /\ noCell.in = r.in /\ noCell.used = r.used /\ noCell.after = r.after
        /\ noCell.answer = "FARE-NOT-PUBLISHED" /\ noCell.failed = "cell"
        /\ Searching(noCell) /\ Publishing(noCell)
    BY SettledFields
  <2> HIDE DEF noCell
  <2>2. ASSUME NEW d \in Sources, NEW p, noCell.used \subseteq {d}, noCell.in.items = <<p.item>>,
               OfferedBy(d, p)
        PROVE  SoldAs(noCell, p, d)
    <3>1. ~whole
      BY <1>5, <1>7, <2>1, <2>2
    <3> QED
      BY <2>1, <3>1 DEF SoldAs
  <2>3. Honest(noCell)
    BY <2>2 DEF Honest
  <2> QED
    BY <2>1, <2>3 DEF Deal
<1>8. ASSUME cell # None
      PROVE  Deal(ok, r)
  <2> HIDE DEF total, stops
  <2>1. /\ ok.in = r.in /\ ok.used = r.used /\ ok.after = r.after /\ ok.items = r.items
        /\ ok.pc = "done" /\ ok.answer = "OK" /\ ok.failed = None
        /\ ok.total = total /\ ok.stops = stops
    BY DEF Settled, NoRequest
  <2> HIDE DEF ok
  <2>2. Searching(ok) /\ Publishing(ok)
    BY <2>1 DEF Searching, Publishing
  <2>3. ASSUME NEW d \in Sources, NEW p, ok.used \subseteq {d}, ok.in.items = <<p.item>>,
               OfferedBy(d, p)
        PROVE  SoldAs(ok, p, d)
    <3>1. /\ Parsed(r) = p.info
          /\ service = Carried(Content(d).services, p.info.service)
          /\ service.fee \in Nat /\ service.toll \in Nat
          /\ service.boarding \in Seq(Range(service.boarding)) /\ service.boarding # <<>>
          /\ service.dropping \in Seq(Range(service.dropping)) /\ service.dropping # <<>>
          /\ p.stops = CatalogueStops(service, p.info.date)
          /\ whole => /\ pair = HeadlinePair(service)
                      /\ cell # None /\ cell.fare = p.price /\ p.price \in Nat
      BY <1>5, <2>1, <2>3
    <3> HIDE DEF service, pair, cell
    <3>4. ASSUME whole
          PROVE  LET off == count * (p.price + service.fee + service.toll) - total IN
                 100 * off - ConcessionRatePercent(r.in.claim) * count * p.price \in -49..50
      <4>1. total = TotalPaise(service, p.price, count, r.in.claim)
        BY <3>1, <3>4 DEF total
      <4> HIDE DEF count, whole
      <4> QED
        BY <1>4, <3>1, <3>4, <4>1, PriceAsPublished
    <3>5. ASSUME whole
          PROVE  {stops.from, stops.to} \subseteq {s.stop : s \in p.stops}
      <4>1. stops = OrderStops(service, p.info.date, HeadlinePair(service))
        BY <3>1, <3>5 DEF stops
      <4> QED
        BY <3>1, <4>1, EndsArePublished
    <3>6. ok.failed \notin {"request", "service", "TOO_FAR", "pair", "cell"}
      BY <2>1, SourceAssumption
    <3>7. count = IF ok.in.seats = <<>> THEN ok.in.count ELSE Len(ok.in.seats)
      BY <2>1
    <3> HIDE DEF count
    <3> QED
      BY <2>1, <3>1, <3>4, <3>5, <3>6, <3>7 DEF SoldAs
  <2>4. Honest(ok)
    BY <2>3 DEF Honest
  <2> QED
    BY <2>1, <2>2, <2>4 DEF Deal
<1> HIDE DEF service, pair, cell, refusal, noPair, noCell, ok, table
<1>9. Deal(Price(r, table), r)
  BY <1>1, <1>2, <1>3, <1>6, <1>7, <1>8
<1> QED
  BY <1>9 DEF table, service

\* The fare table.
LEMMA FareTableDeals ==
    ASSUME ValidReservedCatalogue(FixtureCatalogue),
           NEW r, NEW c \in r.used, DOMAIN r = Fields, r.in \in Questions,
           Unusable(r.in) = None, Publishing(r), r.used \subseteq Sources, Chosen(r),
           r.in.kind = "search" => \A i \in r.todo : OnSale(r.from, i, r.in.date)
    PROVE  Deal(WithFareTable(r, c), r)
<1> DEFINE table == Carried(Content(c).fareTables, ServiceOf(r).fareTable)
<1>1. Deal(Settled(r, "FARE-NOT-PUBLISHED", "fareTable"), r)
  BY RefusedElsewhere
<1>2. r.in.kind = "search" => Deal(Publish(r, table), r)
  BY PublishDeals
<1>3. r.in.kind # "search" => Deal(Price(r, table), r)
  BY PriceDeals
<1>4. \/ WithFareTable(r, c) = Settled(r, "FARE-NOT-PUBLISHED", "fareTable")
      \/ r.in.kind = "search" /\ WithFareTable(r, c) = Publish(r, table)
      \/ r.in.kind # "search" /\ WithFareTable(r, c) = Price(r, table)
  BY DEF WithFareTable
<1> HIDE DEF table
<1> QED
  BY <1>1, <1>2, <1>3, <1>4

-----------------------------------------------------------------------------

\* A lookup that is answered.
LEMMA ServeDeals ==
    ASSUME SourceInv, SaleInv, NEW id \in Requests, req[id].pc \in {"ask", "fetch"},
           NEW c \in Sources, Serve(id, c)
    PROVE  \E y : /\ req' = [req EXCEPT ![id] = y]
                  /\ y.after = req[id].after
                  /\ Searching(y) /\ Publishing(y) /\ Honest(y)
<1> DEFINE x == req[id]
           r == [x EXCEPT !.used = @ \cup {c}]
<1>1. /\ ValidReservedCatalogue(FixtureCatalogue) /\ clock \in Nat
      /\ Sound(x) /\ Searching(x) /\ Publishing(x)
  BY DEF SourceInv, SaleInv, Dataset
<1>2. /\ DOMAIN r = Fields /\ r.used = x.used \cup {c} /\ r.stage = x.stage
      /\ r.in = x.in /\ r.from = x.from /\ r.todo = x.todo /\ r.now = x.now
      /\ r.after = x.after /\ r.items = x.items
  BY <1>1 DEF Sound, Fields
<1>3. req' = [req EXCEPT ![id] =
                CASE r.stage = "services" -> WithServices(r, c)
                  [] r.stage = "service" -> WithService(r, c)
                  [] r.stage = "seatMap" -> WithSeatMap(r, c)
                  [] r.stage = "fareTable" -> WithFareTable(r, c)]
  BY DEF Serve
<1>4. x.pc \in {"ask", "fetch"}
  OBVIOUS
<1> HIDE DEF r, x
<1>5. /\ r.in \in Questions /\ Unusable(r.in) = None
      /\ r.stage \in Stages /\ r.used \subseteq Sources /\ c \in r.used
  BY <1>1, <1>2, <1>4 DEF Searching, Sound
<1>6. Publishing(r)
  BY <1>1, <1>2 DEF Publishing
<1>7. CASE r.stage = "services"
  <2>1. r.in.kind = "search" /\ r.now \in Nat /\ r.now <= clock
    BY <1>1, <1>2, <1>4, <1>7 DEF Sound, AtItsFirst, Searching
  <2>2. Deal(WithServices(r, c), r)
    BY <1>1, <1>2, <1>5, <1>6, <2>1, ServicesDeal
  <2> QED
    BY <1>2, <1>3, <1>7, <2>2 DEF Deal, x
<1>8. CASE r.stage = "service"
  <2>1. r.in.kind # "search"
    BY <1>1, <1>2, <1>4, <1>8 DEF Sound, AtItsFirst
  <2>2. Deal(WithService(r, c), r)
    BY <1>1, <1>2, <1>5, <1>6, <2>1, ServiceDeals
  <2> QED
    BY <1>2, <1>3, <1>8, <2>2 DEF Deal, x
<1>9. ASSUME r.stage \in {"seatMap", "fareTable"}
      PROVE  /\ Chosen(r)
             /\ r.in.kind = "search" => \A i \in r.todo : OnSale(r.from, i, r.in.date)
  <2>1. Chosen(x)
    BY <1>1, <1>2, <1>4, <1>9 DEF Sound
  <2> QED
    BY <1>1, <1>2, <1>4, <1>9, <2>1 DEF Searching, Chosen, Parsed
<1>10. CASE r.stage = "seatMap"
  <2>1. Deal(WithSeatMap(r, c), r)
    BY <1>2, <1>5, <1>6, <1>9, <1>10, SeatMapDeals
  <2> QED
    BY <1>2, <1>3, <1>10, <2>1 DEF Deal, x
<1>11. CASE r.stage = "fareTable"
  <2>1. Deal(WithFareTable(r, c), r)
    BY <1>1, <1>2, <1>5, <1>6, <1>9, <1>11, FareTableDeals
  <2> QED
    BY <1>2, <1>3, <1>11, <2>1 DEF Deal, x
<1> QED
  BY <1>5, <1>7, <1>8, <1>10, <1>11 DEF Stages

\* One request moves on: what was answered before stays as it was.
LEMMA OneRequestDeals ==
    ASSUME SourceInv, SaleInv, NEW id \in Requests, req[id].pc # "done", NEW y,
           req' = [req EXCEPT ![id] = y], clock' = clock,
           y.after \subseteq {f \in Requests : req[f].pc = "done"},
           Searching(y), Publishing(y), Honest(y)
    PROVE  SaleInv'
<1>1. /\ DOMAIN req = Requests /\ req'[id] = y
      /\ \A q \in Requests \ {id} : req'[q] = req[q]
  BY DEF SourceInv
<1>2. \A f \in Requests : req[f].pc = "done" => f # id /\ req'[f] = req[f]
  BY <1>1
<1>3. ASSUME NEW q \in Requests
      PROVE  /\ (Searching(req[q]) /\ Publishing(req[q]))'
             /\ req'[q].after \subseteq {f \in Requests : req[f].pc = "done"}
  <2>1. CASE q = id
    BY <1>1, <2>1 DEF Searching, Publishing, OfferedBy, OnSale
  <2>2. CASE q # id
    <3>1. /\ req'[q] = req[q] /\ Searching(req[q]) /\ Publishing(req[q])
          /\ req[q].after \subseteq {f \in Requests : req[f].pc = "done"}
      BY <1>1, <2>2 DEF SaleInv
    <3> QED
      BY <3>1 DEF Searching, Publishing, OfferedBy, OnSale
  <2> QED
    BY <2>1, <2>2
<1>4. \A q \in Requests : req'[q].after \subseteq {f \in Requests : req'[f].pc = "done"}
  BY <1>2, <1>3
<1>5. ASSUME NEW q \in Requests, NEW f \in Requests, NEW p \in req'[f].items,
             Follows(q, f, p)'
      PROVE  SoldAs(req'[q], p, CHOOSE c \in req'[f].used : TRUE)
  <2>1. f \in req'[q].after
    BY <1>5 DEF Follows
  <2>2. f # id /\ req'[f] = req[f] /\ f \in Requests
    BY <1>2, <1>3, <2>1
  <2>3. CASE q # id
    <3>1. req'[q] = req[q]
      BY <1>1, <2>3
    <3>2. Follows(q, f, p) /\ p \in req[f].items
      BY <1>5, <2>2, <3>1 DEF Follows
    <3>3. SoldAs(req[q], p, CHOOSE c \in req[f].used : TRUE)
      BY <3>2 DEF SaleInv, PublishedIsSold, SoldAs, NamesPublishedStops, NamesStopsOf
    <3> QED
      BY <2>2, <3>1, <3>3
  <2>4. CASE q = id
    <3>1. req'[q] = y
      BY <1>1, <2>4
    <3>2. /\ y.pc = "done" /\ y.in.kind = "order" /\ y.in.provider
          /\ y.in.items = <<p.item>> /\ y.used \subseteq req[f].used
          /\ Cardinality(req[f].used) = 1
      BY <1>5, <2>2, <3>1 DEF Follows
    <3>3. req[f].used \subseteq Sources /\ IsFiniteSet(req[f].used)
      BY DEF SourceInv, Sound
    <3>4. PICK d : req[f].used = {d}
      BY <3>2, <3>3, FS_Singleton
    <3>5. d \in Sources /\ OfferedBy(d, p)
      <4>1. d \in Sources
        BY <3>2, <3>3, <3>4
      <4>2. Publishing(req[f]) /\ p \in req[f].items /\ req[f].used \subseteq {d}
        BY <2>2, <3>2, <3>4 DEF SaleInv
      <4> QED
        BY <4>1, <4>2 DEF Publishing
    <3>6. SoldAs(y, p, d)
      BY <3>2, <3>4, <3>5 DEF Honest
    <3>7. (CHOOSE c \in req'[f].used : TRUE) = d
      BY <2>2, <3>4
    <3> QED
      BY <3>1, <3>6, <3>7
  <2> QED
    BY <2>3, <2>4
<1>6. PublishedIsSold'
  BY <1>5 DEF PublishedIsSold, SoldAs, NamesPublishedStops, NamesStopsOf
<1> QED
  BY <1>3, <1>4, <1>6 DEF SaleInv

\* A lookup that is answered keeps the invariant.
LEMMA ServeKeepsSale ==
    ASSUME SourceInv, SaleInv, NEW id \in Requests, req[id].pc \in {"ask", "fetch"},
           NEW c \in Sources, Serve(id, c), clock' = clock
    PROVE  SaleInv'
<1>1. PICK y : /\ req' = [req EXCEPT ![id] = y]
               /\ y.after = req[id].after
               /\ Searching(y) /\ Publishing(y) /\ Honest(y)
  BY ServeDeals
<1>2. y.after \subseteq {f \in Requests : req[f].pc = "done"}
  BY <1>1 DEF SaleInv
<1>3. req[id].pc # "done"
  OBVIOUS
<1> QED
  BY <1>1, <1>2, <1>3, OneRequestDeals

LEMMA StillAhead ==
    ASSUME NEW at \in Int, NEW horizon \in Int, NEW now \in Int, NEW later \in Int,
           at <= now + horizon, now <= later
    PROVE  at <= later + horizon
OBVIOUS

\* What is on sale stays so as time passes.
LEMMA StaysOnSale ==
    ASSUME ValidReservedCatalogue(FixtureCatalogue), clock \in Nat, clock' \in Nat,
           clock <= clock', NEW c \in Sources, NEW i, NEW date, OnSale(c, i, date)
    PROVE  OnSale(c, i, date)'
<1> DEFINE departure == Content(c).services[i].departure
           at == StopInstant(date, departure, 0)
           horizon == HorizonDays * Day
<1>1. i \in DOMAIN Content(c).services /\ date \in Int /\ at <= clock + horizon
  BY DEF OnSale
<1>2. departure \in Nat
  <2>1. Content(c).services[i] \in Range(Content(c).services)
    BY <1>1 DEF Range
  <2> QED
    BY <2>1, ServiceFacts
<1>3. at \in Int /\ horizon \in Int
  BY <1>1, <1>2, CalendarAssumption DEF StopInstant, Midnight
<1>4. at <= clock' + horizon
  <2>1. clock \in Int /\ clock' \in Int /\ clock <= clock' /\ at <= clock + horizon
    BY <1>1
  <2> HIDE DEF at, horizon
  <2> QED
    BY <1>3, <2>1, StillAhead
<1> QED
  BY <1>1, <1>4 DEF OnSale

\* A step of the clock or of the dataset.
LEMMA TimeKeepsSale ==
    ASSUME SourceInv, SaleInv, req' = req, clock' \in Nat, clock <= clock'
    PROVE  SaleInv'
<1>1. ValidReservedCatalogue(FixtureCatalogue) /\ clock \in Nat
  BY DEF SourceInv, Dataset
<1>2. \A c \in Sources : \A i, date : OnSale(c, i, date) => OnSale(c, i, date)'
  BY <1>1, StaysOnSale
<1>3. \A c \in Sources : \A p : OfferedBy(c, p) => OfferedBy(c, p)'
  BY <1>2 DEF OfferedBy, Is
<1>4. ASSUME NEW r \in Requests
      PROVE  (Searching(req[r]) /\ Publishing(req[r]))'
  <2> DEFINE x == req[r]
  <2>1. Sound(x) /\ Searching(x) /\ Publishing(x)
    BY DEF SourceInv, SaleInv
  <2>2. x' = x
    OBVIOUS
  <2> HIDE DEF x
  <2>3. Publishing(x)'
    BY <1>3, <2>1, <2>2 DEF Publishing
  <2>4. Searching(x)'
    <3>1. ASSUME x.pc \in {"ask", "fetch"}, x.stage \in {"seatMap", "fareTable"}
          PROVE  x.from \in Sources
      BY <2>1, <3>1 DEF Sound, Chosen
    <3>2. ASSUME x.now \in Nat, x.now <= clock
          PROVE  x.now <= clock'
      BY <1>1, <3>2
    <3> QED
      BY <1>2, <2>1, <2>2, <3>1, <3>2 DEF Searching
  <2> QED
    BY <2>3, <2>4 DEF x
<1>5. PublishedIsSold'
  <2>1. ASSUME NEW q \in Requests, NEW f \in Requests, NEW p \in req'[f].items,
               Follows(q, f, p)'
        PROVE  SoldAs(req'[q], p, CHOOSE c \in req'[f].used : TRUE)
    <3>1. Follows(q, f, p) /\ p \in req[f].items
      BY <2>1 DEF Follows
    <3>2. SoldAs(req[q], p, CHOOSE c \in req[f].used : TRUE)
      BY <3>1 DEF SaleInv, PublishedIsSold, SoldAs, NamesPublishedStops, NamesStopsOf
    <3> QED
      BY <3>2
  <2> QED
    BY <2>1 DEF PublishedIsSold, SoldAs, NamesPublishedStops, NamesStopsOf
<1> QED
  BY <1>4, <1>5 DEF SaleInv

\* Nothing has been asked.
LEMMA InitHasSaleInv == Init => SaleInv
<1> SUFFICES ASSUME Init PROVE SaleInv
  OBVIOUS
<1>1. ASSUME NEW r \in Requests
      PROVE  req[r].pc = "idle" /\ req[r].items = {} /\ req[r].after = {}
  BY DEF Init, NoRequest
<1>2. PublishedIsSold
  BY <1>1 DEF PublishedIsSold
<1> QED
  BY <1>1, <1>2 DEF SaleInv, Searching, Publishing

\* A request arrives.
LEMMA ArriveKeepsSale ==
    ASSUME SourceInv, SaleInv, NEW r \in Requests, NEW i \in Inputs[r], Arrive(r, i)
    PROVE  SaleInv'
<1> DEFINE now == IF i.kind = "search" THEN clock ELSE 0
           after == {f \in Requests : req[f].pc = "done"}
           fresh == [NoRequest EXCEPT !.in = i, !.now = now, !.after = after]
           first == IF i.kind = "search" THEN "services" ELSE "service"
           refused == Settled(fresh, Unusable(i), "request")
           asking == LookUp(fresh, first)
<1>1. /\ req[r].pc # "done" /\ clock' = clock
      /\ req' = [req EXCEPT ![r] = IF Unusable(i) # None THEN refused ELSE asking]
  BY DEF Arrive
<1>2. clock \in Nat /\ now \in Nat /\ now <= clock /\ first \in {"services", "service"}
      /\ ValidReservedCatalogue(FixtureCatalogue)
  BY DEF SourceInv, Dataset
<1>3. i \in Questions
  BY DEF Questions
<1> HIDE DEF now, after
<1>4. /\ DOMAIN fresh = Fields /\ fresh.in = i /\ fresh.now = now /\ fresh.after = after
      /\ fresh.items = {}
  BY DEF NoRequest, Fields
<1> HIDE DEF fresh, first
<1>5. Publishing(fresh)
  BY <1>4 DEF Publishing
<1>6. CASE Unusable(i) # None
  <2>1. /\ refused.pc = "done" /\ refused.after = after /\ refused.in = i
        /\ Searching(refused) /\ Publishing(refused)
    BY <1>4, <1>5, SettledFields
  <2> HIDE DEF refused
  <2>2. ASSUME i.kind = "order", i.provider, NEW c \in Sources, NEW p, i.items = <<p.item>>,
               OfferedBy(c, p)
        PROVE  FALSE
    <3>1. Matches(p.item)
      BY <1>2, <2>2, TheOfferedService
    <3>2. Len(i.items) = 1 /\ Head(i.items) = p.item
      BY <2>2
    <3> QED
      BY <1>6, <2>2, <3>1, <3>2 DEF Unusable
  <2>3. Honest(refused)
    BY <2>1, <2>2 DEF Honest
  <2> QED
    BY <1>1, <1>6, <2>1, <2>3, OneRequestDeals DEF after
<1>7. CASE Unusable(i) = None
  <2>1. /\ asking.pc = "ask" /\ asking.stage = first /\ asking.in = i
        /\ asking.now = now /\ asking.after = after /\ asking.items = {}
    BY <1>4 DEF LookUp, Fields
  <2> HIDE DEF asking
  <2>2. Searching(asking) /\ Publishing(asking) /\ Honest(asking)
    BY <1>2, <1>3, <1>7, <2>1 DEF Searching, Publishing, Honest
  <2> QED
    BY <1>1, <1>7, <2>1, <2>2, OneRequestDeals DEF after
<1> QED
  BY <1>6, <1>7

\* A fetch begins, or is answered by the dataset.
LEMMA FetchKeepsSale ==
    ASSUME SourceInv, SaleInv, NEW r \in Requests, req[r].pc \in {"ask", "fetch"},
           NEW at, NEW body, clock' = clock,
           req' = [req EXCEPT ![r] = [req[r] EXCEPT !.pc = "fetch", !.at = at, !.body = body]]
    PROVE  SaleInv'
<1> DEFINE x == req[r]
           y == [x EXCEPT !.pc = "fetch", !.at = at, !.body = body]
<1>1. /\ Sound(x) /\ Searching(x) /\ Publishing(x)
      /\ x.after \subseteq {f \in Requests : req[f].pc = "done"}
  BY DEF SourceInv, SaleInv
<1>2. x.pc \in {"ask", "fetch"} /\ req' = [req EXCEPT ![r] = y] /\ req[r].pc # "done"
  OBVIOUS
<1>3. /\ y.pc = "fetch" /\ y.in = x.in /\ y.stage = x.stage /\ y.now = x.now
      /\ y.from = x.from /\ y.todo = x.todo /\ y.used = x.used /\ y.items = x.items
      /\ y.after = x.after
  BY <1>1 DEF Sound, Fields
<1> HIDE DEF x, y
<1>4. Searching(y) /\ Publishing(y) /\ Honest(y)
  BY <1>1, <1>2, <1>3 DEF Searching, Publishing, Honest
<1> QED
  BY <1>1, <1>2, <1>3, <1>4, OneRequestDeals

\* Every step keeps it.
LEMMA SaleNext == SourceInv /\ SaleInv /\ [Next]_vars => SaleInv'
<1> SUFFICES ASSUME SourceInv, SaleInv, [Next]_vars PROVE SaleInv'
  OBVIOUS
<1>t. clock \in Nat /\ DOMAIN req = Requests /\ \A r \in Requests : DOMAIN req[r] = Fields
  BY DEF SourceInv, Dataset, Sound
<1>1. ASSUME NEW r \in Requests, NEW i \in Inputs[r], Arrive(r, i) PROVE SaleInv'
  BY <1>1, ArriveKeepsSale
<1>2. ASSUME NEW r \in Requests, Ask(r) PROVE SaleInv'
  <2>1. req[r].pc = "ask" /\ clock' = clock
    BY <1>2 DEF Ask
  <2>2. CASE Fresh /\ Serve(r, cached.catalogue)
    <3>1. cached.catalogue \in Sources
      BY <2>2 DEF SourceInv, Kept, Fresh, Sources
    <3> QED
      BY <2>1, <2>2, <3>1, ServeKeepsSale
  <2>3. CASE req' = [req EXCEPT ![r].pc = "fetch", ![r].at = clock, ![r].body = "pending"]
    <3>1. req' = [req EXCEPT ![r] = [req[r] EXCEPT !.pc = "fetch", !.at = clock,
                                                   !.body = "pending"]]
      BY <1>t, <2>3 DEF Fields
    <3> QED
      BY <2>1, <3>1, FetchKeepsSale
  <2> QED
    BY <1>2, <2>2, <2>3 DEF Ask
<1>3. ASSUME NEW r \in Requests, Respond(r) PROVE SaleInv'
  <2>1. /\ req[r].pc = "fetch" /\ clock' = clock /\ req' = [req EXCEPT ![r].body = remote]
    BY <1>3 DEF Respond
  <2>2. req' = [req EXCEPT ![r] = [req[r] EXCEPT !.body = remote]]
    BY <1>t, <2>1
  <2>3. [req[r] EXCEPT !.body = remote]
           = [req[r] EXCEPT !.pc = "fetch", !.at = req[r].at, !.body = remote]
    BY <1>t, <2>1 DEF Fields
  <2>4. req' = [req EXCEPT ![r] = [req[r] EXCEPT !.pc = "fetch", !.at = req[r].at,
                                                 !.body = remote]]
    BY <2>2, <2>3
  <2>5. req[r].pc \in {"ask", "fetch"} /\ clock' = clock
    BY <2>1
  <2> QED
    BY <2>4, <2>5, FetchKeepsSale
<1>4. ASSUME NEW r \in Requests, Land(r) \/ Abort(r) PROVE SaleInv'
  <2>1. /\ req[r].pc = "fetch" /\ clock' = clock
        /\ \/ req[r].body \in SoundCatalogues /\ Serve(r, req[r].body)
           \/ Serve(r, Fixture)
    BY <1>4 DEF Land, Abort
  <2>2. Fixture \in Sources /\ SoundCatalogues \subseteq Sources
    BY DEF Sources
  <2> QED
    BY <2>1, <2>2, ServeKeepsSale
<1>5. ASSUME NEW c \in Catalogues, Release(c) PROVE SaleInv'
  <2>1. req' = req /\ clock' \in Nat /\ clock <= clock'
    BY <1>t, <1>5 DEF Release
  <2> QED
    BY <2>1, TimeKeepsSale
<1>6. CASE Tick
  <2>1. req' = req /\ clock' \in Nat /\ clock <= clock'
    BY <1>t, <1>6 DEF Tick
  <2> QED
    BY <2>1, TimeKeepsSale
<1>7. CASE UNCHANGED vars
  <2>1. req' = req /\ clock' \in Nat /\ clock <= clock'
    BY <1>t, <1>7 DEF vars
  <2> QED
    BY <2>1, TimeKeepsSale
<1> QED
  BY <1>1, <1>2, <1>3, <1>4, <1>5, <1>6, <1>7 DEF Next

\* What a search has published can be bought from the catalogue it was published
\* from, at its price, at its instants and at its stops, whatever was released,
\* fetched or lapsed between the two (search, resolveSelection, buildOrder).
THEOREM WhatIsPublishedIsSold == Spec => []PublishedIsSold
<1>1. Init => SaleInv
  BY InitHasSaleInv
<1>2. SaleInv => PublishedIsSold
  BY DEF SaleInv
<1> QED
  BY <1>1, <1>2, SaleNext, SourceInvariant, PTL DEF Spec
=============================================================================
