------------------------- MODULE ReservedCatalogue -------------------------
(***************************************************************************)
(* What the reserved category knows of coaches that does not change while  *)
(* it sells them: the calendar, the fares and concessions, the catalogue   *)
(* with the checks it has to pass, and the joining of the fixture files.   *)
(*                                                                         *)
(* Ids are model values, but for those of services and items, which are    *)
(* texts.  Instants are whole minutes, a date is the number of its day     *)
(* since 1 January 1970, money is in paise.                                *)
(***************************************************************************)
EXTENDS Integers, Sequences, FiniteSetsExt

CONSTANTS Day,          \* minutes in a day
          IndiaOffset,  \* minutes India is ahead of UTC
          CloseMinutes, \* reservations close so long before departure
          HorizonDays,  \* and open so many days ahead of it
          None

ASSUME CalendarAssumption ==
    /\ Day \in Nat \ {0}
    /\ IndiaOffset \in Nat /\ CloseMinutes \in Nat /\ HorizonDays \in Nat

\* Array.find: the first of list, among those at the indices found.
First(list, found) == IF found = {} THEN None ELSE list[Min(found)]

-----------------------------------------------------------------------------
(* calendar.ts.                                                            *)

\* The midnight of the date in India.
Midnight(date) == date * Day - IndiaOffset

StopInstant(date, departureMinute, offset) == Midnight(date) + departureMinute + offset

\* 1 January 1970 was a Thursday, the fifth day of a week that starts at zero.
DayOfWeek(date) == (date + 4) % 7

RunsOn(pattern, date) ==
    CASE pattern.kind = "daily" -> TRUE
      [] pattern.kind = "daysOfWeek" -> DayOfWeek(date) \in pattern.days
      [] pattern.kind = "dates" -> date \in pattern.dates

\* Both edges belong to the window.
BookingWindowStatus(departureAt, now) ==
    IF now > departureAt - CloseMinutes THEN "TOO_LATE"
    ELSE IF departureAt > now + HorizonDays * Day THEN "TOO_FAR"
    ELSE "OPEN"

-----------------------------------------------------------------------------
(* fares.ts.                                                               *)

FindFareCell(table, pair, class) ==
    First(table.fares,
          {i \in DOMAIN table.fares :
              /\ table.fares[i].from = pair.from /\ table.fares[i].to = pair.to
              /\ table.fares[i].class = class})

Ids(points) == {p.id : p \in Range(points)}

HeadlinePair_FirstDropping(service) ==
    [from |-> Head(service.boarding).id, to |-> Head(service.dropping).id]

\* The whole run: the pair the catalogue price is for.
HeadlinePair(service) ==
    [from |-> Head(service.boarding).id, to |-> service.dropping[Len(service.dropping)].id]

\* The pair an order names, an end it leaves out taken from the whole run.
BoardingPairFromStops(service, stops) ==
    [from |-> IF stops.from = None THEN Head(service.boarding).id ELSE stops.from,
     to |-> IF stops.to = None THEN service.dropping[Len(service.dropping)].id ELSE stops.to]

Serves(service, pair) ==
    pair.from \in Ids(service.boarding) /\ pair.to \in Ids(service.dropping)

-----------------------------------------------------------------------------
(* concession.ts, and the price of an order.                               *)

SeniorClasses == {"RAJAHAMSA_EXECUTIVE", "ASHWAMEDHA"}

\* Why a claim has no rate in a class, None when it has one.
ConcessionRefusal(claim, class) ==
    CASE claim \in {None, "SENIOR"} /\ (claim = "SENIOR" => class \in SeniorClasses) -> None
      [] claim = "SHAKTI" /\ class = "ASHWAMEDHA" -> None
      [] claim = "SENIOR" /\ class \notin SeniorClasses -> "CONCESSION-RATE-NOT-PUBLISHED"
      [] claim \in {"CHILD", "STUDENT"} -> "CONCESSION-RATE-NOT-PUBLISHED"
      [] OTHER -> "CONCESSION-NOT-APPLICABLE"

ConcessionRatePercent(claim) ==
    CASE claim = "SENIOR" -> 25 [] claim = "SHAKTI" -> 100 [] OTHER -> 0

\* To the nearest paisa, half of one up.
ConcessionDiscount(base, percent) == (base * percent + 50) \div 100

\* buildOrder: the concession comes off the fare, and off nothing else.
TotalPaise(service, fare, count, claim) ==
    fare * count - ConcessionDiscount(fare * count, ConcessionRatePercent(claim))
    + service.fee * count + service.toll * count

-----------------------------------------------------------------------------
(* catalog.ts: the stops that are published.                               *)

\* A point in both lists is one stop, with the time of the first.
StopOf(service, id) ==
    LET stops == service.boarding \o service.dropping IN
    First(stops, {i \in DOMAIN stops : stops[i].id = id})

Roles(service, id) ==
    (IF id \in Ids(service.boarding) THEN {"BOARDING"} ELSE {})
    \cup (IF id \in Ids(service.dropping) THEN {"DROPPING"} ELSE {})

PublishedStop(service, date, id) ==
    [point |-> id, at |-> StopInstant(date, service.departure, StopOf(service, id).offset)]

\* catalogueFulfillment: the whole run.
CatalogueStops(service, date) ==
    {[stop |-> PublishedStop(service, date, id), roles |-> Roles(service, id)] :
        id \in Ids(service.boarding \o service.dropping)}

\* orderFulfillment: the two stops the rider chose.
OrderStops(service, date, pair) ==
    [from |-> PublishedStop(service, date, pair.from),
     to |-> PublishedStop(service, date, pair.to)]

\* serviceInfoTag
ServiceInfo(service, date) == [service |-> service.id, date |-> date, class |-> service.class]

-----------------------------------------------------------------------------
(* domain.ts: the id of an item is written, and read back.                 *)
(*                                                                         *)
(* A text is the sequence of its parts between hyphens, each with the kind *)
(* of characters it has: "letters" (A-Z and _), "digits" (those, with 0-9) *)
(* or "other".  A date is one part, of kind "date".                        *)

RSV == <<"letters", "RSV">>

\* One class code has a digit in it, and none has a hyphen.
ClassPart(class) == <<IF class = "AIRAVAT_CLUB_CLASS_2" THEN "digits" ELSE "letters", class>>

ReservedItemId(service, date) ==
    <<RSV>> \o service.id \o << <<"date", date>>, ClassPart(service.class)>>

ClassGroup_Letters == {"letters"}
ClassGroup == {"letters", "digits"}

\* The expression is anchored at both ends, and its service id, which may have
\* hyphens and dates in it, is not empty.
Matches(id) ==
    /\ Len(id) >= 4 /\ id[1] = RSV
    /\ id[Len(id) - 1][1] = "date" /\ id[Len(id)][1] \in ClassGroup

\* The three groups of a match.
ParseReservedItemId(id) ==
    [service |-> SubSeq(id, 2, Len(id) - 2), date |-> id[Len(id) - 1][2],
     class |-> id[Len(id)][2]]

-----------------------------------------------------------------------------
(* integrity.ts.                                                           *)

SERVICE_CLASSES ==
    {"RAJAHAMSA_EXECUTIVE", "AIRAVAT", "AIRAVAT_CLUB_CLASS", "PALLAKKI", "AMBAARI_UTSAV",
     "ASHWAMEDHA", "NON_AC_SLEEPER", "AMBAARI_DREAM_CLASS", "AIRAVAT_CLUB_CLASS_2",
     "EV_POWER_PLUS", "FLYBUS", "KALYANA_RATHA", "AMOGHAVARSHA",
     "AC_SEATER_EXECUTIVE_CHAIR", "AC_SLEEPER"}

NoDuplicates(s) == Cardinality({x.id : x \in Range(s)}) = Len(s)

\* checkSeatMap: neighbours and partners name each other.
SeatMapSound(map) ==
    LET seat(id) == CHOOSE s \in Range(map.seats) : s.id = id
        known == Ids(map.seats) IN
    /\ NoDuplicates(map.seats)
    /\ \A s \in Range(map.seats) :
          /\ s.deck <= map.decks
          /\ s.id \notin s.adjacent
          /\ \A n \in s.adjacent : n \in known /\ s.id \in seat(n).adjacent
          /\ s.paired # None => s.paired \in known /\ seat(s.paired).paired = s.id
    /\ map.capacity # None => Len(map.seats) = map.capacity

ReferencesResolve_Unchecked(service, catalogue) == TRUE

\* The map and the table a service names are part of the catalogue.
ReferencesResolve(service, catalogue) ==
    /\ service.seatMap \in Ids(catalogue.seatMaps)
    /\ service.fareTable \in Ids(catalogue.fareTables)

\* A claim that a named corporation runs the coach, or that the coach runs at
\* all, has to say what it rests on.
ClaimsSound(service) ==
    /\ service.provenance = "confirmed" => service.sources >= 2
    /\ service.sources >= 0
    /\ service.corporation # None => service.basis = "confirmed"
    /\ service.corporation = None => service.basis = "none"

ServiceSound(service, catalogue) ==
    /\ service.class \in SERVICE_CLASSES
    /\ ReferencesResolve(service, catalogue)
    /\ service.boarding # <<>> /\ service.dropping # <<>>
    /\ Ids(service.boarding \o service.dropping) \subseteq Ids(catalogue.points)
    /\ ClaimsSound(service)
    /\ service.popularity \in 0..100  \* in hundredths
    /\ service.departure \in Nat /\ service.running \in Nat \ {0}
    /\ service.fee \in Nat /\ service.toll \in Nat

\* The points some service of the class stops at, among those of the table.
Reachable(table, class, catalogue) ==
    UNION {Ids(s.boarding \o s.dropping) :
              s \in {t \in Range(catalogue.services) :
                        t.fareTable = table.id /\ t.class = class}}

FareTableSound(table, catalogue) ==
    \A cell \in Range(table.fares) :
        /\ cell.sourcing \in {"V", "S", "I"}
        /\ cell.fare \in Nat
        /\ {cell.from, cell.to} \subseteq Reachable(table, cell.class, catalogue)

ValidReservedCatalogue(catalogue) ==
    /\ \A p \in Range(catalogue.points) : p.town \in catalogue.towns
    /\ \A m \in Range(catalogue.seatMaps) : SeatMapSound(m)
    /\ NoDuplicates(catalogue.services)
    /\ \A s \in Range(catalogue.services) : ServiceSound(s, catalogue)
    /\ \A t \in Range(catalogue.fareTables) : FareTableSound(t, catalogue)

-----------------------------------------------------------------------------
(* fixture.ts: the files are joined.                                       *)

\* byId: of two points with one id the later stands, None when there is none.
TownOf(points, id) ==
    LET found == {i \in DOMAIN points : points[i].id = id} IN
    IF found = {} THEN None ELSE points[Max(found)].town

\* A service file names points and times; the towns are in another file.
ResolvePoints(refs, points) ==
    [i \in DOMAIN refs |-> [id |-> refs[i].id, offset |-> refs[i].offset,
                            town |-> TownOf(points, refs[i].id)]]

\* The map and table files that some service names, and no others, are read.  A
\* point no town declares fails the load here and the check of points above.
LoadReservedCatalogue(files) ==
    LET joined(s) == [s EXCEPT !.boarding = ResolvePoints(@, files.points),
                               !.dropping = ResolvePoints(@, files.points)]
        services == [i \in DOMAIN files.services |-> joined(files.services[i])] IN
    [towns |-> files.towns, points |-> files.points, services |-> services,
     seatMaps |-> SelectSeq(files.seatMaps,
                            LAMBDA m : m.id \in {s.seatMap : s \in Range(services)}),
     fareTables |-> SelectSeq(files.fareTables,
                              LAMBDA t : t.id \in {s.fareTable : s \in Range(services)})]

-----------------------------------------------------------------------------
(* What a source is asked.  The fixtures and a fetched catalogue answer    *)
(* alike.                                                                  *)

\* services: the indices of those that carry riders between the two towns on the
\* date.
ServicesFor(catalogue, query) ==
    {i \in DOMAIN catalogue.services :
        LET s == catalogue.services[i] IN
        /\ \E p \in Range(s.boarding) : p.town = query.from
        /\ \E p \in Range(s.dropping) : p.town = query.to
        /\ query.class \in {None, s.class}
        /\ RunsOn(s.pattern, query.date)}

\* service, seatMap and fareTable
Carried(things, id) == First(things, {i \in DOMAIN things : things[i].id = id})
=============================================================================
