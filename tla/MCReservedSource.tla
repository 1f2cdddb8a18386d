-------------------------- MODULE MCReservedSource --------------------------
(***************************************************************************)
(* Two catalogues and a broken one, a search and an order.  A day has      *)
(* eight units; the sale of the first coach closes after the second        *)
(* instant and that of the second opens at the third.  The second has a    *)
(* hyphen and a date in its id, and a class code with a digit.             *)
(***************************************************************************)
EXTENDS ReservedSource, TLC

CONSTANTS old, new, broken, fix,
          m1, m2, m3, t1, t2, t3, north, south, a, b, c, x, y,
          f1, s1

K1 == << <<"letters", "K">> >>
K2 == << <<"other", "k">>, <<"date", 0>> >>

Point(id, town) == [id |-> id, town |-> town, offset |-> 0]
Stop(id, town, offset) == [id |-> id, town |-> town, offset |-> offset]
Points == <<Point(a, north), Point(b, north), Point(c, south)>>

Service(id, class, pattern, departure, map, table) ==
    [id |-> id, class |-> class, pattern |-> pattern, departure |-> departure,
     running |-> 5, seatMap |-> map, fareTable |-> table, fee |-> 3, toll |-> 1,
     boarding |-> <<Stop(a, north, 0), Stop(b, north, 1)>>,
     dropping |-> <<Stop(b, north, 2), Stop(c, south, 5)>>,
     provenance |-> "confirmed", sources |-> 2, corporation |-> None, basis |-> "none",
     popularity |-> 50]

\* Two seats side by side.
SeatMap(id) ==
    [id |-> id, decks |-> 1, capacity |-> 2,
     seats |-> <<[id |-> x, deck |-> 1, adjacent |-> {y}, paired |-> None],
                 [id |-> y, deck |-> 1, adjacent |-> {x}, paired |-> None]>>]

Cell(from, to, class, fare) ==
    [from |-> from, to |-> to, class |-> class, fare |-> fare, sourcing |-> "V"]
FareTable(id, fare) ==
    [id |-> id, fares |-> <<Cell(a, c, "ASHWAMEDHA", fare), Cell(a, b, "ASHWAMEDHA", 7)>>]
TwoClasses(id, fare) ==
    [id |-> id, fares |-> FareTable(id, fare).fares
                          \o <<Cell(a, c, "AIRAVAT_CLUB_CLASS_2", 20),
                                Cell(a, b, "AIRAVAT_CLUB_CLASS_2", 8)>>]

Fridays == [kind |-> "daysOfWeek", days |-> {5}]
Daily == [kind |-> "daily"]
OnTheDay == [kind |-> "dates", dates |-> {1}]

Catalogue(services, maps, tables) ==
    [towns |-> {north, south}, points |-> Points, services |-> services,
     seatMaps |-> maps, fareTables |-> tables]

MCOld == Catalogue(<<Service(K1, "ASHWAMEDHA", Fridays, 0, m1, t1)>>,
                   <<SeatMap(m1)>>, <<FareTable(t1, 10)>>)
MCNew == Catalogue(<<Service(K1, "ASHWAMEDHA", Daily, 0, m2, t2),
                     Service(K2, "AIRAVAT_CLUB_CLASS_2", OnTheDay, 5, m2, t2)>>,
                   <<SeatMap(m2)>>, <<TwoClasses(t2, 13)>>)
\* The coach's seat map is missing.
MCBroken == Catalogue(<<Service(K1, "ASHWAMEDHA", Daily, 0, m1, t3)>>,
                      <<SeatMap(m2)>>, <<FareTable(t3, 12)>>)
MCContents == old :> MCOld @@ new :> MCNew @@ broken :> MCBroken

\* The fixtures have a map and a table of their own, and a file nobody names.
MCFiles ==
    [towns |-> {north, south}, points |-> Points,
     services |-> <<[Service(K1, "ASHWAMEDHA", Daily, 0, m3, t3) EXCEPT
                        !.boarding = <<[id |-> a, offset |-> 0]>>,
                        !.dropping = <<[id |-> b, offset |-> 2], [id |-> c, offset |-> 5]>>]>>,
     seatMaps |-> <<SeatMap(m1), SeatMap(m3)>>, fareTables |-> <<FareTable(t3, 11)>>]

Query(date, class) ==
    [kind |-> "search", from |-> north, to |-> south, date |-> date, class |-> class]
Item(service, class) == <<ReservedItemId([id |-> service, class |-> class], 1)>>
Item1 == Item(K1, "ASHWAMEDHA")
Item2 == Item(K2, "AIRAVAT_CLUB_CLASS_2")
Order(items, from, to, seats, count, claim) ==
    [kind |-> "order", provider |-> TRUE, items |-> items, stops |-> [from |-> from, to |-> to],
     seats |-> seats, count |-> count, claim |-> claim]

MCSearches == {Query(1, None), Query(None, None)}

\* The whole run and a part of it; and orders that are refused.
MCOrders ==
    {Order(Item1, None, None, <<x, y>>, 2, "SENIOR"), Order(Item2, a, b, <<>>, 1, None),
     Order(Item1, b, c, <<>>, 1, None), Order(Item1, c, a, <<>>, 1, None),
     Order(Item1, None, None, <<a>>, 1, None), Order(<<>>, None, None, <<>>, 1, None),
     Order(<<K1>>, None, None, <<>>, 1, None),
     Order(Item1, None, None, <<x>>, 1, "CHILD"),
     [Order(Item1, None, None, <<>>, 1, None) EXCEPT !.provider = FALSE]}

MCInputs == f1 :> MCSearches @@ s1 :> MCOrders
=============================================================================
