------------------------- MODULE ReservedOrderProofs -------------------------
(***************************************************************************)
(* Proofs about ReservedOrder and the handler around it, for any number of *)
(* requests, processes, transactions, departures and berths: the requests  *)
(* are callers the store admits, so that what ReservedStoreProofs shows of *)
(* the tables holds of the running service, what a buyer is told and sold  *)
(* is right, and asking again finds it.                                    *)
(***************************************************************************)
EXTENDS ReservedHandler, ReservedStoreProofs

\* INTERNAL-ERROR is the handler's.

Answers == {"NONE", "OK", "BAD-REQUEST", "OUTSIDE-BOOKING-WINDOW",
            "SEAT-UNAVAILABLE", "HOLD-REQUIRED", "HOLD-EXPIRED",
            "HOLD-SEAT-MISMATCH", "MANIFEST-INCOMPLETE", "SEAT-GENDER-LOCKED",
            "INTERNAL-ERROR"}

Request == [pc : Steps \cup {"idle", "done", "lost"},
            txn : Txns \cup {None}, proc : Procs \cup {None},
            departure : Departures \cup {None}, seats : SUBSET Berths,
            now : Nat, hold : Ids \cup {None}, on : Ids \cup {None},
            answer : Answers, order : Ids \cup {None}]

OrderTypeOK ==
    /\ req \in [Ids -> Request]
    /\ confirmations \in [Procs -> [Txns -> Ids \cup {None}]]

\* A request that has arrived, x, names a transaction, a process and berths of
\* one departure.
Asked(x) ==
    x.pc # "idle" => /\ x.txn \in Txns /\ x.proc \in Procs
                     /\ x.departure \in Departures
                     /\ x.seats \subseteq OnDeparture(x.departure)

\* Where request r may be, by its kind, and what it has checked on the way.
Course(r, x) ==
    /\ x.now <= clock
    /\ x.pc \in {"lookup", "join", "await", "book", "reread"} => KindOf[r] = "confirm"
    /\ x.pc \in {"snapshot", "acquire"} => KindOf[r] = "select"
    /\ x.pc \in {"sweep", "check", "claims"} => KindOf[r] # "select"
    /\ KindOf[r] = "select" /\ x.pc \in {"instant", "snapshot", "acquire"} => x.seats # {}
    /\ x.pc = "acquire" => x.seats \cap Seeded = {}
    /\ x.pc \in Steps /\ (x.pc # "render" \/ KindOf[r] # "select") => x.answer = "NONE"

\* No man asks for a seat of S beside a woman of the simulation.
Seemly(r, S) ==
    \/ GenderOf[r] = "female"
    \/ \A b \in S, c \in SeededFemale : <<b, c>> \notin Adjacent

\* An init or a confirm that has read its hold goes by a hold of its own
\* transaction, on its departure, with exactly the seats of its manifest, that
\* ran at the request's instant.  None of this can change under it.
Holding(r, x) ==
    x.pc \in {"claims", "render", "book"} /\ KindOf[r] # "select" =>
        /\ x.hold \in HoldsOf(x.txn)
        /\ holds[x.hold].departure = x.departure
        /\ SeatsOf(lock, x.hold) = x.seats
        /\ x.now < holds[x.hold].expiresAt
        /\ x.pc # "claims" => Seemly(r, x.seats)

\* A confirm waits for a confirm of its own transaction.
Joined(x) ==
    x.pc = "await" => /\ x.on \in Ids
                      /\ KindOf[x.on] = "confirm"
                      /\ req[x.on].pc # "idle"
                      /\ req[x.on].txn = x.txn

\* An OK to a confirm carries a booking of its transaction.
Told(r, x) ==
    KindOf[r] = "confirm" /\ x.pc = "done" /\ x.answer = "OK" =>
        /\ x.order \in Ids
        /\ bookings[x.order].txn = x.txn

\* The map of a process names the confirm at work on a transaction, and every
\* confirm at work is in it.
InTheMap ==
    /\ \A p \in Procs, t \in Txns : confirmations[p][t] # None =>
          /\ KindOf[confirmations[p][t]] = "confirm"
          /\ req[confirmations[p][t]].pc # "idle"
          /\ req[confirmations[p][t]].txn = t
    /\ \A r \in Ids : KindOf[r] = "confirm" /\ req[r].pc \in Confirming =>
          confirmations[req[r].proc][req[r].txn] = r

\* The rows of a hold are on its departure, and none is on a berth the
\* simulation sold.
RowsInPlace ==
    \A h \in Ids, b \in Berths : lock[h][b] # "NONE" =>
        DepartureOf[b] = holds[h].departure /\ b \notin Seeded

\* A sale was made by a confirm that has got past it.
SoldBy ==
    \A h \in Ids : holds[h].booking # None =>
        /\ req[holds[h].booking].pc \in {"reread", "done", "lost"}
        /\ Seemly(holds[h].booking, SeatsOf(lock, h))

OrderInv ==
    /\ StoreInv
    /\ OrderTypeOK
    /\ \A r \in Ids : /\ Asked(req[r])
                      /\ Course(r, req[r])
                      /\ Holding(r, req[r])
                      /\ Joined(req[r])
                      /\ Told(r, req[r])
    /\ InTheMap
    /\ RowsInPlace
    /\ SoldBy
    /\ SoldFromARunningHold

-----------------------------------------------------------------------------
(* What a transaction of the store leaves as it was.                       *)

\* A placed hold keeps its transaction, departure, instant and seats, a
\* booking its transaction, and the clock does not go back.
Grows ==
    /\ clock' \in Nat /\ clock <= clock'
    /\ \A h \in Ids : holds[h].rowid # 0 =>
          /\ holds'[h].rowid # 0
          /\ holds'[h].txn = holds[h].txn
          /\ holds'[h].departure = holds[h].departure
          /\ holds'[h].expiresAt = holds[h].expiresAt
          /\ SeatsOf(lock', h) = SeatsOf(lock, h)
    /\ \A k \in Ids : bookings[k].txn # None => bookings'[k].txn = bookings[k].txn

\* No hold is placed and none is sold.
Quiet ==
    \A h \in Ids : /\ holds'[h].booking = holds[h].booking
                   /\ \A b \in Berths : lock'[h][b] # "NONE" => lock[h][b] # "NONE"

\* Letting holds go places and sells nothing.
LEMMA LapseGrows ==
  ASSUME StoreInv, Lapsed(lock, lock'), UNCHANGED <<holds, bookings, rows, clock>>
  PROVE  Grows /\ Quiet
  <1>1. \A h \in Ids, b \in Berths : lock'[h][b] = "NONE" <=> lock[h][b] = "NONE"
    BY LapsedRow
  <1>2. clock' \in Nat /\ clock <= clock'
    BY DEF StoreInv, StoreTypeOK
  <1> QED
    BY <1>1, <1>2 DEF Grows, Quiet, SeatsOf

\* Nor does a sweep.
LEMMA SweepGrows ==
  ASSUME StoreInv, NEW D, NEW now, SweepExpiredHolds(D, now)
  PROVE  Grows /\ Quiet
  BY SweptLapses, LapseGrows DEF StoreInv, SweepExpiredHolds

\* Nor does a transaction that is rolled back, or no transaction at all.
LEMMA StutterGrows ==
  ASSUME StoreInv, UNCHANGED storeVars
  PROVE  Grows /\ Quiet
  <1>1. Lapsed(lock, lock')
    BY DEF Lapsed, StoreInv, StoreTypeOK, storeVars
  <1> QED
    BY <1>1, LapseGrows DEF storeVars

\* Nor does a cancellation.
LEMMA CancellationGrows ==
  ASSUME StoreInv, NEW k \in Ids, NEW S, ApplyCancellation(k, S)
  PROVE  Grows /\ Quiet
  <1>1. \A h \in Ids, b \in Berths : lock'[h][b] = "NONE" <=> lock[h][b] = "NONE"
    BY DEF ApplyCancellation, LocksReleased
  <1>2. \A j \in Ids : bookings'[j].txn = bookings[j].txn
    BY DEF ApplyCancellation, StoreInv, StoreTypeOK, BookingRow
  <1>3. clock' \in Nat /\ clock <= clock' /\ holds' = holds
    BY DEF ApplyCancellation, StoreInv, StoreTypeOK
  <1> QED
    BY <1>1, <1>2, <1>3 DEF Grows, Quiet, SeatsOf

\* A hold is placed under an id that has no rows: the others stay.
LEMMA PlaceHoldGrows ==
  ASSUME StoreInv, NEW h \in Ids, NEW t, NEW d, NEW S, NEW now, PlaceHold(h, t, d, S, now)
  PROVE  /\ Grows
         /\ \A g \in Ids : holds'[g].booking = holds[g].booking
         /\ \A g \in Ids, b \in Berths : g # h =>
               (lock'[g][b] = "NONE" <=> lock[g][b] = "NONE")
         /\ \A b \in Berths : lock'[h][b] # "NONE" => b \in S
         /\ holds'[h].departure = d
  <1> DEFINE M == Freed(t, d, now)
             R == [b \in Berths |-> IF b \in S THEN "HELD" ELSE "NONE"]
             X == [txn |-> t, departure |-> d, createdAt |-> now,
                   expiresAt |-> now + HoldTtl, rowid |-> rows + 1,
                   booking |-> None]
  <1>1. Lapsed(lock, M)
    BY FreedLapses DEF StoreInv
  <1>2. /\ holds[h].rowid = 0
        /\ lock' = [M EXCEPT ![h] = R]
        /\ holds' = [holds EXCEPT ![h] = X]
        /\ UNCHANGED <<bookings, clock>>
    BY DEF PlaceHold
  <1> HIDE DEF M
  <1>3. lock'[h] = R /\ holds'[h] = X
    BY <1>1, <1>2 DEF Lapsed, StoreInv, StoreTypeOK
  <1>4. \A g \in Ids : g # h => lock'[g] = M[g] /\ holds'[g] = holds[g]
    BY <1>1, <1>2 DEF Lapsed, StoreInv, StoreTypeOK
  <1>5. \A g \in Ids, b \in Berths : g # h =>
           (lock'[g][b] = "NONE" <=> lock[g][b] = "NONE")
    BY <1>1, <1>4, LapsedRow
  <1>6. \A g \in Ids : g # h => SeatsOf(lock', g) = SeatsOf(lock, g)
    BY <1>5 DEF SeatsOf
  <1>7. clock' \in Nat /\ clock <= clock'
    BY <1>2 DEF StoreInv, StoreTypeOK
  <1>8. Grows
    BY <1>2, <1>4, <1>6, <1>7 DEF Grows
  <1>9. holds[h].booking = None /\ X.booking = None
    BY <1>2 DEF StoreInv, PlacedHolds
  <1> QED
    BY <1>3, <1>4, <1>5, <1>8, <1>9

\* A hold is sold: nothing else about the holds changes.
LEMMA PlaceBookingGrows ==
  ASSUME StoreInv, NEW k \in Ids, NEW h \in Ids, NEW t, NEW S, PlaceBooking(k, h, t, S)
  PROVE  /\ Grows
         /\ holds'[h].booking = k
         /\ \A g \in Ids : g # h => holds'[g].booking = holds[g].booking
         /\ \A g \in Ids, b \in Berths : lock'[g][b] = "NONE" <=> lock[g][b] = "NONE"
  <1>1. \A g \in Ids, b \in Berths : lock'[g][b] = "NONE" <=> lock[g][b] = "NONE"
    BY DEF PlaceBooking, StoreInv, StoreTypeOK
  <1>2. \A g \in Ids : g # h => holds'[g] = holds[g]
    BY DEF PlaceBooking, StoreInv, StoreTypeOK
  <1>3. /\ holds'[h].booking = k /\ holds'[h].txn = holds[h].txn
        /\ holds'[h].rowid = holds[h].rowid
        /\ holds'[h].departure = holds[h].departure
        /\ holds'[h].expiresAt = holds[h].expiresAt
    BY DEF PlaceBooking, StoreInv, StoreTypeOK, HoldRow
  <1>4. bookings[k].txn = None
    BY DEF PlaceBooking, StoreInv, UnusedBookings, NoBooking
  <1>5. \A j \in Ids : j # k => bookings'[j] = bookings[j]
    BY DEF PlaceBooking, StoreInv, StoreTypeOK
  <1>6. \A g \in Ids : SeatsOf(lock', g) = SeatsOf(lock, g)
    BY <1>1 DEF SeatsOf
  <1>7. clock' \in Nat /\ clock <= clock'
    BY DEF PlaceBooking, StoreInv, StoreTypeOK
  <1>8. Grows
    BY <1>2, <1>3, <1>4, <1>5, <1>6, <1>7 DEF Grows
  <1> QED
    BY <1>1, <1>2, <1>3, <1>8

-----------------------------------------------------------------------------
(* A step of request r, after which it is x.                               *)

\* Nobody else's request is touched, and r stays the request it was.
Moves(r, x) ==
    /\ req' = [req EXCEPT ![r] = x]
    /\ req[r].pc \in Steps
    /\ x.pc \in Steps \cup {"done"}
    /\ x.txn = req[r].txn /\ x.proc = req[r].proc
    /\ x.departure = req[r].departure /\ x.seats = req[r].seats
    /\ req[r].pc = "reread" => x.pc = "done" /\ x.now = req[r].now

\* What Moves says of all requests.
LEMMA MovesSame ==
  ASSUME OrderTypeOK, NEW r \in Ids, NEW x \in Request, Moves(r, x)
  PROVE  /\ req' \in [Ids -> Request]
         /\ req'[r] = x
         /\ \A q \in Ids : q # r => req'[q] = req[q]
         /\ \A q \in Ids : /\ req[q].pc # "idle" => req'[q].pc # "idle"
                           /\ req'[q].txn = req[q].txn /\ req'[q].proc = req[q].proc
                           /\ req'[q].departure = req[q].departure
                           /\ req'[q].seats = req[q].seats
                           /\ req[q].pc \in {"reread", "done", "lost"} =>
                                 /\ req'[q].pc \in {"reread", "done", "lost"}
                                 /\ req'[q].now = req[q].now
  <1>1. /\ req' \in [Ids -> Request] /\ req'[r] = x
        /\ \A q \in Ids : q # r => req'[q] = req[q]
    BY DEF OrderTypeOK, Moves
  <1>2. "idle" \notin Steps \cup {"done"} /\ {"done", "lost"} \cap Steps = {}
    BY DEF Steps
  <1> QED
    BY <1>1, <1>2 DEF Moves

\* The facts about each request survive a step of one of them.
LEMMA RequestsKept ==
  ASSUME OrderInv, Grows, NEW r \in Ids, NEW x \in Request, Moves(r, x),
         Course(r, x), Holding(r, x), Joined(x),
         KindOf[r] = "confirm" /\ x.pc = "done" /\ x.answer = "OK" =>
            /\ x.order \in Ids
            /\ bookings[x.order].txn = x.txn \/ bookings'[x.order].txn = x.txn
  PROVE  \A q \in Ids : /\ Asked(req[q])'
                        /\ Course(q, req[q])'
                        /\ Holding(q, req[q])'
                        /\ Joined(req[q])'
                        /\ Told(q, req[q])'
  <1> SUFFICES ASSUME NEW q \in Ids
               PROVE  /\ Asked(req[q])' /\ Course(q, req[q])' /\ Holding(q, req[q])'
                      /\ Joined(req[q])' /\ Told(q, req[q])'
    OBVIOUS
  <1>1. OrderTypeOK /\ req[r] \in Request /\ req[q] \in Request
    BY DEF OrderInv, OrderTypeOK
  <1>2. /\ req'[r] = x
        /\ \A p \in Ids : p # r => req'[p] = req[p]
        /\ \A p \in Ids : /\ req[p].pc # "idle" => req'[p].pc # "idle"
                          /\ req'[p].txn = req[p].txn
    BY <1>1, MovesSame
  <1>3. req[r].pc # "idle"
    BY DEF Moves, Steps
  <1>4. clock \in Nat /\ clock' \in Nat /\ clock <= clock'
    BY DEF OrderInv, StoreInv, StoreTypeOK, Grows
  <1>5. Asked(x) /\ (x.pc # "idle" => x.txn # None)
    BY <1>3, StoreAssumption DEF OrderInv, Asked, Moves
  <1>6. PICK y \in Request :
          /\ req'[q] = y
          /\ Asked(y) /\ Course(q, y) /\ Holding(q, y) /\ Joined(y)
          /\ KindOf[q] = "confirm" /\ y.pc = "done" /\ y.answer = "OK" =>
               /\ y.order \in Ids
               /\ bookings[y.order].txn = y.txn \/ bookings'[y.order].txn = y.txn
    <2>1. CASE q = r
      BY <2>1, <1>2, <1>5
    <2>2. CASE q # r
      BY <2>2, <1>1, <1>2 DEF OrderInv, Told
    <2> QED
      BY <2>1, <2>2
  <1>7. Asked(req[q])'
    BY <1>6 DEF Asked
  <1>8. Course(q, req[q])'
    <2>1. y.now <= clock'
      BY <1>4, <1>6 DEF Course, Request
    <2> QED
      BY <1>6, <2>1 DEF Course
  <1>9. Holding(q, req[q])'
    BY <1>6 DEF Holding, Grows, HoldsOf
  <1>10. Joined(req[q])'
    BY <1>2, <1>6 DEF Joined
  <1>11. Told(q, req[q])'
    <2>1. y.pc = "done" => y.txn # None
      BY <1>6, StoreAssumption DEF Asked
    <2> QED
      BY <1>6, <2>1 DEF Told, Grows
  <1> QED
    BY <1>7, <1>8, <1>9, <1>10, <1>11

\* Rows and sales survive a step of a request that places and sells nothing.
LEMMA SalesKept ==
  ASSUME OrderInv, Grows, Quiet,
         \A q \in Ids : req[q].pc \in {"reread", "done", "lost"} =>
            /\ req'[q].pc \in {"reread", "done", "lost"}
            /\ req'[q].txn = req[q].txn /\ req'[q].departure = req[q].departure
            /\ req'[q].seats = req[q].seats /\ req'[q].now = req[q].now
  PROVE  RowsInPlace' /\ SoldBy' /\ SoldFromARunningHold'
  <1>1. \A h \in Ids : /\ holds'[h].booking = holds[h].booking
                       /\ holds[h].booking \in Ids \cup {None}
                       /\ holds[h].rowid = 0 => holds[h].booking = None
    BY DEF Quiet, OrderInv, StoreInv, StoreTypeOK, HoldRow, PlacedHolds
  <1>2. RowsInPlace'
    <2> SUFFICES ASSUME NEW h \in Ids, NEW b \in Berths, lock'[h][b] # "NONE"
                 PROVE  DepartureOf[b] = holds'[h].departure /\ b \notin Seeded
      BY DEF RowsInPlace
    <2>1. lock[h][b] # "NONE"
      BY DEF Quiet
    <2>2. holds[h].rowid # 0
      BY <2>1 DEF OrderInv, StoreInv, PlacedHolds
    <2> QED
      BY <2>1, <2>2 DEF Grows, OrderInv, RowsInPlace
  <1>3. ASSUME NEW h \in Ids, holds'[h].booking # None
        PROVE  /\ holds[h].booking \in Ids /\ holds'[h].booking = holds[h].booking
               /\ holds[h].rowid # 0
               /\ SeatsOf(lock', h) = SeatsOf(lock, h)
               /\ req[holds[h].booking].pc \in {"reread", "done", "lost"}
    BY <1>1, <1>3 DEF Grows, OrderInv, SoldBy
  <1>4. SoldBy'
    <2> SUFFICES ASSUME NEW h \in Ids, holds'[h].booking # None
                 PROVE  /\ req'[holds'[h].booking].pc \in {"reread", "done", "lost"}
                        /\ Seemly(holds'[h].booking, SeatsOf(lock', h))
      BY DEF SoldBy, Seemly, SeatsOf
    <2> QED
      BY <1>3 DEF OrderInv, SoldBy
  <1>5. SoldFromARunningHold'
    <2> SUFFICES ASSUME NEW h \in Ids, holds'[h].booking # None
                 PROVE  LET k == req'[holds'[h].booking] IN
                        /\ k.txn = holds'[h].txn
                        /\ k.departure = holds'[h].departure
                        /\ k.seats = SeatsOf(lock', h)
                        /\ k.now < holds'[h].expiresAt
      BY DEF SoldFromARunningHold, SeatsOf
    <2> QED
      BY <1>3 DEF OrderInv, SoldFromARunningHold, Grows
  <1> QED
    BY <1>2, <1>4, <1>5

\* A step that leaves the map alone, and does not take a confirm to work.
LEMMA MapKept ==
  ASSUME OrderInv, NEW r \in Ids, NEW x \in Request, Moves(r, x),
         UNCHANGED confirmations,
         KindOf[r] = "confirm" /\ x.pc \in Confirming => req[r].pc \in Confirming
  PROVE  InTheMap' /\ OrderTypeOK'
  <1>1. /\ req' \in [Ids -> Request] /\ req'[r] = x
        /\ \A q \in Ids : q # r => req'[q] = req[q]
        /\ \A q \in Ids : /\ req[q].pc # "idle" => req'[q].pc # "idle"
                          /\ req'[q].txn = req[q].txn /\ req'[q].proc = req[q].proc
    BY MovesSame DEF OrderInv
  <1>2. confirmations \in [Procs -> [Txns -> Ids \cup {None}]]
    BY DEF OrderInv, OrderTypeOK
  <1>3. OrderTypeOK'
    BY <1>1, <1>2 DEF OrderTypeOK
  <1>4. \A p \in Procs, t \in Txns : confirmations[p][t] \in Ids \cup {None}
    BY <1>2
  <1> QED
    BY <1>1, <1>3, <1>4 DEF OrderInv, InTheMap

\* A request that is answered leaves the map.
LEMMA MapLeft ==
  ASSUME OrderInv, NEW r \in Ids, NEW x \in Request, Moves(r, x), x.pc = "done",
         confirmations' = [confirmations EXCEPT ![req[r].proc][req[r].txn] =
                              IF @ = r THEN None ELSE @]
  PROVE  InTheMap' /\ OrderTypeOK'
  <1>1. /\ req' \in [Ids -> Request] /\ req'[r] = x
        /\ \A q \in Ids : q # r => req'[q] = req[q]
        /\ \A q \in Ids : /\ req[q].pc # "idle" => req'[q].pc # "idle"
                          /\ req'[q].txn = req[q].txn /\ req'[q].proc = req[q].proc
    BY MovesSame DEF OrderInv
  <1>2. confirmations \in [Procs -> [Txns -> Ids \cup {None}]]
    BY DEF OrderInv, OrderTypeOK
  <1>3. confirmations' \in [Procs -> [Txns -> Ids \cup {None}]]
    BY <1>2
  <1>4. ASSUME NEW p \in Procs, NEW t \in Txns
        PROVE  \/ confirmations'[p][t] = confirmations[p][t]
               \/ confirmations[p][t] = r /\ confirmations'[p][t] = None
    BY <1>2
  <1>5. OrderTypeOK'
    BY <1>1, <1>3 DEF OrderTypeOK
  <1>6. ASSUME NEW p \in Procs, NEW t \in Txns, confirmations'[p][t] # None
        PROVE  /\ KindOf[confirmations'[p][t]] = "confirm"
               /\ req'[confirmations'[p][t]].pc # "idle"
               /\ req'[confirmations'[p][t]].txn = t
    <2>1. confirmations'[p][t] = confirmations[p][t] /\ confirmations[p][t] \in Ids
      BY <1>2, <1>4, <1>6
    <2> QED
      BY <1>1, <1>6, <2>1 DEF OrderInv, InTheMap
  <1>7. ASSUME NEW q \in Ids, KindOf[q] = "confirm", req'[q].pc \in Confirming
        PROVE  confirmations'[req'[q].proc][req'[q].txn] = q
    <2>1. q # r
      BY <1>1, <1>7 DEF Confirming, Steps
    <2>2. /\ req'[q] = req[q] /\ confirmations[req[q].proc][req[q].txn] = q
          /\ req[q].pc # "idle"
      BY <1>1, <1>7, <2>1 DEF OrderInv, InTheMap, Confirming, Steps
    <2>3. req[q].proc \in Procs /\ req[q].txn \in Txns
      BY <2>2 DEF OrderInv, Asked
    <2> QED
      BY <1>4, <2>1, <2>2, <2>3
  <1> QED
    BY <1>5, <1>6, <1>7 DEF InTheMap

\* A step from which request r goes on.
LEMMA GotoInv ==
  ASSUME OrderInv, StoreInv', Grows, Quiet, NEW r \in Ids, NEW x \in Request, Moves(r, x),
         UNCHANGED confirmations,
         KindOf[r] = "confirm" /\ x.pc \in Confirming => req[r].pc \in Confirming,
         x.pc # "done", Course(r, x), Holding(r, x), Joined(x)
  PROVE  OrderInv'
  <1>1. InTheMap' /\ OrderTypeOK'
    BY MapKept
  <1>2. \A q \in Ids : /\ Asked(req[q])' /\ Course(q, req[q])' /\ Holding(q, req[q])'
                       /\ Joined(req[q])' /\ Told(q, req[q])'
    BY RequestsKept
  <1>3. RowsInPlace' /\ SoldBy' /\ SoldFromARunningHold'
    BY MovesSame, SalesKept DEF OrderInv
  <1> QED
    BY <1>1, <1>2, <1>3 DEF OrderInv

\* A step that answers request r.
LEMMA AnswerInv ==
  ASSUME OrderInv, StoreInv', Grows, Quiet, NEW r \in Ids, req[r].pc \in Steps,
         NEW a \in Answers, NEW o \in Ids \cup {None}, Answer(r, a, o),
         KindOf[r] = "confirm" /\ a = "OK" => o \in Ids /\ bookings[o].txn = req[r].txn
  PROVE  OrderInv'
  <1> DEFINE x == [req[r] EXCEPT !.pc = "done", !.answer = a, !.order = o]
  <1>1. req \in [Ids -> Request] /\ req[r] \in Request
    BY DEF OrderInv, OrderTypeOK
  <1>2. x \in Request
    BY <1>1 DEF Request
  <1>3. /\ x.pc = "done" /\ x.answer = a /\ x.order = o
        /\ x.txn = req[r].txn /\ x.proc = req[r].proc /\ x.now = req[r].now
        /\ x.departure = req[r].departure /\ x.seats = req[r].seats
    BY <1>1 DEF Request
  <1>4. req' = [req EXCEPT ![r] = x]
    BY <1>1 DEF Answer, Request
  <1> HIDE DEF x
  <1>5. Moves(r, x)
    BY <1>3, <1>4 DEF Moves
  <1>6. Course(r, x) /\ Holding(r, x) /\ Joined(x)
    <2>1. x.now <= clock
      BY <1>3 DEF OrderInv, Course
    <2> QED
      BY <1>3, <2>1 DEF Course, Holding, Joined, Steps
  <1>7. InTheMap' /\ OrderTypeOK'
    BY <1>2, <1>3, <1>5, MapLeft DEF Answer
  <1>8. \A q \in Ids : /\ Asked(req[q])' /\ Course(q, req[q])' /\ Holding(q, req[q])'
                       /\ Joined(req[q])' /\ Told(q, req[q])'
    BY <1>2, <1>3, <1>5, <1>6, RequestsKept
  <1>9. RowsInPlace' /\ SoldBy' /\ SoldFromARunningHold'
    BY <1>2, <1>5, MovesSame, SalesKept DEF OrderInv
  <1> QED
    BY <1>7, <1>8, <1>9 DEF OrderInv

-----------------------------------------------------------------------------
(* The steps of a request, in their order.                                 *)

\* Request r at a step has a process, a transaction and a departure.
LEMMA AtAStep ==
  ASSUME OrderInv, NEW r \in Ids, req[r].pc \in Steps
  PROVE  /\ req[r] \in Request
         /\ req[r].txn \in Txns /\ req[r].proc \in Procs
         /\ req[r].departure \in Departures
         /\ req[r].seats \subseteq OnDeparture(req[r].departure)
         /\ req[r].now \in 0..clock /\ clock \in Nat
         /\ Course(r, req[r]) /\ Holding(r, req[r]) /\ Joined(req[r])
         /\ None \notin Ids
  <1>1. req[r].pc # "idle" /\ req[r] \in Request
    BY DEF Steps, OrderInv, OrderTypeOK
  <1>2. req[r].now \in Nat /\ req[r].now <= clock /\ clock \in Nat
    BY <1>1 DEF Request, OrderInv, Course, StoreInv, StoreTypeOK
  <1> QED
    BY <1>1, <1>2, StoreAssumption DEF OrderInv, Asked

\* Going on to step pc, with nothing else of the request changed.
LEMMA GoOnInv ==
  ASSUME OrderInv, StoreInv', Grows, Quiet, NEW r \in Ids, req[r].pc \in Steps,
         req[r].pc # "reread",
         NEW pc \in Steps, Goto(r, pc), UNCHANGED confirmations,
         KindOf[r] = "confirm" /\ pc \in Confirming => req[r].pc \in Confirming,
         Course(r, [req[r] EXCEPT !.pc = pc]), Holding(r, [req[r] EXCEPT !.pc = pc]),
         pc # "await"
  PROVE  OrderInv'
  <1> DEFINE x == [req[r] EXCEPT !.pc = pc]
  <1>1. req \in [Ids -> Request] /\ req[r] \in Request
    BY DEF OrderInv, OrderTypeOK
  <1>2. x \in Request /\ x.pc = pc
    BY <1>1 DEF Request
  <1>3. Moves(r, x)
    BY <1>1, <1>2 DEF Moves, Goto, Request
  <1>4. Joined(x) /\ x.pc # "done"
    BY <1>2 DEF Joined, Steps
  <1>5. Course(r, x) /\ Holding(r, x)
    OBVIOUS
  <1> HIDE DEF x
  <1> QED
    BY <1>2, <1>3, <1>4, <1>5, GotoInv

\* confirm's first read: the booking there is, or on to the map.
LEMMA LookupInv == ASSUME OrderInv, NEW r \in Ids, Lookup(r) PROVE OrderInv'
  <1>1. req[r].pc \in Steps /\ req[r].pc = "lookup"
    BY DEF Lookup, Steps
  <1>2. StoreInv' /\ Grows /\ Quiet
    BY StutterInv, StutterGrows DEF Lookup, OrderInv
  <1>3. ASSUME NEW k \in BookingOf(req[r].txn), Answer(r, "OK", k) PROVE OrderInv'
    <2>1. "OK" \in Answers /\ k \in Ids /\ bookings[k].txn = req[r].txn
      BY DEF Answers, BookingOf
    <2> QED
      BY <1>1, <1>2, <1>3, <2>1, AnswerInv
  <1>4. CASE Goto(r, "join") /\ UNCHANGED confirmations
    <2>1. "join" \in Steps /\ "join" \notin Confirming
      BY DEF Steps, Confirming
    <2>2. Course(r, [req[r] EXCEPT !.pc = "join"])
      BY <1>1, AtAStep DEF Course, Steps, Request
    <2>3. Holding(r, [req[r] EXCEPT !.pc = "join"])
      BY <1>1, AtAStep DEF Holding, Request
    <2> QED
      BY <1>1, <1>2, <1>4, <2>1, <2>2, <2>3, GoOnInv
  <1> QED
    BY <1>3, <1>4 DEF Lookup

\* confirm joins the one in flight, or enters the map itself.
LEMMA JoinInv == ASSUME OrderInv, NEW r \in Ids, Join(r) PROVE OrderInv'
  <1> DEFINE p == req[r].proc
             t == req[r].txn
             pending == confirmations[p][t]
  <1>1. req[r].pc \in Steps /\ req[r].pc = "join"
    BY DEF Join, Steps
  <1>2. StoreInv' /\ Grows /\ Quiet
    BY StutterInv, StutterGrows DEF Join, OrderInv
  <1>3. /\ req \in [Ids -> Request] /\ req[r] \in Request /\ p \in Procs /\ t \in Txns
        /\ confirmations \in [Procs -> [Txns -> Ids \cup {None}]]
        /\ Course(r, req[r])
    BY <1>1, AtAStep DEF OrderInv, OrderTypeOK
  <1>4. CASE /\ pending # None
             /\ req' = [req EXCEPT ![r].pc = "await", ![r].on = pending]
             /\ UNCHANGED confirmations
    <2> DEFINE x == [req[r] EXCEPT !.pc = "await", !.on = pending]
    <2>1. pending \in Ids
      BY <1>3, <1>4
    <2>2. "await" \in Steps /\ "await" \notin Confirming
      BY DEF Steps, Confirming
    <2>3. x \in Request
      BY <1>3, <2>1, <2>2 DEF Request
    <2>4. Moves(r, x)
      BY <1>1, <1>3, <1>4, <2>2 DEF Moves, Request
    <2>5. x.pc = "await" /\ x.on = pending /\ x.txn = t /\ x.now = req[r].now
          /\ x.answer = req[r].answer
      BY <1>3 DEF Request
    <2> HIDE DEF x
    <2>6. Joined(x)
      BY <1>3, <1>4, <2>1, <2>5 DEF Joined, OrderInv, InTheMap
    <2>7. Course(r, x) /\ Holding(r, x)
      BY <1>1, <1>3, <2>5 DEF Course, Holding, Steps
    <2> QED
      BY <1>2, <1>4, <2>2, <2>3, <2>4, <2>5, <2>6, <2>7, GotoInv
  <1>5. CASE /\ pending = None
             /\ Goto(r, "resolve")
             /\ confirmations' = [confirmations EXCEPT ![p][t] = r]
    <2> DEFINE x == [req[r] EXCEPT !.pc = "resolve"]
    <2>1. x \in Request
      BY <1>3 DEF Request, Steps
    <2>2. Moves(r, x)
      BY <1>1, <1>3, <1>5 DEF Moves, Goto, Request, Steps
    <2>3. /\ x.pc = "resolve" /\ x.txn = t /\ x.proc = p /\ x.now = req[r].now
          /\ x.answer = req[r].answer
      BY <1>3 DEF Request
    <2> HIDE DEF x
    <2>4. Joined(x) /\ Course(r, x) /\ Holding(r, x)
      BY <1>1, <1>3, <2>3 DEF Joined, Course, Holding, Steps
    <2>5. \A q \in Ids : /\ Asked(req[q])' /\ Course(q, req[q])' /\ Holding(q, req[q])'
                         /\ Joined(req[q])' /\ Told(q, req[q])'
      BY <1>2, <2>1, <2>2, <2>3, <2>4, RequestsKept
    <2>6. RowsInPlace' /\ SoldBy' /\ SoldFromARunningHold'
      BY <1>2, <2>1, <2>2, MovesSame, SalesKept DEF OrderInv
    <2>7. /\ req' \in [Ids -> Request] /\ req'[r] = x
          /\ \A q \in Ids : q # r => req'[q] = req[q]
          /\ \A q \in Ids : /\ req[q].pc # "idle" => req'[q].pc # "idle"
                            /\ req'[q].txn = req[q].txn
      BY <2>1, <2>2, MovesSame DEF OrderInv
    <2>8. /\ confirmations' \in [Procs -> [Txns -> Ids \cup {None}]]
          /\ confirmations'[p][t] = r
          /\ \A u \in Procs, v \in Txns : u # p \/ v # t =>
                confirmations'[u][v] = confirmations[u][v]
      BY <1>3, <1>5
    <2>9. KindOf[r] = "confirm" /\ r # None
      BY <1>1, <1>3, StoreAssumption DEF Course
    <2>10. ASSUME NEW u \in Procs, NEW v \in Txns, confirmations'[u][v] # None
           PROVE  /\ KindOf[confirmations'[u][v]] = "confirm"
                  /\ req'[confirmations'[u][v]].pc # "idle"
                  /\ req'[confirmations'[u][v]].txn = v
      <3>1. CASE u = p /\ v = t
        BY <3>1, <2>3, <2>7, <2>8, <2>9
      <3>2. CASE u # p \/ v # t
        <4>1. confirmations'[u][v] = confirmations[u][v] /\ confirmations[u][v] \in Ids
          BY <1>3, <2>8, <2>10, <3>2
        <4> QED
          BY <4>1, <2>7, <2>10 DEF OrderInv, InTheMap
      <3> QED
        BY <3>1, <3>2
    <2>11. ASSUME NEW q \in Ids, KindOf[q] = "confirm", req'[q].pc \in Confirming
           PROVE  confirmations'[req'[q].proc][req'[q].txn] = q
      <3>1. CASE q = r
        BY <3>1, <2>3, <2>7, <2>8
      <3>2. CASE q # r
        <4>1. req'[q] = req[q] /\ confirmations[req[q].proc][req[q].txn] = q
          BY <2>7, <2>11, <3>2 DEF OrderInv, InTheMap
        <4>2. req[q].proc \in Procs /\ req[q].txn \in Txns
          BY <2>11, <4>1 DEF OrderInv, Asked, Confirming, Steps
        <4>3. req[q].proc # p \/ req[q].txn # t
          BY <1>5, <4>1, StoreAssumption
        <4> QED
          BY <2>8, <4>1, <4>2, <4>3
      <3> QED
        BY <3>1, <3>2
    <2> QED
      BY <1>2, <2>5, <2>6, <2>7, <2>8, <2>10, <2>11 DEF OrderInv, OrderTypeOK, InTheMap
  <1> QED
    BY <1>4, <1>5 DEF Join

\* A joined confirm is answered as the one it waited for.
LEMMA AwaitInv == ASSUME OrderInv, NEW r \in Ids, Await(r) PROVE OrderInv'
  <1> DEFINE on == req[r].on
  <1>1. req[r].pc \in Steps /\ req[r].pc = "await"
    BY DEF Await, Steps
  <1>2. StoreInv' /\ Grows /\ Quiet
    BY StutterInv, StutterGrows DEF Await, OrderInv
  <1>3. on \in Ids /\ KindOf[on] = "confirm" /\ req[on].txn = req[r].txn
    BY <1>1, AtAStep DEF Joined
  <1>4. req[on].answer \in Answers /\ req[on].order \in Ids \cup {None}
    BY <1>3 DEF OrderInv, OrderTypeOK, Request
  <1>5. req[on].pc = "done" /\ Answer(r, req[on].answer, req[on].order)
    BY DEF Await
  <1>6. req[on].answer = "OK" =>
          req[on].order \in Ids /\ bookings[req[on].order].txn = req[r].txn
    BY <1>3, <1>5 DEF OrderInv, Told
  <1> QED
    BY <1>1, <1>2, <1>4, <1>5, <1>6, AnswerInv

\* resolveSelection answers or goes on.
LEMMA ResolveInv == ASSUME OrderInv, NEW r \in Ids, Resolve(r) PROVE OrderInv'
  <1>1. req[r].pc \in Steps /\ req[r].pc = "resolve"
    BY DEF Resolve, Steps
  <1>2. StoreInv' /\ Grows /\ Quiet
    BY StutterInv, StutterGrows DEF Resolve, OrderInv
  <1>3. CASE Answer(r, "OUTSIDE-BOOKING-WINDOW", None)
    BY <1>1, <1>2, <1>3, AnswerInv DEF Answers
  <1>4. ASSUME NEW pc \in {"render", "instant"}, Goto(r, pc), UNCHANGED confirmations,
               IF KindOf[r] = "select" /\ req[r].seats = {}
               THEN pc = "render" ELSE pc = "instant"
        PROVE  OrderInv'
    <2>1. pc \in Steps /\ pc # "await" /\ req[r].pc \in Confirming
      BY <1>1 DEF Steps, Confirming
    <2>2. Course(r, [req[r] EXCEPT !.pc = pc])
      BY <1>1, <1>4, AtAStep DEF Course, Steps, Request
    <2>3. Holding(r, [req[r] EXCEPT !.pc = pc])
      BY <1>1, <1>4, AtAStep DEF Holding, Request
    <2> QED
      BY <1>1, <1>2, <1>4, <2>1, <2>2, <2>3, GoOnInv
  <1> QED
    BY <1>3, <1>4 DEF Resolve

\* The instant a request goes by is one on the clock.
LEMMA InstantInv == ASSUME OrderInv, NEW r \in Ids, Instant(r) PROVE OrderInv'
  <1> DEFINE pc == IF KindOf[r] = "select" THEN "snapshot" ELSE "sweep"
             x == [req[r] EXCEPT !.now = clock, !.pc = pc]
  <1>1. req[r].pc \in Steps /\ req[r].pc = "instant" /\ req[r].pc \in Confirming
    BY DEF Instant, Steps, Confirming
  <1>2. StoreInv' /\ Grows /\ Quiet
    BY StutterInv, StutterGrows DEF Instant, OrderInv
  <1>3. req \in [Ids -> Request] /\ req[r] \in Request /\ clock \in Nat /\ Course(r, req[r])
    BY <1>1, AtAStep DEF OrderInv, OrderTypeOK
  <1>4. pc \in Steps
    BY DEF Steps
  <1>5. x \in Request
    BY <1>3, <1>4 DEF Request
  <1>6. req' = [req EXCEPT ![r] = x]
    BY <1>3 DEF Instant, Request
  <1>7. Moves(r, x)
    BY <1>1, <1>3, <1>4, <1>6 DEF Moves, Request
  <1>8. x.pc = pc /\ x.now = clock /\ x.seats = req[r].seats /\ x.answer = req[r].answer
    BY <1>3 DEF Request
  <1> HIDE DEF x
  <1>9. Course(r, x) /\ Holding(r, x) /\ Joined(x)
    BY <1>1, <1>3, <1>8 DEF Course, Holding, Joined, Steps
  <1> QED
    BY <1>1, <1>2, <1>5, <1>7, <1>8, <1>9, GotoInv DEF Instant

\* A look at a coach is a sweep.
LEMMA LookGrows ==
  ASSUME OrderInv, NEW d, Look(d) PROVE StoreInv' /\ Grows /\ Quiet
  BY SweepInv, SweepGrows DEF Look, OrderInv

\* select refuses the seats the simulation sold.
LEMMA SnapshotInv == ASSUME OrderInv, NEW r \in Ids, Snapshot(r) PROVE OrderInv'
  <1>1. req[r].pc \in Steps /\ req[r].pc = "snapshot" /\ req[r].pc \in Confirming
    BY DEF Snapshot, Steps, Confirming
  <1>2. StoreInv' /\ Grows /\ Quiet
    BY LookGrows DEF Snapshot
  <1>3. CASE Answer(r, "SEAT-UNAVAILABLE", None)
    BY <1>1, <1>2, <1>3, AnswerInv DEF Answers
  <1>4. CASE /\ req[r].seats \cap Seeded = {}
             /\ Goto(r, "acquire") /\ UNCHANGED confirmations
    <2>1. "acquire" \in Steps
      BY DEF Steps
    <2>2. Course(r, [req[r] EXCEPT !.pc = "acquire"])
      BY <1>1, <1>4, AtAStep DEF Course, Steps, Request
    <2>3. Holding(r, [req[r] EXCEPT !.pc = "acquire"])
      BY <1>1, AtAStep DEF Holding, Request
    <2> QED
      BY <1>1, <1>2, <1>4, <2>1, <2>2, <2>3, GoOnInv
  <1> QED
    BY <1>3, <1>4 DEF Snapshot

\* The three ends of acquireHold: the select goes on to its answer.
LEMMA AcquireInv == ASSUME OrderInv, NEW r \in Ids, Acquire(r) PROVE OrderInv'
  <1> DEFINE q == req[r]
  <1>1. q.pc \in Steps /\ q.pc = "acquire" /\ q.pc \in Confirming /\ "render" \in Steps
    BY DEF Acquire, Steps, Confirming
  <1>2. /\ req \in [Ids -> Request] /\ q \in Request /\ Course(r, q)
        /\ q.txn \in Txns /\ q.departure \in Departures
        /\ q.seats \subseteq OnDeparture(q.departure) /\ q.now \in Nat
    BY <1>1, AtAStep DEF OrderInv, OrderTypeOK
  <1>3. /\ KindOf[r] = "select" /\ q.seats # {} /\ q.seats \cap Seeded = {}
        /\ UNCHANGED confirmations
    BY <1>1, <1>2 DEF Course, Acquire
  <1>4. ASSUME NEW x \in Request, req' = [req EXCEPT ![r] = x],
               x.pc = "render", x.txn = q.txn, x.proc = q.proc,
               x.departure = q.departure, x.seats = q.seats, x.now = q.now
        PROVE  Moves(r, x) /\ Course(r, x) /\ Holding(r, x) /\ Joined(x)
    BY <1>1, <1>2, <1>3, <1>4 DEF Moves, Course, Holding, Joined, Steps
  <1>5. CASE /\ KeepHold(q.txn, q.departure, q.seats, q.now)
             /\ \E h \in SameHold(q.txn, q.departure, q.seats, q.now) :
                   req' = [req EXCEPT ![r].pc = "render", ![r].hold = h]
    <2>1. PICK h \in Ids : req' = [req EXCEPT ![r].pc = "render", ![r].hold = h]
      BY <1>5 DEF SameHold, ExistingHold, FindLatestHold, HoldsOf
    <2> DEFINE x == [q EXCEPT !.pc = "render", !.hold = h]
    <2>2. x \in Request
      BY <1>1, <1>2 DEF Request
    <2>3. req' = [req EXCEPT ![r] = x]
      BY <1>2, <2>1 DEF Request
    <2>4. /\ x.pc = "render" /\ x.txn = q.txn /\ x.proc = q.proc
          /\ x.departure = q.departure /\ x.seats = q.seats /\ x.now = q.now
      BY <1>2 DEF Request
    <2> HIDE DEF x
    <2>5. StoreInv' /\ Grows /\ Quiet
      BY <1>5, SweepInv, SweepGrows DEF KeepHold, OrderInv
    <2> QED
      BY <1>1, <1>3, <1>4, <2>2, <2>3, <2>4, <2>5, GotoInv
  <1>6. CASE /\ RefuseHold(q.txn, q.departure, q.seats, q.now)
             /\ req' = [req EXCEPT ![r].pc = "render", ![r].answer = "SEAT-UNAVAILABLE"]
    <2> DEFINE x == [q EXCEPT !.pc = "render", !.answer = "SEAT-UNAVAILABLE"]
    <2>1. x \in Request
      BY <1>1, <1>2 DEF Request, Answers
    <2>2. req' = [req EXCEPT ![r] = x]
      BY <1>2, <1>6 DEF Request
    <2>3. /\ x.pc = "render" /\ x.txn = q.txn /\ x.proc = q.proc
          /\ x.departure = q.departure /\ x.seats = q.seats /\ x.now = q.now
      BY <1>2 DEF Request
    <2> HIDE DEF x
    <2>4. StoreInv' /\ Grows /\ Quiet
      BY <1>6, StutterInv, StutterGrows DEF RefuseHold, OrderInv
    <2> QED
      BY <1>1, <1>3, <1>4, <2>1, <2>2, <2>3, <2>4, GotoInv
  <1>7. CASE /\ PlaceHold(r, q.txn, q.departure, q.seats, q.now)
             /\ req' = [req EXCEPT ![r].pc = "render", ![r].hold = r]
    <2> DEFINE x == [q EXCEPT !.pc = "render", !.hold = r]
    <2>1. x \in Request
      BY <1>1, <1>2 DEF Request
    <2>2. req' = [req EXCEPT ![r] = x]
      BY <1>2, <1>7 DEF Request
    <2>3. /\ x.pc = "render" /\ x.txn = q.txn /\ x.proc = q.proc
          /\ x.departure = q.departure /\ x.seats = q.seats /\ x.now = q.now
      BY <1>2 DEF Request
    <2> HIDE DEF x
    <2>4. Moves(r, x) /\ Course(r, x) /\ Holding(r, x) /\ Joined(x)
      BY <1>4, <2>1, <2>2, <2>3
    <2>5. q.seats \in SUBSET Berths
      BY <1>2 DEF OnDeparture
    <2>6. StoreInv'
      BY <1>2, <1>3, <1>7, <2>5, PlaceHoldInv DEF OrderInv
    <2>7. /\ Grows
          /\ \A g \in Ids : holds'[g].booking = holds[g].booking
          /\ \A g \in Ids, b \in Berths : g # r =>
                (lock'[g][b] = "NONE" <=> lock[g][b] = "NONE")
          /\ \A b \in Berths : lock'[r][b] # "NONE" => b \in q.seats
          /\ holds'[r].departure = q.departure
      BY <1>7, PlaceHoldGrows DEF OrderInv
    <2>8. \A p \in Ids : /\ Asked(req[p])' /\ Course(p, req[p])' /\ Holding(p, req[p])'
                         /\ Joined(req[p])' /\ Told(p, req[p])'
      BY <2>1, <2>3, <2>4, <2>7, RequestsKept
    <2>9. InTheMap' /\ OrderTypeOK'
      BY <1>1, <1>3, <2>1, <2>4, MapKept
    <2>10. RowsInPlace'
      <3> SUFFICES ASSUME NEW h \in Ids, NEW b \in Berths, lock'[h][b] # "NONE"
                   PROVE  DepartureOf[b] = holds'[h].departure /\ b \notin Seeded
        BY DEF RowsInPlace
      <3>1. CASE h = r
        BY <1>2, <1>3, <2>7, <3>1 DEF OnDeparture
      <3>2. CASE h # r
        <4>1. lock[h][b] # "NONE"
          BY <2>7, <3>2
        <4>2. holds[h].rowid # 0
          BY <4>1 DEF OrderInv, StoreInv, PlacedHolds
        <4> QED
          BY <2>7, <4>1, <4>2 DEF Grows, OrderInv, RowsInPlace
      <3> QED
        BY <3>1, <3>2
    <2>11. ASSUME NEW h \in Ids, holds'[h].booking # None
           PROVE  /\ holds[h].booking \in Ids /\ holds'[h].booking = holds[h].booking
                  /\ holds[h].rowid # 0
                  /\ req[holds[h].booking].pc \in {"reread", "done", "lost"}
                  /\ req'[holds[h].booking] = req[holds[h].booking]
      <3>1. holds'[h].booking = holds[h].booking /\ holds[h].booking \in Ids
        BY <2>7, <2>11 DEF OrderInv, StoreInv, StoreTypeOK, HoldRow
      <3>2. holds[h].rowid # 0
        BY <2>11, <3>1 DEF OrderInv, StoreInv, PlacedHolds
      <3>3. req[holds[h].booking].pc \in {"reread", "done", "lost"}
        BY <2>11, <3>1 DEF OrderInv, SoldBy
      <3> QED
        BY <1>1, <2>1, <2>4, <3>1, <3>2, <3>3, MovesSame DEF OrderInv
    <2>12. SoldBy'
      <3> SUFFICES ASSUME NEW h \in Ids, holds'[h].booking # None
                   PROVE  /\ req'[holds'[h].booking].pc \in {"reread", "done", "lost"}
                          /\ Seemly(holds'[h].booking, SeatsOf(lock', h))
        BY DEF SoldBy, Seemly, SeatsOf
      <3> QED
        BY <2>7, <2>11 DEF OrderInv, SoldBy, Grows
    <2>13. SoldFromARunningHold'
      <3> SUFFICES ASSUME NEW h \in Ids, holds'[h].booking # None
                   PROVE  LET k == req'[holds'[h].booking] IN
                          /\ k.txn = holds'[h].txn
                          /\ k.departure = holds'[h].departure
                          /\ k.seats = SeatsOf(lock', h)
                          /\ k.now < holds'[h].expiresAt
        BY DEF SoldFromARunningHold, SeatsOf
      <3> QED
        BY <2>7, <2>11 DEF OrderInv, SoldFromARunningHold, Grows
    <2> QED
      BY <2>6, <2>8, <2>9, <2>10, <2>12, <2>13 DEF OrderInv
  <1> QED
    BY <1>5, <1>6, <1>7 DEF Acquire

\* The sweep of liveHoldAndManifest.
LEMMA SweepStepInv == ASSUME OrderInv, NEW r \in Ids, Sweep(r) PROVE OrderInv'
  <1>1. req[r].pc \in Steps /\ req[r].pc = "sweep" /\ req[r].pc \in Confirming
    BY DEF Sweep, Steps, Confirming
  <1>2. StoreInv' /\ Grows /\ Quiet
    BY SweepInv, SweepGrows DEF Sweep, OrderInv
  <1>3. "check" \in Steps
    BY DEF Steps
  <1>4. Course(r, [req[r] EXCEPT !.pc = "check"])
    BY <1>1, AtAStep DEF Course, Steps, Request
  <1>5. Holding(r, [req[r] EXCEPT !.pc = "check"])
    BY <1>1, AtAStep DEF Holding, Request
  <1> QED
    BY <1>1, <1>2, <1>3, <1>4, <1>5, GoOnInv DEF Sweep

\* The hold an init or a confirm goes by is fixed by what it read of it.
LEMMA CheckInv == ASSUME OrderInv, NEW r \in Ids, Check(r) PROVE OrderInv'
  <1>1. req[r].pc \in Steps /\ req[r].pc = "check" /\ req[r].pc \in Confirming
    BY DEF Check, Steps, Confirming
  <1>2. StoreInv' /\ Grows /\ Quiet
    BY StutterInv, StutterGrows DEF Check, OrderInv
  <1>3. /\ req \in [Ids -> Request] /\ req[r] \in Request /\ Course(r, req[r])
        /\ KindOf[r] # "select"
    BY <1>1, AtAStep DEF OrderInv, OrderTypeOK, Course
  <1>4. CASE Answer(r, "HOLD-REQUIRED", None)
    BY <1>1, <1>2, <1>4, AnswerInv DEF Answers
  <1>5. ASSUME NEW h \in FindLatestHold(req[r].txn), Verdict(r, h) # "OK",
               Answer(r, Verdict(r, h), None)
        PROVE  OrderInv'
    <2>1. Verdict(r, h) \in Answers
      BY DEF Verdict, Answers
    <2> QED
      BY <1>1, <1>2, <1>5, <2>1, AnswerInv
  <1>6. ASSUME NEW h \in FindLatestHold(req[r].txn), Verdict(r, h) = "OK",
               req' = [req EXCEPT ![r].pc = "claims", ![r].hold = h],
               UNCHANGED confirmations
        PROVE  OrderInv'
    <2> DEFINE x == [req[r] EXCEPT !.pc = "claims", !.hold = h]
    <2>1. h \in Ids /\ h \in HoldsOf(req[r].txn)
      BY DEF FindLatestHold, HoldsOf
    <2>2. /\ holds[h].expiresAt > req[r].now
          /\ holds[h].departure = req[r].departure
          /\ req[r].seats = SeatsOf(lock, h)
      BY <1>6 DEF Verdict, HoldLive
    <2>3. "claims" \in Steps
      BY DEF Steps
    <2>4. x \in Request
      BY <1>3, <2>1, <2>3 DEF Request
    <2>5. Moves(r, x)
      BY <1>1, <1>3, <1>6, <2>3 DEF Moves, Request
    <2>6. /\ x.pc = "claims" /\ x.hold = h /\ x.txn = req[r].txn /\ x.now = req[r].now
          /\ x.departure = req[r].departure /\ x.seats = req[r].seats
          /\ x.answer = req[r].answer
      BY <1>3 DEF Request
    <2> HIDE DEF x
    <2>7. Course(r, x) /\ Joined(x)
      BY <1>1, <1>3, <2>6 DEF Course, Joined, Steps
    <2>8. x.now \in Nat /\ holds[h].expiresAt \in Nat
      BY <2>1, <2>4 DEF Request, OrderInv, StoreInv, StoreTypeOK, HoldRow
    <2>9. Holding(r, x)
      BY <2>1, <2>2, <2>6, <2>8 DEF Holding
    <2> QED
      BY <1>1, <1>2, <1>6, <2>4, <2>5, <2>6, <2>7, <2>9, GotoInv
  <1> QED
    BY <1>4, <1>5, <1>6 DEF Check

\* A request that is not held up by the gender lock asks for no seat beside a
\* woman of the simulation: her seat never has a row.
LEMMA ClaimsInv == ASSUME OrderInv, NEW r \in Ids, Claims(r) PROVE OrderInv'
  <1>1. req[r].pc \in Steps /\ req[r].pc = "claims" /\ req[r].pc \in Confirming
    BY DEF Claims, Steps, Confirming
  <1>2. StoreInv' /\ Grows /\ Quiet
    BY StutterInv, StutterGrows DEF Claims, OrderInv
  <1>3. CASE Answer(r, "SEAT-GENDER-LOCKED", None)
    BY <1>1, <1>2, <1>3, AnswerInv DEF Answers
  <1>4. CASE ~GenderLocked(r) /\ Goto(r, "render") /\ UNCHANGED confirmations
    <2>1. "render" \in Steps
      BY DEF Steps
    <2>2. \A c \in SeededFemale : c \in Berths /\ LiveOn(c) = {}
      BY OrderAssumption DEF OrderInv, RowsInPlace, LiveOn, LiveState
    <2>3. Seemly(r, req[r].seats)
      BY <1>4, <2>2 DEF GenderLocked, FemaleOnly, Seemly
    <2>4. Course(r, [req[r] EXCEPT !.pc = "render"])
      BY <1>1, AtAStep DEF Course, Steps, Request
    <2>5. Holding(r, [req[r] EXCEPT !.pc = "render"])
      BY <1>1, <2>3, AtAStep DEF Holding, Request, Course
    <2> QED
      BY <1>1, <1>2, <1>4, <2>1, <2>4, <2>5, GoOnInv
  <1> QED
    BY <1>3, <1>4 DEF Claims

\* A confirm looks at the coach once more before it books.
LEMMA RenderInv == ASSUME OrderInv, NEW r \in Ids, Render(r) PROVE OrderInv'
  <1>1. req[r].pc \in Steps /\ req[r].pc = "render" /\ req[r].pc \in Confirming
    BY DEF Render, Steps, Confirming
  <1>2. StoreInv' /\ Grows /\ Quiet
    BY LookGrows DEF Render
  <1>3. "book" \in Steps /\ KindOf[r] = "confirm"
    BY DEF Steps, Render
  <1>4. Course(r, [req[r] EXCEPT !.pc = "book"])
    <2>1. req[r].answer = "NONE"
      BY <1>1, <1>3, AtAStep DEF Course
    <2> QED
      BY <1>1, <1>3, <2>1, AtAStep DEF Course, Steps, Request
  <1>5. Holding(r, [req[r] EXCEPT !.pc = "book"])
    BY <1>1, <1>3, AtAStep DEF Holding, Request
  <1> QED
    BY <1>1, <1>2, <1>3, <1>4, <1>5, GoOnInv DEF Render

\* A select or an init is answered.
LEMMA OfferInv == ASSUME OrderInv, NEW r \in Ids, Offer(r) PROVE OrderInv'
  <1>1. req[r].pc \in Steps /\ KindOf[r] # "confirm"
    BY DEF Offer, Steps
  <1>2. StoreInv' /\ Grows /\ Quiet
    BY LookGrows DEF Offer
  <1>3. (IF req[r].answer = "NONE" THEN "OK" ELSE req[r].answer) \in Answers
    BY <1>1, AtAStep DEF Answers, Request
  <1> QED
    BY <1>1, <1>2, <1>3, AnswerInv DEF Offer

\* The sale: the one step that gives a hold its booking.
LEMMA BookInv == ASSUME OrderInv, NEW r \in Ids, Book(r) PROVE OrderInv'
  <1> DEFINE q == req[r]
  <1>1. q.pc \in Steps /\ q.pc = "book" /\ q.pc \in Confirming /\ "reread" \in Steps
    BY DEF Book, Steps, Confirming
  <1>2. /\ req \in [Ids -> Request] /\ q \in Request /\ Course(r, q)
        /\ q.txn \in Txns /\ KindOf[r] = "confirm"
        /\ q.hold \in Ids /\ q.hold \in HoldsOf(q.txn) /\ holds[q.hold].rowid # 0
        /\ holds[q.hold].departure = q.departure
        /\ SeatsOf(lock, q.hold) = q.seats /\ q.now < holds[q.hold].expiresAt
        /\ Seemly(r, q.seats)
    BY <1>1, AtAStep DEF OrderInv, OrderTypeOK, Course, Holding, HoldsOf
  <1>3. CASE RefuseBooking(q.hold, q.seats) /\ Answer(r, "HOLD-EXPIRED", None)
    <2>1. StoreInv' /\ Grows /\ Quiet
      BY <1>3, StutterInv, StutterGrows DEF RefuseBooking, OrderInv
    <2> QED
      BY <1>1, <1>3, <2>1, AnswerInv DEF Answers
  <1>4. Course(r, [q EXCEPT !.pc = "reread"]) /\ Holding(r, [q EXCEPT !.pc = "reread"])
    BY <1>1, <1>2 DEF Course, Holding, Steps, Request
  <1>5. CASE /\ RepeatBooking(q.hold, q.txn, q.seats)
             /\ Goto(r, "reread") /\ UNCHANGED confirmations
    <2>1. StoreInv' /\ Grows /\ Quiet
      BY <1>5, StutterInv, StutterGrows DEF RepeatBooking, OrderInv
    <2> QED
      BY <1>1, <1>4, <1>5, <2>1, GoOnInv
  <1>6. CASE /\ PlaceBooking(r, q.hold, q.txn, q.seats)
             /\ Goto(r, "reread") /\ UNCHANGED confirmations
    <2> DEFINE x == [q EXCEPT !.pc = "reread"]
    <2>1. x \in Request
      BY <1>1, <1>2 DEF Request
    <2>2. Moves(r, x)
      BY <1>1, <1>2, <1>6 DEF Moves, Goto, Request
    <2>3. /\ x.pc = "reread" /\ x.txn = q.txn /\ x.departure = q.departure
          /\ x.seats = q.seats /\ x.now = q.now
      BY <1>2 DEF Request
    <2>4. Course(r, x) /\ Holding(r, x) /\ Joined(x)
      BY <1>4, <2>3 DEF Joined
    <2> HIDE DEF x
    <2>5. StoreInv'
      BY <1>2, <1>6, PlaceBookingInv DEF OrderInv
    <2>6. /\ Grows
          /\ holds'[q.hold].booking = r
          /\ \A g \in Ids : g # q.hold => holds'[g].booking = holds[g].booking
          /\ \A g \in Ids, b \in Berths : lock'[g][b] = "NONE" <=> lock[g][b] = "NONE"
      BY <1>2, <1>6, PlaceBookingGrows DEF OrderInv
    <2>7. \A p \in Ids : /\ Asked(req[p])' /\ Course(p, req[p])' /\ Holding(p, req[p])'
                         /\ Joined(req[p])' /\ Told(p, req[p])'
      BY <2>1, <2>2, <2>3, <2>4, <2>6, RequestsKept
    <2>8. InTheMap' /\ OrderTypeOK'
      BY <1>1, <1>6, <2>1, <2>2, MapKept
    <2>9. RowsInPlace'
      <3> SUFFICES ASSUME NEW h \in Ids, NEW b \in Berths, lock'[h][b] # "NONE"
                   PROVE  DepartureOf[b] = holds'[h].departure /\ b \notin Seeded
        BY DEF RowsInPlace
      <3>1. lock[h][b] # "NONE"
        BY <2>6
      <3>2. holds[h].rowid # 0
        BY <3>1 DEF OrderInv, StoreInv, PlacedHolds
      <3> QED
        BY <2>6, <3>1, <3>2 DEF Grows, OrderInv, RowsInPlace
    <2>10. req'[r] = x /\ \A p \in Ids : p # r => req'[p] = req[p]
      BY <2>1, <2>2, MovesSame DEF OrderInv
    <2>11. ASSUME NEW h \in Ids, holds'[h].booking # None, h # q.hold
           PROVE  /\ holds[h].booking \in Ids /\ holds'[h].booking = holds[h].booking
                  /\ holds[h].rowid # 0
                  /\ req[holds[h].booking].pc \in {"reread", "done", "lost"}
                  /\ req'[holds[h].booking] = req[holds[h].booking]
      <3>1. holds'[h].booking = holds[h].booking /\ holds[h].booking \in Ids
        BY <2>6, <2>11 DEF OrderInv, StoreInv, StoreTypeOK, HoldRow
      <3>2. holds[h].rowid # 0
        BY <2>11, <3>1 DEF OrderInv, StoreInv, PlacedHolds
      <3>3. req[holds[h].booking].pc \in {"reread", "done", "lost"}
        BY <2>11, <3>1 DEF OrderInv, SoldBy
      <3> QED
        BY <1>1, <2>10, <3>1, <3>2, <3>3
    <2>12. SoldBy'
      <3> SUFFICES ASSUME NEW h \in Ids, holds'[h].booking # None
                   PROVE  /\ req'[holds'[h].booking].pc \in {"reread", "done", "lost"}
                          /\ Seemly(holds'[h].booking, SeatsOf(lock', h))
        BY DEF SoldBy, Seemly, SeatsOf
      <3>1. CASE h = q.hold
        BY <1>2, <2>3, <2>6, <2>10, <3>1 DEF Grows
      <3>2. CASE h # q.hold
        BY <2>6, <2>11, <3>2 DEF OrderInv, SoldBy, Grows
      <3> QED
        BY <3>1, <3>2
    <2>13. SoldFromARunningHold'
      <3> SUFFICES ASSUME NEW h \in Ids, holds'[h].booking # None
                   PROVE  LET k == req'[holds'[h].booking] IN
                          /\ k.txn = holds'[h].txn
                          /\ k.departure = holds'[h].departure
                          /\ k.seats = SeatsOf(lock', h)
                          /\ k.now < holds'[h].expiresAt
        BY DEF SoldFromARunningHold, SeatsOf
      <3>1. CASE h = q.hold
        BY <1>2, <2>3, <2>6, <2>10, <3>1 DEF Grows, HoldsOf
      <3>2. CASE h # q.hold
        BY <2>6, <2>11, <3>2 DEF OrderInv, SoldFromARunningHold, Grows
      <3> QED
        BY <3>1, <3>2
    <2> QED
      BY <2>5, <2>7, <2>8, <2>9, <2>12, <2>13 DEF OrderInv
  <1> QED
    BY <1>3, <1>5, <1>6 DEF Book

\* The booking of the transaction answers.
LEMMA RereadInv == ASSUME OrderInv, NEW r \in Ids, Reread(r) PROVE OrderInv'
  <1>1. req[r].pc \in Steps
    BY DEF Reread, Steps
  <1>2. StoreInv' /\ Grows /\ Quiet
    BY StutterInv, StutterGrows DEF Reread, OrderInv
  <1>3. PICK k \in BookingOf(req[r].txn) : Answer(r, "OK", k)
    BY DEF Reread
  <1>4. "OK" \in Answers /\ k \in Ids /\ bookings[k].txn = req[r].txn
    BY <1>3 DEF Answers, BookingOf
  <1> QED
    BY <1>1, <1>2, <1>3, <1>4, AnswerInv

-----------------------------------------------------------------------------
(* Arrivals, restarts, and steps that touch no request.                    *)

\* A request arrives: nobody waits for it and nothing is booked under its id.
LEMMA ArriveInv ==
  ASSUME OrderInv, NEW r \in Ids, NEW i \in Input, Arrive(r, i)
  PROVE  OrderInv'
  <1> DEFINE x == Received(r, i)
  <1>1. /\ req[r].pc = "idle" /\ req' = [req EXCEPT ![r] = x]
        /\ UNCHANGED storeVars /\ UNCHANGED confirmations
    BY DEF Arrive
  <1>2. StoreInv' /\ Grows /\ Quiet
    BY <1>1, StutterInv, StutterGrows DEF OrderInv
  <1>3. /\ i.proc \in Procs /\ i.txn \in Txns /\ i.departure \in Departures
        /\ i.seats \in SUBSET Berths /\ i.seats \subseteq OnDeparture(i.departure)
        /\ i.sound \in BOOLEAN
    BY DEF Input
  <1>4. x \in Request
    BY <1>3 DEF Received, NoRequest, Request, Steps, Answers
  <1>5. /\ x.pc \in {"done", "lookup", "resolve"}
        /\ x.pc = "lookup" => KindOf[r] = "confirm"
        /\ x.pc = "resolve" => KindOf[r] # "confirm"
        /\ x.pc # "done" => x.answer = "NONE"
        /\ x.answer \in {"NONE", "BAD-REQUEST"}
        /\ x.now = 0
        /\ x.proc = i.proc /\ x.txn = i.txn
        /\ x.departure = i.departure /\ x.seats = i.seats
    BY DEF Received, NoRequest
  <1> HIDE DEF x
  <1>6. OrderTypeOK /\ req \in [Ids -> Request]
    BY DEF OrderInv, OrderTypeOK
  <1>7. /\ req' \in [Ids -> Request] /\ req'[r] = x
        /\ \A q \in Ids : q # r => req'[q] = req[q]
        /\ \A q \in Ids : req[q].pc # "idle" => req'[q] = req[q]
    BY <1>1, <1>4, <1>6
  <1>8. ASSUME NEW q \in Ids
        PROVE  /\ Asked(req[q])' /\ Course(q, req[q])' /\ Holding(q, req[q])'
               /\ Joined(req[q])' /\ Told(q, req[q])'
    <2>1. CASE q = r
      <3>1. clock \in Nat /\ clock' = clock
        BY <1>1 DEF storeVars, OrderInv, StoreInv, StoreTypeOK
      <3> QED
        BY <1>3, <1>5, <1>7, <2>1, <3>1 DEF Asked, Course, Holding, Joined, Told, Steps
    <2>2. CASE q # r
      <3>1. req'[q] = req[q] /\ UNCHANGED <<holds, lock, bookings, clock>>
        BY <1>1, <1>7, <2>2 DEF storeVars
      <3>2. Asked(req[q])' /\ Course(q, req[q])' /\ Holding(q, req[q])' /\ Told(q, req[q])'
        BY <3>1 DEF OrderInv, Asked, Course, Holding, Told, HoldsOf, SeatsOf
      <3>3. Joined(req[q])'
        BY <1>7, <3>1 DEF OrderInv, Joined
      <3> QED
        BY <3>2, <3>3
    <2> QED
      BY <2>1, <2>2
  <1>9. InTheMap'
    <2>1. \A p \in Procs, t \in Txns : confirmations[p][t] \in Ids \cup {None}
      BY DEF OrderInv, OrderTypeOK
    <2>2. "idle" \notin Confirming /\ (x.pc \in Confirming => KindOf[r] # "confirm")
      BY <1>5 DEF Confirming, Steps
    <2> QED
      BY <1>1, <1>7, <2>1, <2>2 DEF OrderInv, InTheMap
  <1>10. RowsInPlace' /\ SoldBy' /\ SoldFromARunningHold'
    BY <1>2, <1>7, SalesKept
  <1> QED
    BY <1>1, <1>2, <1>6, <1>7, <1>8, <1>9, <1>10 DEF OrderInv, OrderTypeOK

\* What a restart leaves of a request is no worse off: it takes no more steps.
LEMMA CrashInv == ASSUME OrderInv, NEW p \in Procs, Crash(p) PROVE OrderInv'
  <1>1. StoreInv' /\ Grows /\ Quiet
    BY StutterInv, StutterGrows DEF Crash, OrderInv
  <1>2. req \in [Ids -> Request] /\ confirmations \in [Procs -> [Txns -> Ids \cup {None}]]
    BY DEF OrderInv, OrderTypeOK
  <1>3. ASSUME NEW q \in Ids, req'[q] # req[q]
        PROVE  /\ req[q].proc = p /\ req[q].pc \in Steps
               /\ req'[q] = [req[q] EXCEPT !.pc = "lost"]
    BY <1>3 DEF Crash
  <1>4. ASSUME NEW q \in Ids
        PROVE  /\ req'[q] \in Request
               /\ req'[q].txn = req[q].txn /\ req'[q].proc = req[q].proc
               /\ req'[q].departure = req[q].departure /\ req'[q].seats = req[q].seats
               /\ req'[q].now = req[q].now
               /\ req'[q].pc = "lost" \/ req'[q] = req[q]
               /\ req'[q].pc = "idle" <=> req[q].pc = "idle"
    <2>1. req[q] \in Request
      BY <1>2
    <2>2. CASE req'[q] # req[q]
      <3>1. /\ req'[q] = [req[q] EXCEPT !.pc = "lost"]
            /\ req[q].pc # "idle"
        BY <1>3, <2>2 DEF Steps
      <3>2. [req[q] EXCEPT !.pc = "lost"] \in Request
        BY <2>1 DEF Request
      <3> QED
        BY <2>1, <3>1, <3>2 DEF Request
    <2>3. CASE req'[q] = req[q]
      BY <2>1, <2>3
    <2> QED
      BY <2>2, <2>3
  <1>5. req' \in [Ids -> Request]
    BY <1>4 DEF Crash
  <1>6. /\ confirmations' \in [Procs -> [Txns -> Ids \cup {None}]]
        /\ \A t \in Txns : confirmations'[p][t] = None
        /\ \A u \in Procs, t \in Txns : u # p => confirmations'[u][t] = confirmations[u][t]
    BY <1>2 DEF Crash
  <1>7. ASSUME NEW q \in Ids
        PROVE  /\ Asked(req[q])' /\ Course(q, req[q])' /\ Holding(q, req[q])'
               /\ Joined(req[q])' /\ Told(q, req[q])'
    <2>1. UNCHANGED <<holds, lock, bookings, clock>>
      BY DEF Crash, storeVars
    <2>2. Asked(req[q])'
      BY <1>4 DEF OrderInv, Asked
    <2>3. Joined(req[q])'
      BY <1>4 DEF OrderInv, Joined
    <2>4. CASE req'[q] = req[q]
      BY <2>1, <2>2, <2>3, <2>4 DEF OrderInv, Course, Holding, Told, HoldsOf, SeatsOf
    <2>5. CASE req'[q].pc = "lost"
      BY <1>4, <2>1, <2>2, <2>3, <2>5 DEF OrderInv, Course, Holding, Told, Steps
    <2> QED
      BY <1>4, <2>4, <2>5
  <1>8. InTheMap'
    <2>1. ASSUME NEW u \in Procs, NEW t \in Txns, confirmations'[u][t] # None
          PROVE  /\ KindOf[confirmations'[u][t]] = "confirm"
                 /\ req'[confirmations'[u][t]].pc # "idle"
                 /\ req'[confirmations'[u][t]].txn = t
      <3>1. confirmations'[u][t] = confirmations[u][t] /\ confirmations[u][t] \in Ids
        BY <1>2, <1>6, <2>1
      <3> QED
        BY <1>4, <2>1, <3>1 DEF OrderInv, InTheMap
    <2>2. ASSUME NEW q \in Ids, KindOf[q] = "confirm", req'[q].pc \in Confirming
          PROVE  confirmations'[req'[q].proc][req'[q].txn] = q
      <3>1. req'[q] = req[q] /\ confirmations[req[q].proc][req[q].txn] = q
        BY <1>4, <2>2 DEF Confirming, Steps, OrderInv, InTheMap
      <3>2. req[q].proc \in Procs /\ req[q].txn \in Txns
        BY <2>2, <3>1 DEF Confirming, Steps, OrderInv, Asked
      <3>3. req[q].proc # p
        BY <2>2, <3>1 DEF Crash, Confirming, Steps
      <3> QED
        BY <1>6, <3>1, <3>2, <3>3
    <2> QED
      BY <2>1, <2>2 DEF InTheMap
  <1>9. RowsInPlace' /\ SoldBy' /\ SoldFromARunningHold'
    BY <1>1, <1>4, SalesKept
  <1> QED
    BY <1>1, <1>5, <1>6, <1>7, <1>8, <1>9 DEF OrderInv, OrderTypeOK

\* A search, a cancellation, the clock: no request is touched.
LEMMA RestInv ==
  ASSUME OrderInv, StoreInv', Grows, Quiet, UNCHANGED requestVars
  PROVE  OrderInv'
  <1>1. req' = req /\ confirmations' = confirmations
    BY DEF requestVars
  <1>2. ASSUME NEW q \in Ids
        PROVE  /\ Asked(req[q])' /\ Course(q, req[q])' /\ Holding(q, req[q])'
               /\ Joined(req[q])' /\ Told(q, req[q])'
    <2>1. req[q] \in Request /\ clock \in Nat
      BY DEF OrderInv, OrderTypeOK, StoreInv, StoreTypeOK
    <2>2. Asked(req[q])' /\ Joined(req[q])'
      BY <1>1 DEF OrderInv, Asked, Joined
    <2>3. req[q].now <= clock'
      BY <2>1 DEF OrderInv, Course, Grows, Request
    <2>4. Course(q, req[q])'
      BY <1>1, <2>3 DEF OrderInv, Course
    <2>5. Holding(q, req[q])'
      BY <1>1 DEF OrderInv, Holding, Grows, HoldsOf
    <2>6. Told(q, req[q])'
      BY <1>1, StoreAssumption DEF OrderInv, Told, Grows, Asked
    <2> QED
      BY <2>2, <2>4, <2>5, <2>6
  <1>3. OrderTypeOK' /\ InTheMap'
    BY <1>1 DEF OrderInv, OrderTypeOK, InTheMap
  <1>4. RowsInPlace' /\ SoldBy' /\ SoldFromARunningHold'
    BY <1>1, SalesKept
  <1> QED
    BY <1>2, <1>3, <1>4 DEF OrderInv

\* Every step of the service keeps the invariant.
LEMMA OrderStepInv == OrderInv /\ [OrderNext]_orderVars => OrderInv'
  <1> SUFFICES ASSUME OrderInv, [OrderNext]_orderVars PROVE OrderInv'
    OBVIOUS
  <1>1. ASSUME NEW r \in Ids, NEW i \in Inputs[r], Arrive(r, i) PROVE OrderInv'
    <2>1. i \in Input
      BY OrderAssumption
    <2> QED
      BY <1>1, <2>1, ArriveInv
  <1>2. ASSUME NEW r \in Ids, RequestStep(r) PROVE OrderInv'
    BY <1>2, LookupInv, JoinInv, AwaitInv, ResolveInv, InstantInv, SnapshotInv, AcquireInv,
       SweepStepInv, CheckInv, ClaimsInv, RenderInv, OfferInv, BookInv, RereadInv
       DEF RequestStep
  <1>3. ASSUME NEW D, NEW now, Search(D, now) PROVE OrderInv'
    BY <1>3, SweepInv, SweepGrows, RestInv DEF Search, OrderInv
  <1>4. ASSUME NEW k \in Ids, NEW S \in (SUBSET BookedSeats(k)) \ {{}}, Cancel(k, S)
        PROVE  OrderInv'
    <2>1. S \in SUBSET Berths
      BY DEF BookedSeats
    <2> QED
      BY <1>4, <2>1, ApplyCancellationInv, CancellationGrows, RestInv DEF Cancel, OrderInv
  <1>5. ASSUME NEW p \in Mortal, Crash(p) PROVE OrderInv'
    BY <1>5, CrashInv, OrderAssumption
  <1>6. CASE ClockTick
    <2>1. StoreInv'
      BY <1>6, StepInv DEF ClockTick, StoreNext, OrderInv
    <2>2. Grows /\ Quiet
      BY <1>6 DEF ClockTick, Tick, Grows, Quiet, OrderInv, StoreInv, StoreTypeOK
    <2> QED
      BY <1>6, <2>1, <2>2, RestInv DEF ClockTick
  <1>7. CASE UNCHANGED orderVars
    <2>1. UNCHANGED storeVars /\ UNCHANGED requestVars
      BY <1>7 DEF orderVars, storeVars, requestVars
    <2> QED
      BY <2>1, StutterInv, StutterGrows, RestInv DEF OrderInv
  <1> QED
    BY <1>1, <1>2, <1>3, <1>4, <1>5, <1>6, <1>7 DEF OrderNext

\* It holds before the first request.
LEMMA OrderInitInv == OrderInit => OrderInv
  <1> SUFFICES ASSUME OrderInit PROVE OrderInv
    OBVIOUS
  <1>1. StoreInv
    BY InitInv DEF OrderInit
  <1>2. NoRequest \in Request
    BY DEF NoRequest, Request, Answers
  <1>3. /\ req = [r \in Ids |-> NoRequest] /\ clock = 0
        /\ confirmations = [p \in Procs |-> [t \in Txns |-> None]]
        /\ \A h \in Ids : holds[h].booking = None /\ \A b \in Berths : lock[h][b] = "NONE"
    BY DEF OrderInit, StoreInit, NoHold
  <1>4. OrderTypeOK
    BY <1>2, <1>3 DEF OrderTypeOK
  <1>5. NoRequest.pc = "idle" /\ NoRequest.now = 0
    BY DEF NoRequest
  <1>6. \A r \in Ids : /\ Asked(req[r]) /\ Course(r, req[r]) /\ Holding(r, req[r])
                       /\ Joined(req[r]) /\ Told(r, req[r])
    BY <1>3, <1>5 DEF Asked, Course, Holding, Joined, Told, Steps
  <1>7. InTheMap
    BY <1>3, <1>5 DEF InTheMap, Confirming, Steps
  <1>8. RowsInPlace /\ SoldBy /\ SoldFromARunningHold
    BY <1>3 DEF RowsInPlace, SoldBy, SoldFromARunningHold
  <1> QED
    BY <1>1, <1>4, <1>6, <1>7, <1>8 DEF OrderInv

\* The invariant of the service: the tables', and what each request has made
\* sure of at each of its awaits, under every interleaving and restart.
THEOREM OrderInvariant == OrderSpec => []OrderInv
  BY OrderInitInv, OrderStepInv, PTL DEF OrderSpec

-----------------------------------------------------------------------------

\* Each step of a request is a transaction the store admits, or none: the
\* instant it passes is one it has read, the seats are of one departure, the
\* hold is its transaction's and the manifest is the hold's.
LEMMA StepDrivesStore ==
  ASSUME OrderInv, [OrderNext]_orderVars PROVE [StoreNext]_storeVars
  <1>1. ASSUME NEW r \in Ids, RequestStep(r), ~UNCHANGED storeVars PROVE StoreNext
    <2>1. \/ /\ req[r].pc \in {"snapshot", "render"} /\ Look(req[r].departure)
          \/ req[r].pc = "acquire" /\ Acquire(r)
          \/ req[r].pc = "sweep" /\ Sweep(r)
          \/ req[r].pc = "book" /\ Book(r)
      BY <1>1 DEF RequestStep, Lookup, Join, Await, Resolve, Instant, Snapshot, Acquire,
                  Sweep, Check, Claims, Render, Offer, Book, Reread
    <2>2. req[r].pc \in Steps
      BY <2>1 DEF Steps
    <2>3. /\ req[r].txn \in Txns /\ req[r].departure \in Departures
          /\ req[r].seats \subseteq OnDeparture(req[r].departure)
          /\ req[r].now \in 0..clock /\ clock \in 0..clock
          /\ Course(r, req[r]) /\ Holding(r, req[r])
      BY <2>2, AtAStep
    <2>4. {req[r].departure} \in SUBSET Departures
      BY <2>3
    <2>5. CASE Look(req[r].departure)
      BY <2>3, <2>4, <2>5 DEF Look, StoreNext
    <2>6. CASE Sweep(r)
      BY <2>3, <2>4, <2>6 DEF Sweep, StoreNext
    <2>7. CASE req[r].pc = "acquire" /\ Acquire(r)
      <3>1. AcquireHold(req[r].txn, req[r].departure, req[r].seats, req[r].now)
        BY <2>7 DEF Acquire, AcquireHold
      <3>2. req[r].seats \in (SUBSET OnDeparture(req[r].departure)) \ {{}}
        BY <2>3, <2>7 DEF Course
      <3> QED
        BY <2>3, <3>1, <3>2 DEF StoreNext
    <2>8. CASE req[r].pc = "book" /\ Book(r)
      <3>1. /\ req[r].hold \in HoldsOf(req[r].txn)
            /\ SeatsOf(lock, req[r].hold) = req[r].seats
        BY <2>3, <2>8 DEF Course, Holding
      <3>2. ConfirmBooking(req[r].hold, req[r].txn, SeatsOf(lock, req[r].hold))
        BY <2>8, <3>1 DEF Book, ConfirmBooking
      <3> QED
        BY <2>3, <3>1, <3>2 DEF StoreNext
    <2> QED
      BY <2>1, <2>5, <2>6, <2>7, <2>8
  <1>2. ASSUME NEW r \in Ids, NEW i \in Inputs[r], Arrive(r, i) PROVE UNCHANGED storeVars
    BY <1>2 DEF Arrive
  <1>3. ASSUME NEW D \in SUBSET Departures, NEW now \in 0..clock, Search(D, now)
        PROVE  StoreNext
    BY <1>3 DEF Search, StoreNext
  <1>4. ASSUME NEW k \in Ids, NEW S \in (SUBSET BookedSeats(k)) \ {{}}, Cancel(k, S)
        PROVE  StoreNext
    BY <1>4 DEF Cancel, StoreNext
  <1>5. ASSUME NEW p \in Mortal, Crash(p) PROVE UNCHANGED storeVars
    BY <1>5 DEF Crash
  <1>6. CASE ClockTick
    BY <1>6 DEF ClockTick, StoreNext
  <1>7. CASE UNCHANGED orderVars
    BY <1>7 DEF orderVars, storeVars
  <1> QED
    BY <1>1, <1>2, <1>3, <1>4, <1>5, <1>6, <1>7 DEF OrderNext

\* The service implements the store: whatever the requests, however their
\* awaits interleave and whenever a process dies, the tables see only what the
\* store's own specification allows (order.ts against reserved/store.ts).
THEOREM RequestsDriveTheStore == OrderSpec => ImplementsStore
  <1>1. OrderInit => StoreInit
    BY DEF OrderInit
  <1>2. OrderInv /\ [OrderNext]_orderVars => [StoreNext]_storeVars
    BY StepDrivesStore
  <1> QED
    BY <1>1, <1>2, OrderInvariant, PTL DEF OrderSpec, ImplementsStore, StoreSpec

\* No berth is ever held or sold twice by the running service.
THEOREM ServiceNeverSellsTwice == OrderSpec => []OneLiveClaimPerBerth
  BY RequestsDriveTheStore, NoDoubleSale, PTL DEF ImplementsStore

\* A buyer is told of an order of their own transaction and no other, and a
\* process works on one confirm of a transaction at a time (confirm).
THEOREM ConfirmsAreOnce == OrderSpec => []ConfirmedOnce
  <1>1. OrderInv => ConfirmedOnce
    <2>1. OrderInv => AnsweredOrdersAreBooked
      BY StoreAssumption DEF OrderInv, Told, AnsweredOrdersAreBooked
    <2>2. OrderInv => OneConfirmInFlight
      BY DEF OrderInv, InTheMap, OneConfirmInFlight
    <2> QED
      BY <2>1, <2>2 DEF ConfirmedOnce
  <1> QED
    BY <1>1, OrderInvariant, PTL

\* Every sale is of a hold of the confirm's own transaction, departure and
\* manifest that ran at the confirm's instant (liveHoldAndManifest, then
\* confirmBooking several awaits later).
THEOREM SalesComeFromHolds == OrderSpec => []SoldFromARunningHold
  BY OrderInvariant, PTL DEF OrderInv

\* No man is booked beside a woman of the simulation (assertGenderLocks).
THEOREM SimulatedWomenAreRespected == OrderSpec => []NoManBesideASimulatedWoman
  <1>1. OrderInv => NoManBesideASimulatedWoman
    <2> SUFFICES ASSUME OrderInv, NEW h \in Ids, NEW b \in Berths, lock[h][b] = "BOOKED",
                        NEW c \in SeededFemale, <<b, c>> \in Adjacent
                 PROVE  GenderOf[holds[h].booking] = "female"
      BY DEF NoManBesideASimulatedWoman
    <2>1. holds[h].booking # None
      BY DEF OrderInv, StoreInv, BookingIds
    <2>2. b \in SeatsOf(lock, h)
      BY DEF SeatsOf
    <2> QED
      BY <2>1, <2>2 DEF OrderInv, SoldBy, Seemly
  <1> QED
    BY <1>1, OrderInvariant, PTL

\* A select is refused in acquireHold only for a berth that is sold, or held
\* past the instant of the select: never for a hold that has run out.
THEOREM RefusalsAreForLiveClaims == OrderSpec => RefusedOnlyForALiveClaim
  <1> DEFINE Justified(r) == \E h \in Ids, b \in req[r].seats :
                \/ lock[h][b] = "BOOKED"
                \/ lock[h][b] = "HELD" /\ holds[h].expiresAt > req[r].now
             Refused(r) == req[r].pc = "acquire" /\ req'[r].answer = "SEAT-UNAVAILABLE"
  <1>1. ASSUME OrderInv, OrderNext, NEW r \in Ids, Refused(r) PROVE Justified(r)
    <2>1. req[r].pc \in Steps /\ req \in [Ids -> Request]
      BY <1>1 DEF Steps, OrderInv, OrderTypeOK
    <2>2. /\ req[r].answer = "NONE" /\ req[r] \in Request
          /\ req[r].seats \subseteq OnDeparture(req[r].departure)
          /\ req[r].now \in Nat
      BY <1>1, <2>1, AtAStep DEF Course
    <2>3. req'[r] # req[r]
      BY <1>1, <2>2
    <2>4. Acquire(r)
      <3>1. ASSUME NEW q \in Ids, RequestStep(q) PROVE q = r
        BY <2>1, <2>3, <3>1 DEF RequestStep, Lookup, Join, Await, Resolve, Instant,
           Snapshot, Acquire, Sweep, Check, Claims, Render, Offer, Book, Reread, Goto, Answer
      <3>2. ASSUME NEW q \in Ids, NEW i \in Inputs[q], Arrive(q, i) PROVE FALSE
        BY <1>1, <2>1, <2>3, <3>2 DEF Arrive
      <3>3. ASSUME NEW p \in Mortal, Crash(p) PROVE FALSE
        BY <1>1, <2>2, <3>3 DEF Crash, Request
      <3>4. ~UNCHANGED requestVars
        BY <2>3 DEF requestVars
      <3>5. RequestStep(r)
        BY <1>1, <3>1, <3>2, <3>3, <3>4 DEF OrderNext, Search, Cancel, ClockTick
      <3> QED
        BY <1>1, <3>5 DEF RequestStep, Lookup, Join, Await, Resolve, Instant,
           Snapshot, Acquire, Sweep, Check, Claims, Render, Offer, Book, Reread
    <2> DEFINE d == req[r].departure
               now == req[r].now
    <2>5. RefuseHold(req[r].txn, d, req[r].seats, now)
      BY <1>1, <2>1, <2>2, <2>4 DEF Acquire, Request
    <2>6. PICK b \in req[r].seats, h \in Ids :
            Freed(req[r].txn, d, now)[h][b] \in LiveState
      BY <2>5 DEF RefuseHold, Taken
    <2>7. b \in Berths /\ DepartureOf[b] = d
      BY <2>2, <2>6 DEF OnDeparture
    <2>8. Swept(lock, {d}, now)[h][b] \in LiveState
      BY <2>6, <2>7 DEF Freed, Released, LiveState
    <2>9. CASE lock[h][b] = "HELD"
      <3>1. holds[h].departure = d
        BY <1>1, <2>7, <2>9 DEF OrderInv, RowsInPlace
      <3>2. ~(holds[h].expiresAt <= now)
        BY <2>7, <2>8, <2>9, <3>1 DEF Swept, LiveState
      <3>3. holds[h].expiresAt \in Nat
        BY <1>1 DEF OrderInv, StoreInv, StoreTypeOK, HoldRow
      <3> QED
        BY <2>2, <2>6, <2>9, <3>2, <3>3
    <2>10. CASE lock[h][b] # "HELD"
      BY <2>6, <2>7, <2>8, <2>10 DEF Swept, LiveState
    <2> QED
      BY <2>9, <2>10
  <1>2. OrderInv /\ [OrderNext]_orderVars =>
          [\A r \in Ids : Refused(r) => Justified(r)]_orderVars
    BY <1>1
  <1> QED
    BY <1>2, OrderInvariant, PTL DEF OrderSpec, RefusedOnlyForALiveClaim

\* The running service keeps the promise about berths: requests, restarts and
\* all, it is the sale of berths of SeatSale.
THEOREM ServiceImplementsSeatSale == OrderSpec => ImplementsSeatSale
  BY RequestsDriveTheStore, StoreImplementsSeatSale, PTL DEF ImplementsStore

-----------------------------------------------------------------------------
(* The handler around the requests.                                        *)

Exchange == [status : Statuses, deadline : Nat \cup {None}, sale : SUBSET Ids]

\* What becomes of request r, now x, that found the sale y.sale of its transaction
\* when it came: a confirm gets no further than its first read.
Retried(r, x, y) ==
    /\ y.status = "none" => y.sale = {}
    /\ y.sale # {} => y.sale \subseteq BookingOf(x.txn) /\ x.txn \in Txns
    /\ KindOf[r] = "confirm" /\ y.sale # {} =>
          \/ x.pc \in {"lookup", "lost"}
          \/ x.pc = "done" /\ x.answer = "OK" /\ x.order \in y.sale
          \/ x.pc = "done" /\ x.answer \in {"INTERNAL-ERROR", "BAD-REQUEST"}

HandlerInv ==
    /\ OrderInv
    /\ http \in [Ids -> Exchange]
    /\ \A r \in Ids : Retried(r, req[r], http[r])

\* A booking stays its transaction's, whatever the store does.
LEMMA BookingsStay ==
  ASSUME StoreInv, [StoreNext]_storeVars
  PROVE  \A k \in Ids : bookings[k].txn # None => bookings'[k].txn = bookings[k].txn
  <1>1. ASSUME NEW t \in Txns, NEW h \in HoldsOf(t), ConfirmBooking(h, t, SeatsOf(lock, h)),
               NEW k \in Ids, bookings[k].txn # None
        PROVE  bookings'[k].txn = bookings[k].txn
    <2>1. h \in Ids
      BY DEF HoldsOf
    <2> QED
      BY <1>1, <2>1, PlaceBookingGrows
         DEF ConfirmBooking, RefuseBooking, RepeatBooking, Grows, storeVars
  <1>2. ASSUME NEW k \in Ids, NEW S, ApplyCancellation(k, S), NEW j \in Ids
        PROVE  bookings'[j].txn = bookings[j].txn
    BY <1>2 DEF ApplyCancellation, StoreInv, StoreTypeOK
  <1>3. ASSUME NEW D, NEW now, SweepExpiredHolds(D, now) PROVE bookings' = bookings
    BY <1>3 DEF SweepExpiredHolds
  <1>4. ASSUME NEW t, NEW d, NEW S, NEW now, AcquireHold(t, d, S, now)
        PROVE  bookings' = bookings
    BY <1>4 DEF AcquireHold, KeepHold, RefuseHold, PlaceHold, SweepExpiredHolds, storeVars
  <1>5. CASE Tick \/ UNCHANGED storeVars
    BY <1>5 DEF Tick, storeVars
  <1> QED
    BY <1>1, <1>2, <1>3, <1>4, <1>5 DEF StoreNext

\* A statement that throws answers its request and leaves the tables alone.
LEMMA FaultInv == ASSUME OrderInv, NEW r \in Ids, Fault(r) PROVE OrderInv'
  <1>1. /\ req[r].pc \in Steps
        /\ Answer(r, "INTERNAL-ERROR", None)
        /\ UNCHANGED storeVars
    BY DEF Fault, Statements
  <1>2. StoreInv' /\ Grows /\ Quiet
    BY <1>1, StutterInv, StutterGrows DEF OrderInv
  <1>3. "INTERNAL-ERROR" \in Answers /\ "INTERNAL-ERROR" # "OK"
    BY DEF Answers
  <1> DEFINE a == "INTERNAL-ERROR"
  <1>4. a \in Answers /\ a # "OK" /\ Answer(r, a, None)
    BY <1>1, <1>3
  <1> HIDE DEF a
  <1> QED
    BY <1>1, <1>2, <1>4, AnswerInv

\* A step of the handler is a step of the service, the failure of a request, or
\* neither: the tables see what the store allows and the invariant of the
\* service is kept.
LEMMA HandlerKeepsOrder ==
  ASSUME OrderInv, [HandlerNext]_handlerVars
  PROVE  OrderInv' /\ [StoreNext]_storeVars
  <1>1. ASSUME [OrderNext]_orderVars PROVE OrderInv' /\ [StoreNext]_storeVars
    BY <1>1, OrderStepInv, StepDrivesStore
  <1>2. ASSUME NEW r \in Ids, Fault(r) PROVE OrderInv' /\ [StoreNext]_storeVars
    BY <1>2, FaultInv DEF Fault
  <1>3. CASE \E r \in Ids : Nack(r)
    BY <1>1, <1>3 DEF Nack
  <1>4. CASE \E r \in Ids : \E i \in Inputs[r] : Handle(r, i)
    BY <1>1, <1>4 DEF Handle, OrderNext
  <1>5. CASE \E r \in Ids : Serve(r) \/ Deadline(r) \/ Dispatch(r)
    BY <1>1, <1>5 DEF Serve, Deadline, Dispatch, OrderNext
  <1>6. CASE \E D \in SUBSET Departures, now \in 0..clock : Search(D, now)
    BY <1>1, <1>6 DEF OrderNext
  <1>7. CASE \E k \in Ids : \E S \in (SUBSET BookedSeats(k)) \ {{}} : Cancel(k, S)
    BY <1>1, <1>7 DEF OrderNext
  <1>8. CASE \E p \in Mortal : HandlerCrash(p)
    BY <1>1, <1>8 DEF HandlerCrash, OrderNext
  <1>9. CASE HandlerTick
    BY <1>1, <1>9 DEF HandlerTick, OrderNext
  <1>10. CASE UNCHANGED handlerVars
    BY <1>1, <1>10 DEF handlerVars, orderVars
  <1> QED
    BY <1>2, <1>3, <1>4, <1>5, <1>6, <1>7, <1>8, <1>9, <1>10 DEF HandlerNext

\* What settling does to an exchange: its status only, and never back to none.
LEMMA SettleExchange ==
  ASSUME NEW r \in Ids, NEW x \in Exchange, NEW y \in Settle(r, x)
  PROVE  y \in Exchange /\ y.sale = x.sale /\ (y.status = "none" => x.status = "none")
  <1>1. PICK s : /\ s \in Statuses /\ y = [x EXCEPT !.status = s]
                 /\ s = "none" => x.status = "none"
    BY DEF Settle, Statuses, Open, Exchange
  <1> QED
    BY <1>1 DEF Exchange

\* The handler's part of a step of r: the exchange of r is some y with the sale of x.
LEMMA RespondExchange ==
  ASSUME NEW r \in Ids, NEW x \in Exchange, http \in [Ids -> Exchange], Respond(r, x)
  PROVE  /\ http' \in [Ids -> Exchange]
         /\ \A q \in Ids : q # r => http'[q] = http[q]
         /\ http'[r].sale = x.sale
         /\ http'[r].status = "none" => x.status = "none"
  <1>1. PICK y \in IF req'[r].pc = "done" THEN Settle(r, x) ELSE {x} :
                 http' = [http EXCEPT ![r] = y]
    BY DEF Respond
  <1>2. y \in Exchange /\ y.sale = x.sale /\ (y.status = "none" => x.status = "none")
    BY <1>1, SettleExchange
  <1> QED
    BY <1>1, <1>2

\* A step of request r is taken at one of its awaits and touches no other.
LEMMA StepIsLocal ==
  ASSUME OrderInv, NEW r \in Ids, RequestStep(r)
  PROVE  /\ req[r].pc \in Steps
         /\ req'[r].txn = req[r].txn
         /\ \A q \in Ids : q # r => req'[q] = req[q]
  <1>1. req \in [Ids -> Request]
    BY DEF OrderInv, OrderTypeOK
  <1>2. req[r].pc \in Steps
    BY DEF RequestStep, Steps, Lookup, Join, Await, Resolve, Instant, Snapshot, Acquire,
           Sweep, Check, Claims, Render, Offer, Book, Reread
  <1>3. ASSUME NEW a, NEW o, Answer(r, a, o)
        PROVE  req'[r].txn = req[r].txn /\ \A q \in Ids : q # r => req'[q] = req[q]
    BY <1>1, <1>3 DEF Answer, Request
  <1>4. ASSUME NEW pc, Goto(r, pc)
        PROVE  req'[r].txn = req[r].txn /\ \A q \in Ids : q # r => req'[q] = req[q]
    BY <1>1, <1>4 DEF Goto, Request
  <1>5. CASE Join(r) \/ Instant(r) \/ Acquire(r) \/ Check(r)
    BY <1>1, <1>3, <1>4, <1>5 DEF Join, Instant, Acquire, Check, Request
  <1>6. CASE \/ Lookup(r) \/ Await(r) \/ Resolve(r) \/ Snapshot(r) \/ Sweep(r) \/ Claims(r)
             \/ Render(r) \/ Offer(r) \/ Book(r) \/ Reread(r)
    <2> DEFINE Moved == (\E a, o : Answer(r, a, o)) \/ (\E pc : Goto(r, pc))
    <2>1. Lookup(r) => Moved
      BY Zenon DEF Lookup
    <2>2. Await(r) => Moved
      BY Zenon DEF Await
    <2>3. Resolve(r) => Moved
      BY Zenon DEF Resolve
    <2>4. Snapshot(r) => Moved
      BY Zenon DEF Snapshot
    <2>5. Sweep(r) => Moved
      BY Zenon DEF Sweep
    <2>6. Claims(r) => Moved
      BY Zenon DEF Claims
    <2>7. Render(r) \/ Offer(r) => Moved
      BY Zenon DEF Render, Offer
    <2>8. Book(r) \/ Reread(r) => Moved
      BY Zenon DEF Book, Reread
    <2>9. Moved
      BY <1>6, <2>1, <2>2, <2>3, <2>4, <2>5, <2>6, <2>7, <2>8, Zenon
    <2> QED
      BY <1>2, <1>3, <1>4, <2>9
  <1>7. \/ Join(r) \/ Instant(r) \/ Acquire(r) \/ Check(r) \/ Lookup(r) \/ Await(r)
        \/ Resolve(r) \/ Snapshot(r) \/ Sweep(r) \/ Claims(r) \/ Render(r) \/ Offer(r)
        \/ Book(r) \/ Reread(r)
    BY DEF RequestStep
  <1> QED
    BY <1>2, <1>5, <1>6, <1>7

\* A request that found a sale keeps it, whoever else moves: bookings stay.
LEMMA RetriedStays ==
  ASSUME NEW q \in Ids, Retried(q, req[q], http[q]),
         \A k \in Ids : bookings[k].txn # None => bookings'[k].txn = bookings[k].txn,
         http'[q].sale = http[q].sale,
         http'[q].status = "none" => http[q].status = "none",
         req'[q].txn = req[q].txn,
         KindOf[q] = "confirm" /\ http[q].sale # {} =>
            \/ req'[q].pc \in {"lookup", "lost"}
            \/ /\ req'[q].pc = "done" /\ req'[q].answer = "OK"
               /\ req'[q].order \in http[q].sale
            \/ req'[q].pc = "done" /\ req'[q].answer \in {"INTERNAL-ERROR", "BAD-REQUEST"}
  PROVE  Retried(q, req[q], http[q])'
  <1>1. \A t \in Txns : BookingOf(t) \subseteq BookingOf(t)'
    BY StoreAssumption DEF BookingOf
  <1>2. http[q].sale # {} => http[q].sale \subseteq BookingOf(req[q].txn)'
    BY <1>1 DEF Retried
  <1> QED
    BY <1>2 DEF Retried, BookingOf

\* A valid request comes: the sale it finds is its own transaction's.
LEMMA HandleInv ==
  ASSUME HandlerInv, OrderInv', NEW r \in Ids, NEW i \in Inputs[r], Handle(r, i)
  PROVE  HandlerInv'
  <1>1. /\ i \in Input /\ i.txn \in Txns
        /\ req \in [Ids -> Request] /\ clock \in Nat /\ http \in [Ids -> Exchange]
    BY OrderAssumption DEF Input, HandlerInv, OrderInv, OrderTypeOK, StoreInv, StoreTypeOK
  <1>2. /\ req' = [req EXCEPT ![r] = Received(r, i)] /\ bookings' = bookings
        /\ Respond(r, Connection(i))
    BY DEF Handle, Arrive, storeVars
  <1>3. /\ Connection(i) \in Exchange /\ Connection(i).sale = BookingOf(i.txn)
        /\ Connection(i).status # "none"
    <2> DEFINE s == IF i.proc \in SyncProcs THEN "open" ELSE "acked"
               d == IF i.proc \in SyncProcs /\ SyncTimeout > 0 THEN clock + SyncTimeout ELSE None
               b == BookingOf(i.txn)
    <2>1. /\ s \in Statuses /\ s # "none" /\ d \in Nat \cup {None} /\ b \in SUBSET Ids
          /\ Connection(i) = [NoExchange EXCEPT !.status = s, !.deadline = d, !.sale = b]
      BY <1>1, HandlerAssumption DEF Statuses, Open, BookingOf, Connection
    <2> HIDE DEF s, d, b
    <2>2. Connection(i) = [status |-> s, deadline |-> d, sale |-> b]
      BY <2>1 DEF NoExchange
    <2> QED
      BY <2>1, <2>2 DEF Exchange, b
  <1>4. /\ http' \in [Ids -> Exchange]
        /\ \A q \in Ids : q # r => http'[q] = http[q]
        /\ http'[r].sale = BookingOf(i.txn)
        /\ http'[r].status # "none"
    BY <1>1, <1>2, <1>3, RespondExchange
  <1>5. /\ Received(r, i).txn = i.txn
        /\ KindOf[r] = "confirm" =>
              \/ Received(r, i).pc = "lookup"
              \/ Received(r, i).pc = "done" /\ Received(r, i).answer = "BAD-REQUEST"
    BY DEF Received, NoRequest
  <1>6. req'[r] = Received(r, i) /\ \A q \in Ids : q # r => req'[q] = req[q]
    BY <1>1, <1>2
  <1>7. Retried(r, req[r], http[r])'
    BY <1>1, <1>2, <1>4, <1>5, <1>6 DEF Retried, BookingOf
  <1>8. ASSUME NEW q \in Ids, q # r PROVE Retried(q, req[q], http[q])'
    BY <1>2, <1>4, <1>6, <1>8 DEF HandlerInv, Retried, BookingOf
  <1> QED
    BY <1>4, <1>7, <1>8 DEF HandlerInv

\* The work goes on: a confirm that found a sale is answered by its first read.
LEMMA ServeInv ==
  ASSUME HandlerInv, OrderInv', [StoreNext]_storeVars, NEW r \in Ids, Serve(r)
  PROVE  HandlerInv'
  <1> USE DEF HandlerInv
  <1>1. RequestStep(r) /\ Respond(r, http[r])
    BY DEF Serve
  <1>2. /\ req[r].pc \in Steps /\ req'[r].txn = req[r].txn
        /\ \A q \in Ids : q # r => req'[q] = req[q]
    BY <1>1, StepIsLocal
  <1>3. /\ http' \in [Ids -> Exchange]
        /\ \A q \in Ids : q # r => http'[q] = http[q]
        /\ http'[r].sale = http[r].sale
        /\ http'[r].status = "none" => http[r].status = "none"
    BY <1>1, RespondExchange
  <1>4. \A k \in Ids : bookings[k].txn # None => bookings'[k].txn = bookings[k].txn
    BY BookingsStay DEF OrderInv
  <1>5. ASSUME KindOf[r] = "confirm", http[r].sale # {}
        PROVE  /\ req'[r].pc = "done" /\ req'[r].answer = "OK"
               /\ req'[r].order \in http[r].sale
    <2>1. req[r].pc = "lookup"
      BY <1>2, <1>5 DEF Retried, Steps
    <2>2. Lookup(r)
      BY <1>1, <2>1 DEF RequestStep, Join, Await, Resolve, Instant, Snapshot, Acquire,
                        Sweep, Check, Claims, Render, Offer, Book, Reread
    <2>3. PICK j \in http[r].sale : j \in BookingOf(req[r].txn) /\ req[r].txn \in Txns
      BY <1>5 DEF Retried
    <2>4. PICK k \in BookingOf(req[r].txn) : Answer(r, "OK", k)
      BY <2>2, <2>3 DEF Lookup
    <2>5. k = j
      BY <2>3, <2>4, StoreAssumption
         DEF BookingOf, OrderInv, StoreInv, OneBookingPerTransaction
    <2>6. req'[r].pc = "done" /\ req'[r].answer = "OK" /\ req'[r].order = k
      BY <2>4 DEF Answer, OrderInv, OrderTypeOK, Request
    <2> QED
      BY <2>3, <2>5, <2>6
  <1>6. Retried(r, req[r], http[r])'
    BY <1>2, <1>3, <1>4, <1>5, RetriedStays
  <1>7. ASSUME NEW q \in Ids, q # r PROVE Retried(q, req[q], http[q])'
    BY <1>2, <1>3, <1>4, <1>7, RetriedStays DEF Retried
  <1> QED
    BY <1>3, <1>6, <1>7

\* A statement that throws is an answer a retry may get.
LEMMA HandlerFaultInv ==
  ASSUME HandlerInv, OrderInv', NEW r \in Ids, Fault(r)
  PROVE  HandlerInv'
  <1> USE DEF HandlerInv
  <1>1. Answer(r, "INTERNAL-ERROR", None) /\ Respond(r, http[r]) /\ bookings' = bookings
    BY DEF Fault, storeVars
  <1>2. /\ req'[r].pc = "done" /\ req'[r].answer = "INTERNAL-ERROR"
        /\ req'[r].txn = req[r].txn
        /\ \A q \in Ids : q # r => req'[q] = req[q]
    BY <1>1 DEF Answer, OrderInv, OrderTypeOK, Request
  <1>3. /\ http' \in [Ids -> Exchange]
        /\ \A q \in Ids : q # r => http'[q] = http[q]
        /\ http'[r].sale = http[r].sale
        /\ http'[r].status = "none" => http[r].status = "none"
    BY <1>1, RespondExchange
  <1>4. Retried(r, req[r], http[r])'
    BY <1>1, <1>2, <1>3, RetriedStays
  <1>5. ASSUME NEW q \in Ids, q # r PROVE Retried(q, req[q], http[q])'
    BY <1>1, <1>2, <1>3, <1>5, RetriedStays DEF Retried
  <1> QED
    BY <1>3, <1>4, <1>5

\* The status of one exchange moves on, and no request does.
LEMMA StatusInv ==
  ASSUME HandlerInv, OrderInv', NEW r \in Ids, NEW s \in Statuses \ {"none"},
         http' = [http EXCEPT ![r].status = s], http[r].status = "none" => http[r].sale = {},
         UNCHANGED orderVars
  PROVE  HandlerInv'
  <1>1. req' = req /\ bookings' = bookings
    BY DEF orderVars
  <1>2. /\ http' \in [Ids -> Exchange]
        /\ \A q \in Ids : /\ http'[q].sale = http[q].sale
                          /\ http'[q].status = "none" => http[q].status = "none"
    BY DEF HandlerInv, Exchange
  <1>3. ASSUME NEW q \in Ids PROVE Retried(q, req[q], http[q])'
    BY <1>1, <1>2, RetriedStays DEF HandlerInv, Retried
  <1> QED
    BY <1>2, <1>3 DEF HandlerInv

\* A process dies: what it was serving is lost, and what it owed is dropped.
LEMMA HandlerCrashInv ==
  ASSUME HandlerInv, OrderInv', NEW p, HandlerCrash(p)
  PROVE  HandlerInv'
  <1> USE DEF HandlerInv
  <1>1. /\ bookings' = bookings
        /\ req' = [r \in Ids |-> IF req[r].proc = p /\ req[r].pc \in Steps
                                 THEN [req[r] EXCEPT !.pc = "lost"] ELSE req[r]]
        /\ http' = [r \in Ids |-> IF req[r].proc = p /\ http[r].status \in Open
                                  THEN [http[r] EXCEPT !.status = "dropped"] ELSE http[r]]
    BY DEF HandlerCrash, Crash, storeVars
  <1>2. /\ http' \in [Ids -> Exchange]
        /\ \A q \in Ids : /\ http'[q].sale = http[q].sale
                          /\ http'[q].status = "none" => http[q].status = "none"
    BY <1>1 DEF Exchange, Statuses
  <1>3. \A q \in Ids : /\ req'[q].txn = req[q].txn
                       /\ req'[q] = req[q] \/ req'[q].pc = "lost"
    BY <1>1 DEF OrderInv, OrderTypeOK, Request
  <1>4. ASSUME NEW q \in Ids PROVE Retried(q, req[q], http[q])'
    BY <1>1, <1>2, <1>3, RetriedStays DEF Retried
  <1> QED
    BY <1>2, <1>4

\* The store moves and no request does.
LEMMA HandlerRestInv ==
  ASSUME HandlerInv, OrderInv', [StoreNext]_storeVars, req' = req, http' = http
  PROVE  HandlerInv'
  <1>1. \A k \in Ids : bookings[k].txn # None => bookings'[k].txn = bookings[k].txn
    BY BookingsStay DEF HandlerInv, OrderInv
  <1>2. ASSUME NEW q \in Ids PROVE Retried(q, req[q], http[q])'
    BY <1>1, RetriedStays DEF HandlerInv, Retried
  <1> QED
    BY <1>2 DEF HandlerInv

\* Every step of the handler keeps the invariant.
LEMMA HandlerStepInv == HandlerInv /\ [HandlerNext]_handlerVars => HandlerInv'
  <1> SUFFICES ASSUME HandlerInv, [HandlerNext]_handlerVars PROVE HandlerInv'
    OBVIOUS
  <1>1. OrderInv' /\ [StoreNext]_storeVars
    BY HandlerKeepsOrder DEF HandlerInv
  <1>2. ASSUME NEW r \in Ids, NEW s \in Statuses \ {"none"},
               http' = [http EXCEPT ![r].status = s], UNCHANGED orderVars
        PROVE  HandlerInv'
    BY <1>1, <1>2, StatusInv DEF HandlerInv, Retried
  <1>3. ASSUME NEW r \in Ids, Nack(r) \/ Deadline(r) \/ Dispatch(r) PROVE HandlerInv'
    <2>1. /\ UNCHANGED orderVars
          /\ \E s \in Statuses \ {"none"} : http' = [http EXCEPT ![r].status = s]
      BY <1>3 DEF Nack, Deadline, Dispatch, PostEnds, Statuses, Open
    <2> QED
      BY <1>2, <2>1
  <1>4. ASSUME NEW r \in Ids, NEW i \in Inputs[r], Handle(r, i) PROVE HandlerInv'
    BY <1>1, <1>4, HandleInv
  <1>5. ASSUME NEW r \in Ids, Serve(r) PROVE HandlerInv'
    BY <1>1, <1>5, ServeInv
  <1>6. ASSUME NEW r \in Ids, Fault(r) PROVE HandlerInv'
    BY <1>1, <1>6, HandlerFaultInv
  <1>7. ASSUME NEW p \in Mortal, HandlerCrash(p) PROVE HandlerInv'
    BY <1>1, <1>7, HandlerCrashInv
  <1>8. ASSUME req' = req, http' = http PROVE HandlerInv'
    BY <1>1, <1>8, HandlerRestInv
  <1>9. CASE \/ \E D \in SUBSET Departures, now \in 0..clock :
                   Search(D, now) /\ UNCHANGED http
             \/ \E k \in Ids : \E S \in (SUBSET BookedSeats(k)) \ {{}} :
                   Cancel(k, S) /\ UNCHANGED http
             \/ HandlerTick
             \/ UNCHANGED handlerVars
    BY <1>8, <1>9 DEF Search, Cancel, HandlerTick, ClockTick, requestVars, handlerVars
  <1> QED
    BY <1>3, <1>4, <1>5, <1>6, <1>7, <1>9 DEF HandlerNext

\* It holds before the first request.
LEMMA HandlerInitInv == HandlerInit => HandlerInv
  <1> SUFFICES ASSUME HandlerInit PROVE HandlerInv
    OBVIOUS
  <1>1. OrderInv /\ http = [r \in Ids |-> NoExchange]
    BY OrderInitInv DEF HandlerInit
  <1>2. NoExchange \in Exchange /\ NoExchange.sale = {}
    BY DEF NoExchange, Exchange, Statuses
  <1> QED
    BY <1>1, <1>2 DEF HandlerInv, Retried

\* The invariant of the service with its connections, deadlines and callbacks,
\* with any statement failing at any time (createReservedHandler).
THEOREM HandlerInvariant == HandlerSpec => []HandlerInv
  BY HandlerInitInv, HandlerStepInv, PTL DEF HandlerSpec

\* Deadlines, callbacks, failed statements and crashes of the handler do nothing
\* to the tables that the store does not allow.
THEOREM HandlerDrivesTheStore == HandlerSpec => ImplementsStore
  <1>1. HandlerInit => StoreInit
    BY DEF HandlerInit, OrderInit
  <1>2. HandlerInv /\ [HandlerNext]_handlerVars => [StoreNext]_storeVars
    BY HandlerKeepsOrder DEF HandlerInv
  <1> QED
    BY <1>1, <1>2, HandlerInvariant, PTL DEF HandlerSpec, ImplementsStore, StoreSpec

\* A confirm sent again once its transaction has its sale is answered with that
\* sale or an internal error, whatever became of the first (confirm, withDeadline).
THEOREM RetriesFindTheSale == HandlerSpec => []RetryFindsTheSale
  <1>1. HandlerInv => RetryFindsTheSale
    BY DEF HandlerInv, Retried, RetryFindsTheSale
  <1> QED
    BY <1>1, HandlerInvariant, PTL
=============================================================================
