------------------------- MODULE ReservedStoreProofs -------------------------
(***************************************************************************)
(* Proofs about ReservedStore, for any number of transactions, departures, *)
(* berths and ids.                                                         *)
(***************************************************************************)
EXTENDS ReservedStore, FiniteSetTheorems, TLAPS

\* An id no hold was placed under has no rows; a placed hold has some.
PlacedHolds ==
    \A h \in Ids :
        /\ holds[h].rowid = 0 =>
              holds[h].booking = None /\ \A b \in Berths : lock[h][b] = "NONE"
        /\ holds[h].rowid # 0 => \E b \in Berths : lock[h][b] # "NONE"

\* The booking_id of a row is NULL while the row is HELD and set once it is
\* BOOKED, names one booking of the hold's own transaction, and no booking is
\* named by two holds.
BookingIds ==
    /\ \A h \in Ids, b \in Berths :
          /\ lock[h][b] = "HELD" => holds[h].booking = None
          /\ lock[h][b] = "BOOKED" => holds[h].booking # None
    /\ \A h \in Ids : holds[h].booking # None =>
          /\ bookings[holds[h].booking].status # "NONE"
          /\ bookings[holds[h].booking].txn = holds[h].txn
    /\ \A g, h \in Ids :
          holds[g].booking = holds[h].booking /\ holds[g].booking # None => g = h

\* An order id nothing was booked under has no rows.
UnusedBookings ==
    \A k \in Ids : /\ bookings[k].status = "NONE" => bookings[k] = NoBooking
                   /\ bookings[k].status # "NONE" => bookings[k].txn # None

StoreInv ==
    /\ StoreTypeOK
    /\ PlacedHolds
    /\ BookingIds
    /\ UnusedBookings
    /\ OneLiveClaimPerBerth
    /\ HoldRowsMoveTogether
    /\ BookingsMatchLocks
    /\ StatusMatchesSeats
    /\ OneBookingPerTransaction

-----------------------------------------------------------------------------

\* The empty tables satisfy the inductive invariant.
LEMMA InitInv == StoreInit => StoreInv
  <1> SUFFICES ASSUME StoreInit PROVE StoreInv
    OBVIOUS
  <1> USE StoreAssumption DEF StoreInit, NoHold, NoBooking
  <1>1. StoreTypeOK
    BY DEF StoreTypeOK, HoldRow, BookingRow, LockState
  <1>2. PlacedHolds /\ BookingIds /\ UnusedBookings
    BY DEF PlacedHolds, BookingIds, UnusedBookings
  <1>3. OneLiveClaimPerBerth /\ HoldRowsMoveTogether
    BY DEF OneLiveClaimPerBerth, LiveState, HoldRowsMoveTogether, HeldSeats, SeatsOf
  <1>4. BookingsMatchLocks /\ StatusMatchesSeats /\ OneBookingPerTransaction
    BY DEF BookingsMatchLocks, StatusMatchesSeats, OneBookingPerTransaction
  <1> QED
    BY <1>1, <1>2, <1>3, <1>4 DEF StoreInv

\* Rows that only go from HELD to EXPIRED or RELEASED, hold by hold.
Lapsed(L, M) ==
    /\ M \in [Ids -> [Berths -> LockState \cup {"NONE"}]]
    /\ \A h \in Ids :
         \/ \A b \in Berths : M[h][b] = L[h][b]
         \/ \A b \in Berths :
              M[h][b] = IF L[h][b] = "HELD" THEN "EXPIRED" ELSE L[h][b]
         \/ \A b \in Berths :
              M[h][b] = IF L[h][b] = "HELD" THEN "RELEASED" ELSE L[h][b]

\* A sweep only lets held rows go, a hold at a time.
LEMMA SweptLapses ==
  ASSUME StoreTypeOK, NEW D, NEW now
  PROVE  Lapsed(lock, Swept(lock, D, now))
  BY DEF StoreTypeOK, Swept, Lapsed, LockState

\* So does what acquireHold does before it asks for the seats.
LEMMA FreedLapses ==
  ASSUME StoreTypeOK, NEW t, NEW d, NEW now
  PROVE  Lapsed(lock, Freed(t, d, now))
  <1> DEFINE L == Swept(lock, {d}, now)
             H == ExistingHold(t, d, now)
  <1>1. Lapsed(lock, L)
    BY SweptLapses
  <1>2. Freed(t, d, now) = Released(L, H)
    BY DEF Freed
  <1> HIDE DEF L, H
  <1>3. Lapsed(lock, Released(L, H))
    BY <1>1 DEF Released, Lapsed, LockState, StoreTypeOK
  <1> QED
    BY <1>2, <1>3

\* What Lapsed says of one row, in the form the invariants use it.
LEMMA LapsedRow ==
  ASSUME NEW L, NEW M, Lapsed(L, M), NEW h \in Ids, NEW b \in Berths
  PROVE  /\ M[h][b] = "HELD" => L[h][b] = "HELD"
         /\ M[h][b] = "BOOKED" <=> L[h][b] = "BOOKED"
         /\ M[h][b] = "NONE" <=> L[h][b] = "NONE"
  BY DEF Lapsed

\* Letting whole holds go keeps the invariant.
LEMMA LapseKeepsInv ==
  ASSUME StoreInv, Lapsed(lock, lock'), UNCHANGED <<holds, bookings, rows, clock>>
  PROVE  StoreInv'
  <1> USE DEF StoreInv
  <1>0. \A h \in Ids, b \in Berths :
           /\ lock'[h][b] = "HELD" => lock[h][b] = "HELD"
           /\ lock'[h][b] = "BOOKED" <=> lock[h][b] = "BOOKED"
           /\ lock'[h][b] = "NONE" <=> lock[h][b] = "NONE"
    BY LapsedRow
  <1>1. StoreTypeOK'
    BY DEF StoreTypeOK, Lapsed
  <1>2. PlacedHolds'
    BY <1>0 DEF PlacedHolds
  <1>3. BookingIds' /\ UnusedBookings'
    BY <1>0 DEF BookingIds, UnusedBookings
  <1>4. OneLiveClaimPerBerth'
    BY <1>0 DEF OneLiveClaimPerBerth, LiveState
  <1>5. HoldRowsMoveTogether'
    BY DEF HoldRowsMoveTogether, HeldSeats, SeatsOf, Lapsed
  <1>6. BookingsMatchLocks' /\ StatusMatchesSeats' /\ OneBookingPerTransaction'
    BY <1>0 DEF BookingsMatchLocks, StatusMatchesSeats, OneBookingPerTransaction
  <1> QED
    BY <1>1, <1>2, <1>3, <1>4, <1>5, <1>6

\* sweepExpiredHolds keeps the invariant.
LEMMA SweepInv ==
  ASSUME StoreInv, NEW D, NEW now, SweepExpiredHolds(D, now)
  PROVE  StoreInv'
  BY SweptLapses, LapseKeepsInv DEF StoreInv, SweepExpiredHolds

\* Placing a hold on seats nobody claims keeps the invariant.
LEMMA PlaceHoldInv ==
  ASSUME StoreInv, NEW h \in Ids, NEW t \in Txns, NEW d \in Departures,
         NEW now \in Nat, NEW S \in SUBSET Berths, S # {},
         PlaceHold(h, t, d, S, now)
  PROVE  StoreInv'
  <1> DEFINE M == Freed(t, d, now)
             R == [b \in Berths |-> IF b \in S THEN "HELD" ELSE "NONE"]
             X == [txn |-> t, departure |-> d, createdAt |-> now,
                   expiresAt |-> now + HoldTtl, rowid |-> rows + 1,
                   booking |-> None]
  <1>1. Lapsed(lock, M)
    BY FreedLapses DEF StoreInv
  <1>2. /\ holds[h].rowid = 0
        /\ lock' = [M EXCEPT ![h] = R]
        /\ holds' = [holds EXCEPT ![h] = X]
        /\ rows' = rows + 1
        /\ UNCHANGED <<bookings, clock>>
        /\ \A b \in S, g \in Ids : M[g][b] \notin LiveState
    BY DEF PlaceHold, Taken
  <1>3. \A b \in Berths : lock[h][b] = "NONE"
    BY <1>2 DEF StoreInv, PlacedHolds
  <1> HIDE DEF M
  <1>4. StoreTypeOK'
    <2>1. holds' \in [Ids -> HoldRow]
      BY <1>2, StoreAssumption DEF StoreInv, StoreTypeOK, HoldRow
    <2>2. lock' \in [Ids -> [Berths -> LockState \cup {"NONE"}]]
      BY <1>1, <1>2 DEF Lapsed, LockState
    <2> QED
      BY <1>2, <2>1, <2>2 DEF StoreInv, StoreTypeOK
  <1>5. \A g \in Ids : g # h => lock'[g] = M[g] /\ holds'[g] = holds[g]
    BY <1>1, <1>2 DEF Lapsed, StoreInv, StoreTypeOK
  <1>6. lock'[h] = R /\ holds'[h] = X
    BY <1>1, <1>2 DEF Lapsed, StoreInv, StoreTypeOK
  <1>7. \A g \in Ids, b \in Berths :
           g # h => /\ lock'[g][b] = "HELD" => lock[g][b] = "HELD"
                    /\ lock'[g][b] = "BOOKED" <=> lock[g][b] = "BOOKED"
                    /\ lock'[g][b] = "NONE" <=> lock[g][b] = "NONE"
    BY <1>1, <1>5 DEF Lapsed
  <1>8. PlacedHolds'
    <2> SUFFICES ASSUME NEW g \in Ids
                 PROVE  /\ holds'[g].rowid = 0 =>
                             /\ holds'[g].booking = None
                             /\ \A b \in Berths : lock'[g][b] = "NONE"
                        /\ holds'[g].rowid # 0 =>
                             \E b \in Berths : lock'[g][b] # "NONE"
      BY DEF PlacedHolds
    <2>1. CASE g = h
      BY <2>1, <1>6 DEF StoreInv, StoreTypeOK
    <2>2. CASE g # h
      BY <2>2, <1>5, <1>7 DEF StoreInv, PlacedHolds
    <2> QED
      BY <2>1, <2>2
  <1>9. BookingIds' /\ UnusedBookings'
    <2>1. \A g \in Ids : holds'[g].booking = holds[g].booking
      BY <1>2, <1>5, <1>6 DEF StoreInv, PlacedHolds
    <2>2. \A g \in Ids : g # h => holds'[g].txn = holds[g].txn
      BY <1>5
    <2>3. holds[h].booking = None
      BY <1>2 DEF StoreInv, PlacedHolds
    <2> QED
      BY <2>1, <2>2, <2>3, <1>2, <1>6, <1>7 DEF StoreInv, BookingIds, UnusedBookings
  <1>10. OneLiveClaimPerBerth'
    BY <1>2, <1>5, <1>6, <1>7 DEF StoreInv, OneLiveClaimPerBerth, LiveState
  <1>11. HoldRowsMoveTogether'
    <2> SUFFICES ASSUME NEW g \in Ids
                 PROVE  HeldSeats(lock', g) \in {{}, SeatsOf(lock', g)}
      BY DEF HoldRowsMoveTogether
    <2>1. CASE g = h
      BY <2>1, <1>6 DEF HeldSeats, SeatsOf
    <2>2. CASE g # h
      BY <2>2, <1>1, <1>5 DEF HeldSeats, SeatsOf, Lapsed, StoreInv, HoldRowsMoveTogether
    <2> QED
      BY <2>1, <2>2
  <1>12. BookingsMatchLocks'
    <2>1. \A g \in Ids : holds'[g].booking = holds[g].booking
      BY <1>2, <1>5, <1>6 DEF StoreInv, PlacedHolds
    <2>2. \A g \in Ids, b \in Berths : lock'[g][b] = "BOOKED" <=> lock[g][b] = "BOOKED"
      BY <1>3, <1>6, <1>7
    <2> QED
      BY <2>1, <2>2, <1>2 DEF StoreInv, BookingsMatchLocks
  <1>13. StatusMatchesSeats' /\ OneBookingPerTransaction'
    BY <1>2 DEF StoreInv, StatusMatchesSeats, OneBookingPerTransaction
  <1> QED
    BY <1>4, <1>8, <1>9, <1>10, <1>11, <1>12, <1>13 DEF StoreInv

\* acquireHold keeps the invariant, whichever way it ends.
LEMMA AcquireHoldInv ==
  ASSUME StoreInv, NEW t \in Txns, NEW d \in Departures,
         NEW now \in Nat, NEW S \in SUBSET Berths, S # {},
         AcquireHold(t, d, S, now)
  PROVE  StoreInv'
  <1>1. CASE KeepHold(t, d, S, now)
    BY <1>1, SweepInv DEF KeepHold
  <1>2. CASE RefuseHold(t, d, S, now)
    BY <1>2 DEF RefuseHold, storeVars, StoreInv, StoreTypeOK, PlacedHolds, BookingIds,
       UnusedBookings, OneLiveClaimPerBerth, HoldRowsMoveTogether, BookingsMatchLocks,
       StatusMatchesSeats, OneBookingPerTransaction, HeldSeats, SeatsOf
  <1>3. CASE \E h \in Ids : PlaceHold(h, t, d, S, now)
    BY <1>3, PlaceHoldInv
  <1> QED
    BY <1>1, <1>2, <1>3 DEF AcquireHold

\* A transaction that is rolled back keeps the invariant.
LEMMA StutterInv ==
  ASSUME StoreInv, UNCHANGED storeVars
  PROVE  StoreInv'
  <1>1. Lapsed(lock, lock')
    BY DEF Lapsed, StoreInv, StoreTypeOK, storeVars
  <1> QED
    BY <1>1, LapseKeepsInv DEF storeVars

\* The count confirmBooking takes is enough: if as many rows moved as the hold
\* has seats, all of them moved.
LEMMA StillHeldMeansAll ==
  ASSUME StoreInv, NEW h \in Ids, holds[h].rowid # 0,
         HoldStillHeld(h, SeatsOf(lock, h))
  PROVE  \A b \in Berths : lock[h][b] \in {"HELD", "NONE"}
  <1>1. IsFiniteSet(SeatsOf(lock, h))
    BY StoreAssumption, FS_Subset DEF SeatsOf
  <1>2. SeatsOf(lock, h) # {}
    BY DEF StoreInv, PlacedHolds, SeatsOf
  <1>3. Cardinality(SeatsOf(lock, h)) # 0
    BY <1>1, <1>2, FS_EmptySet
  <1>4. HeldSeats(lock, h) # {}
    BY <1>3, FS_EmptySet DEF HoldStillHeld
  <1>5. HeldSeats(lock, h) = SeatsOf(lock, h)
    BY <1>4 DEF StoreInv, HoldRowsMoveTogether
  <1> QED
    BY <1>5 DEF HeldSeats, SeatsOf

\* Booking a hold whose rows are all still HELD keeps the invariant.
LEMMA PlaceBookingInv ==
  ASSUME StoreInv, NEW k \in Ids, NEW h \in Ids, NEW t \in Txns,
         h \in HoldsOf(t), PlaceBooking(k, h, t, SeatsOf(lock, h))
  PROVE  StoreInv'
  <1> DEFINE R == [b \in Berths |-> IF lock[h][b] = "HELD" THEN "BOOKED" ELSE lock[h][b]]
             Q == [txn |-> t, status |-> "CONFIRMED",
                   seat |-> [b \in Berths |->
                      IF b \in SeatsOf(lock, h) THEN "CONFIRMED" ELSE "NONE"]]
  <1>1. /\ bookings[k].status = "NONE"
        /\ holds[h].rowid # 0 /\ holds[h].txn = t
        /\ lock' = [lock EXCEPT ![h] = R]
        /\ holds' = [holds EXCEPT ![h].booking = k]
        /\ bookings' = [bookings EXCEPT ![k] = Q]
        /\ UNCHANGED <<rows, clock>>
        /\ \A j \in Ids : bookings[j].txn # t
    BY DEF PlaceBooking, HoldsOf, TransactionUnbooked, BookingOf
  <1>2. \A b \in Berths : lock[h][b] \in {"HELD", "NONE"}
    BY <1>1, StillHeldMeansAll DEF PlaceBooking
  <1>3. /\ lock'[h] = R
        /\ \A g \in Ids : g # h => lock'[g] = lock[g] /\ holds'[g] = holds[g]
        /\ holds'[h] = [holds[h] EXCEPT !.booking = k]
        /\ bookings'[k] = Q
        /\ \A j \in Ids : j # k => bookings'[j] = bookings[j]
    BY <1>1 DEF StoreInv, StoreTypeOK
  <1>4. /\ holds[h] \in HoldRow
        /\ holds'[h].booking = k /\ holds'[h].txn = t
        /\ holds'[h].rowid = holds[h].rowid
    BY <1>1, <1>3 DEF StoreInv, StoreTypeOK, HoldRow
  <1>5. /\ Q.txn = t /\ Q.status = "CONFIRMED"
        /\ \A b \in Berths : Q.seat[b] = IF lock[h][b] = "HELD" THEN "CONFIRMED" ELSE "NONE"
    BY <1>2 DEF SeatsOf
  <1>6. PICK c \in Berths : lock[h][c] = "HELD"
    BY <1>1, <1>2 DEF StoreInv, PlacedHolds
  <1>7. holds[h].booking = None /\ k # None /\ t # None
    BY <1>6, StoreAssumption DEF StoreInv, BookingIds
  <1>8. \A g \in Ids : holds[g].booking # k
    BY <1>1, <1>7 DEF StoreInv, BookingIds
  <1>9. \A b \in Berths : /\ lock[h][b] = "HELD" => R[b] = "BOOKED"
                          /\ lock[h][b] # "HELD" => R[b] = "NONE"
    BY <1>2
  <1>10. StoreTypeOK'
    <2>1. Q \in BookingRow
      BY DEF BookingRow
    <2>2. R \in [Berths -> LockState \cup {"NONE"}]
      BY <1>9 DEF LockState
    <2>3. holds'[h] \in HoldRow
      BY <1>3, <1>4 DEF HoldRow
    <2> HIDE DEF Q, R
    <2> QED
      BY <1>1, <2>1, <2>2, <2>3 DEF StoreInv, StoreTypeOK
  <1> HIDE DEF Q, R
  <1>11. PlacedHolds'
    <2> SUFFICES ASSUME NEW g \in Ids
                 PROVE  /\ holds'[g].rowid = 0 =>
                             /\ holds'[g].booking = None
                             /\ \A b \in Berths : lock'[g][b] = "NONE"
                        /\ holds'[g].rowid # 0 =>
                             \E b \in Berths : lock'[g][b] # "NONE"
      BY DEF PlacedHolds
    <2>1. CASE g = h
      BY <2>1, <1>1, <1>3, <1>4, <1>6, <1>9
    <2>2. CASE g # h
      BY <2>2, <1>3 DEF StoreInv, PlacedHolds
    <2> QED
      BY <2>1, <2>2
  <1>12. BookingIds'
    <2>1. \A g \in Ids, b \in Berths :
             /\ lock'[g][b] = "HELD" => holds'[g].booking = None
             /\ lock'[g][b] = "BOOKED" => holds'[g].booking # None
      <3> SUFFICES ASSUME NEW g \in Ids, NEW b \in Berths
                   PROVE  /\ lock'[g][b] = "HELD" => holds'[g].booking = None
                          /\ lock'[g][b] = "BOOKED" => holds'[g].booking # None
        OBVIOUS
      <3>1. CASE g = h
        BY <3>1, <1>3, <1>4, <1>7, <1>9
      <3>2. CASE g # h
        BY <3>2, <1>3 DEF StoreInv, BookingIds
      <3> QED
        BY <3>1, <3>2
    <2>2. \A g \in Ids : holds'[g].booking # None =>
             /\ bookings'[holds'[g].booking].status # "NONE"
             /\ bookings'[holds'[g].booking].txn = holds'[g].txn
      <3> SUFFICES ASSUME NEW g \in Ids, holds'[g].booking # None
                   PROVE  /\ bookings'[holds'[g].booking].status # "NONE"
                          /\ bookings'[holds'[g].booking].txn = holds'[g].txn
        OBVIOUS
      <3>1. CASE g = h
        BY <3>1, <1>3, <1>4, <1>5
      <3>2. CASE g # h
        <4>1. holds'[g] = holds[g] /\ holds[g].booking \in Ids /\ holds[g].booking # k
          BY <3>2, <1>3, <1>8 DEF StoreInv, StoreTypeOK, HoldRow
        <4> QED
          BY <4>1, <1>3 DEF StoreInv, BookingIds
      <3> QED
        BY <3>1, <3>2
    <2>3. \A f, g \in Ids :
             holds'[f].booking = holds'[g].booking /\ holds'[f].booking # None => f = g
      <3>1. \A f, g \in Ids :
               holds[f].booking = holds[g].booking /\ holds[f].booking # None => f = g
        BY DEF StoreInv, BookingIds
      <3>2. \A g \in Ids : g # h => holds'[g].booking = holds[g].booking
        BY <1>3
      <3> QED
        BY <3>1, <3>2, <1>4, <1>8
    <2> QED
      BY <2>1, <2>2, <2>3 DEF BookingIds
  <1>13. UnusedBookings'
    BY <1>3, <1>5, <1>7 DEF StoreInv, UnusedBookings
  <1>14. OneLiveClaimPerBerth'
    BY <1>3, <1>9 DEF StoreInv, OneLiveClaimPerBerth, LiveState
  <1>15. HoldRowsMoveTogether'
    <2> SUFFICES ASSUME NEW g \in Ids
                 PROVE  HeldSeats(lock', g) \in {{}, SeatsOf(lock', g)}
      BY DEF HoldRowsMoveTogether
    <2>1. CASE g = h
      BY <2>1, <1>3, <1>9 DEF HeldSeats, SeatsOf
    <2>2. CASE g # h
      BY <2>2, <1>3 DEF HeldSeats, SeatsOf, StoreInv, HoldRowsMoveTogether
    <2> QED
      BY <2>1, <2>2
  <1>16. BookingsMatchLocks'
    <2> SUFFICES ASSUME NEW j \in Ids, NEW b \in Berths
                 PROVE  bookings'[j].seat[b] = "CONFIRMED" <=>
                          \E g \in Ids : holds'[g].booking = j /\ lock'[g][b] = "BOOKED"
      BY DEF BookingsMatchLocks
    <2>1. CASE j = k
      <3>1. bookings'[k].seat[b] = "CONFIRMED" <=> lock[h][b] = "HELD"
        BY <1>3, <1>5
      <3>2. lock'[h][b] = "BOOKED" <=> lock[h][b] = "HELD"
        BY <1>3, <1>9
      <3>3. \A g \in Ids : holds'[g].booking = k <=> g = h
        BY <1>3, <1>4, <1>8
      <3> QED
        BY <2>1, <3>1, <3>2, <3>3
    <2>2. CASE j # k
      <3>1. bookings[j].seat[b] = "CONFIRMED" <=>
               \E g \in Ids : holds[g].booking = j /\ lock[g][b] = "BOOKED"
        BY DEF StoreInv, BookingsMatchLocks
      <3>2. \A g \in Ids : (holds'[g].booking = j /\ lock'[g][b] = "BOOKED")
                              <=> (holds[g].booking = j /\ lock[g][b] = "BOOKED")
        BY <2>2, <1>2, <1>3, <1>4
      <3> QED
        BY <2>2, <3>1, <3>2, <1>3
    <2> QED
      BY <2>1, <2>2
  <1>17. StatusMatchesSeats'
    BY <1>3, <1>5, <1>6 DEF StoreInv, StatusMatchesSeats
  <1>18. OneBookingPerTransaction'
    BY <1>1, <1>3, <1>5 DEF StoreInv, OneBookingPerTransaction
  <1> QED
    BY <1>10, <1>11, <1>12, <1>13, <1>14, <1>15, <1>16, <1>17, <1>18 DEF StoreInv

\* Cancelling seats of a booking keeps the invariant.
LEMMA ApplyCancellationInv ==
  ASSUME StoreInv, NEW k \in Ids, NEW S \in SUBSET Berths, ApplyCancellation(k, S)
  PROVE  StoreInv'
  <1> DEFINE seat == SeatsCancelled(k, S)
             status == IF \E b \in Berths : seat[b] = "CONFIRMED"
                       THEN "CONFIRMED" ELSE "CANCELLED"
  <1>1. /\ bookings[k].status # "NONE"
        /\ bookings' = [bookings EXCEPT ![k].seat = seat, ![k].status = status]
        /\ lock' = LocksReleased(k, S)
        /\ UNCHANGED <<holds, rows, clock>>
    BY DEF ApplyCancellation
  <1>2. /\ seat \in [Berths -> {"NONE", "CONFIRMED", "CANCELLED"}]
        /\ \A b \in Berths : seat[b] = "CONFIRMED" <=>
                                bookings[k].seat[b] = "CONFIRMED" /\ b \notin S
        /\ status \in {"CONFIRMED", "CANCELLED"}
        /\ status = "CONFIRMED" <=> \E b \in Berths : seat[b] = "CONFIRMED"
    BY DEF SeatsCancelled, StoreInv, StoreTypeOK, BookingRow
  <1> HIDE DEF seat, status
  <1>3. bookings[k] \in BookingRow
    BY DEF StoreInv, StoreTypeOK
  <1>4. /\ bookings'[k] = [bookings[k] EXCEPT !.seat = seat, !.status = status]
        /\ \A j \in Ids : j # k => bookings'[j] = bookings[j]
    BY <1>1 DEF StoreInv, StoreTypeOK
  <1>5. /\ bookings'[k].seat = seat /\ bookings'[k].status = status
        /\ bookings'[k].txn = bookings[k].txn /\ bookings'[k] \in BookingRow
    BY <1>2, <1>3, <1>4 DEF BookingRow
  <1>6. \A h \in Ids, b \in Berths :
           lock'[h][b] = IF holds[h].booking = k /\ b \in S /\ lock[h][b] = "BOOKED"
                         THEN "RELEASED" ELSE lock[h][b]
    BY <1>1 DEF LocksReleased
  <1>7. \A h \in Ids, b \in Berths :
           /\ lock'[h][b] = "HELD" <=> lock[h][b] = "HELD"
           /\ lock'[h][b] = "NONE" <=> lock[h][b] = "NONE"
           /\ lock'[h][b] = "BOOKED" <=>
                lock[h][b] = "BOOKED" /\ (holds[h].booking # k \/ b \notin S)
    BY <1>6
  <1>8. StoreTypeOK'
    <2>1. lock' \in [Ids -> [Berths -> LockState \cup {"NONE"}]]
      BY <1>1 DEF LocksReleased, LockState, StoreInv, StoreTypeOK
    <2>2. bookings' \in [Ids -> BookingRow]
      BY <1>1, <1>4, <1>5 DEF StoreInv, StoreTypeOK
    <2> QED
      BY <1>1, <2>1, <2>2 DEF StoreInv, StoreTypeOK
  <1>9. PlacedHolds'
    BY <1>1, <1>7 DEF StoreInv, PlacedHolds
  <1>10. \A j \in Ids : /\ bookings'[j].txn = bookings[j].txn
                        /\ bookings'[j].status = "NONE" <=> bookings[j].status = "NONE"
    BY <1>1, <1>2, <1>4, <1>5
  <1>11. BookingIds'
    BY <1>1, <1>7, <1>10 DEF StoreInv, BookingIds, StoreTypeOK, HoldRow
  <1>12. UnusedBookings'
    BY <1>4, <1>1, <1>10 DEF StoreInv, UnusedBookings
  <1>13. OneLiveClaimPerBerth' /\ HoldRowsMoveTogether'
    BY <1>7 DEF StoreInv, OneLiveClaimPerBerth, LiveState, HoldRowsMoveTogether,
       HeldSeats, SeatsOf
  <1>14. BookingsMatchLocks'
    <2> SUFFICES ASSUME NEW j \in Ids, NEW b \in Berths
                 PROVE  bookings'[j].seat[b] = "CONFIRMED" <=>
                          \E g \in Ids : holds'[g].booking = j /\ lock'[g][b] = "BOOKED"
      BY DEF BookingsMatchLocks
    <2>1. bookings[j].seat[b] = "CONFIRMED" <=>
             \E g \in Ids : holds[g].booking = j /\ lock[g][b] = "BOOKED"
      BY DEF StoreInv, BookingsMatchLocks
    <2>2. CASE j = k
      BY <2>1, <2>2, <1>1, <1>2, <1>5, <1>7
    <2>3. CASE j # k
      BY <2>1, <2>3, <1>1, <1>4, <1>7
    <2> QED
      BY <2>2, <2>3
  <1>15. StatusMatchesSeats'
    <2> SUFFICES ASSUME NEW j \in Ids, bookings'[j].status # "NONE"
                 PROVE  bookings'[j].status = "CONFIRMED"
                          <=> \E b \in Berths : bookings'[j].seat[b] = "CONFIRMED"
      BY DEF StatusMatchesSeats
    <2>1. CASE j = k
      BY <2>1, <1>2, <1>5
    <2>2. CASE j # k
      BY <2>2, <1>4 DEF StoreInv, StatusMatchesSeats
    <2> QED
      BY <2>1, <2>2
  <1>16. OneBookingPerTransaction'
    BY <1>10 DEF StoreInv, OneBookingPerTransaction
  <1> QED
    BY <1>8, <1>9, <1>11, <1>12, <1>13, <1>14, <1>15, <1>16 DEF StoreInv

\* Every transaction of the store keeps the invariant.
LEMMA StepInv == StoreInv /\ [StoreNext]_storeVars => StoreInv'
  <1> SUFFICES ASSUME StoreInv, [StoreNext]_storeVars PROVE StoreInv'
    OBVIOUS
  <1>0. 0..clock \subseteq Nat
    OBVIOUS
  <1>1. ASSUME NEW D \in SUBSET Departures, NEW now \in 0..clock,
               SweepExpiredHolds(D, now)
        PROVE  StoreInv'
    BY <1>1, SweepInv
  <1>2. ASSUME NEW t \in Txns, NEW d \in Departures,
               NEW now \in 0..clock, NEW S \in (SUBSET OnDeparture(d)) \ {{}},
               AcquireHold(t, d, S, now)
        PROVE  StoreInv'
    <2>1. now \in Nat
      BY <1>0
    <2>2. OnDeparture(d) \subseteq Berths
      BY DEF OnDeparture
    <2>3. S \in SUBSET Berths /\ S # {}
      BY <2>2
    <2> QED
      BY <1>2, <2>1, <2>3, AcquireHoldInv
  <1>3. ASSUME NEW t \in Txns, NEW h \in HoldsOf(t),
               ConfirmBooking(h, t, SeatsOf(lock, h))
        PROVE  StoreInv'
    <2>1. h \in Ids
      BY DEF HoldsOf
    <2>2. CASE \E k \in Ids : PlaceBooking(k, h, t, SeatsOf(lock, h))
      BY <2>1, <2>2, PlaceBookingInv
    <2>3. CASE RefuseBooking(h, SeatsOf(lock, h))
      BY <2>3, StutterInv DEF RefuseBooking
    <2>4. CASE RepeatBooking(h, t, SeatsOf(lock, h))
      BY <2>4, StutterInv DEF RepeatBooking
    <2> QED
      BY <1>3, <2>2, <2>3, <2>4 DEF ConfirmBooking
  <1>4. ASSUME NEW k \in Ids, NEW S \in (SUBSET BookedSeats(k)) \ {{}},
               ApplyCancellation(k, S)
        PROVE  StoreInv'
    <2>1. BookedSeats(k) \subseteq Berths
      BY DEF BookedSeats
    <2>2. S \in SUBSET Berths
      BY <2>1
    <2> QED
      BY <1>4, <2>2, ApplyCancellationInv
  <1>5. CASE Tick
    <2>1. clock' \in Nat
      BY <1>5 DEF Tick, StoreInv, StoreTypeOK
    <2> QED
      BY <1>5, <2>1 DEF Tick, StoreInv, StoreTypeOK, PlacedHolds, BookingIds,
         UnusedBookings, OneLiveClaimPerBerth, HoldRowsMoveTogether, BookingsMatchLocks,
         StatusMatchesSeats, OneBookingPerTransaction, HeldSeats, SeatsOf
  <1>6. CASE UNCHANGED storeVars
    BY <1>6, StutterInv
  <1> QED
    BY <1>1, <1>2, <1>3, <1>4, <1>5, <1>6 DEF StoreNext

\* The whole invariant holds of the tables under every interleaving of the
\* store's transactions.
THEOREM StoreInvariant == StoreSpec => []StoreInv
  <1>1. StoreInit => StoreInv
    BY InitInv
  <1>2. StoreInv /\ [StoreNext]_storeVars => StoreInv'
    BY StepInv
  <1> QED
    BY <1>1, <1>2, PTL DEF StoreSpec

\* The tables keep their types (the store's row interfaces).
THEOREM StoreTypeCorrect == StoreSpec => []StoreTypeOK
  BY StoreInvariant, PTL DEF StoreInv

\* No berth is ever held or sold twice (the unique index seat_locks_live and
\* the check acquireHold makes before it).
THEOREM NoDoubleSale == StoreSpec => []OneLiveClaimPerBerth
  BY StoreInvariant, PTL DEF StoreInv

\* booking_seats and seat_locks never disagree on what is sold (confirmBooking
\* and applyCancellation write both).
THEOREM SeatsAndLocksAgree == StoreSpec => []BookingsMatchLocks
  BY StoreInvariant, PTL DEF StoreInv

\* The rows of a hold leave HELD together (sweep, replacement, confirm).
THEOREM HoldsMoveAsOne == StoreSpec => []HoldRowsMoveTogether
  BY StoreInvariant, PTL DEF StoreInv

\* A transaction never has two bookings (the index bookings_transaction).
THEOREM OneOrderPerTransaction == StoreSpec => []OneBookingPerTransaction
  BY StoreInvariant, PTL DEF StoreInv

\* A booking is CANCELLED exactly when none of its seats is left, over any
\* split into partial cancellations (applyCancellation).
THEOREM CancelledWhenEmpty == StoreSpec => []StatusMatchesSeats
  BY StoreInvariant, PTL DEF StoreInv

-----------------------------------------------------------------------------

\* Only acquireHold writes RELEASED over HELD, and only where it puts a hold of
\* the same transaction in place of the one it lets go.
LEMMA StepReleases ==
  ASSUME StoreInv, StoreNext, NEW h \in Ids, NEW b \in Berths,
         lock[h][b] = "HELD", lock'[h][b] = "RELEASED"
  PROVE  \E g \in Ids \ {h} : /\ holds[g].rowid = 0
                              /\ holds'[g].rowid # 0
                              /\ holds'[g].txn = holds[h].txn
  <1> USE DEF StoreInv, StoreTypeOK
  <1>1. CASE \E D \in SUBSET Departures, now \in 0..clock : SweepExpiredHolds(D, now)
    BY <1>1 DEF SweepExpiredHolds, Swept
  <1>2. CASE \E t \in Txns, d \in Departures, now \in 0..clock :
               \E S \in (SUBSET OnDeparture(d)) \ {{}} : AcquireHold(t, d, S, now)
    <2>0. PICK t \in Txns, d \in Departures, now \in 0..clock :
            \E S \in (SUBSET OnDeparture(d)) \ {{}} : AcquireHold(t, d, S, now)
      BY <1>2
    <2>1. PICK S \in (SUBSET OnDeparture(d)) \ {{}} : AcquireHold(t, d, S, now)
      BY <2>0
    <2>2. CASE KeepHold(t, d, S, now)
      BY <2>2 DEF KeepHold, SweepExpiredHolds, Swept
    <2>3. CASE RefuseHold(t, d, S, now)
      BY <2>3 DEF RefuseHold, storeVars
    <2>4. ASSUME NEW i \in Ids, PlaceHold(i, t, d, S, now)
          PROVE  \E g \in Ids \ {h} : /\ holds[g].rowid = 0
                                      /\ holds'[g].rowid # 0
                                      /\ holds'[g].txn = holds[h].txn
      <3>1. i # h
        BY <2>4 DEF PlaceHold, PlacedHolds
      <3>2. lock'[h][b] = Freed(t, d, now)[h][b]
        BY <2>4, <3>1 DEF PlaceHold, Freed, Released
      <3>3. h \in ExistingHold(t, d, now)
        BY <3>2 DEF Freed, Released, Swept
      <3>4. holds[h].txn = t
        BY <3>3 DEF ExistingHold, FindLatestHold, HoldsOf
      <3>5. holds[i].rowid = 0 /\ holds'[i].rowid = rows + 1 /\ holds'[i].txn = t
        BY <2>4 DEF PlaceHold
      <3>6. holds'[i].rowid # 0
        BY <3>5
      <3> QED
        BY <3>1, <3>4, <3>5, <3>6
    <2> QED
      BY <2>1, <2>2, <2>3, <2>4 DEF AcquireHold
  <1>3. CASE \E t \in Txns : \E g \in HoldsOf(t) :
               ConfirmBooking(g, t, SeatsOf(lock, g))
    <2>1. PICK t \in Txns, g \in Ids : ConfirmBooking(g, t, SeatsOf(lock, g))
      BY <1>3 DEF HoldsOf
    <2>2. CASE \E k \in Ids : PlaceBooking(k, g, t, SeatsOf(lock, g))
      BY <2>2 DEF PlaceBooking
    <2>3. CASE UNCHANGED storeVars
      BY <2>3 DEF storeVars
    <2> QED
      BY <2>1, <2>2, <2>3 DEF ConfirmBooking, RefuseBooking, RepeatBooking
  <1>4. CASE \E k \in Ids : \E S \in (SUBSET BookedSeats(k)) \ {{}} :
               ApplyCancellation(k, S)
    BY <1>4 DEF ApplyCancellation, LocksReleased
  <1>5. CASE Tick
    BY <1>5 DEF Tick
  <1> QED
    BY <1>1, <1>2, <1>3, <1>4, <1>5 DEF StoreNext

\* A refused select costs the rider nothing: seats are let go only together
\* with the hold that replaces them (the rollback in acquireHold).
THEOREM NothingLostOnRefusal == StoreSpec => ReleasedOnlyByReplacement
  <1>1. StoreInv /\ [StoreNext]_storeVars =>
          [\A h \in Ids, b \in Berths :
             lock[h][b] = "HELD" /\ lock'[h][b] = "RELEASED"
               => \E g \in Ids \ {h} : /\ holds[g].rowid = 0
                                       /\ holds'[g].rowid # 0
                                       /\ holds'[g].txn = holds[h].txn]_storeVars
    BY StepReleases
  <1> QED
    BY <1>1, StoreInvariant, PTL DEF StoreSpec, ReleasedOnlyByReplacement

-----------------------------------------------------------------------------
(* The order of a transaction's holds.                                     *)

\* Rowids are given once, in growing order.
RowidsGrow ==
    /\ \A h \in Ids : holds[h].rowid <= rows
    /\ \A g, h \in Ids : holds[g].rowid = holds[h].rowid /\ holds[g].rowid # 0 => g = h

\* Only the hold a transaction placed last runs, as long as its holds were
\* placed in the order of their instants.
NewestLives ==
    \A t \in Txns : PlacedInOrder(t) =>
        \A g, h \in HoldsOf(t) :
            HoldLive(lock, g, clock) => holds[h].rowid <= holds[g].rowid

SaleInv ==
    /\ StoreInv
    /\ clock <= MaxClock
    /\ RowidsGrow
    /\ NewestLives

\* A step that places no hold: holds keep their order, rows leave HELD only,
\* and time does not go back.
Wanes ==
    /\ \A h \in Ids : /\ holds'[h].rowid = holds[h].rowid
                      /\ holds'[h].txn = holds[h].txn
                      /\ holds'[h].createdAt = holds[h].createdAt
                      /\ holds'[h].expiresAt = holds[h].expiresAt
                      /\ \A b \in Berths : lock'[h][b] = "HELD" => lock[h][b] = "HELD"
    /\ rows' = rows
    /\ clock <= clock' /\ clock' <= MaxClock

\* Such a step keeps the order.
LEMMA WaneKeepsOrder ==
  ASSUME SaleInv, StoreInv', Wanes
  PROVE  SaleInv'
  <1>1. RowidsGrow'
    BY DEF SaleInv, RowidsGrow, Wanes
  <1>2. NewestLives'
    <2> SUFFICES ASSUME NEW t \in Txns, PlacedInOrder(t)',
                        NEW g \in HoldsOf(t)', NEW h \in HoldsOf(t)',
                        HoldLive(lock, g, clock)'
                 PROVE  holds'[h].rowid <= holds'[g].rowid
      BY DEF NewestLives
    <2>1. HoldsOf(t)' = HoldsOf(t)
      BY DEF HoldsOf, Wanes
    <2>2. PlacedInOrder(t)
      BY <2>1 DEF PlacedInOrder, Wanes, HoldsOf
    <2>3. g \in Ids /\ h \in Ids
      BY DEF HoldsOf
    <2>4. holds[g].expiresAt \in Nat /\ clock \in Nat /\ clock' \in Nat
      BY <2>3 DEF SaleInv, StoreInv, StoreTypeOK, HoldRow
    <2>5. HoldLive(lock, g, clock)
      BY <2>3, <2>4 DEF HoldLive, HeldSeats, Wanes
    <2> QED
      BY <2>1, <2>2, <2>3, <2>5 DEF SaleInv, NewestLives, Wanes
  <1> QED
    BY <1>1, <1>2 DEF SaleInv, Wanes

\* A sweep, or nothing.
LEMMA LapseWanes ==
  ASSUME SaleInv, Lapsed(lock, lock'), UNCHANGED <<holds, bookings, rows, clock>>
  PROVE  SaleInv'
  <1>1. StoreInv'
    BY LapseKeepsInv DEF SaleInv
  <1>2. Wanes
    <2>1. \A h \in Ids, b \in Berths : lock'[h][b] = "HELD" => lock[h][b] = "HELD"
      BY LapsedRow
    <2> QED
      BY <2>1 DEF Wanes, SaleInv, StoreInv, StoreTypeOK
  <1> QED
    BY <1>1, <1>2, WaneKeepsOrder

\* A hold that is placed comes after all others, and lets the transaction's
\* running hold go, which is the one acquireHold finds.
LEMMA PlaceHoldKeepsOrder ==
  ASSUME SaleInv, NEW h \in Ids, NEW t \in Txns, NEW d \in Departures,
         NEW now \in 0..clock, NEW S \in SUBSET Berths, S # {},
         PlaceHold(h, t, d, S, now)
  PROVE  SaleInv'
  <1> DEFINE M == Freed(t, d, now)
             X == [txn |-> t, departure |-> d, createdAt |-> now,
                   expiresAt |-> now + HoldTtl, rowid |-> rows + 1,
                   booking |-> None]
  <1>1. clock \in Nat /\ now \in Nat /\ now <= clock /\ rows \in Nat
    BY DEF SaleInv, StoreInv, StoreTypeOK
  <1>2. StoreInv'
    BY <1>1, PlaceHoldInv DEF SaleInv
  <1>3. /\ holds[h].rowid = 0 /\ SameHold(t, d, S, now) = {}
        /\ holds' = [holds EXCEPT ![h] = X]
        /\ \A g \in Ids : g # h => lock'[g] = M[g]
        /\ rows' = rows + 1 /\ clock' = clock
    BY DEF PlaceHold, Freed, Released
  <1>4. Lapsed(lock, M)
    BY FreedLapses DEF SaleInv, StoreInv
  <1>5. /\ holds'[h] = X
        /\ \A g \in Ids : g # h => holds'[g] = holds[g]
        /\ \A g \in Ids : holds[g] \in HoldRow
    BY <1>3 DEF SaleInv, StoreInv, StoreTypeOK
  <1>6. RowidsGrow'
    <2>1. \A g \in Ids : holds[g].rowid \in Nat /\ holds[g].rowid <= rows
      BY <1>5 DEF SaleInv, RowidsGrow, HoldRow
    <2>2. \A g \in Ids : holds'[g].rowid <= rows'
      BY <1>1, <1>3, <1>5, <2>1
    <2>3. \A g \in Ids : g # h => holds'[g].rowid # rows + 1
      BY <1>1, <1>5, <2>1
    <2> QED
      BY <1>5, <2>2, <2>3 DEF SaleInv, RowidsGrow
  <1>7. ASSUME NEW u \in Txns, PlacedInOrder(u)',
               NEW g \in HoldsOf(u)', NEW i \in HoldsOf(u)',
               HoldLive(lock, g, clock)'
        PROVE  holds'[i].rowid <= holds'[g].rowid
    <2>1. g \in Ids /\ i \in Ids /\ holds'[g].txn = u /\ holds'[i].txn = u
      BY DEF HoldsOf
    <2>2. CASE g = h
      BY <1>3, <1>5, <1>6, <2>1, <2>2 DEF RowidsGrow
    <2>3. CASE g # h
      <3>1. holds'[g] = holds[g] /\ holds[g].expiresAt > clock
            /\ holds[g].expiresAt \in Nat
        BY <1>3, <1>5, <1>7, <2>1, <2>3 DEF HoldLive, HoldRow
      <3>2. PICK b \in Berths : M[g][b] = "HELD"
        BY <1>3, <1>7, <2>1, <2>3 DEF HoldLive, HeldSeats
      <3>3. lock[g][b] = "HELD"
        BY <1>4, <2>1, <3>2, LapsedRow
      <3>4. PlacedInOrder(u) /\ g \in HoldsOf(u)
        <4>1. \A j \in HoldsOf(u) : j # h /\ j \in HoldsOf(u)' /\ holds'[j] = holds[j]
          BY <1>3, <1>5 DEF HoldsOf
        <4>2. g \in HoldsOf(u)
          BY <2>1, <3>1, <1>7 DEF HoldsOf
        <4> QED
          BY <1>7, <4>1, <4>2 DEF PlacedInOrder
      <3>5. HoldLive(lock, g, clock)
        BY <3>1, <3>3 DEF HoldLive, HeldSeats
      <3>6. \A j \in HoldsOf(u) : holds[j].rowid <= holds[g].rowid
        BY <3>4, <3>5 DEF SaleInv, NewestLives
      <3>7. CASE u = t
        <4>1. g \in FindLatestHold(t)
          <5> SUFFICES ASSUME NEW j \in HoldsOf(t) \ {g} PROVE Newer(g, j)
            BY <3>4, <3>7 DEF FindLatestHold
          <5>1. /\ j \in Ids /\ holds[j].rowid # 0
                /\ holds[j].rowid \in Nat /\ holds[g].rowid \in Nat
                /\ holds[j].createdAt \in Nat /\ holds[g].createdAt \in Nat
            BY <1>5, <2>1 DEF HoldsOf, HoldRow
          <5>2. holds[j].rowid < holds[g].rowid
            BY <2>1, <3>6, <3>7, <5>1 DEF SaleInv, RowidsGrow
          <5>3. holds[j].createdAt <= holds[g].createdAt
            BY <3>4, <3>7, <5>2 DEF PlacedInOrder
          <5> QED
            BY <5>1, <5>2, <5>3 DEF Newer
        <4>2. g \in ExistingHold(t, d, now)
          <5>1. ~(holds[g].expiresAt <= now) /\ holds[g].expiresAt > now
            BY <1>1, <3>1
          <5>2. Swept(lock, {d}, now)[g][b] = "HELD"
            BY <2>1, <3>2, <3>3, <5>1 DEF Swept
          <5> QED
            BY <4>1, <5>1, <5>2 DEF ExistingHold, HoldLive, HeldSeats
        <4>3. M[g][b] # "HELD"
          BY <2>1, <3>2, <4>2 DEF Freed, Released
        <4> QED
          BY <3>2, <4>3
      <3>8. CASE u # t
        <4>1. i # h
          BY <1>5, <2>1, <3>8
        <4>2. i \in HoldsOf(u)
          BY <1>5, <1>7, <2>1, <4>1 DEF HoldsOf
        <4> QED
          BY <1>5, <2>1, <3>1, <3>6, <4>1, <4>2
      <3> QED
        BY <3>7, <3>8
    <2> QED
      BY <2>2, <2>3
  <1>8. NewestLives'
    BY <1>7 DEF NewestLives
  <1> QED
    BY <1>2, <1>3, <1>6, <1>8 DEF SaleInv

\* Every transaction of the store keeps the order of the holds.
LEMMA SaleStepInv == SaleInv /\ [StoreNext]_storeVars => SaleInv'
  <1> SUFFICES ASSUME SaleInv, [StoreNext]_storeVars PROVE SaleInv'
    OBVIOUS
  <1>0. StoreInv /\ StoreInv' /\ StoreTypeOK /\ clock \in Nat /\ clock <= MaxClock
    BY StepInv DEF SaleInv, StoreInv, StoreTypeOK
  <1>1. ASSUME NEW D, NEW now, SweepExpiredHolds(D, now) PROVE SaleInv'
    BY <1>0, <1>1, SweptLapses, LapseWanes DEF SweepExpiredHolds
  <1>2. CASE UNCHANGED storeVars
    <2>1. Lapsed(lock, lock')
      BY <1>0, <1>2 DEF Lapsed, StoreTypeOK, storeVars
    <2> QED
      BY <1>2, <2>1, LapseWanes DEF storeVars
  <1>3. ASSUME NEW t \in Txns, NEW d \in Departures,
               NEW now \in 0..clock, NEW S \in (SUBSET OnDeparture(d)) \ {{}},
               AcquireHold(t, d, S, now)
        PROVE  SaleInv'
    <2>1. S \in SUBSET Berths /\ S # {}
      BY DEF OnDeparture
    <2>2. CASE \E h \in Ids : PlaceHold(h, t, d, S, now)
      BY <2>1, <2>2, PlaceHoldKeepsOrder
    <2>3. CASE KeepHold(t, d, S, now)
      BY <1>1, <2>3 DEF KeepHold
    <2>4. CASE RefuseHold(t, d, S, now)
      BY <1>2, <2>4 DEF RefuseHold
    <2> QED
      BY <1>3, <2>2, <2>3, <2>4 DEF AcquireHold
  <1>4. ASSUME NEW t \in Txns, NEW h \in HoldsOf(t), NEW k \in Ids,
               PlaceBooking(k, h, t, SeatsOf(lock, h))
        PROVE  SaleInv'
    <2>1. h \in Ids
      BY DEF HoldsOf
    <2>2. \A g \in Ids : /\ holds'[g].rowid = holds[g].rowid
                         /\ holds'[g].txn = holds[g].txn
                         /\ holds'[g].createdAt = holds[g].createdAt
                         /\ holds'[g].expiresAt = holds[g].expiresAt
      BY <1>0, <1>4, <2>1 DEF PlaceBooking, StoreTypeOK, HoldRow
    <2>3. \A g \in Ids, b \in Berths : lock'[g][b] = "HELD" => lock[g][b] = "HELD"
      BY <1>0, <1>4, <2>1 DEF PlaceBooking, StoreTypeOK
    <2>4. Wanes
      BY <1>0, <1>4, <2>2, <2>3 DEF Wanes, PlaceBooking
    <2> QED
      BY <1>0, <2>4, WaneKeepsOrder
  <1>5. ASSUME NEW k \in Ids, NEW S, ApplyCancellation(k, S) PROVE SaleInv'
    <2>1. Wanes
      BY <1>0, <1>5 DEF Wanes, ApplyCancellation, LocksReleased
    <2> QED
      BY <1>0, <2>1, WaneKeepsOrder
  <1>6. CASE Tick
    <2>1. Wanes
      BY <1>0, <1>6, StoreAssumption DEF Wanes, Tick
    <2> QED
      BY <1>0, <2>1, WaneKeepsOrder
  <1> QED
    BY <1>1, <1>2, <1>3, <1>4, <1>5, <1>6
       DEF StoreNext, ConfirmBooking, RefuseBooking, RepeatBooking

\* The order of the holds holds of the tables under every interleaving of the
\* store's transactions.
THEOREM SaleInvariant == StoreSpec => []SaleInv
  <1>1. StoreInit => SaleInv
    <2> SUFFICES ASSUME StoreInit PROVE SaleInv
      OBVIOUS
    <2>1. clock = 0 /\ rows = 0 /\ \A h \in Ids : holds[h].rowid = 0
      BY DEF StoreInit, NoHold
    <2> QED
      BY <2>1, InitInv, StoreAssumption DEF SaleInv, RowidsGrow, NewestLives, HoldsOf
  <1>2. SaleInv /\ [StoreNext]_storeVars => SaleInv'
    BY SaleStepInv
  <1> QED
    BY <1>1, <1>2, PTL DEF StoreSpec

\* A transaction has one running hold at most, as long as its holds are placed
\* in the order of the instants its selects read (acquireHold looks at the
\* newest hold only).
THEOREM OneHoldRuns == StoreSpec => []HoldsAreReplaced
  <1>1. SaleInv => HoldsAreReplaced
    <2> SUFFICES ASSUME SaleInv, NEW t \in Txns, PlacedInOrder(t),
                        NEW g \in HoldsOf(t), NEW h \in HoldsOf(t),
                        HoldLive(lock, g, clock), HoldLive(lock, h, clock)
                 PROVE  g = h
      BY DEF HoldsAreReplaced
    <2>1. holds[g].rowid <= holds[h].rowid /\ holds[h].rowid <= holds[g].rowid
      BY DEF SaleInv, NewestLives
    <2>2. /\ g \in Ids /\ h \in Ids /\ holds[g].rowid # 0
          /\ holds[g].rowid \in Nat /\ holds[h].rowid \in Nat
      BY DEF HoldsOf, SaleInv, StoreInv, StoreTypeOK, HoldRow
    <2>3. holds[g].rowid = holds[h].rowid
      BY <2>1, <2>2
    <2> QED
      BY <2>2, <2>3 DEF SaleInv, RowidsGrow
  <1> QED
    BY <1>1, SaleInvariant, PTL

-----------------------------------------------------------------------------
(* The tables implement SeatSale.                                          *)

\* The claim on a berth is that of its one live row.
LEMMA ClaimIs ==
  ASSUME OneLiveClaimPerBerth, NEW b \in Berths
  PROVE  /\ (\A h \in Ids : lock[h][b] \notin LiveState) => ClaimOf(b) = Sale!Free
         /\ \A h \in Ids : lock[h][b] = "HELD" =>
               ClaimOf(b) = Sale!HeldFor(holds[h].txn, holds[h].expiresAt)
         /\ \A h \in Ids : lock[h][b] = "BOOKED" => ClaimOf(b) = Sale!SoldTo(holds[h].txn)
  <1>1. CASE LiveOn(b) = {}
    BY <1>1 DEF LiveOn, ClaimOf, Sale!Free, LiveState
  <1>2. ASSUME NEW h \in Ids, lock[h][b] \in LiveState
        PROVE  LiveOn(b) = {h} /\ (CHOOSE g \in LiveOn(b) : TRUE) = h
    BY <1>2 DEF OneLiveClaimPerBerth, LiveOn
  <1>3. ASSUME NEW h \in Ids, lock[h][b] = "HELD"
        PROVE  ClaimOf(b) = Sale!HeldFor(holds[h].txn, holds[h].expiresAt)
    BY <1>2, <1>3 DEF ClaimOf, LiveState, Sale!HeldFor
  <1>4. ASSUME NEW h \in Ids, lock[h][b] = "BOOKED"
        PROVE  ClaimOf(b) = Sale!SoldTo(holds[h].txn)
    BY <1>2, <1>4 DEF ClaimOf, LiveState, Sale!SoldTo
  <1> QED
    BY <1>1, <1>3, <1>4 DEF LiveOn

\* The same of the claims after a step.
LEMMA ClaimIsNext ==
  ASSUME OneLiveClaimPerBerth', NEW b \in Berths
  PROVE  /\ (\A h \in Ids : lock'[h][b] \notin LiveState) => ClaimOf(b)' = Sale!Free
         /\ \A h \in Ids : lock'[h][b] = "HELD" =>
               ClaimOf(b)' = Sale!HeldFor(holds'[h].txn, holds'[h].expiresAt)
         /\ \A h \in Ids : lock'[h][b] = "BOOKED" => ClaimOf(b)' = Sale!SoldTo(holds'[h].txn)
  <1>1. CASE LiveOn(b)' = {}
    BY <1>1 DEF LiveOn, ClaimOf, Sale!Free, LiveState
  <1>2. ASSUME NEW h \in Ids, lock'[h][b] \in LiveState
        PROVE  LiveOn(b)' = {h} /\ (CHOOSE g \in LiveOn(b)' : TRUE) = h
    BY <1>2 DEF OneLiveClaimPerBerth, LiveOn
  <1>3. ASSUME NEW h \in Ids, lock'[h][b] = "HELD"
        PROVE  ClaimOf(b)' = Sale!HeldFor(holds'[h].txn, holds'[h].expiresAt)
    BY <1>2, <1>3 DEF ClaimOf, LiveState, Sale!HeldFor
  <1>4. ASSUME NEW h \in Ids, lock'[h][b] = "BOOKED"
        PROVE  ClaimOf(b)' = Sale!SoldTo(holds'[h].txn)
    BY <1>2, <1>4 DEF ClaimOf, LiveState, Sale!SoldTo
  <1> QED
    BY <1>1, <1>3, <1>4 DEF LiveOn

\* A berth whose rows are what they were carries the claim it did.
LEMMA ClaimStays ==
  ASSUME StoreInv, StoreInv', NEW b \in Berths,
         \A h \in Ids : /\ lock'[h][b] \in LiveState <=> lock[h][b] \in LiveState
                        /\ lock[h][b] \in LiveState =>
                              /\ lock'[h][b] = lock[h][b]
                              /\ holds'[h].txn = holds[h].txn
                              /\ holds'[h].expiresAt = holds[h].expiresAt
  PROVE  ClaimOf(b)' = ClaimOf(b)
  <1>1. OneLiveClaimPerBerth /\ OneLiveClaimPerBerth'
    BY DEF StoreInv
  <1>2. CASE \A h \in Ids : lock[h][b] \notin LiveState
    BY <1>1, <1>2, ClaimIs, ClaimIsNext
  <1>3. ASSUME NEW h \in Ids, lock[h][b] = "HELD" PROVE ClaimOf(b)' = ClaimOf(b)
    <2>1. /\ lock'[h][b] = "HELD" /\ holds'[h].txn = holds[h].txn
          /\ holds'[h].expiresAt = holds[h].expiresAt
      BY <1>3 DEF LiveState
    <2>2. ClaimOf(b) = Sale!HeldFor(holds[h].txn, holds[h].expiresAt)
      BY <1>1, <1>3, ClaimIs
    <2>3. ClaimOf(b)' = Sale!HeldFor(holds'[h].txn, holds'[h].expiresAt)
      BY <1>1, <2>1, ClaimIsNext
    <2> QED
      BY <2>1, <2>2, <2>3
  <1>4. ASSUME NEW h \in Ids, lock[h][b] = "BOOKED" PROVE ClaimOf(b)' = ClaimOf(b)
    <2>1. lock'[h][b] = "BOOKED" /\ holds'[h].txn = holds[h].txn
      BY <1>4 DEF LiveState
    <2>2. ClaimOf(b) = Sale!SoldTo(holds[h].txn)
      BY <1>1, <1>4, ClaimIs
    <2>3. ClaimOf(b)' = Sale!SoldTo(holds'[h].txn)
      BY <1>1, <2>1, ClaimIsNext
    <2> QED
      BY <2>1, <2>2, <2>3
  <1> QED
    BY <1>2, <1>3, <1>4 DEF LiveState

\* A sweep lets holds go whose instant has passed.
LEMMA SweepLapses ==
  ASSUME SaleInv, StoreInv', NEW D, NEW now \in 0..clock, SweepExpiredHolds(D, now)
  PROVE  Sale!Lapse
  <1> DEFINE Gone == {b \in Berths : \E h \in Ids :
                         lock[h][b] = "HELD" /\ lock'[h][b] = "EXPIRED"}
  <1>0. StoreInv /\ OneLiveClaimPerBerth /\ OneLiveClaimPerBerth' /\ clock \in Nat
    BY DEF SaleInv, StoreInv, StoreTypeOK
  <1>1. /\ \A h \in Ids, b \in Berths :
              lock'[h][b] = IF /\ lock[h][b] = "HELD" /\ holds[h].departure \in D
                               /\ holds[h].expiresAt <= now
                            THEN "EXPIRED" ELSE lock[h][b]
        /\ UNCHANGED <<holds, clock>>
    BY DEF SweepExpiredHolds, Swept
  <1>2. ASSUME NEW b \in Gone
        PROVE  /\ b \in Sale!Lapsable(None)
               /\ ClaimOf(b)' = Sale!Free
    <2>1. PICK h \in Ids : lock[h][b] = "HELD" /\ lock'[h][b] = "EXPIRED"
      OBVIOUS
    <2>2. holds[h].expiresAt <= now /\ holds[h].expiresAt \in Nat
      BY <1>0, <1>1, <2>1 DEF StoreInv, StoreTypeOK, HoldRow
    <2>3. holds[h].expiresAt <= clock
      BY <1>0, <2>2
    <2>4. ClaimOf(b) = Sale!HeldFor(holds[h].txn, holds[h].expiresAt)
      BY <1>0, <2>1, ClaimIs
    <2>5. \A g \in Ids : lock'[g][b] \notin LiveState
      BY <1>0, <1>1, <2>1 DEF OneLiveClaimPerBerth, LiveState
    <2>6. ClaimOf(b)' = Sale!Free
      BY <1>0, <2>5, ClaimIsNext
    <2> QED
      BY <2>3, <2>4, <2>6 DEF Sale!Lapsable, Sale!HeldFor
  <1>3. ASSUME NEW b \in Berths \ Gone PROVE ClaimOf(b)' = ClaimOf(b)
    <2>1. \A h \in Ids : lock'[h][b] = lock[h][b]
      BY <1>1
    <2> QED
      BY <1>0, <1>1, <2>1, ClaimStays
  <1> HIDE DEF Gone
  <1>4. Gone \in SUBSET Sale!Lapsable(None)
    BY <1>2
  <1>5. [b \in Berths |-> ClaimOf(b)]' =
          [b \in Berths |-> IF b \in Gone THEN Sale!Free ELSE [c \in Berths |-> ClaimOf(c)][b]]
    BY <1>2, <1>3
  <1> QED
    BY <1>1, <1>4, <1>5 DEF Sale!Lapse

\* A hold takes its berths, and those let go on the way are the transaction's
\* own or lapsed.
LEMMA PlaceHoldTakes ==
  ASSUME SaleInv, StoreInv', NEW h \in Ids, NEW t \in Txns, NEW d \in Departures,
         NEW now \in 0..clock, NEW S \in SUBSET Berths,
         PlaceHold(h, t, d, S, now)
  PROVE  Sale!Take(t, now + HoldTtl)
  <1> DEFINE M == Freed(t, d, now)
             Gone == {b \in Berths : \E g \in Ids :
                         lock[g][b] = "HELD" /\ M[g][b] # "HELD"}
  <1>0. StoreInv /\ OneLiveClaimPerBerth /\ OneLiveClaimPerBerth'
    BY DEF SaleInv, StoreInv
  <1>1. Lapsed(lock, M)
    BY <1>0, FreedLapses DEF StoreInv
  <1>2. /\ holds[h].rowid = 0 /\ \A b \in Berths : lock[h][b] = "NONE"
        /\ \A b \in Berths : lock'[h][b] = IF b \in S THEN "HELD" ELSE "NONE"
        /\ holds'[h].txn = t /\ holds'[h].expiresAt = now + HoldTtl
        /\ \A g \in Ids : g # h => lock'[g] = M[g] /\ holds'[g] = holds[g]
        /\ \A b \in S, g \in Ids : M[g][b] \notin LiveState
        /\ clock' = clock
    BY <1>0 DEF PlaceHold, StoreInv, StoreTypeOK, PlacedHolds, Taken, Freed, Released
  <1>3. ASSUME NEW b \in Gone PROVE b \in Sale!Lapsable(t)
    <2>1. PICK g \in Ids : lock[g][b] = "HELD" /\ M[g][b] # "HELD"
      OBVIOUS
    <2>2. ClaimOf(b) = Sale!HeldFor(holds[g].txn, holds[g].expiresAt)
      BY <1>0, <2>1, ClaimIs
    <2>3. holds[g].txn = t \/ holds[g].expiresAt <= clock
      <3>1. CASE Swept(lock, {d}, now)[g][b] = "HELD"
        <4>1. g \in ExistingHold(t, d, now)
          BY <2>1, <3>1 DEF Freed, Released
        <4> QED
          BY <4>1 DEF ExistingHold, FindLatestHold, HoldsOf
      <3>2. CASE Swept(lock, {d}, now)[g][b] # "HELD"
        <4>1. holds[g].expiresAt <= now /\ holds[g].expiresAt \in Nat
          BY <1>0, <2>1, <3>2 DEF Swept, StoreInv, StoreTypeOK, HoldRow
        <4> QED
          BY <1>0, <4>1 DEF StoreInv, StoreTypeOK
      <3> QED
        BY <3>1, <3>2
    <2> QED
      BY <2>2, <2>3 DEF Sale!Lapsable, Sale!HeldFor
  <1>4. ASSUME NEW b \in S
        PROVE  /\ b \in Gone \/ ClaimOf(b) = Sale!Free
               /\ ClaimOf(b)' = Sale!HeldFor(t, now + HoldTtl)
    <2>1. ClaimOf(b)' = Sale!HeldFor(t, now + HoldTtl)
      BY <1>0, <1>2, ClaimIsNext
    <2>2. CASE \E g \in Ids : lock[g][b] = "HELD"
      BY <1>2, <2>1, <2>2 DEF LiveState
    <2>3. CASE ~\E g \in Ids : lock[g][b] = "HELD"
      <3>1. \A g \in Ids : lock[g][b] \notin LiveState
        BY <1>1, <1>2, <2>3, LapsedRow DEF LiveState
      <3> QED
        BY <1>0, <2>1, <3>1, ClaimIs
    <2> QED
      BY <2>2, <2>3
  <1>5. ASSUME NEW b \in Gone \ S PROVE ClaimOf(b)' = Sale!Free
    <2>1. PICK g \in Ids : lock[g][b] = "HELD" /\ M[g][b] # "HELD"
      OBVIOUS
    <2>2. \A i \in Ids : lock'[i][b] \notin LiveState
      <3> SUFFICES ASSUME NEW i \in Ids PROVE lock'[i][b] \notin LiveState
        OBVIOUS
      <3>1. CASE i = h
        BY <1>2, <3>1 DEF LiveState
      <3>2. CASE i # h /\ i = g
        BY <1>1, <1>2, <2>1, <3>2, LapsedRow DEF LiveState
      <3>3. CASE i # h /\ i # g
        <4>1. lock[i][b] \notin LiveState
          BY <1>0, <2>1, <3>3 DEF OneLiveClaimPerBerth, LiveState
        <4> QED
          BY <1>1, <1>2, <3>3, <4>1, LapsedRow DEF LiveState
      <3> QED
        BY <3>1, <3>2, <3>3
    <2> QED
      BY <1>0, <2>2, ClaimIsNext
  <1>6. ASSUME NEW b \in (Berths \ Gone) \ S PROVE ClaimOf(b)' = ClaimOf(b)
    <2>1. \A g \in Ids : /\ lock'[g][b] \in LiveState <=> lock[g][b] \in LiveState
                         /\ lock[g][b] \in LiveState =>
                              /\ lock'[g][b] = lock[g][b] /\ holds'[g] = holds[g]
      <3> SUFFICES ASSUME NEW g \in Ids
                   PROVE  /\ lock'[g][b] \in LiveState <=> lock[g][b] \in LiveState
                          /\ lock[g][b] \in LiveState =>
                               /\ lock'[g][b] = lock[g][b] /\ holds'[g] = holds[g]
        OBVIOUS
      <3>1. CASE g = h
        BY <1>2, <3>1 DEF LiveState
      <3>2. CASE g # h
        BY <1>1, <1>2, <3>2, LapsedRow DEF LiveState
      <3> QED
        BY <3>1, <3>2
    <2> QED
      BY <1>0, <2>1, ClaimStays
  <1> HIDE DEF Gone, M
  <1>7. Gone \in SUBSET Sale!Lapsable(t)
    BY <1>3
  <1>8. S \in SUBSET (Gone \cup {b \in Berths : [c \in Berths |-> ClaimOf(c)][b] = Sale!Free})
    BY <1>4
  <1>9. [b \in Berths |-> ClaimOf(b)]' =
          [b \in Berths |-> IF b \in S THEN Sale!HeldFor(t, now + HoldTtl)
                            ELSE IF b \in Gone THEN Sale!Free
                            ELSE [c \in Berths |-> ClaimOf(c)][b]]
    BY <1>4, <1>5, <1>6
  <1> QED
    BY <1>2, <1>7, <1>8, <1>9 DEF Sale!Take

\* A booking sells the berths of its hold to the hold's transaction.
LEMMA PlaceBookingSells ==
  ASSUME SaleInv, StoreInv', NEW k \in Ids, NEW h \in Ids, NEW t \in Txns,
         holds[h].txn = t, NEW S, PlaceBooking(k, h, t, S)
  PROVE  Sale!Sell(t)
  <1> DEFINE Sold == {b \in Berths : lock[h][b] = "HELD"}
  <1>0. StoreInv /\ OneLiveClaimPerBerth /\ OneLiveClaimPerBerth' /\ StoreTypeOK
    BY DEF SaleInv, StoreInv
  <1>1. /\ \A b \in Berths : lock'[h][b] = IF lock[h][b] = "HELD" THEN "BOOKED" ELSE lock[h][b]
        /\ \A g \in Ids : g # h => lock'[g] = lock[g]
        /\ \A g \in Ids : /\ holds'[g].txn = holds[g].txn
                          /\ holds'[g].expiresAt = holds[g].expiresAt
        /\ clock' = clock
    BY <1>0 DEF PlaceBooking, StoreTypeOK, HoldRow
  <1>2. ASSUME NEW b \in Sold
        PROVE  /\ ClaimOf(b) = Sale!HeldFor(t, holds[h].expiresAt)
               /\ ClaimOf(b)' = Sale!SoldTo(t)
    <2>1. lock[h][b] = "HELD" /\ lock'[h][b] = "BOOKED"
      BY <1>1
    <2>2. ClaimOf(b) = Sale!HeldFor(t, holds[h].expiresAt)
      BY <1>0, <2>1, ClaimIs
    <2>3. ClaimOf(b)' = Sale!SoldTo(t)
      BY <1>0, <1>1, <2>1, ClaimIsNext
    <2> QED
      BY <2>2, <2>3
  <1>3. ASSUME NEW b \in Berths \ Sold PROVE ClaimOf(b)' = ClaimOf(b)
    <2>1. \A g \in Ids : lock'[g][b] = lock[g][b]
      BY <1>1
    <2> QED
      BY <1>0, <1>1, <2>1, ClaimStays
  <1> HIDE DEF Sold
  <1>4. Sold \in SUBSET {b \in Berths : /\ [c \in Berths |-> ClaimOf(c)][b].kind = "HELD"
                                        /\ [c \in Berths |-> ClaimOf(c)][b].by = t}
    <2>1. Sold \subseteq Berths
      BY DEF Sold
    <2> QED
      BY <1>2, <2>1 DEF Sale!HeldFor
  <1>5. [b \in Berths |-> ClaimOf(b)]' =
          [b \in Berths |-> IF b \in Sold THEN Sale!SoldTo(t)
                            ELSE [c \in Berths |-> ClaimOf(c)][b]]
    BY <1>2, <1>3
  <1> QED
    BY <1>1, <1>4, <1>5 DEF Sale!Sell

\* A cancellation returns berths sold to the booking's transaction.
LEMMA CancellationReturns ==
  ASSUME SaleInv, StoreInv', NEW k \in Ids, NEW S, ApplyCancellation(k, S)
  PROVE  bookings[k].txn \in Txns /\ Sale!Return(bookings[k].txn)
  <1> DEFINE Back == {b \in Berths : b \in S /\ \E h \in Ids :
                         holds[h].booking = k /\ lock[h][b] = "BOOKED"}
             t == bookings[k].txn
  <1>0. StoreInv /\ OneLiveClaimPerBerth /\ OneLiveClaimPerBerth' /\ StoreTypeOK
    BY DEF SaleInv, StoreInv
  <1>1. /\ bookings[k].status # "NONE"
        /\ \A h \in Ids, b \in Berths :
              lock'[h][b] = IF holds[h].booking = k /\ b \in S /\ lock[h][b] = "BOOKED"
                            THEN "RELEASED" ELSE lock[h][b]
        /\ holds' = holds /\ clock' = clock
    BY DEF ApplyCancellation, LocksReleased
  <1>2. t \in Txns
    BY <1>0, <1>1 DEF StoreInv, UnusedBookings, StoreTypeOK, BookingRow
  <1>3. ASSUME NEW b \in Back
        PROVE  ClaimOf(b) = Sale!SoldTo(t) /\ ClaimOf(b)' = Sale!Free
    <2>1. PICK h \in Ids : holds[h].booking = k /\ lock[h][b] = "BOOKED" /\ b \in S
      OBVIOUS
    <2>2. holds[h].txn = t
      BY <1>0, <2>1, StoreAssumption DEF StoreInv, BookingIds
    <2>3. ClaimOf(b) = Sale!SoldTo(t)
      BY <1>0, <2>1, <2>2, ClaimIs
    <2>4. \A g \in Ids : lock'[g][b] \notin LiveState
      BY <1>0, <1>1, <2>1 DEF OneLiveClaimPerBerth, LiveState
    <2> QED
      BY <1>0, <2>3, <2>4, ClaimIsNext
  <1>4. ASSUME NEW b \in Berths \ Back PROVE ClaimOf(b)' = ClaimOf(b)
    <2>1. \A g \in Ids : lock'[g][b] = lock[g][b]
      BY <1>1
    <2> QED
      BY <1>0, <1>1, <2>1, ClaimStays
  <1>5. Back \subseteq Berths
    OBVIOUS
  <1> HIDE DEF Back
  <1>6. Back \in SUBSET {b \in Berths : [c \in Berths |-> ClaimOf(c)][b] = Sale!SoldTo(t)}
    BY <1>3, <1>5
  <1>7. [b \in Berths |-> ClaimOf(b)]' =
          [b \in Berths |-> IF b \in Back THEN Sale!Free
                            ELSE [c \in Berths |-> ClaimOf(c)][b]]
    BY <1>3, <1>4
  <1> QED
    BY <1>1, <1>2, <1>6, <1>7 DEF Sale!Return

\* Every transaction of the store is a step of the sale of berths, or none.
LEMMA StepIsASale ==
  ASSUME SaleInv, SaleInv', StoreNext
  PROVE  [Sale!Next]_(Sale!vars)
  <1> USE DEF Sale!Next
  <1>0. StoreInv /\ StoreInv' /\ clock \in Nat /\ clock <= MaxClock
    BY DEF SaleInv, StoreInv, StoreTypeOK
  <1>1. ASSUME NEW D, NEW now \in 0..clock, SweepExpiredHolds(D, now)
        PROVE  [Sale!Next]_(Sale!vars)
    BY <1>0, <1>1, SweepLapses
  <1>2. CASE UNCHANGED storeVars
    <2>1. \A b \in Berths : ClaimOf(b)' = ClaimOf(b)
      BY <1>0, <1>2, ClaimStays DEF storeVars
    <2> QED
      BY <1>2, <2>1 DEF Sale!vars, storeVars
  <1>3. ASSUME NEW t \in Txns, NEW d \in Departures,
               NEW now \in 0..clock, NEW S \in (SUBSET OnDeparture(d)) \ {{}},
               AcquireHold(t, d, S, now)
        PROVE  [Sale!Next]_(Sale!vars)
    <2>1. CASE \E h \in Ids : PlaceHold(h, t, d, S, now)
      <3>1. S \in SUBSET Berths
        BY DEF OnDeparture
      <3>2. Sale!Take(t, now + HoldTtl)
        BY <1>0, <2>1, <3>1, PlaceHoldTakes
      <3>3. now + HoldTtl \in 0..(MaxClock + HoldTtl)
        BY <1>0, StoreAssumption
      <3> QED
        BY <3>2, <3>3
    <2>2. CASE KeepHold(t, d, S, now)
      BY <1>1, <2>2 DEF KeepHold
    <2>3. CASE RefuseHold(t, d, S, now)
      BY <1>2, <2>3 DEF RefuseHold
    <2> QED
      BY <1>3, <2>1, <2>2, <2>3 DEF AcquireHold
  <1>4. ASSUME NEW t \in Txns, NEW h \in HoldsOf(t), NEW k \in Ids,
               PlaceBooking(k, h, t, SeatsOf(lock, h))
        PROVE  [Sale!Next]_(Sale!vars)
    <2>1. h \in Ids /\ holds[h].txn = t
      BY DEF HoldsOf
    <2>2. Sale!Sell(t)
      BY <1>0, <1>4, <2>1, PlaceBookingSells
    <2> QED
      BY <2>2
  <1>5. ASSUME NEW k \in Ids, NEW S, ApplyCancellation(k, S)
        PROVE  [Sale!Next]_(Sale!vars)
    BY <1>0, <1>5, CancellationReturns
  <1>6. CASE Tick
    <2>1. \A b \in Berths : ClaimOf(b)' = ClaimOf(b)
      BY <1>0, <1>6, ClaimStays DEF Tick
    <2> QED
      BY <1>6, <2>1 DEF Sale!Tick, Tick
  <1> QED
    BY <1>1, <1>2, <1>3, <1>4, <1>5, <1>6
       DEF StoreNext, ConfirmBooking, RefuseBooking, RepeatBooking

\* The tables implement the sale of berths: what every transaction of
\* ReservedStore does to hold ids, rows and bookings is, berth by berth, what
\* the promise allows.
THEOREM StoreImplementsSeatSale == StoreSpec => ImplementsSeatSale
  <1>1. StoreInit => Sale!Init
    <2> SUFFICES ASSUME StoreInit PROVE Sale!Init
      OBVIOUS
    <2>1. OneLiveClaimPerBerth
      BY InitInv DEF StoreInv
    <2>2. \A b \in Berths, h \in Ids : lock[h][b] \notin LiveState
      BY DEF StoreInit, LiveState
    <2>3. \A b \in Berths : ClaimOf(b) = Sale!Free
      BY <2>1, <2>2, ClaimIs
    <2> QED
      BY <2>3 DEF Sale!Init, StoreInit
  <1>2. SaleInv /\ SaleInv' /\ [StoreNext]_storeVars => [Sale!Next]_(Sale!vars)
    <2> SUFFICES ASSUME SaleInv, SaleInv', [StoreNext]_storeVars
                 PROVE  [Sale!Next]_(Sale!vars)
      OBVIOUS
    <2>1. CASE UNCHANGED storeVars
      <3>1. \A b \in Berths : ClaimOf(b)' = ClaimOf(b)
        BY <2>1, ClaimStays DEF storeVars, SaleInv
      <3> QED
        BY <2>1, <3>1 DEF Sale!vars, storeVars
    <2> QED
      BY <2>1, StepIsASale
  <1> QED
    BY <1>1, <1>2, SaleInvariant, PTL DEF StoreSpec, ImplementsSeatSale, Sale!Spec
=============================================================================
