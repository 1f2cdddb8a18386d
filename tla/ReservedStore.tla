--------------------------- MODULE ReservedStore ---------------------------
(***************************************************************************)
(* The tables of the reserved category (seat_locks, bookings,              *)
(* booking_seats) and the transactions ReservedStore runs on them.  Each   *)
(* action is one withTransaction block: BEGIN IMMEDIATE lets one writer    *)
(* run at a time, across processes too, and an error rolls all of it back. *)
(*                                                                         *)
(* A berth is a seat of one dated departure, the key of the unique index   *)
(* on live locks.  A hold's rows are inserted together, so what they share *)
(* (transaction, instants, rowid order, booking) is kept once per hold in  *)
(* "holds" and the state of each row in "lock".                            *)
(***************************************************************************)
EXTENDS Naturals, FiniteSets

CONSTANTS Txns,          \* buyer identities (bap_id, bap_uri, transaction_id)
          Departures,    \* dated departures (service_id, travel_date)
          Berths,        \* seats of dated departures
          DepartureOf,   \* the departure a berth is on
          Ids,           \* what idFactory draws: hold ids and order ids
          HoldTtl,       \* holdTtlSeconds, in ticks
          MaxClock,      \* bound on the clock
          None           \* SQL NULL

ASSUME StoreAssumption ==
    /\ DepartureOf \in [Berths -> Departures]
    /\ IsFiniteSet(Berths)
    /\ HoldTtl \in Nat \ {0}
    /\ MaxClock \in Nat
    /\ None \notin Txns \cup Departures \cup Ids

VARIABLES holds,      \* per hold id: what the rows of the hold share
          lock,       \* per hold id and berth: the state of the row
          bookings,   \* per order id: the booking row and its booking_seats
          rows,       \* the last rowid given to a hold
          clock       \* the provider's clock, this.now()

storeVars == <<holds, lock, bookings, rows, clock>>

LockState == {"HELD", "BOOKED", "EXPIRED", "RELEASED"}
LiveState == {"HELD", "BOOKED"}

\* rowid 0: no row carries this hold id.  booking is the rows' booking_id.
\* expiresAt is read of HELD rows only, so the NULL confirmBooking writes over
\* it is not modelled.
HoldRow == [txn : Txns \cup {None}, departure : Departures \cup {None},
            createdAt : Nat, expiresAt : Nat, rowid : Nat,
            booking : Ids \cup {None}]
NoHold == [txn |-> None, departure |-> None, createdAt |-> 0,
           expiresAt |-> 0, rowid |-> 0, booking |-> None]

BookingRow == [txn : Txns \cup {None},
               status : {"NONE", "CONFIRMED", "CANCELLED"},
               seat : [Berths -> {"NONE", "CONFIRMED", "CANCELLED"}]]
NoBooking == [txn |-> None, status |-> "NONE",
              seat |-> [b \in Berths |-> "NONE"]]

StoreInit ==
    /\ holds = [h \in Ids |-> NoHold]
    /\ lock = [h \in Ids |-> [b \in Berths |-> "NONE"]]
    /\ bookings = [k \in Ids |-> NoBooking]
    /\ rows = 0
    /\ clock = 0

-----------------------------------------------------------------------------
(* Reads.  L is a version of the lock table inside a transaction.          *)

SeatsOf(L, h) == {b \in Berths : L[h][b] # "NONE"}
HeldSeats(L, h) == {b \in Berths : L[h][b] = "HELD"}

Taken_BookedOnly(L, S) == {b \in S : \E h \in Ids : L[h][b] = "BOOKED"}

\* The seats of S a live claim is on (liveClaims, and the partial unique
\* index that backs it).
Taken(L, S) == {b \in S : \E h \in Ids : L[h][b] \in LiveState}

HoldsOf(t) == {h \in Ids : holds[h].rowid # 0 /\ holds[h].txn = t}

\* ORDER BY created_at DESC, rowid DESC.
Newer(h, g) ==
    \/ holds[h].createdAt > holds[g].createdAt
    \/ holds[h].createdAt = holds[g].createdAt /\ holds[h].rowid > holds[g].rowid

\* The newest hold of a transaction, as a set of at most one hold id.
FindLatestHold(t) ==
    {h \in HoldsOf(t) : \A g \in HoldsOf(t) \ {h} : Newer(h, g)}

\* holdStatus = "LIVE".  The code looks at the state of one row of the hold:
\* the HELD rows of a hold are all of its rows or none (HoldRowsMoveTogether).
HoldLive(L, h, now) ==
    /\ HeldSeats(L, h) # {}
    /\ holds[h].expiresAt > now

BookedSeats(k) == {b \in Berths : bookings[k].seat[b] # "NONE"}

BookingOf(t) == {k \in Ids : bookings[k].txn = t}

-----------------------------------------------------------------------------
(* The updates the transactions are made of, on a lock table L.            *)

Swept_AllOfThem(L, D, now) ==
    [h \in Ids |-> [b \in Berths |->
        IF L[h][b] = "HELD" /\ holds[h].departure \in D
        THEN "EXPIRED" ELSE L[h][b]]]

Swept_Never(L, D, now) == L

Swept(L, D, now) ==
    [h \in Ids |-> [b \in Berths |->
        IF /\ L[h][b] = "HELD"
           /\ holds[h].departure \in D
           /\ holds[h].expiresAt <= now
        THEN "EXPIRED" ELSE L[h][b]]]

Released_OneRow(L, H) ==
    [h \in Ids |-> [b \in Berths |->
        IF h \in H /\ b = CHOOSE c \in SeatsOf(L, h) : TRUE
        THEN "RELEASED" ELSE L[h][b]]]

Released(L, H) ==
    [h \in Ids |-> [b \in Berths |->
        IF h \in H /\ L[h][b] = "HELD" THEN "RELEASED" ELSE L[h][b]]]

-----------------------------------------------------------------------------
(* Transactions.                                                           *)

\* sweepExpiredHolds on its own, or for the departures of a search.
SweepExpiredHolds(D, now) ==
    /\ lock' = Swept(lock, D, now)
    /\ UNCHANGED <<holds, bookings, rows, clock>>

\* acquireHold: the hold it finds live, the one of those that is exactly what
\* is asked for, and the table once a live hold that is not has been let go.
ExistingHold(t, d, now) ==
    {h \in FindLatestHold(t) : HoldLive(Swept(lock, {d}, now), h, now)}
SameHold(t, d, S, now) ==
    {h \in ExistingHold(t, d, now) :
        holds[h].departure = d /\ SeatsOf(lock, h) = S}
Freed_Never(t, d, now) == Swept(lock, {d}, now)
Freed(t, d, now) == Released(Swept(lock, {d}, now), ExistingHold(t, d, now))

\* The seats are the ones already held: the same hold, not extended.
KeepHold(t, d, S, now) ==
    /\ SameHold(t, d, S, now) # {}
    /\ SweepExpiredHolds({d}, now)

RefuseHold_ReleaseKept(t, d, S, now) ==
    /\ SameHold(t, d, S, now) = {}
    /\ Taken(Freed(t, d, now), S) # {}
    /\ lock' = Freed(t, d, now)
    /\ UNCHANGED <<holds, bookings, rows, clock>>

\* Some seat is claimed: SEAT-UNAVAILABLE, and the rollback undoes the sweep
\* and the release.
RefuseHold(t, d, S, now) ==
    /\ SameHold(t, d, S, now) = {}
    /\ Taken(Freed(t, d, now), S) # {}
    /\ UNCHANGED storeVars

\* Every seat is free: one row per seat under a new hold id h.
PlaceHold(h, t, d, S, now) ==
    /\ holds[h].rowid = 0
    /\ SameHold(t, d, S, now) = {}
    /\ Taken(Freed(t, d, now), S) = {}
    /\ lock' = [Freed(t, d, now) EXCEPT
                   ![h] = [b \in Berths |-> IF b \in S THEN "HELD" ELSE "NONE"]]
    /\ holds' = [holds EXCEPT
                   ![h] = [txn |-> t, departure |-> d, createdAt |-> now,
                           expiresAt |-> now + HoldTtl, rowid |-> rows + 1,
                           booking |-> None]]
    /\ rows' = rows + 1
    /\ UNCHANGED <<bookings, clock>>

\* confirmBooking counts the rows it moved from HELD to BOOKED against the
\* seats of the manifest, S.
HoldStillHeld(h, S) == Cardinality(HeldSeats(lock, h)) = Cardinality(S)

\* HOLD-EXPIRED, rolled back.
RefuseBooking(h, S) ==
    /\ ~HoldStillHeld(h, S)
    /\ UNCHANGED storeVars

TransactionUnbooked_Unchecked(t) == TRUE

\* The unique index bookings_transaction admits the row.
TransactionUnbooked(t) == BookingOf(t) = {}

\* The index refuses the row: rolled back, and the booking there is answers.
RepeatBooking(h, t, S) ==
    /\ HoldStillHeld(h, S)
    /\ ~TransactionUnbooked(t)
    /\ UNCHANGED storeVars

PlaceBooking(k, h, t, S) ==
    /\ bookings[k].status = "NONE"
    /\ HoldStillHeld(h, S)
    /\ TransactionUnbooked(t)
    /\ lock' = [lock EXCEPT ![h] = [b \in Berths |->
                   IF lock[h][b] = "HELD" THEN "BOOKED" ELSE lock[h][b]]]
    /\ holds' = [holds EXCEPT ![h].booking = k]
    /\ bookings' = [bookings EXCEPT
                      ![k] = [txn |-> t, status |-> "CONFIRMED",
                              seat |-> [b \in Berths |->
                                 IF b \in S THEN "CONFIRMED" ELSE "NONE"]]]
    /\ UNCHANGED <<rows, clock>>

SeatsCancelled_LockWord(k, S) ==
    [b \in Berths |-> IF b \in S /\ bookings[k].seat[b] = "CONFIRMED"
                      THEN "RELEASED" ELSE bookings[k].seat[b]]

\* applyCancellation: the seats S of booking k, whichever of them are still
\* confirmed, and the booking itself when none is left.
SeatsCancelled(k, S) ==
    [b \in Berths |-> IF b \in S /\ bookings[k].seat[b] = "CONFIRMED"
                      THEN "CANCELLED" ELSE bookings[k].seat[b]]

LocksReleased_WholeBooking(k, S) ==
    [h \in Ids |-> [b \in Berths |->
        IF holds[h].booking = k /\ lock[h][b] = "BOOKED"
        THEN "RELEASED" ELSE lock[h][b]]]

LocksReleased(k, S) ==
    [h \in Ids |-> [b \in Berths |->
        IF holds[h].booking = k /\ b \in S /\ lock[h][b] = "BOOKED"
        THEN "RELEASED" ELSE lock[h][b]]]

ApplyCancellation_WholeBooking(k, S) ==
    /\ bookings[k].status # "NONE"
    /\ bookings' = [bookings EXCEPT ![k].seat = SeatsCancelled(k, S),
                                    ![k].status = "CANCELLED"]
    /\ lock' = LocksReleased(k, S)
    /\ UNCHANGED <<holds, rows, clock>>

ApplyCancellation(k, S) ==
    /\ bookings[k].status # "NONE"
    /\ bookings' = [bookings EXCEPT
          ![k].seat = SeatsCancelled(k, S),
          ![k].status = IF \E b \in Berths : SeatsCancelled(k, S)[b] = "CONFIRMED"
                        THEN "CONFIRMED" ELSE "CANCELLED"]
    /\ lock' = LocksReleased(k, S)
    /\ UNCHANGED <<holds, rows, clock>>

Tick ==
    /\ clock < MaxClock
    /\ clock' = clock + 1
    /\ UNCHANGED <<holds, lock, bookings, rows>>

-----------------------------------------------------------------------------
(* The store on its own: any caller that passes an instant it read earlier *)
(* on the clock, berths of one departure, to confirmBooking a hold of the  *)
(* transaction with the hold's own seats (assertManifestMatchesHold), and  *)
(* to applyCancellation seats of the booking.                              *)

OnDeparture(d) == {b \in Berths : DepartureOf[b] = d}

AcquireHold(t, d, S, now) ==
    \/ KeepHold(t, d, S, now)
    \/ RefuseHold(t, d, S, now)
    \/ \E h \in Ids : PlaceHold(h, t, d, S, now)

ConfirmBooking(h, t, S) ==
    \/ RefuseBooking(h, S)
    \/ RepeatBooking(h, t, S)
    \/ \E k \in Ids : PlaceBooking(k, h, t, S)

StoreNext ==
    \/ \E D \in SUBSET Departures, now \in 0..clock : SweepExpiredHolds(D, now)
    \/ \E t \in Txns, d \in Departures, now \in 0..clock :
         \E S \in (SUBSET OnDeparture(d)) \ {{}} : AcquireHold(t, d, S, now)
    \/ \E t \in Txns : \E h \in HoldsOf(t) : ConfirmBooking(h, t, SeatsOf(lock, h))
    \/ \E k \in Ids : \E S \in (SUBSET BookedSeats(k)) \ {{}} : ApplyCancellation(k, S)
    \/ Tick

StoreSpec == StoreInit /\ [][StoreNext]_storeVars

-----------------------------------------------------------------------------
(* Properties.                                                             *)

\* The columns hold what their CHECK constraints and the store's own types
\* admit: lock states, booking statuses, and seats that are confirmed or
\* cancelled, never a word of the other table.
StoreTypeOK ==
    /\ holds \in [Ids -> HoldRow]
    /\ lock \in [Ids -> [Berths -> LockState \cup {"NONE"}]]
    /\ bookings \in [Ids -> BookingRow]
    /\ rows \in Nat
    /\ clock \in Nat

\* No berth carries two live claims, whoever made them: the coach is never
\* sold or held twice (the promise of the unique index seat_locks_live).
OneLiveClaimPerBerth ==
    \A g, h \in Ids, b \in Berths :
        lock[g][b] \in LiveState /\ lock[h][b] \in LiveState => g = h

\* A hold's rows leave HELD together, by whichever of sweep, replacement and
\* confirm gets there: holdFromRows may read the state off one row.
HoldRowsMoveTogether ==
    \A h \in Ids : HeldSeats(lock, h) \in {{}, SeatsOf(lock, h)}

\* booking_seats and seat_locks agree on what is sold: a booking's seat is
\* confirmed exactly when a lock of that booking is BOOKED on the berth, after
\* any mix of confirms, partial cancellations and resales.
BookingsMatchLocks ==
    \A k \in Ids, b \in Berths :
        bookings[k].seat[b] = "CONFIRMED"
            <=> \E h \in Ids : holds[h].booking = k /\ lock[h][b] = "BOOKED"

\* A booking is CANCELLED exactly when no seat of it is left.
StatusMatchesSeats ==
    \A k \in Ids : bookings[k].status # "NONE" =>
        (bookings[k].status = "CONFIRMED"
            <=> \E b \in Berths : bookings[k].seat[b] = "CONFIRMED")

\* A transaction is one order: two confirms never leave two bookings.
OneBookingPerTransaction ==
    \A j, k \in Ids :
        bookings[j].txn = bookings[k].txn /\ bookings[j].txn # None => j = k

\* A new hold of a transaction replaces the one before, so that only one runs,
\* as long as the holds are placed in the order of the instants their selects
\* read.  Nothing in the code makes sure of that order: a select reads its
\* instant before it waits for the database.
PlacedInOrder(t) ==
    \A g, h \in HoldsOf(t) :
        holds[g].rowid < holds[h].rowid => holds[g].createdAt <= holds[h].createdAt
HoldsAreReplaced ==
    \A t \in Txns : PlacedInOrder(t) =>
        \A g, h \in HoldsOf(t) :
            HoldLive(lock, g, clock) /\ HoldLive(lock, h, clock) => g = h

\* A refused select costs the rider nothing: the seats a transaction holds
\* are let go only by the step that puts a replacement hold of it in place.
ReleasedOnlyByReplacement ==
    [][\A h \in Ids, b \in Berths :
          lock[h][b] = "HELD" /\ lock'[h][b] = "RELEASED"
            => \E g \in Ids \ {h} : /\ holds[g].rowid = 0
                                    /\ holds'[g].rowid # 0
                                    /\ holds'[g].txn = holds[h].txn]_storeVars

-----------------------------------------------------------------------------
(* The promise the tables implement.                                       *)

LiveOn(b) == {h \in Ids : lock[h][b] \in LiveState}

\* The claim a berth carries: that of the one live row on it.
ClaimOf(b) ==
    LET h == CHOOSE h \in LiveOn(b) : TRUE
    IN  IF LiveOn(b) = {} THEN [by |-> None, kind |-> "FREE", until |-> 0]
        ELSE IF lock[h][b] = "HELD"
             THEN [by |-> holds[h].txn, kind |-> "HELD", until |-> holds[h].expiresAt]
             ELSE [by |-> holds[h].txn, kind |-> "SOLD", until |-> 0]

Sale == INSTANCE SeatSale WITH claim <- [b \in Berths |-> ClaimOf(b)],
                               Instants <- 0..(MaxClock + HoldTtl)

\* The transactions implement the sale of berths: no berth passes between
\* transactions except through being free, no hold ends before its published
\* instant unless its own transaction replaces it, and holds, sales and
\* cancellations of several berths happen as one.
ImplementsSeatSale == Sale!Spec
=============================================================================
