--------------------------- MODULE ReservedOrder ---------------------------
(***************************************************************************)
(* ReservedOrderService: the requests of the reserved category, each one a *)
(* chain of awaited steps, run by one or more server processes against the *)
(* tables of ReservedStore.  Between two steps of a request any other      *)
(* request may run, the clock may move, and the process may die.           *)
(*                                                                         *)
(* A request draws its ids from idFactory, so the hold a select places and *)
(* the order a confirm places carry the request's own id.                  *)
(***************************************************************************)
EXTENDS ReservedStore

CONSTANTS Procs,        \* server processes sharing the database
          Mortal,       \* those of them that may restart
          KindOf,       \* the action each request asks for
          Inputs,       \* what each request may carry
          GenderOf,     \* the gender the manifest of a confirm declares
          Adjacent,     \* pairs of berths side by side on a seat map
          Seeded,       \* berths the simulation sold: no rows behind them
          SeededFemale, \* those of them it sold to a woman
          SaleCloses    \* the last instant reservations are open

\* A request names a transaction, a departure and berths of it: the seats a
\* select asks for, or the seats of the manifest an init or confirm carries.
\* It is sound when it is addressed to this seller and its payments have the
\* status its action asks for.
Input == {i \in [proc : Procs, txn : Txns, departure : Departures,
                 seats : SUBSET Berths, sound : BOOLEAN] :
             i.seats \subseteq OnDeparture(i.departure)}

ASSUME OrderAssumption ==
    /\ KindOf \in [Ids -> {"select", "init", "confirm"}]
    /\ \A r \in Ids : Inputs[r] \subseteq Input
    /\ Mortal \subseteq Procs
    /\ Seeded \subseteq Berths
    /\ SeededFemale \subseteq Seeded
    /\ SaleCloses \in [Departures -> Nat]
    /\ None \notin Procs

VARIABLES req,            \* the requests
          confirmations   \* per process: the confirm in flight of a transaction

orderVars == <<holds, lock, bookings, rows, clock, req, confirmations>>
requestVars == <<req, confirmations>>

Steps == {"lookup", "join", "await", "resolve", "instant", "snapshot", "acquire",
          "sweep", "check", "claims", "render", "book", "reread"}

NoRequest == [pc |-> "idle", txn |-> None, proc |-> None, departure |-> None,
              seats |-> {}, now |-> 0, hold |-> None, on |-> None,
              answer |-> "NONE", order |-> None]

OrderInit ==
    /\ StoreInit
    /\ req = [r \in Ids |-> NoRequest]
    /\ confirmations = [p \in Procs |-> [t \in Txns |-> None]]

-----------------------------------------------------------------------------
(* Steps a request takes.                                                  *)

Goto(r, pc) == req' = [req EXCEPT ![r].pc = pc]

\* The request is answered, and a confirm leaves the map of its process
\* (the finally block of confirm).
Answer(r, answer, order) ==
    /\ req' = [req EXCEPT ![r].pc = "done", ![r].answer = answer,
                          ![r].order = order]
    /\ confirmations' =
          [confirmations EXCEPT ![req[r].proc][req[r].txn] =
              IF @ = r THEN None ELSE @]

\* Request r as it reaches a process: at its first await, or refused on its
\* own content before anything is read (assertBppAddress, assertPaymentStatus).
Received(r, i) ==
    [NoRequest EXCEPT
        !.pc = IF ~i.sound THEN "done"
               ELSE IF KindOf[r] = "confirm" THEN "lookup" ELSE "resolve",
        !.answer = IF i.sound THEN "NONE" ELSE "BAD-REQUEST",
        !.proc = i.proc, !.txn = i.txn,
        !.departure = i.departure, !.seats = i.seats]

Arrive(r, i) ==
    /\ req[r].pc = "idle"
    /\ req' = [req EXCEPT ![r] = Received(r, i)]
    /\ UNCHANGED <<storeVars, confirmations>>

Lookup_Skip(r) ==
    /\ req[r].pc = "lookup"
    /\ Goto(r, "join")
    /\ UNCHANGED <<storeVars, confirmations>>

\* confirm: the booking there already is answers.
Lookup(r) ==
    /\ req[r].pc = "lookup"
    /\ \/ \E k \in BookingOf(req[r].txn) : Answer(r, "OK", k)
       \/ BookingOf(req[r].txn) = {} /\ Goto(r, "join") /\ UNCHANGED confirmations
    /\ UNCHANGED storeVars

Join_Never(r) ==
    /\ req[r].pc = "join"
    /\ Goto(r, "resolve")
    /\ confirmations' = [confirmations EXCEPT ![req[r].proc][req[r].txn] = r]
    /\ UNCHANGED storeVars

\* A confirm of the same transaction in flight in this process is joined;
\* otherwise this one starts.
Join(r) ==
    LET pending == confirmations[req[r].proc][req[r].txn] IN
    /\ req[r].pc = "join"
    /\ \/ /\ pending # None
          /\ req' = [req EXCEPT ![r].pc = "await", ![r].on = pending]
          /\ UNCHANGED confirmations
       \/ /\ pending = None
          /\ Goto(r, "resolve")
          /\ confirmations' = [confirmations EXCEPT ![req[r].proc][req[r].txn] = r]
    /\ UNCHANGED storeVars

Await_Booking(r) ==
    /\ req[r].pc = "await"
    /\ \E k \in BookingOf(req[r].txn) : Answer(r, "OK", k)
    /\ UNCHANGED storeVars

Await_AlwaysOk(r) ==
    /\ req[r].pc = "await"
    /\ req[req[r].on].pc = "done"
    /\ Answer(r, "OK", req[req[r].on].order)
    /\ UNCHANGED storeVars

\* The joined confirm settled: its outcome is this one's.
Await(r) ==
    /\ req[r].pc = "await"
    /\ req[req[r].on].pc = "done"
    /\ Answer(r, req[req[r].on].answer, req[req[r].on].order)
    /\ UNCHANGED storeVars

\* resolveSelection: the departure has to be open for reservation.
Resolve(r) ==
    /\ req[r].pc = "resolve"
    /\ \/ /\ clock > SaleCloses[req[r].departure]
          /\ Answer(r, "OUTSIDE-BOOKING-WINDOW", None)
       \/ /\ clock <= SaleCloses[req[r].departure]
          /\ Goto(r, IF KindOf[r] = "select" /\ req[r].seats = {}
                     THEN "render" ELSE "instant")
          /\ UNCHANGED confirmations
    /\ UNCHANGED storeVars

\* nowMs, the instant the request goes by from here on.
Instant(r) ==
    /\ req[r].pc = "instant"
    /\ req' = [req EXCEPT ![r].now = clock,
                          ![r].pc = IF KindOf[r] = "select" THEN "snapshot" ELSE "sweep"]
    /\ UNCHANGED <<storeVars, confirmations>>

Look_Ahead(d) == SweepExpiredHolds({d}, clock + HoldTtl)

\* A coach is looked at: its lapsed holds are swept, at the clock.
Look(d) == SweepExpiredHolds({d}, clock)

\* select: snapshot, and the refusal of seats the simulation sold.
Snapshot(r) ==
    /\ req[r].pc = "snapshot"
    /\ Look(req[r].departure)
    /\ \/ /\ req[r].seats \cap Seeded # {}
          /\ Answer(r, "SEAT-UNAVAILABLE", None)
       \/ /\ req[r].seats \cap Seeded = {}
          /\ Goto(r, "acquire")
          /\ UNCHANGED confirmations

\* select: acquireHold, with the instant read before the snapshot.
Acquire(r) ==
    LET q == req[r] IN
    /\ q.pc = "acquire"
    /\ \/ /\ KeepHold(q.txn, q.departure, q.seats, q.now)
          /\ \E h \in SameHold(q.txn, q.departure, q.seats, q.now) :
                req' = [req EXCEPT ![r].pc = "render", ![r].hold = h]
       \/ /\ RefuseHold(q.txn, q.departure, q.seats, q.now)
          /\ req' = [req EXCEPT ![r].pc = "render",
                                ![r].answer = "SEAT-UNAVAILABLE"]
       \/ /\ PlaceHold(r, q.txn, q.departure, q.seats, q.now)
          /\ req' = [req EXCEPT ![r].pc = "render", ![r].hold = r]
    /\ UNCHANGED confirmations

\* init and confirm: the sweep of liveHoldAndManifest, at the request's instant.
Sweep(r) ==
    /\ req[r].pc = "sweep"
    /\ SweepExpiredHolds({req[r].departure}, req[r].now)
    /\ Goto(r, "check")
    /\ UNCHANGED confirmations

\* A woman of another party than t is booked in berth c.
WomanBookedIn(c, t) ==
    \E h \in Ids : /\ lock[h][c] = "BOOKED"
                   /\ holds[h].txn # t
                   /\ GenderOf[holds[h].booking] = "female"

FemaleOnly_BookedOnly(b, t) ==
    \E c \in Berths : <<b, c>> \in Adjacent /\ WomanBookedIn(c, t)

\* isFemaleOnly: beside berth b sits a booked woman of another party, or one
\* the simulation put in a seat nobody has a claim on.
FemaleOnly(b, t) ==
    \E c \in Berths :
        /\ <<b, c>> \in Adjacent
        /\ WomanBookedIn(c, t) \/ (c \in SeededFemale /\ LiveOn(c) = {})

Verdict_Unchecked(r, h) == "OK"

\* What liveHoldAndManifest makes of hold h, in the order it looks.
Verdict(r, h) ==
    LET held == SeatsOf(lock, h) IN
    IF ~HoldLive(lock, h, req[r].now) THEN "HOLD-EXPIRED"
    ELSE IF holds[h].departure # req[r].departure THEN "HOLD-SEAT-MISMATCH"
    ELSE IF req[r].seats = {} THEN "MANIFEST-INCOMPLETE"
    ELSE IF ~(req[r].seats \subseteq held) THEN "HOLD-SEAT-MISMATCH"
    ELSE IF req[r].seats # held THEN "MANIFEST-INCOMPLETE"
    ELSE "OK"

\* init and confirm: the hold is read and held against the manifest.
Check(r) ==
    LET latest == FindLatestHold(req[r].txn) IN
    /\ req[r].pc = "check"
    /\ \/ latest = {} /\ Answer(r, "HOLD-REQUIRED", None)
       \/ \E h \in latest :
             /\ Verdict(r, h) # "OK"
             /\ Answer(r, Verdict(r, h), None)
       \/ \E h \in latest :
             /\ Verdict(r, h) = "OK"
             /\ req' = [req EXCEPT ![r].pc = "claims", ![r].hold = h]
             /\ UNCHANGED confirmations
    /\ UNCHANGED storeVars

\* assertGenderLocks, on claims read after the hold was.
GenderLocked(r) ==
    GenderOf[r] # "female" /\ \E b \in req[r].seats : FemaleOnly(b, req[r].txn)

Claims(r) ==
    /\ req[r].pc = "claims"
    /\ \/ GenderLocked(r) /\ Answer(r, "SEAT-GENDER-LOCKED", None)
       \/ ~GenderLocked(r) /\ Goto(r, "render") /\ UNCHANGED confirmations
    /\ UNCHANGED storeVars

\* confirm: buildOrder, which looks at the coach before the sale is made.
Render(r) ==
    /\ req[r].pc = "render" /\ KindOf[r] = "confirm"
    /\ Look(req[r].departure)
    /\ Goto(r, "book")
    /\ UNCHANGED confirmations

\* select and init: the order, or the seat map that goes back with a refusal,
\* is built and answered.
Offer(r) ==
    /\ req[r].pc = "render" /\ KindOf[r] # "confirm"
    /\ Look(req[r].departure)
    /\ Answer(r, IF req[r].answer = "NONE" THEN "OK" ELSE req[r].answer, None)

\* confirmBooking: its transaction, and then the read of the booking that
\* answers, the one just placed or the one the index refused this one for.
Book(r) ==
    LET q == req[r] IN
    /\ q.pc = "book"
    /\ \/ RefuseBooking(q.hold, q.seats) /\ Answer(r, "HOLD-EXPIRED", None)
       \/ /\ RepeatBooking(q.hold, q.txn, q.seats) \/ PlaceBooking(r, q.hold, q.txn, q.seats)
          /\ Goto(r, "reread")
          /\ UNCHANGED confirmations

Reread(r) ==
    /\ req[r].pc = "reread"
    /\ \E k \in BookingOf(req[r].txn) : Answer(r, "OK", k)
    /\ UNCHANGED storeVars

RequestStep(r) ==
    \/ Lookup(r) \/ Join(r) \/ Await(r) \/ Resolve(r) \/ Instant(r)
    \/ Snapshot(r) \/ Acquire(r) \/ Sweep(r) \/ Check(r) \/ Claims(r)
    \/ Render(r) \/ Offer(r) \/ Book(r) \/ Reread(r)

-----------------------------------------------------------------------------
(* What else touches the tables, and the process dying.                    *)

\* search sweeps the departures it is about to publish, at its own instant.
Search(D, now) == SweepExpiredHolds(D, now) /\ UNCHANGED requestVars

\* The transaction of a committed cancellation of seats S of booking k.
Cancel(k, S) ==
    /\ ApplyCancellation(k, S)
    /\ UNCHANGED requestVars

\* Process p restarts: the requests it was serving are never answered and
\* its map is gone.  The tables keep what was committed.
Crash(p) ==
    /\ req' = [r \in Ids |->
                 IF req[r].proc = p /\ req[r].pc \in Steps
                 THEN [req[r] EXCEPT !.pc = "lost"] ELSE req[r]]
    /\ confirmations' = [confirmations EXCEPT ![p] = [t \in Txns |-> None]]
    /\ UNCHANGED storeVars

ClockTick == Tick /\ UNCHANGED requestVars

OrderNext ==
    \/ \E r \in Ids : \E i \in Inputs[r] : Arrive(r, i)
    \/ \E r \in Ids : RequestStep(r)
    \/ \E D \in SUBSET Departures, now \in 0..clock : Search(D, now)
    \/ \E k \in Ids : \E S \in (SUBSET BookedSeats(k)) \ {{}} : Cancel(k, S)
    \/ \E p \in Mortal : Crash(p)
    \/ ClockTick

OrderSpec == OrderInit /\ [][OrderNext]_orderVars

-----------------------------------------------------------------------------
(* Properties.                                                             *)

\* An order a confirm was answered with is a booking of its own transaction,
\* however the answer came about: placed, found, joined, or left by the index.
AnsweredOrdersAreBooked ==
    \A r \in Ids :
        KindOf[r] = "confirm" /\ req[r].pc = "done" /\ req[r].answer = "OK"
            => /\ req[r].order # None
               /\ bookings[req[r].order].txn = req[r].txn

\* Inside one process a transaction is confirmed by one request at a time
\* (the confirmations map): the others join it.
Confirming == Steps \ {"lookup", "join", "await"}
OneConfirmInFlight ==
    \A q, r \in Ids :
        (/\ KindOf[q] = "confirm" /\ req[q].pc \in Confirming
         /\ KindOf[r] = "confirm" /\ req[r].pc \in Confirming
         /\ req[q].proc = req[r].proc /\ req[q].txn = req[r].txn)
        => q = r

\* A buyer who confirms again, joins a confirm in flight or races one through
\* another process is never told of an order that is not theirs and never has
\* two confirms of a transaction at work in one process (confirm).
ConfirmedOnce == AnsweredOrdersAreBooked /\ OneConfirmInFlight

\* Every sale comes out of a hold of the same transaction, on the departure
\* and seats of the confirm, that was still running when the confirm began.
SoldFromARunningHold ==
    \A h \in Ids : holds[h].booking # None =>
        LET r == req[holds[h].booking] IN
        /\ r.txn = holds[h].txn
        /\ r.departure = holds[h].departure
        /\ r.seats = SeatsOf(lock, h)
        /\ r.now < holds[h].expiresAt

\* Nobody is turned away for a hold that has run out: a select refused in
\* acquireHold asked for a berth that is sold, or held past its instant.
RefusedOnlyForALiveClaim ==
    [][\A r \in Ids :
          req[r].pc = "acquire" /\ req'[r].answer = "SEAT-UNAVAILABLE"
            => \E h \in Ids, b \in req[r].seats :
                  \/ lock[h][b] = "BOOKED"
                  \/ lock[h][b] = "HELD" /\ holds[h].expiresAt > req[r].now]_orderVars

\* A woman the simulation seated binds real sales: whatever mix of selects,
\* inits and confirms gets there, no man is booked beside her.
NoManBesideASimulatedWoman ==
    \A h \in Ids, b \in Berths :
        lock[h][b] = "BOOKED" /\ (\E c \in SeededFemale : <<b, c>> \in Adjacent)
            => GenderOf[holds[h].booking] = "female"

\* The requests drive the tables as a caller of the store may: this is what
\* carries the store's results over to the running service.
ImplementsStore == StoreSpec

-----------------------------------------------------------------------------
(* What the documentation says and the code does not always do.            *)

\* docs/reserved-intercity.md 8.6: a confirm against a hold whose instant has
\* passed is "Refused. Always, deterministically".
NoSaleOfALapsedHold ==
    [][\A h \in Ids : holds[h].booking = None /\ holds'[h].booking # None
          => holds[h].expiresAt > clock]_orderVars

\* docs/reserved-intercity.md 7: a seat beside one occupied by a female
\* passenger "is sellable only to a female passenger, unless both seats belong
\* to the same booking".
BesideAWomanOnlyWomen ==
    [][\A h \in Ids : holds[h].booking = None /\ holds'[h].booking # None =>
          \/ GenderOf[holds'[h].booking] = "female"
          \/ \A b \in SeatsOf(lock, h) : ~FemaleOnly(b, holds[h].txn)]_orderVars
=============================================================================
