------------------------ MODULE ReservedCancellation ------------------------
(***************************************************************************)
(* The life of one confirmed booking: cancellation in two steps (a refund  *)
(* quote, then a commitment against it), and the retention sweep that      *)
(* drops passenger names.  Bookings share no rows, so one is modelled.     *)
(*                                                                         *)
(* The booking is kept in three places that are written by transactions of *)
(* their own: the booking_seats rows, the bookings row, and the order the  *)
(* buyer app is shown, stored as a document.  A request is a chain of      *)
(* awaited reads and transactions, and others run in between.              *)
(***************************************************************************)
EXTENDS Naturals, FiniteSetsExt

CONSTANTS Seats,       \* the seats of the booking
          BaseFare,    \* base_paise of each
          Toll,        \* toll_paise of each
          Fee,         \* reservation_fee_paise of each
          Departs,     \* departure_at, in minutes
          Retention,   \* manifestRetentionDays, in minutes
          SweepEvery,  \* MANIFEST_SWEEP_INTERVAL_MS, in minutes
          Instants,    \* the instants the clock shows
          Procs,       \* server processes
          Mortal,      \* those of them that may restart
          Requests,
          KindOf,      \* "soft", "commit" or "status"
          Selections,  \* the sets of seats a cancellation may name, {} for all of them
          ProcOf,      \* the process a request reaches
          None

Hour == 60
QuoteTtl == 2
Slabs == {"OVER_72H", "72H_TO_24H", "24H_TO_2H", "UNDER_2H"}

ASSUME CancellationAssumption ==
    /\ IsFiniteSet(Seats)
    /\ BaseFare \in [Seats -> Nat] /\ Toll \in [Seats -> Nat] /\ Fee \in [Seats -> Nat]
    /\ Departs \in Nat /\ Retention \in Nat /\ SweepEvery \in Nat
    /\ Instants \in (SUBSET Nat) \ {{}}
    /\ KindOf \in [Requests -> {"soft", "commit", "status"}]
    /\ ProcOf \in [Requests -> Procs]
    /\ \A r \in Requests : Selections[r] # {}
    /\ None \notin Requests \cup Int \cup Slabs

VARIABLES seat,      \* the booking_seats rows
          booking,   \* the bookings row
          order,     \* bookings.order_json
          quotes,    \* refund_quotes, under the request that saved each
          sweptAt,   \* lastManifestSweepAt of each process
          req,       \* the requests
          clock

vars == <<seat, booking, order, quotes, sweptAt, req, clock>>
rowVars == <<seat, booking, order>>

-----------------------------------------------------------------------------
(* refund.ts.                                                              *)

\* A boundary belongs to the stricter side of itself.
SlabFor(now) ==
    CASE Departs > now + 72 * Hour -> "OVER_72H"
      [] Departs <= now + 72 * Hour /\ Departs > now + 24 * Hour -> "72H_TO_24H"
      [] Departs <= now + 24 * Hour /\ Departs > now + 2 * Hour -> "24H_TO_2H"
      [] Departs <= now + 2 * Hour -> "UNDER_2H"

DeductionPercent(slab) ==
    CASE slab = "OVER_72H" -> 10 [] slab = "72H_TO_24H" -> 25
      [] slab = "24H_TO_2H" -> 50 [] slab = "UNDER_2H" -> 100

\* roundHalfUp of a share of whole paise.
Kept(s, slab) == (BaseFare[s] * (100 - DeductionPercent(slab)) + 50) \div 100

SeatRefund(s, slab) == Kept(s, slab) + Toll[s]
Refund(S, slab) == SumFunction([s \in S |-> SeatRefund(s, slab)])

\* retainedPaise: what the corporation keeps of one cancelled seat.
Retained(s, slab) == BaseFare[s] - Kept(s, slab) + Fee[s]

-----------------------------------------------------------------------------

NoQuote == [seats |-> {}, slab |-> None, refund |-> 0, expiresAt |-> 0]
NoRequest == [pc |-> "idle", quote |-> None, wants |-> {}, now |-> 0, order |-> None,
              status |-> None, stored |-> None, live |-> {}, named |-> {},
              target |-> {}, answer |-> None, paid |-> None]

\* A booking confirmBooking has just placed.
Init ==
    /\ seat = [s \in Seats |-> [status |-> "CONFIRMED", refund |-> None,
                                slab |-> None, named |-> TRUE]]
    /\ booking = [status |-> "CONFIRMED", refund |-> None, slab |-> None]
    /\ order = [status |-> "ACTIVE", seats |-> Seats, cancelled |-> {}, names |-> Seats]
    /\ quotes = [q \in Requests |-> NoQuote]
    /\ sweptAt = [p \in Procs |-> None]
    /\ req = [r \in Requests |-> NoRequest]
    /\ clock = Min(Instants)

With(S, status) == {s \in S : seat[s].status = status}

Goto(r, pc) == req' = [req EXCEPT ![r].pc = pc]
\* A handler that returns keeps nothing but its answer.
Answer(r, answer, paid) ==
    req' = [req EXCEPT ![r] = [NoRequest EXCEPT !.pc = "done", !.answer = answer,
                                                !.paid = paid]]

\* A commitment answers what applyCancellation paid.  What it rewrote the order
\* from is kept for the properties.
AnswerRewritten(r) ==
    req' = [req EXCEPT ![r].pc = "done", ![r].answer = "OK", ![r].order = None,
                       ![r].status = None, ![r].stored = None, ![r].now = 0]

\* A cancellation names seats, or none for the whole booking.  A commitment
\* carries the id of some quote it was given, or none.
Arrive(r, q, wants) ==
    /\ req[r].pc = "idle"
    /\ IF q = None THEN TRUE ELSE KindOf[r] = "commit" /\ quotes[q] # NoQuote
    /\ req' = [req EXCEPT ![r].pc = IF KindOf[r] = "status" THEN "sweep" ELSE "row",
                          ![r].quote = q, ![r].wants = wants]
    /\ UNCHANGED <<rowVars, quotes, sweptAt, clock>>

\* findBooking: the row, and with it the stored order.
ReadRow(r) ==
    /\ req[r].pc \in {"row", "reread"}
    /\ req' = [req EXCEPT ![r].pc = IF @ = "row" THEN "seats" ELSE "reseats",
                          ![r].order = order, ![r].status = booking.status,
                          ![r].stored = booking.refund]
    /\ UNCHANGED <<rowVars, quotes, sweptAt, clock>>

\* bookingFromRow: the seats, in a read of their own.  A status is answered
\* from the two.
ReadSeats(r) ==
    /\ req[r].pc \in {"seats", "reseats"}
    /\ \/ /\ KindOf[r] = "status"
          /\ Answer(r, "OK", req[r].stored)
       \/ /\ KindOf[r] # "status"
          /\ req' = [req EXCEPT
                ![r].pc = IF @ = "seats" THEN "decide" ELSE "rewrite",
                ![r].live = With(Seats, "CONFIRMED"),
                ![r].named = {s \in Seats : seat[s].named}]
    /\ UNCHANGED <<rowVars, quotes, sweptAt, clock>>

\* The confirmed seats a cancellation is after, on what it has read.
Target(r) == IF req[r].wants = {} THEN req[r].live ELSE req[r].wants \cap req[r].live

\* storedRefund: no figure yet counts as nothing.
StoredRefund(r) == IF req[r].stored = None THEN 0 ELSE req[r].stored

\* cancel, softCancel and confirmCancel up to their next await.
Decide(r) ==
    /\ req[r].pc = "decide"
    /\ \/ ~(req[r].wants \subseteq Seats) /\ Answer(r, "CANCEL-SEAT-NOT-ON-BOOKING", None)
       \/ /\ req[r].wants \subseteq Seats
          /\ Target(r) = {}
          /\ Answer(r, "OK", StoredRefund(r))
       \/ /\ req[r].wants \subseteq Seats
          /\ Target(r) # {}
          /\ req' = [req EXCEPT ![r].pc = IF KindOf[r] = "soft" THEN "quote" ELSE "fetch",
                                ![r].target = Target(r), ![r].now = clock]
    /\ UNCHANGED <<rowVars, quotes, sweptAt, clock>>

QuoteFor(r) ==
    [seats |-> req[r].target, slab |-> SlabFor(req[r].now),
     refund |-> Refund(req[r].target, SlabFor(req[r].now)),
     expiresAt |-> req[r].now + QuoteTtl]

\* softCancel: the quote is saved.
SaveQuote(r) ==
    /\ req[r].pc = "quote"
    /\ quotes' = [quotes EXCEPT ![r] = QuoteFor(r)]
    /\ Answer(r, "QUOTED", None)
    /\ UNCHANGED <<rowVars, sweptAt, clock>>

\* The quote is for exactly these seats and has not lapsed.
QuoteLive(r) ==
    /\ req[r].quote # None
    /\ quotes[req[r].quote].seats = req[r].target
    /\ quotes[req[r].quote].expiresAt > req[r].now

SlabMoved_Never(r) == FALSE
SlabMoved(r) == quotes[req[r].quote].slab # SlabFor(req[r].now)

\* confirmCancel: findRefundQuote and what follows from it.
FetchQuote(r) ==
    /\ req[r].pc = "fetch"
    /\ \/ ~QuoteLive(r) /\ Answer(r, "REFUND-QUOTE-EXPIRED", None)
       \/ QuoteLive(r) /\ SlabMoved(r) /\ Goto(r, "replace")
       \/ QuoteLive(r) /\ ~SlabMoved(r) /\ Goto(r, "apply")
    /\ UNCHANGED <<rowVars, quotes, sweptAt, clock>>

\* The slab moved: refused, with a quote at the new one.
ReplaceQuote(r) ==
    /\ req[r].pc = "replace"
    /\ quotes' = [quotes EXCEPT ![r] = QuoteFor(r)]
    /\ Answer(r, "REFUND-SLAB-MOVED", None)
    /\ UNCHANGED <<rowVars, sweptAt, clock>>

CancelledSeats_Again(S, slab) ==
    [s \in Seats |-> IF s \in S
        THEN [seat[s] EXCEPT !.status = "CANCELLED", !.slab = slab,
                             !.refund = SeatRefund(s, slab)]
        ELSE seat[s]]

\* applyCancellation, on the rows of seats that are still confirmed.
CancelledSeats(S, slab) ==
    [s \in Seats |-> IF s \in S /\ seat[s].status = "CONFIRMED"
        THEN [seat[s] EXCEPT !.status = "CANCELLED", !.slab = slab,
                             !.refund = SeatRefund(s, slab)]
        ELSE seat[s]]

\* SUM over the rows, NULL counting for nothing.
RefundTotal_OfThisOne(rows) ==
    SumFunction([s \in Seats |-> IF seat[s].refund = None /\ rows[s].refund # None
                                 THEN rows[s].refund ELSE 0])
RefundTotal(rows) ==
    SumFunction([s \in Seats |-> IF rows[s].refund = None THEN 0 ELSE rows[s].refund])

\* The transaction of applyCancellation, at the slab of the request's instant.
Apply(r) ==
    LET slab == SlabFor(req[r].now)
        rows == CancelledSeats(req[r].target, slab) IN
    /\ req[r].pc = "apply"
    /\ seat' = rows
    /\ booking' = [status |-> IF \E s \in Seats : rows[s].status = "CONFIRMED"
                              THEN "CONFIRMED" ELSE "CANCELLED",
                   refund |-> RefundTotal(rows), slab |-> slab]
    /\ req' = [req EXCEPT ![r].pc = "reread", ![r].paid = Refund(req[r].target, slab)]
    /\ UNCHANGED <<order, quotes, sweptAt, clock>>

\* cancelledOrder, and updateStoredOrder in a transaction of its own.
Rewrite(r) ==
    /\ req[r].pc = "rewrite"
    /\ order' = [status |-> IF req[r].status = "CANCELLED" THEN "CANCELLED" ELSE "ACTIVE",
                 seats |-> req[r].live, cancelled |-> Seats \ req[r].live,
                 names |-> req[r].live \cap req[r].named]
    /\ AnswerRewritten(r)
    /\ UNCHANGED <<seat, booking, quotes, sweptAt, clock>>

-----------------------------------------------------------------------------
(* Retention.                                                              *)

Due(now) == Departs + Retention < now

\* A sweep this process began less than an interval ago stands for this one.
Throttled(p, now) ==
    sweptAt[p] # None /\ sweptAt[p] <= now /\ now < sweptAt[p] + SweepEvery

\* status: the retention sweep, skipped or noted before it runs.
BeginSweep(r) ==
    /\ req[r].pc = "sweep"
    /\ \/ /\ Throttled(ProcOf[r], clock)
          /\ req' = [req EXCEPT ![r].pc = "row", ![r].now = clock]
          /\ UNCHANGED sweptAt
       \/ /\ ~Throttled(ProcOf[r], clock)
          /\ req' = [req EXCEPT ![r].pc = "scan", ![r].now = clock]
          /\ sweptAt' = [sweptAt EXCEPT ![ProcOf[r]] = clock]
    /\ UNCHANGED <<rowVars, quotes, clock>>

\* The stale bookings are read with their orders, outside the transaction.
Scan(r) ==
    LET stale == Due(req[r].now) /\ \E s \in Seats : seat[s].named IN
    /\ req[r].pc = "scan"
    /\ req' = [req EXCEPT ![r].pc = IF stale THEN "clear" ELSE "row",
                          ![r].order = IF stale THEN order ELSE None]
    /\ UNCHANGED <<rowVars, quotes, sweptAt, clock>>

ClearNames_RowsOnly(r) ==
    /\ req[r].pc = "clear"
    /\ seat' = [s \in Seats |-> [seat[s] EXCEPT !.named = FALSE]]
    /\ Goto(r, "row")
    /\ UNCHANGED <<booking, order, quotes, sweptAt, clock>>

\* The transaction: the rows, and the order that was read, without names.
ClearNames(r) ==
    /\ req[r].pc = "clear"
    /\ seat' = [s \in Seats |-> [seat[s] EXCEPT !.named = FALSE]]
    /\ order' = [req[r].order EXCEPT !.names = {}]
    /\ Goto(r, "row")
    /\ UNCHANGED <<booking, quotes, sweptAt, clock>>

-----------------------------------------------------------------------------

\* unattributedBookings: what is owed for the booking.
Owed_TollLost ==
    SumFunction([s \in Seats |-> BaseFare[s] + Fee[s]])
    - (IF booking.refund = None THEN 0 ELSE booking.refund)

Owed ==
    SumFunction([s \in Seats |-> BaseFare[s] + Fee[s]])
    + SumFunctionOnSet(Toll, With(Seats, "CANCELLED"))
    - (IF booking.refund = None THEN 0 ELSE booking.refund)

-----------------------------------------------------------------------------

InFlight(r) == req[r].pc \notin {"idle", "done", "lost"}

\* A process restarts: what it was serving is lost, and so is its note of the
\* last sweep.
Crash(p) ==
    /\ \E r \in Requests : ProcOf[r] = p /\ InFlight(r)
    /\ req' = [r \in Requests |-> IF ProcOf[r] = p /\ InFlight(r)
                                  THEN [NoRequest EXCEPT !.pc = "lost"] ELSE req[r]]
    /\ sweptAt' = [sweptAt EXCEPT ![p] = None]
    /\ UNCHANGED <<rowVars, quotes, clock>>

Tick ==
    /\ \E c \in Instants : c > clock /\ clock' = c
    /\ UNCHANGED <<rowVars, quotes, sweptAt, req>>

Next ==
    \/ \E r \in Requests, q \in Requests \cup {None} :
         \E wants \in Selections[r] : Arrive(r, q, wants)
    \/ \E r \in Requests :
         \/ ReadRow(r) \/ ReadSeats(r) \/ Decide(r) \/ SaveQuote(r) \/ FetchQuote(r)
         \/ ReplaceQuote(r) \/ Apply(r) \/ Rewrite(r)
         \/ BeginSweep(r) \/ Scan(r) \/ ClearNames(r)
    \/ \E p \in Mortal : Crash(p)
    \/ Tick

Spec == Init /\ [][Next]_vars

-----------------------------------------------------------------------------
(* Properties.                                                             *)

\* The refund and the slab of a cancelled seat are written once: no retry, no
\* overlapping commitment and no later slab changes them, and a cancelled seat
\* never comes back to the booking (applyCancellation).
RefundsAreFrozen ==
    [][\A s \in Seats : seat[s].status = "CANCELLED" =>
          /\ seat'[s].status = "CANCELLED"
          /\ seat'[s].refund = seat[s].refund
          /\ seat'[s].slab = seat[s].slab]_vars

\* The figure on the booking is what its seats were refunded, over any split
\* of the booking into partial cancellations at different slabs
\* (applyCancellation).
BookingRefundIsTheSum ==
    /\ booking.refund = None <=> With(Seats, "CANCELLED") = {}
    /\ booking.refund # None =>
         booking.refund = SumFunction([s \in With(Seats, "CANCELLED") |->
                                          SeatRefund(s, seat[s].slab)])

\* A rider is paid the number they committed to: a commitment that goes
\* through was quoted exactly what it answers, whatever the clock did between
\* the quote and the commitment (confirmCancel's slab check).
PaidAsQuoted ==
    \A r \in Requests :
        KindOf[r] = "commit" /\ req[r].target # {} /\ req[r].paid # None
        => req[r].paid = quotes[req[r].quote].refund

\* The reconciliation backlog is the complement of the refunds, seat by seat:
\* the fare and fee of a seat still sold, and what its slab retained of a
\* cancelled one (unattributedBookings).
OwedIsTheComplement ==
    Owed = SumFunction([s \in Seats |-> IF seat[s].status = "CONFIRMED"
                                        THEN BaseFare[s] + Fee[s]
                                        ELSE Retained(s, seat[s].slab)])

\* The money of the booking adds up however it is cancelled: its refund is the
\* sum of its seats' and what is owed to the corporation is the rest, to the
\* paisa (applyCancellation, unattributedBookings).
LedgerAddsUp == BookingRefundIsTheSum /\ OwedIsTheComplement

\* Once the rows have forgotten the passengers, nothing but a cancellation that
\* had read the names before can bring them back into the stored order.
OnlyARewriteBringsNamesBack ==
    (\A s \in Seats : ~seat[s].named) /\ order.names # {} =>
        \E r \in Requests : /\ KindOf[r] = "commit" /\ req[r].pc = "done"
                            /\ order.names = req[r].live \cap req[r].named

-----------------------------------------------------------------------------
(* What the documentation says and the code does not always do.            *)

\* store.ts, applyCancellation: the refund is "never recomputed": what a
\* commitment is answered is what is stored for the seats it named.
AnsweredRefundIsStored ==
    \A r \in Requests :
        KindOf[r] = "commit" /\ req[r].pc = "done" /\ req[r].answer = "OK"
            /\ req[r].target # {}
        => req[r].paid = SumFunction([s \in req[r].target |->
                                         SeatRefund(s, seat[s].slab)])
=============================================================================
