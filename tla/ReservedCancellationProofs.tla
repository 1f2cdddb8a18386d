--------------------- MODULE ReservedCancellationProofs ---------------------
(***************************************************************************)
(* Proofs about ReservedCancellation: for any booking and any number of    *)
(* requests, processes and instants, the refund of a cancelled seat is     *)
(* never written again, a commitment is paid what it was quoted, names     *)
(* that were dropped come back only by the rewrite of a cancellation, and  *)
(* the money of the booking adds up.                                       *)
(*                                                                         *)
(* Refund and RefundTotal are sums over sets.  CancelInv does not depend   *)
(* on what they come to: there an amount is a member of the set of values  *)
(* they can take.  The ledger does, and the facts about sums it needs are  *)
(* proved before it.                                                       *)
(***************************************************************************)
EXTENDS ReservedCancellation, FiniteSetTheorems, WellFoundedInduction, TLAPS

SeatRow ==
    [status : {"CONFIRMED", "CANCELLED"},
     refund : {None} \cup {SeatRefund(at[1], at[2]) : at \in Seats \X Slabs},
     slab : Slabs \cup {None},
     named : BOOLEAN]

Amounts ==
    {None, 0} \cup {Refund(at[1], at[2]) : at \in (SUBSET Seats) \X Slabs}
              \cup {RefundTotal(rows) : rows \in [Seats -> SeatRow]}

Order == [status : {"ACTIVE", "CANCELLED"}, seats : SUBSET Seats,
          cancelled : SUBSET Seats, names : SUBSET Seats]

Quote == [seats : SUBSET Seats, slab : Slabs \cup {None}, refund : Amounts, expiresAt : Nat]

Request ==
    [pc : {"idle", "row", "seats", "decide", "quote", "fetch", "replace", "apply",
           "reread", "reseats", "rewrite", "sweep", "scan", "clear", "done", "lost"},
     quote : Requests \cup {None},
     wants : {{}} \cup UNION {Selections[r] : r \in Requests},
     now : Nat,
     order : Order \cup {None},
     status : {"CONFIRMED", "CANCELLED", None},
     stored : Amounts,
     live : SUBSET Seats, named : SUBSET Seats, target : SUBSET Seats,
     answer : {"OK", "CANCEL-SEAT-NOT-ON-BOOKING", "QUOTED", "REFUND-QUOTE-EXPIRED",
               "REFUND-SLAB-MOVED", None},
     paid : Amounts]

CancelTypeOK ==
    /\ seat \in [Seats -> SeatRow]
    /\ booking \in [status : {"CONFIRMED", "CANCELLED"}, refund : Amounts,
                    slab : Slabs \cup {None}]
    /\ order \in Order
    /\ quotes \in [Requests -> Quote]
    /\ sweptAt \in [Procs -> Nat \cup {None}]
    /\ req \in [Requests -> Request]
    /\ clock \in Nat

\* A saved quote is the refund of its seats at its slab, and whoever saved it
\* is done: no quote is saved over another.
QuotesStand ==
    \A q \in Requests :
        \/ quotes[q] = NoQuote
        \/ /\ quotes[q].seats # {}
           /\ quotes[q].refund = Refund(quotes[q].seats, quotes[q].slab)
           /\ req[q].pc = "done"

\* Request r and the quote it commits to.
Quoted(r) == req[r].quote # None /\ quotes[req[r].quote].seats # {}

CommitsAreQuoted ==
    \A r \in Requests :
        /\ req[r].pc \in {"quote", "fetch", "replace", "apply"} => req[r].target # {}
        /\ req[r].pc = "apply" =>
              /\ Quoted(r)
              /\ quotes[req[r].quote].seats = req[r].target
              /\ quotes[req[r].quote].slab = SlabFor(req[r].now)
        /\ req[r].pc \notin {"reread", "reseats", "rewrite", "done"} => req[r].paid = None
        /\ KindOf[r] = "commit" /\ req[r].target # {} /\ req[r].paid # None =>
              /\ Quoted(r)
              /\ req[r].paid = quotes[req[r].quote].refund

\* Which requests get how far.
Kinds ==
    \A r \in Requests :
        /\ req[r].pc \in {"decide", "quote", "fetch", "replace", "apply", "reread", "reseats",
                          "rewrite"} => KindOf[r] # "status"
        /\ req[r].pc \in {"fetch", "replace", "apply", "reread", "reseats", "rewrite"} =>
              KindOf[r] = "commit"
        /\ req[r].pc = "clear" => req[r].order \in Order

CancelInv ==
    /\ CancelTypeOK
    /\ QuotesStand
    /\ CommitsAreQuoted
    /\ Kinds
    /\ OnlyARewriteBringsNamesBack

-----------------------------------------------------------------------------

\* The clock starts at the first of the instants.
LEMMA FirstInstant == Min(Instants) \in Instants
<1>1. Instants \subseteq Nat /\ Instants # {}
  BY CancellationAssumption
<1>2. \E m \in Instants : \A n \in Instants : <<n, m>> \notin OpToRel(<, Nat)
  BY <1>1, NatLessThanWellFounded, WFMin
<1>3. PICK m \in Instants : \A n \in Instants : <<n, m>> \notin OpToRel(<, Nat)
  BY <1>2
<1>4. \A n \in Instants : m =< n
  <2> TAKE n \in Instants
  <2>1. m \in Nat /\ n \in Nat
    BY <1>1
  <2>2. ~(n < m)
    BY <1>3, <2>1 DEF OpToRel
  <2> QED
    BY <2>1, <2>2
<1> QED
  BY <1>4 DEF Min

\* Every instant falls into a slab.
LEMMA SlabForIsASlab ==
    ASSUME NEW now \in Nat
    PROVE  SlabFor(now) \in Slabs
BY CancellationAssumption DEF SlabFor, Slabs, Hour

\* The amounts.
LEMMA NoneIsAnAmount == None \in Amounts /\ 0 \in Amounts
BY DEF Amounts

\* A seat's refund is one of the amounts.
LEMMA RefundIsAnAmount ==
    ASSUME NEW S \in SUBSET Seats, NEW slab \in Slabs
    PROVE  Refund(S, slab) \in Amounts
<1>1. <<S, slab>> \in (SUBSET Seats) \X Slabs
  OBVIOUS
<1>2. Refund(<<S, slab>>[1], <<S, slab>>[2]) = Refund(S, slab)
  OBVIOUS
<1> QED
  BY <1>1, <1>2 DEF Amounts

\* So is the refund of any seats.
LEMMA TotalIsAnAmount ==
    ASSUME NEW rows \in [Seats -> SeatRow]
    PROVE  RefundTotal(rows) \in Amounts
BY DEF Amounts

\* What the invariant asks of request r, once it has moved.
Sound(r) ==
    /\ req[r].pc \in {"quote", "fetch", "replace", "apply"} => req[r].target # {}
    /\ req[r].pc = "apply" =>
          /\ Quoted(r)
          /\ quotes[req[r].quote].seats = req[r].target
          /\ quotes[req[r].quote].slab = SlabFor(req[r].now)
    /\ req[r].pc \notin {"reread", "reseats", "rewrite", "done"} => req[r].paid = None
    /\ KindOf[r] = "commit" /\ req[r].target # {} /\ req[r].paid # None =>
          /\ Quoted(r)
          /\ req[r].paid = quotes[req[r].quote].refund
    /\ req[r].pc \in {"decide", "quote", "fetch", "replace", "apply", "reread", "reseats",
                      "rewrite"} => KindOf[r] # "status"
    /\ req[r].pc \in {"fetch", "replace", "apply", "reread", "reseats", "rewrite"} =>
          KindOf[r] = "commit"
    /\ req[r].pc = "clear" => req[r].order \in Order

\* The two parts about requests, one request at a time.
LEMMA AllSound == CommitsAreQuoted /\ Kinds <=> \A r \in Requests : Sound(r)
BY DEF CommitsAreQuoted, Kinds, Sound

\* A step of one request that writes nothing but the request.
LEMMA RequestMoves ==
    ASSUME CancelInv, NEW r \in Requests, req[r].pc # "done",
           UNCHANGED <<seat, booking, order, quotes>>,
           clock' \in Nat, sweptAt' \in [Procs -> Nat \cup {None}],
           req' \in [Requests -> Request],
           \A j \in Requests \ {r} : req'[j] = req[j],
           Sound(r)'
    PROVE  CancelInv'
<1> USE DEF CancelInv
<1>1. CancelTypeOK'
  BY DEF CancelTypeOK
<1>2. QuotesStand'
  BY DEF QuotesStand
<1>3. \A j \in Requests : Sound(j)'
  <2>1. \A j \in Requests \ {r} : Sound(j)' = Sound(j)
    BY DEF Sound, Quoted
  <2> QED
    BY <2>1, AllSound
<1>4. (CommitsAreQuoted /\ Kinds)'
  BY <1>3 DEF CommitsAreQuoted, Kinds, Sound
<1>5. OnlyARewriteBringsNamesBack'
  BY DEF OnlyARewriteBringsNamesBack
<1> QED
  BY <1>1, <1>2, <1>4, <1>5

\* A request that has answered.
LEMMA AnswerMoves ==
    ASSUME CancelTypeOK, NEW r \in Requests,
           NEW answer \in {"OK", "CANCEL-SEAT-NOT-ON-BOOKING", "QUOTED",
                           "REFUND-QUOTE-EXPIRED", "REFUND-SLAB-MOVED"},
           NEW paid \in Amounts, Answer(r, answer, paid)
    PROVE  /\ req' \in [Requests -> Request]
           /\ \A j \in Requests \ {r} : req'[j] = req[j]
           /\ req'[r].pc = "done"
           /\ Sound(r)'
<1> DEFINE x == [NoRequest EXCEPT !.pc = "done", !.answer = answer, !.paid = paid]
<1>1. NoRequest \in Request
  BY NoneIsAnAmount, CancellationAssumption DEF NoRequest, Request
<1>2. x \in Request /\ x.pc = "done" /\ x.target = {}
  <2>1. x \in Request
    BY <1>1 DEF Request
  <2>2. x.pc = "done" /\ x.target = NoRequest.target
    BY <1>1 DEF Request
  <2>3. NoRequest.target = {}
    BY DEF NoRequest
  <2> QED
    BY <2>1, <2>2, <2>3
<1>3. req' \in [Requests -> Request] /\ (\A j \in Requests \ {r} : req'[j] = req[j]) /\ req'[r] = x
  <2> HIDE DEF x
  <2>1. req' = [req EXCEPT ![r] = x]
    BY DEF Answer, x
  <2> QED
    BY <1>2, <2>1 DEF CancelTypeOK
<1>4. req'[r].pc = "done" /\ req'[r].target = {}
  BY <1>2, <1>3
<1> HIDE DEF x
<1>5. Sound(r)'
  BY <1>4 DEF Sound
<1> QED
  BY <1>3, <1>4, <1>5

\* A request that only goes on to another step.
LEMMA GotoMoves ==
    ASSUME CancelTypeOK, NEW r \in Requests,
           NEW pc \in {"row", "replace", "apply"}, Goto(r, pc)
    PROVE  /\ req' \in [Requests -> Request]
           /\ \A j \in Requests \ {r} : req'[j] = req[j]
           /\ req'[r].pc = pc /\ req'[r].quote = req[r].quote /\ req'[r].now = req[r].now
           /\ req'[r].target = req[r].target /\ req'[r].paid = req[r].paid
<1>1. req[r] \in Request
  BY DEF CancelTypeOK
<1>2. /\ req'[r] = [req[r] EXCEPT !.pc = pc]
      /\ \A j \in Requests \ {r} : req'[j] = req[j]
  BY <1>1 DEF CancelTypeOK, Goto
<1>3. [req[r] EXCEPT !.pc = pc] \in Request
  BY <1>1 DEF Request
<1>4. req' \in [Requests -> Request]
  BY <1>2, <1>3 DEF CancelTypeOK, Goto
<1> QED
  BY <1>1, <1>2, <1>4 DEF Request

-----------------------------------------------------------------------------

\* A request arrives.
LEMMA ArriveInv ==
    ASSUME CancelInv, NEW r \in Requests, NEW q \in Requests \cup {None},
           NEW wants \in Selections[r], Arrive(r, q, wants)
    PROVE  CancelInv'
<1> DEFINE pc == IF KindOf[r] = "status" THEN "sweep" ELSE "row"
<1>1. CancelTypeOK /\ req[r] \in Request
  BY DEF CancelInv, CancelTypeOK
<1>2. /\ req'[r] = [req[r] EXCEPT !.pc = pc, !.quote = q, !.wants = wants]
      /\ \A j \in Requests \ {r} : req'[j] = req[j]
  BY <1>1 DEF CancelTypeOK, Arrive, Request
<1>p. pc \in {"sweep", "row"}
  OBVIOUS
<1> HIDE DEF pc
<1>w. wants \in {{}} \cup UNION {Selections[j] : j \in Requests}
  OBVIOUS
<1>3. [req[r] EXCEPT !.pc = pc, !.quote = q, !.wants = wants] \in Request
  BY <1>1, <1>p, <1>w DEF Request
<1>4. req' \in [Requests -> Request]
  BY <1>1, <1>2, <1>3 DEF CancelTypeOK, Arrive
<1>5. req'[r].pc = pc /\ req'[r].paid = req[r].paid /\ req'[r].target = req[r].target
  BY <1>1, <1>2 DEF Request
<1>6. req[r].pc = "idle" /\ req[r].paid = None
  BY DEF Arrive, CancelInv, CommitsAreQuoted
<1>7. Sound(r)'
  BY <1>p, <1>5, <1>6 DEF Sound
<1>8. UNCHANGED <<seat, booking, order, quotes>> /\ clock' \in Nat
      /\ sweptAt' \in [Procs -> Nat \cup {None}]
  BY <1>1 DEF Arrive, rowVars, CancelTypeOK
<1> QED
  BY <1>2, <1>4, <1>6, <1>7, <1>8, RequestMoves

\* The row is read.
LEMMA ReadRowInv ==
    ASSUME CancelInv, NEW r \in Requests, ReadRow(r)
    PROVE  CancelInv'
<1> DEFINE pc == IF req[r].pc = "row" THEN "seats" ELSE "reseats"
<1>1. /\ CancelTypeOK /\ req[r] \in Request /\ order \in Order /\ booking.refund \in Amounts
      /\ booking.status \in {"CONFIRMED", "CANCELLED"}
  BY DEF CancelInv, CancelTypeOK
<1>2. /\ req'[r] = [req[r] EXCEPT !.pc = pc, !.order = order, !.status = booking.status,
                                  !.stored = booking.refund]
      /\ \A j \in Requests \ {r} : req'[j] = req[j]
  BY <1>1 DEF CancelTypeOK, ReadRow, Request
<1>p. /\ req[r].pc \in {"row", "reread"} /\ pc \in {"seats", "reseats"}
      /\ pc = "seats" <=> req[r].pc = "row"
  BY DEF ReadRow
<1> HIDE DEF pc
<1>3. [req[r] EXCEPT !.pc = pc, !.order = order, !.status = booking.status,
                     !.stored = booking.refund] \in Request
  BY <1>1, <1>p DEF Request
<1>4. req' \in [Requests -> Request]
  BY <1>1, <1>2, <1>3 DEF CancelTypeOK, ReadRow
<1>5. /\ req'[r].pc = pc /\ req'[r].paid = req[r].paid /\ req'[r].target = req[r].target
      /\ req'[r].quote = req[r].quote
  BY <1>1, <1>2 DEF Request
<1>8. UNCHANGED <<seat, booking, order, quotes>> /\ clock' \in Nat
      /\ sweptAt' \in [Procs -> Nat \cup {None}]
  BY <1>1 DEF ReadRow, rowVars, CancelTypeOK
<1>7. Sound(r)'
  <2>1. Sound(r)
    BY AllSound DEF CancelInv
  <2> QED
    BY <1>p, <1>5, <1>8, <2>1 DEF Sound, Quoted
<1> QED
  BY <1>p, <1>2, <1>4, <1>7, <1>8, RequestMoves

\* The seats are read, and a status is answered.
LEMMA ReadSeatsInv ==
    ASSUME CancelInv, NEW r \in Requests, ReadSeats(r)
    PROVE  CancelInv'
<1>1. CancelTypeOK /\ req[r] \in Request /\ Sound(r)
  BY AllSound DEF CancelInv, CancelTypeOK
<1>2. UNCHANGED <<seat, booking, order, quotes>> /\ clock' \in Nat
      /\ sweptAt' \in [Procs -> Nat \cup {None}] /\ req[r].pc \in {"seats", "reseats"}
  BY <1>1 DEF ReadSeats, rowVars, CancelTypeOK
<1>3. CASE Answer(r, "OK", req[r].stored)
  <2>1. req[r].stored \in Amounts
    BY <1>1 DEF Request
  <2> QED
    BY <1>1, <1>2, <1>3, <2>1, AnswerMoves, RequestMoves
<1>4. CASE KindOf[r] # "status"
  <2> DEFINE pc == IF req[r].pc = "seats" THEN "decide" ELSE "rewrite"
             live == With(Seats, "CONFIRMED")
             named == {s \in Seats : seat[s].named}
  <2>p. /\ pc \in {"decide", "rewrite"} /\ live \in SUBSET Seats /\ named \in SUBSET Seats
        /\ pc = "decide" <=> req[r].pc = "seats"
    BY DEF With
  <2>2. /\ req'[r] = [req[r] EXCEPT !.pc = pc, !.live = live, !.named = named]
        /\ \A j \in Requests \ {r} : req'[j] = req[j]
    BY <1>1, <1>4 DEF CancelTypeOK, ReadSeats, Request
  <2> HIDE DEF pc, live, named
  <2>3. [req[r] EXCEPT !.pc = pc, !.live = live, !.named = named] \in Request
    BY <1>1, <2>p DEF Request
  <2>4. req' \in [Requests -> Request]
    BY <1>1, <1>4, <2>2, <2>3 DEF CancelTypeOK, ReadSeats
  <2>5. /\ req'[r].pc = pc /\ req'[r].paid = req[r].paid /\ req'[r].target = req[r].target
        /\ req'[r].quote = req[r].quote
    BY <1>1, <2>2 DEF Request
  <2>6. Sound(r)'
    BY <1>1, <1>2, <1>4, <2>p, <2>5 DEF Sound, Quoted
  <2> QED
    BY <1>2, <2>2, <2>4, <2>6, RequestMoves
<1> QED
  BY <1>3, <1>4 DEF ReadSeats

\* A cancellation decides on what it has read.
LEMMA DecideInv ==
    ASSUME CancelInv, NEW r \in Requests, Decide(r)
    PROVE  CancelInv'
<1>1. CancelTypeOK /\ req[r] \in Request /\ Sound(r) /\ clock \in Nat
  BY AllSound DEF CancelInv, CancelTypeOK
<1>2. UNCHANGED <<seat, booking, order, quotes>> /\ clock' \in Nat
      /\ sweptAt' \in [Procs -> Nat \cup {None}] /\ req[r].pc = "decide"
  BY <1>1 DEF Decide, rowVars, CancelTypeOK
<1>3. CASE Answer(r, "CANCEL-SEAT-NOT-ON-BOOKING", None)
  BY <1>1, <1>2, <1>3, NoneIsAnAmount, AnswerMoves, RequestMoves
<1>4. CASE Answer(r, "OK", StoredRefund(r))
  <2>1. StoredRefund(r) \in Amounts
    BY <1>1, NoneIsAnAmount DEF StoredRefund, Request
  <2> QED
    BY <1>1, <1>2, <1>4, <2>1, AnswerMoves, RequestMoves
<1>5. CASE /\ Target(r) # {}
           /\ req' = [req EXCEPT ![r].pc = IF KindOf[r] = "soft" THEN "quote" ELSE "fetch",
                                 ![r].target = Target(r), ![r].now = clock]
  <2> DEFINE pc == IF KindOf[r] = "soft" THEN "quote" ELSE "fetch"
  <2>p. /\ pc \in {"quote", "fetch"} /\ (pc = "fetch" => KindOf[r] # "soft")
        /\ Target(r) \in SUBSET Seats
    BY <1>1 DEF Target, Request
  <2>2. /\ req'[r] = [req[r] EXCEPT !.pc = pc, !.target = Target(r), !.now = clock]
        /\ \A j \in Requests \ {r} : req'[j] = req[j]
    BY <1>1, <1>5 DEF CancelTypeOK, Request
  <2> HIDE DEF pc
  <2>3. [req[r] EXCEPT !.pc = pc, !.target = Target(r), !.now = clock] \in Request
    BY <1>1, <2>p DEF Request
  <2>4. req' \in [Requests -> Request]
    BY <1>1, <1>5, <2>2, <2>3 DEF CancelTypeOK
  <2>5. /\ req'[r].pc = pc /\ req'[r].paid = req[r].paid /\ req'[r].target = Target(r)
        /\ req'[r].quote = req[r].quote
    BY <1>1, <2>2 DEF Request
  <2>6. Sound(r)'
    BY <1>1, <1>2, <1>5, <2>p, <2>5, CancellationAssumption DEF Sound, Quoted
  <2> QED
    BY <1>2, <2>2, <2>4, <2>6, RequestMoves
<1> QED
  BY <1>3, <1>4, <1>5 DEF Decide

\* A quote is saved: under a request that had saved none.
LEMMA QuoteSaved ==
    ASSUME CancelInv, NEW r \in Requests, req[r].pc \in {"quote", "replace"},
           quotes' = [quotes EXCEPT ![r] = QuoteFor(r)],
           NEW answer \in {"QUOTED", "REFUND-SLAB-MOVED"}, Answer(r, answer, None),
           UNCHANGED <<seat, booking, order, sweptAt, clock>>
    PROVE  CancelInv'
<1> USE DEF CancelInv
<1>1. CancelTypeOK /\ req[r] \in Request /\ Sound(r) /\ quotes \in [Requests -> Quote]
  BY AllSound DEF CancelTypeOK
<1>2. /\ req' \in [Requests -> Request]
      /\ \A j \in Requests \ {r} : req'[j] = req[j]
      /\ req'[r].pc = "done"
      /\ Sound(r)'
  BY <1>1, NoneIsAnAmount, AnswerMoves
<1>3. /\ req[r].target # {} /\ req[r].target \in SUBSET Seats
      /\ SlabFor(req[r].now) \in Slabs /\ req[r].now + QuoteTtl \in Nat
  BY <1>1, SlabForIsASlab DEF Sound, Request, QuoteTtl
<1>4. Refund(req[r].target, SlabFor(req[r].now)) \in Amounts
  BY <1>3, RefundIsAnAmount
<1>5. /\ QuoteFor(r) \in Quote /\ QuoteFor(r).seats # {}
      /\ QuoteFor(r).refund = Refund(QuoteFor(r).seats, QuoteFor(r).slab)
  BY <1>3, <1>4 DEF QuoteFor, Quote
<1>6. /\ quotes' \in [Requests -> Quote] /\ quotes'[r] = QuoteFor(r)
      /\ \A q \in Requests \ {r} : quotes'[q] = quotes[q]
  BY <1>1, <1>5
<1>7. quotes[r] = NoQuote
  BY DEF QuotesStand
<1>8. CancelTypeOK'
  BY <1>2, <1>6 DEF CancelTypeOK
<1>9. QuotesStand'
  BY <1>2, <1>5, <1>6 DEF QuotesStand
<1>10. ASSUME NEW j \in Requests, j # r
       PROVE  Sound(j)'
  <2>1. Sound(j) /\ req'[j] = req[j] /\ req[j] \in Request
    BY <1>2, <1>10, AllSound DEF CancelTypeOK
  <2>2. ASSUME Quoted(j)
        PROVE  Quoted(j)' /\ quotes'[req[j].quote] = quotes[req[j].quote]
    <3>1. req[j].quote \in Requests /\ quotes[req[j].quote].seats # {}
      BY <2>1, <2>2 DEF Quoted, Request
    <3>2. req[j].quote # r
      BY <1>7, <3>1 DEF NoQuote
    <3> QED
      BY <1>6, <2>1, <2>2, <3>1, <3>2 DEF Quoted
  <2> QED
    BY <2>1, <2>2 DEF Sound
<1>11. (CommitsAreQuoted /\ Kinds)'
  BY <1>2, <1>10 DEF CommitsAreQuoted, Kinds, Sound
<1>12. OnlyARewriteBringsNamesBack'
  BY <1>2 DEF OnlyARewriteBringsNamesBack
<1> QED
  BY <1>8, <1>9, <1>11, <1>12

\* confirmCancel looks at the quote.
LEMMA FetchQuoteInv ==
    ASSUME CancelInv, NEW r \in Requests, FetchQuote(r)
    PROVE  CancelInv'
<1>1. CancelTypeOK /\ req[r] \in Request /\ Sound(r)
  BY AllSound DEF CancelInv, CancelTypeOK
<1>2. UNCHANGED <<seat, booking, order, quotes>> /\ clock' \in Nat
      /\ sweptAt' \in [Procs -> Nat \cup {None}] /\ req[r].pc = "fetch"
  BY <1>1 DEF FetchQuote, rowVars, CancelTypeOK
<1>3. CASE Answer(r, "REFUND-QUOTE-EXPIRED", None)
  BY <1>1, <1>2, <1>3, NoneIsAnAmount, AnswerMoves, RequestMoves
<1>4. CASE Goto(r, "replace")
  <2>1. /\ req' \in [Requests -> Request]
        /\ \A j \in Requests \ {r} : req'[j] = req[j]
        /\ req'[r].pc = "replace"
        /\ req'[r].target = req[r].target /\ req'[r].paid = req[r].paid
    BY <1>1, <1>4, GotoMoves
  <2>2. Sound(r)'
    BY <1>1, <1>2, <2>1 DEF Sound
  <2> QED
    BY <1>2, <2>1, <2>2, RequestMoves
<1>5. CASE QuoteLive(r) /\ ~SlabMoved(r) /\ Goto(r, "apply")
  <2>1. /\ req' \in [Requests -> Request]
        /\ \A j \in Requests \ {r} : req'[j] = req[j]
        /\ req'[r].pc = "apply" /\ req'[r].quote = req[r].quote /\ req'[r].now = req[r].now
        /\ req'[r].target = req[r].target /\ req'[r].paid = req[r].paid
    BY <1>1, <1>5, GotoMoves
  <2>2. /\ req[r].quote # None /\ quotes[req[r].quote].seats = req[r].target
        /\ quotes[req[r].quote].slab = SlabFor(req[r].now)
    BY <1>5 DEF QuoteLive, SlabMoved
  <2>3. Sound(r)'
    BY <1>1, <1>2, <2>1, <2>2 DEF Sound, Quoted
  <2> QED
    BY <1>2, <2>1, <2>3, RequestMoves
<1> QED
  BY <1>3, <1>4, <1>5 DEF FetchQuote

\* The rows after a cancellation: the same names, and a row that was cancelled
\* before is as it was.
LEMMA CancelledRows ==
    ASSUME CancelTypeOK, NEW S \in SUBSET Seats, NEW slab \in Slabs
    PROVE  /\ CancelledSeats(S, slab) \in [Seats -> SeatRow]
           /\ \A s \in Seats : CancelledSeats(S, slab)[s].named = seat[s].named
           /\ \A s \in Seats : seat[s].status = "CANCELLED" =>
                 CancelledSeats(S, slab)[s] = seat[s]
<1> DEFINE row(s) == [seat[s] EXCEPT !.status = "CANCELLED", !.slab = slab,
                                     !.refund = SeatRefund(s, slab)]
<1>1. ASSUME NEW s \in Seats
      PROVE  /\ seat[s] \in SeatRow /\ row(s) \in SeatRow
             /\ row(s).named = seat[s].named
  <2> DEFINE refund == SeatRefund(s, slab)
  <2>1. seat[s] \in SeatRow
    BY DEF CancelTypeOK
  <2>2. refund \in {None} \cup {SeatRefund(at[1], at[2]) : at \in Seats \X Slabs}
    <3>1. <<s, slab>> \in Seats \X Slabs
      OBVIOUS
    <3>2. SeatRefund(<<s, slab>>[1], <<s, slab>>[2]) = refund
      OBVIOUS
    <3> QED
      BY <3>1, <3>2
  <2> HIDE DEF refund
  <2>3. [seat[s] EXCEPT !.status = "CANCELLED", !.slab = slab, !.refund = refund] \in SeatRow
    BY <2>1, <2>2 DEF SeatRow
  <2>4. [seat[s] EXCEPT !.status = "CANCELLED", !.slab = slab, !.refund = refund].named
           = seat[s].named
    BY <2>1 DEF SeatRow
  <2> QED
    BY <2>1, <2>3, <2>4 DEF refund
<1>2. CancelledSeats(S, slab) = [s \in Seats |-> IF s \in S /\ seat[s].status = "CONFIRMED"
                                                 THEN row(s) ELSE seat[s]]
  BY DEF CancelledSeats
<1> HIDE DEF row
<1> QED
  BY <1>1, <1>2

\* applyCancellation.
LEMMA ApplyInv ==
    ASSUME CancelInv, NEW r \in Requests, Apply(r)
    PROVE  CancelInv'
<1> USE DEF CancelInv
<1> DEFINE slab == SlabFor(req[r].now)
           rows == CancelledSeats(req[r].target, slab)
           paid == Refund(req[r].target, slab)
<1>1. CancelTypeOK /\ req[r] \in Request /\ Sound(r) /\ req[r].pc = "apply"
  BY AllSound DEF CancelTypeOK, Apply
<1>2. req[r].target \in SUBSET Seats /\ slab \in Slabs
  BY <1>1, SlabForIsASlab DEF Request
<1> HIDE DEF slab
<1>3. /\ rows \in [Seats -> SeatRow]
      /\ \A s \in Seats : rows[s].named = seat[s].named
  BY <1>1, <1>2, CancelledRows
<1>4. RefundTotal(rows) \in Amounts /\ paid \in Amounts
  BY <1>2, <1>3, RefundIsAnAmount, TotalIsAnAmount
<1>5. /\ seat' = rows
      /\ booking' = [status |-> IF \E s \in Seats : rows[s].status = "CONFIRMED"
                                THEN "CONFIRMED" ELSE "CANCELLED",
                     refund |-> RefundTotal(rows), slab |-> slab]
      /\ req' = [req EXCEPT ![r].pc = "reread", ![r].paid = paid]
      /\ UNCHANGED <<order, quotes, sweptAt, clock>>
  BY DEF Apply, slab
<1>6. paid = quotes[req[r].quote].refund /\ Quoted(r)
  <2>1. /\ Quoted(r) /\ quotes[req[r].quote].seats = req[r].target
        /\ quotes[req[r].quote].slab = slab
    BY <1>1 DEF Sound, slab
  <2>2. req[r].quote \in Requests /\ quotes[req[r].quote] # NoQuote
    BY <1>1, <2>1 DEF Quoted, Request, NoQuote
  <2> QED
    BY <2>1, <2>2 DEF QuotesStand
<1> HIDE DEF rows, paid
<1>7. /\ req' \in [Requests -> Request]
      /\ \A j \in Requests \ {r} : req'[j] = req[j]
      /\ req'[r].pc = "reread" /\ req'[r].paid = paid /\ req'[r].quote = req[r].quote
      /\ req'[r].target = req[r].target
  <2>1. /\ req'[r] = [req[r] EXCEPT !.pc = "reread", !.paid = paid]
        /\ \A j \in Requests \ {r} : req'[j] = req[j]
    BY <1>1, <1>5 DEF CancelTypeOK, Request
  <2>2. [req[r] EXCEPT !.pc = "reread", !.paid = paid] \in Request
    BY <1>1, <1>4 DEF Request
  <2>3. req' \in [Requests -> Request]
    BY <1>1, <1>5, <2>1, <2>2 DEF CancelTypeOK
  <2> QED
    BY <1>1, <2>1, <2>3 DEF Request
<1>8. CancelTypeOK'
  <2>1. booking' \in [status : {"CONFIRMED", "CANCELLED"}, refund : Amounts,
                      slab : Slabs \cup {None}]
    BY <1>2, <1>4, <1>5
  <2> QED
    BY <1>3, <1>5, <1>7, <2>1 DEF CancelTypeOK
<1>9. QuotesStand'
  BY <1>1, <1>5, <1>7 DEF QuotesStand
<1>10. ASSUME NEW j \in Requests
       PROVE  Sound(j)'
  <2>1. CASE j = r
    BY <1>1, <1>5, <1>6, <1>7, <2>1 DEF Sound, Quoted
  <2>2. CASE j # r
    <3>1. Sound(j) /\ req'[j] = req[j]
      BY <1>7, <2>2, AllSound
    <3> QED
      BY <1>5, <3>1 DEF Sound, Quoted
  <2> QED
    BY <2>1, <2>2
<1>11. (CommitsAreQuoted /\ Kinds)'
  BY <1>10 DEF CommitsAreQuoted, Kinds, Sound
<1>12. OnlyARewriteBringsNamesBack'
  BY <1>1, <1>3, <1>5, <1>7 DEF OnlyARewriteBringsNamesBack
<1> QED
  BY <1>8, <1>9, <1>11, <1>12

\* The stored order is written again, with the names the request has read.
LEMMA RewriteInv ==
    ASSUME CancelInv, NEW r \in Requests, Rewrite(r)
    PROVE  CancelInv'
<1> USE DEF CancelInv
<1>1. CancelTypeOK /\ req[r] \in Request /\ Sound(r) /\ req[r].pc = "rewrite"
  BY AllSound DEF CancelTypeOK, Rewrite
<1>2. /\ order' = [status |-> IF req[r].status = "CANCELLED" THEN "CANCELLED" ELSE "ACTIVE",
                   seats |-> req[r].live, cancelled |-> Seats \ req[r].live,
                   names |-> req[r].live \cap req[r].named]
      /\ UNCHANGED <<seat, booking, quotes, sweptAt, clock>>
  BY DEF Rewrite
<1>3. order' \in Order /\ order'.names = req[r].live \cap req[r].named
  BY <1>1, <1>2 DEF Order, Request
<1>4. /\ req' \in [Requests -> Request]
      /\ \A j \in Requests \ {r} : req'[j] = req[j]
      /\ req'[r].pc = "done" /\ req'[r].paid = req[r].paid /\ req'[r].quote = req[r].quote
      /\ req'[r].target = req[r].target /\ req'[r].live = req[r].live
      /\ req'[r].named = req[r].named
  <2>1. /\ req'[r] = [req[r] EXCEPT !.pc = "done", !.answer = "OK", !.order = None,
                                    !.status = None, !.stored = None, !.now = 0]
        /\ \A j \in Requests \ {r} : req'[j] = req[j]
    BY <1>1 DEF CancelTypeOK, Request, Rewrite, AnswerRewritten
  <2>2. [req[r] EXCEPT !.pc = "done", !.answer = "OK", !.order = None,
                       !.status = None, !.stored = None, !.now = 0] \in Request
    BY <1>1, NoneIsAnAmount DEF Request
  <2>3. req' \in [Requests -> Request]
    BY <1>1, <2>1, <2>2 DEF CancelTypeOK, Rewrite, AnswerRewritten
  <2> QED
    BY <1>1, <2>1, <2>3 DEF Request
<1>5. CancelTypeOK'
  BY <1>2, <1>3, <1>4 DEF CancelTypeOK
<1>6. QuotesStand'
  BY <1>1, <1>2, <1>4 DEF QuotesStand
<1>7. ASSUME NEW j \in Requests
      PROVE  Sound(j)'
  <2>1. CASE j = r
    BY <1>1, <1>2, <1>4, <2>1 DEF Sound, Quoted
  <2>2. CASE j # r
    <3>1. Sound(j) /\ req'[j] = req[j]
      BY <1>4, <2>2, AllSound
    <3> QED
      BY <1>2, <3>1 DEF Sound, Quoted
  <2> QED
    BY <2>1, <2>2
<1>8. (CommitsAreQuoted /\ Kinds)'
  BY <1>7 DEF CommitsAreQuoted, Kinds, Sound
<1>9. OnlyARewriteBringsNamesBack'
  <2>1. KindOf[r] = "commit" /\ order'.names = req'[r].live \cap req'[r].named
    BY <1>1, <1>3, <1>4 DEF Sound
  <2> QED
    BY <1>4, <2>1 DEF OnlyARewriteBringsNamesBack
<1> QED
  BY <1>5, <1>6, <1>8, <1>9

\* The retention sweep begins, or is skipped.
LEMMA BeginSweepInv ==
    ASSUME CancelInv, NEW r \in Requests, BeginSweep(r)
    PROVE  CancelInv'
<1>1. CancelTypeOK /\ req[r] \in Request /\ Sound(r) /\ req[r].pc = "sweep" /\ clock \in Nat
  BY AllSound DEF CancelInv, CancelTypeOK, BeginSweep
<1>2. UNCHANGED <<seat, booking, order, quotes>> /\ clock' \in Nat
  BY <1>1 DEF BeginSweep, rowVars, CancelTypeOK
<1>3. sweptAt' \in [Procs -> Nat \cup {None}]
  BY <1>1 DEF BeginSweep, CancelTypeOK
<1>4. PICK pc \in {"row", "scan"} : req' = [req EXCEPT ![r].pc = pc, ![r].now = clock]
  BY DEF BeginSweep
<1>5. /\ req'[r] = [req[r] EXCEPT !.pc = pc, !.now = clock]
      /\ \A j \in Requests \ {r} : req'[j] = req[j]
  BY <1>1, <1>4 DEF CancelTypeOK, Request
<1>6. [req[r] EXCEPT !.pc = pc, !.now = clock] \in Request
  BY <1>1 DEF Request
<1>7. req' \in [Requests -> Request]
  BY <1>1, <1>4, <1>5, <1>6 DEF CancelTypeOK
<1>8. req'[r].pc = pc /\ req'[r].paid = req[r].paid /\ req'[r].target = req[r].target
  BY <1>1, <1>5 DEF Request
<1>9. Sound(r)'
  BY <1>1, <1>8 DEF Sound
<1> QED
  BY <1>1, <1>2, <1>3, <1>5, <1>7, <1>9, RequestMoves

\* The stale booking is read with its order.
LEMMA ScanInv ==
    ASSUME CancelInv, NEW r \in Requests, Scan(r)
    PROVE  CancelInv'
<1>1. CancelTypeOK /\ req[r] \in Request /\ Sound(r) /\ req[r].pc = "scan"
  BY AllSound DEF CancelInv, CancelTypeOK, Scan
<1>2. UNCHANGED <<seat, booking, order, quotes>> /\ clock' \in Nat
      /\ sweptAt' \in [Procs -> Nat \cup {None}]
  BY <1>1 DEF Scan, rowVars, CancelTypeOK
<1> DEFINE stale == Due(req[r].now) /\ \E s \in Seats : seat[s].named
           pc == IF stale THEN "clear" ELSE "row"
           doc == IF stale THEN order ELSE None
<1>3. req' = [req EXCEPT ![r].pc = pc, ![r].order = doc]
  BY DEF Scan
<1>4. pc \in {"clear", "row"} /\ doc \in Order \cup {None}
  BY <1>1 DEF CancelTypeOK
<1>5. pc = "clear" => doc \in Order
  BY <1>1 DEF CancelTypeOK
<1> HIDE DEF pc, doc
<1>6. /\ req'[r] = [req[r] EXCEPT !.pc = pc, !.order = doc]
      /\ \A j \in Requests \ {r} : req'[j] = req[j]
  BY <1>1, <1>3 DEF CancelTypeOK, Request
<1>7. [req[r] EXCEPT !.pc = pc, !.order = doc] \in Request
  BY <1>1, <1>4 DEF Request
<1>8. req' \in [Requests -> Request]
  BY <1>1, <1>3, <1>6, <1>7 DEF CancelTypeOK
<1>9. /\ req'[r].pc = pc /\ req'[r].paid = req[r].paid /\ req'[r].target = req[r].target
      /\ req'[r].order = doc
  BY <1>1, <1>6 DEF Request
<1>10. Sound(r)'
  BY <1>1, <1>4, <1>5, <1>9 DEF Sound
<1> QED
  BY <1>1, <1>2, <1>6, <1>8, <1>10, RequestMoves

\* Rows without their names.
LEMMA RowsWithoutNames ==
    ASSUME CancelTypeOK, NEW rows,
           rows = [s \in Seats |-> [seat[s] EXCEPT !.named = FALSE]]
    PROVE  /\ rows \in [Seats -> SeatRow]
           /\ \A s \in Seats : /\ ~rows[s].named
                               /\ rows[s].status = seat[s].status
                               /\ rows[s].refund = seat[s].refund
                               /\ rows[s].slab = seat[s].slab
<1>1. ASSUME NEW s \in Seats
      PROVE  LET row == [seat[s] EXCEPT !.named = FALSE] IN
             /\ row \in SeatRow /\ ~row.named /\ row.status = seat[s].status
             /\ row.refund = seat[s].refund /\ row.slab = seat[s].slab
  <2>1. seat[s] \in SeatRow
    BY DEF CancelTypeOK
  <2>2. [seat[s] EXCEPT !.named = FALSE] \in SeatRow
    BY <2>1 DEF SeatRow
  <2> QED
    BY <2>1, <2>2 DEF SeatRow
<1> QED
  BY <1>1

\* The names are dropped, from the rows and from the order that was read.
LEMMA ClearNamesInv ==
    ASSUME CancelInv, NEW r \in Requests, ClearNames(r)
    PROVE  CancelInv'
<1> USE DEF CancelInv
<1>1. CancelTypeOK /\ req[r] \in Request /\ Sound(r) /\ req[r].pc = "clear"
  BY AllSound DEF CancelTypeOK, ClearNames
<1>2. /\ seat' = [s \in Seats |-> [seat[s] EXCEPT !.named = FALSE]]
      /\ order' = [req[r].order EXCEPT !.names = {}]
      /\ Goto(r, "row")
      /\ UNCHANGED <<booking, quotes, sweptAt, clock>>
  BY DEF ClearNames
<1>3. seat' \in [Seats -> SeatRow]
  BY <1>1, <1>2, RowsWithoutNames
<1>4. order' \in Order /\ order'.names = {}
  <2>1. req[r].order \in Order
    BY <1>1 DEF Sound
  <2>2. [req[r].order EXCEPT !.names = {}] \in Order
    BY <2>1 DEF Order
  <2> QED
    BY <1>2, <2>1, <2>2 DEF Order
<1>5. /\ req' \in [Requests -> Request]
      /\ \A j \in Requests \ {r} : req'[j] = req[j]
      /\ req'[r].pc = "row"
      /\ req'[r].target = req[r].target /\ req'[r].paid = req[r].paid
  BY <1>1, <1>2, GotoMoves
<1>6. CancelTypeOK'
  BY <1>2, <1>3, <1>4, <1>5 DEF CancelTypeOK
<1>7. QuotesStand'
  BY <1>1, <1>2, <1>5 DEF QuotesStand
<1>8. ASSUME NEW j \in Requests
      PROVE  Sound(j)'
  <2>1. CASE j = r
    BY <1>1, <1>5, <2>1 DEF Sound
  <2>2. CASE j # r
    <3>1. Sound(j) /\ req'[j] = req[j]
      BY <1>5, <2>2, AllSound
    <3> QED
      BY <1>2, <3>1 DEF Sound, Quoted
  <2> QED
    BY <2>1, <2>2
<1>9. (CommitsAreQuoted /\ Kinds)'
  BY <1>8 DEF CommitsAreQuoted, Kinds, Sound
<1>10. OnlyARewriteBringsNamesBack'
  BY <1>4 DEF OnlyARewriteBringsNamesBack
<1> QED
  BY <1>6, <1>7, <1>9, <1>10

\* A process restarts.
LEMMA CrashInv ==
    ASSUME CancelInv, NEW p, Crash(p)
    PROVE  CancelInv'
<1> USE DEF CancelInv
<1> DEFINE lost == [NoRequest EXCEPT !.pc = "lost"]
<1>1. lost \in Request /\ lost.pc = "lost" /\ lost.paid = None
  <2>1. NoRequest \in Request
    BY NoneIsAnAmount, CancellationAssumption DEF NoRequest, Request
  <2>2. lost \in Request
    BY <2>1 DEF Request
  <2>3. NoRequest.paid = None
    BY DEF NoRequest
  <2> QED
    BY <2>1, <2>2, <2>3 DEF Request
<1>2. /\ req' = [r \in Requests |-> IF ProcOf[r] = p /\ InFlight(r) THEN lost ELSE req[r]]
      /\ UNCHANGED <<seat, booking, order, quotes, clock>>
      /\ sweptAt' = [sweptAt EXCEPT ![p] = None]
  BY DEF Crash, rowVars
<1> HIDE DEF lost
<1>3. req' \in [Requests -> Request]
  BY <1>1, <1>2 DEF CancelTypeOK
<1>4. \A r \in Requests : req'[r] = req[r] \/ (req[r].pc # "done" /\ req'[r] = lost)
  BY <1>2 DEF InFlight
<1>5. CancelTypeOK'
  BY <1>2, <1>3 DEF CancelTypeOK
<1>6. QuotesStand'
  BY <1>2, <1>4 DEF QuotesStand
<1>7. ASSUME NEW j \in Requests
      PROVE  Sound(j)'
  <2>1. CASE req'[j] = lost
    BY <1>1, <2>1 DEF Sound
  <2>2. CASE req'[j] = req[j]
    <3>1. Sound(j)
      BY AllSound
    <3> QED
      BY <1>2, <2>2, <3>1 DEF Sound, Quoted
  <2> QED
    BY <1>4, <2>1, <2>2
<1>8. (CommitsAreQuoted /\ Kinds)'
  BY <1>7 DEF CommitsAreQuoted, Kinds, Sound
<1>9. OnlyARewriteBringsNamesBack'
  BY <1>2, <1>4 DEF OnlyARewriteBringsNamesBack
<1> QED
  BY <1>5, <1>6, <1>8, <1>9

\* Nothing but the clock moves, or nothing at all.
LEMMA TickInv ==
    ASSUME CancelInv, UNCHANGED <<seat, booking, order, quotes, sweptAt, req>>, clock' \in Nat
    PROVE  CancelInv'
<1> USE DEF CancelInv
<1>1. CancelTypeOK' /\ QuotesStand' /\ OnlyARewriteBringsNamesBack'
  BY DEF CancelTypeOK, QuotesStand, OnlyARewriteBringsNamesBack
<1>2. \A j \in Requests : Sound(j)'
  BY AllSound DEF Sound, Quoted
<1>3. (CommitsAreQuoted /\ Kinds)'
  BY <1>2 DEF CommitsAreQuoted, Kinds, Sound
<1> QED
  BY <1>1, <1>3

-----------------------------------------------------------------------------

\* It holds of a booking that was just confirmed.
LEMMA CancelInit == Init => CancelInv
<1> SUFFICES ASSUME Init PROVE CancelInv
  OBVIOUS
<1>1. /\ seat = [s \in Seats |-> [status |-> "CONFIRMED", refund |-> None,
                                  slab |-> None, named |-> TRUE]]
      /\ booking = [status |-> "CONFIRMED", refund |-> None, slab |-> None]
      /\ order = [status |-> "ACTIVE", seats |-> Seats, cancelled |-> {}, names |-> Seats]
      /\ quotes = [q \in Requests |-> NoQuote]
      /\ sweptAt = [p \in Procs |-> None]
      /\ req = [r \in Requests |-> NoRequest]
      /\ clock = Min(Instants)
  BY DEF Init
<1>2. NoRequest \in Request
  BY NoneIsAnAmount, CancellationAssumption DEF NoRequest, Request
<1>3. NoQuote \in Quote
  BY NoneIsAnAmount DEF NoQuote, Quote
<1>4. clock \in Nat
  BY <1>1, FirstInstant, CancellationAssumption
<1>5. CancelTypeOK
  <2>1. seat \in [Seats -> SeatRow]
    BY <1>1 DEF SeatRow
  <2>2. booking \in [status : {"CONFIRMED", "CANCELLED"}, refund : Amounts,
                     slab : Slabs \cup {None}]
    BY <1>1, NoneIsAnAmount
  <2>3. order \in Order
    BY <1>1 DEF Order
  <2>4. quotes \in [Requests -> Quote] /\ sweptAt \in [Procs -> Nat \cup {None}]
    BY <1>1, <1>3
  <2>5. req \in [Requests -> Request]
    BY <1>1, <1>2
  <2> QED
    BY <1>4, <2>1, <2>2, <2>3, <2>4, <2>5 DEF CancelTypeOK
<1>6. QuotesStand
  BY <1>1 DEF QuotesStand
<1>7. \A r \in Requests : req[r].pc = "idle" /\ req[r].paid = None
  BY <1>1 DEF NoRequest
<1>8. CommitsAreQuoted /\ Kinds
  BY <1>7 DEF CommitsAreQuoted, Kinds
<1>9. OnlyARewriteBringsNamesBack
  <2>1. (\A s \in Seats : ~seat[s].named) => Seats = {}
    BY <1>1
  <2>2. order.names = Seats
    BY <1>1
  <2> QED
    BY <2>1, <2>2 DEF OnlyARewriteBringsNamesBack
<1> QED
  BY <1>5, <1>6, <1>8, <1>9 DEF CancelInv

\* Every step keeps it.
LEMMA CancelNext == CancelInv /\ [Next]_vars => CancelInv'
<1> SUFFICES ASSUME CancelInv, [Next]_vars PROVE CancelInv'
  OBVIOUS
<1>1. ASSUME NEW r \in Requests, NEW q \in Requests \cup {None},
             NEW wants \in Selections[r], Arrive(r, q, wants)
      PROVE  CancelInv'
  BY <1>1, ArriveInv
<1>2. ASSUME NEW r \in Requests, ReadRow(r) PROVE CancelInv'
  BY <1>2, ReadRowInv
<1>3. ASSUME NEW r \in Requests, ReadSeats(r) PROVE CancelInv'
  BY <1>3, ReadSeatsInv
<1>4. ASSUME NEW r \in Requests, Decide(r) PROVE CancelInv'
  BY <1>4, DecideInv
<1>5. ASSUME NEW r \in Requests, SaveQuote(r) PROVE CancelInv'
  BY <1>5, QuoteSaved DEF SaveQuote, rowVars
<1>6. ASSUME NEW r \in Requests, FetchQuote(r) PROVE CancelInv'
  BY <1>6, FetchQuoteInv
<1>7. ASSUME NEW r \in Requests, ReplaceQuote(r) PROVE CancelInv'
  BY <1>7, QuoteSaved DEF ReplaceQuote, rowVars
<1>8. ASSUME NEW r \in Requests, Apply(r) PROVE CancelInv'
  BY <1>8, ApplyInv
<1>9. ASSUME NEW r \in Requests, Rewrite(r) PROVE CancelInv'
  BY <1>9, RewriteInv
<1>10. ASSUME NEW r \in Requests, BeginSweep(r) PROVE CancelInv'
  BY <1>10, BeginSweepInv
<1>11. ASSUME NEW r \in Requests, Scan(r) PROVE CancelInv'
  BY <1>11, ScanInv
<1>12. ASSUME NEW r \in Requests, ClearNames(r) PROVE CancelInv'
  BY <1>12, ClearNamesInv
<1>13. ASSUME NEW p \in Mortal, Crash(p) PROVE CancelInv'
  BY <1>13, CrashInv
<1>14. CASE Tick
  <2>1. clock' \in Nat
    BY <1>14, CancellationAssumption DEF Tick
  <2> QED
    BY <1>14, <2>1, TickInv DEF Tick, rowVars
<1>15. CASE UNCHANGED vars
  <2>1. clock' \in Nat
    BY <1>15 DEF vars, CancelInv, CancelTypeOK
  <2> QED
    BY <1>15, <2>1, TickInv DEF vars
<1> QED
  BY <1>1, <1>2, <1>3, <1>4, <1>5, <1>6, <1>7, <1>8, <1>9, <1>10, <1>11, <1>12, <1>13,
     <1>14, <1>15 DEF Next

\* Requests, quotes and rows stay in step, through any interleaving of
\* cancellations, sweeps and restarts.
THEOREM CancelInvariant == Spec => []CancelInv
BY CancelInit, CancelNext, PTL DEF Spec

\* A commitment that goes through is answered what its quote promised, whatever
\* the clock did and whoever else cancelled meanwhile (confirmCancel).
THEOREM CommitmentsArePaidAsQuoted == Spec => []PaidAsQuoted
<1>1. CancelInv => PaidAsQuoted
  BY DEF CancelInv, CommitsAreQuoted, PaidAsQuoted
<1> QED
  BY <1>1, CancelInvariant, PTL

\* The sweep's work is undone only by a cancellation that had read the names
\* before it (sweepManifests, updateStoredOrder).
THEOREM NamesStayDropped == Spec => []OnlyARewriteBringsNamesBack
<1>1. CancelInv => OnlyARewriteBringsNamesBack
  BY DEF CancelInv
<1> QED
  BY <1>1, CancelInvariant, PTL

\* What a step may do to the row of a cancelled seat.
LEMMA FrozenStep ==
    ASSUME CancelInv, [Next]_vars, NEW s \in Seats, seat[s].status = "CANCELLED"
    PROVE  /\ seat'[s].status = "CANCELLED"
           /\ seat'[s].refund = seat[s].refund
           /\ seat'[s].slab = seat[s].slab
<1>t. CancelTypeOK
  BY DEF CancelInv
<1>1. ASSUME NEW r \in Requests, Apply(r)
      PROVE  seat'[s] = seat[s]
  <2>1. req[r].target \in SUBSET Seats /\ SlabFor(req[r].now) \in Slabs
    BY <1>t, SlabForIsASlab DEF CancelTypeOK, Request
  <2> QED
    BY <1>t, <1>1, <2>1, CancelledRows DEF Apply
<1>2. ASSUME NEW r \in Requests, ClearNames(r)
      PROVE  /\ seat'[s].status = seat[s].status
             /\ seat'[s].refund = seat[s].refund
             /\ seat'[s].slab = seat[s].slab
  <2>1. seat' = [x \in Seats |-> [seat[x] EXCEPT !.named = FALSE]]
    BY <1>2 DEF ClearNames
  <2> QED
    BY <1>t, <2>1, RowsWithoutNames
<1>3. ASSUME ~(\E r \in Requests : Apply(r) \/ ClearNames(r))
      PROVE  seat' = seat
  BY <1>3 DEF Next, Arrive, ReadRow, ReadSeats, Decide, SaveQuote, FetchQuote, ReplaceQuote,
              Rewrite, BeginSweep, Scan, Crash, Tick, vars, rowVars
<1> QED
  BY <1>1, <1>2, <1>3

\* The refund and the slab of a cancelled seat never change, and it never
\* becomes part of the booking again (applyCancellation).
THEOREM CancelledSeatsStay == Spec => RefundsAreFrozen
<1>1. CancelInv /\ [Next]_vars =>
        [\A s \in Seats : seat[s].status = "CANCELLED" =>
            /\ seat'[s].status = "CANCELLED"
            /\ seat'[s].refund = seat[s].refund
            /\ seat'[s].slab = seat[s].slab]_vars
  BY FrozenStep
<1> QED
  BY <1>1, CancelInvariant, PTL DEF Spec, RefundsAreFrozen

-----------------------------------------------------------------------------
(* Sums.  SumFunctionOnSet takes the terms in the order CHOOSE gives; what *)
(* it comes to does not depend on that.                                    *)

\* Induction over the subsets of a finite set, with the good ones as a set.
LEMMA SubsetInduction ==
    ASSUME NEW S, IsFiniteSet(S), NEW Good,
           \A s \in SUBSET S :
               (\A t \in SUBSET S : t \subseteq s /\ t # s => t \in Good) => s \in Good
    PROVE  \A s \in SUBSET S : s \in Good
<1> DEFINE Bad == (SUBSET S) \ Good
<1> SUFFICES ASSUME Bad # {} PROVE FALSE
  OBVIOUS
<1>1. IsWellFoundedOn(StrictSubsetOrdering(S), SUBSET S)
  <2>1. FiniteSubsetsOf(S) = SUBSET S
    BY FS_FiniteSubsetsOfFinite
  <2>2. IsWellFoundedOn(StrictSubsetOrdering(S), FiniteSubsetsOf(S))
    BY FS_StrictSubsetOrderingWellFounded
  <2> QED
    BY <2>1, <2>2
<1>2. Bad \subseteq SUBSET S
  OBVIOUS
<1> HIDE DEF Bad
<1>3. PICK s \in Bad : \A t \in Bad : <<t, s>> \notin StrictSubsetOrdering(S)
  BY <1>1, <1>2, WFMin
<1>4. ASSUME NEW t \in SUBSET S, t \subseteq s, t # s
      PROVE  t \in Good
  <2>1. <<t, s>> \in StrictSubsetOrdering(S)
    BY <1>2, <1>4 DEF StrictSubsetOrdering
  <2> QED
    BY <1>3, <2>1 DEF Bad
<1> QED
  BY <1>3, <1>4 DEF Bad

\* Induction over the naturals, in the same form.
LEMMA UpTheNaturals ==
    ASSUME NEW Good, 0 \in Good, \A n \in Nat : n \in Good => n + 1 \in Good
    PROVE  \A n \in Nat : n \in Good
<1> DEFINE Bad == Nat \ Good
<1> SUFFICES ASSUME Bad # {} PROVE FALSE
  OBVIOUS
<1>1. Bad \subseteq Nat
  OBVIOUS
<1>2. PICK m \in Bad : \A n \in Bad : <<n, m>> \notin OpToRel(<, Nat)
  BY <1>1, NatLessThanWellFounded, WFMin
<1>3. m \in Nat /\ m # 0
  OBVIOUS
<1>4. m - 1 \in Nat /\ m - 1 < m /\ m = (m - 1) + 1
  BY <1>3
<1>5. m - 1 \notin Bad
  BY <1>2, <1>3, <1>4 DEF OpToRel
<1>6. m - 1 \in Good
  BY <1>4, <1>5
<1>7. m \in Good
  BY <1>4, <1>6
<1> QED
  BY <1>7

Pick(s) == CHOOSE x \in s : TRUE

\* g has the sum of f over every subset of S, as the fold computes it.
AddsUp(g, f, S) ==
    g = [s \in SUBSET S |-> IF s = {} THEN 0 ELSE f[Pick(s)] + g[s \ {Pick(s)}]]

\* What is left when the first term of s is taken.
LEMMA Picked ==
    ASSUME NEW S, IsFiniteSet(S), NEW s \in SUBSET S, s # {}
    PROVE  /\ Pick(s) \in s
           /\ s \ {Pick(s)} \in SUBSET S /\ s \ {Pick(s)} # s
           /\ Cardinality(s) \in Nat /\ Cardinality(s \ {Pick(s)}) = Cardinality(s) - 1
           /\ Cardinality(s) > 0
<1>1. Pick(s) \in s
  BY DEF Pick
<1> DEFINE p == Pick(s)
<1>2. p \in s
  BY <1>1
<1> HIDE DEF p
<1>3. IsFiniteSet(s)
  BY FS_Subset
<1>4. Cardinality(s) \in Nat
  BY <1>3, FS_CardinalityType
<1>5. IsFiniteSet(s \ {p}) /\ Cardinality(s \ {p}) = Cardinality(s) - 1
  BY <1>2, <1>3, FS_RemoveElement
<1>6. Cardinality(s \ {p}) \in Nat
  BY <1>5, FS_CardinalityType
<1> QED
  BY <1>2, <1>4, <1>5, <1>6 DEF p

\* There is such a function.
LEMMA SumsExist ==
    ASSUME NEW S, IsFiniteSet(S), NEW f \in [S -> Int]
    PROVE  \E g \in [SUBSET S -> Int] : AddsUp(g, f, S)
<1> DEFINE Eq(g, s) == g[s] = IF s = {} THEN 0 ELSE f[Pick(s)] + g[s \ {Pick(s)}]
           UpTo(g, n) == \A s \in SUBSET S : Cardinality(s) <= n => Eq(g, s)
           Good == {n \in Nat : \E g \in [SUBSET S -> Int] : UpTo(g, n)}
<1>0. \A s \in SUBSET S : IsFiniteSet(s) /\ Cardinality(s) \in Nat
  BY FS_Subset, FS_CardinalityType
<1>1. 0 \in Good
  <2> DEFINE g == [s \in SUBSET S |-> 0]
  <2>1. ASSUME NEW s \in SUBSET S, Cardinality(s) <= 0
        PROVE  s = {}
    <3>1. Cardinality(s) = 0
      BY <1>0, <2>1
    <3> QED
      BY <1>0, <3>1, FS_EmptySet
  <2>2. g \in [SUBSET S -> Int] /\ UpTo(g, 0)
    BY <2>1
  <2> QED
    BY <2>2
<1>2. ASSUME NEW n \in Nat, n \in Good
      PROVE  n + 1 \in Good
  <2>1. PICK g \in [SUBSET S -> Int] : UpTo(g, n)
    BY <1>2
  <2> DEFINE term(s) == f[Pick(s)] + g[s \ {Pick(s)}]
             h == [s \in SUBSET S |-> IF Cardinality(s) = n + 1 THEN term(s) ELSE g[s]]
  <2>2. ASSUME NEW s \in SUBSET S, Cardinality(s) = n + 1
        PROVE  s # {} /\ term(s) \in Int
    <3>1. s # {}
      BY <2>2, FS_EmptySet
    <3>2. Pick(s) \in S /\ s \ {Pick(s)} \in SUBSET S
      BY <3>1, Picked
    <3>3. f[Pick(s)] \in Int /\ g[s \ {Pick(s)}] \in Int
      BY <3>2
    <3> QED
      BY <3>1, <3>3
  <2>3. h \in [SUBSET S -> Int]
    <3> HIDE DEF term
    <3> QED
      BY <2>2
  <2>4. ASSUME NEW s \in SUBSET S, Cardinality(s) <= n + 1
        PROVE  Eq(h, s)
    <3>1. CASE s = {}
      <4>1. Cardinality(s) = 0
        BY <3>1, FS_EmptySet
      <4>2. h[s] = g[s]
        BY <4>1
      <4>3. g[s] = 0
        BY <2>1, <3>1, <4>1
      <4> QED
        BY <3>1, <4>2, <4>3
    <3>2. CASE s # {}
      <4> DEFINE t == s \ {Pick(s)}
      <4>1. t \in SUBSET S /\ Cardinality(t) = Cardinality(s) - 1
        BY <3>2, Picked
      <4>2. Cardinality(s) \in Nat
        BY <1>0
      <4>3. h[t] = g[t]
        <5>1. Cardinality(t) # n + 1
          BY <2>4, <4>1, <4>2
        <5> HIDE DEF t, term
        <5> QED
          BY <4>1, <5>1
      <4>4. h[s] = f[Pick(s)] + g[t]
        <5>1. CASE Cardinality(s) = n + 1
          BY <5>1
        <5>2. CASE Cardinality(s) # n + 1
          <6>1. Cardinality(s) <= n /\ h[s] = g[s]
            BY <2>4, <4>2, <5>2
          <6>2. Eq(g, s)
            BY <2>1, <6>1
          <6> QED
            BY <3>2, <6>1, <6>2
        <5> QED
          BY <5>1, <5>2
      <4> QED
        BY <3>2, <4>3, <4>4
    <3> QED
      BY <3>1, <3>2
  <2> HIDE DEF h, Eq
  <2>5. UpTo(h, n + 1)
    BY <2>4
  <2> HIDE DEF UpTo
  <2> QED
    BY <2>3, <2>5
<1> HIDE DEF Good
<1>3. Cardinality(S) \in Good
  BY <1>0, <1>1, <1>2, UpTheNaturals
<1>4. PICK g \in [SUBSET S -> Int] : UpTo(g, Cardinality(S))
  BY <1>3 DEF Good
<1>5. ASSUME NEW s \in SUBSET S
      PROVE  g[s] = IF s = {} THEN 0 ELSE f[Pick(s)] + g[s \ {Pick(s)}]
  <2>1. Cardinality(s) <= Cardinality(S)
    BY FS_Subset
  <2> QED
    BY <1>4, <2>1
<1>6. AddsUp(g, f, S)
  BY <1>5 DEF AddsUp
<1> QED
  BY <1>6

\* There is only one.
LEMMA SumsAgree ==
    ASSUME NEW S, IsFiniteSet(S), NEW f, NEW e, \A x \in S : f[x] = e[x],
           NEW g, NEW h, AddsUp(g, f, S), AddsUp(h, e, S)
    PROVE  \A s \in SUBSET S : g[s] = h[s]
<1> DEFINE Good == {s \in SUBSET S : g[s] = h[s]}
<1>1. ASSUME NEW s \in SUBSET S,
             \A t \in SUBSET S : t \subseteq s /\ t # s => t \in Good
      PROVE  s \in Good
  <2>1. /\ g[s] = IF s = {} THEN 0 ELSE f[Pick(s)] + g[s \ {Pick(s)}]
        /\ h[s] = IF s = {} THEN 0 ELSE e[Pick(s)] + h[s \ {Pick(s)}]
    BY Zenon DEF AddsUp
  <2>2. CASE s = {}
    BY <2>1, <2>2
  <2>3. CASE s # {}
    <3> DEFINE p == Pick(s)
               t == s \ {p}
    <3>1. p \in s /\ t \in SUBSET S /\ t # s /\ t \subseteq s
      BY <2>3, Picked
    <3>2. g[s] = f[p] + g[t] /\ h[s] = e[p] + h[t]
      BY <2>1, <2>3
    <3>3. g[t] = h[t] /\ f[p] = e[p]
      BY <1>1, <3>1
    <3> HIDE DEF t, p
    <3> QED
      BY <3>2, <3>3
  <2> QED
    BY <2>2, <2>3
<1> HIDE DEF Good
<1>2. \A s \in SUBSET S : s \in Good
  BY <1>1, SubsetInduction
<1> QED
  BY <1>2 DEF Good

\* The sum over a part T of S is the one g has for it.
LEMMA SumIs ==
    ASSUME NEW S, IsFiniteSet(S), NEW f \in [S -> Int], NEW T \in SUBSET S, NEW h,
           \A x \in T : h[x] = f[x],
           NEW g \in [SUBSET S -> Int], AddsUp(g, f, S)
    PROVE  SumFunctionOnSet(h, T) = g[T]
<1> DEFINE k == [s \in SUBSET T |-> g[s]]
           it == CHOOSE i : AddsUp(i, h, T)
<1>0. IsFiniteSet(T)
  BY FS_Subset
<1>1. ASSUME NEW s \in SUBSET T
      PROVE  k[s] = IF s = {} THEN 0 ELSE h[Pick(s)] + k[s \ {Pick(s)}]
  <2>1. s \in SUBSET S
    OBVIOUS
  <2>2. g[s] = IF s = {} THEN 0 ELSE f[Pick(s)] + g[s \ {Pick(s)}]
    BY <2>1, Zenon DEF AddsUp
  <2>3. CASE s = {}
    BY <2>2, <2>3
  <2>4. CASE s # {}
    <3> DEFINE p == Pick(s)
               t == s \ {p}
    <3>1. p \in s
      BY <2>4 DEF Pick
    <3>2. t \in SUBSET T
      OBVIOUS
    <3>3. g[s] = f[p] + g[t]
      BY <2>2, <2>4
    <3> HIDE DEF t, p
    <3>4. k[s] = h[p] + k[t]
      BY <3>1, <3>2, <3>3
    <3> QED
      BY <2>4, <3>4 DEF t, p
  <2> QED
    BY <2>3, <2>4
<1>2. AddsUp(k, h, T)
  BY <1>1 DEF AddsUp
<1> HIDE DEF k
<1>3. AddsUp(it, h, T)
  BY <1>2
<1> HIDE DEF it
<1>4. \A s \in SUBSET T : it[s] = k[s]
  BY <1>0, <1>2, <1>3, SumsAgree
<1>5. SumFunctionOnSet(h, T) = it[T]
  BY DEF SumFunctionOnSet, FoldFunctionOnSet, MapThenFoldSet, it, AddsUp, Pick
<1> QED
  BY <1>4, <1>5 DEF k

\* The same for the whole of S.
LEMMA SumOverAll ==
    ASSUME NEW S, IsFiniteSet(S), NEW f \in [S -> Int],
           NEW g \in [SUBSET S -> Int], AddsUp(g, f, S)
    PROVE  SumFunction(f) = g[S]
<1>1. SumFunctionOnSet(f, S) = g[S]
  BY SumIs
<1>2. DOMAIN f = S
  OBVIOUS
<1> QED
  BY <1>1, <1>2 DEF SumFunction

\* Any term may be taken first.
LEMMA AnyTermFirst ==
    ASSUME NEW S, IsFiniteSet(S), NEW f \in [S -> Int],
           NEW g \in [SUBSET S -> Int], AddsUp(g, f, S)
    PROVE  \A s \in SUBSET S : \A x \in s : g[s] = f[x] + g[s \ {x}]
<1> DEFINE Good == {s \in SUBSET S : \A x \in s : g[s] = f[x] + g[s \ {x}]}
<1>1. ASSUME NEW s \in SUBSET S,
             \A t \in SUBSET S : t \subseteq s /\ t # s => t \in Good
      PROVE  s \in Good
  <2> SUFFICES ASSUME NEW x \in s PROVE g[s] = f[x] + g[s \ {x}]
    OBVIOUS
  <2> DEFINE p == Pick(s)
             both == (s \ {p}) \ {x}
  <2>1. p \in s /\ g[s] = f[p] + g[s \ {p}]
    <3>1. g[s] = IF s = {} THEN 0 ELSE f[Pick(s)] + g[s \ {Pick(s)}]
      BY Zenon DEF AddsUp
    <3> QED
      BY <3>1, Picked
  <2> HIDE DEF p
  <2>2. CASE x = p
    BY <2>1, <2>2
  <2>3. CASE x # p
    <3>1. g[s \ {p}] = f[x] + g[both]
      <4>1. s \ {p} \in Good
        BY <1>1, <2>1
      <4>2. x \in s \ {p}
        BY <2>3
      <4> QED
        BY <4>1, <4>2
    <3>2. g[s \ {x}] = f[p] + g[both]
      <4>1. s \ {x} \in Good
        BY <1>1
      <4>2. p \in s \ {x}
        BY <2>1, <2>3
      <4>3. (s \ {x}) \ {p} = both
        OBVIOUS
      <4>4. g[s \ {x}] = f[p] + g[(s \ {x}) \ {p}]
        BY <4>1, <4>2
      <4> QED
        BY <4>3, <4>4
    <3>3. f[p] \in Int /\ f[x] \in Int /\ g[both] \in Int
      BY <2>1
    <3> HIDE DEF both
    <3> QED
      BY <2>1, <3>1, <3>2, <3>3
  <2> QED
    BY <2>2, <2>3
<1> HIDE DEF Good
<1>2. \A s \in SUBSET S : s \in Good
  BY <1>1, SubsetInduction
<1> QED
  BY <1>2 DEF Good

\* Terms of zero may be left out.
LEMMA ZerosDoNotCount ==
    ASSUME NEW S, IsFiniteSet(S), NEW f \in [S -> Int],
           NEW g \in [SUBSET S -> Int], AddsUp(g, f, S),
           NEW T \in SUBSET S, \A x \in S \ T : f[x] = 0
    PROVE  g[S] = g[T]
<1> DEFINE Good == {s \in SUBSET S : g[s] = g[s \cap T]}
<1>1. ASSUME NEW s \in SUBSET S,
             \A t \in SUBSET S : t \subseteq s /\ t # s => t \in Good
      PROVE  s \in Good
  <2>1. CASE s \subseteq T
    <3>1. s \cap T = s
      BY <2>1
    <3> QED
      BY <3>1
  <2>2. CASE ~(s \subseteq T)
    <3>1. PICK x \in s : x \notin T
      BY <2>2
    <3>2. g[s] = f[x] + g[s \ {x}]
      BY AnyTermFirst
    <3>3. f[x] = 0 /\ g[s \ {x}] \in Int
      BY <3>1
    <3>4. s \ {x} \in Good
      BY <1>1
    <3>5. (s \ {x}) \cap T = s \cap T
      BY <3>1
    <3>6. g[s \ {x}] = g[s \cap T]
      BY <3>4, <3>5
    <3>7. g[s] = g[s \ {x}]
      BY <3>2, <3>3
    <3> QED
      BY <3>6, <3>7
  <2> QED
    BY <2>1, <2>2
<1>2. S \in Good
  <2> HIDE DEF Good
  <2> QED
    BY <1>1, SubsetInduction
<1>3. S \cap T = T
  OBVIOUS
<1> QED
  BY <1>2, <1>3

\* The three facts the ledger rests on.  A sum is an integer;
LEMMA SumIsInt ==
    ASSUME NEW S, IsFiniteSet(S), NEW f \in [S -> Int]
    PROVE  SumFunction(f) \in Int
<1>1. PICK g \in [SUBSET S -> Int] : AddsUp(g, f, S)
  BY SumsExist
<1>2. SumFunction(f) = g[S]
  BY <1>1, SumOverAll
<1> QED
  BY <1>2

\* a sum over a part of S is one over S with zeros;
LEMMA SumOverAPart ==
    ASSUME NEW S, IsFiniteSet(S), NEW f \in [S -> Int], NEW T \in SUBSET S, NEW h,
           \A x \in T : h[x] = f[x], \A x \in S \ T : f[x] = 0
    PROVE  SumFunctionOnSet(h, T) = SumFunction(f)
<1>1. PICK g \in [SUBSET S -> Int] : AddsUp(g, f, S)
  BY SumsExist
<1>2. SumFunctionOnSet(h, T) = g[T]
  BY <1>1, SumIs
<1>3. SumFunction(f) = g[S]
  BY <1>1, SumOverAll
<1>4. g[S] = g[T]
  BY <1>1, ZerosDoNotCount
<1> QED
  BY <1>2, <1>3, <1>4

\* and the sum of sums is the sum term by term.
LEMMA SumOfSums ==
    ASSUME NEW S, IsFiniteSet(S), NEW f \in [S -> Int], NEW h \in [S -> Int],
           NEW e \in [S -> Int], \A x \in S : e[x] = f[x] + h[x]
    PROVE  SumFunction(e) = SumFunction(f) + SumFunction(h)
<1>1. PICK g \in [SUBSET S -> Int] : AddsUp(g, f, S)
  BY SumsExist
<1>2. PICK k \in [SUBSET S -> Int] : AddsUp(k, h, S)
  BY SumsExist
<1> DEFINE both == [s \in SUBSET S |-> g[s] + k[s]]
<1>3. ASSUME NEW s \in SUBSET S
      PROVE  both[s] = IF s = {} THEN 0 ELSE e[Pick(s)] + both[s \ {Pick(s)}]
  <2>1. /\ g[s] = IF s = {} THEN 0 ELSE f[Pick(s)] + g[s \ {Pick(s)}]
        /\ k[s] = IF s = {} THEN 0 ELSE h[Pick(s)] + k[s \ {Pick(s)}]
    BY <1>1, <1>2, Zenon DEF AddsUp
  <2>2. CASE s = {}
    BY <2>1, <2>2
  <2>3. CASE s # {}
    <3> DEFINE p == Pick(s)
               t == s \ {p}
    <3>1. p \in S /\ t \in SUBSET S
      BY <2>3, Picked
    <3>2. g[s] = f[p] + g[t] /\ k[s] = h[p] + k[t]
      BY <2>1, <2>3
    <3> HIDE DEF t, p
    <3>3. /\ f[p] \in Int /\ h[p] \in Int /\ g[t] \in Int /\ k[t] \in Int
          /\ e[p] = f[p] + h[p]
      BY <3>1
    <3>4. both[s] = e[p] + both[t]
      BY <3>1, <3>2, <3>3
    <3> QED
      BY <2>3, <3>4 DEF t, p
  <2> QED
    BY <2>2, <2>3
<1>4. AddsUp(both, e, S)
  BY <1>3 DEF AddsUp
<1>5. both \in [SUBSET S -> Int] /\ both[S] = g[S] + k[S]
  OBVIOUS
<1> HIDE DEF both
<1>6. SumFunction(e) = both[S]
  BY <1>4, <1>5, SumOverAll
<1>7. SumFunction(f) = g[S]
  BY <1>1, SumOverAll
<1>8. SumFunction(h) = k[S]
  BY <1>2, SumOverAll
<1> QED
  BY <1>5, <1>6, <1>7, <1>8

\* Over nothing a sum is zero.
LEMMA NothingToAdd ==
    ASSUME NEW S, IsFiniteSet(S), NEW f \in [S -> Int]
    PROVE  SumFunctionOnSet(f, {}) = 0
<1>1. PICK g \in [SUBSET S -> Int] : AddsUp(g, f, S)
  BY SumsExist
<1>2. {} \in SUBSET S /\ \A x \in {} : f[x] = f[x]
  OBVIOUS
<1>3. SumFunctionOnSet(f, {}) = g[{}]
  BY <1>1, <1>2, SumIs
<1>4. g[{}] = IF {} = {} THEN 0 ELSE f[Pick({})] + g[{} \ {Pick({})}]
  BY <1>1, <1>2, Zenon DEF AddsUp
<1> QED
  BY <1>3, <1>4

-----------------------------------------------------------------------------
(* The ledger.                                                             *)

\* A row carries the refund of the slab it was cancelled at, and the booking
\* the sum of its rows, from the first cancellation on.
Ledger ==
    /\ \A s \in Seats :
          /\ seat[s].status = "CONFIRMED" => seat[s].refund = None
          /\ seat[s].status = "CANCELLED" =>
                /\ seat[s].slab \in Slabs
                /\ seat[s].refund = SeatRefund(s, seat[s].slab)
    /\ booking.refund = None <=> With(Seats, "CANCELLED") = {}
    /\ booking.refund # None => booking.refund = RefundTotal(seat)

\* What a seat pays back and what it keeps are whole paise.
LEMMA SharesAreWhole ==
    ASSUME NEW s \in Seats, NEW slab \in Slabs
    PROVE  /\ Kept(s, slab) \in Int /\ SeatRefund(s, slab) \in Int
           /\ Retained(s, slab) \in Int /\ SeatRefund(s, slab) # None
           /\ Retained(s, slab) = BaseFare[s] + Fee[s] + Toll[s] - SeatRefund(s, slab)
<1>1. BaseFare[s] \in Nat /\ Toll[s] \in Nat /\ Fee[s] \in Nat
  BY CancellationAssumption
<1>2. DeductionPercent(slab) \in {10, 25, 50, 100}
  BY DEF DeductionPercent, Slabs
<1>3. BaseFare[s] * (100 - DeductionPercent(slab)) + 50 \in Int
  BY <1>1, <1>2
<1>4. Kept(s, slab) \in Int
  BY <1>3 DEF Kept
<1>5. /\ SeatRefund(s, slab) \in Int /\ Retained(s, slab) \in Int
      /\ Retained(s, slab) = BaseFare[s] + Fee[s] + Toll[s] - SeatRefund(s, slab)
  BY <1>1, <1>4 DEF SeatRefund, Retained
<1>6. SeatRefund(s, slab) # None
  BY <1>5, CancellationAssumption
<1> QED
  BY <1>4, <1>5, <1>6

\* The rows of a booking of which some seats are cancelled.
Rows(rows) ==
    /\ rows \in [Seats -> SeatRow]
    /\ \A s \in Seats :
          /\ rows[s].status = "CONFIRMED" => rows[s].refund = None
          /\ rows[s].status = "CANCELLED" =>
                /\ rows[s].slab \in Slabs
                /\ rows[s].refund = SeatRefund(s, rows[s].slab)

\* The SUM counts what the cancelled seats were refunded, and is a number.
LEMMA TotalOfRows ==
    ASSUME NEW rows, Rows(rows)
    PROVE  LET back == [s \in Seats |-> IF rows[s].status = "CANCELLED"
                                        THEN SeatRefund(s, rows[s].slab) ELSE 0] IN
           /\ back \in [Seats -> Int]
           /\ RefundTotal(rows) = SumFunction(back)
           /\ RefundTotal(rows) \in Int /\ RefundTotal(rows) # None
<1> DEFINE back == [s \in Seats |-> IF rows[s].status = "CANCELLED"
                                    THEN SeatRefund(s, rows[s].slab) ELSE 0]
<1>1. ASSUME NEW s \in Seats
      PROVE  /\ back[s] \in Int
             /\ back[s] = IF rows[s].refund = None THEN 0 ELSE rows[s].refund
  <2>1. rows[s].status \in {"CONFIRMED", "CANCELLED"}
    BY DEF Rows, SeatRow
  <2>2. CASE rows[s].status = "CONFIRMED"
    BY <2>2 DEF Rows
  <2>3. CASE rows[s].status = "CANCELLED"
    <3>1. rows[s].slab \in Slabs /\ rows[s].refund = SeatRefund(s, rows[s].slab)
      BY <2>3 DEF Rows
    <3>2. SeatRefund(s, rows[s].slab) \in Int /\ SeatRefund(s, rows[s].slab) # None
      BY <3>1, SharesAreWhole
    <3> QED
      BY <2>3, <3>1, <3>2
  <2> QED
    BY <2>1, <2>2, <2>3
<1>2. back = [s \in Seats |-> IF rows[s].refund = None THEN 0 ELSE rows[s].refund]
  BY <1>1
<1>3. back \in [Seats -> Int]
  BY <1>1
<1>4. RefundTotal(rows) = SumFunction(back)
  BY <1>2 DEF RefundTotal
<1> HIDE DEF back
<1>5. SumFunction(back) \in Int
  BY <1>3, SumIsInt, CancellationAssumption
<1>6. RefundTotal(rows) \in Int /\ RefundTotal(rows) # None
  BY <1>4, <1>5, CancellationAssumption
<1> QED
  BY <1>3, <1>4, <1>6 DEF back

\* The rows applyCancellation leaves.
LEMMA RowsCancelled ==
    ASSUME CancelTypeOK, Rows(seat), NEW S \in SUBSET Seats, NEW slab \in Slabs
    PROVE  /\ Rows(CancelledSeats(S, slab))
           /\ \A s \in S : CancelledSeats(S, slab)[s].status = "CANCELLED"
<1> DEFINE rows == CancelledSeats(S, slab)
<1>1. /\ rows \in [Seats -> SeatRow]
      /\ \A s \in Seats : seat[s].status = "CANCELLED" => rows[s] = seat[s]
  BY CancelledRows
<1>2. ASSUME NEW s \in Seats, s \in S, seat[s].status = "CONFIRMED"
      PROVE  /\ rows[s].status = "CANCELLED" /\ rows[s].slab = slab
             /\ rows[s].refund = SeatRefund(s, slab)
  <2> DEFINE refund == SeatRefund(s, slab)
  <2>1. seat[s] \in SeatRow
    BY DEF CancelTypeOK
  <2>2. rows[s] = [seat[s] EXCEPT !.status = "CANCELLED", !.slab = slab, !.refund = refund]
    BY <1>2 DEF CancelledSeats
  <2> HIDE DEF refund, rows
  <2>3. rows[s].status = "CANCELLED" /\ rows[s].slab = slab /\ rows[s].refund = refund
    BY <2>1, <2>2 DEF SeatRow
  <2> QED
    BY <2>3 DEF refund
<1>3. ASSUME NEW s \in Seats, s \notin S
      PROVE  rows[s] = seat[s]
  BY <1>3 DEF CancelledSeats
<1>4. \A s \in Seats : seat[s].status \in {"CONFIRMED", "CANCELLED"}
  BY DEF CancelTypeOK, SeatRow
<1> HIDE DEF rows
<1>5. Rows(rows)
  BY <1>1, <1>2, <1>3, <1>4 DEF Rows
<1>6. \A s \in S : rows[s].status = "CANCELLED"
  BY <1>1, <1>2, <1>4
<1> QED
  BY <1>5, <1>6 DEF rows

\* The rows' part of the ledger.
LEMMA LedgerRows == CancelTypeOK /\ Ledger => Rows(seat)
BY DEF CancelTypeOK, Ledger, Rows

\* A booking that was just confirmed has paid nothing back.
LEMMA LedgerInit == Init => Ledger
<1> SUFFICES ASSUME Init PROVE Ledger
  OBVIOUS
<1>1. \A s \in Seats : seat[s].status = "CONFIRMED" /\ seat[s].refund = None
  BY DEF Init
<1>2. booking.refund = None
  BY DEF Init
<1>3. With(Seats, "CANCELLED") = {}
  BY <1>1 DEF With
<1> QED
  BY <1>1, <1>2, <1>3 DEF Ledger

\* Every step keeps the ledger.
LEMMA LedgerNext == CancelInv /\ Ledger /\ [Next]_vars => Ledger'
<1> SUFFICES ASSUME CancelInv, Ledger, [Next]_vars PROVE Ledger'
  OBVIOUS
<1>t. CancelTypeOK /\ Rows(seat)
  BY LedgerRows DEF CancelInv
<1>1. ASSUME NEW r \in Requests, Apply(r)
      PROVE  Ledger'
  <2> DEFINE slab == SlabFor(req[r].now)
             rows == CancelledSeats(req[r].target, slab)
  <2>1. req[r].target \in SUBSET Seats /\ slab \in Slabs /\ req[r].target # {}
    BY <1>t, <1>1, SlabForIsASlab DEF CancelTypeOK, Request, Apply, CancelInv, CommitsAreQuoted
  <2>2. seat' = rows /\ booking'.refund = RefundTotal(rows)
    BY <1>1 DEF Apply
  <2> HIDE DEF slab
  <2>3. Rows(rows) /\ \A s \in req[r].target : rows[s].status = "CANCELLED"
    BY <1>t, <2>1, RowsCancelled
  <2> HIDE DEF rows
  <2>4. RefundTotal(rows) # None
    BY <2>3, TotalOfRows
  <2>5. With(Seats, "CANCELLED")' # {}
    BY <2>1, <2>2, <2>3 DEF With
  <2>6. booking'.refund = RefundTotal(seat)'
    BY <2>2 DEF RefundTotal
  <2> QED
    BY <2>2, <2>3, <2>4, <2>5, <2>6 DEF Ledger, Rows
<1>2. ASSUME NEW r \in Requests, ClearNames(r)
      PROVE  Ledger'
  <2>1. seat' = [x \in Seats |-> [seat[x] EXCEPT !.named = FALSE]] /\ booking' = booking
    BY <1>2 DEF ClearNames
  <2>2. \A s \in Seats : /\ seat'[s].status = seat[s].status
                         /\ seat'[s].refund = seat[s].refund
                         /\ seat'[s].slab = seat[s].slab
    BY <1>t, <2>1, RowsWithoutNames
  <2>3. With(Seats, "CANCELLED")' = With(Seats, "CANCELLED")
    BY <2>2 DEF With
  <2>4. RefundTotal(seat)' = RefundTotal(seat)
    <3>1. [s \in Seats |-> IF seat'[s].refund = None THEN 0 ELSE seat'[s].refund]
            = [s \in Seats |-> IF seat[s].refund = None THEN 0 ELSE seat[s].refund]
      BY <2>2
    <3> QED
      BY <3>1 DEF RefundTotal
  <2> QED
    BY <2>1, <2>2, <2>3, <2>4 DEF Ledger
<1>3. ASSUME ~(\E r \in Requests : Apply(r) \/ ClearNames(r))
      PROVE  Ledger'
  <2>1. seat' = seat /\ booking' = booking
    BY <1>3 DEF Next, Arrive, ReadRow, ReadSeats, Decide, SaveQuote, FetchQuote, ReplaceQuote,
                Rewrite, BeginSweep, Scan, Crash, Tick, vars, rowVars
  <2>2. With(Seats, "CANCELLED")' = With(Seats, "CANCELLED")
    BY <2>1 DEF With
  <2>3. RefundTotal(seat)' = RefundTotal(seat)
    BY <2>1 DEF RefundTotal
  <2> QED
    BY <2>1, <2>2, <2>3 DEF Ledger
<1> QED
  BY <1>1, <1>2, <1>3

\* The booking's figure is the sum over the seats that were cancelled.
LEMMA FigureIsTheSum ==
    ASSUME CancelTypeOK, Ledger
    PROVE  BookingRefundIsTheSum
<1> DEFINE gone == With(Seats, "CANCELLED")
           part == [s \in gone |-> SeatRefund(s, seat[s].slab)]
           back == [s \in Seats |-> IF seat[s].status = "CANCELLED"
                                    THEN SeatRefund(s, seat[s].slab) ELSE 0]
<1>1. back \in [Seats -> Int] /\ RefundTotal(seat) = SumFunction(back)
  BY LedgerRows, TotalOfRows
<1>2. /\ gone \in SUBSET Seats
      /\ \A s \in gone : part[s] = back[s]
      /\ \A s \in Seats \ gone : back[s] = 0
      /\ DOMAIN part = gone
  BY DEF With
<1>3. SumFunction(part) = SumFunctionOnSet(part, gone)
  BY <1>2 DEF SumFunction
<1> HIDE DEF gone, part, back
<1>4. SumFunctionOnSet(part, gone) = SumFunction(back)
  BY <1>1, <1>2, SumOverAPart, CancellationAssumption
<1>5. RefundTotal(seat) = SumFunction(part)
  BY <1>1, <1>3, <1>4
<1> QED
  BY <1>5 DEF BookingRefundIsTheSum, Ledger, part, gone

\* What is owed is what the seats were sold for less what was paid back.
LEMMA OwedIsTheRest ==
    ASSUME CancelTypeOK, Ledger
    PROVE  OwedIsTheComplement
<1> DEFINE gone == With(Seats, "CANCELLED")
           sold == [s \in Seats |-> BaseFare[s] + Fee[s]]
           tolls == [s \in Seats |-> IF seat[s].status = "CANCELLED" THEN Toll[s] ELSE 0]
           back == [s \in Seats |-> IF seat[s].status = "CANCELLED"
                                    THEN SeatRefund(s, seat[s].slab) ELSE 0]
           rest == [s \in Seats |-> IF seat[s].status = "CONFIRMED"
                                    THEN BaseFare[s] + Fee[s]
                                    ELSE Retained(s, seat[s].slab)]
           all == [s \in Seats |-> sold[s] + tolls[s]]
           paid == IF booking.refund = None THEN 0 ELSE booking.refund
<1>1. back \in [Seats -> Int] /\ RefundTotal(seat) = SumFunction(back)
  BY LedgerRows, TotalOfRows
<1>2. sold \in [Seats -> Int] /\ tolls \in [Seats -> Int] /\ all \in [Seats -> Int]
  <2>1. \A s \in Seats : BaseFare[s] \in Nat /\ Fee[s] \in Nat /\ Toll[s] \in Nat
    BY CancellationAssumption
  <2> QED
    BY <2>1
<1>3. ASSUME NEW s \in Seats
      PROVE  rest[s] \in Int /\ all[s] = rest[s] + back[s]
  <2>1. BaseFare[s] \in Nat /\ Fee[s] \in Nat /\ Toll[s] \in Nat
    BY CancellationAssumption
  <2>2. CASE seat[s].status = "CONFIRMED"
    BY <2>1, <2>2
  <2>3. CASE seat[s].status = "CANCELLED"
    <3>1. seat[s].slab \in Slabs
      BY <2>3 DEF Ledger
    <3> DEFINE given == SeatRefund(s, seat[s].slab)
               kept == Retained(s, seat[s].slab)
    <3>2. given \in Int /\ kept \in Int /\ kept = BaseFare[s] + Fee[s] + Toll[s] - given
      BY <3>1, SharesAreWhole
    <3>3. /\ all[s] = BaseFare[s] + Fee[s] + Toll[s] /\ rest[s] = kept /\ back[s] = given
      BY <2>3
    <3> HIDE DEF given, kept, all, rest, back
    <3> QED
      BY <2>1, <3>2, <3>3
  <2> QED
    BY <2>2, <2>3 DEF CancelTypeOK, SeatRow
<1>4. rest \in [Seats -> Int]
  BY <1>3
<1>5. /\ gone \in SUBSET Seats
      /\ \A s \in gone : Toll[s] = tolls[s]
      /\ \A s \in Seats \ gone : tolls[s] = 0
  BY DEF With
<1>6. \A s \in Seats : all[s] = sold[s] + tolls[s]
  OBVIOUS
<1>7. paid = SumFunction(back)
  <2>1. CASE booking.refund # None
    BY <1>1, <2>1 DEF Ledger
  <2>2. CASE booking.refund = None
    <3>1. gone = {}
      BY <2>2 DEF Ledger
    <3>2. \A s \in Seats \ {} : back[s] = 0
      BY <3>1 DEF With
    <3> HIDE DEF back
    <3>3. SumFunctionOnSet(back, {}) = SumFunction(back)
      <4>1. {} \in SUBSET Seats /\ \A s \in {} : back[s] = back[s]
        OBVIOUS
      <4> QED
        BY <1>1, <3>2, <4>1, SumOverAPart, CancellationAssumption
    <3>4. SumFunctionOnSet(back, {}) = 0
      BY <1>1, NothingToAdd, CancellationAssumption
    <3> QED
      BY <2>2, <3>3, <3>4
  <2> QED
    BY <2>1, <2>2
<1>8. Owed = SumFunction(sold) + SumFunctionOnSet(Toll, gone) - paid
  BY DEF Owed
<1> HIDE DEF gone, sold, tolls, back, rest, all, paid
<1>f. IsFiniteSet(Seats)
  BY CancellationAssumption
<1>9. SumFunctionOnSet(Toll, gone) = SumFunction(tolls)
  BY <1>2, <1>5, <1>f, SumOverAPart
<1>10. SumFunction(all) = SumFunction(sold) + SumFunction(tolls)
  BY <1>2, <1>6, <1>f, SumOfSums
<1>11. SumFunction(all) = SumFunction(rest) + SumFunction(back)
  BY <1>1, <1>2, <1>3, <1>4, <1>f, SumOfSums
<1>12. /\ SumFunction(sold) \in Int /\ SumFunction(tolls) \in Int
       /\ SumFunction(rest) \in Int /\ SumFunction(back) \in Int
  BY <1>1, <1>2, <1>4, <1>f, SumIsInt
<1>13. Owed = SumFunction(rest)
  BY <1>7, <1>8, <1>9, <1>10, <1>11, <1>12
<1> QED
  BY <1>13 DEF OwedIsTheComplement, rest

\* The money of a booking adds up to the paisa, however many seats it has, in
\* whatever parts and at whatever slabs they are cancelled, and whoever else is
\* cancelling or sweeping (applyCancellation, unattributedBookings).
THEOREM LedgerAlwaysAddsUp == Spec => []LedgerAddsUp
<1>1. Init => CancelInv /\ Ledger
  BY CancelInit, LedgerInit
<1>2. CancelInv /\ Ledger /\ [Next]_vars => (CancelInv /\ Ledger)'
  BY CancelNext, LedgerNext
<1>3. CancelInv /\ Ledger => LedgerAddsUp
  BY FigureIsTheSum, OwedIsTheRest DEF CancelInv, LedgerAddsUp
<1> QED
  BY <1>1, <1>2, <1>3, PTL DEF Spec
=============================================================================
