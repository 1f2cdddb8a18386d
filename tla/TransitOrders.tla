---------------------------- MODULE TransitOrders ----------------------------
(***************************************************************************)
(* Tickets and passes (orders/service.ts, orders/store.ts, settlement.ts,  *)
(* totp.ts and the TRV11 half of app.ts): one process, its state in memory.*)
(* A request is acknowledged at once and answered later by a callback, so  *)
(* requests of one transaction overlap.  search awaits the journey source, *)
(* confirm awaits the encoding of the tickets' codes, and a confirm that   *)
(* finds another under way for its transaction awaits that one; select,    *)
(* init and status are one step each.                                      *)
(*                                                                         *)
(* An order is for one item.  A code is the pair of its secret and its     *)
(* time step: two secrets never give one code here.                        *)
(***************************************************************************)
EXTENDS Integers, FiniteSets

CONSTANTS Requests,       \* the requests there are
          Inputs,         \* what each may carry
          Keys,           \* [operator, bap, txn]: a TransactionIdentity at an operator
          Offers,         \* the single-journey item ids
          PassItems,      \* the pass item ids
          IssuerOf,       \* the operator that sells a pass item
          WindowOf,       \* its window: DAY, WEEKLY or MONTHLY
          PriceOf,        \* its price
          Covered,        \* the pass items that cover the tier of an offer
          Fares,          \* what the journey source may ask for an offer
          Ids,            \* what idFactory may return
          Day, Period,    \* instants in a day, and in a TOTP time step
          WeekDays,       \* days in a week
          Months,         \* the calendar: how many months it has,
          MonthStart,     \* and the day each starts on
          Epoch,          \* the instant it all starts at
          MaxClock,       \* bound on the clock
          None

Items == Offers \cup PassItems
MaxQuantity == 6
TOTP_STEP_DRIFT == 1

\* A confirm may carry a claim that a pass settles the ride: chosen when it
\* runs, among the codes there are.
Input == [kind : {"search", "quote", "confirm", "status"}, key : Keys, item : Items,
          count : Int, paid : BOOLEAN, claims : BOOLEAN]

ASSUME TransitAssumption ==
    /\ \A r \in Requests : Inputs[r] \subseteq Input
    /\ Day \in Nat \ {0} /\ Period \in Nat \ {0} /\ WeekDays \in Nat \ {0}
    /\ MaxClock \in Nat /\ Epoch \in 0..MaxClock
    /\ Offers \cap PassItems = {}
    /\ WindowOf \in [PassItems -> {"DAY", "WEEKLY", "MONTHLY"}] /\ PriceOf \in [PassItems -> Nat]
    /\ Covered \in [Offers -> SUBSET PassItems]
    /\ Fares \subseteq Nat
    /\ None \notin Requests

\* The calendar has no empty month, and knows two months more than the clock
\* reaches: a monthly pass may end in the second.
ASSUME CalendarAssumption ==
    /\ Months \in Nat /\ MonthStart \in [1..Months -> Nat]
    /\ \A m, n \in 1..Months : m < n => MonthStart[m] < MonthStart[n]
    /\ \A d \in 0..(MaxClock \div Day) : \E m \in 1..(Months - 2) :
          MonthStart[m] <= d /\ d < MonthStart[m + 1]

VARIABLES clock,
          catalogues,       \* key -> the fares of the last search, or None
          orders,           \* order id -> order, for the confirmed ones
          passCredentials,  \* the credentials minted
          confirmations,    \* key -> the confirm under way
          req,
          quoted            \* key -> every <<item, fare>> its searches were given

vars == <<clock, catalogues, orders, passCredentials, confirmations, req, quoted>>

NoRequest == [pc |-> "idle", in |-> None, on |-> None, id |-> None, fare |-> 0,
              at |-> 0, claim |-> None, answer |-> "NONE", order |-> None]

Init ==
    /\ clock = Epoch
    /\ catalogues = [k \in Keys |-> None]
    /\ orders = [i \in {} |-> None]
    /\ passCredentials = {}
    /\ confirmations = [k \in Keys |-> None]
    /\ req = [r \in Requests |-> NoRequest]
    /\ quoted = [k \in Keys |-> {}]

OrdersOf(k) == {i \in DOMAIN orders : orders[i].key = k}

\* The callback of request r, which carried i.
Answer(r, i, answer, order) ==
    req' = [req EXCEPT ![r] = [NoRequest EXCEPT !.pc = "done", !.in = i,
                                                !.answer = answer, !.order = order]]

\* A request of action kind that passed validation and was acked with 202: its
\* work starts.  One that was refused with 400 never gets here.
Accepted(r, i, kind) == i.kind = kind /\ req[r].pc = "idle"

Tick ==
    /\ clock < MaxClock /\ clock' = clock + 1
    /\ UNCHANGED <<catalogues, orders, passCredentials, confirmations, req, quoted>>

-----------------------------------------------------------------------------
(* search.                                                                 *)

Search(r, i) ==
    /\ Accepted(r, i, "search")
    /\ req' = [req EXCEPT ![r].pc = "searching", ![r].in = i]
    /\ UNCHANGED <<clock, catalogues, orders, passCredentials, confirmations, quoted>>

\* The offers are back: they replace the catalogue of the transaction, even
\* when a later search was faster.
CacheCatalogue(r) ==
    LET k == req[r].in.key IN
    /\ req[r].pc = "searching"
    /\ \E found \in SUBSET Offers : \E fares \in [found -> Fares] :
          /\ catalogues' = [catalogues EXCEPT ![k] = fares]
          /\ quoted' = [quoted EXCEPT ![k] = @ \cup {<<o, fares[o]>> : o \in found}]
    /\ Answer(r, req[r].in, "OK", None)
    /\ UNCHANGED <<clock, orders, passCredentials, confirmations>>

\* The source fails: the search is logged and never answered.
SearchFails(r) ==
    /\ req[r].pc = "searching"
    /\ Answer(r, req[r].in, "NONE", None)
    /\ UNCHANGED <<clock, catalogues, orders, passCredentials, confirmations, quoted>>

-----------------------------------------------------------------------------
(* baseOrder, select and init.                                             *)

\* A pass comes from a fixed list of its operator's.
PassBaseOrder(i) ==
    IF IssuerOf[i.item] = i.key.operator THEN "OK" ELSE "ITEM-NOT-FOUND"

\* A journey comes from the catalogue its transaction was last given.
TicketBaseOrder(i) ==
    IF catalogues[i.key] = None THEN "CATALOGUE-NOT-FOUND"
    ELSE IF i.item \in DOMAIN catalogues[i.key] THEN "OK" ELSE "ITEM-NOT-FOUND"

BaseOrder(i) ==
    IF i.count \notin 1..MaxQuantity THEN "INVALID-QUANTITY"
    ELSE IF i.item \in PassItems THEN PassBaseOrder(i) ELSE TicketBaseOrder(i)

Fare_AnySearch(i) ==
    IF i.item \in PassItems THEN PriceOf[i.item]
    ELSE CHOOSE f \in Fares : \E k \in Keys : <<i.item, f>> \in quoted[k]

\* The unit price: a pass has one, an offer the one its catalogue gives.
Fare(i) ==
    IF i.item \in PassItems THEN PriceOf[i.item] ELSE catalogues[i.key][i.item]

Quote(r, i) ==
    /\ Accepted(r, i, "quote")
    /\ \/ BaseOrder(i) # "OK" /\ Answer(r, i, BaseOrder(i), None)
       \/ BaseOrder(i) = "OK" /\ Answer(r, i, "OK", [fare |-> Fare(i)])
    /\ UNCHANGED <<clock, catalogues, orders, passCredentials, confirmations, quoted>>

-----------------------------------------------------------------------------
(* Settlement of a ride by a pass.                                         *)

\* istCalendarDay and daysInMonth: days are counted on, months in order.
MonthOf(d) == CHOOSE m \in 1..(Months - 2) : MonthStart[m] <= d /\ d < MonthStart[m + 1]
DayOf(d) == d - MonthStart[MonthOf(d)] + 1
DaysInMonth(m) == MonthStart[m + 1] - MonthStart[m]

MonthEnd_Spills(d) == MonthStart[MonthOf(d) + 1] + DayOf(d) - 1

\* The same day of the next month, or the first of the month after a next one
\* that has no such day.
MonthEnd(d) ==
    LET target == MonthOf(d) + 1 IN
    IF DayOf(d) <= DaysInMonth(target) THEN MonthStart[target] + DayOf(d) - 1
    ELSE MonthStart[target + 1]

\* passValidityWindow: from the midnight before the sale, to one excluded.
ValidFrom(at) == (at \div Day) * Day
EndDay(d, window) ==
    CASE window = "DAY" -> d + 1
      [] window = "WEEKLY" -> d + WeekDays
      [] window = "MONTHLY" -> MonthEnd(d)
ValidTo(at, item) == EndDay(at \div Day, WindowOf[item]) * Day

Held_ByAnyApp(k, order) ==
    {c \in passCredentials : c.operator = k.operator /\ c.order = order}

\* findPassCredentials: of this operator and this buyer app.
Held(k, order) ==
    {c \in passCredentials : c.operator = k.operator /\ c.bap = k.bap /\ c.order = order}

\* verifyTotpCode
Verifies(c, claim, at) ==
    /\ claim.secret = c.secret
    /\ claim.step \in (at \div Period) - TOTP_STEP_DRIFT .. (at \div Period) + TOTP_STEP_DRIFT

InWindow(c, at) == c.from <= at /\ at < c.to

\* assertPassSettlement, in its order.
AssertPassSettlement(i, claim, at) ==
    LET held == Held(i.key, claim.order)
        covering == {c \in held : c.item \in Covered[i.item]}
        inWindow == {c \in covering : InWindow(c, at)} IN
    CASE held = {} -> "PASS-ORDER-NOT-FOUND"
      [] held # {} /\ covering = {} -> "PASS-SCOPE-MISMATCH"
      [] covering # {} /\ inWindow = {} -> "PASS-WINDOW-EXPIRED"
      [] OTHER -> IF \E c \in inWindow : Verifies(c, claim, at) THEN "OK"
                  ELSE "PASS-CODE-INVALID"

\* checkPassSettlement: a pass is never settled by a pass.
Settlement(i, claim, at) ==
    IF claim = None THEN "OK"
    ELSE IF i.item \in PassItems THEN "PASS-SETTLEMENT-INVALID"
    ELSE AssertPassSettlement(i, claim, at)

OrderIds == {k.operator : k \in Keys} \X Ids

\* The claims somebody may present: any pass order's id, or no order's, with a
\* code of any secret, or of none, for any step so far and the next.
Presented ==
    {[order |-> None, secret |-> None, step |-> 0]} \cup
    [order : {c.order : c \in passCredentials}, secret : {c.secret : c \in passCredentials},
     step : 0..(clock \div Period) + 1]

-----------------------------------------------------------------------------
(* confirm.                                                                *)

Join_Never(k) == FALSE
\* Another confirm of this transaction is under way at this operator.
Join(k) == confirmations[k] # None

\* Up to the first await.
Confirm(r, i) ==
    /\ Accepted(r, i, "confirm")
    /\ \/ /\ ~i.paid
          /\ Answer(r, i, "INVALID-PAYMENT-STATUS", None)
          /\ UNCHANGED confirmations
       \/ /\ i.paid
          /\ \E o \in OrdersOf(i.key) : Answer(r, i, "OK", orders[o])
          /\ UNCHANGED confirmations
       \/ /\ i.paid /\ OrdersOf(i.key) = {} /\ Join(i.key)
          /\ req' = [req EXCEPT ![r].pc = "await", ![r].in = i,
                                ![r].on = confirmations[i.key]]
          /\ UNCHANGED confirmations
       \/ /\ i.paid /\ OrdersOf(i.key) = {} /\ ~Join(i.key)
          /\ BaseOrder(i) # "OK"
          /\ Answer(r, i, BaseOrder(i), None)
          /\ UNCHANGED confirmations
       \/ /\ i.paid /\ OrdersOf(i.key) = {} /\ ~Join(i.key)
          /\ BaseOrder(i) = "OK"
          /\ \E claim \in IF i.claims THEN Presented ELSE {None} :
                \/ /\ Settlement(i, claim, clock) # "OK"
                   /\ Answer(r, i, Settlement(i, claim, clock), None)
                   /\ UNCHANGED confirmations
                \/ /\ Settlement(i, claim, clock) = "OK"
                   /\ \E id \in Ids :
                         req' = [req EXCEPT ![r] =
                                    [NoRequest EXCEPT !.pc = "encoding", !.in = i,
                                        !.id = <<i.key.operator, id>>, !.fare = Fare(i),
                                        !.at = clock, !.claim = claim]]
                   /\ confirmations' = [confirmations EXCEPT ![i.key] = r]
    /\ UNCHANGED <<clock, catalogues, orders, passCredentials, quoted>>

\* mintPassCredential, once for each unit of the quantity.
Minted(id, i, at) ==
    IF i.item \notin PassItems THEN {}
    ELSE {[operator |-> i.key.operator, bap |-> i.key.bap, order |-> id, item |-> i.item,
           from |-> ValidFrom(at), to |-> ValidTo(at, i.item), secret |-> <<id, n>>]
            : n \in 1..i.count}

Taken_Never(id) == FALSE
Taken(id) == id \in DOMAIN orders

\* save and savePassCredentials, without an await between them, and the
\* confirm leaves the map.
Save(r) ==
    LET i == req[r].in
        id == req[r].id
        order == [id |-> id, key |-> i.key, item |-> i.item, count |-> i.count,
                  fare |-> req[r].fare, at |-> req[r].at, claim |-> req[r].claim] IN
    /\ req[r].pc = "encoding"
    /\ confirmations' = [confirmations EXCEPT ![i.key] = IF @ = r THEN None ELSE @]
    /\ \/ /\ Taken(id)
          /\ Answer(r, i, "ORDER-ID-COLLISION", None)
          /\ UNCHANGED <<orders, passCredentials>>
       \/ /\ ~Taken(id) /\ OrdersOf(i.key) # {}
          /\ Answer(r, i, "ORDER-ALREADY-CONFIRMED", None)
          /\ UNCHANGED <<orders, passCredentials>>
       \/ /\ ~Taken(id) /\ OrdersOf(i.key) = {}
          /\ orders' = [o \in DOMAIN orders \cup {id} |-> IF o = id THEN order ELSE orders[o]]
          /\ passCredentials' = passCredentials \cup Minted(id, i, req[r].at)
          /\ Answer(r, i, "OK", order)
    /\ UNCHANGED <<clock, catalogues, quoted>>

\* The encoder rejects, for this confirm and those that joined it.
EncodingFails(r) ==
    LET k == req[r].in.key IN
    /\ req[r].pc = "encoding"
    /\ confirmations' = [confirmations EXCEPT ![k] = IF @ = r THEN None ELSE @]
    /\ Answer(r, req[r].in, "INTERNAL-ERROR", None)
    /\ UNCHANGED <<clock, catalogues, orders, passCredentials, quoted>>

Await_Order(r) ==
    /\ req[r].pc = "await"
    /\ \E o \in OrdersOf(req[r].in.key) : Answer(r, req[r].in, "OK", orders[o])
    /\ UNCHANGED <<clock, catalogues, orders, passCredentials, confirmations, quoted>>

\* The confirm it joined settled: its outcome is this one's.
Await(r) ==
    /\ req[r].pc = "await"
    /\ req[req[r].on].pc = "done"
    /\ Answer(r, req[r].in, req[req[r].on].answer, req[req[r].on].order)
    /\ UNCHANGED <<clock, catalogues, orders, passCredentials, confirmations, quoted>>

-----------------------------------------------------------------------------
(* status.                                                                 *)

Visible_ByOrderId(id, k) == id \in DOMAIN orders
\* get: the order's operator and whole identity have to be the request's.
Visible(id, k) == id \in DOMAIN orders /\ orders[id].key = k

Status(r, i) ==
    /\ Accepted(r, i, "status")
    /\ \E id \in OrderIds :
          \/ Visible(id, i.key) /\ Answer(r, i, "OK", orders[id])
          \/ ~Visible(id, i.key) /\ Answer(r, i, "ORDER-NOT-FOUND", None)
    /\ UNCHANGED <<clock, catalogues, orders, passCredentials, confirmations, quoted>>

-----------------------------------------------------------------------------

Step(r) == CacheCatalogue(r) \/ SearchFails(r) \/ Save(r) \/ EncodingFails(r) \/ Await(r)

Next ==
    \/ Tick
    \/ \E r \in Requests : Step(r)
    \/ \E r \in Requests : \E i \in Inputs[r] :
          Search(r, i) \/ Quote(r, i) \/ Confirm(r, i) \/ Status(r, i)

Spec == Init /\ [][Next]_vars

\* The source and the encoder settle, and what awaits them runs.
FairSpec == Spec /\ \A r \in Requests : WF_vars(Step(r))

-----------------------------------------------------------------------------
(* Properties.                                                             *)

\* The store never has to refuse a confirm because its transaction has an order
\* already: overlapping confirms are joined (confirm, save).
NoLateRefusal == \A r \in Requests : req[r].answer # "ORDER-ALREADY-CONFIRMED"

\* Every confirm and status of a transaction that names an order names the same
\* one, with the same contents: one payment, one order (confirm's two lookups).
OneOrderPerTransaction ==
    \A r, s \in Requests :
        /\ req[r].answer = "OK" /\ req[r].in.kind \in {"confirm", "status"}
        /\ req[s].answer = "OK" /\ req[s].in.kind \in {"confirm", "status"}
        /\ req[r].in.key = req[s].in.key
        => req[r].order = req[s].order

\* A confirmed order is never changed or dropped, whatever ids are drawn
\* (save's check of the id).
OrdersAreFinal ==
    [][\A i \in DOMAIN orders : i \in DOMAIN orders' /\ orders'[i] = orders[i]]_vars

\* A ticket costs what the source asked for it in a search of its own
\* transaction, across searches that overlap it and each other.
FareWasQuotedHere ==
    \A i \in DOMAIN orders :
        orders[i].item \in Offers =>
            <<orders[i].item, orders[i].fare>> \in quoted[orders[i].key]

\* The days e a pass of day d is good for: a day, a week, or the rest of the
\* month and the days before its own in the next one (passValidityWindow's
\* comment: all of it when it is too short to have that day).
Covers(window, d, e) ==
    /\ d <= e
    /\ CASE window = "DAY" -> e = d
         [] window = "WEEKLY" -> e - d < WeekDays
         [] window = "MONTHLY" -> \/ MonthOf(e) = MonthOf(d)
                                  \/ MonthOf(e) = MonthOf(d) + 1 /\ DayOf(e) < DayOf(d)

\* A ride settled by a pass has behind it a pass that this operator sold to the
\* same buyer app, on an earlier or the same instant, covering the ride, good
\* for its day, and a code of that pass no more than a step away.
SettledByAValidPass ==
    \A i \in DOMAIN orders :
        LET o == orders[i] IN
        o.claim # None =>
            \E j \in DOMAIN orders :
                LET p == orders[j] IN
                /\ p.id = o.claim.order /\ p.item \in Covered[o.item]
                /\ p.key.operator = o.key.operator /\ p.key.bap = o.key.bap
                /\ p.at <= o.at
                /\ Covers(WindowOf[p.item], p.at \div Day, o.at \div Day)
                /\ o.claim.secret[1] = p.id
                /\ o.claim.step * Period - o.at \in -2 * Period + 1 .. 2 * Period - 1

\* Every request is answered or given up: a joined confirm does not wait for
\* one that is gone.
EveryRequestEnds == \A r \in Requests : (req[r].pc # "idle") ~> (req[r].pc = "done")
=============================================================================
