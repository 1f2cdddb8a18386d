------------------------- MODULE TransitOrdersProofs -------------------------
(***************************************************************************)
(* Theorems about TransitOrders, for any requests, operators, buyer apps,  *)
(* offers and passes, any calendar and however far the clock runs.         *)
(*                                                                         *)
(* A transaction that is being confirmed is in the map of confirmations    *)
(* under the one request that does it, and has no order yet.  Whoever is   *)
(* told of an order is told of the one its transaction has.                *)
(***************************************************************************)
EXTENDS TransitOrders, TLAPS

Claim == [order : OrderIds \cup {None}, secret : (OrderIds \X Nat) \cup {None}, step : Int]
Order == [id : OrderIds, key : Keys, item : Items, count : Int, fare : Nat, at : Nat,
          claim : Claim \cup {None}]
Document == Order \cup [fare : Nat] \cup {None}
Pass == [operator : {k.operator : k \in Keys}, bap : {k.bap : k \in Keys}, order : OrderIds,
         item : PassItems, from : Nat, to : Nat, secret : OrderIds \X Nat]
\* Everything a request may be told: not ORDER-ALREADY-CONFIRMED.
Answers == {"NONE", "OK", "INVALID-QUANTITY", "ITEM-NOT-FOUND", "CATALOGUE-NOT-FOUND",
            "INVALID-PAYMENT-STATUS", "PASS-SETTLEMENT-INVALID", "PASS-ORDER-NOT-FOUND",
            "PASS-SCOPE-MISMATCH", "PASS-WINDOW-EXPIRED", "PASS-CODE-INVALID",
            "ORDER-ID-COLLISION", "INTERNAL-ERROR", "ORDER-NOT-FOUND"}
Request == [pc : {"idle", "searching", "await", "encoding", "done"}, in : Input \cup {None},
            on : Requests \cup {None}, id : OrderIds \cup {None}, fare : Nat, at : Nat,
            claim : Claim \cup {None}, answer : Answers, order : Document]

TransitTypeOK ==
    /\ clock \in 0..MaxClock /\ clock \in Nat
    /\ \A k \in Keys : catalogues[k] = None \/ \E S \in SUBSET Offers : catalogues[k] \in [S -> Fares]
    /\ \A i \in DOMAIN orders : i \in OrderIds /\ orders[i] \in Order
    /\ passCredentials \subseteq Pass
    /\ DOMAIN catalogues = Keys
    /\ confirmations \in [Keys -> Requests \cup {None}]
    /\ req \in [Requests -> Request]
    /\ quoted \in [Keys -> SUBSET (Offers \X Nat)]

\* What a catalogue says is what some search of its transaction was given.
Priced ==
    \A k \in Keys : catalogues[k] # None =>
        \A o \in DOMAIN catalogues[k] : <<o, catalogues[k][o]>> \in quoted[k]

\* Order p is the pass behind a ride.
Backs(p, key, item, claim, at) ==
    /\ p.id = claim.order /\ p.item \in Covered[item]
    /\ p.key.operator = key.operator /\ p.key.bap = key.bap
    /\ p.at <= at /\ Covers(WindowOf[p.item], p.at \div Day, at \div Day)
    /\ claim.secret[1] = p.id
    /\ claim.step * Period - at \in -2 * Period + 1 .. 2 * Period - 1
Backed(key, item, claim, at) ==
    claim # None => \E j \in DOMAIN orders : Backs(orders[j], key, item, claim, at)

\* What holds of an order, and of a confirm on its way to be one.
Sound(o) ==
    /\ o.at <= clock
    /\ o.item \in Offers => <<o.item, o.fare>> \in quoted[o.key]
    /\ Backed(o.key, o.item, o.claim, o.at)
ToBe(r) ==
    [key |-> req[r].in.key, item |-> req[r].in.item, fare |-> req[r].fare, at |-> req[r].at,
     claim |-> req[r].claim]

\* The orders are sound, under their own ids, and one a transaction.
OneOrderEach ==
    /\ \A i \in DOMAIN orders : orders[i].id = i /\ Sound(orders[i])
    /\ \A i, j \in DOMAIN orders : orders[i].key = orders[j].key => i = j

\* Every credential was minted for an order.
MintedFor(c, o) ==
    /\ o.id = c.order /\ o.item = c.item
    /\ o.key.operator = c.operator /\ o.key.bap = c.bap
    /\ c.from = ValidFrom(o.at) /\ c.to = ValidTo(o.at, c.item)
    /\ c.secret[1] = c.order
Passes == \A c \in passCredentials : \E i \in DOMAIN orders : MintedFor(c, orders[i])

\* Who is told of an order is told of the one its transaction has.
Told(r) ==
    /\ req[r].pc # "done" => req[r].answer = "NONE"
    /\ req[r].pc # "idle" => req[r].in \in Input
    /\ req[r].answer = "OK" /\ req[r].in.kind \in {"confirm", "status"} =>
          \E i \in DOMAIN orders : orders[i].key = req[r].in.key /\ req[r].order = orders[i]

\* A confirm that encodes is the one of its transaction, which has no order.
Encodes(r) ==
    req[r].pc = "encoding" =>
        /\ req[r].in.kind = "confirm"
        /\ confirmations[req[r].in.key] = r /\ OrdersOf(req[r].in.key) = {}
        /\ req[r].id \in OrderIds
        /\ Sound(ToBe(r))

\* A confirm that waits does so for one of its own transaction.
Waits(r) ==
    /\ req[r].pc = "searching" => req[r].in.kind = "search"
    /\ req[r].pc = "await" =>
          /\ req[r].in.kind = "confirm" /\ req[r].on \in Requests
          /\ req[req[r].on].pc \in {"encoding", "done"}
          /\ req[req[r].on].in.kind = "confirm"
          /\ req[req[r].on].in.key = req[r].in.key

\* The map names confirms that encode.
InTheMap ==
    \A k \in Keys : confirmations[k] # None =>
        /\ req[confirmations[k]].pc = "encoding"
        /\ req[confirmations[k]].in.key = k

TransitInv ==
    /\ TransitTypeOK /\ Priced /\ OneOrderEach /\ Passes /\ InTheMap
    /\ \A r \in Requests : Told(r) /\ Encodes(r) /\ Waits(r)

-----------------------------------------------------------------------------

\* A request that has not arrived is a request.
LEMMA NoRequestTyped == NoRequest \in Request
<1>1. None \in Document
  BY DEF Document
<1>2. "NONE" \in Answers
  BY DEF Answers
<1> QED
  BY <1>1, <1>2 DEF NoRequest, Request

\* Nothing has happened yet.
LEMMA InitInv == Init => TransitInv
<1> SUFFICES ASSUME Init PROVE TransitInv
  OBVIOUS
<1>1. TransitTypeOK
  BY TransitAssumption, NoRequestTyped DEF Init, TransitTypeOK
<1>2. Priced /\ OneOrderEach /\ Passes /\ InTheMap
  BY DEF Init, Priced, OneOrderEach, Passes, InTheMap
<1>3. \A r \in Requests : Told(r) /\ Encodes(r) /\ Waits(r)
  BY DEF Init, NoRequest, Told, Encodes, Waits
<1> QED
  BY <1>1, <1>2, <1>3 DEF TransitInv

\* A callback changes the request it belongs to and no other.
LEMMA AnswerIs ==
    ASSUME TransitTypeOK, NEW r \in Requests, NEW i \in Input, NEW answer \in Answers,
           NEW order \in Document, Answer(r, i, answer, order)
    PROVE  /\ req' \in [Requests -> Request]
           /\ req'[r].pc = "done" /\ req'[r].in = i
           /\ req'[r].answer = answer /\ req'[r].order = order
           /\ \A q \in Requests : q # r => req'[q] = req[q]
<1>1. [NoRequest EXCEPT !.pc = "done", !.in = i, !.answer = answer, !.order = order] \in Request
  BY NoRequestTyped DEF NoRequest, Request
<1> QED
  BY <1>1 DEF TransitTypeOK, Answer, NoRequest

\* Sound orders stay sound: the clock moves on, quotes and orders are kept.
LEMMA StaysSound ==
    ASSUME TransitInv, clock <= clock', UNCHANGED <<orders, passCredentials>>, clock' \in Nat,
           \A k \in Keys : quoted[k] \subseteq quoted'[k]
    PROVE  OneOrderEach' /\ Passes'
<1>1. \A i \in DOMAIN orders : orders[i].key \in Keys /\ orders[i].at \in Nat
  BY DEF TransitInv, TransitTypeOK, Order
<1>2. clock \in Nat
  BY DEF TransitInv, TransitTypeOK
<1>3. \A i \in DOMAIN orders : Sound(orders[i])'
  BY <1>1, <1>2 DEF TransitInv, OneOrderEach, Sound, Backed
<1> QED
  BY <1>3 DEF TransitInv, OneOrderEach, Passes

\* So does a confirm that is left alone.
LEMMA StaysSoundToBe ==
    ASSUME TransitInv, clock <= clock', UNCHANGED orders, clock' \in Nat,
           \A k \in Keys : quoted[k] \subseteq quoted'[k],
           NEW r \in Requests, req'[r] = req[r], req[r].pc = "encoding"
    PROVE  Sound(ToBe(r))'
<1>1. req[r].in \in Input /\ req[r].at \in Nat /\ clock \in Nat
  BY DEF TransitInv, TransitTypeOK, Request, Told
<1>2. req[r].in.key \in Keys
  BY <1>1 DEF Input
<1>3. Sound(ToBe(r)) /\ ToBe(r)' = ToBe(r)
  BY DEF TransitInv, Encodes, ToBe
<1>4. /\ ToBe(r).key = req[r].in.key /\ ToBe(r).item = req[r].in.item
      /\ ToBe(r).fare = req[r].fare /\ ToBe(r).at = req[r].at /\ ToBe(r).claim = req[r].claim
  BY DEF ToBe
<1> QED
  BY <1>1, <1>2, <1>3, <1>4 DEF Sound, Backed

\* A request is answered, and the confirm under way leaves the map.
LEMMA AnswerInv ==
    ASSUME TransitInv, NEW r \in Requests, NEW i \in Input, NEW answer \in Answers,
           NEW order \in Document, Answer(r, i, answer, order),
           req[r].pc # "done",
           answer = "OK" /\ i.kind \in {"confirm", "status"} =>
               \E o \in DOMAIN orders : orders[o].key = i.key /\ order = orders[o],
           req[r].pc = "encoding" => i = req[r].in,
           confirmations' = IF req[r].pc = "encoding"
                            THEN [confirmations EXCEPT ![i.key] = IF @ = r THEN None ELSE @]
                            ELSE confirmations,
           UNCHANGED <<clock, orders, passCredentials>>,
           TransitTypeOK', Priced', \A k \in Keys : quoted[k] \subseteq quoted'[k]
    PROVE  TransitInv'
<1>1. /\ req'[r].pc = "done" /\ req'[r].in = i
      /\ req'[r].answer = answer /\ req'[r].order = order
      /\ \A q \in Requests : q # r => req'[q] = req[q]
  BY AnswerIs DEF TransitInv
<1>2. clock <= clock' /\ clock' \in Nat
  BY DEF TransitInv, TransitTypeOK
<1>3. OneOrderEach' /\ Passes'
  BY <1>2, StaysSound
<1>4. confirmations \in [Keys -> Requests \cup {None}] /\ i.key \in Keys
  BY DEF TransitInv, TransitTypeOK, Input
<1>5. InTheMap'
  <2> SUFFICES ASSUME NEW k \in Keys, confirmations'[k] # None
               PROVE  /\ req'[confirmations'[k]].pc = "encoding"
                      /\ req'[confirmations'[k]].in.key = k
    BY DEF InTheMap
  <2>1. confirmations'[k] = confirmations[k]
    BY <1>4
  <2>2. /\ confirmations[k] \in Requests
        /\ req[confirmations[k]].pc = "encoding" /\ req[confirmations[k]].in.key = k
    BY <1>4, <2>1 DEF TransitInv, InTheMap
  <2>3. confirmations[k] # r
    BY <1>4, <2>1, <2>2, TransitAssumption
  <2> QED
    BY <1>1, <2>1, <2>2, <2>3
<1>6. \A q \in Requests : Told(q)'
  BY <1>1 DEF TransitInv, Told
<1>7. ASSUME NEW q \in Requests PROVE Encodes(q)'
  <2> SUFFICES ASSUME req'[q].pc = "encoding"
               PROVE  /\ req'[q].in.kind = "confirm"
                      /\ confirmations'[req'[q].in.key] = q
                      /\ OrdersOf(req[q].in.key)' = {}
                      /\ req'[q].id \in OrderIds
                      /\ Sound(ToBe(q))'
    BY DEF Encodes
  <2>1. q # r /\ req'[q] = req[q]
    BY <1>1
  <2>2. Encodes(q) /\ req[q].pc = "encoding"
    BY <2>1 DEF TransitInv
  <2>3. Sound(ToBe(q))'
    BY <1>2, <2>1, <2>2, StaysSoundToBe
  <2>4. confirmations[req[q].in.key] = q /\ req[q].in.key \in Keys
    BY <2>2 DEF Encodes, TransitInv, Told, Input
  <2>5. confirmations'[req[q].in.key] = q
    BY <1>4, <2>1, <2>4
  <2> QED
    BY <2>1, <2>2, <2>3, <2>5 DEF Encodes, OrdersOf
<1>8. ASSUME NEW q \in Requests PROVE Waits(q)'
  <2>1. Waits(q) /\ (req[r].pc = "encoding" => req[r].in = i)
    BY DEF TransitInv
  <2> QED
    BY <1>1, <2>1 DEF Waits
<1> QED
  BY <1>3, <1>5, <1>6, <1>7, <1>8 DEF TransitInv

\* A request starts to wait, and nothing else happens.
LEMMA WaitInv ==
    ASSUME TransitInv, NEW r \in Requests, NEW i \in Input, NEW pc \in {"searching", "await"},
           NEW on \in Requests \cup {None}, req[r].pc = "idle",
           req' = [req EXCEPT ![r] = [req[r] EXCEPT !.pc = pc, !.in = i, !.on = on]],
           pc = "searching" => i.kind = "search",
           pc = "await" => /\ i.kind = "confirm" /\ on \in Requests
                           /\ req[on].pc \in {"encoding", "done"}
                           /\ req[on].in.kind = "confirm" /\ req[on].in.key = i.key,
           UNCHANGED <<clock, catalogues, orders, passCredentials, confirmations, quoted>>
    PROVE  TransitInv'
<1>1. req \in [Requests -> Request]
  BY DEF TransitInv, TransitTypeOK
<1>2. [req[r] EXCEPT !.pc = pc, !.in = i, !.on = on] \in Request
  BY <1>1 DEF Request
<1>3. TransitTypeOK'
  BY <1>1, <1>2 DEF TransitInv, TransitTypeOK
<1>4. /\ req'[r].pc = pc /\ req'[r].in = i /\ req'[r].on = on
      /\ req'[r].answer = req[r].answer
      /\ \A q \in Requests : q # r => req'[q] = req[q]
  BY <1>1 DEF Request
<1>5. clock <= clock' /\ clock' \in Nat
  BY DEF TransitInv, TransitTypeOK
<1>6. OneOrderEach' /\ Passes'
  BY <1>5, StaysSound
<1>7. Priced' /\ InTheMap'
  <2>1. \A k \in Keys : confirmations[k] # None =>
            confirmations[k] \in Requests /\ confirmations[k] # r
    BY DEF TransitInv, TransitTypeOK, InTheMap
  <2> QED
    BY <1>4, <2>1 DEF TransitInv, Priced, InTheMap
<1>8. \A q \in Requests : Told(q)' /\ Waits(q)'
  BY <1>4 DEF TransitInv, Told, Waits
<1>9. ASSUME NEW q \in Requests PROVE Encodes(q)'
  <2>1. CASE q = r
    BY <1>4, <2>1 DEF Encodes
  <2>2. CASE q # r /\ req[q].pc = "encoding"
    BY <1>4, <1>5, <2>2, StaysSoundToBe DEF TransitInv, Encodes, OrdersOf
  <2>3. CASE q # r /\ req[q].pc # "encoding"
    BY <1>4, <2>3 DEF Encodes
  <2> QED
    BY <2>1, <2>2, <2>3
<1> QED
  BY <1>3, <1>6, <1>7, <1>8, <1>9 DEF TransitInv

-----------------------------------------------------------------------------

\* Time passing, or nothing happening, keeps the invariant.
LEMMA ClockInv ==
    ASSUME TransitInv, clock' \in {clock, clock + 1}, clock' \in 0..MaxClock,
           UNCHANGED <<catalogues, orders, passCredentials, confirmations, req, quoted>>
    PROVE  TransitInv'
<1>1. clock <= clock' /\ clock' \in Nat
  BY DEF TransitInv, TransitTypeOK
<1>2. TransitTypeOK'
  BY <1>1 DEF TransitInv, TransitTypeOK
<1>3. OneOrderEach' /\ Passes'
  BY <1>1, StaysSound
<1>4. Priced' /\ InTheMap'
  BY DEF TransitInv, Priced, InTheMap
<1>5. \A q \in Requests : Told(q)' /\ Waits(q)'
  BY DEF TransitInv, Told, Waits
<1>6. ASSUME NEW q \in Requests PROVE Encodes(q)'
  <2>1. CASE req[q].pc = "encoding"
    BY <1>1, <2>1, StaysSoundToBe DEF TransitInv, Encodes, OrdersOf
  <2>2. CASE req[q].pc # "encoding"
    BY <2>2 DEF Encodes
  <2> QED
    BY <2>1, <2>2
<1> QED
  BY <1>2, <1>3, <1>4, <1>5, <1>6 DEF TransitInv

\* search up to its first await keeps the invariant.
LEMMA SearchInv ==
    ASSUME TransitInv, NEW r \in Requests, NEW i \in Input, Search(r, i) PROVE TransitInv'
<1>1. req \in [Requests -> Request]
  BY DEF TransitInv, TransitTypeOK
<1>2. req[r].on \in Requests \cup {None}
  BY <1>1 DEF Request
<1>3. req' = [req EXCEPT ![r] = [req[r] EXCEPT !.pc = "searching", !.in = i, !.on = req[r].on]]
  BY <1>1 DEF Search, Request
<1> QED
  BY <1>2, <1>3, WaitInv DEF Search, Accepted

\* So does a search whose source refuses.
LEMMA SearchFailsInv ==
    ASSUME TransitInv, NEW r \in Requests, SearchFails(r) PROVE TransitInv'
<1>1. req[r].in \in Input /\ req[r].pc = "searching" /\ req[r].in.kind = "search"
  BY DEF SearchFails, TransitInv, Told, Waits
<1>2. "NONE" \in Answers /\ None \in Document
  BY DEF Answers, Document
<1>3. TransitTypeOK' /\ Priced'
  BY <1>1, <1>2, AnswerIs DEF SearchFails, TransitInv, TransitTypeOK, Priced
<1> QED
  BY <1>1, <1>2, <1>3, AnswerInv DEF SearchFails

\* So does the catalogue a search caches for its transaction.
LEMMA CacheCatalogueInv ==
    ASSUME TransitInv, NEW r \in Requests, CacheCatalogue(r) PROVE TransitInv'
<1> DEFINE k == req[r].in.key
<1>1. req[r].in \in Input /\ req[r].pc = "searching" /\ req[r].in.kind = "search"
  BY DEF CacheCatalogue, TransitInv, Told, Waits
<1>2. k \in Keys
  BY <1>1 DEF Input
<1>3. PICK found \in SUBSET Offers : \E fares \in [found -> Fares] :
        /\ catalogues' = [catalogues EXCEPT ![k] = fares]
        /\ quoted' = [quoted EXCEPT ![k] = @ \cup {<<o, fares[o]>> : o \in found}]
  BY DEF CacheCatalogue
<1>4. PICK fares \in [found -> Fares] :
        /\ catalogues' = [catalogues EXCEPT ![k] = fares]
        /\ quoted' = [quoted EXCEPT ![k] = @ \cup {<<o, fares[o]>> : o \in found}]
  BY <1>3
<1>5. DOMAIN catalogues = Keys /\ quoted \in [Keys -> SUBSET (Offers \X Nat)]
  BY DEF TransitInv, TransitTypeOK
<1>6. /\ catalogues'[k] = fares /\ quoted'[k] = quoted[k] \cup {<<o, fares[o]>> : o \in found}
      /\ \A j \in Keys \ {k} : catalogues'[j] = catalogues[j] /\ quoted'[j] = quoted[j]
      /\ DOMAIN catalogues' = Keys
  BY <1>2, <1>4, <1>5
<1>7. {<<o, fares[o]>> : o \in found} \subseteq Offers \X Nat
  <2>1. \A o \in found : o \in Offers /\ fares[o] \in Nat
    BY TransitAssumption
  <2> QED
    BY <2>1
<1>8. quoted' \in [Keys -> SUBSET (Offers \X Nat)]
  BY <1>2, <1>4, <1>5, <1>7
<1>9. \A j \in Keys : quoted[j] \subseteq quoted'[j]
  BY <1>6
<1>10. "OK" \in Answers /\ None \in Document
  BY DEF Answers, Document
<1>11. TransitTypeOK'
  <2>1. \A j \in Keys : catalogues'[j] = None \/ \E S \in SUBSET Offers : catalogues'[j] \in [S -> Fares]
    BY <1>6 DEF TransitInv, TransitTypeOK
  <2>2. req' \in [Requests -> Request]
    BY <1>1, <1>10, AnswerIs DEF CacheCatalogue, TransitInv
  <2> QED
    BY <1>6, <1>8, <2>1, <2>2 DEF CacheCatalogue, TransitInv, TransitTypeOK
<1>12. Priced'
  <2>1. \A o \in found : <<o, fares[o]>> \in quoted'[k]
    BY <1>6
  <2> QED
    BY <1>6, <2>1 DEF TransitInv, Priced
<1> QED
  BY <1>1, <1>9, <1>10, <1>11, <1>12, AnswerInv DEF CacheCatalogue


\* What baseOrder accepts has an item, a fare and a quantity of the catalogue.
LEMMA BaseOrderIs ==
    ASSUME TransitInv, NEW i \in Input
    PROVE  /\ BaseOrder(i) \in Answers
           /\ BaseOrder(i) = "OK" =>
                /\ Fare(i) \in Nat
                /\ i.item \in Offers => <<i.item, Fare(i)>> \in quoted[i.key]
<1>1. BaseOrder(i) \in Answers
  BY DEF BaseOrder, PassBaseOrder, TicketBaseOrder, Answers
<1>2. i.item \in Items /\ i.key \in Keys
  BY DEF Input
<1>3. CASE i.item \in PassItems
  BY <1>1, <1>3, TransitAssumption DEF Fare
<1>4. CASE i.item \notin PassItems /\ BaseOrder(i) = "OK"
  <2>1. catalogues[i.key] # None /\ i.item \in DOMAIN catalogues[i.key]
    BY <1>4 DEF BaseOrder, TicketBaseOrder
  <2>2. PICK S \in SUBSET Offers : catalogues[i.key] \in [S -> Fares]
    BY <1>2, <2>1 DEF TransitInv, TransitTypeOK
  <2>3. Fare(i) = catalogues[i.key][i.item] /\ Fare(i) \in Nat
    BY <1>4, <2>1, <2>2, TransitAssumption DEF Fare
  <2>4. <<i.item, Fare(i)>> \in quoted[i.key]
    BY <1>2, <2>1, <2>3 DEF TransitInv, Priced
  <2> QED
    BY <1>1, <2>3, <2>4
<1> QED
  BY <1>1, <1>3, <1>4

\* select and init answer without writing anything.
LEMMA QuoteInv ==
    ASSUME TransitInv, NEW r \in Requests, NEW i \in Input, Quote(r, i) PROVE TransitInv'
<1>1. PICK answer \in Answers, order \in Document : Answer(r, i, answer, order)
  <2>1. "OK" \in Answers /\ None \in Document
    BY DEF Answers, Document
  <2>2. BaseOrder(i) = "OK" => [fare |-> Fare(i)] \in Document
    BY BaseOrderIs DEF Document
  <2> QED
    BY <2>1, <2>2, BaseOrderIs DEF Quote
<1>2. TransitTypeOK' /\ Priced'
  BY <1>1, AnswerIs DEF Quote, TransitInv, TransitTypeOK, Priced
<1>3. i.kind = "quote" /\ req[r].pc = "idle"
  BY DEF Quote, Accepted
<1> QED
  BY <1>1, <1>2, <1>3, AnswerInv DEF Quote

\* status answers with the order the store has.
LEMMA StatusInv ==
    ASSUME TransitInv, NEW r \in Requests, NEW i \in Input, Status(r, i) PROVE TransitInv'
<1>1. PICK answer \in Answers, order \in Document :
        /\ Answer(r, i, answer, order)
        /\ answer = "OK" => \E o \in DOMAIN orders : orders[o].key = i.key /\ order = orders[o]
  <2>1. {"OK", "ORDER-NOT-FOUND"} \subseteq Answers /\ None \in Document
    BY DEF Answers, Document
  <2>2. \A o \in DOMAIN orders : orders[o] \in Document
    BY DEF TransitInv, TransitTypeOK, Document
  <2> QED
    BY <2>1, <2>2 DEF Status, Visible
<1>2. TransitTypeOK' /\ Priced'
  BY <1>1, AnswerIs DEF Status, TransitInv, TransitTypeOK, Priced
<1>3. req[r].pc = "idle"
  BY DEF Status, Accepted
<1> QED
  BY <1>1, <1>2, <1>3, AnswerInv DEF Status

\* A confirm whose tickets cannot be encoded leaves the map and writes nothing.
LEMMA EncodingFailsInv ==
    ASSUME TransitInv, NEW r \in Requests, EncodingFails(r) PROVE TransitInv'
<1>1. req[r].in \in Input /\ req[r].pc = "encoding" /\ req[r].in.key \in Keys
  BY DEF EncodingFails, TransitInv, Told, Input
<1>2. "INTERNAL-ERROR" \in Answers /\ None \in Document
  BY DEF Answers, Document
<1>3. confirmations' \in [Keys -> Requests \cup {None}]
  BY <1>1 DEF EncodingFails, TransitInv, TransitTypeOK
<1>4. TransitTypeOK' /\ Priced'
  BY <1>1, <1>2, <1>3, AnswerIs DEF EncodingFails, TransitInv, TransitTypeOK, Priced
<1> QED
  BY <1>1, <1>2, <1>4, AnswerInv DEF EncodingFails

\* The confirm it waited for is of its own transaction, and so is its order.
LEMMA AwaitInv ==
    ASSUME TransitInv, NEW r \in Requests, Await(r) PROVE TransitInv'
<1> DEFINE on == req[r].on
<1>1. req[r].in \in Input /\ req[r].pc = "await"
  BY DEF Await, TransitInv, Told
<1>2. /\ on \in Requests /\ req[on].pc = "done" /\ req[on].in.kind = "confirm"
      /\ req[on].in.key = req[r].in.key
  BY <1>1 DEF Await, TransitInv, Waits
<1>3. req[on].answer \in Answers /\ req[on].order \in Document
  BY <1>2 DEF TransitInv, TransitTypeOK, Request
<1>4. req[on].answer = "OK" =>
        \E o \in DOMAIN orders : orders[o].key = req[r].in.key /\ req[on].order = orders[o]
  BY <1>2 DEF TransitInv, Told
<1>5. TransitTypeOK' /\ Priced'
  BY <1>1, <1>3, AnswerIs DEF Await, TransitInv, TransitTypeOK, Priced
<1> QED
  BY <1>1, <1>3, <1>4, <1>5, AnswerInv DEF Await


-----------------------------------------------------------------------------
(* Settlement.                                                             *)

\* A code of a step next to the present one is less than two steps off.
LEMMA WithinDrift ==
    ASSUME NEW at \in Nat, NEW step \in Int,
           step \in (at \div Period) - 1 .. (at \div Period) + 1
    PROVE  step * Period - at \in -2 * Period + 1 .. 2 * Period - 1
<1> DEFINE q == at \div Period
<1>1. Period \in Nat /\ Period > 0
  BY TransitAssumption
<1>2. q \in Int /\ q * Period <= at /\ at < q * Period + Period
  BY <1>1, Z3
<1>3. step = q - 1 \/ step = q \/ step = q + 1
  BY <1>2
<1>4. (q - 1) * Period = q * Period - Period /\ (q + 1) * Period = q * Period + Period
  BY <1>1, <1>2
<1>5. q * Period \in Int
  BY <1>1, <1>2
<1> HIDE DEF q
<1> QED
  BY <1>1, <1>2, <1>3, <1>4, <1>5

\* The day of an instant: it starts no later, and the next starts later.
LEMMA DayIs ==
    ASSUME NEW at \in Nat
    PROVE  /\ at \div Day \in Nat
           /\ (at \div Day) * Day <= at /\ at < (at \div Day + 1) * Day
<1> DEFINE q == at \div Day
<1>1. Day \in Nat /\ Day > 0
  BY TransitAssumption
<1>2. q \in Nat /\ q * Day <= at /\ at < q * Day + Day
  BY <1>1, Z3
<1> HIDE DEF q
<1>3. (q + 1) * Day = q * Day + Day
  BY <1>1, <1>2
<1> QED
  BY <1>2, <1>3 DEF q

\* Multiples of a day are in the order of their days.
LEMMA InOrder ==
    ASSUME NEW x \in Nat, NEW y \in Nat, x * Day < y * Day
    PROVE  x < y
<1>1. Day \in Nat
  BY TransitAssumption
<1>2. SUFFICES ASSUME y <= x PROVE FALSE
  OBVIOUS
<1>3. PICK z \in Nat : x = y + z
  <2>1. x - y \in Nat /\ x = y + (x - y)
    BY <1>2
  <2> QED
    BY <2>1
<1>4. x * Day = y * Day + z * Day /\ z * Day \in Nat /\ y * Day \in Nat
  BY <1>1, <1>3
<1> QED
  BY <1>4

\* An instant before a midnight is of an earlier day.
LEMMA BeforeMidnight ==
    ASSUME NEW at \in Nat, NEW end \in Nat, at < end * Day
    PROVE  at \div Day < end
<1> DEFINE q == at \div Day
<1>1. q \in Nat /\ q * Day <= at
  BY DayIs
<1> HIDE DEF q
<1>2. q * Day \in Nat /\ end * Day \in Nat
  BY <1>1, TransitAssumption
<1>3. q < end
  BY <1>1, <1>2, InOrder
<1> QED
  BY <1>3 DEF q

\* A later instant is not of an earlier day.
LEMMA DaysPass ==
    ASSUME NEW at \in Nat, NEW later \in Nat, at <= later
    PROVE  at \div Day <= later \div Day
<1> DEFINE q == later \div Day
<1>1. q \in Nat /\ later < (q + 1) * Day
  BY DayIs
<1> HIDE DEF q
<1>2. (q + 1) * Day \in Nat /\ q + 1 \in Nat
  BY <1>1, TransitAssumption
<1>3. at < (q + 1) * Day
  BY <1>1, <1>2
<1>4. at \div Day < q + 1 /\ at \div Day \in Nat
  BY <1>2, <1>3, BeforeMidnight, DayIs
<1>5. at \div Day <= q
  BY <1>1, <1>4
<1> QED
  BY <1>5 DEF q

Days == 0..(MaxClock \div Day)

\* Every instant there is has a day of the calendar.
LEMMA InDays ==
    ASSUME NEW at \in 0..MaxClock PROVE at \div Day \in Days
<1>1. MaxClock \in Nat /\ at \in Nat /\ at <= MaxClock
  BY TransitAssumption
<1>2. at \div Day \in Nat /\ at \div Day <= MaxClock \div Day /\ MaxClock \div Day \in Nat
  BY <1>1, DayIs, DaysPass
<1> QED
  BY <1>2 DEF Days

\* A day is in its month, and two months follow that one.
LEMMA MonthIs ==
    ASSUME NEW d \in Days
    PROVE  /\ d \in Nat /\ MonthOf(d) \in Nat /\ MonthOf(d) + 2 <= Months
           /\ MonthOf(d) >= 1
           /\ MonthStart[MonthOf(d)] <= d /\ d < MonthStart[MonthOf(d) + 1]
           /\ MonthStart[MonthOf(d)] \in Nat /\ MonthStart[MonthOf(d) + 1] \in Nat
           /\ MonthStart[MonthOf(d) + 2] \in Nat
           /\ MonthStart[MonthOf(d) + 1] < MonthStart[MonthOf(d) + 2]
<1> DEFINE m == MonthOf(d)
<1>1. d \in Nat
  BY DayIs, TransitAssumption DEF Days
<1>2. \E n \in 1..(Months - 2) : MonthStart[n] <= d /\ d < MonthStart[n + 1]
  BY CalendarAssumption DEF Days
<1>3. m \in 1..(Months - 2) /\ MonthStart[m] <= d /\ d < MonthStart[m + 1]
  BY <1>2 DEF MonthOf
<1> HIDE DEF m
<1>4. Months \in Nat /\ MonthStart \in [1..Months -> Nat]
  BY CalendarAssumption
<1>5. m \in 1..Months /\ m + 1 \in 1..Months /\ m + 2 \in 1..Months /\ m + 1 < m + 2
  BY <1>3, <1>4
<1>6. MonthStart[m + 1] < MonthStart[m + 2]
  BY <1>5, CalendarAssumption
<1>7. MonthStart[m] \in Nat /\ MonthStart[m + 1] \in Nat /\ MonthStart[m + 2] \in Nat
  BY <1>4, <1>5
<1>8. m \in Nat /\ m >= 1 /\ m + 2 <= Months
  BY <1>3, <1>4
<1> QED
  BY <1>1, <1>3, <1>6, <1>7, <1>8 DEF m

\* A day before the end of month n is in month n or an earlier one.
LEMMA NoLaterMonth ==
    ASSUME NEW e \in Days, NEW n \in Nat, n + 1 <= Months, e < MonthStart[n + 1]
    PROVE  MonthOf(e) <= n
<1> DEFINE m == MonthOf(e)
<1>1. m \in Nat /\ m + 2 <= Months /\ m >= 1 /\ MonthStart[m] <= e /\ e \in Nat
      /\ MonthStart[m] \in Nat
  BY MonthIs
<1> HIDE DEF m
<1>2. SUFFICES ASSUME n < m PROVE FALSE
  BY <1>1 DEF m
<1>3. n + 1 = m \/ n + 1 < m
  BY <1>1, <1>2
<1>4. Months \in Nat /\ n + 1 \in 1..Months /\ m \in 1..Months
  BY <1>1, CalendarAssumption
<1>5. MonthStart[n + 1] \in Nat /\ MonthStart[n + 1] <= MonthStart[m]
  BY <1>1, <1>3, <1>4, CalendarAssumption
<1> QED
  BY <1>1, <1>5

\* A later day is not of an earlier month.
LEMMA NoEarlierMonth ==
    ASSUME NEW d \in Days, NEW e \in Days, d <= e
    PROVE  MonthOf(d) <= MonthOf(e)
<1>1. /\ d \in Nat /\ e \in Nat /\ MonthOf(e) \in Nat /\ MonthOf(e) + 2 <= Months
      /\ e < MonthStart[MonthOf(e) + 1] /\ MonthStart[MonthOf(e) + 1] \in Nat
  BY MonthIs
<1>2. d < MonthStart[MonthOf(e) + 1] /\ MonthOf(e) + 1 <= Months
  BY <1>1, CalendarAssumption
<1> QED
  BY <1>1, <1>2, NoLaterMonth

\* Every window ends on a day.
LEMMA EndDayTyped ==
    ASSUME NEW d \in Days, NEW item \in PassItems
    PROVE  EndDay(d, WindowOf[item]) \in Nat
<1>1. WeekDays \in Nat /\ WindowOf[item] \in {"DAY", "WEEKLY", "MONTHLY"}
  BY TransitAssumption
<1>2. MonthEnd(d) \in Nat
  <2> DEFINE m == MonthOf(d)
  <2>1. /\ d \in Nat /\ m \in Nat /\ MonthStart[m] <= d /\ MonthStart[m] \in Nat
        /\ MonthStart[m + 1] \in Nat /\ MonthStart[m + 2] \in Nat
    BY MonthIs
  <2>2. DayOf(d) = d - MonthStart[m] + 1
    BY DEF DayOf
  <2>3. MonthEnd(d) = IF DayOf(d) <= DaysInMonth(m + 1)
                      THEN MonthStart[m + 1] + DayOf(d) - 1 ELSE MonthStart[m + 1 + 1]
    BY DEF MonthEnd
  <2> HIDE DEF m
  <2>4. MonthStart[m + 1 + 1] \in Nat
    BY <2>1
  <2> QED
    BY <2>1, <2>2, <2>3, <2>4
<1>3. d \in Nat
  BY MonthIs
<1> QED
  BY <1>1, <1>2, <1>3 DEF EndDay

\* The day a monthly pass ends on is the first one it does not cover.
LEMMA MonthEndCovers ==
    ASSUME NEW d \in Days, NEW e \in Days, d <= e, e < MonthEnd(d)
    PROVE  \/ MonthOf(e) = MonthOf(d)
           \/ MonthOf(e) = MonthOf(d) + 1 /\ DayOf(e) < DayOf(d)
<1> DEFINE m == MonthOf(d)
           n == MonthOf(e)
<1>1. /\ d \in Nat /\ m \in Nat /\ m + 2 <= Months /\ MonthStart[m] <= d
      /\ d < MonthStart[m + 1] /\ MonthStart[m] \in Nat /\ MonthStart[m + 1] \in Nat
      /\ MonthStart[m + 2] \in Nat
  BY MonthIs
<1>2. e \in Nat /\ n \in Nat /\ MonthStart[n] <= e /\ MonthStart[n] \in Nat
  BY MonthIs
<1>3. m <= n
  BY NoEarlierMonth
<1>4. DayOf(d) = d - MonthStart[m] + 1 /\ DayOf(e) = e - MonthStart[n] + 1
  BY DEF DayOf
<1>5. MonthEnd(d) = IF DayOf(d) <= DaysInMonth(m + 1)
                    THEN MonthStart[m + 1] + DayOf(d) - 1 ELSE MonthStart[m + 2]
  <2>1. m + 1 + 1 = m + 2
    BY <1>1
  <2> QED
    BY <2>1 DEF MonthEnd
<1>6. DaysInMonth(m + 1) = MonthStart[m + 2] - MonthStart[m + 1]
  <2>1. m + 1 + 1 = m + 2
    BY <1>1
  <2> QED
    BY <2>1 DEF DaysInMonth
<1>7. ASSUME n = m + 1 PROVE DayOf(e) < DayOf(d)
  <2> HIDE DEF m, n
  <2>1. DayOf(e) = e - MonthStart[m + 1] + 1
    BY <1>4, <1>7
  <2> QED
    BY <1>1, <1>2, <1>4, <1>5, <1>6, <2>1
<1>8. n <= m + 1
  <2>1. e < MonthStart[m + 2]
    <3> HIDE DEF m, n
    <3> QED
      BY <1>1, <1>2, <1>4, <1>5, <1>6
  <2>2. (m + 1) + 1 = m + 2 /\ m + 1 \in Nat
    BY <1>1
  <2> QED
    BY <1>1, <2>1, <2>2, NoLaterMonth
<1>9. n = m \/ n = m + 1
  BY <1>1, <1>2, <1>3, <1>8
<1> QED
  BY <1>7, <1>9

\* A pass has its midnights, and covers the days between them.
LEMMA WindowIs ==
    ASSUME NEW at \in 0..MaxClock, NEW item \in PassItems
    PROVE  /\ ValidFrom(at) \in Nat /\ ValidTo(at, item) \in Nat
           /\ \A x \in 0..MaxClock : at <= x /\ x < ValidTo(at, item) =>
                  Covers(WindowOf[item], at \div Day, x \div Day)
<1> DEFINE d == at \div Day
           end == EndDay(d, WindowOf[item])
<1>1. Day \in Nat /\ WindowOf[item] \in {"DAY", "WEEKLY", "MONTHLY"} /\ WeekDays \in Nat
      /\ MaxClock \in Nat
  BY TransitAssumption
<1>2. d \in Days /\ d \in Nat
  BY <1>1, InDays, DayIs
<1>3. end \in Nat
  BY <1>2, EndDayTyped
<1>4. ValidFrom(at) \in Nat /\ ValidTo(at, item) \in Nat
  <2> HIDE DEF d, end
  <2>1. d * Day \in Nat /\ end * Day \in Nat
    BY <1>1, <1>2, <1>3
  <2> QED
    BY <2>1 DEF ValidFrom, ValidTo, d, end
<1>5. ASSUME NEW x \in 0..MaxClock, at <= x, x < ValidTo(at, item)
      PROVE  Covers(WindowOf[item], d, x \div Day)
  <2> DEFINE e == x \div Day
  <2>1. e \in Days /\ e \in Nat /\ d <= e
    BY <1>1, <1>5, InDays, DayIs, DaysPass
  <2>2. e < end
    BY <1>1, <1>3, <1>5, BeforeMidnight DEF ValidTo
  <2>3. WindowOf[item] = "MONTHLY" => e < MonthEnd(d)
    BY <2>2 DEF EndDay
  <2>4. WindowOf[item] = "MONTHLY" => \/ MonthOf(e) = MonthOf(d)
                                      \/ MonthOf(e) = MonthOf(d) + 1 /\ DayOf(e) < DayOf(d)
    BY <1>2, <2>1, <2>3, MonthEndCovers
  <2>5. WindowOf[item] = "DAY" => e < d + 1
    BY <2>2 DEF EndDay
  <2>6. WindowOf[item] = "WEEKLY" => e < d + WeekDays
    BY <2>2 DEF EndDay
  <2>7. Covers(WindowOf[item], d, e)
    <3> HIDE DEF d, e, end
    <3>1. WindowOf[item] = "DAY" => e = d
      BY <1>2, <2>1, <2>5
    <3>2. WindowOf[item] = "WEEKLY" => e - d < WeekDays
      BY <1>1, <1>2, <2>1, <2>6
    <3> QED
      BY <1>1, <2>1, <2>4, <3>1, <3>2 DEF Covers
  <2> QED
    BY <2>7
<1> QED
  BY <1>4, <1>5

\* A claim that passes the check has a pass behind it.
LEMMA SettlementIs ==
    ASSUME TransitInv, NEW i \in Input, NEW claim \in Claim \cup {None}
    PROVE  /\ Settlement(i, claim, clock) \in Answers
           /\ Settlement(i, claim, clock) = "OK" => Backed(i.key, i.item, claim, clock)
<1>1. Settlement(i, claim, clock) \in Answers
  BY DEF Settlement, AssertPassSettlement, Answers
<1>2. SUFFICES ASSUME Settlement(i, claim, clock) = "OK", claim # None
               PROVE  \E j \in DOMAIN orders : Backs(orders[j], i.key, i.item, claim, clock)
  BY <1>1 DEF Backed
<1>3. PICK c \in Held(i.key, claim.order) :
        c.item \in Covered[i.item] /\ InWindow(c, clock) /\ Verifies(c, claim, clock)
  BY <1>2 DEF Settlement, AssertPassSettlement
<1>4. c \in passCredentials /\ c \in Pass
  BY <1>3 DEF Held, TransitInv, TransitTypeOK
<1>5. PICK j \in DOMAIN orders : MintedFor(c, orders[j])
  BY <1>4 DEF TransitInv, Passes
<1> DEFINE p == orders[j]
<1>6. p \in Order /\ p.at <= clock /\ clock \in Nat
  BY DEF TransitInv, TransitTypeOK, OneOrderEach, Sound
<1>7. p.at \in Nat /\ c.item \in PassItems /\ claim.step \in Int
  BY <1>2, <1>4, <1>6 DEF Order, Pass, Claim
<1>8. Covers(WindowOf[p.item], p.at \div Day, clock \div Day)
  <2>1. p.at \in 0..MaxClock /\ clock \in 0..MaxClock
    BY <1>6, <1>7, TransitAssumption DEF TransitInv, TransitTypeOK
  <2>2. p.item = c.item /\ clock < ValidTo(p.at, c.item)
    BY <1>3, <1>5 DEF InWindow, MintedFor
  <2> QED
    BY <1>6, <1>7, <2>1, <2>2, WindowIs
<1>9. claim.step * Period - clock \in -2 * Period + 1 .. 2 * Period - 1
  BY <1>3, <1>6, <1>7, WithinDrift DEF Verifies, TOTP_STEP_DRIFT
<1>10. claim.secret[1] = p.id /\ p.id = claim.order
  BY <1>3, <1>5 DEF Verifies, MintedFor, Held
<1>11. p.key.operator = i.key.operator /\ p.key.bap = i.key.bap /\ p.item \in Covered[i.item]
  BY <1>3, <1>5 DEF MintedFor, Held
<1> QED
  BY <1>6, <1>8, <1>9, <1>10, <1>11 DEF Backs

\* The credentials a rider can present are well formed.
LEMMA PresentedIs == ASSUME TransitInv PROVE Presented \subseteq Claim
<1>1. \A c \in passCredentials : c.order \in OrderIds /\ c.secret \in OrderIds \X Nat
  BY DEF TransitInv, TransitTypeOK, Pass
<1>2. clock \div Period \in Int
  BY TransitAssumption DEF TransitInv, TransitTypeOK
<1> QED
  BY <1>1, <1>2 DEF Presented, Claim


-----------------------------------------------------------------------------
(* confirm.                                                                *)

\* A confirm that is not joined to another becomes the one of its transaction.
LEMMA EncodeInv ==
    ASSUME TransitInv, NEW r \in Requests, NEW i \in Input, Accepted(r, i, "confirm"),
           OrdersOf(i.key) = {}, ~Join(i.key), BaseOrder(i) = "OK",
           NEW claim \in Claim \cup {None}, Settlement(i, claim, clock) = "OK", NEW id \in Ids,
           req' = [req EXCEPT ![r] =
                     [NoRequest EXCEPT !.pc = "encoding", !.in = i,
                         !.id = <<i.key.operator, id>>, !.fare = Fare(i),
                         !.at = clock, !.claim = claim]],
           confirmations' = [confirmations EXCEPT ![i.key] = r],
           UNCHANGED <<clock, catalogues, orders, passCredentials, quoted>>
    PROVE  TransitInv'
<1> DEFINE new == [NoRequest EXCEPT !.pc = "encoding", !.in = i,
                      !.id = <<i.key.operator, id>>, !.fare = Fare(i),
                      !.at = clock, !.claim = claim]
<1>1. req \in [Requests -> Request] /\ confirmations \in [Keys -> Requests \cup {None}]
  BY DEF TransitInv, TransitTypeOK
<1>2. i.key \in Keys /\ i.kind = "confirm" /\ req[r].pc = "idle" /\ confirmations[i.key] = None
  BY DEF Input, Accepted, Join
<1>3. <<i.key.operator, id>> \in OrderIds /\ Fare(i) \in Nat /\ clock \in Nat
  BY <1>2, BaseOrderIs DEF OrderIds, TransitInv, TransitTypeOK
<1>4. new \in Request
  BY <1>3, NoRequestTyped DEF NoRequest, Request
<1>5. /\ req'[r].pc = "encoding" /\ req'[r].in = i /\ req'[r].id \in OrderIds
      /\ req'[r].fare = Fare(i) /\ req'[r].at = clock /\ req'[r].claim = claim
      /\ req'[r].answer = "NONE"
      /\ \A q \in Requests : q # r => req'[q] = req[q]
  BY <1>1, <1>3 DEF NoRequest
<1>6. TransitTypeOK'
  BY <1>1, <1>2, <1>4 DEF TransitInv, TransitTypeOK
<1>7. clock <= clock' /\ clock' \in Nat
  BY <1>3
<1>8. OneOrderEach' /\ Passes' /\ Priced'
  BY <1>7, StaysSound DEF TransitInv, Priced
<1>9. \A k \in Keys : k # i.key => confirmations'[k] = confirmations[k]
  BY <1>1
<1>10. confirmations'[i.key] = r
  BY <1>1, <1>2
<1>11. InTheMap'
  <2>1. \A k \in Keys : confirmations[k] # None =>
            confirmations[k] \in Requests /\ confirmations[k] # r
    BY <1>1, <1>2 DEF TransitInv, InTheMap
  <2> QED
    BY <1>5, <1>9, <1>10, <2>1 DEF TransitInv, InTheMap
<1>12. \A q \in Requests : Told(q)' /\ Waits(q)'
  BY <1>2, <1>5 DEF TransitInv, Told, Waits
<1>13. Sound(ToBe(r))'
  <2>1. Backed(i.key, i.item, claim, clock)
    BY SettlementIs
  <2>2. i.item \in Offers => <<i.item, Fare(i)>> \in quoted[i.key]
    BY BaseOrderIs
  <2>3. /\ ToBe(r)'.key = i.key /\ ToBe(r)'.item = i.item /\ ToBe(r)'.fare = Fare(i)
        /\ ToBe(r)'.at = clock /\ ToBe(r)'.claim = claim
    BY <1>5 DEF ToBe
  <2> QED
    BY <1>7, <2>1, <2>2, <2>3 DEF Sound, Backed
<1>14. ASSUME NEW q \in Requests PROVE Encodes(q)'
  <2>1. CASE q = r
    BY <1>2, <1>5, <1>10, <1>13, <2>1 DEF Encodes, OrdersOf
  <2>2. CASE q # r /\ req[q].pc = "encoding"
    <3>1. Encodes(q) /\ req'[q] = req[q] /\ req[q].in.key \in Keys
      BY <1>5, <2>2 DEF TransitInv, Told, Input
    <3>2. req[q].in.key # i.key
      BY <1>2, <2>2, <3>1, TransitAssumption DEF Encodes
    <3> QED
      BY <1>7, <1>9, <2>2, <3>1, <3>2, StaysSoundToBe DEF Encodes, OrdersOf
  <2>3. CASE q # r /\ req[q].pc # "encoding"
    BY <1>5, <2>3 DEF Encodes
  <2> QED
    BY <2>1, <2>2, <2>3
<1> QED
  BY <1>6, <1>8, <1>11, <1>12, <1>14 DEF TransitInv

\* confirm up to its first await: refused, joined to one in flight, or started.
LEMMA ConfirmInv ==
    ASSUME TransitInv, NEW r \in Requests, NEW i \in Input, Confirm(r, i) PROVE TransitInv'
<1>1. i.kind = "confirm" /\ req[r].pc = "idle" /\ Accepted(r, i, "confirm") /\ i.key \in Keys
  BY DEF Confirm, Accepted, Input
<1>2. UNCHANGED <<clock, catalogues, orders, passCredentials, quoted>>
  BY DEF Confirm
<1>3. None \in Document /\ {"OK", "INVALID-PAYMENT-STATUS"} \subseteq Answers
  BY DEF Document, Answers
<1>4. ASSUME NEW answer \in Answers, NEW order \in Document, Answer(r, i, answer, order),
             answer = "OK" => \E o \in DOMAIN orders : orders[o].key = i.key /\ order = orders[o],
             UNCHANGED confirmations
      PROVE  TransitInv'
  <2>1. TransitTypeOK' /\ Priced'
    BY <1>2, <1>4, AnswerIs DEF TransitInv, TransitTypeOK, Priced
  <2> QED
    BY <1>1, <1>2, <1>4, <2>1, AnswerInv
<1>5. CASE ~i.paid /\ Answer(r, i, "INVALID-PAYMENT-STATUS", None) /\ UNCHANGED confirmations
  BY <1>3, <1>4, <1>5
<1>6. CASE (\E o \in OrdersOf(i.key) : Answer(r, i, "OK", orders[o])) /\ UNCHANGED confirmations
  <2>1. PICK o \in OrdersOf(i.key) : Answer(r, i, "OK", orders[o])
    BY <1>6
  <2>2. o \in DOMAIN orders /\ orders[o].key = i.key /\ orders[o] \in Document
    BY DEF OrdersOf, TransitInv, TransitTypeOK, Document
  <2> QED
    BY <1>3, <1>4, <1>6, <2>1, <2>2
<1>7. CASE /\ Join(i.key) /\ UNCHANGED confirmations
           /\ req' = [req EXCEPT ![r].pc = "await", ![r].in = i, ![r].on = confirmations[i.key]]
  <2>1. /\ confirmations[i.key] \in Requests
        /\ req[confirmations[i.key]].pc = "encoding"
        /\ req[confirmations[i.key]].in.key = i.key
    BY <1>1, <1>7 DEF Join, TransitInv, TransitTypeOK, InTheMap
  <2>2. req[confirmations[i.key]].in.kind = "confirm"
    BY <2>1 DEF TransitInv, Encodes
  <2>3. req' = [req EXCEPT ![r] = [req[r] EXCEPT !.pc = "await", !.in = i,
                                                !.on = confirmations[i.key]]]
    BY <1>7 DEF TransitInv, TransitTypeOK, Request
  <2> QED
    BY <1>1, <1>2, <1>7, <2>1, <2>2, <2>3, WaitInv
<1>8. CASE /\ BaseOrder(i) # "OK" /\ Answer(r, i, BaseOrder(i), None)
           /\ UNCHANGED confirmations
  BY <1>3, <1>4, <1>8, BaseOrderIs
<1>9. ASSUME NEW claim \in IF i.claims THEN Presented ELSE {None},
             Settlement(i, claim, clock) # "OK", UNCHANGED confirmations,
             Answer(r, i, Settlement(i, claim, clock), None)
      PROVE  TransitInv'
  BY <1>3, <1>4, <1>9, PresentedIs, SettlementIs
<1>10. ASSUME NEW claim \in IF i.claims THEN Presented ELSE {None},
              OrdersOf(i.key) = {}, ~Join(i.key), BaseOrder(i) = "OK",
              Settlement(i, claim, clock) = "OK", NEW id \in Ids,
              req' = [req EXCEPT ![r] =
                        [NoRequest EXCEPT !.pc = "encoding", !.in = i,
                            !.id = <<i.key.operator, id>>, !.fare = Fare(i),
                            !.at = clock, !.claim = claim]],
              confirmations' = [confirmations EXCEPT ![i.key] = r]
       PROVE  TransitInv'
  <2>1. claim \in Claim \cup {None}
    BY PresentedIs
  <2> QED
    BY <1>1, <1>2, <1>10, <2>1, EncodeInv
<1> QED
  BY <1>5, <1>6, <1>7, <1>8, <1>9, <1>10 DEF Confirm


\* The credentials of a pass are minted for its order.
LEMMA MintedIs ==
    ASSUME NEW o \in Order, NEW i \in Input, o.key = i.key, o.item = i.item, o.at \in 0..MaxClock,
           NEW c \in Minted(o.id, i, o.at)
    PROVE  c \in Pass /\ MintedFor(c, o)
<1>1. i.item \in PassItems /\ i.key \in Keys /\ i.count \in Int /\ o.id \in OrderIds /\ o.at \in Nat
  BY DEF Minted, Input, Order
<1>2. PICK n \in 1..i.count :
        c = [operator |-> i.key.operator, bap |-> i.key.bap, order |-> o.id, item |-> i.item,
             from |-> ValidFrom(o.at), to |-> ValidTo(o.at, i.item), secret |-> <<o.id, n>>]
  BY <1>1 DEF Minted
<1>3. ValidFrom(o.at) \in Nat /\ ValidTo(o.at, i.item) \in Nat /\ n \in Nat
  BY <1>1, WindowIs
<1>4. c \in Pass
  BY <1>1, <1>2, <1>3 DEF Pass
<1>5. MintedFor(c, o)
  BY <1>2 DEF MintedFor
<1> QED
  BY <1>4, <1>5

\* The order is saved: the first under its id and the first of its transaction.
LEMMA PlaceInv ==
    ASSUME TransitInv, NEW r \in Requests, req[r].pc = "encoding", NEW o \in Order,
           o.id = req[r].id, o.key = req[r].in.key, o.item = req[r].in.item, Sound(o),
           o.id \notin DOMAIN orders, OrdersOf(o.key) = {},
           Answer(r, req[r].in, "OK", o),
           confirmations' = [confirmations EXCEPT ![o.key] = IF @ = r THEN None ELSE @],
           orders' = [x \in DOMAIN orders \cup {o.id} |-> IF x = o.id THEN o ELSE orders[x]],
           passCredentials' = passCredentials \cup Minted(o.id, req[r].in, o.at),
           UNCHANGED <<clock, catalogues, quoted>>
    PROVE  TransitInv'
<1>1. req[r].in \in Input /\ o.key \in Keys /\ o.id \in OrderIds
  BY DEF TransitInv, Told, Order
<1>2. "OK" \in Answers /\ o \in Document /\ o.at \in 0..MaxClock
  BY TransitAssumption DEF Answers, Document, TransitInv, TransitTypeOK, Order, Sound
<1>3. /\ req' \in [Requests -> Request]
      /\ req'[r].pc = "done" /\ req'[r].in = req[r].in
      /\ req'[r].answer = "OK" /\ req'[r].order = o
      /\ \A q \in Requests : q # r => req'[q] = req[q]
  BY <1>1, <1>2, AnswerIs DEF TransitInv
<1>4. /\ DOMAIN orders' = DOMAIN orders \cup {o.id} /\ orders'[o.id] = o
      /\ \A x \in DOMAIN orders : orders'[x] = orders[x]
  OBVIOUS
<1>5. confirmations \in [Keys -> Requests \cup {None}]
  BY DEF TransitInv, TransitTypeOK
<1>6. TransitTypeOK'
  <2>1. \A x \in DOMAIN orders' : x \in OrderIds /\ orders'[x] \in Order
    BY <1>1, <1>4 DEF TransitInv, TransitTypeOK
  <2>2. passCredentials' \subseteq Pass
    BY <1>1, <1>2, MintedIs DEF TransitInv, TransitTypeOK
  <2>3. confirmations' \in [Keys -> Requests \cup {None}]
    BY <1>1, <1>5
  <2> QED
    BY <1>3, <2>1, <2>2, <2>3 DEF TransitInv, TransitTypeOK
<1>7. Priced'
  BY DEF TransitInv, Priced
<1>8. \A x \in DOMAIN orders' : orders'[x].id = x /\ Sound(orders[x])'
  BY <1>4 DEF TransitInv, OneOrderEach, Sound, Backed
<1>9. OneOrderEach'
  <2>1. \A x \in DOMAIN orders : orders[x].key # o.key
    BY DEF OrdersOf
  <2>2. \A x, y \in DOMAIN orders' : orders'[x].key = orders'[y].key => x = y
    BY <1>4, <2>1 DEF TransitInv, OneOrderEach
  <2> QED
    BY <1>8, <2>2 DEF OneOrderEach
<1>10. Passes'
  <2>1. \A c \in Minted(o.id, req[r].in, o.at) : MintedFor(c, o)
    BY <1>1, <1>2, MintedIs
  <2> QED
    BY <1>4, <2>1 DEF TransitInv, Passes
<1>11. InTheMap'
  <2> SUFFICES ASSUME NEW k \in Keys, confirmations'[k] # None
               PROVE  /\ req'[confirmations'[k]].pc = "encoding"
                      /\ req'[confirmations'[k]].in.key = k
    BY DEF InTheMap
  <2>1. confirmations'[k] = confirmations[k]
    BY <1>1, <1>5
  <2>2. /\ confirmations[k] \in Requests
        /\ req[confirmations[k]].pc = "encoding" /\ req[confirmations[k]].in.key = k
    BY <1>5, <2>1 DEF TransitInv, InTheMap
  <2>3. confirmations[k] # r
    BY <1>1, <1>5, <2>1, <2>2, TransitAssumption
  <2> QED
    BY <1>3, <2>1, <2>2, <2>3
<1>12. ASSUME NEW q \in Requests PROVE Told(q)'
  <2>1. CASE q = r
    BY <1>1, <1>3, <1>4, <2>1 DEF Told
  <2>2. CASE q # r
    BY <1>3, <1>4, <2>2 DEF TransitInv, Told
  <2> QED
    BY <2>1, <2>2
<1>13. \A q \in Requests : Waits(q)'
  BY <1>3 DEF TransitInv, Waits
<1>14. ASSUME NEW q \in Requests PROVE Encodes(q)'
  <2>1. CASE req'[q].pc = "encoding"
    <3>1. q # r /\ req'[q] = req[q] /\ req[q].pc = "encoding"
      BY <1>3, <2>1
    <3>2. Encodes(q) /\ Encodes(r) /\ req[q].in.key \in Keys
      BY <3>1 DEF TransitInv, Told, Input
    <3>3. req[q].in.key # o.key
      BY <3>1, <3>2 DEF Encodes
    <3>4. OrdersOf(req[q].in.key)' = {}
      BY <1>4, <3>1, <3>2, <3>3 DEF Encodes, OrdersOf
    <3>5. ToBe(q)' = ToBe(q) /\ Sound(ToBe(q))
      BY <3>1, <3>2 DEF ToBe, Encodes
    <3>6. Sound(ToBe(q))'
      BY <1>4, <3>5 DEF Sound, Backed
    <3>7. confirmations'[req[q].in.key] = q
      BY <1>5, <3>1, <3>2, <3>3 DEF Encodes
    <3> QED
      BY <3>1, <3>2, <3>4, <3>6, <3>7 DEF Encodes
  <2>2. CASE req'[q].pc # "encoding"
    BY <2>2 DEF Encodes
  <2> QED
    BY <2>1, <2>2
<1> QED
  BY <1>6, <1>7, <1>9, <1>10, <1>11, <1>12, <1>13, <1>14 DEF TransitInv

\* The transaction of a confirm that encodes has no order, so the store has only
\* an id that is taken to refuse.
LEMMA SaveInv ==
    ASSUME TransitInv, NEW r \in Requests, Save(r) PROVE TransitInv'
<1> DEFINE i == req[r].in
           o == [id |-> req[r].id, key |-> i.key, item |-> i.item, count |-> i.count,
                 fare |-> req[r].fare, at |-> req[r].at, claim |-> req[r].claim]
<1>1. /\ req[r].pc = "encoding" /\ i \in Input /\ i.key \in Keys
      /\ Encodes(r) /\ OrdersOf(i.key) = {}
  BY DEF Save, TransitInv, Told, Encodes, Input
<1>2. CASE Taken(req[r].id) /\ Answer(r, i, "ORDER-ID-COLLISION", None)
           /\ UNCHANGED <<orders, passCredentials>>
  <2>1. "ORDER-ID-COLLISION" \in Answers /\ None \in Document
    BY DEF Answers, Document
  <2>2. confirmations' \in [Keys -> Requests \cup {None}]
    BY <1>1 DEF Save, TransitInv, TransitTypeOK
  <2>3. TransitTypeOK' /\ Priced'
    BY <1>1, <1>2, <2>1, <2>2, AnswerIs DEF Save, TransitInv, TransitTypeOK, Priced
  <2> QED
    BY <1>1, <1>2, <2>1, <2>3, AnswerInv DEF Save
<1>3. CASE /\ ~Taken(req[r].id)
           /\ orders' = [x \in DOMAIN orders \cup {req[r].id} |->
                           IF x = req[r].id THEN o ELSE orders[x]]
           /\ passCredentials' = passCredentials \cup Minted(req[r].id, i, req[r].at)
           /\ Answer(r, i, "OK", o)
  <2>1. o \in Order
    <3>1. /\ req[r].id \in OrderIds /\ req[r].fare \in Nat /\ req[r].at \in Nat
          /\ req[r].claim \in Claim \cup {None} /\ i.item \in Items /\ i.count \in Int
      BY <1>1 DEF TransitInv, TransitTypeOK, Request, Encodes, Input
    <3> QED
      BY <1>1, <3>1 DEF Order
  <2>2. Sound(o)
    <3>1. Sound(ToBe(r))
      BY <1>1 DEF Encodes
    <3>2. /\ ToBe(r).key = o.key /\ ToBe(r).item = o.item /\ ToBe(r).fare = o.fare
          /\ ToBe(r).at = o.at /\ ToBe(r).claim = o.claim
      BY DEF ToBe
    <3> QED
      BY <3>1, <3>2 DEF Sound
  <2>3. o.id = req[r].id /\ o.key = i.key /\ o.item = i.item /\ o.at = req[r].at
    OBVIOUS
  <2>4. confirmations' = [confirmations EXCEPT ![i.key] = IF @ = r THEN None ELSE @]
        /\ UNCHANGED <<clock, catalogues, quoted>>
    BY DEF Save
  <2> HIDE DEF o
  <2> QED
    BY <1>1, <1>3, <2>1, <2>2, <2>3, <2>4, PlaceInv DEF Taken
<1> QED
  BY <1>1, <1>2, <1>3 DEF Save

-----------------------------------------------------------------------------

\* The inductive invariant: every request's every step keeps it.
THEOREM TransitInvariant == Spec => []TransitInv
<1>1. TransitInv /\ [Next]_vars => TransitInv'
  <2> SUFFICES ASSUME TransitInv, [Next]_vars PROVE TransitInv'
    OBVIOUS
  <2>1. ASSUME NEW r \in Requests, Step(r) PROVE TransitInv'
    BY <2>1, CacheCatalogueInv, SearchFailsInv, SaveInv, EncodingFailsInv, AwaitInv DEF Step
  <2>2. ASSUME NEW r \in Requests, NEW i \in Inputs[r],
               Search(r, i) \/ Quote(r, i) \/ Confirm(r, i) \/ Status(r, i)
        PROVE  TransitInv'
    BY <2>2, TransitAssumption, SearchInv, QuoteInv, ConfirmInv, StatusInv
  <2>3. CASE Tick \/ UNCHANGED vars
    <3>1. clock \in 0..MaxClock /\ MaxClock \in Nat
      BY TransitAssumption DEF TransitInv, TransitTypeOK
    <3>2. clock' \in {clock, clock + 1} /\ clock' \in 0..MaxClock
      BY <2>3, <3>1 DEF Tick, vars
    <3> QED
      BY <2>3, <3>2, ClockInv DEF Tick, vars
  <2> QED
    BY <2>1, <2>2, <2>3 DEF Next
<1> QED
  BY <1>1, InitInv, PTL DEF Spec

\* However confirms of a transaction overlap, the store is never asked to save
\* a second order for it (confirm's join, save).
THEOREM NoRefusalAfterPayment == Spec => []NoLateRefusal
<1>1. TransitInv => NoLateRefusal
  BY DEF TransitInv, TransitTypeOK, Request, Answers, NoLateRefusal
<1> QED
  BY <1>1, TransitInvariant, PTL

\* All confirms and statuses of a transaction that are told of an order are told
\* of the same one (confirm's two lookups, get).
THEOREM OnePaymentOneOrder == Spec => []OneOrderPerTransaction
<1>1. TransitInv => OneOrderPerTransaction
  BY DEF TransitInv, Told, OneOrderEach, OneOrderPerTransaction
<1> QED
  BY <1>1, TransitInvariant, PTL

\* A ticket is sold at a fare a search of its own transaction was given, for any
\* overlap of searches and confirms (baseOrder).
THEOREM SoldAtAQuotedFare == Spec => []FareWasQuotedHere
<1>1. TransitInv => FareWasQuotedHere
  BY DEF TransitInv, OneOrderEach, Sound, FareWasQuotedHere
<1> QED
  BY <1>1, TransitInvariant, PTL

\* A ride a pass has paid for has that pass behind it: of the same operator and
\* app, bought before, covering the ride, not over, with a code of a near step
\* (assertPassSettlement, verifyTotpCode, passValidityWindow).
THEOREM PaidByAValidPass == Spec => []SettledByAValidPass
<1>1. TransitInv => SettledByAValidPass
  BY DEF TransitInv, OneOrderEach, Sound, Backed, Backs, SettledByAValidPass
<1> QED
  BY <1>1, TransitInvariant, PTL

\* No step changes or drops an order that is saved (save's check of the id).
THEOREM OrdersStay == Spec => OrdersAreFinal
<1> DEFINE Stays == \A i \in DOMAIN orders : i \in DOMAIN orders' /\ orders'[i] = orders[i]
<1>1. [Next]_vars => [Stays]_vars
  <2>1. ASSUME NEW r \in Requests, Save(r) PROVE Stays
    BY <2>1 DEF Save, Taken
  <2>2. CASE UNCHANGED orders
    BY <2>2
  <2> QED
    BY <2>1, <2>2 DEF Next, Step, Tick, CacheCatalogue, SearchFails, EncodingFails, Await,
                      Search, Quote, Confirm, Status, vars
<1> QED
  BY <1>1, PTL DEF Spec, OrdersAreFinal

=============================================================================
