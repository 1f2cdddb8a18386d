--------------------------- MODULE MCTransitOrders ---------------------------
(***************************************************************************)
(* Two operators and two buyer apps.  A pass is bought in one transaction  *)
(* and presented in two others, of its own app and of another.  Confirms   *)
(* meet in one transaction, and searches run beside them.  A day is two    *)
(* instants and a TOTP step one, so that codes expire before their pass.   *)
(* The sales start late on the third and last day of a month; the next     *)
(* month has one day, and the clock ends in the month after it.            *)
(***************************************************************************)
EXTENDS TransitOrders, TLC

CONSTANTS bmtc, bmrcl, a1, a2, t1, t2, offer, day, week, month, r1, r2, r3, r4

MCKey(operator, bap, txn) == [operator |-> operator, bap |-> bap, txn |-> txn]
MCBuy == MCKey(bmtc, a1, t1)
MCRide == MCKey(bmtc, a1, t2)
MCOther == MCKey(bmtc, a2, t2)
MCMetro == MCKey(bmrcl, a1, t2)
MCKeys == {MCBuy, MCRide, MCOther, MCMetro}

MCInput(kind, key, item, count, paid, claims) ==
    [kind |-> kind, key |-> key, item |-> item, count |-> count, paid |-> paid,
     claims |-> claims]

\* A search, the purchase of a pass, a ride that may claim it, and one request
\* that comes between them.
MCPassItems == {day, week, month}
MCRequests == {r1, r2, r3, r4}
MCInputs ==
    r1 :> {MCInput("search", k, offer, 1, FALSE, FALSE) : k \in {MCRide, MCOther}}
    @@ r2 :> {MCInput("confirm", MCBuy, p, 1, TRUE, FALSE) : p \in {day, month}}
    @@ r3 :> {MCInput("confirm", k, offer, 1, TRUE, TRUE) : k \in {MCRide, MCOther}}
             \cup {MCInput("confirm", MCRide, offer, 1, TRUE, FALSE)}
    @@ r4 :> {MCInput("confirm", MCRide, offer, 2, paid, FALSE) : paid \in BOOLEAN}
             \cup {MCInput("confirm", MCBuy, day, 1, TRUE, TRUE),
                   MCInput("confirm", MCBuy, week, 1, TRUE, FALSE)}
             \cup {MCInput(kind, MCRide, offer, 6, FALSE, FALSE)
                     : kind \in {"search", "quote", "status"}}
             \cup {MCInput("quote", MCRide, offer, 7, FALSE, FALSE),
                   MCInput("quote", MCMetro, day, 1, FALSE, FALSE)}

MCIssuerOf == [p \in MCPassItems |-> bmtc]
MCWindowOf == day :> "DAY" @@ week :> "WEEKLY" @@ month :> "MONTHLY"
MCPriceOf == [p \in MCPassItems |-> 9]
MCCovered == offer :> MCPassItems
MCMonthStart == <<0, 3, 4, 7, 9>>
=============================================================================
