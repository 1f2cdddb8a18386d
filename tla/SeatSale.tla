------------------------------ MODULE SeatSale ------------------------------
(***************************************************************************)
(* What the reserved category promises about the berths of its coaches,    *)
(* with no tables, no hold ids and no requests in it: every berth is free, *)
(* held for one buyer transaction until a published instant, or sold to    *)
(* one.  A berth passes from one transaction to another only by way of     *)
(* being free: a hold ends at its instant or because its own transaction   *)
(* let it go, and a sale ends only because it is cancelled.                *)
(***************************************************************************)
EXTENDS Naturals

CONSTANTS Txns,       \* buyer transactions
          Berths,     \* seats of dated departures
          Instants,   \* the instants a hold may run to
          None        \* no transaction

VARIABLES claim,      \* the claim on each berth
          clock       \* the provider's clock

vars == <<claim, clock>>

Free == [by |-> None, kind |-> "FREE", until |-> 0]
HeldFor(t, until) == [by |-> t, kind |-> "HELD", until |-> until]
SoldTo(t) == [by |-> t, kind |-> "SOLD", until |-> 0]

Init == claim = [b \in Berths |-> Free] /\ clock = 0

\* The held berths that may be let go for transaction t: its own, and those
\* whose instant has passed.
Lapsable(t) ==
    {b \in Berths : /\ claim[b].kind = "HELD"
                    /\ claim[b].by = t \/ claim[b].until <= clock}

\* Holds whose instant has passed are let go.
Lapse ==
    /\ \E X \in SUBSET Lapsable(None) :
          claim' = [b \in Berths |-> IF b \in X THEN Free ELSE claim[b]]
    /\ UNCHANGED clock

\* Transaction t takes berths, all of them or none; the berths X that are let
\* go on the way are its own or lapsed.
Take(t, until) ==
    /\ \E X \in SUBSET Lapsable(t) :
          \E S \in SUBSET (X \cup {b \in Berths : claim[b] = Free}) :
             claim' = [b \in Berths |->
                          IF b \in S THEN HeldFor(t, until)
                          ELSE IF b \in X THEN Free ELSE claim[b]]
    /\ UNCHANGED clock

\* Berths held for t are sold to t, all of them or none.
Sell(t) ==
    /\ \E S \in SUBSET {b \in Berths : claim[b].kind = "HELD" /\ claim[b].by = t} :
          claim' = [b \in Berths |-> IF b \in S THEN SoldTo(t) ELSE claim[b]]
    /\ UNCHANGED clock

\* Berths sold to t come back into inventory.
Return(t) ==
    /\ \E S \in SUBSET {b \in Berths : claim[b] = SoldTo(t)} :
          claim' = [b \in Berths |-> IF b \in S THEN Free ELSE claim[b]]
    /\ UNCHANGED clock

Tick == clock' = clock + 1 /\ UNCHANGED claim

Next ==
    \/ Lapse
    \/ \E t \in Txns : (\E until \in Instants : Take(t, until)) \/ Sell(t) \/ Return(t)
    \/ Tick

Spec == Init /\ [][Next]_vars
=============================================================================
