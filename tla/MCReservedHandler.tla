------------------------- MODULE MCReservedHandler -------------------------
(***************************************************************************)
(* ReservedHandler on a select and a confirm that is sent twice, to a      *)
(* process that answers on the connection or to one that posts callbacks.  *)
(***************************************************************************)
EXTENDS ReservedHandler, TLC

CONSTANTS s1, c1, c2, b1, d1, t1, p1, p2

MCDepartureOf == b1 :> d1
MCKindOf == s1 :> "select" @@ c1 :> "confirm" @@ c2 :> "confirm"
MCWomen == [r \in Ids |-> "female"]
MCOpenThroughout == [d \in Departures |-> MaxClock]

Ask(P) == [proc : P, txn : {t1}, departure : {d1}, seats : {{b1}}, sound : {TRUE}]

MCInputs == s1 :> Ask({p1}) @@ c1 :> Ask({p1, p2}) @@ c2 :> Ask({p2})
=============================================================================
