-------------------------- MODULE MCReservedStore --------------------------
(***************************************************************************)
(* ReservedStore for two transactions after the berths of two departures.  *)
(***************************************************************************)
EXTENDS ReservedStore, TLC

CONSTANTS b1, b2, b3, d1, d2

\* Two seats side by side, and a seat on another coach.
MCTwoCoaches == b1 :> d1 @@ b2 :> d1 @@ b3 :> d2

\* Ids are interchangeable, and so are the transactions and the two seats.
MCSymmetry == Permutations(Ids) \cup Permutations(Txns) \cup Permutations({b1, b2})
=============================================================================
