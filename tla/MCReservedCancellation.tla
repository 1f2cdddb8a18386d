----------------------- MODULE MCReservedCancellation -----------------------
(***************************************************************************)
(* A booking of two seats, a minute over 72 hours before it departs.       *)
(***************************************************************************)
EXTENDS ReservedCancellation, TLC

CONSTANTS x, y, z, q1, q2, k1, k2, v1, p1

\* Fares whose slab shares do not fall on whole paise.
MCBaseFare == x :> 1005 @@ y :> 333
MCToll == x :> 10 @@ y :> 0
MCFee == x :> 20 @@ y :> 20

MCKind == q1 :> "soft" @@ q2 :> "soft"
          @@ k1 :> "commit" @@ k2 :> "commit"
          @@ v1 :> "status"
MCKindOf == [r \in Requests |-> MCKind[r]]
MCProcOf == [r \in Requests |-> p1]

\* Everybody cancels the whole booking.
MCWhole == [r \in Requests |-> {{}}]
\* One seat, the whole, and a seat the booking does not have.
MCPartThenWhole ==
    [r \in Requests |-> CASE r = q1 -> {{x}, {z}} [] r = k1 -> {{x}} [] OTHER -> {{}}]
=============================================================================
