------------------------- MODULE MCReservedDatabase -------------------------
(***************************************************************************)
(* Two transactions of two statements and a read, with two faults.         *)
(***************************************************************************)
EXTENDS ReservedDatabase
=============================================================================
