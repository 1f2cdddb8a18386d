--------------------------- MODULE MCFleetManifest ---------------------------
(***************************************************************************)
(* Two seats, each held, sold and cancelled: up to three pushes at up to   *)
(* three instants.                                                         *)
(***************************************************************************)
EXTENDS FleetManifest
=============================================================================
