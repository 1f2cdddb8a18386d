------------------------ MODULE MCReservedMigrations ------------------------
(***************************************************************************)
(* The three migrations of the repository: the second and the third alter  *)
(* tables of the first.  Builds that know one, all three, and one in whose *)
(* tree the second is missing.                                             *)
(***************************************************************************)
EXTENDS ReservedMigrations

CONSTANTS p1, p2

MCBuilds == {{1}, 1..3, {1, 3}}
MCNeeds == <<{}, {1}, {1}>>
=============================================================================
