--------------------------- MODULE MCDatabase ---------------------------
(***************************************************************************)
(* Instance of the breadcrumb database for TLC: one hook process in each   *)
(* of two terminals, beside the migration.                                 *)
(***************************************************************************)
EXTENDS DatabaseProperties, TLC

CONSTANTS p1, p2, t1, t2

MCHome == p1 :> t1 @@ p2 :> t2
=============================================================================
