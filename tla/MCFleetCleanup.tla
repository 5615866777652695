--------------------------- MODULE MCFleetCleanup ---------------------------
(***************************************************************************)
(* Instances of FleetCleanup: a plan of one OCI action and one that needs  *)
(* an operator, and up to three commands.                                  *)
(***************************************************************************)
EXTENDS FleetCleanup

CONSTANTS c1, c2, c3

MCProcs == {c1, c2, c3}
MCCommand == [a \in MCProcs |-> IF a = c3 THEN "import" ELSE "offboard"]
=============================================================================
