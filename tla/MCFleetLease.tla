---------------------------- MODULE MCFleetLease ----------------------------
(***************************************************************************)
(* Instances of FleetLease: three processes, two of them approved for the  *)
(* plan of the run.                                                        *)
(***************************************************************************)
EXTENDS FleetLease

CONSTANTS a1, a2, a3

MCActors == {a1, a2, a3}
MCPlanOf == [a \in MCActors |-> IF a = a3 THEN "other plan" ELSE "plan"]
=============================================================================
