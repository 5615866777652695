-------------------------- MODULE MCFleetPortable --------------------------
(***************************************************************************)
(* An instance of FleetPortable: onboarding and an import on one host, two *)
(* resumes on the other one.                                               *)
(***************************************************************************)
EXTENDS FleetPortable

CONSTANTS h1, h2, c1, c2, c3, c4

MCHosts == {h1, h2}
MCProcs == {c1, c2, c3, c4}
MCHostOf == [p \in MCProcs |-> IF p \in {c1, c3} THEN h1 ELSE h2]
MCCommand == [p \in MCProcs |-> CASE p = c1 -> "onboard" [] p = c2 -> "resume"
                                  [] p = c3 -> "import" [] p = c4 -> "resume"]
=============================================================================
