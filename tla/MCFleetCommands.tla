-------------------------- MODULE MCFleetCommands --------------------------
(***************************************************************************)
(* Instances of FleetCommands: one command of each kind, or two of one     *)
(* kind, on a run of one target.                                           *)
(***************************************************************************)
EXTENDS FleetCommands

CONSTANTS c1, c2, c3, db

MCProcs == {c1, c2, c3}
MCCommand == [a \in MCProcs |-> CASE a = c1 -> "resume" [] a = c2 -> "retry"
                                  [] a = c3 -> "import"]
MCIdsWithin == [t \in Targets |-> {t}]
=============================================================================
