-------------------------- MODULE MCFleetExecutor --------------------------
(***************************************************************************)
(* Instances of FleetExecutor for TLC: a CDB with one PDB; and a fleet in  *)
(* which the CDB and a target of its own run in parallel, the PDB waits    *)
(* for the CDB, and two more targets wait for each other.                  *)
(***************************************************************************)
EXTENDS FleetExecutor

CONSTANTS cdb, pdb, alone, ring1, ring2

Pair == {cdb, pdb}
Fleet == {cdb, pdb, alone, ring1, ring2}

\* The id of the PDB contains the id of the CDB.
MCIdsWithin == [t \in Targets |-> IF t = pdb THEN {cdb, pdb} ELSE {t}]

MCDeps == [t \in Targets |-> CASE t = pdb -> {cdb}
                               [] t = ring1 -> {ring2}
                               [] t = ring2 -> {ring1}
                               [] OTHER -> {}]

OneRegion == [t \in Targets |-> "all"]
OneService == [p \in 1 .. NumPhases |-> "all"]
One == [all |-> 1]
Two == [all |-> 2]

\* Only validation, the last phase, returns a readiness.
ValidationVerdicts ==
  [p \in 1 .. NumPhases |->
     IF p = NumPhases THEN {"collecting", "ready"} ELSE {}]
CollectingVerdicts ==
  [p \in 1 .. NumPhases |-> IF p = NumPhases THEN {"collecting"} ELSE {}]
=============================================================================
