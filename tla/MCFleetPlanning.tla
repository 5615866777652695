-------------------------- MODULE MCFleetPlanning ---------------------------
(* Two regions; an Exadata CDB with its PDB, an Autonomous and a managed database. *)
EXTENDS FleetPlanning, TLC

CONSTANTS cdb, pdb, adb, managed, east, west, prod, ref1, ref2

MCDatabases == {cdb, pdb, adb, managed}
MCRegion == cdb :> east @@ pdb :> east @@ adb :> west @@ managed :> west
MCCompartment == [d \in MCDatabases |-> prod]
MCRole == cdb :> "cdb" @@ pdb :> "pdb" @@ adb :> "autonomous" @@ managed :> "external"
MCFamily == cdb :> "exadata" @@ pdb :> "exadata" @@ adb :> "autonomous" @@ managed :> "external-db"
MCParentOf == cdb :> None @@ pdb :> cdb @@ adb :> None @@ managed :> None
MCLinked == [d \in MCDatabases |-> None]
MCRegionOrder == <<east, west>>

Everything == [regions |-> {}, kinds |-> {}, included |-> {}, excluded |-> {}, all |-> TRUE]
Production == [mode |-> "production", policy |-> "shared-user-unique-secret",
  authority |-> "approval-required", provision |-> {}, services |-> {"dbm", "logan"},
  concurrency |-> 4, retention |-> 7, common |-> FALSE, uniquePdbs |-> FALSE,
  filters |-> Everything]

\* Everything; a PDB by name without its CDB; one region of a demo; production that
\* provisions, which is refused.
MCAnswerFiles ==
  {Production,
   [Production EXCEPT !.filters = [Everything EXCEPT !.all = FALSE, !.included = {pdb},
                                     !.excluded = {cdb}]],
   [Production EXCEPT !.mode = "demo", !.policy = "shared-user-shared-secret",
      !.provision = {"autonomous"}, !.filters = [Everything EXCEPT !.kinds = {"exadata", "autonomous"}]],
   [Production EXCEPT !.provision = {"dbcs"}]}

Bindings(refs) == [private |-> TRUE, referencesOnly |-> TRUE, refs |-> refs]
MCBindingFiles ==
  {Bindings(<<>>), Bindings(cdb :> ref1 @@ pdb :> ref2), Bindings(cdb :> ref1 @@ pdb :> ref1),
   [Bindings(<<>>) EXCEPT !.private = FALSE]}

MCDedicated == {[Production EXCEPT !.policy = "dedicated-user-unique-secret"]}
=============================================================================
