------------------------ MODULE MCServiceEnablement -------------------------
(* A CDB with its PDB, an Autonomous Database, an external database. *)
EXTENDS ServiceEnablement, TLC

CONSTANTS cdb, pdb, adb, ext, audit

MCTargets == {cdb, pdb, adb, ext}
MCKind == cdb :> "cdb" @@ pdb :> "pdb" @@ adb :> "autonomous" @@ ext :> "external"
MCParent == cdb :> None @@ pdb :> cdb @@ adb :> None @@ ext :> None
MCServices == cdb :> {"dbm", "opsi", "logan"} @@ pdb :> {"dbm", "opsi"}
                @@ adb :> {"opsi", "datasafe", "logan"} @@ ext :> {"logan"}
MCSelections == {{cdb, pdb}, {adb}, {ext}}
MCKnown == cdb :> {} @@ pdb :> {"insight"} @@ adb :> {"safe"} @@ ext :> {}
MCLacks == cdb :> {"entity"} @@ pdb :> {"repair"} @@ adb :> {"entity"} @@ ext :> {}

MCTenant == [policies |-> "good", subnet |-> "good", gateway |-> "good",
             route |-> "good", ingress |-> "bad"]
MCFacts == [t \in MCTargets |->
  [resource |-> "good", endpoint |-> "good", insightEndpoint |-> "unreadable",
   secret |-> "good", agent |-> "unset", user |-> "unchecked"]]

\* Nothing; a CDB that has been on before; reused resources, one another team's.
MCStarts ==
  {[on |-> {}, broken |-> <<>>],
   [on |-> {<<cdb, "dbm">>}, broken |-> cdb :> "failed" @@ pdb :> "disabled"],
   [on |-> {<<adb, "datasafe">>, <<cdb, "credential">>, <<cdb, audit>>},
    broken |-> pdb :> "disabled"]}

\* The plan does not know the ids of what is there.
MCUnknown == [t \in MCTargets |-> {}]
=============================================================================
