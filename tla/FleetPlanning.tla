--------------------------- MODULE FleetPlanning ----------------------------
(***************************************************************************)
(* From the tenancy to an approved plan: the discovery of the databases    *)
(* (fleet_discovery.py), the selection (fleet_selection.py), the graph of  *)
(* CDBs and PDBs (fleet_dependencies.py), answers and private bindings     *)
(* (fleet_answers.py, cli.py), the plan and its id (fleet.py), and the two *)
(* commands of a review: "onboard --plan-only" shows a plan, and           *)
(* "onboard --approval" discovers everything again and starts a run if the *)
(* plan has the approved id.                                               *)
(*                                                                         *)
(* The scopes of a region are read in parallel, one read after the other   *)
(* within a scope, while databases come and go and the operator edits the  *)
(* files.  A read that fails was tried twice.  A database stays in its     *)
(* compartment; names, tags and lifecycle states are left out.             *)
(***************************************************************************)
EXTENDS Naturals, Sequences, FiniteSets

CONSTANTS
  Databases, Region, Compartment,
  Role,          \* "cdb", "pdb", "autonomous" or "external"
  Family,        \* "dbcs", "exadata", "autonomous" or "external-db"
  ParentOf,      \* the CDB of a PDB, None
  Linked,        \* the native database a managed database stands for, None
  RegionOrder,   \* the subscribed regions, sorted by name
  HomeRegion,    \* the region of the command line
  NotOnboarded,  \* regions without a Log Analytics namespace
  AnswerFiles, BindingFiles,
  MaxFaults, MaxChanges, MaxCommands, None

Roles == {"cdb", "pdb", "autonomous", "external"}
Families == {"dbcs", "exadata", "autonomous", "external-db"}
Compartments == {Compartment[d] : d \in Databases}

ASSUME PlanningAssumption ==
  /\ Role \in [Databases -> Roles] /\ Family \in [Databases -> Families]
  /\ ParentOf \in [Databases -> Databases \cup {None}] /\ None \notin Databases
  /\ \A d \in Databases : Role[d] = "pdb" =>
       /\ ParentOf[d] # None /\ Role[ParentOf[d]] = "cdb" /\ Family[ParentOf[d]] = Family[d]
       /\ Region[ParentOf[d]] = Region[d] /\ Compartment[ParentOf[d]] = Compartment[d]
  /\ \A d \in Databases : Role[d] # "pdb" => ParentOf[d] = None
  /\ RegionOrder \in Seq({RegionOrder[i] : i \in DOMAIN RegionOrder})
  /\ HomeRegion \in {RegionOrder[i] : i \in DOMAIN RegionOrder}
  /\ \A d \in Databases : Region[d] \in {RegionOrder[i] : i \in DOMAIN RegionOrder}

VARIABLES
  cloud,     \* the databases that exist
  files,     \* the answer file and the bindings file, as they are now
  command,   \* the command that runs
  progress,  \* scope |-> how many of its reads have been made
  found,     \* what the discovery has observed
  gaps,      \* the reads that failed: the findings
  plan,      \* the plan of the command, None
  shown,     \* the plans a command has shown for a review
  runs,      \* the plans a run was started with
  steady,    \* the databases that exist since the discovery began
  budget     \* faults, changes and commands so far

vars == <<cloud, files, command, progress, found, gaps, plan, shown, runs, steady, budget>>

NoCommand == [pc |-> "idle", planOnly |-> TRUE, approval |-> None, answers |-> None,
              regions |-> <<>>, compartments |-> {}]

Init ==
  /\ cloud \in {Databases, {d \in Databases : Role[d] # "pdb" /\ \A e \in Databases : ParentOf[e] # d}}
  /\ \E a \in AnswerFiles, b \in BindingFiles : files = [answers |-> a, bindings |-> b]
  /\ command = NoCommand /\ progress = <<>> /\ found = {} /\ gaps = {} /\ plan = None
  /\ shown = {} /\ runs = {} /\ steady = {}
  /\ budget = [faults |-> 0, changes |-> 0, commands |-> 0]

outcome == <<shown, runs>>
world == <<cloud, files, steady>>

Fault == budget.faults < MaxFaults /\ budget' = [budget EXCEPT !.faults = @ + 1]

-----------------------------------------------------------------------------
(* Answers and bindings *)

\* validate_answers
ValidAnswers(a) ==
  /\ a.services # {} /\ a.services \subseteq {"dbm", "opsi", "datasafe", "logan"}
  /\ a.concurrency \in 1 .. 8 /\ a.retention >= 1
  /\ a.mode = "production" =>
       /\ a.authority = "approval-required" /\ a.provision = {}
       /\ a.policy \notin {"shared-user-shared-secret", "shared-password"}
  /\ a.policy = "shared-user-shared-secret" => a.mode \in {"poc", "demo"}
  /\ ~(a.common /\ a.uniquePdbs)

\* _load_lifecycle_bindings: a file only its owner can read, with references only.
ReadableBindings(b) == b.private /\ b.referencesOnly

\* _validate_credential_bindings: what the policy asks of the references bound.
SecretsFit(refs, a) ==
  LET bound == DOMAIN refs
  IN  /\ a.policy = "shared-user-shared-secret" => \A s, t \in bound : refs[s] = refs[t]
      /\ a.policy = "shared-user-unique-secret" => \A s, t \in bound : s # t => refs[s] # refs[t]

-----------------------------------------------------------------------------
(* Discovery *)

\* onboard: the answers are validated before anything is read.  approval is the id
\* of a plan the operator has seen.
Onboard(planOnly, approval) ==
  /\ command.pc = "idle" /\ budget.commands < MaxCommands
  /\ budget' = [budget EXCEPT !.commands = @ + 1]
  /\ ValidAnswers(files.answers)
  /\ command' = [NoCommand EXCEPT !.pc = "regions", !.planOnly = planOnly,
                   !.approval = approval, !.answers = files.answers]
  /\ progress' = <<>> /\ found' = {} /\ gaps' = {} /\ plan' = None
  /\ steady' = cloud
  /\ UNCHANGED <<cloud, files, outcome>>

\* _regions: without an answer the configured region is read all the same.
ReadRegions ==
  /\ command.pc = "regions"
  /\ \/ /\ command' = [command EXCEPT !.pc = "compartments", !.regions = RegionOrder]
        /\ UNCHANGED <<gaps, budget>>
     \/ /\ command' = [command EXCEPT !.pc = "compartments", !.regions = <<HomeRegion>>]
        /\ gaps' = gaps \cup {"regions"} /\ Fault
  /\ UNCHANGED <<progress, found, plan, outcome, world>>

Scopes(r, cs) == {<<r, c>> : c \in cs}

ReadCompartments ==
  /\ command.pc = "compartments"
  /\ \E cs \in {Compartments, {}} :
       /\ IF cs = {} THEN gaps' = gaps \cup {"compartments"} /\ Fault
          ELSE UNCHANGED <<gaps, budget>>
       /\ command' = [command EXCEPT !.pc = "scopes", !.compartments = cs]
       /\ progress' = [s \in Scopes(Head(command.regions), cs) |-> 0]
  /\ UNCHANGED <<found, plan, outcome, world>>

Reads == <<"cdb", "pdb", "autonomous", "external", "states">>

Known(s) == {o.id : o \in {x \in found : x.scope = s}}

\* The family of a PDB is its parent's, of one whose parent was not listed "dbcs".
SeenKind(s, d) ==
  IF Role[d] = "pdb" /\ ParentOf[d] \notin Known(s) THEN "dbcs" ELSE Family[d]

\* A managed database that stands for a native one of the scope is not a target.
Observed(s, read) ==
  {[id |-> d, kind |-> SeenKind(s, d), scope |-> s, onboard |-> FALSE] :
     d \in {x \in cloud : <<Region[x], Compartment[x]>> = s /\ Role[x] = read
                          /\ (read = "external" => Linked[x] \notin Known(s))}}

\* _with_service_states: without a namespace its onboarding becomes part of the
\* plan of every target of the scope.
Enriched(s, onboard) == {IF o.scope = s THEN [o EXCEPT !.onboard = onboard] ELSE o : o \in found}

Turn(s) ==
  /\ command.pc = "scopes" /\ s \in DOMAIN progress /\ progress[s] < Len(Reads)

ReadScope(s) ==
  /\ Turn(s)
  /\ LET read == Reads[progress[s] + 1]
     IN  found' = IF read = "states" THEN Enriched(s, s[1] \in NotOnboarded)
                  ELSE found \cup Observed(s, read)
  /\ progress' = [progress EXCEPT ![s] = @ + 1]
  /\ UNCHANGED <<command, gaps, plan, outcome, world, budget>>

\* Mutant of ReadFails: a list that cannot be read passes for an empty one.
ReadFailsQuietly(s) ==
  /\ Turn(s) /\ Fault
  /\ progress' = [progress EXCEPT ![s] = @ + 1]
  /\ UNCHANGED <<command, gaps, found, plan, outcome, world>>

\* Both attempts of _read fail: a finding.  An authorization failure of the
\* namespace read cannot be told from a namespace that is not there.
ReadFails(s) ==
  /\ Turn(s) /\ Fault
  /\ Reads[progress[s] + 1] = "states" => Known(s) # {}
  /\ \/ /\ gaps' = gaps \cup {<<s, Reads[progress[s] + 1]>>} /\ UNCHANGED found
     \/ /\ Reads[progress[s] + 1] = "states"
        /\ found' = Enriched(s, TRUE) /\ UNCHANGED gaps
  /\ progress' = [progress EXCEPT ![s] = @ + 1]
  /\ UNCHANGED <<command, plan, outcome, world>>

NextRegion ==
  /\ command.pc = "scopes" /\ \A s \in DOMAIN progress : progress[s] = Len(Reads)
  /\ IF Len(command.regions) > 1
     THEN /\ command' = [command EXCEPT !.regions = Tail(@)]
          /\ progress' = [s \in Scopes(command.regions[2], command.compartments) |-> 0]
     ELSE command' = [command EXCEPT !.pc = "select"] /\ progress' = <<>>
  /\ UNCHANGED <<found, gaps, plan, outcome, world, budget>>

-----------------------------------------------------------------------------
(* Selection, graph and plan *)

\* The filters of a selection: an empty one lets everything through.
Passes(d, kind, f) ==
  /\ f.regions = {} \/ Region[d] \in f.regions
  /\ f.kinds = {} \/ kind \in f.kinds

\* The targets the selection asks for; exclusions always win.
Wanted(d, kind, f) ==
  d \notin f.excluded /\ (f.all \/ d \in f.included) /\ Passes(d, kind, f)

Matched(f) == {o \in found : Wanted(o.id, o.kind, f)}

\* The CDBs of the PDBs that matched, whatever the filters say about them.
Parents(f) == {o \in found : \E m \in Matched(f) : ParentOf[m.id] = o.id}

Selected(f) == Matched(f) \cup Parents(f)

\* select_targets: a PDB cannot be had without its CDB.
Unselectable(f) == \E p \in Parents(f) : p.id \in f.excluded

\* Mutant of GraphSound: parents are not checked.
GraphUnchecked(targets) == TRUE

\* build_dependency_graph: the CDB of a PDB is a target, of its family and place.
GraphSound(targets) ==
  \A t \in targets : Role[t.id] = "pdb" =>
    \E p \in targets :
      /\ p.id = ParentOf[t.id] /\ Role[p.id] = "cdb"
      /\ p.kind \in {"dbcs", "exadata"} /\ p.kind = t.kind /\ p.scope = t.scope

\* _bind_target: the references of the targets that have one.
Bound(targets, refs) == [d \in {t.id : t \in targets} \cap DOMAIN refs |-> refs[d]]

\* The settings of a target: _materialize_monitoring_target, _apply_answer_controls.
Settings(t, a, refs) ==
  [secret |-> IF t.id \in DOMAIN refs THEN refs[t.id] ELSE None,
   user |-> IF a.policy = "dedicated-user-unique-secret" THEN t.id ELSE "monitor",
   provision |-> t.kind \in a.provision,
   onboard |-> t.onboard]

PlanOf(targets, a, refs) ==
  [mode |-> a.mode, policy |-> a.policy, services |-> a.services,
   onboarding |-> "logan" \in a.services /\ \E t \in targets : t.onboard,
   targets |-> {[id |-> t.id, kind |-> t.kind,
                 dependencies |-> IF Role[t.id] = "pdb" THEN {ParentOf[t.id]} ELSE {},
                 settings |-> Settings(t, a, refs)] : t \in targets}]

Ends == command' = NoCommand

\* _lifecycle_plan after the discovery.  A gap, an excluded CDB, an unsound graph,
\* an unfit bindings file: the command fails.
MakePlan ==
  LET a       == command.answers
      targets == Selected(a.filters)
      refs    == Bound(targets, files.bindings.refs)
      refused == \/ gaps # {} \/ Unselectable(a.filters) \/ ~GraphSound(targets)
                 \/ ~ReadableBindings(files.bindings) \/ ~SecretsFit(refs, a)
  IN  /\ command.pc = "select"
      /\ IF refused THEN Ends /\ UNCHANGED plan
         ELSE /\ plan' = PlanOf(targets, a, refs)
              /\ command' = [command EXCEPT !.pc = "decide"]
      /\ UNCHANGED <<progress, found, gaps, outcome, world, budget>>

\* Mutant of PlanId: what does not compare equal is not hashed either.
PlanIdWithoutSettings(p) ==
  [mode |-> p.mode, policy |-> p.policy, services |-> p.services, onboarding |-> p.onboarding,
   targets |-> {[id |-> t.id, kind |-> t.kind, dependencies |-> t.dependencies] : t \in p.targets}]

\* The hash of the canonical plan, settings included (they do not take part in the
\* comparison of two plans).
PlanId(p) ==
  [mode |-> p.mode, policy |-> p.policy, services |-> p.services, onboarding |-> p.onboarding,
   targets |-> {<<t.id, t.kind, t.dependencies, t.settings>> : t \in p.targets}]

\* A run is started if this is the plan whose id was approved; otherwise the plan is
\* only shown, for a review.
Decide ==
  LET approved == ~command.planOnly /\ command.approval = PlanId(plan)
  IN  /\ command.pc = "decide"
      /\ shown' = IF approved THEN shown ELSE shown \cup {plan}
      /\ runs' = IF approved THEN runs \cup {plan} ELSE runs
      /\ Ends
      /\ UNCHANGED <<progress, found, gaps, plan, world, budget>>

-----------------------------------------------------------------------------
(* Outside the program *)

Change == budget.changes < MaxChanges /\ budget' = [budget EXCEPT !.changes = @ + 1]

during == <<command, progress, found, gaps, plan, outcome>>

\* A database appears, a PDB perhaps together with its CDB.
Create(d) ==
  /\ d \notin cloud /\ Change
  /\ cloud' = cloud \cup ({d, ParentOf[d]} \ {None})
  /\ UNCHANGED <<files, steady, during>>

\* A database disappears, a CDB with its PDBs.
Delete(d) ==
  /\ d \in cloud /\ Change
  /\ LET gone == {d} \cup {e \in Databases : ParentOf[e] = d}
     IN  cloud' = cloud \ gone /\ steady' = steady \ gone
  /\ UNCHANGED <<files, during>>

EditFiles ==
  /\ Change
  /\ \E a \in AnswerFiles, b \in BindingFiles : files' = [answers |-> a, bindings |-> b]
  /\ UNCHANGED <<cloud, steady, during>>

-----------------------------------------------------------------------------

AllScopes == {RegionOrder[i] : i \in DOMAIN RegionOrder} \X Compartments

Next ==
  \/ Onboard(TRUE, None) \/ \E p \in shown : Onboard(FALSE, PlanId(p))
  \/ ReadRegions \/ ReadCompartments
  \/ \E s \in AllScopes : ReadScope(s) \/ ReadFails(s)
  \/ NextRegion \/ MakePlan \/ Decide
  \/ \E d \in Databases : Create(d) \/ Delete(d)
  \/ EditFiles

Spec == Init /\ [][Next]_vars

-----------------------------------------------------------------------------
(* Properties *)

PlannedIds == {t.id : t \in plan.targets}

\* Every field of the state has its type.
TypeOK ==
  /\ cloud \subseteq Databases /\ steady \subseteq cloud
  /\ files.answers \in AnswerFiles /\ files.bindings \in BindingFiles
  /\ command.pc \in {"idle", "regions", "compartments", "scopes", "select", "decide"}
  /\ DOMAIN progress \subseteq AllScopes
  /\ found \subseteq [id : Databases, kind : Families, scope : AllScopes, onboard : BOOLEAN]
  /\ command.pc = "decide" => plan # None

\* Discovery fails closed (fleet_discovery.py: "an explicit discovery gap prevents
\* a result from being planned"): a plan has every database that was there all the
\* time and that the selection asks for, whichever read failed.
NothingMissed ==
  plan # None /\ command.pc = "decide" =>
    \A d \in steady :
      Wanted(d, Family[d], command.answers.filters) /\ Linked[d] = None => d \in PlannedIds

\* However the tenancy changes between two reads of a discovery, a planned PDB has
\* its CDB in the plan, of the same family, and depends on it: the executor finds
\* no target that waits for ever (fleet_dependencies.py).
PlanClosed ==
  plan # None =>
    \A t \in plan.targets :
      /\ t.dependencies \subseteq PlannedIds
      /\ Role[t.id] = "pdb" =>
           \E p \in plan.targets : p.id \in t.dependencies /\ Role[p.id] = "cdb" /\ p.kind = t.kind

\* A run has exactly the targets, families, Vault references and choices a reviewer
\* was shown, though discovery, answers and bindings were read again since (fleet.py
\* require_approval, cli.py _cmd_onboard).  Shown is what the id covers; the summary that is
\* printed has handles for the targets and no references.
RunIsReviewed == runs \subseteq shown

\* README.md, "Credential policies": "dedicated-user-unique-secret: Unique Vault
\* reference per target".
DedicatedSecretsUnique ==
  \A p \in runs : p.policy = "dedicated-user-unique-secret" =>
    \A s, t \in p.targets :
      s # t /\ s.settings.secret # None => s.settings.secret # t.settings.secret
=============================================================================
