-------------------------- MODULE FleetPlanningProofs --------------------------
(***************************************************************************)
(* What FleetPlanning's run checks on one tenancy, for every tenancy: a    *)
(* plan is closed under the CDBs of its PDBs, what a run is started with   *)
(* has been shown to a reviewer, and a discovery without a gap has missed  *)
(* nothing.  The last is an induction over the reads: as long as no gap    *)
(* has been noted, every region is done with, being read or still to come, *)
(* and in the one being read each read that was made has observed the      *)
(* databases it is about (Scanning), the CDBs before their PDBs.           *)
(***************************************************************************)
EXTENDS FleetPlanning, TLAPS

\* A sound graph gives a closed plan (build_dependency_graph, then the targets of
\* DatabaseLifecyclePlan), whatever the answers and the bindings are.
LEMMA SoundGraphClosed ==
  ASSUME NEW targets, NEW a, NEW refs, GraphSound(targets),
         NEW p, p = PlanOf(targets, a, refs)
  PROVE  \A t \in p.targets :
           /\ t.dependencies \subseteq {u.id : u \in p.targets}
           /\ Role[t.id] = "pdb" =>
                \E u \in p.targets : u.id \in t.dependencies /\ Role[u.id] = "cdb" /\ u.kind = t.kind
<1> DEFINE Row(x) == [id |-> x.id, kind |-> x.kind,
                      dependencies |-> IF Role[x.id] = "pdb" THEN {ParentOf[x.id]} ELSE {},
                      settings |-> Settings(x, a, refs)]
<1>1. p.targets = {Row(x) : x \in targets}
  BY DEF PlanOf
<1>2. \A x : /\ Row(x).id = x.id /\ Row(x).kind = x.kind
             /\ Row(x).dependencies = IF Role[x.id] = "pdb" THEN {ParentOf[x.id]} ELSE {}
  OBVIOUS
<1> HIDE DEF Row
<1>3. SUFFICES ASSUME NEW x \in targets, NEW t, t = Row(x)
               PROVE  /\ t.dependencies \subseteq {u.id : u \in p.targets}
                      /\ Role[t.id] = "pdb" =>
                           \E u \in p.targets : u.id \in t.dependencies /\ Role[u.id] = "cdb" /\ u.kind = t.kind
  BY <1>1
<1>4. CASE Role[x.id] = "pdb"
  <2>1. PICK y \in targets : y.id = ParentOf[x.id] /\ Role[y.id] = "cdb" /\ y.kind = x.kind
    BY <1>4 DEF GraphSound
  <2>2. Row(y) \in p.targets
    BY <1>1
  <2>3. Row(y).id = ParentOf[x.id] /\ Row(y).kind = t.kind /\ Role[Row(y).id] = "cdb"
    BY <2>1, <1>2, <1>3
  <2>4. t.dependencies = {ParentOf[x.id]}
    BY <1>2, <1>3, <1>4
  <2>5. ParentOf[x.id] \in {u.id : u \in p.targets}
    BY <2>2, <2>3
  <2>6. QED
    BY <2>2, <2>3, <2>4, <2>5
<1>5. CASE Role[x.id] # "pdb"
  BY <1>2, <1>3, <1>5
<1>6. QED
  BY <1>4, <1>5

\* However the tenancy changes under a discovery, a planned PDB has its CDB in the
\* plan, of the same family: no target waits for one that is not there.
THEOREM PlanningPlanClosed == Spec => []PlanClosed
<1>1. Init => PlanClosed
  BY DEF Init, PlanClosed
<1>2. PlanClosed /\ [Next]_vars => PlanClosed'
  <2> SUFFICES ASSUME PlanClosed, [Next]_vars PROVE PlanClosed'
    OBVIOUS
  <2>1. CASE UNCHANGED plan
    BY <2>1 DEF PlanClosed, PlannedIds
  <2>2. CASE plan' = None
    BY <2>2 DEF PlanClosed
  <2>3. CASE MakePlan
    <3> DEFINE a == command.answers
               targets == Selected(a.filters)
               refs == Bound(targets, files.bindings.refs)
    <3>1. \/ UNCHANGED plan
          \/ GraphSound(targets) /\ plan' = PlanOf(targets, a, refs)
      BY <2>3 DEF MakePlan
    <3> HIDE DEF targets, a, refs
    <3>2. CASE GraphSound(targets) /\ plan' = PlanOf(targets, a, refs)
      <4>1. \A t \in plan'.targets :
              /\ t.dependencies \subseteq {u.id : u \in plan'.targets}
              /\ Role[t.id] = "pdb" =>
                   \E u \in plan'.targets : u.id \in t.dependencies /\ Role[u.id] = "cdb" /\ u.kind = t.kind
        BY <3>2, SoundGraphClosed
      <4>2. QED
        BY <4>1 DEF PlanClosed, PlannedIds
    <3>3. QED
      BY <3>1, <3>2, <2>1
  <2>4. MakePlan \/ UNCHANGED plan \/ plan' = None
    BY DEF Next, vars, Onboard, ReadRegions, ReadCompartments, ReadScope, ReadFails,
           NextRegion, Decide, Create, Delete, EditFiles, world, during
  <2>5. QED
    BY <2>1, <2>2, <2>3, <2>4
<1>3. QED
  BY <1>1, <1>2, PTL DEF Spec

-----------------------------------------------------------------------------

\* A plan as PlanOf makes it: it has these fields and no others, and so have its
\* targets; this is what makes the id tell two plans apart.
WellFormed(p) ==
  /\ p = [mode |-> p.mode, policy |-> p.policy, services |-> p.services,
          onboarding |-> p.onboarding, targets |-> p.targets]
  /\ \A t \in p.targets :
       t = [id |-> t.id, kind |-> t.kind, dependencies |-> t.dependencies, settings |-> t.settings]

\* The plans of the program are of that form (DatabaseLifecyclePlan.create).
LEMMA PlanOfWellFormed ==
  ASSUME NEW targets, NEW a, NEW refs
  PROVE  WellFormed(PlanOf(targets, a, refs))
<1> DEFINE Row(x) == [id |-> x.id, kind |-> x.kind,
                      dependencies |-> IF Role[x.id] = "pdb" THEN {ParentOf[x.id]} ELSE {},
                      settings |-> Settings(x, a, refs)]
           rows == {Row(x) : x \in targets}
<1>1. \A t \in rows :
        t = [id |-> t.id, kind |-> t.kind, dependencies |-> t.dependencies, settings |-> t.settings]
  OBVIOUS
<1> DEFINE onboarding == "logan" \in a.services /\ \E t \in targets : t.onboard
<1>2. PlanOf(targets, a, refs) =
        [mode |-> a.mode, policy |-> a.policy, services |-> a.services,
         onboarding |-> onboarding, targets |-> rows]
  BY DEF PlanOf
<1> HIDE DEF rows, onboarding
<1>3. QED
  BY <1>1, <1>2 DEF WellFormed

\* Two plans with one id are one plan: the id hashes every field of a target, the
\* settings included (fleet.py plan_id, _canonical).
LEMMA PlanIdInjective ==
  ASSUME NEW p, NEW q, WellFormed(p), WellFormed(q), PlanId(p) = PlanId(q)
  PROVE  p = q
<1> DEFINE Key(t) == <<t.id, t.kind, t.dependencies, t.settings>>
           Keys(r) == {Key(t) : t \in r.targets}
<1>1. /\ p.mode = q.mode /\ p.policy = q.policy /\ p.services = q.services
      /\ p.onboarding = q.onboarding /\ Keys(p) = Keys(q)
  BY DEF PlanId
<1>2. ASSUME NEW r, NEW s, WellFormed(r), WellFormed(s), Keys(r) = Keys(s), NEW t \in r.targets
      PROVE  t \in s.targets
  <2>1. Key(t) \in Keys(s)
    BY <1>2
  <2>2. PICK u \in s.targets : Key(u) = Key(t)
    BY <2>1
  <2>3. u.id = t.id /\ u.kind = t.kind /\ u.dependencies = t.dependencies /\ u.settings = t.settings
    BY <2>2
  <2>4. t = u
    BY <2>2, <2>3, <1>2 DEF WellFormed
  <2>5. QED
    BY <2>2, <2>4
<1> HIDE DEF Keys
<1>3. p.targets = q.targets
  BY <1>1, <1>2
<1>4. QED
  BY <1>1, <1>3 DEF WellFormed

\* A command that may start a run was given the id of a plan that has been shown.
Approved == ~command.planOnly => \E p \in shown : command.approval = PlanId(p)

ReviewInv ==
  /\ {"pc", "planOnly", "approval"} \subseteq DOMAIN command
  /\ Approved
  /\ \A p \in shown : WellFormed(p)
  /\ command.pc = "decide" => WellFormed(plan)
  /\ runs \subseteq shown

\* No command runs at first and nothing has been shown.
LEMMA ReviewInit == Init => ReviewInv
  BY DEF Init, NoCommand, ReviewInv, Approved

\* Every step keeps the invariant: only Onboard gives an approval, only MakePlan
\* makes a plan, and only Decide shows one or starts a run.
LEMMA ReviewStep == ReviewInv /\ [Next]_vars => ReviewInv'
<1> SUFFICES ASSUME ReviewInv, [Next]_vars PROVE ReviewInv'
  OBVIOUS
<1> USE DEF ReviewInv
<1>1. CASE Onboard(TRUE, None)
  BY <1>1 DEF Onboard, NoCommand, Approved, outcome
<1>2. CASE \E p \in shown : Onboard(FALSE, PlanId(p))
  <2>1. PICK p \in shown : Onboard(FALSE, PlanId(p))
    BY <1>2
  <2>2. /\ command'.pc = "regions" /\ command'.approval = PlanId(p)
        /\ {"pc", "planOnly", "approval"} \subseteq DOMAIN command'
        /\ shown' = shown /\ runs' = runs
    BY <2>1 DEF Onboard, NoCommand, outcome
  <2>3. Approved'
    BY <2>2 DEF Approved
  <2>4. QED
    BY <2>2, <2>3
<1>3. ASSUME /\ {"pc", "planOnly", "approval"} \subseteq DOMAIN command'
             /\ command'.planOnly = command.planOnly /\ command'.approval = command.approval
             /\ command'.pc # "decide" /\ UNCHANGED outcome
      PROVE  ReviewInv'
  BY <1>3 DEF Approved, outcome
<1>4. CASE ReadRegions
  BY <1>4, <1>3 DEF ReadRegions
<1>5. CASE ReadCompartments
  BY <1>5, <1>3 DEF ReadCompartments
<1>6. CASE NextRegion
  BY <1>6, <1>3 DEF NextRegion
<1>7. CASE MakePlan
  <2> DEFINE a == command.answers
             targets == Selected(a.filters)
             refs == Bound(targets, files.bindings.refs)
  <2>1. \/ command' = NoCommand
        \/ plan' = PlanOf(targets, a, refs) /\ command' = [command EXCEPT !.pc = "decide"]
    BY <1>7 DEF MakePlan, Ends
  <2>2. UNCHANGED outcome
    BY <1>7 DEF MakePlan
  <2> HIDE DEF a, targets, refs
  <2>3. CASE command' = NoCommand
    BY <2>2, <2>3 DEF NoCommand, Approved, outcome
  <2>4. CASE plan' = PlanOf(targets, a, refs) /\ command' = [command EXCEPT !.pc = "decide"]
    <3>1. WellFormed(plan')
      BY <2>4, PlanOfWellFormed
    <3>2. QED
      BY <2>2, <2>4, <3>1 DEF Approved, outcome
  <2>5. QED
    BY <2>1, <2>3, <2>4
<1>8. CASE Decide
  <2>1. WellFormed(plan) /\ command' = NoCommand /\ plan' = plan
    BY <1>8 DEF Decide, Ends
  <2>2. CASE ~command.planOnly /\ command.approval = PlanId(plan)
    <3>1. PICK p \in shown : command.approval = PlanId(p)
      BY <2>2 DEF Approved
    <3>2. plan = p
      BY <2>1, <2>2, <3>1, PlanIdInjective
    <3>3. shown' = shown /\ runs' = runs \cup {plan}
      BY <1>8, <2>2 DEF Decide
    <3>4. QED
      BY <2>1, <3>1, <3>2, <3>3 DEF NoCommand, Approved
  <2>3. CASE ~(~command.planOnly /\ command.approval = PlanId(plan))
    <3>1. shown' = shown \cup {plan} /\ runs' = runs
      BY <1>8, <2>3 DEF Decide
    <3>2. QED
      BY <2>1, <3>1 DEF NoCommand, Approved
  <2>4. QED
    BY <2>2, <2>3
<1>9. CASE UNCHANGED <<command, plan, outcome>>
  BY <1>9 DEF Approved, outcome
<1>10. UNCHANGED <<command, plan, outcome>> \/ Onboard(TRUE, None)
       \/ (\E p \in shown : Onboard(FALSE, PlanId(p)))
       \/ ReadRegions \/ ReadCompartments \/ NextRegion \/ MakePlan \/ Decide
  BY DEF Next, vars, ReadScope, ReadFails, Create, Delete, EditFiles, world, during, outcome
<1>11. QED
  BY <1>1, <1>2, <1>4, <1>5, <1>6, <1>7, <1>8, <1>9, <1>10

\* A run is only ever started with a plan that a command has shown, though it is
\* made anew from the tenancy and the files as they are by then.
THEOREM PlanningRunIsReviewed == Spec => []RunIsReviewed
<1>1. ReviewInv => RunIsReviewed
  BY DEF ReviewInv, RunIsReviewed
<1>2. QED
  BY <1>1, ReviewInit, ReviewStep, PTL DEF Spec

-----------------------------------------------------------------------------
(* Nothing is missed *)

\* The scope a database is read in.
Place(d) == <<Region[d], Compartment[d]>>

\* The discovery has observed d, with its family.
Seen(d) == \E o \in found : o.id = d /\ o.kind = Family[d] /\ o.scope = Place(d)

\* The databases that have been there all the time, but for the managed databases
\* that may stand for a native one.
Expected == {d \in steady : Role[d] = "external" => Linked[d] = None}

\* A PDB exists only with its CDB.
Closed(S) == \A d \in S : Role[d] = "pdb" => ParentOf[d] \in S

Regions == {RegionOrder[i] : i \in DOMAIN RegionOrder}
Finding == [id : Databases, kind : Families, scope : AllScopes, onboard : BOOLEAN]
CommandFields == {"pc", "planOnly", "approval", "answers", "regions", "compartments"}

\* What the tenancy and the state look like throughout.
Tenancy ==
  /\ cloud \subseteq Databases /\ steady \subseteq cloud /\ Closed(cloud) /\ Closed(steady)
  /\ found \subseteq Finding
  /\ CommandFields \subseteq DOMAIN command

\* Without a gap so far: a region is done with, being read, or still to come, and in
\* the one being read a read that was made has observed what it had to.
Scanning ==
  /\ command.regions \in Seq(Regions) /\ command.regions # <<>>
  /\ command.compartments = Compartments
  /\ DOMAIN progress = Scopes(Head(command.regions), Compartments)
  /\ \A s \in DOMAIN progress : progress[s] \in 0 .. 5
  /\ \A d \in Expected :
       Seen(d) \/ \E i \in 1 .. Len(command.regions) : command.regions[i] = Region[d]
  /\ \A d \in Expected, i \in 1 .. 4 :
       /\ Region[d] = Head(command.regions)
       /\ Role[d] = Reads[i] /\ i <= progress[Place(d)]
       => Seen(d)

DiscoveryInv ==
  /\ Tenancy
  /\ gaps = {} =>
       /\ command.pc = "compartments" => command.regions = RegionOrder
       /\ command.pc = "scopes" => Scanning
       /\ command.pc = "select" => \A d \in Expected : Seen(d)
  /\ NothingMissed

\* The five reads of a scope, in their order.
LEMMA ReadsInOrder ==
  /\ Len(Reads) = 5 /\ Reads[1] = "cdb" /\ Reads[2] = "pdb" /\ Reads[3] = "autonomous"
  /\ Reads[4] = "external" /\ Reads[5] = "states"
  BY DEF Reads

\* Every database is read in one of the first four.
LEMMA RoleRead ==
  ASSUME NEW d \in Databases
  PROVE  \E i \in 1 .. 4 : Role[d] = Reads[i]
  BY ReadsInOrder, PlanningAssumption DEF Roles

\* The order of the reads is one: a name comes once.
LEMMA ReadsDiffer ==
  \A i, j \in 1 .. 5 : Reads[i] = Reads[j] => i = j
  BY ReadsInOrder

\* A CDB is in the scope of its PDB.
LEMMA ParentPlace ==
  ASSUME NEW d \in Databases, Role[d] = "pdb"
  PROVE  /\ ParentOf[d] \in Databases /\ Role[ParentOf[d]] = "cdb"
         /\ Place(ParentOf[d]) = Place(d)
  BY PlanningAssumption DEF Place

\* What has been observed stays so, whatever a read adds or the enrichment marks.
LEMMA SeenStays ==
  ASSUME Tenancy, NEW s, NEW onboard \in BOOLEAN, NEW more,
         found' = found \cup more \/ found' = Enriched(s, onboard)
  PROVE  \A d : Seen(d) => Seen(d)'
<1> SUFFICES ASSUME NEW d, NEW o \in found, o.id = d, o.kind = Family[d], o.scope = Place(d)
             PROVE  \E q \in found' : q.id = d /\ q.kind = Family[d] /\ q.scope = Place(d)
  BY DEF Seen, Place
<1>1. CASE found' = found \cup more
  BY <1>1
<1>2. CASE found' = Enriched(s, onboard)
  <2> DEFINE q == IF o.scope = s THEN [o EXCEPT !.onboard = onboard] ELSE o
  <2>1. q \in found'
    BY <1>2 DEF Enriched
  <2>2. o \in Finding
    BY DEF Tenancy
  <2>3. q.id = o.id /\ q.kind = o.kind /\ q.scope = o.scope
    BY <2>2 DEF Finding
  <2> HIDE DEF q
  <2> QED
    BY <2>1, <2>3
<1> QED
  BY <1>1, <1>2

\* The findings stay findings.
LEMMA FindingStays ==
  ASSUME Tenancy, NEW s \in AllScopes, NEW onboard \in BOOLEAN, NEW read
  PROVE  found \cup Observed(s, read) \subseteq Finding /\ Enriched(s, onboard) \subseteq Finding
<1>1. Enriched(s, onboard) \subseteq Finding
  BY DEF Tenancy, Enriched, Finding
<1>2. Observed(s, read) \subseteq Finding
  <2> SUFFICES ASSUME NEW d \in Databases
               PROVE  [id |-> d, kind |-> SeenKind(s, d), scope |-> s, onboard |-> FALSE] \in Finding
    BY DEF Observed, Tenancy
  <2>1. SeenKind(s, d) \in Families
    BY PlanningAssumption DEF SeenKind, Families
  <2> QED
    BY <2>1 DEF Finding
<1> QED
  BY <1>1, <1>2 DEF Tenancy

\* A read observes the databases it is about, a PDB with the family of its CDB if the
\* CDB has been observed before.
LEMMA ReadObserves ==
  ASSUME Tenancy, NEW d \in Expected, Role[d] = "pdb" => Seen(ParentOf[d])
  PROVE  \E o \in Observed(Place(d), Role[d]) :
           o.id = d /\ o.kind = Family[d] /\ o.scope = Place(d)
<1> DEFINE o == [id |-> d, kind |-> SeenKind(Place(d), d), scope |-> Place(d), onboard |-> FALSE]
<1>1. d \in cloud /\ d \in Databases
  BY DEF Tenancy, Expected
<1>2. Role[d] = "external" => Linked[d] \notin Known(Place(d))
  <2>1. Known(Place(d)) \subseteq Databases
    BY DEF Tenancy, Known, Finding
  <2> QED
    BY <2>1, PlanningAssumption DEF Expected
<1>3. o \in Observed(Place(d), Role[d])
  BY <1>1, <1>2 DEF Observed, Place
<1>4. SeenKind(Place(d), d) = Family[d]
  <2>1. CASE Role[d] = "pdb"
    <3>1. ParentOf[d] \in Known(Place(d))
      BY <1>1, <2>1, ParentPlace DEF Seen, Known
    <3> QED
      BY <3>1 DEF SeenKind
  <2>2. CASE Role[d] # "pdb"
    BY <2>2 DEF SeenKind
  <2> QED
    BY <2>1, <2>2
<1> HIDE DEF Seen
<1> QED
  BY <1>3, <1>4

\* Nothing has been read at first, and no PDB is without its CDB.
LEMMA DiscoveryInit == Init => DiscoveryInv
<1> SUFFICES ASSUME Init PROVE DiscoveryInv
  OBVIOUS
<1>1. cloud \subseteq Databases /\ Closed(cloud)
  BY PlanningAssumption DEF Init, Closed
<1>2. /\ found = {} /\ steady = {} /\ command = NoCommand /\ plan = None
  BY DEF Init
<1> QED
  BY <1>1, <1>2 DEF DiscoveryInv, Tenancy, Closed, NoCommand, CommandFields, NothingMissed

\* A step that reads nothing and forgets nothing: fewer databases are expected.
LEMMA DiscoveryCarried ==
  ASSUME DiscoveryInv, Tenancy', UNCHANGED <<command, progress, found, gaps, plan>>,
         steady' \subseteq steady
  PROVE  DiscoveryInv'
<1>1. Expected' \subseteq Expected /\ \A d : Seen(d)' <=> Seen(d)
  BY DEF Expected, Seen, Place
<1>2. Scanning => Scanning'
  BY <1>1 DEF Scanning, Place
<1>3. NothingMissed'
  BY DEF DiscoveryInv, NothingMissed, PlannedIds
<1> QED
  BY <1>1, <1>2, <1>3 DEF DiscoveryInv

\* The change of a command's place keeps its fields.
LEMMA CommandKeeps ==
  ASSUME Tenancy, NEW l
  PROVE  /\ CommandFields \subseteq DOMAIN [command EXCEPT !.pc = l]
         /\ [command EXCEPT !.pc = l].pc = l
         /\ \A rs : LET c == [command EXCEPT !.pc = l, !.regions = rs]
                    IN  CommandFields \subseteq DOMAIN c /\ c.pc = l /\ c.regions = rs
         /\ \A cs : LET c == [command EXCEPT !.pc = l, !.compartments = cs]
                    IN  /\ CommandFields \subseteq DOMAIN c /\ c.pc = l /\ c.compartments = cs
                        /\ c.regions = command.regions
         /\ \A rs : LET c == [command EXCEPT !.regions = rs]
                    IN  /\ CommandFields \subseteq DOMAIN c /\ c.pc = command.pc /\ c.regions = rs
                        /\ c.compartments = command.compartments
         /\ [command EXCEPT !.pc = l].answers = command.answers
  BY DEF Tenancy, CommandFields

\* A read of a scope that has gone through, or a namespace that is not there.
LEMMA ReadStep ==
  ASSUME DiscoveryInv, NEW s \in AllScopes, ReadScope(s) \/ ReadFails(s)
  PROVE  DiscoveryInv'
<1>0. Tenancy
  BY DEF DiscoveryInv
<1>1. /\ command.pc = "scopes" /\ s \in DOMAIN progress
      /\ progress' = [progress EXCEPT ![s] = @ + 1]
      /\ UNCHANGED <<command, plan, cloud, steady>>
  BY DEF ReadScope, ReadFails, Turn, world
<1>2. \/ gaps' # {} /\ found' = found
      \/ gaps' = gaps /\ Reads[progress[s] + 1] = "states"
           /\ \E onboard \in BOOLEAN : found' = Enriched(s, onboard)
      \/ gaps' = gaps /\ Reads[progress[s] + 1] # "states"
           /\ found' = found \cup Observed(s, Reads[progress[s] + 1])
  <2> DEFINE read == Reads[progress[s] + 1]
  <2>1. CASE ReadScope(s)
    <3>1. /\ gaps' = gaps
          /\ found' = IF read = "states" THEN Enriched(s, s[1] \in NotOnboarded)
                      ELSE found \cup Observed(s, read)
      BY <2>1 DEF ReadScope
    <3>2. (s[1] \in NotOnboarded) \in BOOLEAN
      OBVIOUS
    <3> HIDE DEF read
    <3> QED
      BY <3>1, <3>2, Zenon DEF read
  <2>2. CASE ReadFails(s)
    BY <2>2 DEF ReadFails
  <2> QED
    BY <2>1, <2>2
<1>3. Tenancy'
  <2>1. found' \subseteq Finding
    BY <1>0, <1>2, FindingStays DEF Tenancy
  <2> QED
    BY <1>0, <1>1, <2>1 DEF Tenancy, Closed
<1>4. NothingMissed'
  BY <1>1 DEF NothingMissed
<1>5. ASSUME gaps' = {} PROVE Scanning'
  <2>1. gaps = {} /\ Scanning
    BY <1>1, <1>2, <1>5 DEF DiscoveryInv
  <2>2. \A d : Seen(d) => Seen(d)'
    BY <1>0, <1>2, <1>5, SeenStays
  <2>3. Expected' = Expected /\ Expected \subseteq Databases
    BY <1>0, <1>1 DEF Expected, Tenancy
  <2>4. /\ DOMAIN progress' = DOMAIN progress
        /\ progress[s] \in 0 .. 4 /\ progress'[s] = progress[s] + 1
        /\ \A r \in DOMAIN progress \ {s} : progress'[r] = progress[r]
    <3>1. progress[s] < Len(Reads) /\ progress[s] \in 0 .. 5
      BY <1>1, <2>1 DEF Scanning, ReadScope, ReadFails, Turn
    <3>2. progress[s] \in 0 .. 4
      BY <3>1, ReadsInOrder
    <3> QED
      BY <1>1, <3>2
  <2>5. \A r \in DOMAIN progress' : progress'[r] \in 0 .. 5
    BY <2>1, <2>4 DEF Scanning
  <2>6. ASSUME NEW d \in Expected, NEW i \in 1 .. 4, Region[d] = Head(command.regions),
               Role[d] = Reads[i], i <= progress'[Place(d)]
        PROVE  Seen(d)'
    <3>1. Place(d) \in DOMAIN progress
      BY <2>1, <2>3, <2>6 DEF Scanning, Place, Scopes, Compartments
    <3>2. CASE i <= progress[Place(d)]
      BY <2>1, <2>2, <2>6, <3>2 DEF Scanning
    <3>3. CASE ~(i <= progress[Place(d)])
      <4>1. Place(d) = s /\ i = progress[s] + 1
        BY <2>1, <2>4, <2>6, <3>1, <3>3 DEF Scanning
      <4>2. Reads[progress[s] + 1] # "states"
        BY <4>1, ReadsInOrder
      <4>3. found' = found \cup Observed(Place(d), Role[d])
        BY <1>2, <1>5, <2>6, <4>1, <4>2
      <4>4. Role[d] = "pdb" => Seen(ParentOf[d])
        <5> SUFFICES ASSUME Role[d] = "pdb" PROVE Seen(ParentOf[d])
          OBVIOUS
        <5>1. /\ ParentOf[d] \in Databases /\ Role[ParentOf[d]] = "cdb"
              /\ Place(ParentOf[d]) = Place(d)
          BY <2>3, ParentPlace
        <5>2. ParentOf[d] \in Expected
          BY <1>0, <5>1 DEF Tenancy, Closed, Expected
        <5>3. i = 2 /\ 1 <= progress[s]
          BY <2>4, <2>6, <4>1, ReadsInOrder
        <5>4. Region[ParentOf[d]] = Head(command.regions)
          BY <2>3, <2>6, PlanningAssumption
        <5>5. \A j \in 1 .. 4 : Role[ParentOf[d]] = Reads[j] /\ j <= progress[Place(ParentOf[d])]
                                  => Seen(ParentOf[d])
          BY <2>1, <5>2, <5>4 DEF Scanning
        <5> QED
          BY <4>1, <5>1, <5>3, <5>5, ReadsInOrder
      <4>5. \E o \in found' : o.id = d /\ o.kind = Family[d] /\ o.scope = Place(d)
        BY <1>0, <4>3, <4>4, ReadObserves
      <4> QED
        BY <4>5 DEF Seen, Place
    <3> QED
      BY <3>2, <3>3
  <2>7. \A d \in Expected :
          Seen(d)' \/ \E i \in 1 .. Len(command.regions) : command.regions[i] = Region[d]
    BY <2>1, <2>2 DEF Scanning
  <2> QED
    BY <1>1, <2>1, <2>3, <2>4, <2>5, <2>6, <2>7 DEF Scanning, Place
<1> QED
  BY <1>1, <1>3, <1>4, <1>5 DEF DiscoveryInv

\* The discovery begins with what there is, and with nothing read.
LEMMA OnboardStep ==
  ASSUME DiscoveryInv, NEW planOnly, NEW approval, Onboard(planOnly, approval)
  PROVE  DiscoveryInv'
<1>1. /\ command' = [NoCommand EXCEPT !.pc = "regions", !.planOnly = planOnly,
                       !.approval = approval, !.answers = files.answers]
      /\ found' = {} /\ plan' = None /\ steady' = cloud /\ cloud' = cloud
  BY DEF Onboard
<1>2. command'.pc = "regions" /\ CommandFields \subseteq DOMAIN command'
  BY <1>1 DEF NoCommand, CommandFields
<1> QED
  BY <1>1, <1>2 DEF DiscoveryInv, Tenancy, Closed, NothingMissed

\* The regions and the compartments: a list that could not be read leaves a gap.
LEMMA ListsStep ==
  ASSUME DiscoveryInv, ReadRegions \/ ReadCompartments
  PROVE  DiscoveryInv'
<1>0. Tenancy /\ UNCHANGED <<cloud, steady, found, plan>>
  BY DEF DiscoveryInv, ReadRegions, ReadCompartments, world
<1>1. CASE ReadRegions
  <2>1. PICK rs : command' = [command EXCEPT !.pc = "compartments", !.regions = rs]
                  /\ (gaps' = {} => rs = RegionOrder)
    BY <1>1 DEF ReadRegions
  <2>2. /\ CommandFields \subseteq DOMAIN command' /\ command'.pc = "compartments"
        /\ gaps' = {} => command'.regions = RegionOrder
    BY <1>0, <2>1, CommandKeeps
  <2> QED
    BY <1>0, <2>2 DEF DiscoveryInv, Tenancy, Closed, NothingMissed
<1>2. CASE ReadCompartments
  <2>1. PICK cs \in {Compartments, {}} :
          /\ command' = [command EXCEPT !.pc = "scopes", !.compartments = cs]
          /\ progress' = [s \in Scopes(Head(command.regions), cs) |-> 0]
          /\ gaps' = {} => gaps = {} /\ cs # {}
    BY <1>2 DEF ReadCompartments
  <2>2. /\ CommandFields \subseteq DOMAIN command' /\ command'.pc = "scopes"
        /\ command'.compartments = cs /\ command'.regions = command.regions
    BY <1>0, <2>1, CommandKeeps
  <2>3. ASSUME gaps' = {} PROVE Scanning'
    <3>1. cs = Compartments /\ command.regions = RegionOrder
      BY <1>2, <2>1, <2>3 DEF DiscoveryInv, ReadCompartments
    <3>2. RegionOrder \in Seq(Regions) /\ RegionOrder # <<>>
      BY PlanningAssumption DEF Regions
    <3>3. ASSUME NEW d \in Expected'
          PROVE  \E i \in 1 .. Len(RegionOrder) : RegionOrder[i] = Region[d]
      <4>1. d \in Databases
        BY <1>0, <3>3 DEF Expected, Tenancy
      <4>2. DOMAIN RegionOrder = 1 .. Len(RegionOrder)
        BY <3>2
      <4> QED
        BY <4>1, <4>2, PlanningAssumption
    <3>4. /\ DOMAIN progress' = Scopes(Head(RegionOrder), Compartments)
          /\ \A s \in DOMAIN progress' : progress'[s] = 0
      BY <2>1, <3>1
    <3>5. \A d \in Expected', i \in 1 .. 4 :
            Region[d] = Head(RegionOrder) => ~(i <= progress'[Place(d)])
      <4> SUFFICES ASSUME NEW d \in Expected', NEW i \in 1 .. 4, Region[d] = Head(RegionOrder)
                   PROVE  ~(i <= progress'[Place(d)])
        OBVIOUS
      <4>1. Place(d) \in DOMAIN progress'
        BY <1>0, <3>4 DEF Place, Scopes, Compartments, Expected, Tenancy
      <4> QED
        BY <3>4, <4>1
    <3> QED
      BY <2>2, <3>1, <3>2, <3>3, <3>4, <3>5 DEF Scanning, Place
  <2> QED
    BY <1>0, <2>2, <2>3 DEF DiscoveryInv, Tenancy, Closed, NothingMissed
<1> QED
  BY <1>1, <1>2

\* The next region, or the end: every database of a region that is done with has
\* been observed.
LEMMA RegionStep ==
  ASSUME DiscoveryInv, NextRegion
  PROVE  DiscoveryInv'
<1>0. /\ Tenancy /\ command.pc = "scopes"
      /\ UNCHANGED <<cloud, steady, found, gaps, plan>>
      /\ \A s \in DOMAIN progress : progress[s] = Len(Reads)
  BY DEF DiscoveryInv, NextRegion, world
<1>1. CASE Len(command.regions) > 1
  <2>1. /\ command' = [command EXCEPT !.regions = Tail(command.regions)]
        /\ progress' = [s \in Scopes(command.regions[2], command.compartments) |-> 0]
    BY <1>1 DEF NextRegion
  <2>2. /\ CommandFields \subseteq DOMAIN command' /\ command'.pc = "scopes"
        /\ command'.regions = Tail(command.regions)
        /\ command'.compartments = command.compartments
    BY <1>0, <2>1, CommandKeeps
  <2>3. ASSUME gaps' = {} PROVE Scanning'
    <3> DEFINE rs == command.regions
    <3>1. Scanning /\ Expected' = Expected /\ \A d : Seen(d)' <=> Seen(d)
      BY <1>0, <2>3 DEF DiscoveryInv, Expected, Seen, Place
    <3>2. rs \in Seq(Regions) /\ rs # <<>>
      BY <3>1 DEF Scanning
    <3>3. /\ Tail(rs) \in Seq(Regions) /\ Tail(rs) # <<>> /\ Head(Tail(rs)) = rs[2]
          /\ Len(Tail(rs)) = Len(rs) - 1
          /\ \A i \in 1 .. Len(Tail(rs)) : Tail(rs)[i] = rs[i + 1]
      <4>1. rs \in Seq(Regions) /\ Len(rs) \in Nat /\ Len(rs) > 1
        BY <1>1, <3>2
      <4> HIDE DEF rs
      <4>2. /\ Tail(rs) \in Seq(Regions) /\ Len(Tail(rs)) = Len(rs) - 1
            /\ \A i \in 1 .. Len(Tail(rs)) : Tail(rs)[i] = rs[i + 1]
        BY <4>1
      <4>3. Tail(rs) # <<>> /\ Head(Tail(rs)) = Tail(rs)[1]
        <5> DEFINE rest == Tail(rs)
        <5>1. rest \in Seq(Regions) /\ Len(rest) > 0
          BY <4>1, <4>2
        <5> HIDE DEF rest
        <5>2. rest # <<>> /\ Head(rest) = rest[1]
          BY <5>1
        <5> QED
          BY <5>2 DEF rest
      <4>4. Tail(rs)[1] = rs[2]
        BY <4>1, <4>2
      <4> QED
        BY <4>2, <4>3, <4>4
    <3>4. ASSUME NEW d \in Expected
          PROVE  Seen(d) \/ \E i \in 1 .. Len(Tail(rs)) : Tail(rs)[i] = Region[d]
      <4>1. d \in Databases
        BY <1>0 DEF Expected, Tenancy
      <4>2. CASE Region[d] = Head(rs)
        <5>1. PICK j \in 1 .. 4 : Role[d] = Reads[j]
          BY <4>1, RoleRead
        <5>2. Place(d) \in DOMAIN progress
          BY <3>1, <4>1, <4>2 DEF Scanning, Place, Scopes, Compartments
        <5>3. j <= progress[Place(d)]
          BY <1>0, <5>1, <5>2, ReadsInOrder
        <5> QED
          BY <3>1, <4>2, <5>1, <5>3 DEF Scanning
      <4>3. CASE Region[d] # Head(rs) /\ ~Seen(d)
        <5>1. PICK i \in 1 .. Len(rs) : rs[i] = Region[d]
          BY <3>1, <4>3 DEF Scanning
        <5>2. i # 1
          BY <3>2, <4>3, <5>1
        <5>3. i - 1 \in 1 .. Len(Tail(rs)) /\ Tail(rs)[i - 1] = rs[i]
          BY <3>2, <3>3, <5>1, <5>2
        <5> QED
          BY <5>1, <5>3
      <4> QED
        BY <4>2, <4>3
    <3>5. /\ DOMAIN progress' = Scopes(rs[2], Compartments)
          /\ \A s \in DOMAIN progress' : progress'[s] = 0
      BY <2>1, <3>1 DEF Scanning
    <3>6. \A d \in Expected, i \in 1 .. 4 :
            Region[d] = rs[2] => ~(i <= progress'[Place(d)])
      <4> SUFFICES ASSUME NEW d \in Expected, NEW i \in 1 .. 4, Region[d] = rs[2]
                   PROVE  ~(i <= progress'[Place(d)])
        OBVIOUS
      <4>1. Place(d) \in DOMAIN progress'
        BY <1>0, <3>5 DEF Place, Scopes, Compartments, Expected, Tenancy
      <4> QED
        BY <3>5, <4>1
    <3>7. command.compartments = Compartments
      BY <3>1 DEF Scanning
    <3> HIDE DEF rs
    <3>8. command'.regions = Tail(rs)
      BY <2>2 DEF rs
    <3>9. \A d \in Expected' : Seen(d)' \/
            \E i \in 1 .. Len(command'.regions) : command'.regions[i] = Region[d]
      BY <3>1, <3>4, <3>8
    <3>10. \A d \in Expected', i \in 1 .. 4 :
             Region[d] = Head(command'.regions) => ~(i <= progress'[Place(d)])
      BY <3>1, <3>3, <3>6, <3>8
    <3>11. /\ command'.regions \in Seq(Regions) /\ command'.regions # <<>>
           /\ command'.compartments = Compartments
      BY <2>2, <3>3, <3>7, <3>8
    <3>12. DOMAIN progress' = Scopes(Head(command'.regions), Compartments)
      BY <3>3, <3>5, <3>8
    <3>13. \A s \in DOMAIN progress' : progress'[s] \in 0 .. 5
      BY <3>5
    <3> QED
      BY <3>9, <3>10, <3>11, <3>12, <3>13 DEF Scanning, Place
  <2> QED
    BY <1>0, <2>2, <2>3 DEF DiscoveryInv, Tenancy, Closed, NothingMissed
<1>2. CASE ~(Len(command.regions) > 1)
  <2>1. command' = [command EXCEPT !.pc = "select"]
    BY <1>2 DEF NextRegion
  <2>2. CommandFields \subseteq DOMAIN command' /\ command'.pc = "select"
    BY <1>0, <2>1, CommandKeeps
  <2>3. ASSUME gaps' = {}, NEW d \in Expected' PROVE Seen(d)'
    <3>1. /\ Scanning /\ d \in Expected /\ d \in Databases /\ (Seen(d)' <=> Seen(d))
      BY <1>0, <2>3 DEF DiscoveryInv, Expected, Seen, Place, Tenancy
    <3> SUFFICES ASSUME ~Seen(d) PROVE FALSE
      BY <3>1
    <3>2. PICK i \in 1 .. Len(command.regions) : command.regions[i] = Region[d]
      BY <3>1 DEF Scanning
    <3>3. Region[d] = Head(command.regions)
      BY <1>2, <3>1, <3>2 DEF Scanning
    <3>4. PICK j \in 1 .. 4 : Role[d] = Reads[j]
      BY <3>1, RoleRead
    <3>5. Place(d) \in DOMAIN progress
      BY <3>1, <3>3 DEF Scanning, Place, Scopes, Compartments
    <3>6. j <= progress[Place(d)]
      BY <1>0, <3>4, <3>5, ReadsInOrder
    <3> QED
      BY <3>1, <3>3, <3>4, <3>6 DEF Scanning
  <2> QED
    BY <1>0, <2>2, <2>3 DEF DiscoveryInv, Tenancy, Closed, NothingMissed
<1> QED
  BY <1>1, <1>2

\* A plan is made without a gap only, of everything that was observed and asked for.
LEMMA PlanStep ==
  ASSUME DiscoveryInv, MakePlan
  PROVE  DiscoveryInv'
<1> DEFINE a == command.answers
           targets == Selected(a.filters)
           refs == Bound(targets, files.bindings.refs)
<1>0. Tenancy /\ UNCHANGED <<cloud, steady, found, gaps>> /\ command.pc = "select"
  BY DEF DiscoveryInv, MakePlan, world
<1>1. \/ command' = NoCommand
      \/ /\ gaps = {} /\ plan' = PlanOf(targets, a, refs)
         /\ command' = [command EXCEPT !.pc = "decide"]
  BY DEF MakePlan, Ends
<1>2. CASE command' = NoCommand
  <2>1. CommandFields \subseteq DOMAIN command' /\ command'.pc = "idle"
    BY <1>2 DEF NoCommand, CommandFields
  <2> QED
    BY <1>0, <2>1 DEF DiscoveryInv, Tenancy, Closed, NothingMissed
<1>3. CASE /\ gaps = {} /\ plan' = PlanOf(targets, a, refs)
           /\ command' = [command EXCEPT !.pc = "decide"]
  <2>1. /\ CommandFields \subseteq DOMAIN command' /\ command'.pc = "decide"
        /\ command'.answers = command.answers
    BY <1>0, <1>3, CommandKeeps
  <2>2. \A d \in Expected : Seen(d)
    BY <1>0, <1>3 DEF DiscoveryInv
  <2>3. \A o \in targets : o.id \in PlannedIds'
    <3> SUFFICES ASSUME NEW o \in targets PROVE o.id \in {t.id : t \in plan'.targets}
      BY DEF PlannedIds
    <3> DEFINE t == [id |-> o.id, kind |-> o.kind,
                     dependencies |-> IF Role[o.id] = "pdb" THEN {ParentOf[o.id]} ELSE {},
                     settings |-> Settings(o, a, refs)]
    <3> HIDE DEF targets, refs, a
    <3>1. t \in plan'.targets
      BY <1>3 DEF PlanOf
    <3>2. t.id = o.id
      OBVIOUS
    <3> HIDE DEF t
    <3> QED
      BY <3>1, <3>2
  <2>4. ASSUME NEW d \in steady, Wanted(d, Family[d], command.answers.filters), Linked[d] = None
        PROVE  d \in PlannedIds'
    <3>1. d \in Expected
      BY <2>4 DEF Expected
    <3>2. PICK o \in found : o.id = d /\ o.kind = Family[d]
      BY <2>2, <3>1 DEF Seen
    <3>3. o \in targets
      BY <2>4, <3>2 DEF Selected, Matched
    <3> QED
      BY <2>3, <3>2, <3>3
  <2>5. NothingMissed'
    <3>1. \A d \in steady' :
            Wanted(d, Family[d], command'.answers.filters) /\ Linked[d] = None => d \in PlannedIds'
      BY <1>0, <2>1, <2>4
    <3> QED
      BY <3>1 DEF NothingMissed, Wanted, Passes
  <2> QED
    BY <1>0, <2>1, <2>5 DEF DiscoveryInv, Tenancy, Closed
<1> QED
  BY <1>1, <1>2, <1>3

\* A database that appears comes with its CDB, one that disappears takes its PDBs along.
LEMMA TenancyChanges ==
  ASSUME DiscoveryInv, NEW d \in Databases, Create(d) \/ Delete(d)
  PROVE  DiscoveryInv'
<1>1. Tenancy /\ UNCHANGED <<command, progress, found, gaps, plan>>
  BY DEF DiscoveryInv, Create, Delete, during
<1>2. CASE Create(d)
  <2>1. /\ cloud' = cloud \cup ({d, ParentOf[d]} \ {None}) /\ steady' = steady
    BY <1>2 DEF Create
  <2>2. cloud' \subseteq Databases
    BY <1>1, <2>1, PlanningAssumption DEF Tenancy
  <2>3. Closed(cloud')
    <3> SUFFICES ASSUME NEW e \in cloud', Role[e] = "pdb" PROVE ParentOf[e] \in cloud'
      BY DEF Closed
    <3>1. CASE e \in cloud
      BY <1>1, <2>1, <3>1 DEF Closed, Tenancy
    <3>2. CASE e = d
      BY <2>1, <3>2, PlanningAssumption
    <3>3. CASE e = ParentOf[d] /\ e # None
      <4>1. Role[d] = "pdb" /\ Role[e] = "cdb"
        BY <3>3, PlanningAssumption
      <4> QED
        BY <4>1
    <3> QED
      BY <2>1, <3>1, <3>2, <3>3
  <2> QED
    BY <1>1, <2>1, <2>2, <2>3, DiscoveryCarried DEF Tenancy
<1>3. CASE Delete(d)
  <2> DEFINE gone == {d} \cup {e \in Databases : ParentOf[e] = d}
  <2>1. cloud' = cloud \ gone /\ steady' = steady \ gone
    BY <1>3 DEF Delete
  <2>2. ASSUME NEW S \in SUBSET Databases, Closed(S) PROVE Closed(S \ gone)
    <3> SUFFICES ASSUME NEW e \in S \ gone, Role[e] = "pdb" PROVE ParentOf[e] \in S \ gone
      BY DEF Closed
    <3>1. ParentOf[e] \in S /\ ParentOf[e] # d /\ Role[ParentOf[e]] = "cdb"
      BY <2>2, ParentPlace DEF Closed
    <3>2. ParentOf[ParentOf[e]] # d
      BY <2>2, <3>1, PlanningAssumption
    <3> QED
      BY <3>1, <3>2
  <2>3. Closed(cloud') /\ Closed(steady')
    BY <1>1, <2>1, <2>2 DEF Tenancy
  <2>4. Tenancy'
    BY <1>1, <2>1, <2>3 DEF Tenancy
  <2> QED
    BY <1>1, <2>1, <2>4, DiscoveryCarried
<1> QED
  BY <1>2, <1>3

\* Every step keeps it.
LEMMA DiscoveryStep == DiscoveryInv /\ [Next]_vars => DiscoveryInv'
<1> SUFFICES ASSUME DiscoveryInv, [Next]_vars PROVE DiscoveryInv'
  OBVIOUS
<1>0. Tenancy
  BY DEF DiscoveryInv
<1>1. CASE Decide
  <2>1. command' = NoCommand /\ UNCHANGED <<cloud, steady, found, gaps>>
    BY <1>1 DEF Decide, Ends, world
  <2>2. CommandFields \subseteq DOMAIN command' /\ command'.pc = "idle"
    BY <2>1 DEF NoCommand, CommandFields
  <2> QED
    BY <1>0, <2>1, <2>2 DEF DiscoveryInv, Tenancy, Closed, NothingMissed
<1>2. CASE EditFiles \/ UNCHANGED vars
  <2>1. UNCHANGED <<cloud, steady, command, progress, found, gaps, plan>>
    BY <1>2 DEF EditFiles, vars, during
  <2> QED
    BY <1>0, <2>1, DiscoveryCarried DEF Tenancy, Closed
<1> QED
  BY <1>1, <1>2, OnboardStep, ListsStep, ReadStep, RegionStep, PlanStep, TenancyChanges DEF Next

\* Discovery fails closed (fleet_discovery.py: "an explicit discovery gap prevents a
\* result from being planned"): a plan has every database that was there all the time
\* and that the selection asks for, in however many regions and compartments the
\* reads take place while databases come and go.
THEOREM PlanningNothingMissed == Spec => []NothingMissed
<1>1. DiscoveryInv => NothingMissed
  BY DEF DiscoveryInv
<1> QED
  BY <1>1, DiscoveryInit, DiscoveryStep, PTL DEF Spec
=============================================================================
