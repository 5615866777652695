------------------------- MODULE ServiceEnablement --------------------------
(***************************************************************************)
(* How the services of a target are switched on and off: the phase         *)
(* handlers of the lifecycle (fleet_operations.py over enablement.py,      *)
(* credentials.py, datasafe.py, log_analytics.py), the expert command      *)
(* "configure" (orchestrator.py) that uses the same services, and the      *)
(* cleanup of what the manifest says the run owns (CleanupPlanner,         *)
(* OciCleanupOperations).                                                  *)
(*                                                                         *)
(* The executor, its waves, retries and checkpoints are FleetExecutor's:   *)
(* here a target has a worker that goes through its phases, a child only   *)
(* after its parent, and a phase that failed or was handed off can be      *)
(* entered again.  Between two calls everything else may happen.  A call   *)
(* may fail, before or after its effect; the three attempts some reads     *)
(* make are one action, which may come back empty-handed.                  *)
(***************************************************************************)
EXTENDS Naturals, Sequences, FiniteSets, Preflight

CONSTANTS
  Targets,
  Kind,            \* "cdb", "pdb", "autonomous" or "external"
  Parent,          \* the CDB of a PDB, None
  Selections,      \* the sets of targets a command may be given
  Services,        \* the services selected for a target
  Sources,         \* Log Analytics sources of a target
  Known,           \* resources whose ids the plan has: "insight", "safe"
  Lacks,           \* required fields the plan does not have
  Tenant, Facts,   \* what the preflight checks read, see Preflight
  Starts,          \* what there may be from the start: the items that are on, and
                   \* the insights that are there but not on (target |-> state)
  Flows,           \* the commands explored: "lifecycle", "expert"
  MaxPolls,        \* dbm_wait_attempts
  CreateAttempts,  \* opsi_create_attempts
  MaxFaults, MaxForeign, MaxReentries, MaxCommands,
  None

ServiceNames == {"dbm", "opsi", "datasafe", "credential"} \cup Sources
Items == Targets \X ServiceNames
PreferredNames == {"PC_READ", "PC_WRITE"}
CredentialAttempts == 2

ASSUME EnablementAssumption ==
  /\ Kind \in [Targets -> {"cdb", "pdb", "autonomous", "external"}]
  /\ Parent \in [Targets -> Targets \cup {None}]
  /\ \A t \in Targets : Parent[t] # None => Kind[t] = "pdb" /\ Kind[Parent[t]] = "cdb"
  /\ \A S \in Selections : S \subseteq Targets /\ \A t \in S : Parent[t] \in S \cup {None}
  /\ Services \in [Targets -> SUBSET {"dbm", "opsi", "datasafe", "logan"}]
  /\ Known \in [Targets -> SUBSET {"insight", "safe"}]
  /\ Sources \cap {"dbm", "opsi", "datasafe", "credential"} = {}
  /\ \A start \in Starts :
       /\ start.on \subseteq Items
       /\ \A t \in DOMAIN start.broken : start.broken[t] \in {"failed", "disabled"}
  /\ MaxPolls \in Nat \ {0} /\ CreateAttempts \in Nat \ {0}

VARIABLES
  cloud,     \* the services in OCI
  job,       \* job[t]: what the worker of target t is doing
  flow,      \* the command that runs
  request,   \* what the expert command was asked: mode, force
  decision,  \* the expert command's decision about each target
  queue,     \* targets it has not decided about
  snapshot,  \* the blocking checks of its preflight
  owned,     \* the items the manifest records as OWNED and enabled by the run
  plan,      \* the cleanup actions still to try
  history,   \* what the properties look back at
  budget     \* faults, foreign changes, re-entries and commands so far

vars == <<cloud, job, flow, request, decision, queue, snapshot, owned, plan, history, budget>>

\* dbm: "on" is ENABLED, "registered" is ENABLED and seen by Ops Insights.
Cloud ==
  [dbm : [Targets -> {"off", "enabling", "on", "registered", "failed"}],
   insight : [Targets -> {"none", "active", "failed", "disabled"}],
   safe : SUBSET Targets, named : SUBSET Targets,
   preferred : [Targets -> SUBSET PreferredNames],
   entities : SUBSET Targets, assoc : SUBSET (Targets \X Sources)]

PCs == {"idle", "stopped", "enable_dbm", "healthy", "modify", "wait",
        "find", "repair", "enable", "create", "enable_adb", "reference",
        "list_safe", "register_safe", "preferred", "lookup", "create_named",
        "set_read", "set_write", "entities", "classify", "upsert", "record"}

\* left: the phases still to do; applied: the call that switches the service on
\* says it did something; tries: attempts of the current loop; claim: the items
\* the phase will record as OWNED.
Job == [pc : PCs, left : Seq(STRING), applied : BOOLEAN, tries : Nat, claim : SUBSET Items]

Idle(phases) == [pc |-> "idle", left |-> phases, applied |-> FALSE, tries |-> 0, claim |-> {}]

DbmOn(c, t) == c.dbm[t] \in {"enabling", "on", "registered"}

\* is_enabled: ENABLING counts.
On(c) ==
  {<<t, "dbm">> : t \in {x \in Targets : DbmOn(c, x)}}
    \cup {<<t, "opsi">> : t \in {x \in Targets : c.insight[x] = "active"}}
    \cup {<<t, "datasafe">> : t \in c.safe}
    \cup {<<t, "credential">> : t \in c.named}
    \cup c.assoc

\* A failed or disabled insight is off, but it exists.
Existing(c) ==
  On(c) \cup {<<t, "opsi">> : t \in {x \in Targets : c.insight[x] # "none"}}

CloudWith(on, broken) ==
  [dbm |-> [t \in Targets |-> IF <<t, "dbm">> \in on THEN "registered" ELSE "off"],
   insight |-> [t \in Targets |-> IF <<t, "opsi">> \in on THEN "active"
                                  ELSE IF t \in DOMAIN broken THEN broken[t] ELSE "none"],
   safe |-> {t \in Targets : <<t, "datasafe">> \in on},
   named |-> {t \in Targets : <<t, "credential">> \in on},
   preferred |-> [t \in Targets |-> {}],
   entities |-> {},
   assoc |-> on \cap (Targets \X Sources)]

Init ==
  /\ \E start \in Starts :
       /\ cloud = CloudWith(start.on, start.broken)
       /\ history = [before |-> Existing(cloud), made |-> {}, raced |-> {},
                     cutOff |-> {}, removed |-> {}]
  /\ job = [t \in Targets |-> Idle(<<>>)]
  /\ flow = "none" /\ request = [mode |-> "plan", force |-> FALSE]
  /\ decision = [t \in Targets |-> "none"] /\ queue = {} /\ snapshot = [t \in Targets |-> {}]
  /\ owned = {} /\ plan = {}
  /\ budget = [faults |-> 0, foreign |-> 0, entries |-> 0, commands |-> 0]

expert == <<request, decision, queue, snapshot>>

-----------------------------------------------------------------------------
(* Steps of a worker *)

Settled(t) == job[t].pc = "stopped" \/ (job[t].pc = "idle" /\ job[t].left = <<>>)
Done(t) == job[t].pc = "idle" /\ job[t].left = <<>>

\* A child waits for its parent to complete; the expert command is sequential.
Turn(t) ==
  \/ flow = "lifecycle" /\ (Parent[t] # None => Done(Parent[t]))
  \/ flow \in {"expert", "datasafe"} /\ \A o \in Targets \ {t} : Settled(o)

At(t, l) == job[t].pc = l

Made(c) == IF flow = "lifecycle" THEN history.made \cup (On(c) \ On(cloud)) ELSE history.made

\* The worker goes on as next; the services are c now.
Moves(t, c, next) ==
  /\ cloud' = c
  /\ job' = [job EXCEPT ![t] = next]
  /\ history' = [history EXCEPT !.made = Made(c)]
  /\ UNCHANGED flow

Continue(t, l) == Moves(t, cloud, [job[t] EXCEPT !.pc = l]) /\ UNCHANGED budget
Applied(t, l) == [job[t] EXCEPT !.pc = l, !.applied = TRUE]
Advance(t) == Moves(t, cloud, Idle(Tail(job[t].left))) /\ UNCHANGED budget
Again(t, l) == Moves(t, cloud, [job[t] EXCEPT !.pc = l, !.tries = @ + 1]) /\ UNCHANGED budget

\* The phase raises or is handed off; an exception ends the expert command.
Stops(t, c) ==
  /\ cloud' = c
  /\ job' = [job EXCEPT ![t] = [Idle(job[t].left) EXCEPT !.pc = "stopped"]]
  /\ history' = [history EXCEPT !.made = Made(c),
                   !.cutOff = @ \cup ((Made(c) \cap ({t} \X ServiceNames)) \ owned)]
  /\ flow' = IF flow = "lifecycle" THEN flow ELSE "aborted"

Refused(t) == Stops(t, cloud) /\ UNCHANGED budget

Fault == budget.faults < MaxFaults /\ budget' = [budget EXCEPT !.faults = @ + 1]

\* run, run_tolerating: the effect and its answer, or an error before or after it.
Call(t, c, next) ==
  \/ Moves(t, c, next) /\ UNCHANGED budget
  \/ Fault /\ \E d \in {cloud, c} : Stops(t, d)

\* A read that raises, or a death between two calls.
Breakdown(t) ==
  /\ job[t].pc \notin {"idle", "stopped"}
  /\ Fault /\ Stops(t, cloud)

\* The phase is over; what it switched on is recorded as OWNED.
Owning(t, service) ==
  [job[t] EXCEPT !.pc = "record", !.claim = IF job[t].applied THEN {<<t, service>>} ELSE {}]
Records(t, service) == Moves(t, cloud, Owning(t, service)) /\ UNCHANGED budget

Native(t) == Kind[t] \in {"cdb", "pdb"}

\* Where a phase starts: its handler's early returns, and the fields it needs; the
\* last is "logan".
Entry(t, phase) ==
  CASE phase = "prerequisites" -> IF Kind[t] = "external" \/ "authority" \in Lacks[t]
                                  THEN "refused" ELSE "skipped"
    [] phase \in {"dbm", "opsi", "datasafe"} /\ Kind[t] = "external" -> "skipped"
    [] phase = "dbm" -> IF "dbm" \in Lacks[t] THEN "refused" ELSE "enable_dbm"
    [] phase = "credentials" -> IF ~Native(t) THEN "skipped"
                                ELSE IF "dbm" \in Lacks[t] THEN "refused" ELSE "preferred"
    [] phase = "opsi" -> IF ~Native(t) THEN "enable_adb"
                         ELSE IF "opsi" \in Lacks[t] THEN "reference" ELSE "find"
    [] phase = "datasafe" -> "list_safe"
    [] OTHER -> IF "agent" \in Lacks[t] THEN "refused" ELSE "entities"

Enter(t) ==
  /\ At(t, "idle") /\ job[t].left # <<>> /\ Turn(t)
  /\ LET e == Entry(t, Head(job[t].left))
     IN  CASE e = "refused" -> Refused(t)
           [] e = "skipped" -> Advance(t)
           [] OTHER         -> Continue(t, e)

\* A PDB whose parent could not proceed.
BlockChild(t) ==
  /\ flow = "lifecycle" /\ At(t, "idle") /\ job[t].left # <<>>
  /\ Parent[t] # None /\ At(Parent[t], "stopped")
  /\ Refused(t)

-----------------------------------------------------------------------------
(* Database Management *)

\* Mutant of EnableDbm: the tolerated answer counts as having switched it on.
EnableDbmClaimsAll(t) ==
  /\ At(t, "enable_dbm")
  /\ \/ DbmOn(cloud, t) /\ Moves(t, cloud, Applied(t, "wait")) /\ UNCHANGED budget
     \/ ~DbmOn(cloud, t) /\ Call(t, [cloud EXCEPT !.dbm[t] = "enabling"], Applied(t, "wait"))

\* Enabling what is enabled or being enabled is tolerated; the service refuses a
\* PDB whose CDB is not enabled.
EnableDbm(t) ==
  /\ At(t, "enable_dbm")
  /\ \/ DbmOn(cloud, t) /\ Native(t) /\ Continue(t, "healthy")
     \/ DbmOn(cloud, t) /\ ~Native(t) /\ Records(t, "dbm")
     \/ /\ ~DbmOn(cloud, t)
        /\ Kind[t] = "pdb" /\ cloud.dbm[Parent[t]] \notin {"on", "registered"}
        /\ Refused(t)
     \/ /\ ~DbmOn(cloud, t)
        /\ Kind[t] = "pdb" => cloud.dbm[Parent[t]] \in {"on", "registered"}
        /\ LET c == [cloud EXCEPT !.dbm[t] = "enabling"]
           IN  IF Native(t) THEN Call(t, c, Applied(t, "wait"))
               ELSE Call(t, c, [Applied(t, "record") EXCEPT !.claim = {<<t, "dbm">>}])

\* _dbm_monitoring_healthy; an unreadable status counts as unhealthy.
Healthy(t) ==
  /\ At(t, "healthy")
  /\ \/ cloud.dbm[t] = "registered" /\ Records(t, "dbm")
     \/ cloud.dbm[t] # "registered" /\ Continue(t, "modify")
     \/ cloud.dbm[t] = "registered" /\ Fault /\ Moves(t, cloud, [job[t] EXCEPT !.pc = "modify"])

Modify(t) == At(t, "modify") /\ Call(t, cloud, [job[t] EXCEPT !.pc = "wait"])

\* Mutant of WaitDbm: the polls are not counted.
WaitDbmForever(t) ==
  /\ At(t, "wait")
  /\ \/ cloud.dbm[t] = "failed" /\ Refused(t)
     \/ cloud.dbm[t] = "enabling" /\ Continue(t, "wait")
     \/ cloud.dbm[t] \notin {"failed", "enabling"} /\ Records(t, "dbm")

\* _wait_dbm_enabled: a status that cannot be read ends the wait.
WaitDbm(t) ==
  /\ At(t, "wait")
  /\ \/ cloud.dbm[t] = "failed" /\ Refused(t)
     \/ cloud.dbm[t] = "enabling" /\ job[t].tries + 1 < MaxPolls /\ Again(t, "wait")
     \/ cloud.dbm[t] = "enabling" /\ job[t].tries + 1 = MaxPolls /\ Refused(t)
     \/ cloud.dbm[t] \notin {"failed", "enabling"} /\ Records(t, "dbm")
     \/ Fault /\ Moves(t, cloud, Owning(t, "dbm"))

-----------------------------------------------------------------------------
(* Ops Insights *)

\* Where _enable_opsi_pe_comanaged_if_ready goes for the insight it has found.
AfterFinding(t, state) ==
  CASE state = "active" -> "reference"
    [] state = "failed" -> IF "repair" \in Lacks[t] THEN "refused" ELSE "repair"
    [] state \in {"none", "disabled"} ->
         CASE "insight" \in Known[t]  -> "enable"
           [] "create" \in Lacks[t]   -> "reference"
           [] OTHER                   -> "create"

\* _find_opsi_insight: three listings may all miss an insight that exists.
Find(t) ==
  LET found(state) == AfterFinding(t, state)
  IN  /\ At(t, "find")
      /\ \/ found(cloud.insight[t]) = "refused" /\ Refused(t)
         \/ found(cloud.insight[t]) # "refused" /\ Continue(t, found(cloud.insight[t]))
         \/ cloud.insight[t] # "none" /\ Fault
              /\ Moves(t, cloud, [job[t] EXCEPT !.pc = found("none")])

Active(t) == [cloud EXCEPT !.insight[t] = "active"]

RepairInsight(t) == At(t, "repair") /\ Call(t, Active(t), Applied(t, "reference"))

\* Enabling by id an insight that is not there, or not disabled, is an error.
EnableInsight(t) ==
  /\ At(t, "enable")
  /\ \/ cloud.insight[t] = "disabled" /\ Call(t, Active(t), Applied(t, "reference"))
     \/ cloud.insight[t] # "disabled" /\ Refused(t)

\* Mutant of CreateInsight: the last attempt gives up without an error.
CreateInsightQuietly(t) ==
  /\ At(t, "create")
  /\ \/ cloud.insight[t] # "none" /\ Continue(t, "reference")
     \/ cloud.insight[t] = "none" /\ cloud.dbm[t] = "registered"
          /\ Call(t, Active(t), Applied(t, "reference"))
     \/ /\ cloud.insight[t] = "none" /\ cloud.dbm[t] # "registered"
        /\ IF job[t].tries + 1 < CreateAttempts THEN Again(t, "create")
           ELSE Continue(t, "reference")

\* An existing insight is left as it is; one for a database that Ops Insights does
\* not see yet is tried again.
CreateInsight(t) ==
  /\ At(t, "create")
  /\ \/ cloud.insight[t] # "none" /\ Continue(t, "reference")
     \/ cloud.insight[t] = "none" /\ cloud.dbm[t] = "registered"
          /\ Call(t, Active(t), Applied(t, "reference"))
     \/ /\ cloud.insight[t] = "none" /\ cloud.dbm[t] # "registered"
        /\ IF job[t].tries + 1 < CreateAttempts THEN Again(t, "create") ELSE Refused(t)

EnableAutonomousInsight(t) ==
  /\ At(t, "enable_adb")
  /\ \/ cloud.insight[t] = "active" /\ Continue(t, "reference")
     \/ cloud.insight[t] # "active" /\ Call(t, Active(t), Applied(t, "reference"))

\* _opsi_reference: without the insight's id the lifecycle hands the phase off.
Reference(t) ==
  /\ At(t, "reference")
  /\ \/ flow # "lifecycle" /\ Advance(t)
     \/ /\ flow = "lifecycle" /\ ("insight" \in Known[t] \/ cloud.insight[t] # "none")
        /\ Records(t, "opsi")
     \/ /\ flow = "lifecycle" /\ "insight" \notin Known[t] /\ cloud.insight[t] = "none"
        /\ Refused(t)
     \/ /\ flow = "lifecycle" /\ "insight" \notin Known[t] /\ Fault /\ Stops(t, cloud)

-----------------------------------------------------------------------------
(* Data Safe *)

\* DataSafeService.enable_target: is the id the plan knows still registered?
ListSafe(t) ==
  /\ At(t, "list_safe")
  /\ \/ "safe" \in Known[t] /\ t \in cloud.safe /\ Records(t, "datasafe")
     \/ /\ ~("safe" \in Known[t] /\ t \in cloud.safe) /\ "safe" \in Lacks[t]
        /\ IF flow = "lifecycle" THEN Refused(t) ELSE Advance(t)
     \/ /\ ~("safe" \in Known[t] /\ t \in cloud.safe) /\ "safe" \notin Lacks[t]
        /\ Continue(t, "register_safe")

\* create_data_safe_target gives the id of a target with the same display name, or
\* registers one; either way the id is not the one the plan knew, and OWNED.
RegisterSafe(t) ==
  LET claiming == [Applied(t, "record") EXCEPT !.claim = {<<t, "datasafe">>}]
  IN  /\ At(t, "register_safe")
      /\ \/ t \in cloud.safe /\ Moves(t, cloud, claiming) /\ UNCHANGED budget
         \/ t \notin cloud.safe /\ Call(t, [cloud EXCEPT !.safe = @ \cup {t}], claiming)

-----------------------------------------------------------------------------
(* Preferred credentials *)

\* _already_set: three listings may fail, and then the write is made.
Preferred(t) ==
  /\ At(t, "preferred")
  /\ \/ cloud.preferred[t] = PreferredNames /\ Records(t, "credential")
     \/ cloud.preferred[t] # PreferredNames /\ Continue(t, "lookup")
     \/ cloud.preferred[t] = PreferredNames /\ Fault
          /\ Moves(t, cloud, [job[t] EXCEPT !.pc = "lookup"])

\* _named_credential_id: an existing credential of that name is reused.
Lookup(t) ==
  /\ At(t, "lookup")
  /\ Continue(t, IF t \in cloud.named THEN "set_read" ELSE "create_named")

\* An attempt of _apply_with_retry fails: the next one, or blocked.
AttemptFails(t, c) ==
  IF job[t].tries + 1 < CredentialAttempts
  THEN Moves(t, c, [Idle(job[t].left) EXCEPT !.pc = "create_named", !.tries = job[t].tries + 1])
  ELSE Stops(t, c)

\* create_named_credential looks once more and returns what it finds or creates.
CreateNamed(t) ==
  LET c == [cloud EXCEPT !.named = @ \cup {t}]
  IN  /\ At(t, "create_named")
      /\ \/ Moves(t, c, Applied(t, "set_read")) /\ UNCHANGED budget
         \/ Fault /\ \E d \in {cloud, c} : AttemptFails(t, d)

\* set_preferred_named_credential, first PC_READ and then PC_WRITE.
SetPreferred(t, name) ==
  LET c == [cloud EXCEPT !.preferred[t] = @ \cup {name}]
  IN  /\ At(t, IF name = "PC_READ" THEN "set_read" ELSE "set_write")
      /\ \/ /\ UNCHANGED budget
            /\ Moves(t, c, IF name = "PC_READ" THEN [job[t] EXCEPT !.pc = "set_write"]
                           ELSE Owning(t, "credential"))
         \/ /\ Fault
            /\ \E d \in {cloud, c} : IF job[t].applied THEN AttemptFails(t, d) ELSE Stops(t, d)

-----------------------------------------------------------------------------
(* Log Analytics *)

\* _resolve_target_entities: the entities of a database target are found by name
\* or created; the one of an Autonomous Database has to be known.
Entities(t) ==
  /\ At(t, "entities")
  /\ \/ "entity" \in Lacks[t] /\ ~Native(t) /\ Refused(t)
     \/ "entity" \notin Lacks[t] /\ Continue(t, "classify")
     \/ /\ "entity" \in Lacks[t] /\ Native(t)
        /\ Call(t, [cloud EXCEPT !.entities = @ \cup {t}], [job[t] EXCEPT !.pc = "classify"])

\* _classify_associations: what is not there yet will be created, and owned.
Classify(t) ==
  LET created == ({t} \X Sources) \ cloud.assoc
  IN  /\ At(t, "classify")
      /\ Moves(t, cloud, [job[t] EXCEPT !.claim = created,
                            !.pc = IF created = {} THEN "record" ELSE "upsert"])
      /\ UNCHANGED budget

Upsert(t) ==
  /\ At(t, "upsert")
  /\ Call(t, [cloud EXCEPT !.assoc = @ \cup job[t].claim], [job[t] EXCEPT !.pc = "record"])

-----------------------------------------------------------------------------
(* The end of a phase *)

\* Mutant of Record: a phase that reports no new resource drops the record.
RecordNothing(t) == At(t, "record") /\ Advance(t) /\ UNCHANGED owned

\* The outcome's resources go into the manifest; the expert command keeps none.
Record(t) ==
  /\ At(t, "record") /\ Advance(t)
  /\ owned' = IF flow = "lifecycle" THEN owned \cup job[t].claim ELSE owned

\* A resume, or the executor's retry, enters the phase again.
Reenter(t) ==
  /\ flow = "lifecycle" /\ At(t, "stopped") /\ budget.entries < MaxReentries
  /\ job' = [job EXCEPT ![t].pc = "idle"]
  /\ budget' = [budget EXCEPT !.entries = @ + 1]
  /\ UNCHANGED <<cloud, flow, history, owned>>

WorkerStep(t) ==
  /\ \/ /\ \/ Enter(t) \/ BlockChild(t) \/ Breakdown(t)
           \/ EnableDbm(t) \/ Healthy(t) \/ Modify(t) \/ WaitDbm(t)
           \/ Find(t) \/ RepairInsight(t) \/ EnableInsight(t) \/ CreateInsight(t)
           \/ EnableAutonomousInsight(t) \/ Reference(t)
           \/ ListSafe(t) \/ RegisterSafe(t)
           \/ Preferred(t) \/ Lookup(t) \/ CreateNamed(t)
           \/ \E name \in PreferredNames : SetPreferred(t, name)
           \/ Entities(t) \/ Classify(t) \/ Upsert(t)
        /\ UNCHANGED owned
     \/ Record(t)
  /\ UNCHANGED <<plan, expert>>

Phases == <<"prerequisites", "dbm", "credentials", "opsi", "datasafe", "logan">>

\* The phases that have work to do for t.
PhasesOf(t) ==
  LET selected(p) == \/ p = "prerequisites"
                     \/ p \in Services[t]
                     \/ p = "credentials" /\ "dbm" \in Services[t]
  IN  SelectSeq(Phases, selected)

\* A command that ended may be followed by another one.
Entered ==
  /\ flow \in {"none", "done", "aborted"} /\ budget.commands < MaxCommands
  /\ budget' = [budget EXCEPT !.commands = @ + 1]

StartLifecycle(S) ==
  /\ "lifecycle" \in Flows /\ Entered
  /\ flow' = "lifecycle"
  /\ job' = [t \in Targets |-> Idle(IF t \in S THEN PhasesOf(t) ELSE <<>>)]
  /\ history' = [history EXCEPT !.before = Existing(cloud)]
  /\ UNCHANGED <<cloud, owned, plan, expert>>

-----------------------------------------------------------------------------
(* configure *)

SharedBlockers(t) ==
  Blocking(TenancyChecks(Tenant)) \cup
    (IF Kind[t] = "external" THEN {} ELSE Blocking(NetworkChecks(Tenant)))

ParentReading(t) ==
  CASE Parent[t] = None        -> "unset"
    [] DbmOn(cloud, Parent[t]) -> "good"
    [] OTHER                   -> "bad"

\* The preflight reads everything before anything is changed.
StartExpert(S, mode, force) ==
  /\ "expert" \in Flows /\ Entered
  /\ flow' = "expert" /\ request' = [mode |-> mode, force |-> force]
  /\ job' = [t \in Targets |-> Idle(<<>>)]
  /\ decision' = [t \in Targets |-> "none"] /\ queue' = S
  /\ snapshot' = [t \in Targets |-> SharedBlockers(t) \cup
       Blocking(TargetChecks(Kind[t], Facts[t], ParentReading(t), Services[t], Lacks[t]))]
  /\ UNCHANGED <<cloud, history, owned, plan>>

EnabledParents ==
  {p \in Targets : Kind[p] # "pdb" /\ decision[p] \in {"enabled", "skip-enabled"}}

\* The failed checks that stand, a parent enabled in this run being good enough.
Blockers(t) ==
  IF request.force THEN {}
  ELSE snapshot[t] \ (IF Parent[t] \in EnabledParents THEN {"target.parent_cdb"} ELSE {})

OpsiReady(t) == Native(t) /\ Lacks[t] \cap {"opsi", "create"} = {}

\* _decide: what to do about t, and the phases that do it.
Decide(t, seenEnabled) ==
  LET apply == request.mode = "apply"
      verdict ==
        CASE seenEnabled /\ ~OpsiReady(t)        -> "skip-enabled"
          [] seenEnabled                         -> IF apply THEN "enabled" ELSE "ready"
          [] request.mode = "db-side-only"       -> "handoff"
          [] Blockers(t) # {}                    -> "blocked"
          [] OTHER                               -> IF apply THEN "enabled" ELSE "ready"
  IN  /\ flow = "expert" /\ \A o \in Targets : Settled(o)
      /\ t \in queue /\ (Kind[t] = "pdb" => \A o \in queue : Kind[o] = "pdb")
      /\ queue' = queue \ {t}
      /\ decision' = [decision EXCEPT ![t] = verdict]
      /\ job' = [job EXCEPT ![t] = Idle(IF verdict # "enabled" THEN <<>>
                                        ELSE IF seenEnabled THEN <<"opsi">> ELSE <<"dbm", "opsi">>)]
      /\ UNCHANGED <<cloud, flow, request, snapshot, owned, plan, history>>

\* _already_enabled: a state that cannot be read counts as not enabled.
DecideAbout(t) ==
  \/ Decide(t, DbmOn(cloud, t)) /\ UNCHANGED budget
  \/ DbmOn(cloud, t) /\ Decide(t, FALSE) /\ Fault

\* After the decisions Data Safe is registered wherever it is wanted.
RegisterAll ==
  /\ flow = "expert" /\ queue = {} /\ \A t \in Targets : Settled(t)
  /\ flow' = IF request.mode = "apply" THEN "datasafe" ELSE "done"
  /\ job' = [t \in Targets |-> Idle(IF request.mode = "apply" /\ "datasafe" \in Services[t]
                                      /\ decision[t] # "none"
                                    THEN <<"datasafe">> ELSE <<>>)]
  /\ UNCHANGED <<cloud, owned, plan, history, budget, expert>>

Report ==
  /\ flow = "datasafe" /\ \A t \in Targets : Settled(t)
  /\ flow' = "done"
  /\ UNCHANGED <<cloud, job, owned, plan, history, budget, expert>>

-----------------------------------------------------------------------------
(* Outside the program *)

elsewhere == <<job, flow, owned, plan, expert>>

\* The control plane gets on with enabling a database.
Registers(t) ==
  /\ cloud.dbm[t] \in {"enabling", "on"}
  /\ cloud' = [cloud EXCEPT !.dbm[t] = IF @ = "enabling" THEN "on" ELSE "registered"]
  /\ UNCHANGED <<elsewhere, history, budget>>

Breaks(t) ==
  /\ \/ cloud.dbm[t] = "enabling" /\ cloud' = [cloud EXCEPT !.dbm[t] = "failed"]
     \/ cloud.insight[t] = "active" /\ cloud' = [cloud EXCEPT !.insight[t] = "failed"]
  /\ Fault
  /\ UNCHANGED <<elsewhere, history>>

\* Another administrator, or another run on the same target, switches an item on.
\* It matters to a target the run is not done with, and races with a worker that has already looked for the item.
Foreign(t, service) ==
  LET c == CASE service = "dbm"        -> [cloud EXCEPT !.dbm[t] = "enabling"]
             [] service = "opsi"       -> [cloud EXCEPT !.insight[t] = "active"]
             [] service = "datasafe"   -> [cloud EXCEPT !.safe = @ \cup {t}]
             [] service = "credential" -> [cloud EXCEPT !.named = @ \cup {t}]
             [] OTHER                  -> [cloud EXCEPT !.assoc = @ \cup {<<t, service>>}]
      raced == \/ service = "credential" /\ At(t, "create_named")
               \/ service \in Sources /\ At(t, "upsert")
               \/ service = "opsi" /\ At(t, "repair")
  IN  /\ <<t, service>> \notin On(cloud) /\ flow = "lifecycle" /\ ~Done(t)
      /\ budget.foreign < MaxForeign /\ budget' = [budget EXCEPT !.foreign = @ + 1]
      /\ cloud' = c
      /\ history' = IF raced THEN [history EXCEPT !.raced = @ \cup {<<t, service>>}] ELSE history
      /\ UNCHANGED elsewhere

-----------------------------------------------------------------------------
(* Offboarding *)

\* CleanupPlanner: an action for every resource OWNED and enabled by the run.
BeginOffboard ==
  /\ flow = "lifecycle" /\ \A t \in Targets : Settled(t)
  /\ flow' = "offboard" /\ plan' = owned
  /\ UNCHANGED <<cloud, job, owned, history, budget, expert>>

\* _PHASE_ORDER of the operation for an item.
PhaseOrder(i) ==
  CASE i[2] = "opsi"       -> 1
    [] i[2] = "datasafe"   -> 2
    [] i[2] = "dbm"        -> IF Kind[i[1]] = "pdb" THEN 2 ELSE 3
    [] i[2] = "credential" -> 4
    [] OTHER               -> 0

\* What each operation of OciCleanupOperations does to its resource.
SwitchedOff(t, service) ==
  CASE service = "dbm"        -> [cloud EXCEPT !.dbm[t] = "off"]
    [] service = "opsi"       -> [cloud EXCEPT !.insight[t] = IF @ = "none" THEN @ ELSE "disabled"]
    [] service = "datasafe"   -> [cloud EXCEPT !.safe = @ \ {t}]
    [] service = "credential" -> [cloud EXCEPT !.named = @ \ {t}, !.preferred[t] = {}]
    [] OTHER                  -> [cloud EXCEPT !.assoc = @ \ {<<t, service>>}]

\* One action of the plan, in the planned order; a failed one leaves the rest to
\* be tried (its repetition, and that the removal is a work request, is FleetCleanup's).
Cleanup(i) ==
  /\ i \in plan /\ \A j \in plan : PhaseOrder(i) <= PhaseOrder(j)
  /\ plan' = plan \ {i}
  /\ \/ /\ cloud' = SwitchedOff(i[1], i[2]) /\ UNCHANGED budget
        /\ history' = [history EXCEPT !.removed = @ \cup {i}]
     \/ Fault /\ UNCHANGED <<cloud, history>>
  /\ UNCHANGED <<job, flow, owned, expert>>

-----------------------------------------------------------------------------

Next ==
  \/ \E t \in Targets :
       \/ WorkerStep(t)
       \/ Reenter(t) /\ UNCHANGED <<plan, expert>>
       \/ DecideAbout(t)
       \/ Registers(t) \/ Breaks(t)
       \/ \E service \in ServiceNames : Foreign(t, service)
  \/ \E S \in Selections :
       \/ StartLifecycle(S)
       \/ \E mode \in {"plan", "apply", "db-side-only"}, force \in BOOLEAN :
            StartExpert(S, mode, force)
  \/ BeginOffboard \/ \E i \in Items : Cleanup(i)
  \/ RegisterAll \/ Report

Spec == Init /\ [][Next]_vars

\* The threads of the executor are scheduled, and every OCI call returns; the runner sets
\* no timeout (runner.py:204-214).
Fairness == \A t \in Targets : WF_vars(WorkerStep(t))
FairSpec == Spec /\ Fairness

-----------------------------------------------------------------------------
(* Properties *)

\* Every field of the state has its type.
TypeOK ==
  /\ cloud \in Cloud
  /\ \A t \in Targets : job[t] \in Job
  /\ flow \in {"none", "lifecycle", "expert", "datasafe", "done", "aborted", "offboard"}
  /\ decision \in [Targets -> {"none", "skip-enabled", "blocked", "ready", "enabled", "handoff"}]
  /\ queue \subseteq Targets
  /\ owned \subseteq Items /\ plan \subseteq owned
  /\ \A t \in Targets : job[t].tries <= MaxPolls + CreateAttempts + CredentialAttempts

\* Whatever fails, is repeated or is switched on by others, the handlers claim in
\* the manifest only what their own calls switched on, and offboarding touches
\* only that (fleet_operations.py:125-170, log_analytics.py:497-532, CleanupPlanner):
\* the lifecycle implements the ledger.  An item another actor switches on between
\* the run's look and its call counts as the run's, which cannot tell; a Data Safe
\* target is looked for by name, and left out here.
ByLook == Items \ (Targets \X {"datasafe"})
Ledger == INSTANCE OwnershipLedger WITH
  Items   <- ByLook,
  on      <- On(cloud) \cap ByLook,
  credit  <- (history.made \cup history.raced) \cap ByLook,
  claimed <- owned \cap ByLook,
  removed <- history.removed \cap ByLook
ImplementsLedger == Ledger!Spec

\* What the run switched on and does not own it lost in an interruption: every
\* phase that goes through records all of its work (fleet_operations.py).  Such
\* items are never cleaned up: the next attempt finds them there and reuses them.
LeaksAreInterruptions ==
  \A i \in history.made \ (owned \cup history.cutOff) : job[i[1]].pc \notin {"idle", "stopped"}

\* A target that configure --apply reports enabled has an Ops Insights insight if
\* its fields allow one, however late the database is registered and however the
\* listings flap (orchestrator.py, _create_opsi_pe_comanaged).
EnabledMeansAttached ==
  \A t \in Targets :
    flow \in {"datasafe", "done"} /\ decision[t] = "enabled" /\ OpsiReady(t)
      => cloud.insight[t] # "none"

\* Every worker comes to rest: no wait or retry loop goes on for ever, even when
\* the control plane never leaves ENABLING.
WorkersSettle ==
  \A t \in Targets : (flow = "lifecycle") ~> Settled(t)

\* README.md: "Reused/preexisting resources are preserved": offboarding removes
\* nothing that existed when the run began.
PreexistingPreserved == history.removed \cap history.before = {}
=============================================================================
