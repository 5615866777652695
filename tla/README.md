# A formal model of the dbman_opsi fleet lifecycle

This directory holds TLA+ modules that model the stateful part of `dbman_opsi`
(the Python package in `src/dbman_opsi`), TLC configurations that check them on
small instances, and proofs checked by TLAPS. File names and line numbers in the
module comments and in `PROJECT.json` refer to the repository.

`dbman_opsi` enables OCI Database Management (DBM), Operations Insights, Data Safe
and Log Analytics for a fleet of databases. Its centre is the *fleet lifecycle*: a
discovery becomes a reviewed plan of targets, a run takes each target through the
same sequence of phases, every phase is checkpointed in a SQLite store, and the
commands `run`, `resume`, `resume --retry-failed`, `status`, `import-handoff`,
`offboard` and `import-cleanup-handoff` are separate processes that come back to
the same run, perhaps after the previous one was killed, perhaps from another host.
Around it stand *expert commands* that share a configuration file, and `db-exec`,
which prepares databases through an OCI Bastion.

## 1. The system

| Component | State | Operations | What is hard about it |
|---|---|---|---|
| Planning (`fleet_discovery.py`, `fleet_selection.py`, `fleet_dependencies.py`, `fleet_answers.py`, `fleet.py`, `cli.py`) | what was observed, the findings, the plan and its id | read the scopes in parallel, select, close under CDBs, bind, show, approve | a tenancy and files that change between two reads; failing reads |
| Run manifest (`fleet.py`) | per target: lifecycle state, readiness, checkpoint of every phase, resource records | `PhaseCheckpoint.transition`, `transition_checkpoint`, `resumable`, `reopen_failed` | a transition table used from a dozen places; every path must ask for a legal one |
| Onboarding executor (`fleet_executor.py`) | the manifest in memory, pending targets, thread pool, region and service semaphores, authorization circuit | `execute`, `_execute_target`, `_run_phase`, `_checkpoint`, `_set_target`, `_block` | waves of concurrent tasks; five kinds of error; Ctrl-C; death between two saves; a save that raises after memory was changed |
| Phase handlers (`fleet_operations.py`, `enablement.py`, `credentials.py`, `datasafe.py`, `log_analytics.py`) | services in OCI, what the manifest says the run owns | one handler per phase, each a sequence of looks and calls | retried calls that already had their effect; other administrators; a slow control plane |
| Expert enablement (`orchestrator.py`, `preflight.py`) | decisions about targets | `configure` | decides on a snapshot read before anything was changed |
| Validation and readiness (`validation.py`, `fleet_status.py`) | the stored verdict, collection proofs with an age | the validation phase, `refresh_collection_readiness`, `fleet-status` | flapping listings; verdicts that expire between commands |
| Handoffs (`fleet_handoff.py`) | signed packets in files | issue, attest, import completions and collection evidence | packets bound to a phase; stale, late or repeated imports |
| Run lease (`fleet_state.py`) | a row (owner, plan, expiry), one heartbeat thread per process, its `_lost` flag | `acquire_lease`, `renew_lease`, `release_lease`, `LeaseHeartbeat`, `assert_held` | late heartbeats, expiry inside a call, takeover, late release |
| Commands (`cli.py`) | what each process has read | `_cmd_resume`, `_cmd_import_handoff`, `_local_write_lease`, … | read, lease, write in the wrong order; whole-manifest saves |
| Portable state (`fleet_portable_state.py`) | Object Storage objects with ETags: the state database and a remote lease; a local cache per host | pull, push, remote heartbeat | two hosts, conditional writes, crash with an unpushed cache |
| Offboarding (`fleet_offboarding.py`) | the cleanup plan, its checkpoint, handoff bindings, evidence window | `CleanupPlanner`, `CleanupExecutor`, importer, `purge_expired_cleanup_evidence` | destructive calls that are accepted and fail later; restarts; evidence that must survive |
| Remote execution (`db_exec.py`, `bastion_exec.py`, `db_scripts.py`, `db_check.py`) | Bastion sessions, local forwards, uploaded scripts, the monitoring user in each container | session, port, forward, scripts, cleanup, teardown | a shared Bastion and a shared machine; every call may fail |
| Configuration commands (`cli.py`, `config.py`, `prerequisites.py`, `regional_provisioning.py`, `tf_outputs.py`, …) | the configuration file, OCI resources | load, look, create, save | files saved whole without a lock; lost answers |
| Command runner (`runner.py`) | none | classify an error, retry, dry run | a timeout of a call that had its effect; no timeout of its own |
| The rest | none that lasts | wizard, diagnosis, reports, generators, Terraform, CI | text in, text out |

How they interact. `onboard --plan-only` discovers and shows a plan; `onboard
--approval` discovers again and starts a run if the plan has the approved id. A
command on a run loads the manifest from the store, acquires the run lease, starts
a heartbeat and hands the plan to the executor. The executor calls phase handlers,
and asks the heartbeat (`assert_held`) on both sides of each OCI call and each
save. Handlers answer with an outcome (completed, handed off, a readiness verdict)
or an exception, which the executor turns into a checkpoint and, in a *second*
save, a target state. A handed-off phase is completed by another command,
`import-handoff`. Offboarding works on the same run under the same lease with a
checkpoint of its own, and removes what the handlers recorded as owned. The expert
commands call the same enablement code without manifest, lease or checkpoint.

What makes it correct, in one sentence per component:

* planning: a plan misses nothing that was there, a PDB has its CDB in it, and a
  run has exactly the plan somebody has reviewed;
* manifest and executor: whatever fails, is interrupted or dies, the next command
  finds checkpoints it can continue from, never replays a completed phase, never
  runs a child before its parent;
* handlers: the manifest claims only what the run switched on, offboarding removes
  only what is claimed, and no wait goes on for ever;
* evidence: a target reported ready has its phases complete and its services
  collected recently;
* lease: one writer at a time, and a process that lost the lease finds out;
* commands: no command undoes what another has saved;
* offboarding: what is recorded complete OCI has accepted to remove, and evidence is
  kept until the whole plan is done;
* remote execution: "executed" means the monitoring user is ready, a command talks
  to its own host, and nobody else's session is touched;
* configuration: what is looked up before it is made exists once, and a file holds
  ids of real resources and keeps them.

The last four are what the code is after; where it falls short, the property names
the case and section 5 the line.

## 2. Modules

| Module | Models | State and actions |
|---|---|---|
| `FleetManifest` | `fleet.py`, `refresh_collection_readiness` | no state: the transition table (`AllowedFrom`, `Transition`), `Resumable`, `ReopenFailed`, `RefreshReadiness` as operators on a manifest |
| `FleetExecutor` | `fleet_executor.py` | `store` is the manifest in memory and `saved` the one in the file; `task[t]` the pool task of target t with its program counter; `pending`, `circuit`, `aborted` the executor's fields; `writer` the task that holds the manifest lock, whose change is in memory and not yet in `saved`. One action per step between two points where another thread, an exception or a death can be seen: `EnterPhase`, `CallHandler`, one action per outcome of a handler, `Settle` for the second save, each followed by `Save` or `SaveRaises`; `CatchSave` and `RaiseRefused` are what becomes of a save that raised |
| `FleetLease` | `LeaseHeartbeat`, acquire, renew, release, the fence | `lease` is the row with the time left, `beat[a]` the time until the heartbeat of a is due, `Tick` the clock |
| `FleetCommands` | `_cmd_resume`, `_cmd_import_handoff` around the executor | each process has its copy `mem[a]`, loaded with expired verdicts and, for a retry, failures reopened (`Loaded`); every save replaces `store`; `outdated[a]` is history |
| `FleetPortable` | `fleet_portable_state.py` and the portable side of the commands | `object` and `rlease` are the two Object Storage objects, `cache[h]` the SQLite file of a host with its local lease row, `proc[p]` a command; `mixed` (history) the hosts where a manifest was saved over a later pull |
| `FleetCleanup` | `CleanupExecutor`, `CleanupHandoffEvidenceImporter`, the purge | `saved` is the checkpoint in the store, `mem[a]` each executor's; `resource[i]` is live, being deleted or gone; `Removed` and `RemovalFails` are OCI's own steps after it has accepted a call |
| `FleetPlanning` | discovery to approved run | `progress` says which reads of a scope are made, `found` and `gaps` what they gave; `plan`, `shown`, `runs` the review; `Create`, `Delete`, `EditFiles` happen in between |
| `Preflight` | `preflight.py`, `checks.py` | no state: what each check answers to what it can read, and which answers block |
| `ServiceEnablement` | the phase handlers, `configure`, `CleanupPlanner` | `cloud` the services, `job[t]` a worker and the call it is at, `owned` the manifest's claims, `history` what properties look back at |
| `OwnershipLedger` | – | the abstract specification: an item may be switched on, claimed, switched off, and changed by others |
| `FleetEvidence` | `validation.py`, `fleet_handoff.py`, `fleet_status.py` | `target` in the stored manifest, `command` a resume with its copy, `packet`, `completions`, `envelopes` what is on disk, `now` the clock |
| `DbExec` | `db-exec --apply` | `sessions`, `forwards`, `uploads`, `db` the world; `run[c]` a command; one action per remote call, and its failure; `mixups` (history) where one command got into another's way |
| `ConfigCommands` | the expert commands that write the configuration, `runner.py` | `file[f]` (its text: absent, empty, mixed or whole, and its ids), `cloud[f]`, `cmd[c]` a process with its copy; `Truncate` and `Write` are the two halves of a save; `past` (history) what became of the files |
| `FleetExecutorProofs`, `FleetCommandsProofs`, `FleetPortableProofs`, `FleetCleanupProofs`, `FleetPlanningProofs`, `FleetEvidenceProofs`, `ServiceEnablementProofs` | – | theorems about the module of the name; `FleetCommandsProofs` also about `FleetLease` |
| `ExpertCommandsProofs` | – | theorems about `DbExec` and `ConfigCommands` |

`FleetManifest` is extended by `FleetExecutor` and `FleetCommands`: the first looks
inside one process (threads, the two saves of an outcome, process death), the
second at several processes on one store, where a phase is one step in and one step
out. `FleetLease` justifies the single `holder` that `FleetCommands` assumes;
`FleetCleanup` has a switch, `MayLapse`, for when it does not hold. A phase is a
single call in `FleetExecutor`, with the outcomes a handler can have;
`ServiceEnablement`, which extends `Preflight`, looks inside that call and keeps of
the executor only the order of phases and of parents. `FleetEvidence` looks inside
the validation phase and the import of packets. `MC…` modules instantiate a module
for TLC. `TypeOK` (`LeaseTypes` in `FleetLease`, `ConfigTypes` in the proofs about
`ConfigCommands`) documents the state; the theorems that need it prove it. Two proof modules extend two specifications each, so `FleetLease` and
`ConfigCommands` name their parts `LeaseInit`, `LeaseSpec`, `ConfigInit`,
`ConfigSpec` and so on.

Operators named in a comment as a *mutant* are plausible bugs of the definition
that follows; they are not used by the specifications and document which mistake
each property catches.

Abstractions. Targets, resources and packets are model values or numbers; names,
tags and texts are left out. In `FleetExecutor` the eight phases of the source are
`NumPhases` in a row, of which the last is validation (the only one with a
readiness verdict). A resource record is its ownership, and `FleetExecutor` leaves open
which one a handler gives, if any: what handlers make of what they find is in
`ServiceEnablement`, and whether proofs of a verdict are fresh, which `FleetExecutor` and
`FleetCommands` leave open too, in `FleetEvidence`. An error is its kind, as
the `except` clauses or `_classify_oci_error` distinguish them. Sleeping between
attempts is a state, not a duration. SQLite commits are atomic, and may raise before or
after; the save of the configuration file is not atomic. An id that contains another
target's id matters to `reopen_failed`, which looks for ids in messages; `IdsWithin`
models exactly that.
A signature is the membership of a packet in what was signed. Three reads in a row
that retry until they get an answer are one read that may come back empty. In
`ServiceEnablement` a Data Safe target is found by name, so the model of ownership
that `OwnershipLedger` states leaves Data Safe out (`ByLook`); section 5 says why.
The removals of offboarding are done at once in `ServiceEnablement`, which is about what
may be removed at all; that they are work requests, which may fail, is in `FleetCleanup`.
A call of a handler in `FleetExecutor` begins with the last look at the circuit: nothing
of another thread can be told apart between that look and the handler's first line.

## 3. Runs

| Run | Instance | Shows |
|---|---|---|
| `MCExecResume` | a CDB and its PDB, 2 phases, all five error kinds, one retry, one process death, one save or record that raises, any number of commands | a refused transition is asked for only after a save or record of a closed phase raised; records are neither lost nor changed; completed phases never replayed; authorization blocks permanent; a child starts after its parent is complete or torn; `--retry-failed` reopens what it promises; a run that ends by itself has settled every target, in the file too |
| `MCExecWave` | 5 targets: two in parallel in one region, a child, two that wait for each other; phases without handler; fairness | parents complete before children; the circuit stops new calls; every run ends |
| `MCLease` | 3 processes (one for another plan), TTL 4, interval 2, heartbeats up to 3 late, renewals that raise; fairness | one writer while heartbeats are punctual; leases never stolen; a stale process is fenced; a dead one's lease runs out |
| `MCCommands` | resume, resume --retry-failed, import-handoff on one target | handlers exclude each other; apart from the validation of an expired READY verdict, only a copy loaded before another save can undo progress |
| `MCPortable` | an onboarding and an import on one host, two resumes on the other; one phase; deaths, lost leases, clocks that disagree | uploads never discard progress, unless a host has saved an older manifest over a cache another command had pulled; one process calls OCI at a time while no lease lapses; an upload carries its uploader's work unless its cache was pulled over; only a process that pulled too early, or on such a cache, replays |
| `MCCleanup` | a plan of an OCI action and an operator action, two offboards and an import, deaths, lapsing leases, work requests that fail | complete means that OCI or an operator has taken on the removal, whatever happens; without a lapse handoffs stay answerable |
| `MCServices` | a CDB with its PDB, an Autonomous and an external database; lifecycle, `configure` and offboarding; one lost or failing call, one change by another administrator, one phase entered again; three starting points; fairness | the handlers implement `OwnershipLedger`; only an interruption loses a claim; "enabled" means an insight is there; every worker comes to rest |
| `MCPlanning` | two regions with an Exadata CDB and PDB, an Autonomous and a managed database; four answer files, four bindings files; two commands, two changes of the tenancy, one failing read | a plan misses nothing that was there; it is closed under CDBs; a run is one a reviewer has seen |
| `MCEvidence` | one target, Database Management and Log Analytics; two packets, two envelopes, two commands or faults, five instants | ready means collected within the age; ready means both phases complete; an insight reported missing was missing |
| `MCRemote` | three `db-exec` commands (one production), two of them at targets of one display name on two hosts, on one Bastion; two ports that are drawn and taken again; calls that fail, kills, sessions that end | executed means the user is ready, unless another command removed the script before it was run; a command meets another host only if that host's command took its port before the first contact; leftovers come of a failed call, a cut session or a recorded mix-up; live sessions of others are spared |
| `MCConfig` | two processes, up to three commands on the files of two regions, out of the wizard, `init-region`, `provision`, the prerequisites, Data Safe, Log Analytics (applied, planned, and both at once), `configure` and the edits of the file; throttling, lost answers, refusals, listings that miss, deaths inside a save | what is looked up first is made once; files hold ids of real resources, or the placeholders of the one mode that writes them; an id in a file stays there, but for a save from an outdated copy, a file written anew or a killed writer |
| `MCExecTornParent` | a violation of `ParentsComplete` | see 5 |

Bounds and why they are enough.

* `FleetExecutor`: two phases (`NumPhases`) give a first phase, a last one and a
  checkpoint in between; targets of three kinds (parent, child, independent) give
  every relation `_execute_target` looks at, two more a cycle. `MaxCrashes = 1`
  tears one pair of saves; deaths of different runs do not interact, because a run
  starts from the saved manifest alone, and the number of commands is not bounded.
  `MaxFaults = 1` raises one save or record, of any task at any point, and a death may
  come before or after it.
  `Retries = 1` distinguishes first, last and exhausted attempts.
* `FleetLease`: `TTL` is longer than `Interval`, as in the code (120 s and a third
  of it); `Delay` lets a lease expire under its owner.
* `FleetCommands`: one command of each kind. Two resumes are one outdated copy, the
  import a save that needs no copy.
* `FleetCleanup`: `MaxPackets = 2` lets a packet be written over another one.
* `FleetPortable`: one item; an ETag is counted up with each upload, at most one
  for each process. Two commands on each host are what it takes for one to pull over
  the cache of another, on the host that uploads and on the one that has uploaded.
* `ServiceEnablement`: `MaxPolls = 2` and `CreateAttempts = 2` distinguish the
  first, a middle and the last look of a loop (the code makes more of the same);
  `MaxFaults`, `MaxForeign`, `MaxReentries` and `MaxCommands` are 1 each: a lost
  answer, somebody else's change between look and call, and the attempt after it
  meet in every order. Targets of one selection share nothing but the parent, so a
  selection is a pair or a single target.
* `FleetPlanning`: `MaxCommands = 2` is a review and an approval, `MaxChanges = 2`
  a database that goes (or comes) and a file that is edited in between,
  `MaxFaults = 1` one failing read among many.
* `FleetEvidence`: `MaxAge = 1` and `Skew = 1` with `MaxTime = 4` give a fresh, a
  just fresh and an expired proof, and a clock that is ahead; `MaxPackets = 2` and
  `MaxEnvelopes = 2` a packet issued again and evidence that competes;
  `MaxEvents = 2` commands and faults together (the run also passes with 3, in 13
  million states); `Attempts = 2`.
* `DbExec`: `TTL = 0` and `MaxTime = 2` let a session end under its command, and a
  sweep find one that is over; `MaxSessions = 4` gives each command one and one a
  second; two ports are one for each command, and each can be drawn and taken again.
  `MaxFaults = 1`, and the state constraint `Bounded` (`MaxTrouble = 2`) ends a behaviour
  after two failures, mix-ups or ticks of any kinds: each escape of the properties is one of
  these, so two are one that is named and one that is not. (1.8 million states, a minute and
  a half.) That a spool holds output only (`Echo = FALSE`) concerns `CheckedUserIsReady` of
  section 5. `Misnamed = {"b"}` is a command whose container does not exist: its scripts go
  on in the root container, and say so.
* `ConfigCommands`: `MaxAttempts = 2` is a call and its retry, `MaxStarts = 3`
  commands make one that is undone by the save of another and a third that meets the
  result, `MaxMade = 2` a second resource of a kind, `MaxFailures = 1`. (2.7 million
  states, two minutes.)

`CHECK_DEADLOCK FALSE` is set where the system stops: all its processes have ended
(`FleetCommands`, `FleetCleanup`, `FleetPortable`, `DbExec`, `ConfigCommands`), its
operator issues no further command (`FleetExecutor`, `FleetPlanning`,
`FleetEvidence`), or its workers are at rest (`ServiceEnablement`).

Fairness. `FleetExecutor`: weak fairness of the main thread and of each task, that
is, threads of a live process are scheduled, saves end or raise, and every call of a
handler returns. The last is an assumption about the OCI CLI: `runner.py:204-214` starts
it without a timeout, so a CLI that hangs holds its worker, and the semaphores it has
taken, for ever. `RunTerminates`, `RunSettles` (which speaks of runs that end) and
`WorkersSettle` say that nothing *else* keeps a run from ending: no retry, semaphore,
poll or graph. Nothing is assumed of operators, errors or deaths. `FleetLease`: weak
fairness of the clock and of the renewals; a renewal is due at most `Delay` ticks
late, otherwise time would stop. `ServiceEnablement`: weak fairness of the worker of
each target, on the same assumption; nothing is assumed of the control plane, which may
stay in ENABLING for ever.

## 4. Proofs

TLC checks the instances above; TLAPS proves the following for every value of the
constants that satisfies the named assumption of the module.

**`FleetCommandsProofs`, the lease** (`TimingAssumption`: positive naturals;
`ActorsAssumption`; about `FleetLease`): `LeaseTypeOK`, `LeasePunctualWriter`,
`LeaseOneWriter`, `LeaseNeverStolen`.
Exclusion is not inductive by itself: that two processes are not past the fence
together says nothing of whose row it is and how long it will last. The invariant
`LeaseIInv` adds, as long as no heartbeat has been too late or failed (`~late`), that a
process at work has its heartbeat running, owns the row, and that the row outlives
the next heartbeat by exactly `TTL - Interval + beat[a]`; so it is unexpired
(`OwnedIsRenewable`), so nobody else acquires (`NobodyElseAcquires`), so the
takeover case of `Acquire` is impossible while somebody works. The equation is kept
by `Tick`, which lowers both sides, and by `Renew`, which resets both.

**`FleetExecutorProofs`** (`PhasesAssumption`, `DepsAssumption`, `LimitsAssumption`,
`PhaseSetsAssumption`), in two layers.

The first is about one target. `ExecTypeOK`, `ExecRefusedOnlyAfterRaisedSave`,
`ExecCompletedNeverReplayed` and `ExecRecordsKept` rest on `IInv`: a checkpoint is legal
because of what the task that saves it knows. `IInv` adds, for every task, what it relies
on at its point (`RowOK`): the phase it works on is RUNNING in memory from the moment it
waits for a semaphore until its outcome is known, RETRYABLE during a backoff with
attempts left. A task inside the try of `_run_phase` whose save raises is in the except
clause with a checkpoint that is RUNNING or closed (`Tried`), so the FAILED it asks for is
refused exactly when the phase was closed. `SavedOK` relates the two manifests: the file
lags behind, so memory has every completed phase and every record of the file (`Grows`),
whoever saves next; and a phase with a record is closed, so nothing records over it
(`RecordsOK`). No task runs while there is no process (`IdleOK`). Most actions touch one
target: `OneTarget` shows once that the rest of the invariant survives.

The second is about the order of targets. `ExecParentsCompleteOrTorn`,
`ExecParentsComplete` (with the hypothesis that no process dies and no save raises),
`ExecCircuitStopsNewCalls`, `ExecAuthorizationBlockPermanent`, `ExecRunSettles` and
`ExecRetryReopensFailures` rest on `OInv`. A task looks at the states of its parents
once, at its start; `OInv` says why that is enough. When a wave is submitted the
parents of its targets have left `pending` and are settled, that is, have a verdict
or are torn (`WaveOrder`, `Processed`), a settled target does not change while others
run, and a task past its first look had no terminal parent (`ParentsGoOn`), so each
parent is complete or torn. `RowOrder` says the rest of one target: phases are closed
in order (`Frontier`), a target with a failed or blocked phase is not worked on
(`Vetoed`), a complete one has none. What of it outlives the tasks (`AtRest`) makes a
retry work: since phases are closed in order, the one that is reopened is the only one
failed or blocked. `TornByCrash` ties torn pairs to deaths and raised saves. Deaths
throw memory away, so all this is needed of the file as well: `SavedOrder` has it of
whatever was saved last, and `Synced` says that the file has caught up with memory when
nobody is saving, unless a save has raised and the run is giving up. The actions move one
row from one point to another; `OrderMove` shows once what such a move keeps. `Held`
is what each step does to the circuit and to authorization blocks.

**`FleetCommandsProofs`** (`CommandsAssumption`, `PhasesAssumption`):
`CommandsTypeOK` (for a plan with a target), `CommandsHandlersExclusive`, from
`HolderOK`: from `acquire_lease` to the end of a command the lease is its own; and
`CommandsOnlyOutdatedCopiesUndo`. Every save replaces the whole manifest, so the
last is a statement about copies: while a command works the store *is* its copy
(`Copies`), because nobody else holds the lease; before its first save a copy that
is not outdated is the store, as it is or reopened (`Loads`), and what a reopening takes
back is the validation of a READY verdict (`refresh_collection_readiness`), which the
property excepts; and within a copy a step goes back on nothing, because the phase it
enters or closes is not complete (`InHandler`) and nothing is owned in a phase that is
not (`OwnedIsComplete`).

**`FleetPortableProofs`** (`PortableAssumption`): `PortableTypeOK`,
`PortableOneCaller`, `PortableUploadsKeepProgress`, `PortableUploadCarriesWork`,
`PortableReplayOnlyOutdated`, from two facts that have nothing to do with each
other. Exclusion (`Exclusive`): until a lease runs out under its owner, whoever is
active owns the remote lease, and it is unexpired. Freshness (`CacheFresh`,
`MemFresh`): on a host that is not `mixed`, as long as somebody's pull is of the
current version of the object, the cache and every manifest read from it since have
everything the object has. It needs no lease: a pull or a save keeps it, and an
upload makes every earlier pull outdated. An upload is accepted against the current
ETag only, so it can only add. The first version of the model had no `mixed`; the
proof of freshness failed at a save over a cache that had been pulled meanwhile, and
the trace TLC then found is `NeverOverwritten` of section 5.

**`FleetCleanupProofs`**: `CleanupCompleteMeansAccepted`, with or without lapsing
leases. The checkpoint in the store is a copy of an executor's, and an import
trusts what was attested, so `AcceptedInv` makes the claim of all three; a work request
that fails afterwards is on record (`reverted`), because nothing of the code sees it.
`CleanupHandoffAnswerable`: while no lease lapses, one process at a time binds
packets, and it has read the bindings of those before it (`BoundInv`).

**`FleetPlanningProofs`** (`PlanningAssumption`, which says among other things that
the regions are a list and that only PDBs have a CDB): `PlanningPlanClosed`, because
a plan is made of a graph that `build_dependency_graph` accepts (`SoundGraphClosed`).
`PlanningRunIsReviewed`, because the id tells two plans apart (`PlanIdInjective`: a
hash is taken for what it covers) and an approval is the id of a shown plan
(`ReviewInv`). `PlanningNothingMissed` is an induction over the reads of a discovery
(`DiscoveryInv`): as long as no gap has been noted, every region is done with, being
read or still to come, and in the one being read each read that was made has
observed the databases it is about that were there throughout (`Scanning`), CDBs
before their PDBs; a failing read notes a gap, and a gap prevents the plan.

**`FleetEvidenceProofs`**: `EvidenceReadyMeansConfigured`. A stored
READY is of a complete target, which has both phases complete (`SoundTarget`), and a
run works on a target that is not complete (`SoundRun`). `EvidenceReadyMeansCollected`:
a proof is of a sample there was, wherever it is kept, in the manifest, in the copy of
a command or in an envelope (`Genuine`, in `CollectionInv`), so it does not matter how
often or how late it is imported; the verdict looks at its age.
`EvidenceNoFalseNotFound`: every attempt of the look that was wrong about an insight
that was there has been paid for by a fault (`LookInv`).

**`ServiceEnablementProofs`** (`EnablementAssumption`): `ServicesImplementLedger`,
the refinement of `OwnershipLedger`. `on` is what is on in OCI, `credit` what the
run's calls have switched on or what somebody switched on between the run's look
and its call (which the code cannot tell apart), `claimed` what the manifest owns, `removed`
what offboarding switched off. A handler claims what it has seen itself do, but in a
later step; `EarnedJob` says what a job may rely on at each point between its call
and its record, and survives the steps of everybody else because services are
credited for good. `Shape` has the types that matter, `AtRest` says that offboarding
begins when every worker is at rest and that what was removed is off. Each action is
then a step of the ledger or a stutter. `ServicesRemoveOwnWork` is what the ledger is
good for: it is proved of the ledger, which is small, and carried over by the
refinement. `ServicesLeaksAreInterruptions`: what is switched on and neither owned
nor cut off is `Due` from the worker of its target, at the point where it stands
between call and record (`LeakInv`), and a worker at rest owes nothing.
`ServicesEnabledMeansAttached`: once `configure` has decided to report a target as
enabled (`Promised`), the target has its insight or its worker is on the way to one
that ends there (`Attaching`, in `AttachInv`).

**`ExpertCommandsProofs`, remote execution** (`DbExecAssumption`), in three layers.
`IInv` holds whatever fails and whatever is given: the types, where a command stands in
its list and its scripts (`RunOK`), that session ids are unique, and that the session a
command uses carries the name of its target, or was the best its list showed (`Chosen`).
`DbExecTypes` and `DbExecSessionsSpared` need no more: a teardown deletes what the
command uses, and the sweep takes only what is past its time.

None of the three theorems that follow has a hypothesis on ports, hosts or names.

`PInv` is about ports and files. There is one forward on a port; it is that of the command
that goes by the port, or was opened before that command had met a host, which is on record
as a mix-up (`PortsOK`). So the host a command meets is its own or that of the one who took
the port (`HostsOK`): `DbExecOwnHostOnly`. A step of any command only adds to what a
database user has (`Keeps`), so a script that is through stays done (`ScriptsDone`), and
every grant of a target is in one of its scripts (`ScriptsFacts`). What is left is that the
script was there to be run (`FilesOK`): the remote names are the same for every command, so
another's cleanup may have removed it, which is on record, too.
`DbExecExecutedMeansPrepared` follows. It speaks of the host of `--target-ip`; that this is
where a target lives the command cannot know, and one configuration may name targets of
several hosts (hazards).

`LInv`: until a list fails or the time is up (`Cut`), the session a command uses is alive
(`SessionAlive`), and its own unless the use of another's is on record (`Borrowings`); its
forward lives as long as that session (`ForwardAlive`), and so cleanup reaches the host and
teardown deletes what was created, unless a port or a session was mixed up:
`DbExecLeftoversExplained`.

**`ExpertCommandsProofs`, the configuration file** (`ConfigAssumption`).
`ConfigInvariant`: a process is at the head of what it has left to do, and every id in a
file, in the cloud or in a process is that of something made, or a placeholder a dry run
has put there (`ConfigIInv`), which is `ConfigRecordedIdsWereMade`: a placeholder stays in
the file it was saved to, because `load_config` refuses that file. `ConfigPreparedOnce` takes
`"secret" \in Unique`, that the Vault refuses a second secret of a name, because the
command does not look for one first; for the endpoints it adds `LookedFirst`: what a
process is about to create is not there, unless a look was blurred, by a listing that
missed or by another process at work on the same file that was about to create it too.
These creates are not repeated after a lost answer, so a lost answer blurs nothing.

`ConfigIdsKept` is a third invariant, `Kept`, over all the time between a save and a later
look: a file has what saves have put into it (`KeptIn`), and so has the copy of a command
that has loaded it, unless another one began to save since (`CopyKept`). While a command
writes the file is empty and everybody else's copy is outdated (`WriterAlone`), so the next
save that may lose an id is one that is on record (`Outdated`).

Only model-checked: liveness, which is out of the prover's reach (`RunTerminates`,
`StaleActorFenced`, `DeadLeaseExpires`, `WorkersSettle`).

## 5. Where the code differs from what it says

`PROJECT.json` quotes the line of each. The first is a run; the others are stated by
a property of the module that no configuration lists, and that TLC violates when it
is added to the configuration of the module (with the change given, if any), or, where
it is said, by a case that a checked property excepts by name. A run of the executor that
asks for a refused transition is such a case as well: `RefusedOnlyAfterRaisedSave` says
when `CheckpointTransitionError` ends it.

* `MCExecTornParent`. A FAILED checkpoint and the FAILED target state are two saves.
  After a death in between, the next resume does not see the parent as failed, nor
  as resumable, and runs the child.
* `FailedIsRetryable` (`MCExecResume`). A transient error that outlives its attempts
  leaves a FAILED target with a RETRYABLE checkpoint: `resume` skips the one,
  `--retry-failed` the other, so no command re-enters it.
* `WriterOwnsLease` (`MCLease`). An exception in `renew_lease` ends the heartbeat
  thread and leaves `_lost` unset: the process keeps writing after its lease has
  expired.
* `ProgressKept` (`MCCommands`). `execute` loads the manifest, then takes the lease,
  then writes its copy back: what another command saved in between is undone.
* `NeverOverwritten` (`MCPortable`). A pull replaces the cache all commands of a host
  share, without a lease, and a save looks at no lease row: a command at work puts its
  older manifest over the newer cache, and a third one uploads it against the current
  ETag. `UploadsKeepProgress` and `ReplayOnlyOutdated` name this case (`mixed`).
* `LostLeaseNeverSaves`, `EvidenceKeptUntilTerminal` (`MCCleanup`).
  `CleanupExecutor` takes the fence's `RunLeaseError` for a failed action and saves
  its stale checkpoint. The purge looks at recorded actions only, so a cleanup that
  died early counts as terminal and loses its evidence.
* `PreexistingPreserved` (`MCServices`, and with `Known <- MCUnknown`). A Data Safe
  target found by its name and an insight that was FAILED before are recorded as
  owned, and removed by offboarding.
* `DedicatedSecretsUnique` (`MCPlanning`, with `AnswerFiles <- MCDedicated`). The
  uniqueness of Vault references is checked for one of the two policies that promise
  it.
* `DegradedHasCause` (`MCEvidence`, with `MaxEvents = 3`, for two reads that flap). An
  insight whose state is unknown is worded "query failed" and counted as a failure.
* `CheckedUserIsReady` (`MCRemote`, with `Echo = TRUE`). The spool of an echoed
  script holds the privileges its queries ask for.
* `OwnHostOnly`, `ExecutedMeansPrepared`, `LeftoversExplained`, `SessionsSpared`
  (`MCRemote`). These four hold, because they name the cases in which the code does not
  keep what its comments say. A free port may belong to another forward when it is used
  (`mixups` of kind "port"). Two commands at targets of one name cannot tell their sessions
  apart: the first takes the newest, which the second has created meanwhile, and deletes
  it at its end; its own stays, without any fault ("session"). Two commands on one host
  use the same remote file names: the cleanup of one removes the script the other is about
  to run, and `sqlplus` ends with 0 ("file"). A list or a create that failed leaves a
  session behind, and a command whose own session is not there any more when it looks
  deletes a colleague's. `MCRemote` reaches each of them (without its disjunct TLC finds
  the property violated), but for the last, where only the failed list is reached: a
  session that is over and one of another name that is not take targets of two names.
* `CreatedOnce` (`MCConfig`). Creates through `run_json` are sent again after a lost
  answer.
* `RegistrationRecorded`, `ProvisionAccepted` (`MCConfig`). A new Data Safe id does
  not replace a dead one; a stack whose ids were imported cannot be applied again.
* `RecordedIdsWereMade` (`MCConfig`) names the mode that breaks it: `log-analytics
  --apply --dry-run` writes placeholders into the file, which no command can load then.
* `data-safe` without `--apply` reads as dry as it writes; no property states it.

## 6. Not modelled

`PROJECT.json` lists every component with its status.

* Generators (`db_incident.py`, `agent_scripts.py`, `opsi_payloads.py` and others),
  which turn a configuration into scripts, SQL and payload files; diagnosis and
  reports, which read and print: no state and no decision over several steps.
* Wizard and interactive discovery: one pass of prompts. That it ends in a file written
  anew is in `ConfigCommands`.
* Redaction, password generation and the texts of credential plans.
* The OCI facade, but for calls with a control of their own (look before create,
  tolerated conflicts, conditional puts), which are in the modules that use them.
* Terraform, scripts and CI; what `provision` and its outputs do to the
  configuration is in `ConfigCommands`.
* The deletion of disposable databases with its typed confirmations.
* Of the configuration commands: the registrations of `configure --with-data-safe`,
  which saves nothing, and ids typed by hand into the wizard.
* What the reader of an approval sees: `RunIsReviewed` is about what the id of a plan
  covers, while the printed summary has handles for the targets and no references.
* The time between `--wait`-less removals and their end is in `FleetCleanup`; what an
  operator does about a work request that failed is not.
* Test databases, Vault endpoints and host automation as phases: outcomes of
  `FleetExecutor`, without their calls.
* The journal and the timing log of the runner; field by field parsing of the
  configuration.
