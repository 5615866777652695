--------------------------- MODULE FleetCommands ---------------------------
(***************************************************************************)
(* The lifecycle commands of cli.py as processes on one state store: resume*)
(* (with or without --retry-failed) and import-handoff.  Each takes the    *)
(* run lease before it writes.  resume loads the manifest it will work on  *)
(* before it takes the lease (FleetOnboardingExecutor.execute), reopens the*)
(* validation of the targets whose READY verdict has expired, works on     *)
(* that copy and saves all of it at every checkpoint; import-handoff loads *)
(* under the lease.  Whether the proofs of a verdict are still fresh when  *)
(* a command loads is open here: FleetEvidence has the clock.              *)
(*                                                                         *)
(* The lease is held by at most one process here: FleetLease shows when    *)
(* that is so.  A phase is one step to RUNNING and one to its outcome; the *)
(* two saves of an outcome, errors, retries and the thread pool are in     *)
(* FleetExecutor.                                                          *)
(***************************************************************************)
EXTENDS FleetManifest

CONSTANTS
  Procs,     \* the command processes
  Command,   \* Command[a]: "resume", "retry" (--retry-failed) or "import"
  Creates,   \* phases whose handler creates or reuses a cloud resource
  None       \* nobody holds the lease

ASSUME CommandsAssumption ==
  /\ None \notin Procs
  /\ Command \in [Procs -> {"resume", "retry", "import"}]
  /\ Creates \subseteq Phases \ {Validation}   \* validation only queries

VARIABLES
  store,    \* the saved manifest
  holder,   \* the process that owns the run lease
  pc,       \* where each process is
  mem,      \* the manifest each executor works on
  left,     \* the targets each executor has still to process
  cursor,   \* the target and phase each executor is working on
  cloud,    \* who created the resource of a target's phase
  outdated  \* the store was saved to after the process loaded it

vars == <<store, holder, pc, mem, left, cursor, cloud, outdated>>

(* "new"; "loaded" manifest read, lease not asked for; "leased"; "work"     *)
(* between phases; "call" in a handler; "done" ended; "dead" killed.        *)
PCs == {"new", "loaded", "leased", "work", "call", "done", "dead"}

Init ==
  /\ store = [t \in Targets |-> FreshTarget]
  /\ holder = None
  /\ pc = [a \in Procs |-> "new"]
  /\ mem = [a \in Procs |-> store]
  /\ left = [a \in Procs |-> {}]
  /\ cursor = [a \in Procs |-> [target |-> CHOOSE t \in Targets : TRUE, phase |-> 1]]
  /\ cloud \in [Targets -> [Phases -> {"absent", "prior"}]]
  /\ \A t \in Targets : \A p \in Phases \ Creates : cloud[t][p] = "absent"
  /\ outdated = [a \in Procs |-> FALSE]

\* Every save replaces the whole manifest.
Save(a, manifest) ==
  /\ store' = manifest
  /\ outdated' = [b \in Procs |-> outdated[b] \/ (b # a /\ pc[b] # "new")]

Pending(m) == {t \in Targets : TargetIsResumable(m[t])}

-----------------------------------------------------------------------------
(* resume *)

\* The copy a makes of the store when the READY verdicts of expired have expired.
Loaded(a, expired) ==
  LET current == RefreshReadiness(store, expired)
  IN  IF Command[a] = "retry" THEN ReopenFailed(current) ELSE current

\* store.load, refresh_collection_readiness and reopen_failed, before the lease;
\* with nothing to resume the command returns.
Load(a) ==
  /\ pc[a] = "new" /\ Command[a] # "import"
  /\ \E expired \in SUBSET Targets :
       LET loaded == Loaded(a, expired)
       IN  /\ mem' = [mem EXCEPT ![a] = loaded]
           /\ left' = [left EXCEPT ![a] = Pending(loaded)]
           /\ pc' = [pc EXCEPT ![a] = IF Pending(loaded) = {} THEN "done" ELSE "loaded"]
  /\ outdated' = [outdated EXCEPT ![a] = FALSE]
  /\ UNCHANGED <<store, holder, cursor, cloud>>

\* Mutant of AcquireLease: the holder is not looked at.
AcquireLeaseAnyway(a) ==
  /\ \/ pc[a] = "loaded"
     \/ pc[a] = "new" /\ Command[a] = "import"
  /\ holder' = a
  /\ pc' = [pc EXCEPT ![a] = "leased"]
  /\ UNCHANGED <<store, mem, left, cursor, cloud, outdated>>

\* acquire_lease; RunLeaseError if another process holds the run.
AcquireLease(a) ==
  /\ \/ pc[a] = "loaded"
     \/ pc[a] = "new" /\ Command[a] = "import"
  /\ IF holder = None
     THEN holder' = a /\ pc' = [pc EXCEPT ![a] = "leased"]
     ELSE pc' = [pc EXCEPT ![a] = "done"] /\ UNCHANGED holder
  /\ UNCHANGED <<store, mem, left, cursor, cloud, outdated>>

\* The first _save: the loaded copy is written back.
FirstSave(a) ==
  /\ pc[a] = "leased" /\ Command[a] # "import"
  /\ Save(a, mem[a])
  /\ pc' = [pc EXCEPT ![a] = "work"]
  /\ UNCHANGED <<holder, mem, left, cursor, cloud>>

\* The executor makes tm the manifest of t and saves its copy.
SaveTarget(a, t, tm) ==
  LET updated == [mem[a] EXCEPT ![t] = tm]
  IN  mem' = [mem EXCEPT ![a] = updated] /\ Save(a, updated)

\* _checkpoint RUNNING and the call of the handler.
EnterPhase(a, t) ==
  LET p == NextIncomplete(mem[a][t])
  IN  /\ pc[a] = "work" /\ t \in left[a]
      /\ mem[a][t].ckpt[p] # "complete"
      /\ SaveTarget(a, t, Checkpointed(mem[a][t], p, "running", {}))
      /\ cursor' = [cursor EXCEPT ![a] = [target |-> t, phase |-> p]]
      /\ pc' = [pc EXCEPT ![a] = "call"]
      /\ UNCHANGED <<holder, left, cloud>>

\* Every phase is COMPLETE; configuration that is done is not proof of collection.
CompleteTarget(a, t) ==
  /\ pc[a] = "work" /\ t \in left[a]
  /\ CkptStates(mem[a][t]) = {"complete"}
  /\ SaveTarget(a, t, [mem[a][t] EXCEPT !.state = "complete",
                          !.readiness = IF @ = "configured" THEN "collecting" ELSE @])
  /\ left' = [left EXCEPT ![a] = @ \ {t}]
  /\ UNCHANGED <<holder, pc, cursor, cloud>>

\* Ownership recorded for a phase that creates its resource if it is absent.
Record(t, p, current) ==
  IF p \notin Creates THEN current
  ELSE IF cloud[t][p] = "absent" THEN "owned" ELSE "reused"

CreateIn(t, p) ==
  cloud' = IF p \in Creates /\ cloud[t][p] = "absent"
           THEN [cloud EXCEPT ![t][p] = "ours"] ELSE cloud

\* The target as its handler reports on it: validation gives a verdict, another
\* phase may say that collection is awaited.
Reported(tm, p) ==
  LET verdict(r) == [tm EXCEPT !.state = "running", !.readiness = r]
  IN  IF p = Validation
      THEN {verdict(r) : r \in {"ready", "collecting", "degraded"}}
      ELSE {tm, verdict("collecting")}

Succeed(a) ==
  LET t == cursor[a].target
      p == cursor[a].phase
  IN  /\ pc[a] = "call"
      /\ \E reported \in Reported(mem[a][t], p) :
           SaveTarget(a, t, [Checkpointed(reported, p, "complete", {})
                               EXCEPT !.res[p] = Record(t, p, @)])
      /\ CreateIn(t, p)
      /\ pc' = [pc EXCEPT ![a] = "work"]
      /\ UNCHANGED <<holder, left, cursor>>

\* The phase is handed off or fails, and the target leaves this run.
Stop(a, state, readiness) ==
  LET t == cursor[a].target
  IN  /\ pc[a] = "call"
      /\ SaveTarget(a, t, [Checkpointed(mem[a][t], cursor[a].phase, state, {})
                             EXCEPT !.state = state, !.readiness = readiness])
      /\ left' = [left EXCEPT ![a] = @ \ {t}]
      /\ pc' = [pc EXCEPT ![a] = "work"]
      /\ UNCHANGED <<holder, cursor, cloud>>

HandOff(a) == Stop(a, "handed-off", "handed-off")
Fail(a) == Stop(a, "failed", "degraded")

-----------------------------------------------------------------------------
(* import-handoff *)

\* HandoffEvidenceImporter.import_packet, under the lease: it loads, closes the
\* handed-off phase and saves.
Import(a, t, p) ==
  LET closed == Checkpointed(store[t], p, "complete", {})
  IN  /\ pc[a] = "leased" /\ Command[a] = "import"
      /\ store[t].ckpt[p] = "handed-off"
      /\ Save(a, [store EXCEPT ![t] =
                    [closed EXCEPT !.state = "pending", !.readiness = "configured",
                                   !.res[p] = Record(t, p, @)]])
      /\ CreateIn(t, p)
      /\ pc' = [pc EXCEPT ![a] = "work"]
      /\ UNCHANGED <<holder, mem, left, cursor>>

-----------------------------------------------------------------------------
(* The end of a command *)

\* Nothing is left to do, or the handed-in evidence is refused.
Finish(a) ==
  /\ \/ pc[a] = "work" /\ (Command[a] = "import" \/ left[a] = {})
     \/ pc[a] = "leased" /\ Command[a] = "import"
  /\ pc' = [pc EXCEPT ![a] = "done"]
  /\ holder' = None
  /\ UNCHANGED <<store, mem, left, cursor, cloud, outdated>>

\* The process dies and its lease runs out.
Die(a) ==
  /\ pc[a] \in {"leased", "work", "call"}
  /\ pc' = [pc EXCEPT ![a] = "dead"]
  /\ holder' = None
  /\ UNCHANGED <<store, mem, left, cursor, cloud, outdated>>

Step(a) ==
  \/ Load(a) \/ AcquireLease(a) \/ FirstSave(a)
  \/ \E t \in Targets : EnterPhase(a, t) \/ CompleteTarget(a, t)
  \/ Succeed(a) \/ HandOff(a) \/ Fail(a)
  \/ \E t \in Targets, p \in Phases : Import(a, t, p)
  \/ Finish(a) \/ Die(a)

Next == \E a \in Procs : Step(a)

Spec == Init /\ [][Next]_vars

-----------------------------------------------------------------------------
(* Properties *)

TypeOK ==
  /\ store \in [Targets -> TargetManifest]
  /\ holder \in Procs \cup {None}
  /\ pc \in [Procs -> PCs]
  /\ mem \in [Procs -> [Targets -> TargetManifest]]
  /\ left \in [Procs -> SUBSET Targets]
  /\ cursor \in [Procs -> [target : Targets, phase : Phases]]
  /\ cloud \in [Targets -> [Phases -> {"absent", "prior", "ours"}]]
  /\ outdated \in [Procs -> BOOLEAN]

\* The validation of a target that the store says is READY is reopened.
Revalidated(t, p) ==
  p = Validation /\ store[t].readiness = "ready" /\ store'[t].ckpt[p] = "retryable"

\* What a save may not undo: a completed phase, except for a validation whose READY
\* verdict has expired, and a recorded ownership.
Undone ==
  \E t \in Targets, p \in Phases :
    \/ /\ store[t].ckpt[p] = "complete" /\ store'[t].ckpt[p] # "complete"
       /\ ~Revalidated(t, p)
    \/ store[t].res[p] = "owned" /\ store'[t].res[p] # "owned"

\* Completed phases are never replayed and imported evidence is never lost,
\* whatever commands run side by side (README, runbook); only a validation is
\* done again when its verdict has expired (refresh_collection_readiness).
ProgressKept == [][~Undone]_vars

\* Apart from an expired READY verdict, which any resume may reopen, the only save
\* that can undo a completed phase or a recorded ownership is one made from a copy
\* loaded, before the lease was taken, and saved over by another command since
\* (FleetOnboardingExecutor.execute: load, refresh, reopen, acquire_lease, _save).
OnlyOutdatedCopiesUndo ==
  [][\A a \in Procs : holder = a /\ Undone => outdated[a]]_vars

\* Handlers of two processes never run at the same time.
HandlersExclusive ==
  \A a, b \in Procs : pc[a] = "call" /\ pc[b] = "call" => a = b
=============================================================================
