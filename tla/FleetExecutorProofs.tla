------------------------ MODULE FleetExecutorProofs ------------------------
(***************************************************************************)
(* Proofs about FleetExecutor, for any plan, any number of phases and any  *)
(* limits.  First, from what a task relies on about its own target (IInv): *)
(* the types, which checkpoint transitions are ever refused, and that      *)
(* neither completed phases nor ownership records are lost.  Then, from    *)
(* what it relies on about other targets (OInv): that handlers follow      *)
(* their parents, that an authorization failure is final, that a run       *)
(* settles its targets and that a retry reopens what failed.               *)
(***************************************************************************)
EXTENDS FleetExecutor, WellFoundedInduction, TLAPS

\* The checkpoints a phase may have while its task stands in the try of
\* _run_phase, and those of them the except clause cannot make FAILED.
Closing == {"complete", "handed-off", "blocked"}
Tried == Closing \cup {"running"}

\* What a task k of target t relies on at each of its points, tm being the
\* target in memory and w the owner of the manifest lock: the checkpoint the next
\* one starts from, and that a task outside the try is known to be outside.
RowOK(t, k, tm, w) ==
  /\ k.pc \in {"region", "service", "call", "result"} =>
       k.phase \in Phases /\ tm.ckpt[k.phase] = "running"
  /\ k.pc = "backoff" =>
       k.phase \in Phases /\ tm.ckpt[k.phase] = "retryable" /\ k.attempt < Retries
  /\ k.pc = "settle" => k.verdict \in {"failed", "blocked", "handed-off"}
  /\ k.inTry \/ k.pc = "caught" => k.phase \in Phases /\ tm.ckpt[k.phase] \in Tried
  /\ k.pc = "refused" => k.phase \in Phases /\ tm.ckpt[k.phase] \in Closing
  /\ k.inTry /\ w # t => k.pc \in {"service", "call", "result", "settle"}
  /\ k.pc = "result" /\ k.phase = Validation => k.record # "owned"

\* Only a closed phase has records, and validation; a later one adds nothing else.
RecordsOK(tm) ==
  /\ tm.res[Validation] # "owned"
  /\ \A p \in Phases : tm.res[p] # "none" => p = Validation \/ tm.ckpt[p] = "complete"

\* new has every completed phase and every record of old.
Grows(old, new) ==
  \A p \in Phases :
    /\ old.ckpt[p] = "complete" => new.ckpt[p] = "complete"
    /\ old.res[p] # "none" => new.res[p] = old.res[p]

\* Commands change the manifest only while no task runs, and start from the file.
IdleOK ==
  main = "idle" =>
    writer = NoOne /\ store = saved /\ \A t \in Targets : task[t].pc = "off"

\* The saved manifest lags behind the one in memory.
SavedOK == \A t \in Targets : Grows(saved[t], store[t]) /\ RecordsOK(saved[t])

FaultsOK == \A t \in Targets : task[t].pc \in {"caught", "refused"} => faults > 0

IInv ==
  /\ TypeOK /\ IdleOK /\ SavedOK /\ FaultsOK
  /\ \A t \in Targets : RowOK(t, task[t], store[t], writer) /\ RecordsOK(store[t])

\* No step replays a completed phase or loses a record.
Kept ==
  \A t \in Targets, p \in Phases :
    /\ saved[t].ckpt[p] = "complete" =>
         \/ saved'[t].ckpt[p] = "complete"
         \/ p = Validation /\ main = "idle" /\ saved[t].readiness = "ready"
    /\ saved[t].res[p] # "none" => saved'[t].res[p] = saved[t].res[p]

-----------------------------------------------------------------------------
(* The operators on manifests *)

\* A non-empty set of numbers has a least one.
LEMMA LeastExists ==
  ASSUME NEW S \in SUBSET Nat, S # {}
  PROVE  \E p \in S : \A q \in S : p <= q
<1>1. PICK p \in S : \A q \in S : ~(<<q, p>> \in OpToRel(<, Nat))
  BY NatLessThanWellFounded, WFMin, Zenon
<1>2. \A q \in S : ~(q < p)
  BY <1>1 DEF OpToRel
<1> QED BY <1>2

\* _next_incomplete_phase is a phase.
LEMMA NextIncompleteIsPhase ==
  ASSUME NEW tm PROVE NextIncomplete(tm) \in Phases
<1> DEFINE I == {p \in Phases : tm.ckpt[p] # "complete"}
<1>1. CASE I = {}
  BY <1>1, PhasesAssumption DEF NextIncomplete, Phases
<1>2. CASE I # {}
  <2>1. I \in SUBSET Nat
    BY PhasesAssumption DEF Phases
  <2>2. \E p \in I : \A q \in I : p <= q
    BY <1>2, <2>1, LeastExists
  <2> QED BY <1>2, <2>2 DEF NextIncomplete
<1> QED BY <1>1, <1>2

\* An allowed transition keeps the types of a target's manifest.
LEMMA CheckpointedType ==
  ASSUME NEW tm \in TargetManifest, NEW p \in Phases, NEW to \in PhaseState,
         NEW cause \in SUBSET Targets,
         to = tm.ckpt[p] \/ to \in AllowedFrom(tm.ckpt[p])
  PROVE  /\ Checkpointed(tm, p, to, cause) \in TargetManifest
         /\ Checkpointed(tm, p, to, cause).ckpt = [tm.ckpt EXCEPT ![p] = to]
         /\ Checkpointed(tm, p, to, cause).res = tm.res
         /\ Checkpointed(tm, p, to, cause).state = tm.state
         /\ Checkpointed(tm, p, to, cause).readiness = tm.readiness
BY DEF Checkpointed, Transition, TargetManifest

\* The transitions the executor asks for are in the table.
LEMMA AllowedTransitions ==
  /\ \A s \in {"complete", "failed", "retryable", "blocked", "handed-off"} :
       s \in AllowedFrom("running")
  /\ "running" \in AllowedFrom("retryable")
  /\ "complete" \in AllowedFrom("handed-off")
  /\ \A s \in (PhaseState \cup {Absent}) \ {"complete", "blocked"} :
       "blocked" \in AllowedFrom(s)
  /\ \A s \in (PhaseState \cup {Absent}) \ {"complete", "blocked", "failed", "running"} :
       "running" \in AllowedFrom(s)
BY DEF AllowedFrom, PhaseState, Absent

\* reopen_failed keeps the types and every completed phase.
LEMMA ReopenFailedType ==
  ASSUME NEW m \in [Targets -> TargetManifest]
  PROVE  /\ ReopenFailed(m) \in [Targets -> TargetManifest]
         /\ \A t \in Targets : ReopenFailed(m)[t].res = m[t].res
         /\ \A t \in Targets, p \in Phases :
              m[t].ckpt[p] = "complete" => ReopenFailed(m)[t].ckpt[p] = "complete"
<1>1. \A tm \in TargetManifest, b \in BOOLEAN :
        /\ ReopenTarget(tm, b) \in TargetManifest
        /\ ReopenTarget(tm, b).res = tm.res
        /\ \A p \in Phases :
             tm.ckpt[p] = "complete" => ReopenTarget(tm, b).ckpt[p] = "complete"
  <2> TAKE tm \in TargetManifest, b \in BOOLEAN
  <2> DEFINE reopens(p) == tm.ckpt[p] = "failed" \/ (b /\ DependencyBlock(tm, p))
             ckpt == [p \in Phases |-> IF reopens(p) THEN "retryable" ELSE tm.ckpt[p]]
             blockedBy == [p \in Phases |-> IF reopens(p) THEN {} ELSE tm.blockedBy[p]]
  <2>1. ReopenTarget(tm, b) =
          [tm EXCEPT !.state = "pending", !.readiness = "degraded",
                     !.ckpt = ckpt, !.blockedBy = blockedBy]
    BY DEF ReopenTarget
  <2>2. ckpt \in [Phases -> PhaseState \cup {Absent}]
    BY DEF TargetManifest, PhaseState
  <2>3. blockedBy \in [Phases -> SUBSET Targets]
    BY DEF TargetManifest
  <2>4. \A p \in Phases : tm.ckpt[p] = "complete" => ckpt[p] = "complete"
    BY DEF DependencyBlock
  <2> HIDE DEF ckpt, blockedBy
  <2> QED BY <2>1, <2>2, <2>3, <2>4 DEF TargetManifest, TargetState, Readiness
<1>2. \A t \in Targets : DependencyBlocked(m[t], FailedTargets(m)) \in BOOLEAN
  BY DEF DependencyBlocked
<1> QED BY <1>1, <1>2 DEF ReopenFailed

\* refresh_collection_readiness keeps the types and reopens nothing but a READY
\* validation.
LEMMA RefreshReadinessType ==
  ASSUME NEW m \in [Targets -> TargetManifest], NEW expired \in SUBSET Targets
  PROVE  /\ RefreshReadiness(m, expired) \in [Targets -> TargetManifest]
         /\ \A t \in Targets : RefreshReadiness(m, expired)[t].res = m[t].res
         /\ \A t \in Targets, p \in Phases :
              m[t].ckpt[p] = "complete" =>
                \/ RefreshReadiness(m, expired)[t].ckpt[p] = "complete"
                \/ p = Validation /\ m[t].readiness = "ready"
<1>1. \A tm \in TargetManifest :
        /\ RefreshTarget(tm) \in TargetManifest
        /\ RefreshTarget(tm).res = tm.res
        /\ \A p \in Phases :
             tm.ckpt[p] = "complete" => RefreshTarget(tm).ckpt[p] = "complete" \/ p = Validation
  BY PhasesAssumption
  DEF RefreshTarget, TargetManifest, TargetState, Readiness, PhaseState, Phases, Validation
<1> QED BY <1>1 DEF RefreshReadiness
-----------------------------------------------------------------------------
(* The building blocks of the actions *)

\* What a step that leaves the records of a target alone makes of it.
LEMMA SameRecords ==
  ASSUME NEW old, NEW new, RecordsOK(old), new.res = old.res,
         \A p \in Phases : old.ckpt[p] = "complete" => new.ckpt[p] = "complete"
  PROVE  Grows(old, new) /\ RecordsOK(new)
BY DEF Grows, RecordsOK

\* A checkpoint the table allows changes one phase of one target.
LEMMA CheckpointFacts ==
  ASSUME TypeOK, NEW t \in Targets, NEW p \in Phases, NEW to \in PhaseState,
         NEW cause \in SUBSET Targets,
         store[t].ckpt[p] # "complete",
         to = store[t].ckpt[p] \/ to \in AllowedFrom(store[t].ckpt[p]),
         Checkpoint(t, p, to, cause)
  PROVE  /\ store' \in [Targets -> TargetManifest]
         /\ \A u \in Targets \ {t} : store'[u] = store[u]
         /\ store'[t].ckpt[p] = to
         /\ store'[t].res = store[t].res
         /\ \A q \in Phases : store[t].ckpt[q] = "complete" => store'[t].ckpt[q] = "complete"
         /\ \A q \in Phases \ {p} : store'[t].ckpt[q] = store[t].ckpt[q]
         /\ writer = NoOne /\ writer' = t
<1> DEFINE tm == Checkpointed(store[t], p, to, cause)
<1>1. store[t] \in TargetManifest
  BY DEF TypeOK
<1>2. /\ tm \in TargetManifest /\ tm.ckpt = [store[t].ckpt EXCEPT ![p] = to]
      /\ tm.res = store[t].res
  BY <1>1, CheckpointedType
<1>3. store' = [store EXCEPT ![t] = tm] /\ writer = NoOne /\ writer' = t
  BY DEF Checkpoint, Change
<1> HIDE DEF tm
<1>4. store' \in [Targets -> TargetManifest] /\ store'[t] = tm
  BY <1>2, <1>3 DEF TypeOK
<1>5. tm.ckpt[p] = to /\ \A q \in Phases \ {p} : tm.ckpt[q] = store[t].ckpt[q]
  BY <1>1, <1>2 DEF TargetManifest
<1> QED BY <1>2, <1>3, <1>4, <1>5 DEF TypeOK

\* What a task makes of itself that leaves a target state to settle.
LEMMA SettleLaterFacts ==
  ASSUME TypeOK, NEW t \in Targets, NEW inTry \in BOOLEAN,
         NEW verdict \in {"failed", "blocked", "handed-off"},
         SettleLater(t, verdict, inTry)
  PROVE  /\ task' \in [Targets -> Task] /\ \A u \in Targets \ {t} : task'[u] = task[u]
         /\ task'[t].pc = "settle" /\ task'[t].verdict = verdict
         /\ task'[t].phase = task[t].phase /\ task'[t].inTry = inTry
<1> DEFINE k == [task[t] EXCEPT !.pc = "settle", !.verdict = verdict, !.inTry = inTry]
<1>1. task \in [Targets -> Task] /\ task[t] \in Task
  BY DEF TypeOK
<1>2. /\ k \in Task /\ k.pc = "settle" /\ k.verdict = verdict
      /\ k.phase = task[t].phase /\ k.inTry = inTry
  BY <1>1 DEF Task, PCs, TargetState
<1>3. task' = [task EXCEPT ![t] = k]
  BY DEF SettleLater
<1> HIDE DEF k
<1> QED BY <1>1, <1>2, <1>3

\* _block saves a checkpoint the table allows, or nothing.
LEMMA BlockFacts ==
  ASSUME TypeOK, NEW t \in Targets, NEW p \in Phases, NEW cause \in SUBSET Targets,
         NEW inTry, Block(t, p, cause, inTry)
  PROVE  /\ store' \in [Targets -> TargetManifest]
         /\ \A u \in Targets \ {t} : store'[u] = store[u]
         /\ store'[t].res = store[t].res
         /\ \A q \in Phases : store[t].ckpt[q] = "complete" => store'[t].ckpt[q] = "complete"
         /\ store'[t].ckpt[p] \in {"complete", "blocked"}
         /\ (writer = NoOne /\ writer' = t) \/ writer' = writer
         /\ SettleLater(t, "blocked", inTry)
<1>1. CASE store[t].ckpt[p] \in {"blocked", "complete"}
  BY <1>1 DEF Block, TypeOK
<1>2. CASE store[t].ckpt[p] \notin {"blocked", "complete"}
  <2>1. Checkpoint(t, p, "blocked", cause) /\ SettleLater(t, "blocked", inTry)
    BY <1>2 DEF Block, CheckpointThenSettle
  <2>2. store[t].ckpt[p] \in (PhaseState \cup {Absent}) \ {"complete", "blocked"}
    BY <1>2 DEF TypeOK, TargetManifest
  <2>3. "blocked" \in AllowedFrom(store[t].ckpt[p]) /\ "blocked" \in PhaseState
    BY <2>2, AllowedTransitions DEF PhaseState
  <2> QED BY <1>2, <2>1, <2>3, CheckpointFacts
<1> QED BY <1>1, <1>2

\* A step of a live process that changes one target keeps the invariant when it
\* leaves that target in order.
LEMMA OneTarget ==
  ASSUME IInv, NEW t \in Targets, main # "idle", main' \in {"run", "blocking"},
         store' \in [Targets -> TargetManifest], task' \in [Targets -> Task],
         \A u \in Targets \ {t} : store'[u] = store[u] /\ task'[u] = task[u],
         saved' = saved \/ saved' = store,
         (writer = NoOne /\ writer' = t) \/ writer' = writer \/ (writer = t /\ writer' = NoOne),
         faults' = faults \/ (faults' = faults + 1 /\ faults < MaxFaults),
         pending' \in SUBSET Targets, circuit' \in BOOLEAN, aborted' \in BOOLEAN,
         crashes' = crashes, handlers' = handlers,
         Grows(store[t], store'[t]), RecordsOK(store'[t]),
         task'[t].pc \in {"caught", "refused"} => faults' > 0,
         RowOK(t, task'[t], store'[t], writer')
  PROVE  IInv' /\ Kept
<1>0. faults \in Nat /\ MaxFaults \in Nat /\ faults' \in Nat /\ faults <= faults'
  BY LimitsAssumption DEF IInv, TypeOK
<1>1. TypeOK'
  <2>1. faults' \in 0 .. MaxFaults
    BY <1>0 DEF IInv, TypeOK
  <2>2. writer' \in Targets \cup {NoOne} /\ saved' \in [Targets -> TargetManifest]
    BY DEF IInv, TypeOK
  <2> QED BY <2>1, <2>2 DEF IInv, TypeOK
<1>2. IdleOK'
  BY DEF IdleOK
<1>3. SavedOK' /\ Kept
  <2> SUFFICES ASSUME NEW u \in Targets
               PROVE  /\ Grows(saved'[u], store'[u]) /\ RecordsOK(saved'[u])
                      /\ Grows(saved[u], saved'[u])
    BY DEF SavedOK, Kept, Grows
  <2>1. /\ Grows(saved[u], store[u]) /\ RecordsOK(saved[u]) /\ RecordsOK(store[u])
        /\ Grows(store[u], store'[u])
    <3>1. Grows(store[u], store'[u])
      BY DEF Grows
    <3> QED BY <3>1 DEF IInv, SavedOK
  <2>2. \A a, b, c : Grows(a, b) /\ Grows(b, c) => Grows(a, c)
    BY DEF Grows
  <2>3. \A a : Grows(a, a)
    BY DEF Grows
  <2>4. CASE saved' = saved
    BY <2>1, <2>2, <2>3, <2>4
  <2>5. CASE saved' = store
    BY <2>1, <2>5
  <2> QED BY <2>4, <2>5
<1>4. FaultsOK'
  <2> SUFFICES ASSUME NEW u \in Targets, task'[u].pc \in {"caught", "refused"}
               PROVE  faults' > 0
    BY DEF FaultsOK
  <2>1. CASE u # t
    BY <1>0, <2>1 DEF IInv, FaultsOK
  <2> QED BY <2>1
<1>5. \A u \in Targets : RowOK(u, task'[u], store'[u], writer') /\ RecordsOK(store'[u])
  <2> SUFFICES ASSUME NEW u \in Targets, u # t
               PROVE  RowOK(u, task'[u], store'[u], writer') /\ RecordsOK(store'[u])
    OBVIOUS
  <2>1. RowOK(u, task[u], store[u], writer) /\ RecordsOK(store[u])
    BY DEF IInv
  <2>2. writer' # u => writer # u
    BY NoOneAssumption
  <2> QED BY <2>1, <2>2 DEF RowOK
<1> QED BY <1>1, <1>2, <1>3, <1>4, <1>5 DEF IInv

-----------------------------------------------------------------------------
(* The steps of a task *)

\* What every step of a task starts from.
LEMMA TaskContext ==
  ASSUME IInv, NEW t \in Targets, task[t].pc # "off"
  PROVE  /\ TypeOK /\ main # "idle" /\ main \in {"run", "blocking"}
         /\ store \in [Targets -> TargetManifest] /\ task \in [Targets -> Task]
         /\ pending \in SUBSET Targets /\ circuit \in BOOLEAN /\ aborted \in BOOLEAN
         /\ RecordsOK(store[t])
         /\ RowOK(t, task[t], store[t], writer)
<1>1. TypeOK /\ IdleOK /\ RecordsOK(store[t]) /\ RowOK(t, task[t], store[t], writer)
  BY DEF IInv
<1>2. main # "idle"
  BY <1>1 DEF IdleOK
<1> QED BY <1>1, <1>2 DEF TypeOK

\* Blocking a target is in order, whatever it was doing.
LEMMA BlockStep ==
  ASSUME IInv, NEW t \in Targets, NEW p \in Phases, NEW cause \in SUBSET Targets,
         NEW inTry \in BOOLEAN, inTry => p = task[t].phase,
         Block(t, p, cause, inTry), main # "idle", main' \in {"run", "blocking"},
         pending' \in SUBSET Targets,
         UNCHANGED <<saved, faults, circuit, aborted, crashes, handlers>>
  PROVE  IInv' /\ Kept
<1>1. /\ TypeOK /\ circuit \in BOOLEAN /\ aborted \in BOOLEAN /\ RecordsOK(store[t])
  BY DEF IInv, TypeOK
<1>2. /\ store' \in [Targets -> TargetManifest]
      /\ \A u \in Targets \ {t} : store'[u] = store[u]
      /\ store'[t].res = store[t].res
      /\ \A q \in Phases : store[t].ckpt[q] = "complete" => store'[t].ckpt[q] = "complete"
      /\ store'[t].ckpt[p] \in {"complete", "blocked"}
      /\ (writer = NoOne /\ writer' = t) \/ writer' = writer
      /\ SettleLater(t, "blocked", inTry)
  BY <1>1, BlockFacts
<1>3. /\ task' \in [Targets -> Task] /\ \A u \in Targets \ {t} : task'[u] = task[u]
      /\ task'[t].pc = "settle" /\ task'[t].verdict = "blocked"
      /\ task'[t].phase = task[t].phase /\ task'[t].inTry = inTry
  BY <1>1, <1>2, SettleLaterFacts
<1>4. RowOK(t, task'[t], store'[t], writer')
  BY <1>2, <1>3 DEF RowOK, Tried, Closing
<1>5. Grows(store[t], store'[t]) /\ RecordsOK(store'[t])
  BY <1>1, <1>2, SameRecords
<1> QED BY <1>1, <1>2, <1>3, <1>4, <1>5, OneTarget

\* A checkpoint the table allows is in order when the task goes on accordingly.
LEMMA CheckpointStep ==
  ASSUME IInv, NEW t \in Targets, NEW p \in Phases, NEW to \in PhaseState,
         task[t].pc # "off", store[t].ckpt[p] # "complete",
         to = store[t].ckpt[p] \/ to \in AllowedFrom(store[t].ckpt[p]),
         Checkpoint(t, p, to, {}),
         task' \in [Targets -> Task], \A u \in Targets \ {t} : task'[u] = task[u],
         store'[t].ckpt[p] = to => RowOK(t, task'[t], store'[t], t),
         task'[t].pc \notin {"caught", "refused"},
         circuit' \in BOOLEAN,
         UNCHANGED <<saved, faults, main, pending, aborted, crashes, handlers>>
  PROVE  IInv' /\ Kept
<1>1. /\ TypeOK /\ main # "idle" /\ main \in {"run", "blocking"}
      /\ pending \in SUBSET Targets /\ aborted \in BOOLEAN /\ RecordsOK(store[t])
  BY TaskContext
<1>2. /\ store' \in [Targets -> TargetManifest]
      /\ \A u \in Targets \ {t} : store'[u] = store[u]
      /\ store'[t].ckpt[p] = to
      /\ store'[t].res = store[t].res
      /\ \A q \in Phases : store[t].ckpt[q] = "complete" => store'[t].ckpt[q] = "complete"
      /\ writer = NoOne /\ writer' = t
  BY <1>1, CheckpointFacts
<1>3. Grows(store[t], store'[t]) /\ RecordsOK(store'[t])
  BY <1>1, <1>2, SameRecords
<1> QED BY <1>1, <1>2, <1>3, OneTarget

\* Closing a phase the table lets close.
LEMMA ClosedFacts ==
  ASSUME NEW tm \in TargetManifest, NEW p \in Phases, NEW record \in Ownership,
         "complete" \in AllowedFrom(tm.ckpt[p])
  PROVE  /\ Closed(tm, p, record) \in TargetManifest
         /\ Closed(tm, p, record).ckpt = [tm.ckpt EXCEPT ![p] = "complete"]
         /\ \A q \in Phases \ {p} : Closed(tm, p, record).res[q] = tm.res[q]
         /\ Closed(tm, p, record).res[p] = IF record = "none" THEN tm.res[p] ELSE record
<1> DEFINE c == Checkpointed(tm, p, "complete", {})
<1>1. c \in TargetManifest /\ c.ckpt = [tm.ckpt EXCEPT ![p] = "complete"] /\ c.res = tm.res
  <2>1. "complete" \in PhaseState /\ {} \in SUBSET Targets
    BY DEF PhaseState
  <2> QED BY <2>1, CheckpointedType
<1>2. c.res \in [Phases -> Ownership] /\ c.res[p] = tm.res[p]
  BY <1>1 DEF TargetManifest
<1> DEFINE new == IF record = "none" THEN tm.res[p] ELSE record
           res == [c.res EXCEPT ![p] = new]
<1>3. new \in Ownership
  BY <1>1, <1>2
<1>4. res \in [Phases -> Ownership] /\ res[p] = new /\ \A q \in Phases \ {p} : res[q] = c.res[q]
  BY <1>2, <1>3
<1>5. Closed(tm, p, record) = [c EXCEPT !.res = res]
  BY <1>2 DEF Closed
<1> HIDE DEF c, res, new
<1>6. [c EXCEPT !.res = res] \in TargetManifest /\ [c EXCEPT !.res = res].ckpt = c.ckpt
      /\ [c EXCEPT !.res = res].res = res
  BY <1>1, <1>4 DEF TargetManifest
<1> QED BY <1>1, <1>4, <1>5, <1>6 DEF new

\* A closed phase loses nothing: it had no record before, or it is validation,
\* whose records are all of one kind.
LEMMA ClosedGrows ==
  ASSUME NEW tm \in TargetManifest, NEW p \in Phases, NEW record \in Ownership,
         "complete" \in AllowedFrom(tm.ckpt[p]), RecordsOK(tm),
         p = Validation => record # "owned"
  PROVE  Grows(tm, Closed(tm, p, record)) /\ RecordsOK(Closed(tm, p, record))
<1> DEFINE row == Closed(tm, p, record)
<1>1. /\ row \in TargetManifest /\ row.ckpt = [tm.ckpt EXCEPT ![p] = "complete"]
      /\ \A q \in Phases \ {p} : row.res[q] = tm.res[q]
      /\ row.res[p] = IF record = "none" THEN tm.res[p] ELSE record
  BY ClosedFacts
<1> HIDE DEF row
<1>2. row.ckpt[p] = "complete" /\ \A q \in Phases \ {p} : row.ckpt[q] = tm.ckpt[q]
  BY <1>1 DEF TargetManifest
<1>3. tm.ckpt[p] # "complete"
  BY DEF AllowedFrom
<1>4. Validation \in Phases
  BY PhasesAssumption DEF Validation, Phases
<1>5. tm.res[p] \in Ownership
  BY DEF TargetManifest
<1>6. tm.res[p] # "none" => row.res[p] = tm.res[p]
  BY <1>1, <1>3, <1>5 DEF RecordsOK, Ownership
<1>7. Grows(tm, row)
  BY <1>1, <1>2, <1>6 DEF Grows
<1>8. row.res[Validation] # "owned"
  BY <1>1, <1>4 DEF RecordsOK
<1>9. \A q \in Phases : row.res[q] # "none" => q = Validation \/ row.ckpt[q] = "complete"
  BY <1>1, <1>2 DEF RecordsOK
<1> QED BY <1>7, <1>8, <1>9 DEF row, RecordsOK

\* Completing a running phase is in order.
LEMMA CompleteStep ==
  ASSUME IInv, NEW t \in Targets, NEW p \in Phases, NEW record \in Ownership,
         NEW inTry \in BOOLEAN,
         task[t].pc # "off", p = task[t].phase, store[t].ckpt[p] = "running",
         CompletePhase(t, p, record, inTry), p = Validation => record # "owned",
         UNCHANGED <<saved, faults, main, pending, circuit, aborted, crashes, handlers>>
  PROVE  IInv' /\ Kept
<1> DEFINE row == Closed(store[t], p, record)
<1>1. /\ TypeOK /\ main # "idle" /\ main \in {"run", "blocking"}
      /\ store \in [Targets -> TargetManifest] /\ task \in [Targets -> Task]
      /\ store[t] \in TargetManifest
      /\ pending \in SUBSET Targets /\ circuit \in BOOLEAN /\ aborted \in BOOLEAN
      /\ RecordsOK(store[t])
  BY TaskContext
<1>2. "complete" \in AllowedFrom(store[t].ckpt[p])
  BY AllowedTransitions
<1>3. /\ row \in TargetManifest /\ row.ckpt = [store[t].ckpt EXCEPT ![p] = "complete"]
  <2>1. store[t] \in TargetManifest
    BY <1>1
  <2> QED BY <1>2, <2>1, ClosedFacts
<1>4. Grows(store[t], row) /\ RecordsOK(row)
  BY <1>1, <1>2, ClosedGrows
<1>5. store' = [store EXCEPT ![t] = row] /\ writer = NoOne /\ writer' = t
  BY DEF CompletePhase, Change
<1> HIDE DEF row
<1>6. /\ task' \in [Targets -> Task] /\ \A u \in Targets \ {t} : task'[u] = task[u]
      /\ task'[t].pc = "loop" /\ task'[t].phase = p /\ task'[t].inTry = inTry
  <2> DEFINE k == [task[t] EXCEPT !.pc = "loop", !.record = "none", !.inTry = inTry]
  <2>1. task[t] \in Task
    BY <1>1
  <2>2. k \in Task /\ k.pc = "loop" /\ k.phase = p /\ k.inTry = inTry
    BY <2>1 DEF Task, PCs, Ownership
  <2>3. task' = [task EXCEPT ![t] = k]
    BY DEF CompletePhase
  <2> HIDE DEF k
  <2> QED BY <1>1, <2>2, <2>3
<1>7. store'[t].ckpt[p] = "complete"
  BY <1>1, <1>3, <1>5 DEF TargetManifest
<1>8. RowOK(t, task'[t], store'[t], writer')
  BY <1>5, <1>6, <1>7 DEF RowOK, Tried, Closing
<1>9. store' \in [Targets -> TargetManifest] /\ \A u \in Targets \ {t} : store'[u] = store[u]
  BY <1>1, <1>3, <1>5
<1>10. Grows(store[t], store'[t]) /\ RecordsOK(store'[t])
  BY <1>1, <1>4, <1>5
<1> QED BY <1>1, <1>5, <1>6, <1>8, <1>9, <1>10, OneTarget

\* Saving a target state and a readiness leaves checkpoints and records alone.
LEMMA SetTargetFacts ==
  ASSUME TypeOK, NEW t \in Targets, NEW state \in TargetState, NEW readiness \in Readiness,
         SetTarget(t, state, readiness)
  PROVE  /\ store' \in [Targets -> TargetManifest]
         /\ \A u \in Targets \ {t} : store'[u] = store[u]
         /\ store'[t].ckpt = store[t].ckpt /\ store'[t].res = store[t].res
         /\ writer = NoOne /\ writer' = t
<1> DEFINE row == [store[t] EXCEPT !.state = state, !.readiness = readiness]
<1>1. store \in [Targets -> TargetManifest] /\ store[t] \in TargetManifest
  BY DEF TypeOK
<1>2. row \in TargetManifest /\ row.ckpt = store[t].ckpt /\ row.res = store[t].res
  BY <1>1 DEF TargetManifest
<1>3. store' = [store EXCEPT ![t] = row] /\ writer = NoOne /\ writer' = t
  BY DEF SetTarget, Change
<1> HIDE DEF row
<1> QED BY <1>1, <1>2, <1>3

\* The steps of a task that leave the manifest alone.
LEMMA QuietSteps ==
  ASSUME IInv, NEW t \in Targets, NEW k \in Task,
         task[t].pc # "off", task' = [task EXCEPT ![t] = k],
         RowOK(t, k, store[t], writer),
         k.pc \in {"caught", "refused"} => faults > 0, aborted' \in BOOLEAN,
         UNCHANGED <<store, saved, writer, faults, main, pending, circuit, crashes, handlers>>
  PROVE  IInv' /\ Kept
<1>1. /\ TypeOK /\ main # "idle" /\ main \in {"run", "blocking"}
      /\ store \in [Targets -> TargetManifest] /\ task \in [Targets -> Task]
      /\ pending \in SUBSET Targets /\ circuit \in BOOLEAN /\ RecordsOK(store[t])
  BY TaskContext
<1>2. task' \in [Targets -> Task] /\ task'[t] = k /\ \A u \in Targets \ {t} : task'[u] = task[u]
  BY <1>1
<1>3. Grows(store[t], store'[t])
  BY DEF Grows
<1> QED BY <1>1, <1>2, <1>3, OneTarget

\* A running phase ends with another checkpoint and a target state to settle.
LEMMA SettleLaterStep ==
  ASSUME IInv, NEW t \in Targets, NEW p \in Phases,
         NEW to \in {"failed", "retryable", "blocked", "handed-off"},
         NEW verdict \in {"failed", "blocked", "handed-off"}, NEW inTry \in BOOLEAN,
         task[t].pc # "off", p = task[t].phase, store[t].ckpt[p] = "running",
         inTry => to \in Closing,
         CheckpointThenSettle(t, p, to, {}, verdict, inTry),
         circuit' \in BOOLEAN,
         UNCHANGED <<saved, faults, main, pending, aborted, crashes, handlers>>
  PROVE  IInv' /\ Kept
<1>1. TypeOK
  BY TaskContext
<1>2. Checkpoint(t, p, to, {}) /\ SettleLater(t, verdict, inTry)
  BY DEF CheckpointThenSettle
<1>3. /\ task' \in [Targets -> Task] /\ \A u \in Targets \ {t} : task'[u] = task[u]
      /\ task'[t].pc = "settle" /\ task'[t].verdict = verdict
      /\ task'[t].phase = p /\ task'[t].inTry = inTry
  BY <1>1, <1>2, SettleLaterFacts
<1>4. store'[t].ckpt[p] = to => RowOK(t, task'[t], store'[t], t)
  BY <1>3 DEF RowOK, Tried
<1>5. to \in PhaseState /\ to \in AllowedFrom(store[t].ckpt[p])
  BY AllowedTransitions DEF PhaseState
<1> QED BY <1>2, <1>3, <1>4, <1>5, CheckpointStep

\* A phase is entered only from a checkpoint that lets it run.
LEMMA EnterPhaseStep ==
  ASSUME IInv, NEW t \in Targets, EnterPhase(t), writer # t, UNCHANGED <<saved, faults>>
  PROVE  IInv' /\ Kept
<1> DEFINE p == task[t].phase
           k == [task[t] EXCEPT !.pc = "region", !.attempt = 0]
<1>1. /\ task[t].pc = "loop" /\ p \in Phases
      /\ store[t].ckpt[p] \notin {"complete", "blocked", "failed"}
      /\ UNCHANGED <<main, pending, circuit, aborted, crashes, handlers>>
  BY DEF EnterPhase
<1>2. /\ main # "idle" /\ main \in {"run", "blocking"}
      /\ store[t] \in TargetManifest
      /\ task \in [Targets -> Task] /\ task[t] \in Task
      /\ pending \in SUBSET Targets /\ circuit \in BOOLEAN
      /\ ~task[t].inTry
  BY <1>1, TaskContext DEF RowOK
<1>3. CASE circuit
  <2>1. Block(t, p, {}, FALSE)
    BY <1>1, <1>3 DEF EnterPhase
  <2> QED BY <1>1, <1>2, <2>1, BlockStep
<1>4. CASE ~circuit
  <2>1. Checkpoint(t, p, "running", {}) /\ task' = [task EXCEPT ![t] = k]
    BY <1>4 DEF EnterPhase
  <2>2. /\ "running" \in PhaseState
        /\ "running" = store[t].ckpt[p] \/ "running" \in AllowedFrom(store[t].ckpt[p])
    BY <1>1, <1>2, AllowedTransitions DEF TargetManifest, PhaseState
  <2>3. k \in Task /\ k.pc = "region" /\ k.phase = p /\ ~k.inTry
    <3>1. 0 \in 0 .. Retries
      BY LimitsAssumption
    <3> QED BY <1>2, <3>1 DEF Task, PCs
  <2> HIDE DEF k
  <2>4. task' \in [Targets -> Task] /\ task'[t] = k /\ \A u \in Targets \ {t} : task'[u] = task[u]
    BY <1>2, <2>1, <2>3
  <2>5. store'[t].ckpt[p] = "running" => RowOK(t, task'[t], store'[t], t)
    BY <1>1, <2>3, <2>4 DEF RowOK
  <2> QED BY <1>1, <1>2, <2>1, <2>2, <2>3, <2>4, <2>5, CheckpointStep
<1> QED BY <1>3, <1>4

\* A RETRYABLE checkpoint is entered again after the backoff.
LEMMA RetryNowStep ==
  ASSUME IInv, NEW t \in Targets, RetryNow(t), writer # t, UNCHANGED <<saved, faults>>
  PROVE  IInv' /\ Kept
<1> DEFINE p == task[t].phase
           k == [task[t] EXCEPT !.pc = "region", !.attempt = @ + 1]
<1>1. /\ task[t].pc = "backoff" /\ Checkpoint(t, p, "running", {})
      /\ task' = [task EXCEPT ![t] = k]
      /\ UNCHANGED <<main, pending, circuit, aborted, crashes, handlers>>
  BY DEF RetryNow
<1>2. /\ task \in [Targets -> Task] /\ task[t] \in Task /\ circuit \in BOOLEAN
      /\ p \in Phases /\ store[t].ckpt[p] = "retryable" /\ task[t].attempt < Retries
      /\ ~task[t].inTry
  BY <1>1, TaskContext DEF RowOK
<1>3. k \in Task /\ k.pc = "region" /\ k.phase = p /\ ~k.inTry
  <2>1. task[t].attempt \in 0 .. Retries
    BY <1>2 DEF Task
  <2>2. task[t].attempt + 1 \in 0 .. Retries
    BY <1>2, <2>1, LimitsAssumption
  <2> QED BY <1>2, <2>2 DEF Task, PCs
<1> HIDE DEF k
<1>4. task' \in [Targets -> Task] /\ task'[t] = k /\ \A u \in Targets \ {t} : task'[u] = task[u]
  BY <1>1, <1>2, <1>3
<1>5. store'[t].ckpt[p] = "running" => RowOK(t, task'[t], store'[t], t)
  BY <1>2, <1>3, <1>4 DEF RowOK
<1>6. "running" \in PhaseState /\ "running" \in AllowedFrom(store[t].ckpt[p])
  BY <1>2, AllowedTransitions DEF PhaseState
<1> QED BY <1>1, <1>2, <1>3, <1>4, <1>5, <1>6, CheckpointStep

\* A handler that raises with the phase to be tried again, now or in a later run.
LEMMA RetryableStep ==
  ASSUME IInv, NEW t \in Targets, RetryLater(t) \/ HandlerInterrupted(t),
         UNCHANGED <<saved, faults>>
  PROVE  IInv' /\ Kept
<1> DEFINE p == task[t].phase
           pc == IF RetryLater(t) THEN "backoff" ELSE "raise"
           k == [task[t] EXCEPT !.pc = pc, !.inTry = FALSE]
<1>1. /\ task[t].pc = "call" /\ Checkpoint(t, p, "retryable", {})
      /\ task' = [task EXCEPT ![t] = k]
      /\ UNCHANGED <<main, pending, circuit, aborted, crashes, handlers>>
  BY DEF RetryLater, HandlerInterrupted
<1>2. pc = "raise" \/ (pc = "backoff" /\ task[t].attempt < Retries)
  BY DEF RetryLater
<1> HIDE DEF pc
<1>3. /\ task \in [Targets -> Task] /\ task[t] \in Task /\ circuit \in BOOLEAN
      /\ p \in Phases /\ store[t].ckpt[p] = "running"
  BY <1>1, TaskContext DEF RowOK
<1>4. k \in Task /\ k.pc = pc /\ k.phase = p /\ k.attempt = task[t].attempt /\ ~k.inTry
  BY <1>2, <1>3 DEF Task, PCs
<1> HIDE DEF k
<1>5. task' \in [Targets -> Task] /\ task'[t] = k /\ \A u \in Targets \ {t} : task'[u] = task[u]
  BY <1>1, <1>3, <1>4
<1>6. store'[t].ckpt[p] = "retryable" => RowOK(t, task'[t], store'[t], t)
  BY <1>2, <1>3, <1>4, <1>5 DEF RowOK
<1>7. "retryable" \in PhaseState /\ "retryable" \in AllowedFrom(store[t].ckpt[p])
  BY <1>3, AllowedTransitions DEF PhaseState
<1> QED BY <1>1, <1>2, <1>3, <1>4, <1>5, <1>6, <1>7, CheckpointStep

\* The records a handler may return.
LEMMA RecordsFacts ==
  ASSUME NEW p \in Phases, NEW readiness
  PROVE  /\ RecordsFor(p) \subseteq ResultRecords(p, readiness) \cup Ownership
         /\ RecordsFor(p) \subseteq Ownership /\ ResultRecords(p, readiness) \subseteq Ownership
         /\ p = Validation => "owned" \notin RecordsFor(p) \cup ResultRecords(p, readiness)
<1>1. Validation \notin Creates
  BY PhaseSetsAssumption
<1> QED BY <1>1 DEF RecordsFor, ResultRecords, Ownership

\* A handler that returned a verdict: target state and readiness are saved, the
\* record is kept for the checkpoint.
LEMMA ReturnVerdictStep ==
  ASSUME IInv, NEW t \in Targets, NEW readiness \in Readiness, ReturnVerdict(t, readiness),
         UNCHANGED <<saved, faults>>
  PROVE  IInv' /\ Kept
<1> DEFINE p == task[t].phase
<1>1. PICK record \in ResultRecords(p, readiness) :
        task' = [task EXCEPT ![t].pc = "result", ![t].record = record]
  BY DEF ReturnVerdict
<1> DEFINE k == [task[t] EXCEPT !.pc = "result", !.record = record]
<1>2. /\ task[t].pc = "call" /\ SetTarget(t, "running", readiness)
      /\ task' = [task EXCEPT ![t] = k]
      /\ UNCHANGED <<main, pending, circuit, aborted, crashes, handlers>>
  BY <1>1 DEF ReturnVerdict
<1>3. /\ TypeOK /\ main # "idle" /\ main \in {"run", "blocking"}
      /\ task \in [Targets -> Task] /\ task[t] \in Task
      /\ pending \in SUBSET Targets /\ circuit \in BOOLEAN /\ aborted \in BOOLEAN
      /\ p \in Phases /\ store[t].ckpt[p] = "running" /\ RecordsOK(store[t])
  BY <1>2, TaskContext DEF RowOK
<1>4. /\ store' \in [Targets -> TargetManifest]
      /\ \A u \in Targets \ {t} : store'[u] = store[u]
      /\ store'[t].ckpt = store[t].ckpt /\ store'[t].res = store[t].res
      /\ writer = NoOne /\ writer' = t
  BY <1>2, <1>3, SetTargetFacts DEF TargetState
<1>5. record \in Ownership /\ (p = Validation => record # "owned")
  BY <1>1, <1>3, RecordsFacts
<1>6. k \in Task /\ k.pc = "result" /\ k.phase = p /\ k.record = record
  BY <1>3, <1>5 DEF Task, PCs
<1> HIDE DEF k
<1>7. task' \in [Targets -> Task] /\ task'[t] = k /\ \A u \in Targets \ {t} : task'[u] = task[u]
  BY <1>2, <1>3, <1>6
<1>8. RowOK(t, task'[t], store'[t], writer')
  BY <1>3, <1>4, <1>5, <1>6, <1>7 DEF RowOK, Tried
<1>9. Grows(store[t], store'[t]) /\ RecordsOK(store'[t])
  BY <1>3, <1>4, SameRecords
<1> QED BY <1>2, <1>3, <1>4, <1>6, <1>7, <1>8, <1>9, OneTarget

\* The steps that save only the target state: the end of a target.
LEMMA EndOfTargetStep ==
  ASSUME IInv, NEW t \in Targets, NEW state \in TargetState, NEW readiness \in Readiness,
         NEW pc \in {"done", "off"},
         task[t].pc # "off", SetTarget(t, state, readiness), Goto(t, pc),
         aborted' \in BOOLEAN,
         UNCHANGED <<saved, faults, main, pending, circuit, crashes, handlers>>
  PROVE  IInv' /\ Kept
<1> DEFINE k == [task[t] EXCEPT !.pc = pc]
<1>1. /\ TypeOK /\ main # "idle" /\ main \in {"run", "blocking"}
      /\ task \in [Targets -> Task] /\ task[t] \in Task
      /\ pending \in SUBSET Targets /\ circuit \in BOOLEAN
      /\ RecordsOK(store[t]) /\ RowOK(t, task[t], store[t], writer)
  BY TaskContext
<1>2. /\ store' \in [Targets -> TargetManifest]
      /\ \A u \in Targets \ {t} : store'[u] = store[u]
      /\ store'[t].ckpt = store[t].ckpt /\ store'[t].res = store[t].res
      /\ writer = NoOne /\ writer' = t
  BY <1>1, SetTargetFacts
<1>3. /\ k \in Task /\ k.pc = pc /\ task' = [task EXCEPT ![t] = k]
      /\ k.phase = task[t].phase /\ k.inTry = task[t].inTry
  BY <1>1 DEF Task, PCs, Goto
<1> HIDE DEF k
<1>4. task' \in [Targets -> Task] /\ task'[t] = k /\ \A u \in Targets \ {t} : task'[u] = task[u]
  BY <1>1, <1>3
<1>5. RowOK(t, task'[t], store'[t], writer')
  BY <1>1, <1>2, <1>3, <1>4 DEF RowOK
<1>6. Grows(store[t], store'[t]) /\ RecordsOK(store'[t])
  BY <1>1, <1>2, SameRecords
<1> QED BY <1>1, <1>2, <1>3, <1>4, <1>5, <1>6, OneTarget

\* The except clause of an exception of its own save: the phase is FAILED, or
\* its checkpoint refuses.
LEMMA CatchSaveStep ==
  ASSUME IInv, NEW t \in Targets, CatchSave(t), writer # t, UNCHANGED <<saved, faults>>
  PROVE  IInv' /\ Kept
<1> DEFINE p == task[t].phase
<1>1. /\ task[t].pc = "caught" /\ writer = NoOne
      /\ UNCHANGED <<main, pending, circuit, aborted, crashes, handlers>>
  BY DEF CatchSave
<1>2. /\ TypeOK /\ main # "idle" /\ main \in {"run", "blocking"}
      /\ task \in [Targets -> Task] /\ task[t] \in Task /\ circuit \in BOOLEAN
      /\ aborted \in BOOLEAN
      /\ p \in Phases /\ store[t].ckpt[p] \in Tried /\ ~task[t].inTry /\ faults > 0
  BY <1>1, TaskContext DEF RowOK, IInv, FaultsOK
<1>3. CASE store[t].ckpt[p] = "running"
  <2>1. Transition(store[t].ckpt[p], "failed") # Rejected
    BY <1>3 DEF Transition, AllowedFrom, Rejected
  <2>2. CheckpointThenSettle(t, p, "failed", {}, "failed", FALSE)
    BY <2>1 DEF CatchSave
  <2> QED BY <1>1, <1>2, <1>3, <2>2, SettleLaterStep
<1>4. CASE store[t].ckpt[p] # "running"
  <2> DEFINE k == [task[t] EXCEPT !.pc = "refused"]
  <2>1. store[t].ckpt[p] \in Closing
    BY <1>2, <1>4 DEF Tried
  <2>2. Transition(store[t].ckpt[p], "failed") = Rejected
    BY <2>1 DEF Closing, Transition, AllowedFrom
  <2>3. task' = [task EXCEPT ![t] = k] /\ UNCHANGED <<store, writer>>
    BY <2>2 DEF CatchSave, Goto
  <2>4. k \in Task /\ k.pc = "refused" /\ k.phase = p /\ k.inTry = task[t].inTry
    BY <1>2 DEF Task, PCs
  <2> HIDE DEF k
  <2>5. RowOK(t, k, store[t], writer)
    BY <1>2, <2>1, <2>4 DEF RowOK
  <2> QED BY <1>1, <1>2, <2>3, <2>4, <2>5, QuietSteps
<1> QED BY <1>3, <1>4

\* Every change a task makes to the manifest in memory, or to itself.
LEMMA WorkSteps ==
  ASSUME IInv, NEW t \in Targets, Work(t) PROVE IInv' /\ Kept
<1> DEFINE p == task[t].phase
<1>0. /\ TypeOK /\ store[t] \in TargetManifest
      /\ task \in [Targets -> Task] /\ task[t] \in Task
      /\ circuit \in BOOLEAN /\ aborted \in BOOLEAN
      /\ pending \in SUBSET Targets
      /\ RowOK(t, task[t], store[t], writer)
  BY DEF IInv, TypeOK
<1>w. writer # t /\ UNCHANGED <<saved, faults>>
  BY DEF Work
<1>c. ASSUME task[t].pc \in {"region", "service", "call", "result"}
      PROVE  /\ task[t].pc # "off" /\ p \in Phases /\ store[t].ckpt[p] = "running"
             /\ main # "idle" /\ main \in {"run", "blocking"}
  BY <1>0, <1>c, TaskContext DEF RowOK
<1>1. ASSUME Start(t) PROVE IInv' /\ Kept
  <2>1. /\ task[t].pc = "queued"
        /\ UNCHANGED <<main, pending, circuit, aborted, crashes, handlers>>
    BY <1>1 DEF Start
  <2>2. main # "idle" /\ main \in {"run", "blocking"}
    BY <2>1, TaskContext
  <2>3. NextIncomplete(store[t]) \in Phases /\ FailedDeps(t) \in SUBSET Targets
    BY NextIncompleteIsPhase, DepsAssumption DEF FailedDeps
  <2>4. ASSUME NEW cause \in SUBSET Targets, Block(t, NextIncomplete(store[t]), cause, FALSE)
        PROVE  IInv' /\ Kept
    BY <1>0, <1>w, <2>1, <2>2, <2>3, <2>4, BlockStep
  <2>5. ASSUME Goto(t, "loop"), UNCHANGED <<store, writer>> PROVE IInv' /\ Kept
    <3> DEFINE k == [task[t] EXCEPT !.pc = "loop"]
    <3>1. k \in Task /\ k.pc = "loop" /\ task' = [task EXCEPT ![t] = k]
          /\ k.phase = p /\ k.inTry = task[t].inTry
      BY <1>0, <2>5 DEF Task, PCs, Goto
    <3> HIDE DEF k
    <3>2. RowOK(t, k, store[t], writer)
      BY <1>0, <1>w, <2>1, <3>1 DEF RowOK
    <3> QED BY <1>0, <1>w, <2>1, <2>5, <3>1, <3>2, QuietSteps
  <2>6. \/ Block(t, NextIncomplete(store[t]), {}, FALSE)
        \/ Block(t, NextIncomplete(store[t]), FailedDeps(t), FALSE)
        \/ Goto(t, "loop") /\ UNCHANGED <<store, writer>>
    BY <1>1, Zenon DEF Start
  <2>7. {} \in SUBSET Targets
    OBVIOUS
  <2>8. CASE Block(t, NextIncomplete(store[t]), {}, FALSE)
    BY <2>4, <2>7, <2>8
  <2>9. CASE Block(t, NextIncomplete(store[t]), FailedDeps(t), FALSE)
    BY <2>3, <2>4, <2>9
  <2> QED BY <2>5, <2>6, <2>8, <2>9
<1>2. ASSUME NextPhase(t) PROVE IInv' /\ Kept
  <2> DEFINE k == [task[t] EXCEPT !.phase = p + 1]
  <2>1. /\ task[t].pc = "loop" /\ p \in Phases /\ task' = [task EXCEPT ![t] = k]
        /\ UNCHANGED <<store, writer, main, pending, circuit, aborted, crashes, handlers>>
    BY <1>2 DEF NextPhase
  <2>2. p + 1 \in 1 .. NumPhases + 1
    BY <2>1, PhasesAssumption DEF Phases
  <2>3. k \in Task /\ k.pc = "loop" /\ k.inTry = task[t].inTry
    BY <1>0, <2>1, <2>2 DEF Task
  <2> HIDE DEF k
  <2>4. RowOK(t, k, store[t], writer)
    BY <1>0, <1>w, <2>1, <2>3 DEF RowOK
  <2> QED BY <1>0, <1>w, <2>1, <2>3, <2>4, QuietSteps
<1>3. ASSUME EnterPhase(t) PROVE IInv' /\ Kept
  BY <1>3, <1>w, EnterPhaseStep
<1>4. ASSUME NoHandler(t) PROVE IInv' /\ Kept
  <2>1. /\ task[t].pc = "region"
        /\ CheckpointThenSettle(t, p, "handed-off", {}, "handed-off", FALSE)
        /\ UNCHANGED <<main, pending, circuit, aborted, crashes, handlers>>
    BY <1>4 DEF NoHandler
  <2> QED BY <1>0, <1>w, <1>c, <2>1, SettleLaterStep
<1>5. ASSUME AcquireRegion(t) PROVE IInv' /\ Kept
  <2> DEFINE k == [task[t] EXCEPT !.pc = "service", !.inTry = TRUE]
  <2>1. /\ task[t].pc = "region" /\ task' = [task EXCEPT ![t] = k]
        /\ UNCHANGED <<store, writer, main, pending, circuit, aborted, crashes, handlers>>
    BY <1>5 DEF AcquireRegion
  <2>2. k \in Task /\ k.pc = "service" /\ k.phase = p
    BY <1>0 DEF Task, PCs
  <2> HIDE DEF k
  <2>3. RowOK(t, k, store[t], writer)
    BY <1>c, <2>1, <2>2 DEF RowOK, Tried
  <2> QED BY <1>0, <1>w, <1>c, <2>1, <2>2, <2>3, QuietSteps
<1>6. ASSUME CallHandler(t) PROVE IInv' /\ Kept
  <2>1. /\ task[t].pc = "service"
        /\ UNCHANGED <<main, pending, circuit, aborted, crashes, handlers>>
    BY <1>6 DEF CallHandler
  <2>2. CASE circuit
    <3>1. Block(t, p, {}, TRUE)
      BY <1>6, <2>2 DEF CallHandler
    <3> QED BY <1>0, <1>w, <1>c, <2>1, <3>1, BlockStep
  <2>3. CASE ~circuit
    <3> DEFINE k == [task[t] EXCEPT !.pc = "call"]
    <3>1. task' = [task EXCEPT ![t] = k] /\ UNCHANGED <<store, writer>>
      BY <1>6, <2>3 DEF CallHandler, Goto
    <3>2. k \in Task /\ k.pc = "call" /\ k.phase = p /\ k.inTry = task[t].inTry
      BY <1>0 DEF Task, PCs
    <3> HIDE DEF k
    <3>3. RowOK(t, k, store[t], writer)
      BY <1>0, <1>c, <2>1, <3>2 DEF RowOK
    <3> QED BY <1>0, <1>w, <1>c, <2>1, <3>1, <3>2, <3>3, QuietSteps
  <2> QED BY <2>2, <2>3
<1>7. ASSUME Succeed(t) PROVE IInv' /\ Kept
  <2>1. PICK record \in RecordsFor(p) : CompletePhase(t, p, record, TRUE)
    BY <1>7 DEF Succeed
  <2>2. /\ task[t].pc = "call"
        /\ UNCHANGED <<main, pending, circuit, aborted, crashes, handlers>>
    BY <1>7 DEF Succeed
  <2>3. record \in Ownership /\ (p = Validation => record # "owned")
    BY <1>c, <2>1, <2>2, RecordsFacts
  <2> QED BY <1>c, <1>w, <2>1, <2>2, <2>3, CompleteStep
<1>8. ASSUME CheckpointVerdict(t) PROVE IInv' /\ Kept
  <2>1. /\ task[t].pc = "result" /\ CompletePhase(t, p, task[t].record, TRUE)
        /\ UNCHANGED <<main, pending, circuit, aborted, crashes, handlers>>
    BY <1>8 DEF CheckpointVerdict
  <2>2. task[t].record \in Ownership /\ (p = Validation => task[t].record # "owned")
    BY <1>0, <2>1 DEF Task, RowOK
  <2> QED BY <1>c, <1>w, <2>1, <2>2, CompleteStep
<1>9. ASSUME HandOff(t) PROVE IInv' /\ Kept
  <2>1. /\ task[t].pc = "call"
        /\ UNCHANGED <<main, pending, circuit, aborted, crashes, handlers>>
        /\ \/ CheckpointThenSettle(t, p, "handed-off", {}, "handed-off", TRUE)
           \/ CheckpointThenSettle(t, p, "blocked", {}, "blocked", TRUE)
    BY <1>9 DEF HandOff
  <2> QED BY <1>0, <1>w, <1>c, <2>1, SettleLaterStep DEF Closing
<1>10. ASSUME NEW r \in Readiness, ReturnVerdict(t, r) PROVE IInv' /\ Kept
  BY <1>10, <1>w, ReturnVerdictStep
<1>11. ASSUME AuthError(t) PROVE IInv' /\ Kept
  <2>1. /\ task[t].pc = "call" /\ CheckpointThenSettle(t, p, "blocked", {}, "blocked", FALSE)
        /\ circuit' = TRUE /\ UNCHANGED <<main, pending, aborted, crashes, handlers>>
    BY <1>11 DEF AuthError
  <2> QED BY <1>0, <1>w, <1>c, <2>1, SettleLaterStep
<1>12. ASSUME ConflictError(t) PROVE IInv' /\ Kept
  <2>1. /\ task[t].pc = "call" /\ CompletePhase(t, p, "none", FALSE)
        /\ UNCHANGED <<main, pending, circuit, aborted, crashes, handlers>>
    BY <1>12 DEF ConflictError
  <2> QED BY <1>0, <1>w, <1>c, <2>1, CompleteStep DEF Ownership
<1>13. ASSUME RetryLater(t) \/ HandlerInterrupted(t) PROVE IInv' /\ Kept
  BY <1>13, <1>w, RetryableStep
<1>14. ASSUME RetryNow(t) PROVE IInv' /\ Kept
  BY <1>14, <1>w, RetryNowStep
<1>15. ASSUME GiveUp(t) PROVE IInv' /\ Kept
  <2>1. /\ task[t].pc = "call"
        /\ UNCHANGED <<main, pending, circuit, aborted, crashes, handlers>>
        /\ \/ CheckpointThenSettle(t, p, "retryable", {}, "failed", FALSE)
           \/ CheckpointThenSettle(t, p, "failed", {}, "failed", FALSE)
    BY <1>15 DEF GiveUp
  <2> QED BY <1>0, <1>w, <1>c, <2>1, SettleLaterStep
<1>16. ASSUME RaiseInterrupt(t) PROVE IInv' /\ Kept
  BY <1>16, <1>w, EndOfTargetStep DEF RaiseInterrupt, TargetState, Readiness
<1>17. ASSUME Settle(t) PROVE IInv' /\ Kept
  <2> DEFINE verdict == task[t].verdict
             pc == Ended(t)
  <2>1. /\ task[t].pc = "settle" /\ SetTarget(t, verdict, ReadinessFor(verdict)) /\ Goto(t, pc)
        /\ UNCHANGED <<main, pending, circuit, aborted, crashes, handlers>>
    BY <1>17 DEF Settle
  <2>2. verdict \in TargetState /\ ReadinessFor(verdict) \in Readiness
    BY <1>0, <2>1 DEF RowOK, ReadinessFor, TargetState, Readiness
  <2>3. pc \in {"done", "off"}
    BY DEF Ended
  <2> HIDE DEF verdict, pc
  <2> QED BY <1>0, <1>w, <2>1, <2>2, <2>3, EndOfTargetStep
<1>18. ASSUME CompleteTarget(t) PROVE IInv' /\ Kept
  <2> DEFINE readiness == IF store[t].readiness = "configured" THEN "collecting"
                          ELSE store[t].readiness
  <2>1. /\ task[t].pc = "loop" /\ SetTarget(t, "complete", readiness) /\ Goto(t, "done")
        /\ UNCHANGED <<main, pending, circuit, aborted, crashes, handlers>>
    BY <1>18 DEF CompleteTarget
  <2>2. "complete" \in TargetState /\ readiness \in Readiness
    BY <1>0 DEF TargetManifest, TargetState, Readiness
  <2> HIDE DEF readiness
  <2> QED BY <1>0, <1>w, <2>1, <2>2, EndOfTargetStep
<1>19. ASSUME CatchSave(t) PROVE IInv' /\ Kept
  BY <1>19, <1>w, CatchSaveStep
<1>20. ASSUME RaiseRefused(t) PROVE IInv' /\ Kept
  <2> DEFINE k == [task[t] EXCEPT !.pc = "done"]
  <2>1. /\ task[t].pc = "refused" /\ task' = [task EXCEPT ![t] = k] /\ aborted' = TRUE
        /\ UNCHANGED <<store, writer, main, pending, circuit, crashes, handlers>>
    BY <1>20 DEF RaiseRefused, Goto
  <2>2. k \in Task /\ k.pc = "done" /\ k.inTry = task[t].inTry
    BY <1>0 DEF Task, PCs
  <2> HIDE DEF k
  <2>3. RowOK(t, k, store[t], writer)
    BY <1>0, <1>w, <2>1, <2>2 DEF RowOK
  <2> QED BY <1>0, <1>w, <2>1, <2>2, <2>3, QuietSteps
<1> QED
  BY <1>1, <1>2, <1>3, <1>4, <1>5, <1>6, <1>7, <1>8, <1>9, <1>10, <1>11, <1>12,
     <1>13, <1>14, <1>15, <1>16, <1>17, <1>18, <1>19, <1>20 DEF Work

\* A save ends: the file has caught up with memory.
LEMMA SaveStep ==
  ASSUME IInv, NEW t \in Targets, Save(t) PROVE IInv' /\ Kept
<1> DEFINE in == task[t].inTry /\ task[t].pc \in {"result", "settle"}
           k == [task[t] EXCEPT !.inTry = in]
<1>1. /\ writer = t /\ writer' = NoOne /\ saved' = store /\ task' = [task EXCEPT ![t] = k]
      /\ UNCHANGED <<store, main, pending, circuit, aborted, crashes, faults, handlers>>
  BY DEF Save
<1>2. /\ TypeOK /\ IdleOK /\ task \in [Targets -> Task] /\ task[t] \in Task
      /\ store \in [Targets -> TargetManifest] /\ pending \in SUBSET Targets
      /\ circuit \in BOOLEAN /\ aborted \in BOOLEAN /\ main \in {"idle", "run", "blocking"}
      /\ RowOK(t, task[t], store[t], writer) /\ RecordsOK(store[t])
  BY DEF IInv, TypeOK
<1>3. main # "idle" /\ main' \in {"run", "blocking"}
  BY <1>1, <1>2, NoOneAssumption DEF IdleOK
<1>4. /\ in \in BOOLEAN /\ k \in Task /\ k.pc = task[t].pc /\ k.phase = task[t].phase
      /\ k.inTry = in /\ k.attempt = task[t].attempt /\ k.verdict = task[t].verdict
      /\ k.record = task[t].record
  BY <1>2 DEF Task
<1>5. in => task[t].inTry /\ task[t].pc \in {"result", "settle"}
  OBVIOUS
<1> HIDE DEF k, in
<1>6. task' \in [Targets -> Task] /\ task'[t] = k /\ \A u \in Targets \ {t} : task'[u] = task[u]
  BY <1>1, <1>2, <1>4
<1>7. RowOK(t, task'[t], store'[t], writer')
  BY <1>1, <1>2, <1>4, <1>5, <1>6 DEF RowOK
<1>8. Grows(store[t], store'[t]) /\ RecordsOK(store'[t])
  BY <1>1, <1>2 DEF Grows
<1>9. task'[t].pc \in {"caught", "refused"} => faults' > 0
  BY <1>1, <1>4, <1>6 DEF IInv, FaultsOK
<1> QED BY <1>1, <1>2, <1>3, <1>6, <1>7, <1>8, <1>9, OneTarget

\* A save raises: the file has caught up or it has not.
LEMMA SaveRaisesStep ==
  ASSUME IInv, NEW t \in Targets, SaveRaises(t) PROVE IInv' /\ Kept
<1> DEFINE pc == IF task[t].inTry THEN "caught" ELSE Ended(t)
           k == [task[t] EXCEPT !.pc = pc, !.record = "none", !.inTry = FALSE]
<1>1. /\ writer = t /\ writer' = NoOne /\ saved' \in {saved, store}
      /\ faults < MaxFaults /\ faults' = faults + 1 /\ task' = [task EXCEPT ![t] = k]
      /\ aborted' = (aborted \/ ~task[t].inTry)
      /\ UNCHANGED <<store, main, pending, circuit, crashes, handlers>>
  BY DEF SaveRaises
<1>2. /\ TypeOK /\ IdleOK /\ task \in [Targets -> Task] /\ task[t] \in Task
      /\ store \in [Targets -> TargetManifest] /\ pending \in SUBSET Targets
      /\ circuit \in BOOLEAN /\ aborted \in BOOLEAN /\ main \in {"idle", "run", "blocking"}
      /\ RowOK(t, task[t], store[t], writer) /\ RecordsOK(store[t]) /\ faults \in Nat
  BY LimitsAssumption DEF IInv, TypeOK
<1>3. main # "idle" /\ main' \in {"run", "blocking"}
  BY <1>1, <1>2, NoOneAssumption DEF IdleOK
<1>4. /\ pc \in {"caught", "done", "off"} /\ (pc = "caught" => task[t].inTry)
      /\ k \in Task /\ k.pc = pc /\ k.phase = task[t].phase /\ ~k.inTry
  BY <1>2 DEF Task, PCs, Ended, Ownership
<1> HIDE DEF k, pc
<1>6. task' \in [Targets -> Task] /\ task'[t] = k /\ \A u \in Targets \ {t} : task'[u] = task[u]
  BY <1>1, <1>2, <1>4
<1>7. RowOK(t, task'[t], store'[t], writer')
  BY <1>1, <1>2, <1>4, <1>6 DEF RowOK
<1>8. Grows(store[t], store'[t]) /\ RecordsOK(store'[t])
  BY <1>1, <1>2 DEF Grows
<1>9. faults' > 0 /\ aborted' \in BOOLEAN
  BY <1>1, <1>2
<1> QED BY <1>1, <1>2, <1>3, <1>6, <1>7, <1>8, <1>9, OneTarget

\* A record is refused: the phase is COMPLETE in memory, without the record.
LEMMA RecordRaisesStep ==
  ASSUME IInv, NEW t \in Targets, RecordRaises(t), writer # t PROVE IInv' /\ Kept
<1> DEFINE p == task[t].phase
           row == Closed(store[t], p, "none")
           k == [task[t] EXCEPT !.pc = "caught", !.record = "none", !.inTry = FALSE]
<1>1. /\ task[t].pc \in {"call", "result"}
      /\ faults < MaxFaults /\ faults' = faults + 1 /\ store' = [store EXCEPT ![t] = row]
      /\ task' = [task EXCEPT ![t] = k]
      /\ UNCHANGED <<saved, writer, main, pending, circuit, aborted, crashes, handlers>>
  BY DEF RecordRaises
<1>2. /\ TypeOK /\ main # "idle" /\ main \in {"run", "blocking"}
      /\ store \in [Targets -> TargetManifest] /\ task \in [Targets -> Task]
      /\ store[t] \in TargetManifest /\ task[t] \in Task
      /\ pending \in SUBSET Targets /\ circuit \in BOOLEAN /\ aborted \in BOOLEAN
      /\ RecordsOK(store[t]) /\ p \in Phases /\ store[t].ckpt[p] = "running"
  BY <1>1, TaskContext DEF RowOK
<1>3. "complete" \in AllowedFrom(store[t].ckpt[p]) /\ "none" \in Ownership
  BY <1>2, AllowedTransitions DEF Ownership
<1>4. /\ row \in TargetManifest /\ row.ckpt = [store[t].ckpt EXCEPT ![p] = "complete"]
  <2>1. store[t] \in TargetManifest /\ p \in Phases
    BY <1>2
  <2> QED BY <1>3, <2>1, ClosedFacts
<1>5. Grows(store[t], row) /\ RecordsOK(row)
  BY <1>2, <1>3, ClosedGrows
<1>6. k \in Task /\ k.pc = "caught" /\ k.phase = p /\ ~k.inTry
  BY <1>2, <1>3 DEF Task, PCs
<1> HIDE DEF row, k
<1>7. /\ store' \in [Targets -> TargetManifest] /\ store'[t] = row
      /\ task' \in [Targets -> Task] /\ task'[t] = k
      /\ \A u \in Targets \ {t} : store'[u] = store[u] /\ task'[u] = task[u]
  BY <1>1, <1>2, <1>4, <1>6
<1>8. row.ckpt[p] = "complete"
  BY <1>2, <1>4 DEF TargetManifest
<1>9. RowOK(t, k, row, writer')
  BY <1>2, <1>6, <1>8 DEF RowOK, Tried, Closing
<1>10. faults' > 0
  BY <1>1, LimitsAssumption DEF IInv, TypeOK
<1> QED BY <1>1, <1>2, <1>5, <1>7, <1>9, <1>10, OneTarget

\* Every step of a task.
LEMMA TaskSteps ==
  ASSUME IInv, NEW t \in Targets, TaskStep(t) PROVE IInv' /\ Kept
<1>1. ASSUME RecordRaises(t) PROVE IInv' /\ Kept
  BY <1>1, NoOneAssumption, RecordRaisesStep DEF RecordRaises
<1> QED BY <1>1, WorkSteps, SaveStep, SaveRaisesStep DEF TaskStep

-----------------------------------------------------------------------------
(* The other steps *)

\* A step of the main thread, of a command or of the environment that saves
\* nothing.
LEMMA UnsavedSteps ==
  ASSUME IInv, main' \in {"idle", "run", "blocking"}, pending' \in SUBSET Targets,
         task' \in [Targets -> Task], circuit' \in BOOLEAN, aborted' \in BOOLEAN,
         handlers' \in SUBSET Phases, crashes' \in 0 .. MaxCrashes, faults' = faults,
         store' = store \/ store' = saved, writer' \in {writer, NoOne}, saved' = saved,
         IdleOK',
         \A t \in Targets : task'[t] = task[t] \/ task'[t].pc \in {"off", "queued"},
         \A t \in Targets : RowOK(t, task'[t], store'[t], writer')
  PROVE  IInv' /\ Kept
<1>1. TypeOK'
  BY DEF IInv, TypeOK
<1>2. SavedOK' /\ \A t \in Targets : RecordsOK(store'[t])
  BY DEF IInv, SavedOK, Grows
<1>3. FaultsOK'
  BY DEF IInv, FaultsOK
<1>4. Kept
  BY DEF Kept
<1> QED BY <1>1, <1>2, <1>3, <1>4 DEF IInv

\* A fresh task has nothing to rely on.
LEMMA FreshTask ==
  /\ NoTask \in Task /\ [NoTask EXCEPT !.pc = "queued"] \in Task
  /\ NoTask.pc = "off" /\ [NoTask EXCEPT !.pc = "queued"].pc = "queued"
  /\ \A t, tm, w : RowOK(t, NoTask, tm, w) /\ RowOK(t, [NoTask EXCEPT !.pc = "queued"], tm, w)
<1>1. 1 \in 1 .. NumPhases + 1 /\ 0 \in 0 .. Retries
  BY PhasesAssumption, LimitsAssumption
<1>2. NoTask \in Task /\ [NoTask EXCEPT !.pc = "queued"] \in Task
  BY <1>1 DEF NoTask, Task, PCs, TargetState, Ownership
<1>3. /\ NoTask.pc = "off" /\ [NoTask EXCEPT !.pc = "queued"].pc = "queued"
      /\ ~NoTask.inTry /\ ~[NoTask EXCEPT !.pc = "queued"].inTry
  BY DEF NoTask
<1> QED BY <1>2, <1>3 DEF RowOK

\* The steps of the main thread.
LEMMA MainSteps ==
  ASSUME IInv, MainStep \/ Interrupt PROVE IInv' /\ Kept
<1>0. /\ TypeOK /\ IdleOK /\ main \in {"idle", "run", "blocking"} /\ pending \in SUBSET Targets
      /\ task \in [Targets -> Task] /\ circuit \in BOOLEAN /\ aborted \in BOOLEAN
      /\ handlers \in SUBSET Phases /\ crashes \in 0 .. MaxCrashes
      /\ \A t \in Targets : RowOK(t, task[t], store[t], writer)
  BY DEF IInv, TypeOK
<1>1. ASSUME SubmitWave PROVE IInv' /\ Kept
  <2>1. /\ main = "run"
        /\ task' = [t \in Targets |-> IF t \in Ready THEN [NoTask EXCEPT !.pc = "queued"]
                                      ELSE NoTask]
        /\ UNCHANGED <<store, saved, writer, main, pending, circuit, aborted, crashes,
                       faults, handlers>>
    BY <1>1 DEF SubmitWave
  <2>2. /\ task' \in [Targets -> Task] /\ \A t \in Targets : task'[t].pc \in {"off", "queued"}
        /\ \A t \in Targets : RowOK(t, task'[t], store'[t], writer')
    BY <2>1, FreshTask
  <2>3. IdleOK'
    BY <2>1 DEF IdleOK
  <2> QED BY <1>0, <2>1, <2>2, <2>3, UnsavedSteps
<1>2. ASSUME JoinWave PROVE IInv' /\ Kept
  <2>1. /\ main = "run" /\ task' = [t \in Targets |-> NoTask] /\ pending' = pending \ Wave
        /\ UNCHANGED <<store, saved, writer, main, circuit, aborted, crashes, faults, handlers>>
    BY <1>2 DEF JoinWave
  <2>2. /\ task' \in [Targets -> Task] /\ \A t \in Targets : task'[t].pc = "off"
        /\ \A t \in Targets : RowOK(t, task'[t], store'[t], writer')
    BY <2>1, FreshTask
  <2>3. IdleOK'
    BY <2>1 DEF IdleOK
  <2> QED BY <1>0, <2>1, <2>2, <2>3, UnsavedSteps
<1>3. ASSUME End PROVE IInv' /\ Kept
  <2>1. /\ Wave = {} /\ writer = NoOne /\ main' = "idle" /\ pending' = {} /\ circuit' = FALSE
        /\ handlers' = Handled /\ store' = saved
        /\ UNCHANGED <<saved, writer, task, aborted, crashes, faults>>
    BY <1>3 DEF End
  <2>2. IdleOK'
    BY <2>1 DEF IdleOK, Wave
  <2>3. Handled \in SUBSET Phases
    BY PhaseSetsAssumption
  <2>4. \A t \in Targets : RowOK(t, task'[t], store'[t], writer')
    <3> SUFFICES ASSUME NEW t \in Targets PROVE RowOK(t, task[t], saved[t], writer)
      BY <2>1
    <3>1. task[t].pc = "off"
      BY <2>1 DEF Wave
    <3>2. writer # t
      BY <2>1, NoOneAssumption
    <3> QED BY <1>0, <3>1, <3>2 DEF RowOK
  <2> QED BY <1>0, <2>1, <2>2, <2>3, <2>4, UnsavedSteps
<1>4. ASSUME NEW t \in Targets, BlockUnresolved(t) PROVE IInv' /\ Kept
  <2> DEFINE p == NextIncomplete(store[t])
  <2>1. /\ main # "idle" /\ main' = "blocking" /\ Block(t, p, {}, FALSE)
        /\ pending' = pending \ {t}
        /\ UNCHANGED <<saved, circuit, aborted, crashes, faults, handlers>>
    BY <1>4 DEF BlockUnresolved
  <2>2. p \in Phases
    BY NextIncompleteIsPhase
  <2> HIDE DEF p
  <2> QED BY <1>0, <2>1, <2>2, BlockStep
<1>5. ASSUME Interrupt PROVE IInv' /\ Kept
  <2>1. /\ aborted' = TRUE
        /\ UNCHANGED <<store, saved, writer, main, pending, task, circuit, crashes, faults,
                       handlers>>
    BY <1>5 DEF Interrupt
  <2>2. IdleOK'
    BY <1>0, <2>1 DEF IdleOK
  <2> QED BY <1>0, <2>1, <2>2, UnsavedSteps
<1> QED BY <1>1, <1>2, <1>3, <1>4, <1>5 DEF MainStep

\* A run begins from a manifest in which only READY validations and failures
\* were reopened, and no task is running yet.
LEMMA BeginStep ==
  ASSUME IInv, NEW expired \in SUBSET Targets, NEW retry \in BOOLEAN, Begin(expired, retry)
  PROVE  IInv' /\ Kept
<1> DEFINE refreshed == RefreshReadiness(store, expired)
           prepared == Prepared(expired, retry)
<1>0. /\ TypeOK /\ IdleOK /\ store \in [Targets -> TargetManifest]
      /\ \A t \in Targets : RecordsOK(store[t]) /\ RowOK(t, task[t], store[t], writer)
  BY DEF IInv, TypeOK
<1>1. /\ main = "idle" /\ main' = "run" /\ store' = prepared /\ saved' = prepared
      /\ pending' = ResumableTargets(prepared) /\ aborted' = FALSE
      /\ \E more \in SUBSET Optional : handlers' = Handled \cup more
      /\ UNCHANGED <<writer, task, circuit, crashes, faults>>
  BY DEF Begin
<1>2. /\ refreshed \in [Targets -> TargetManifest]
      /\ \A t \in Targets : refreshed[t].res = store[t].res
      /\ \A t \in Targets, p \in Phases :
           store[t].ckpt[p] = "complete" =>
             \/ refreshed[t].ckpt[p] = "complete"
             \/ p = Validation /\ store[t].readiness = "ready"
  BY <1>0, RefreshReadinessType
<1> HIDE DEF refreshed
<1>3. /\ ReopenFailed(refreshed) \in [Targets -> TargetManifest]
      /\ \A t \in Targets : ReopenFailed(refreshed)[t].res = refreshed[t].res
      /\ \A t \in Targets, p \in Phases :
           refreshed[t].ckpt[p] = "complete" => ReopenFailed(refreshed)[t].ckpt[p] = "complete"
  BY <1>2, ReopenFailedType
<1>4. prepared = IF retry THEN ReopenFailed(refreshed) ELSE refreshed
  BY DEF Prepared, refreshed
<1> HIDE DEF prepared
<1>5. /\ prepared \in [Targets -> TargetManifest]
      /\ \A t \in Targets : prepared[t].res = store[t].res
      /\ \A t \in Targets, p \in Phases :
           store[t].ckpt[p] = "complete" =>
             \/ prepared[t].ckpt[p] = "complete"
             \/ p = Validation /\ store[t].readiness = "ready"
  <2>1. CASE retry
    BY <1>2, <1>3, <1>4, <2>1
  <2>2. CASE ~retry
    BY <1>2, <1>4, <2>2
  <2> QED BY <2>1, <2>2
<1>6. TypeOK'
  <2>1. pending' \in SUBSET Targets
    BY <1>1 DEF ResumableTargets
  <2>2. handlers' \in SUBSET Phases
    BY <1>1, PhaseSetsAssumption
  <2> QED BY <1>0, <1>1, <1>5, <2>1, <2>2 DEF TypeOK
<1>7. \A t \in Targets : RecordsOK(prepared[t])
  <2> SUFFICES ASSUME NEW t \in Targets, NEW p \in Phases,
                      prepared[t].res[p] # "none", p # Validation
               PROVE  prepared[t].ckpt[p] = "complete"
    BY <1>0, <1>5 DEF RecordsOK
  <2> QED BY <1>0, <1>5 DEF RecordsOK
<1>8. IdleOK'
  BY <1>1 DEF IdleOK
<1>9. \A t \in Targets : RowOK(t, task'[t], store'[t], writer')
  <2> SUFFICES ASSUME NEW t \in Targets PROVE RowOK(t, task[t], prepared[t], writer)
    BY <1>1
  <2>1. task[t].pc = "off" /\ writer # t
    BY <1>0, <1>1, NoOneAssumption DEF IdleOK
  <2> QED BY <1>0, <2>1 DEF RowOK
<1>10. SavedOK'
  BY <1>1, <1>7 DEF SavedOK, Grows
<1>11. FaultsOK'
  BY <1>1 DEF IInv, FaultsOK
<1>12. Kept
  BY <1>0, <1>1, <1>5 DEF Kept, IdleOK
<1> QED BY <1>1, <1>6, <1>7, <1>8, <1>9, <1>10, <1>11, <1>12 DEF IInv

\* Imported evidence closes a handed-off phase, and records what it attests.
LEMMA ImportStep ==
  ASSUME IInv, NEW t \in Targets, NEW p \in Phases, ImportHandoff(t, p)
  PROVE  IInv' /\ Kept
<1>0. /\ TypeOK /\ IdleOK
      /\ store \in [Targets -> TargetManifest] /\ store[t] \in TargetManifest
      /\ \A u \in Targets : RecordsOK(store[u]) /\ RowOK(u, task[u], store[u], writer)
  BY DEF IInv, TypeOK
<1>1. PICK record \in RecordsFor(p) :
        store' = [store EXCEPT ![t] = [Closed(@, p, record) EXCEPT
                                         !.state = "pending", !.readiness = "configured"]]
  BY DEF ImportHandoff
<1> DEFINE closed == Closed(store[t], p, record)
           row == [closed EXCEPT !.state = "pending", !.readiness = "configured"]
<1>2. /\ main = "idle" /\ store[t].ckpt[p] = "handed-off" /\ store' = [store EXCEPT ![t] = row]
      /\ saved' = store'
      /\ UNCHANGED <<writer, main, pending, task, circuit, aborted, crashes, faults, handlers>>
  BY <1>1 DEF ImportHandoff
<1>3. "complete" \in AllowedFrom(store[t].ckpt[p])
  BY <1>2, AllowedTransitions
<1>4. record \in Ownership /\ (p = Validation => record # "owned")
  BY <1>1, RecordsFacts
<1>5. closed \in TargetManifest /\ Grows(store[t], closed) /\ RecordsOK(closed)
  <2>1. store[t] \in TargetManifest /\ RecordsOK(store[t])
    BY <1>0
  <2> QED BY <1>3, <1>4, <2>1, ClosedFacts, ClosedGrows
<1> HIDE DEF closed
<1>6. row \in TargetManifest /\ Grows(store[t], row) /\ RecordsOK(row)
  <2>1. row \in TargetManifest /\ row.ckpt = closed.ckpt /\ row.res = closed.res
    BY <1>5 DEF TargetManifest, TargetState, Readiness
  <2> QED BY <1>5, <2>1 DEF Grows, RecordsOK
<1> HIDE DEF row
<1>7. /\ store' \in [Targets -> TargetManifest] /\ store'[t] = row
      /\ \A u \in Targets \ {t} : store'[u] = store[u]
  BY <1>0, <1>2, <1>6
<1>8. TypeOK'
  BY <1>0, <1>2, <1>7 DEF TypeOK
<1>9. IdleOK'
  BY <1>0, <1>2 DEF IdleOK
<1>10. \A u \in Targets : RowOK(u, task'[u], store'[u], writer') /\ RecordsOK(store'[u])
  <2> SUFFICES ASSUME NEW u \in Targets
               PROVE  RowOK(u, task[u], store'[u], writer) /\ RecordsOK(store'[u])
    BY <1>2
  <2>1. task[u].pc = "off" /\ writer # u
    BY <1>0, <1>2, NoOneAssumption DEF IdleOK
  <2>2. RowOK(u, task[u], store'[u], writer)
    BY <1>0, <2>1 DEF RowOK
  <2>3. RecordsOK(store'[u])
    BY <1>0, <1>6, <1>7
  <2> QED BY <2>2, <2>3
<1>11. SavedOK'
  BY <1>2, <1>10 DEF SavedOK, Grows
<1>12. FaultsOK'
  BY <1>2 DEF IInv, FaultsOK
<1>13. Kept
  <2> SUFFICES ASSUME NEW u \in Targets PROVE Grows(saved[u], saved'[u])
    BY DEF Kept, Grows
  <2>1. saved[u] = store[u]
    BY <1>0, <1>2 DEF IdleOK
  <2> QED BY <1>2, <1>6, <1>7, <2>1 DEF Grows
<1> QED BY <1>8, <1>9, <1>10, <1>11, <1>12, <1>13 DEF IInv

\* A crash saves nothing, and what was never saved is gone.
LEMMA CrashStep ==
  ASSUME IInv, Crash PROVE IInv' /\ Kept
<1>1. /\ crashes < MaxCrashes /\ main' = "idle" /\ pending' = {}
      /\ task' = [t \in Targets |-> NoTask] /\ crashes' = crashes + 1
      /\ store' = saved /\ writer' = NoOne
      /\ circuit' = FALSE /\ aborted' = TRUE /\ handlers' = Handled
      /\ UNCHANGED <<saved, faults>>
  BY DEF Crash
<1>2. crashes' \in 0 .. MaxCrashes
  BY <1>1, LimitsAssumption DEF IInv, TypeOK
<1>3. Handled \in SUBSET Phases
  BY PhaseSetsAssumption
<1>4. /\ task' \in [Targets -> Task] /\ \A t \in Targets : task'[t].pc = "off"
      /\ \A t \in Targets : RowOK(t, task'[t], store'[t], writer')
  BY <1>1, FreshTask
<1>5. IdleOK'
  BY <1>1, <1>4 DEF IdleOK
<1> QED BY <1>1, <1>2, <1>3, <1>4, <1>5, UnsavedSteps

-----------------------------------------------------------------------------
(* The theorems *)

\* The invariant holds before any command: nothing is checkpointed and no task runs.
LEMMA InitIInv == Init => IInv
<1> SUFFICES ASSUME Init PROVE IInv
  OBVIOUS
<1>1. FreshTarget \in TargetManifest /\ \A p \in Phases : FreshTarget.res[p] = "none"
  BY DEF FreshTarget, TargetManifest, TargetState, Readiness, Ownership
<1>2. TypeOK
  <2>1. store \in [Targets -> TargetManifest] /\ saved \in [Targets -> TargetManifest]
    BY <1>1 DEF Init, FreshManifest
  <2>2. task \in [Targets -> Task]
    BY FreshTask DEF Init
  <2>3. crashes \in 0 .. MaxCrashes /\ faults \in 0 .. MaxFaults /\ handlers \in SUBSET Phases
    BY LimitsAssumption, PhaseSetsAssumption DEF Init
  <2> QED BY <2>1, <2>2, <2>3 DEF Init, TypeOK
<1>3. \A t \in Targets : RecordsOK(store[t])
  <2>1. Validation \in Phases
    BY PhasesAssumption DEF Validation, Phases
  <2> QED BY <1>1, <2>1 DEF Init, FreshManifest, RecordsOK
<1>4. IdleOK /\ FaultsOK
  BY FreshTask DEF Init, IdleOK, FaultsOK
<1>5. \A t \in Targets : RowOK(t, task[t], store[t], writer)
  BY FreshTask DEF Init
<1>6. SavedOK
  BY <1>3 DEF Init, SavedOK, Grows
<1> QED BY <1>2, <1>3, <1>4, <1>5, <1>6 DEF IInv

\* Every step keeps the invariant, every completed phase and every record.
LEMMA NextIInv == IInv /\ [Next]_vars => IInv' /\ Kept
<1> SUFFICES ASSUME IInv, [Next]_vars PROVE IInv' /\ Kept
  OBVIOUS
<1>1. ASSUME MainStep \/ Interrupt PROVE IInv' /\ Kept
  BY <1>1, MainSteps
<1>2. ASSUME NEW t \in Targets, TaskStep(t) PROVE IInv' /\ Kept
  BY <1>2, TaskSteps
<1>3. ASSUME Command PROVE IInv' /\ Kept
  BY <1>3, BeginStep, ImportStep DEF Command
<1>4. ASSUME Crash PROVE IInv' /\ Kept
  BY <1>4, CrashStep
<1>5. CASE UNCHANGED vars
  <2>1. UNCHANGED <<store, saved, writer, main, pending, task, circuit, aborted, crashes,
                    faults, handlers>>
    BY <1>5 DEF vars
  <2>2. TypeOK' /\ IdleOK' /\ SavedOK' /\ FaultsOK' /\ Kept
    BY <2>1 DEF IInv, TypeOK, IdleOK, SavedOK, FaultsOK, Kept
  <2>3. \A t \in Targets : RowOK(t, task'[t], store'[t], writer') /\ RecordsOK(store'[t])
    BY <2>1 DEF IInv
  <2> QED BY <2>2, <2>3 DEF IInv
<1> QED BY <1>1, <1>2, <1>3, <1>4, <1>5 DEF Next

\* The strengthening holds in every reachable state: between any two saves of
\* any interleaving of the pool's tasks, deaths, raised saves, resumes and retries.
THEOREM ExecInvariant == Spec => []IInv
<1>1. IInv /\ [Next]_vars => IInv'
  BY NextIInv
<1> QED BY InitIInv, <1>1, PTL DEF Spec

\* Types: among others every checkpoint, in memory and in the file, is a state
\* of the table (PhaseCheckpoint in fleet.py).
THEOREM ExecTypeOK == Spec => []TypeOK
<1>1. IInv => TypeOK
  BY DEF IInv
<1> QED BY ExecInvariant, <1>1, PTL

\* PhaseCheckpoint.transition raises CheckpointTransitionError in the executor
\* only where an except clause meets a phase that a raised save left closed.
THEOREM ExecRefusedOnlyAfterRaisedSave == Spec => []RefusedOnlyAfterRaisedSave
<1>1. IInv => RefusedOnlyAfterRaisedSave
  <2> SUFFICES ASSUME IInv, NEW t \in Targets
      PROVE  /\ \A p \in Phases : Rejected \notin {store[t].ckpt[p], saved[t].ckpt[p]}
             /\ task[t].pc = "refused" =>
                  /\ faults > 0
                  /\ store[t].ckpt[task[t].phase] \in {"complete", "handed-off", "blocked"}
    BY DEF RefusedOnlyAfterRaisedSave
  <2>1. \A p \in Phases : Rejected \notin {store[t].ckpt[p], saved[t].ckpt[p]}
    <3>1. store[t] \in TargetManifest /\ saved[t] \in TargetManifest
      BY DEF IInv, TypeOK
    <3>2. \A tm \in TargetManifest, p \in Phases : tm.ckpt[p] # Rejected
      BY DEF TargetManifest, PhaseState, Absent, Rejected
    <3> QED BY <3>1, <3>2
  <2>2. RowOK(t, task[t], store[t], writer) /\ FaultsOK
    BY DEF IInv
  <2> QED BY <2>1, <2>2 DEF RowOK, FaultsOK, Closing
<1> QED BY ExecInvariant, <1>1, PTL

\* A completed phase is replayed only by a run that starts with its READY
\* verdict expired (execute, refresh_collection_readiness).
THEOREM ExecCompletedNeverReplayed == Spec => CompletedNeverReplayed
<1>1. IInv /\ [Next]_vars =>
        [\A t \in Targets, p \in Phases :
           saved[t].ckpt[p] = "complete" =>
             \/ saved'[t].ckpt[p] = "complete"
             \/ p = Validation /\ main = "idle" /\ saved[t].readiness = "ready"]_vars
  BY NextIInv DEF Kept
<1> QED BY ExecInvariant, <1>1, PTL DEF Spec, CompletedNeverReplayed

\* No saved ownership record is ever lost or turned into another one
\* (TargetManifest.with_resource, LifecycleOperations).
THEOREM ExecRecordsKept == Spec => RecordsKept
<1>1. IInv /\ [Next]_vars =>
        [\A t \in Targets, p \in Phases :
           saved[t].res[p] # "none" => saved'[t].res[p] = saved[t].res[p]]_vars
  BY NextIInv DEF Kept
<1> QED BY ExecInvariant, <1>1, PTL DEF Spec, RecordsKept

-----------------------------------------------------------------------------
(* The order of the waves: what a task may rely on about other targets *)

\* A phase of the target is FAILED or BLOCKED: no run re-enters the target.
Vetoed(tm) == \E p \in Phases : tm.ckpt[p] \in {"failed", "blocked"}

\* A phase of the target is blocked for authorization.
Unauthorized(tm) == \E p \in Phases : tm.ckpt[p] = "blocked" /\ tm.blockedBy[p] = {}

\* The target has a verdict, or it was never saved.
Settled(tm) ==
  tm.state \in {"complete", "failed", "blocked", "handed-off"} \/ Torn(tm)

\* Phases are closed in order: what lies behind an incomplete one was never
\* entered, or waits to be tried again.
Frontier(tm) ==
  \A p, q \in Phases :
    p < q /\ tm.ckpt[q] \notin {Absent, "retryable"} => tm.ckpt[p] = "complete"

\* What holds of a target whatever became of its tasks.
AtRest(tm) ==
  /\ Frontier(tm)
  /\ tm.state \in {"failed", "blocked"} => tm.readiness # "ready"
  /\ tm.state = "complete" => ~Vetoed(tm)

\* Where a save raised inside the try has taken a task, and where the task may
\* have a veto.
Escaped == {"caught", "refused"}
Ending == {"settle", "done"} \cup Escaped

\* A task k on target t, tm in memory, in a run that has still to process the
\* targets of the set waiting.
RowOrder(t, k, tm, waiting) ==
  /\ AtRest(tm)
  /\ k.pc \notin {"off", "done", "settle"} \/ k.inTry =>
       \A q \in Phases : q < k.phase => tm.ckpt[q] = "complete"
  /\ k.pc \notin {"off", "settle"} \/ k.inTry => t \in waiting
  /\ t \in waiting /\ k.pc \notin Ending => ~Vetoed(tm) /\ tm.state # "complete"
  /\ k.pc \in Escaped \cup {"settle"} \/ k.inTry => tm.state # "complete"
  /\ k.pc = "settle" /\ k.verdict = "handed-off" => ~Vetoed(tm)

\* The targets a wave depends on were settled before it was submitted.
WaveOrder ==
  /\ main = "idle" => pending = {}
  /\ main = "run" =>
       \A t \in Targets : task[t].pc # "off" =>
         t \in pending /\ \A d \in Deps[t] : d \notin pending /\ Settled(store[d])
  /\ main = "blocking" =>
       \A t \in Targets : task[t].pc # "off" => task[t].pc = "settle" /\ t \notin pending

\* A task saves only while it is one, or for a target the run is through with.
WriterOrder == \A t \in Targets : writer = t /\ t \in pending => task[t].pc # "off"

\* A target the run is through with is settled, unless the run gives up.
Processed ==
  main # "idle" =>
    \A d \in Targets :
      (d \notin pending \/ task[d].pc = "done") /\ task[d].pc # "settle" =>
        Settled(store[d]) \/ aborted

\* A task that was not blocked at its start had no terminal parent.
ParentsGoOn ==
  \A t \in Targets : task[t].pc \notin {"off", "queued"} \cup Ending =>
    \A d \in Deps[t] : ~TerminalFailure(store[d])

\* Nothing but a death or a raised save tears the two saves of a failure apart.
TornByCrash ==
  crashes = 0 /\ faults = 0 => \A t \in Targets : task[t].pc # "settle" => ~Torn(store[t])

\* The file has caught up with memory, unless the run gives up.
Synced ==
  writer = NoOne /\ (faults = 0 \/ (~aborted /\ \A t \in Targets : task[t].pc \notin Escaped))
    => saved = store

\* What the file is behind with is in order, and no block for authorization.
SavedOrder ==
  \A t \in Targets : AtRest(saved[t]) /\ (Unauthorized(saved[t]) => Unauthorized(store[t]))

OInv ==
  /\ WaveOrder /\ WriterOrder /\ Processed /\ ParentsGoOn /\ TornByCrash
  /\ Synced /\ SavedOrder
  /\ \A t \in Targets : RowOrder(t, task[t], store[t], pending)

\* What no step of a run may do: call a handler behind an open circuit, or of a
\* target blocked for authorization, or lift such a block.
Held ==
  /\ circuit => \A t \in Targets : task'[t].pc = "call" => task[t].pc = "call"
  /\ \A t \in Targets :
       AuthorizationBlocked(t) => AuthorizationBlocked(t)' /\ task'[t].pc # "call"

\* What a step makes of the task on t.
TaskBecomes(t, k) == task' = [task EXCEPT ![t] = k]

\* Torn is a veto that the target state does not show.
LEMMA TornIsVetoed ==
  ASSUME NEW tm
  PROVE  Torn(tm) <=> tm.state \in {"pending", "running", "handed-off"} /\ Vetoed(tm)
BY DEF Torn, Vetoed, CkptStates

\* A target no run re-enters has a verdict, or is torn.
LEMMA NotResumableIsSettled ==
  ASSUME NEW tm \in TargetManifest
  PROVE  /\ TargetIsResumable(tm) => ~Vetoed(tm) /\ tm.state \notin {"complete", "failed", "blocked"}
         /\ ~TargetIsResumable(tm) => Settled(tm)
<1>1. tm.state \in TargetState
  BY DEF TargetManifest
<1>2. Vetoed(tm) <=> CkptStates(tm) \cap {"blocked", "failed"} # {}
  BY DEF Vetoed, CkptStates
<1>3. CASE TargetIsResumable(tm)
  BY <1>2, <1>3 DEF TargetIsResumable, Resumable
<1>4. CASE ~TargetIsResumable(tm)
  <2>1. CASE Vetoed(tm)
    <3>1. CASE tm.state \in {"pending", "running", "handed-off"}
      <4>1. Torn(tm)
        BY <2>1, <3>1, TornIsVetoed
      <4> QED BY <1>4, <4>1 DEF Settled
    <3>2. CASE tm.state \in {"complete", "failed", "blocked"}
      BY <1>4, <3>2 DEF Settled
    <3> QED BY <1>1, <3>1, <3>2 DEF TargetState
  <2>2. CASE ~Vetoed(tm)
    BY <1>1, <1>2, <1>4, <2>2 DEF TargetIsResumable, Resumable, Settled, TargetState
  <2> QED BY <2>1, <2>2
<1> QED BY <1>3, <1>4

\* _next_incomplete_phase returns the first one: all before it are complete.
LEMMA NextIncompleteIsFirst ==
  ASSUME NEW tm
  PROVE  \A q \in Phases : q < NextIncomplete(tm) => tm.ckpt[q] = "complete"
<1> DEFINE I == {p \in Phases : tm.ckpt[p] # "complete"}
<1>1. CASE I = {}
  BY <1>1
<1>2. CASE I # {}
  <2>1. I \in SUBSET Nat
    BY PhasesAssumption DEF Phases
  <2>2. \E p \in I : \A q \in I : p <= q
    BY <1>2, <2>1, LeastExists
  <2>3. NextIncomplete(tm) \in I /\ \A q \in I : NextIncomplete(tm) <= q
    BY <1>2, <2>2 DEF NextIncomplete
  <2> QED BY <2>1, <2>3 DEF Phases
<1> QED BY <1>1, <1>2

\* Saving a checkpoint at the frontier keeps the phases in order.
LEMMA FrontierMoves ==
  ASSUME NEW tm \in TargetManifest, NEW row \in TargetManifest, NEW p \in Phases,
         NEW to \in PhaseState, Frontier(tm), tm.ckpt[p] # "complete",
         \A q \in Phases : q < p => tm.ckpt[q] = "complete",
         row.ckpt = [tm.ckpt EXCEPT ![p] = to]
  PROVE  /\ Frontier(row)
         /\ \A q \in Phases : q < p => row.ckpt[q] = "complete"
         /\ ~Vetoed(tm) /\ to \notin {"failed", "blocked"} => ~Vetoed(row)
<1>1. row.ckpt[p] = to /\ \A q \in Phases \ {p} : row.ckpt[q] = tm.ckpt[q]
  BY DEF TargetManifest
<1>2. Phases \in SUBSET Nat
  BY PhasesAssumption DEF Phases
<1>3. \A q \in Phases : q < p => row.ckpt[q] = "complete"
  BY <1>1, <1>2
<1>4. Frontier(row)
  <2> SUFFICES ASSUME NEW r \in Phases, NEW q \in Phases, r < q,
                      row.ckpt[q] \notin {Absent, "retryable"}
               PROVE  row.ckpt[r] = "complete"
    BY DEF Frontier
  <2>1. CASE q = p
    BY <1>3, <2>1
  <2>2. CASE q # p
    BY <1>1, <2>2 DEF Frontier
  <2> QED BY <2>1, <2>2
<1>5. ASSUME ~Vetoed(tm), to \notin {"failed", "blocked"} PROVE ~Vetoed(row)
  BY <1>1, <1>5 DEF Vetoed
<1> QED BY <1>3, <1>4, <1>5

\* What the order of the waves says where a task takes a step.
LEMMA OrderContext ==
  ASSUME IInv, OInv, NEW t \in Targets, task[t].pc # "off"
  PROVE  /\ RowOrder(t, task[t], store[t], pending) /\ AtRest(store[t]) /\ Frontier(store[t])
         /\ store[t] \in TargetManifest /\ store \in [Targets -> TargetManifest]
         /\ task[t] \in Task /\ task \in [Targets -> Task]
         /\ main \in {"run", "blocking"}
         /\ task[t].pc # "settle" => main = "run" /\ t \in pending
         /\ task[t].pc \notin Ending =>
              ~Vetoed(store[t]) /\ store[t].state # "complete" /\ ~Torn(store[t])
         /\ task[t].pc \notin {"settle", "done"} =>
              \A q \in Phases : q < task[t].phase => store[t].ckpt[q] = "complete"
         /\ task[t].pc \in Escaped \cup {"settle"} => store[t].state # "complete"
<1>1. /\ TypeOK /\ main \in {"run", "blocking"}
      /\ store \in [Targets -> TargetManifest] /\ task \in [Targets -> Task]
  BY TaskContext
<1>2. RowOrder(t, task[t], store[t], pending) /\ WaveOrder
  BY DEF OInv
<1>3. task[t].pc # "settle" => main = "run" /\ t \in pending
  BY <1>1, <1>2 DEF WaveOrder
<1>4. task[t].pc \notin Ending => ~Vetoed(store[t]) /\ store[t].state # "complete"
  BY <1>2, <1>3 DEF RowOrder, Ending
<1>5. task[t].pc \notin {"settle", "done"} =>
        \A q \in Phases : q < task[t].phase => store[t].ckpt[q] = "complete"
  BY <1>2 DEF RowOrder
<1>6. ~Vetoed(store[t]) => ~Torn(store[t])
  BY TornIsVetoed
<1>7. /\ AtRest(store[t]) /\ Frontier(store[t])
      /\ task[t].pc \in Escaped \cup {"settle"} => store[t].state # "complete"
  BY <1>2 DEF RowOrder, AtRest
<1> QED BY <1>1, <1>2, <1>3, <1>4, <1>5, <1>6, <1>7

\* A target blocked for authorization is vetoed, in memory too.
LEMMA AuthorizationVetoes ==
  ASSUME OInv, NEW t \in Targets, AuthorizationBlocked(t)
  PROVE  Unauthorized(store[t]) /\ Vetoed(store[t])
<1>1. Unauthorized(store[t])
  BY DEF OInv, SavedOrder, AuthorizationBlocked, Unauthorized
<1> QED BY <1>1 DEF Unauthorized, Vetoed

\* A step of a live process about one target, which leaves it as row and its
\* task as k, both in order, and the file as it was or as memory was.
Moves(t, row, k) ==
  /\ main \in {"run", "blocking"} /\ UNCHANGED <<main, pending, crashes>>
  /\ store' = [store EXCEPT ![t] = row] /\ TaskBecomes(t, k)
  /\ aborted => aborted'
  /\ saved' \in {saved, store} /\ (faults' = 0 => faults = 0)
  /\ Synced' /\ \A u \in Targets : writer' = u => u = t \/ writer = u
  /\ RowOrder(t, k, row, pending)
  /\ k.pc = "off" => t \notin pending
  /\ k.pc # "off" => task[t].pc # "off"
  /\ task[t].pc = "off" => row = store[t]
  /\ main = "blocking" => k.pc \in {"off", "settle"}
  /\ (t \notin pending \/ k.pc = "done") /\ k.pc # "settle" => Settled(row) \/ aborted'
  /\ k.pc \notin {"off", "queued"} \cup Ending => \A d \in Deps[t] : ~TerminalFailure(store[d])
  /\ crashes = 0 /\ faults' = 0 /\ k.pc # "settle" => ~Torn(row)
  /\ k.pc = "call" => task[t].pc = "call" \/ ~circuit
  /\ Unauthorized(store[t]) => Unauthorized(row)

\* Such a step keeps the order.
LEMMA OrderMove ==
  ASSUME IInv, OInv, NEW t \in Targets, NEW row, NEW k, Moves(t, row, k)
  PROVE  OInv' /\ Held
<1> USE DEF Moves
<1>1. /\ WaveOrder /\ WriterOrder /\ Processed /\ ParentsGoOn /\ TornByCrash /\ SavedOrder
      /\ \A u \in Targets : RowOrder(u, task[u], store[u], pending)
  BY DEF OInv
<1>2. store \in [Targets -> TargetManifest] /\ task \in [Targets -> Task]
  BY DEF IInv, TypeOK
<1>3. /\ store'[t] = row /\ task'[t] = k
      /\ \A u \in Targets \ {t} : store'[u] = store[u] /\ task'[u] = task[u]
  BY <1>2 DEF TaskBecomes
<1>4. \A u \in Targets : \A d \in Deps[u] : d \in Targets
  BY DepsAssumption
\* The targets the wave depends on stay as they are.
<1>5. main = "run" =>
        \A u \in Targets : task[u].pc # "off" => \A d \in Deps[u] : store'[d] = store[d]
  <2> SUFFICES ASSUME main = "run", NEW u \in Targets, task[u].pc # "off", NEW d \in Deps[u]
               PROVE  store'[d] = store[d]
    OBVIOUS
  <2>1. d \in Targets /\ d \notin pending
    BY <1>1, <1>4 DEF WaveOrder
  <2>2. task[d].pc = "off"
    BY <1>1, <2>1 DEF WaveOrder
  <2> QED BY <1>3, <2>1, <2>2
<1>6. WaveOrder'
  <2>1. ASSUME main' = "run", NEW u \in Targets, task'[u].pc # "off"
        PROVE  u \in pending' /\ \A d \in Deps[u] : d \notin pending' /\ Settled(store'[d])
    <3>1. main = "run" /\ task[u].pc # "off"
      BY <1>3, <2>1
    <3>2. u \in pending /\ \A d \in Deps[u] : d \notin pending /\ Settled(store[d])
      BY <1>1, <3>1 DEF WaveOrder
    <3> QED BY <1>5, <3>1, <3>2
  <2>2. ASSUME main' = "blocking", NEW u \in Targets, task'[u].pc # "off"
        PROVE  task'[u].pc = "settle" /\ u \notin pending'
    <3>1. task[u].pc # "off"
      BY <1>3, <2>2
    <3>2. u \notin pending /\ task[u].pc = "settle"
      BY <1>1, <2>2, <3>1 DEF WaveOrder
    <3> QED BY <1>3, <2>2, <3>2
  <2>3. main' # "idle"
    OBVIOUS
  <2> QED BY <2>1, <2>2, <2>3 DEF WaveOrder
<1>7. WriterOrder'
  <2> SUFFICES ASSUME NEW u \in Targets, writer' = u, u \in pending PROVE task'[u].pc # "off"
    BY DEF WriterOrder
  <2>1. CASE u = t
    BY <1>3, <2>1
  <2>2. CASE u # t
    BY <1>1, <1>3, <2>2 DEF WriterOrder
  <2> QED BY <2>1, <2>2
<1>8. Processed'
  <2> SUFFICES ASSUME NEW d \in Targets, d \notin pending' \/ task'[d].pc = "done",
                      task'[d].pc # "settle"
               PROVE  Settled(store'[d]) \/ aborted'
    BY DEF Processed
  <2>1. CASE d = t
    BY <1>3, <2>1
  <2>2. CASE d # t
    BY <1>1, <1>3, <2>2 DEF Processed
  <2> QED BY <2>1, <2>2
<1>9. ParentsGoOn'
  <2> SUFFICES ASSUME NEW u \in Targets, task'[u].pc \notin {"off", "queued"} \cup Ending,
                      NEW d \in Deps[u]
               PROVE  ~TerminalFailure(store'[d])
    BY DEF ParentsGoOn
  <2>1. main = "run" /\ task[u].pc # "off"
    <3>1. CASE u = t
      BY <1>3, <3>1 DEF Ending
    <3>2. CASE u # t
      BY <1>1, <1>3, <3>2 DEF WaveOrder, Ending
    <3> QED BY <3>1, <3>2
  <2>2. store'[d] = store[d]
    BY <1>5, <2>1
  <2>3. ~TerminalFailure(store[d])
    BY <1>1, <1>3 DEF ParentsGoOn
  <2> QED BY <2>2, <2>3
<1>10. TornByCrash'
  BY <1>1, <1>3 DEF TornByCrash
<1>11. \A u \in Targets : RowOrder(u, task'[u], store'[u], pending')
  BY <1>1, <1>3
<1>12. SavedOrder'
  <2> SUFFICES ASSUME NEW u \in Targets
               PROVE  AtRest(saved'[u]) /\ (Unauthorized(saved'[u]) => Unauthorized(store'[u]))
    BY DEF SavedOrder
  <2>1. AtRest(saved[u]) /\ AtRest(store[u]) /\ (Unauthorized(saved[u]) => Unauthorized(store[u]))
    BY <1>1 DEF SavedOrder, RowOrder
  <2>2. Unauthorized(store[u]) => Unauthorized(store'[u])
    BY <1>3
  <2> QED BY <2>1, <2>2
<1>13. Held
  <2>1. ASSUME circuit, NEW u \in Targets, task'[u].pc = "call" PROVE task[u].pc = "call"
    BY <1>3, <2>1
  <2>2. ASSUME NEW u \in Targets, AuthorizationBlocked(u)
        PROVE  AuthorizationBlocked(u)' /\ task'[u].pc # "call"
    <3>1. Unauthorized(saved[u]) /\ Unauthorized(store[u])
      BY <2>2, AuthorizationVetoes DEF AuthorizationBlocked, Unauthorized
    <3>2. Unauthorized(saved'[u]) /\ Vetoed(store'[u])
      <4>1. Unauthorized(store'[u])
        BY <1>3, <3>1
      <4> QED BY <3>1, <4>1 DEF Unauthorized, Vetoed
    <3>3. task'[u].pc # "call"
      <4> SUFFICES ASSUME task'[u].pc = "call" PROVE FALSE
        OBVIOUS
      <4>1. RowOrder(u, task'[u], store'[u], pending')
        BY <1>11
      <4> QED BY <3>2, <4>1 DEF RowOrder, Ending, Escaped
    <3> QED BY <3>2, <3>3 DEF AuthorizationBlocked, Unauthorized
  <2> QED BY <2>1, <2>2 DEF Held
<1> QED BY <1>6, <1>7, <1>8, <1>9, <1>10, <1>11, <1>12, <1>13 DEF OInv

-----------------------------------------------------------------------------
(* Steps that change the manifest in memory *)

\* What is common to them: nothing is saved, and nobody's save but that of t begins.
Works(t) ==
  /\ UNCHANGED <<main, pending, crashes, saved, faults>>
  /\ aborted => aborted'
  /\ writer # t /\ writer' \in {writer, t}
  /\ writer' # t => UNCHANGED store

\* Such a step keeps the order when it leaves its own target in order.
LEMMA OrderOneTarget ==
  ASSUME IInv, OInv, NEW t \in Targets, NEW row, NEW k,
         task[t].pc \notin {"off", "done"},
         store' = [store EXCEPT ![t] = row], TaskBecomes(t, k), Works(t),
         RowOrder(t, k, row, pending), k.pc \notin {"queued", "caught"},
         task[t].pc = "settle" =>
           k.pc = Ended(t) /\ row.ckpt = store[t].ckpt /\ row.blockedBy = store[t].blockedBy,
         task[t].pc # "settle" => k.pc # "off",
         task[t].pc \in Escaped /\ Unauthorized(store[t]) => Unauthorized(row),
         task[t].pc \in Escaped => k.pc \in Escaped \/ aborted' \/ writer' = t,
         k.pc \in Escaped => task[t].pc \in Escaped,
         k.pc \in {"done", "off"} => Settled(row) \/ aborted',
         k.pc \notin {"off", "queued"} \cup Ending => \A d \in Deps[t] : ~TerminalFailure(store[d]),
         k.pc = "call" => task[t].pc = "call" \/ ~circuit,
         k.pc # "settle" /\ faults = 0 => ~Torn(row)
  PROVE  OInv' /\ Held
<1>1. /\ task \in [Targets -> Task] /\ main \in {"run", "blocking"}
      /\ task[t].pc # "settle" => main = "run" /\ t \in pending
      /\ task[t].pc \notin Ending => ~Vetoed(store[t])
  BY OrderContext
<1>2. WaveOrder /\ Synced
  BY DEF OInv
<1>3. /\ task'[t] = k /\ \A u \in Targets \ {t} : task'[u] = task[u]
  BY <1>1 DEF TaskBecomes
<1>4. Synced'
  <2> SUFFICES ASSUME writer' = NoOne,
                      faults' = 0 \/ (~aborted' /\ \A u \in Targets : task'[u].pc \notin Escaped)
               PROVE  saved' = store'
    BY DEF Synced
  <2>1. writer' # t /\ writer = NoOne /\ UNCHANGED <<store, saved, faults>>
    BY NoOneAssumption DEF Works
  <2>2. ASSUME ~aborted', NEW u \in Targets, task'[u].pc \notin Escaped
        PROVE  ~aborted /\ task[u].pc \notin Escaped
    BY <1>3, <2>1, <2>2 DEF Works
  <2> QED BY <1>2, <2>1, <2>2 DEF Synced
<1>5. \A u \in Targets : writer' = u => u = t \/ writer = u
  BY DEF Works
<1>6. Unauthorized(store[t]) => Unauthorized(row)
  <2>1. CASE task[t].pc \notin Ending
    BY <1>1, <2>1 DEF Vetoed, Unauthorized
  <2>2. CASE task[t].pc = "settle"
    BY <2>2 DEF Unauthorized
  <2> QED BY <2>1, <2>2 DEF Ending
<1>7. main = "blocking" => k.pc = "off" /\ t \notin pending
  BY <1>1, <1>2 DEF WaveOrder, Ended
<1>8. k.pc = "off" => t \notin pending
  BY <1>1 DEF Ended
<1>9. (t \notin pending \/ k.pc = "done") /\ k.pc # "settle" => Settled(row) \/ aborted'
  <2>1. t \notin pending => main = "blocking"
    BY <1>1, <1>2 DEF WaveOrder
  <2> QED BY <1>7, <2>1
<1>10. /\ main \in {"run", "blocking"} /\ UNCHANGED <<main, pending, crashes>>
       /\ aborted => aborted'
       /\ saved' \in {saved, store} /\ (faults' = 0 => faults = 0)
  BY <1>1 DEF Works
<1>11. /\ k.pc # "off" => task[t].pc # "off"
       /\ task[t].pc = "off" => row = store[t]
  OBVIOUS
<1>12. crashes = 0 /\ faults' = 0 /\ k.pc # "settle" => ~Torn(row)
  BY DEF Works
<1>13. main = "blocking" => k.pc \in {"off", "settle"}
  BY <1>7
<1>14. k.pc \notin {"off", "queued"} \cup Ending => \A d \in Deps[t] : ~TerminalFailure(store[d])
  OBVIOUS
<1>15. /\ RowOrder(t, k, row, pending) /\ store' = [store EXCEPT ![t] = row] /\ TaskBecomes(t, k)
       /\ k.pc = "call" => task[t].pc = "call" \/ ~circuit
  OBVIOUS
<1>16. Moves(t, row, k)
  BY <1>4, <1>5, <1>6, <1>8, <1>9, <1>10, <1>11, <1>12, <1>13, <1>14, <1>15 DEF Moves
<1> QED BY <1>16, OrderMove

\* _block at the frontier leaves a row that is in order.
LEMMA BlockRow ==
  ASSUME TypeOK, NEW t \in Targets, NEW p \in Phases, NEW cause \in SUBSET Targets,
         NEW inTry, Block(t, p, cause, inTry), Frontier(store[t]),
         \A q \in Phases : q < p => store[t].ckpt[q] = "complete"
  PROVE  \E row \in TargetManifest :
           /\ store' = [store EXCEPT ![t] = row] /\ Frontier(row)
           /\ row.state = store[t].state /\ row.readiness = store[t].readiness
           /\ \A q \in Phases : q < p => row.ckpt[q] = "complete"
           /\ (writer' = writer /\ row = store[t]) \/ (writer = NoOne /\ writer' = t)
<1>1. store[t] \in TargetManifest /\ store \in [Targets -> TargetManifest]
  BY DEF TypeOK
<1>2. CASE store[t].ckpt[p] \in {"blocked", "complete"}
  <2>1. store' = [store EXCEPT ![t] = store[t]] /\ writer' = writer
    BY <1>1, <1>2 DEF Block
  <2> QED BY <1>1, <2>1
<1>3. CASE store[t].ckpt[p] \notin {"blocked", "complete"}
  <2> DEFINE row == Checkpointed(store[t], p, "blocked", cause)
  <2>1. store' = [store EXCEPT ![t] = row] /\ writer = NoOne /\ writer' = t
    BY <1>3 DEF Block, CheckpointThenSettle, Checkpoint, Change
  <2>2. "blocked" \in AllowedFrom(store[t].ckpt[p]) /\ "blocked" \in PhaseState
    <3>1. store[t].ckpt[p] \in (PhaseState \cup {Absent}) \ {"complete", "blocked"}
      BY <1>1, <1>3 DEF TargetManifest
    <3> QED BY <3>1, AllowedTransitions DEF PhaseState
  <2>3. /\ row \in TargetManifest /\ row.ckpt = [store[t].ckpt EXCEPT ![p] = "blocked"]
        /\ row.state = store[t].state /\ row.readiness = store[t].readiness
    BY <1>1, <2>2, CheckpointedType
  <2> HIDE DEF row
  <2>4. Frontier(row) /\ \A q \in Phases : q < p => row.ckpt[q] = "complete"
    BY <1>1, <1>3, <2>2, <2>3, FrontierMoves
  <2> QED BY <2>1, <2>3, <2>4
<1> QED BY <1>2, <1>3

\* A task that blocks its target has only the target state left to save.
LEMMA OrderBlock ==
  ASSUME IInv, OInv, NEW t \in Targets, NEW p \in Phases, NEW cause \in SUBSET Targets,
         NEW inTry \in BOOLEAN, inTry => p = task[t].phase,
         Block(t, p, cause, inTry), task[t].pc \notin {"off"} \cup Ending,
         \A q \in Phases : q < p => store[t].ckpt[q] = "complete",
         writer # t, UNCHANGED <<main, pending, crashes, saved, faults>>, aborted => aborted'
  PROVE  OInv' /\ Held
<1> DEFINE k == [task[t] EXCEPT !.pc = "settle", !.verdict = "blocked", !.inTry = inTry]
<1>1. /\ RowOrder(t, task[t], store[t], pending) /\ AtRest(store[t]) /\ Frontier(store[t])
      /\ store[t].state # "complete" /\ task[t] \in Task /\ t \in pending
  BY OrderContext DEF Ending
<1>2. TypeOK /\ store \in [Targets -> TargetManifest]
  BY DEF IInv, TypeOK
<1>3. PICK row \in TargetManifest :
        /\ store' = [store EXCEPT ![t] = row] /\ Frontier(row)
        /\ row.state = store[t].state /\ row.readiness = store[t].readiness
        /\ \A q \in Phases : q < p => row.ckpt[q] = "complete"
        /\ (writer' = writer /\ row = store[t]) \/ (writer = NoOne /\ writer' = t)
  BY <1>1, <1>2, BlockRow
<1>4. TaskBecomes(t, k)
  <2>1. SettleLater(t, "blocked", inTry)
    BY <1>2, BlockFacts
  <2> QED BY <2>1 DEF TaskBecomes, SettleLater
<1>5. k.pc = "settle" /\ k.verdict = "blocked" /\ k.inTry = inTry /\ k.phase = task[t].phase
  BY <1>1 DEF Task
<1> HIDE DEF k
<1>6. RowOrder(t, k, row, pending)
  <2>1. AtRest(row)
    BY <1>1, <1>3 DEF AtRest
  <2> QED BY <1>1, <1>3, <1>5, <2>1 DEF RowOrder, Ending
<1>7. Works(t)
  BY <1>2, <1>3 DEF Works
<1> QED BY <1>3, <1>4, <1>5, <1>6, <1>7, OrderOneTarget DEF Ending, Escaped

\* Entering a phase, and every outcome of a handler but success, changes the
\* checkpoint of the phase the task is in.
LEMMA OrderCheckpoint ==
  ASSUME IInv, OInv, NEW t \in Targets, NEW p \in Phases, NEW to \in PhaseState, NEW k,
         task[t].pc \in {"loop", "region", "call", "backoff", "caught"}, p = task[t].phase,
         store[t].ckpt[p] \notin {"complete", "blocked"},
         to = store[t].ckpt[p] \/ to \in AllowedFrom(store[t].ckpt[p]),
         Checkpoint(t, p, to, {}), TaskBecomes(t, k),
         k.pc \in {"region", "backoff", "raise", "settle"}, k.phase = p,
         task[t].pc = "caught" => k.pc = "settle" /\ k.verdict # "handed-off",
         k.pc # "settle" \/ k.verdict = "handed-off" => to \notin {"failed", "blocked"},
         writer # t, UNCHANGED <<main, pending, crashes, saved, faults>>, aborted => aborted'
  PROVE  OInv' /\ Held
<1> DEFINE row == Checkpointed(store[t], p, to, {})
<1>1. /\ RowOrder(t, task[t], store[t], pending) /\ AtRest(store[t]) /\ Frontier(store[t])
      /\ store[t] \in TargetManifest /\ t \in pending
      /\ task[t].pc # "caught" => ~Vetoed(store[t])
      /\ store[t].state # "complete"
      /\ \A q \in Phases : q < p => store[t].ckpt[q] = "complete"
  BY OrderContext DEF Ending, Escaped
<1>2. store' = [store EXCEPT ![t] = row] /\ writer = NoOne /\ writer' = t
  BY DEF Checkpoint, Change
<1>3. /\ row \in TargetManifest /\ row.ckpt = [store[t].ckpt EXCEPT ![p] = to]
      /\ row.state = store[t].state /\ row.readiness = store[t].readiness
      /\ row.blockedBy = [store[t].blockedBy EXCEPT ![p] = {}]
  <2>1. row.blockedBy = [store[t].blockedBy EXCEPT ![p] = {}]
    BY <1>1 DEF Checkpointed, TargetManifest
  <2> QED BY <1>1, <2>1, CheckpointedType
<1> HIDE DEF row
<1>4. /\ Frontier(row) /\ \A q \in Phases : q < p => row.ckpt[q] = "complete"
      /\ ~Vetoed(store[t]) /\ to \notin {"failed", "blocked"} => ~Vetoed(row)
  BY <1>1, <1>3, FrontierMoves
<1>5. RowOrder(t, k, row, pending)
  <2>1. AtRest(row)
    BY <1>1, <1>3, <1>4 DEF AtRest
  <2> QED BY <1>1, <1>3, <1>4, <2>1 DEF RowOrder, Ending, Escaped
<1>6. k.pc # "settle" => ~Torn(row)
  BY <1>1, <1>4, TornIsVetoed
<1>7. k.pc \notin {"off", "queued"} \cup Ending => \A d \in Deps[t] : ~TerminalFailure(store[d])
  BY DEF OInv, ParentsGoOn, Ending, Escaped
<1>8. Unauthorized(store[t]) => Unauthorized(row)
  BY <1>1, <1>3 DEF Unauthorized, TargetManifest
<1>9. Works(t)
  BY <1>2 DEF Works
<1> QED BY <1>2, <1>5, <1>6, <1>7, <1>8, <1>9, OrderOneTarget DEF Ending, Escaped

\* Closing a phase leaves state and readiness of the target alone.
LEMMA ClosedKeepsTarget ==
  ASSUME NEW tm \in TargetManifest, NEW p \in Phases, NEW record \in Ownership
  PROVE  /\ Closed(tm, p, record).state = tm.state
         /\ Closed(tm, p, record).readiness = tm.readiness
BY DEF Closed, Checkpointed, TargetManifest

\* A closed phase leaves a row in order, with no veto.
LEMMA ClosedRow ==
  ASSUME NEW tm \in TargetManifest, NEW p \in Phases, NEW record \in Ownership,
         tm.ckpt[p] = "running", AtRest(tm), ~Vetoed(tm),
         \A q \in Phases : q < p => tm.ckpt[q] = "complete"
  PROVE  /\ AtRest(Closed(tm, p, record)) /\ ~Vetoed(Closed(tm, p, record))
         /\ Closed(tm, p, record).state = tm.state
         /\ \A q \in Phases : q < p => Closed(tm, p, record).ckpt[q] = "complete"
<1> DEFINE row == Closed(tm, p, record)
<1>1. "complete" \in AllowedFrom(tm.ckpt[p]) /\ "complete" \in PhaseState
  BY AllowedTransitions DEF PhaseState
<1>2. row \in TargetManifest /\ row.ckpt = [tm.ckpt EXCEPT ![p] = "complete"]
  BY <1>1, ClosedFacts
<1>3. row.state = tm.state /\ row.readiness = tm.readiness
  BY ClosedKeepsTarget
<1> HIDE DEF row
<1>4. /\ Frontier(row) /\ ~Vetoed(row)
      /\ \A q \in Phases : q < p => row.ckpt[q] = "complete"
  BY <1>1, <1>2, FrontierMoves DEF AtRest
<1>5. AtRest(row)
  BY <1>3, <1>4 DEF AtRest
<1> QED BY <1>3, <1>4, <1>5 DEF row

\* A closed phase: the task goes on behind it.
LEMMA OrderComplete ==
  ASSUME IInv, OInv, NEW t \in Targets, NEW p \in Phases, NEW record \in Ownership,
         NEW inTry \in BOOLEAN,
         task[t].pc \in {"call", "result"}, p = task[t].phase,
         store[t].ckpt[p] = "running", CompletePhase(t, p, record, inTry),
         writer # t, UNCHANGED <<main, pending, crashes, saved, faults>>, aborted => aborted'
  PROVE  OInv' /\ Held
<1> DEFINE row == Closed(store[t], p, record)
           k == [task[t] EXCEPT !.pc = "loop", !.record = "none", !.inTry = inTry]
<1>1. /\ AtRest(store[t]) /\ store[t] \in TargetManifest /\ t \in pending /\ task[t] \in Task
      /\ ~Vetoed(store[t]) /\ store[t].state # "complete"
      /\ \A q \in Phases : q < p => store[t].ckpt[q] = "complete"
  BY OrderContext DEF Ending, Escaped
<1>2. store' = [store EXCEPT ![t] = row] /\ TaskBecomes(t, k) /\ writer = NoOne /\ writer' = t
  BY DEF CompletePhase, TaskBecomes, Change
<1>3. /\ AtRest(row) /\ ~Vetoed(row) /\ row.state = store[t].state
      /\ \A q \in Phases : q < p => row.ckpt[q] = "complete"
  BY <1>1, ClosedRow
<1>4. k.pc = "loop" /\ k.phase = p
  BY <1>1 DEF Task
<1> HIDE DEF row, k
<1>5. RowOrder(t, k, row, pending)
  BY <1>1, <1>3, <1>4 DEF RowOrder, Escaped
<1>6. ~Torn(row)
  BY <1>3, TornIsVetoed
<1>7. \A d \in Deps[t] : ~TerminalFailure(store[d])
  BY DEF OInv, ParentsGoOn, Ending, Escaped
<1>8. Works(t)
  BY <1>2 DEF Works
<1> QED BY <1>2, <1>4, <1>5, <1>6, <1>7, <1>8, OrderOneTarget DEF Ending, Escaped

\* A step that changes no manifest: the task moves on, at most behind a closed phase.
LEMMA OrderQuiet ==
  ASSUME IInv, OInv, NEW t \in Targets, NEW k,
         task[t].pc \in {"queued", "loop", "region", "service"},
         TaskBecomes(t, k), k.pc \in {"loop", "service", "call"},
         \/ k.phase = task[t].phase
         \/ task[t].phase \in Phases /\ k.phase = task[t].phase + 1
            /\ store[t].ckpt[task[t].phase] = "complete",
         k.pc = "call" => ~circuit,
         task[t].pc = "queued" => \A d \in Deps[t] : ~TerminalFailure(store[d]),
         writer # t, UNCHANGED <<store, writer, main, pending, crashes, saved, faults>>,
         aborted => aborted'
  PROVE  OInv' /\ Held
<1>1. /\ AtRest(store[t]) /\ store \in [Targets -> TargetManifest] /\ t \in pending
      /\ ~Vetoed(store[t]) /\ ~Torn(store[t]) /\ store[t].state # "complete"
      /\ \A q \in Phases : q < task[t].phase => store[t].ckpt[q] = "complete"
  BY OrderContext DEF Ending, Escaped
<1>2. store' = [store EXCEPT ![t] = store[t]]
  BY <1>1
<1>3. \A q \in Phases : q < k.phase => store[t].ckpt[q] = "complete"
  <2> SUFFICES ASSUME NEW q \in Phases, q < k.phase PROVE store[t].ckpt[q] = "complete"
    OBVIOUS
  <2>1. CASE k.phase = task[t].phase
    BY <1>1, <2>1
  <2>2. CASE /\ task[t].phase \in Phases /\ k.phase = task[t].phase + 1
             /\ store[t].ckpt[task[t].phase] = "complete"
    <3>1. q = task[t].phase \/ q < task[t].phase
      BY <2>2, PhasesAssumption DEF Phases
    <3> QED BY <1>1, <2>2, <3>1
  <2> QED BY <2>1, <2>2
<1>4. RowOrder(t, k, store[t], pending)
  BY <1>1, <1>3 DEF RowOrder, Escaped
<1>5. \A d \in Deps[t] : ~TerminalFailure(store[d])
  BY DEF OInv, ParentsGoOn, Ending, Escaped
<1>6. Works(t)
  BY DEF Works
<1> QED BY <1>1, <1>2, <1>4, <1>5, <1>6, OrderOneTarget DEF Ending, Escaped

\* A new target state and readiness.
LEMMA OrderSetTarget ==
  ASSUME IInv, OInv, NEW t \in Targets, NEW state \in TargetState, NEW readiness \in Readiness,
         NEW k, task[t].pc \in {"loop", "call", "raise", "settle"},
         SetTarget(t, state, readiness), TaskBecomes(t, k),
         state \in {"failed", "blocked"} => readiness # "ready",
         state = "complete" => task[t].pc = "loop",
         \/ k.pc = "result" /\ state # "complete" /\ task[t].pc = "call"
         \/ k.pc = "done" /\ task[t].pc \in {"loop", "raise"}
         \/ k.pc = Ended(t) /\ task[t].pc = "settle",
         k.phase = task[t].phase, k.inTry = task[t].inTry,
         task[t].pc = "settle" => state = task[t].verdict,
         k.pc \in {"done", "off"} =>
           state \in {"complete", "failed", "blocked", "handed-off"} \/ aborted',
         writer # t, UNCHANGED <<main, pending, crashes, saved, faults>>, aborted => aborted'
  PROVE  OInv' /\ Held
<1> DEFINE row == [store[t] EXCEPT !.state = state, !.readiness = readiness]
<1>1. /\ RowOrder(t, task[t], store[t], pending) /\ AtRest(store[t])
      /\ store[t] \in TargetManifest
      /\ task[t].pc # "settle" =>
           /\ ~Vetoed(store[t]) /\ t \in pending
           /\ \A q \in Phases : q < task[t].phase => store[t].ckpt[q] = "complete"
      /\ RowOK(t, task[t], store[t], writer)
  BY OrderContext DEF IInv, Ending, Escaped
<1>2. store' = [store EXCEPT ![t] = row] /\ writer = NoOne /\ writer' = t
  BY DEF SetTarget, Change
<1>3. /\ row.ckpt = store[t].ckpt /\ row.blockedBy = store[t].blockedBy
      /\ row.state = state /\ row.readiness = readiness
  BY <1>1 DEF TargetManifest
<1> HIDE DEF row
<1>4. /\ Frontier(row) /\ (Vetoed(row) <=> Vetoed(store[t]))
  BY <1>1, <1>3 DEF Frontier, Vetoed, AtRest
<1>5. task[t].pc = "settle" =>
        /\ state \in {"failed", "blocked", "handed-off"}
        /\ state = "handed-off" => ~Vetoed(store[t])
  BY <1>1 DEF RowOK, RowOrder
<1>6. state = "complete" => ~k.inTry
  BY <1>1 DEF RowOK
<1>7. RowOrder(t, k, row, pending)
  <2>1. AtRest(row)
    BY <1>1, <1>3, <1>4 DEF AtRest
  <2>2. k.pc \in {"result", "done", "off"} /\ (k.pc = "off" => t \notin pending)
    BY DEF Ended
  <2>3. k.inTry \/ k.pc = "result" => \A q \in Phases : q < k.phase => row.ckpt[q] = "complete"
    <3>1. CASE task[t].inTry
      <4>1. \A q \in Phases : q < task[t].phase => store[t].ckpt[q] = "complete"
        BY <1>1, <3>1 DEF RowOrder
      <4> QED BY <1>3, <4>1
    <3>2. CASE ~task[t].inTry /\ task[t].pc # "settle"
      BY <1>1, <1>3, <3>2
    <3>3. CASE ~task[t].inTry /\ task[t].pc = "settle"
      BY <2>2, <3>3 DEF Ended
    <3> QED BY <3>1, <3>2, <3>3
  <2>4. k.pc # "off" \/ k.inTry => t \in pending
    BY <1>1, <2>2 DEF RowOrder, Ended
  <2>5. t \in pending /\ k.pc \notin Ending => ~Vetoed(row) /\ row.state # "complete"
    <3>1. t \in pending /\ k.pc \notin Ending => k.pc = "result"
      BY <2>2 DEF Ending
    <3>2. k.pc = "result" => task[t].pc = "call" /\ state # "complete"
      BY DEF Ended
    <3> QED BY <1>1, <1>3, <1>4, <3>1, <3>2
  <2>6. k.pc \notin Escaped \cup {"settle"} /\ (k.inTry => row.state # "complete")
    BY <1>3, <1>6, <2>2 DEF Escaped
  <2> QED BY <2>1, <2>2, <2>3, <2>4, <2>5, <2>6 DEF RowOrder
<1>8. ~Torn(row)
  BY <1>1, <1>3, <1>4, <1>5, TornIsVetoed
<1>9. k.pc \in {"done", "off"} => Settled(row) \/ aborted'
  BY <1>3 DEF Settled
<1>10. k.pc \notin {"off", "queued"} \cup Ending => \A d \in Deps[t] : ~TerminalFailure(store[d])
  BY DEF OInv, ParentsGoOn, Ending, Escaped, Ended
<1>11. Works(t)
  BY <1>2 DEF Works
<1>12. /\ k.pc \in {"result", "done", "off"} /\ (task[t].pc # "settle" => k.pc # "off")
       /\ task[t].pc = "settle" => k.pc = Ended(t)
  BY DEF Ended
<1>13. task[t].pc \notin Escaped /\ k.pc \notin Escaped
  BY <1>12 DEF Escaped
<1>14. task[t].pc = "settle" =>
         k.pc = Ended(t) /\ row.ckpt = store[t].ckpt /\ row.blockedBy = store[t].blockedBy
  BY <1>3, <1>12
<1>15. task[t].pc \notin {"off", "done"} /\ k.pc \notin {"queued", "caught", "call"}
  BY <1>12
<1> QED BY <1>2, <1>7, <1>8, <1>9, <1>10, <1>11, <1>12, <1>13, <1>14, <1>15, OrderOneTarget

\* An exception of its own save, where the checkpoint refuses to be FAILED: the
\* target stays as it is, and the exception leaves the task.
LEMMA OrderLeaves ==
  ASSUME IInv, OInv, NEW t \in Targets, NEW k, task[t].pc \in Escaped, TaskBecomes(t, k),
         k.pc = "refused" \/ (k.pc = "done" /\ aborted'), k.phase = task[t].phase,
         ~k.inTry, writer # t,
         UNCHANGED <<store, writer, main, pending, crashes, saved, faults>>, aborted => aborted'
  PROVE  OInv' /\ Held
<1>1. /\ RowOrder(t, task[t], store[t], pending) /\ store \in [Targets -> TargetManifest]
      /\ t \in pending /\ store[t].state # "complete"
      /\ \A q \in Phases : q < task[t].phase => store[t].ckpt[q] = "complete"
      /\ AtRest(store[t])
  BY OrderContext DEF Escaped
<1>2. faults > 0
  BY DEF IInv, FaultsOK, Escaped
<1>3. store' = [store EXCEPT ![t] = store[t]] /\ Works(t)
  BY <1>1 DEF Works
<1>4. RowOrder(t, k, store[t], pending)
  BY <1>1 DEF RowOrder, Ending, Escaped
<1>5. faults # 0
  BY <1>2
<1> QED BY <1>3, <1>4, <1>5, OrderOneTarget DEF Ending, Escaped

\* The except clause of an exception of its own save.
LEMMA OrderCatch ==
  ASSUME IInv, OInv, NEW t \in Targets, CatchSave(t) \/ RaiseRefused(t),
         writer # t, UNCHANGED <<saved, faults>>
  PROVE  OInv' /\ Held
<1> DEFINE p == task[t].phase
<1>0. /\ task[t].pc \in Escaped /\ UNCHANGED <<main, pending, crashes>> /\ (aborted => aborted')
      /\ task[t].pc # "off"
  <2>1. ASSUME CatchSave(t) PROVE task[t].pc = "caught" /\ UNCHANGED <<main, pending, crashes, aborted>>
    BY <2>1 DEF CatchSave
  <2>2. ASSUME RaiseRefused(t)
        PROVE  task[t].pc = "refused" /\ UNCHANGED <<main, pending, crashes>> /\ aborted'
    BY <2>2 DEF RaiseRefused
  <2> QED BY <2>1, <2>2 DEF Escaped
<1>1. /\ task[t] \in Task /\ task \in [Targets -> Task] /\ store[t] \in TargetManifest
      /\ RowOK(t, task[t], store[t], writer) /\ ~task[t].inTry /\ p \in Phases
  BY <1>0, OrderContext DEF IInv, RowOK, Escaped
<1>2. ASSUME NEW pc \in {"refused", "done"}, Goto(t, pc), UNCHANGED <<store, writer>>,
             pc = "done" => aborted'
      PROVE  OInv' /\ Held
  <2> DEFINE k == [task[t] EXCEPT !.pc = pc]
  <2>1. TaskBecomes(t, k)
    BY <1>2 DEF Goto, TaskBecomes
  <2>2. k.pc = pc /\ k.phase = p /\ ~k.inTry
    BY <1>1 DEF Task
  <2> HIDE DEF k
  <2> QED BY <1>0, <1>2, <2>1, <2>2, OrderLeaves
<1>3. ASSUME CatchSave(t), Transition(store[t].ckpt[p], "failed") # Rejected
      PROVE  OInv' /\ Held
  <2> DEFINE k == [task[t] EXCEPT !.pc = "settle", !.verdict = "failed", !.inTry = FALSE]
  <2>1. task[t].pc = "caught" /\ store[t].ckpt[p] = "running"
    <3>1. task[t].pc = "caught" /\ store[t].ckpt[p] \in Tried
      BY <1>1, <1>3 DEF CatchSave, RowOK
    <3>2. store[t].ckpt[p] \notin Closing
      BY <1>3 DEF Closing, Transition, AllowedFrom
    <3> QED BY <3>1, <3>2 DEF Tried
  <2>2. Checkpoint(t, p, "failed", {}) /\ TaskBecomes(t, k)
    BY <1>3 DEF CatchSave, CheckpointThenSettle, SettleLater, TaskBecomes
  <2>3. k.pc = "settle" /\ k.phase = p /\ k.verdict = "failed"
    BY <1>1 DEF Task
  <2> HIDE DEF k
  <2>4. "failed" \in PhaseState /\ "failed" \in AllowedFrom(store[t].ckpt[p])
    BY <2>1, AllowedTransitions DEF PhaseState
  <2> QED BY <1>0, <1>1, <2>1, <2>2, <2>3, <2>4, OrderCheckpoint
<1>4. ASSUME CatchSave(t), Transition(store[t].ckpt[p], "failed") = Rejected
      PROVE  OInv' /\ Held
  BY <1>2, <1>4 DEF CatchSave
<1>5. ASSUME RaiseRefused(t) PROVE OInv' /\ Held
  BY <1>2, <1>5 DEF RaiseRefused
<1> QED BY <1>3, <1>4, <1>5

\* Every change a task makes keeps the order of the waves.
LEMMA OrderWorkSteps ==
  ASSUME IInv, OInv, NEW t \in Targets, Work(t) PROVE OInv' /\ Held
<1> DEFINE p == task[t].phase
<1>0. /\ TypeOK /\ task[t] \in Task /\ RowOK(t, task[t], store[t], writer)
      /\ store[t] \in TargetManifest
  BY DEF IInv, TypeOK
<1>w. writer # t /\ UNCHANGED <<saved, faults>>
  BY DEF Work
<1>c. ASSUME task[t].pc \in {"region", "service", "call", "result"}
      PROVE  /\ p \in Phases /\ store[t].ckpt[p] = "running"
             /\ task[t].pc \notin {"off"} \cup Ending
             /\ \A q \in Phases : q < p => store[t].ckpt[q] = "complete"
  BY <1>0, <1>c, OrderContext DEF RowOK, Ending, Escaped
\* The ends of a handler call that leave a checkpoint other than COMPLETE.
<1>s. ASSUME task[t].pc \in {"region", "call"}, NEW inTry \in BOOLEAN,
             NEW to \in {"failed", "retryable", "blocked", "handed-off"},
             NEW verdict \in {"failed", "blocked", "handed-off"},
             CheckpointThenSettle(t, p, to, {}, verdict, inTry),
             verdict = "handed-off" => to \notin {"failed", "blocked"},
             UNCHANGED <<main, pending, crashes, aborted>>
      PROVE  OInv' /\ Held
  <2> DEFINE k == [task[t] EXCEPT !.pc = "settle", !.verdict = verdict, !.inTry = inTry]
  <2>1. Checkpoint(t, p, to, {}) /\ TaskBecomes(t, k)
    BY <1>s DEF CheckpointThenSettle, SettleLater, TaskBecomes
  <2>2. k.pc = "settle" /\ k.phase = p /\ k.verdict = verdict
    BY <1>0 DEF Task
  <2> HIDE DEF k
  <2>3. to \in PhaseState /\ to \in AllowedFrom(store[t].ckpt[p])
    BY <1>c, <1>s, AllowedTransitions DEF PhaseState
  <2> QED BY <1>c, <1>s, <1>w, <2>1, <2>2, <2>3, OrderCheckpoint
\* The steps that save a checkpoint and keep the task going.
<1>g. ASSUME task[t].pc \in {"loop", "call", "backoff"}, p \in Phases,
             store[t].ckpt[p] \notin {"complete", "blocked"}, NEW to \in {"running", "retryable"},
             to = store[t].ckpt[p] \/ to \in AllowedFrom(store[t].ckpt[p]),
             Checkpoint(t, p, to, {}), NEW k, TaskBecomes(t, k),
             k.pc \in {"region", "backoff", "raise"}, k.phase = p,
             UNCHANGED <<main, pending, crashes, aborted>>
      PROVE  OInv' /\ Held
  BY <1>g, <1>w, OrderCheckpoint DEF PhaseState
<1>1. ASSUME Start(t) PROVE OInv' /\ Held
  <2>1. /\ task[t].pc = "queued" /\ UNCHANGED <<main, pending, aborted, crashes>>
        /\ task[t].pc \notin {"off"} \cup Ending
    BY <1>1 DEF Start, Ending, Escaped
  <2>2. NextIncomplete(store[t]) \in Phases /\ FailedDeps(t) \in SUBSET Targets
    BY NextIncompleteIsPhase, DepsAssumption DEF FailedDeps
  <2>3. ASSUME NEW cause \in SUBSET Targets, Block(t, NextIncomplete(store[t]), cause, FALSE)
        PROVE  OInv' /\ Held
    BY <1>w, <2>1, <2>2, <2>3, NextIncompleteIsFirst, OrderBlock
  <2>4. ASSUME FailedDeps(t) = {}, Goto(t, "loop"), UNCHANGED <<store, writer>>
        PROVE  OInv' /\ Held
    <3> DEFINE k == [task[t] EXCEPT !.pc = "loop"]
    <3>1. TaskBecomes(t, k)
      BY <2>4 DEF Goto, TaskBecomes
    <3>2. k.pc = "loop" /\ k.phase = task[t].phase /\ k.inTry = task[t].inTry
      BY <1>0, <2>1 DEF Task
    <3> HIDE DEF k
    <3>3. \A d \in Deps[t] : ~TerminalFailure(store[d])
      BY <2>4 DEF FailedDeps
    <3> QED BY <1>w, <2>1, <2>4, <3>1, <3>2, <3>3, OrderQuiet
  <2>5. \/ Block(t, NextIncomplete(store[t]), {}, FALSE)
        \/ Block(t, NextIncomplete(store[t]), FailedDeps(t), FALSE)
        \/ FailedDeps(t) = {} /\ Goto(t, "loop") /\ UNCHANGED <<store, writer>>
    BY <1>1, Zenon DEF Start
  <2>6. CASE Block(t, NextIncomplete(store[t]), {}, FALSE)
    <3>1. {} \in SUBSET Targets
      OBVIOUS
    <3> QED BY <2>3, <2>6, <3>1
  <2>7. CASE Block(t, NextIncomplete(store[t]), FailedDeps(t), FALSE)
    BY <2>2, <2>3, <2>7
  <2> QED BY <2>4, <2>5, <2>6, <2>7
<1>2. ASSUME NextPhase(t) PROVE OInv' /\ Held
  <2> DEFINE k == [task[t] EXCEPT !.phase = p + 1]
  <2>1. /\ task[t].pc = "loop" /\ p \in Phases /\ store[t].ckpt[p] = "complete"
        /\ TaskBecomes(t, k)
        /\ UNCHANGED <<store, writer, main, pending, aborted, crashes>>
    BY <1>2 DEF NextPhase, TaskBecomes
  <2>2. k.pc = "loop" /\ k.phase = p + 1 /\ k.inTry = task[t].inTry
    BY <1>0, <2>1 DEF Task
  <2> HIDE DEF k
  <2> QED BY <1>w, <2>1, <2>2, OrderQuiet
<1>3. ASSUME EnterPhase(t) PROVE OInv' /\ Held
  <2>1. /\ task[t].pc = "loop" /\ p \in Phases
        /\ store[t].ckpt[p] \notin {"complete", "blocked", "failed"}
        /\ UNCHANGED <<main, pending, aborted, crashes>>
        /\ task[t].pc \notin {"off"} \cup Ending
    BY <1>3 DEF EnterPhase, Ending, Escaped
  <2>2. \A q \in Phases : q < p => store[t].ckpt[q] = "complete"
    BY <2>1, OrderContext
  <2>3. CASE circuit
    <3>1. Block(t, p, {}, FALSE)
      BY <1>3, <2>3 DEF EnterPhase
    <3> QED BY <1>w, <2>1, <2>2, <3>1, OrderBlock
  <2>4. CASE ~circuit
    <3> DEFINE k == [task[t] EXCEPT !.pc = "region", !.attempt = 0]
    <3>1. Checkpoint(t, p, "running", {}) /\ TaskBecomes(t, k)
      BY <1>3, <2>4 DEF EnterPhase, TaskBecomes
    <3>2. k.pc = "region" /\ k.phase = p
      BY <1>0, <2>1 DEF Task
    <3> HIDE DEF k
    <3>3. "running" = store[t].ckpt[p] \/ "running" \in AllowedFrom(store[t].ckpt[p])
      <4>1. store[t].ckpt[p] \in PhaseState \cup {Absent}
        BY <1>0, <2>1 DEF TargetManifest
      <4> QED BY <2>1, <4>1, AllowedTransitions DEF PhaseState
    <3> QED BY <1>g, <2>1, <3>1, <3>2, <3>3
  <2> QED BY <2>3, <2>4
<1>4. ASSUME NoHandler(t) PROVE OInv' /\ Held
  BY <1>4, <1>s DEF NoHandler
<1>5. ASSUME AcquireRegion(t) PROVE OInv' /\ Held
  <2> DEFINE k == [task[t] EXCEPT !.pc = "service", !.inTry = TRUE]
  <2>1. /\ task[t].pc = "region" /\ TaskBecomes(t, k)
        /\ UNCHANGED <<store, writer, main, pending, aborted, crashes>>
    BY <1>5 DEF AcquireRegion, TaskBecomes
  <2>2. k.pc = "service" /\ k.phase = task[t].phase
    BY <1>0, <2>1 DEF Task
  <2> HIDE DEF k
  <2> QED BY <1>w, <2>1, <2>2, OrderQuiet
<1>6. ASSUME CallHandler(t) PROVE OInv' /\ Held
  <2>1. task[t].pc = "service" /\ UNCHANGED <<main, pending, aborted, crashes>>
    BY <1>6 DEF CallHandler
  <2>2. CASE circuit
    <3>1. Block(t, p, {}, TRUE)
      BY <1>6, <2>2 DEF CallHandler
    <3> QED BY <1>c, <1>w, <2>1, <3>1, OrderBlock
  <2>3. CASE ~circuit
    <3> DEFINE k == [task[t] EXCEPT !.pc = "call"]
    <3>1. TaskBecomes(t, k) /\ UNCHANGED <<store, writer>>
      BY <1>6, <2>3 DEF CallHandler, Goto, TaskBecomes
    <3>2. k.pc = "call" /\ k.phase = task[t].phase
      BY <1>0, <2>1 DEF Task
    <3> HIDE DEF k
    <3> QED BY <1>w, <2>1, <2>3, <3>1, <3>2, OrderQuiet
  <2> QED BY <2>2, <2>3
<1>7. ASSUME Succeed(t) PROVE OInv' /\ Held
  <2>1. task[t].pc = "call" /\ UNCHANGED <<main, pending, aborted, crashes>>
    BY <1>7 DEF Succeed
  <2>2. PICK record \in RecordsFor(p) : CompletePhase(t, p, record, TRUE)
    BY <1>7 DEF Succeed
  <2>3. record \in Ownership
    BY <1>c, <2>1, <2>2, RecordsFacts
  <2> QED BY <1>c, <1>w, <2>1, <2>2, <2>3, OrderComplete
<1>8. ASSUME CheckpointVerdict(t) PROVE OInv' /\ Held
  <2>1. /\ task[t].pc = "result" /\ CompletePhase(t, p, task[t].record, TRUE)
        /\ UNCHANGED <<main, pending, aborted, crashes>>
    BY <1>8 DEF CheckpointVerdict
  <2>2. task[t].record \in Ownership
    BY <1>0, <2>1 DEF Task
  <2> QED BY <1>c, <1>w, <2>1, <2>2, OrderComplete
<1>9. ASSUME HandOff(t) PROVE OInv' /\ Held
  <2>1. /\ task[t].pc = "call" /\ UNCHANGED <<main, pending, aborted, crashes>>
        /\ \/ CheckpointThenSettle(t, p, "handed-off", {}, "handed-off", TRUE)
           \/ CheckpointThenSettle(t, p, "blocked", {}, "blocked", TRUE)
    BY <1>9 DEF HandOff
  <2> QED BY <1>s, <2>1
<1>10. ASSUME NEW r \in Readiness, ReturnVerdict(t, r) PROVE OInv' /\ Held
  <2>1. /\ task[t].pc = "call" /\ SetTarget(t, "running", r)
        /\ UNCHANGED <<main, pending, aborted, crashes>>
    BY <1>10 DEF ReturnVerdict
  <2>2. PICK record \in ResultRecords(p, r) :
          task' = [task EXCEPT ![t].pc = "result", ![t].record = record]
    BY <1>10 DEF ReturnVerdict
  <2> DEFINE k == [task[t] EXCEPT !.pc = "result", !.record = record]
  <2>3. TaskBecomes(t, k) /\ k.pc = "result" /\ k.phase = p /\ k.inTry = task[t].inTry
    BY <1>0, <2>2 DEF Task, TaskBecomes
  <2> HIDE DEF k
  <2> QED BY <1>w, <2>1, <2>3, OrderSetTarget DEF TargetState
<1>11. ASSUME AuthError(t) PROVE OInv' /\ Held
  <2>1. /\ task[t].pc = "call" /\ CheckpointThenSettle(t, p, "blocked", {}, "blocked", FALSE)
        /\ UNCHANGED <<main, pending, aborted, crashes>>
    BY <1>11 DEF AuthError
  <2> QED BY <1>s, <2>1
<1>12. ASSUME ConflictError(t) PROVE OInv' /\ Held
  <2>1. /\ task[t].pc = "call" /\ CompletePhase(t, p, "none", FALSE)
        /\ UNCHANGED <<main, pending, aborted, crashes>>
    BY <1>12 DEF ConflictError
  <2> QED BY <1>c, <1>w, <2>1, OrderComplete DEF Ownership
<1>13. ASSUME RetryLater(t) \/ HandlerInterrupted(t) PROVE OInv' /\ Held
  <2> DEFINE pc == IF RetryLater(t) THEN "backoff" ELSE "raise"
             k == [task[t] EXCEPT !.pc = pc, !.inTry = FALSE]
  <2>1. /\ task[t].pc = "call" /\ Checkpoint(t, p, "retryable", {})
        /\ TaskBecomes(t, k) /\ UNCHANGED <<main, pending, aborted, crashes>>
    BY <1>13 DEF RetryLater, HandlerInterrupted, TaskBecomes
  <2>2. k.pc \in {"region", "backoff", "raise"} /\ k.phase = p
    BY <1>0, <2>1 DEF Task
  <2> HIDE DEF k
  <2>3. /\ "retryable" \in AllowedFrom(store[t].ckpt[p])
        /\ store[t].ckpt[p] \notin {"complete", "blocked"}
    BY <1>c, <2>1, AllowedTransitions
  <2> QED BY <1>c, <1>g, <2>1, <2>2, <2>3
<1>14. ASSUME RetryNow(t) PROVE OInv' /\ Held
  <2> DEFINE k == [task[t] EXCEPT !.pc = "region", !.attempt = @ + 1]
  <2>1. /\ task[t].pc = "backoff" /\ Checkpoint(t, p, "running", {})
        /\ TaskBecomes(t, k) /\ UNCHANGED <<main, pending, aborted, crashes>>
    BY <1>14 DEF RetryNow, TaskBecomes
  <2>2. k.pc = "region" /\ k.phase = p
    BY <1>0, <2>1 DEF Task
  <2> HIDE DEF k
  <2>3. /\ p \in Phases /\ "running" \in AllowedFrom(store[t].ckpt[p])
        /\ store[t].ckpt[p] \notin {"complete", "blocked"}
    BY <1>0, <2>1, AllowedTransitions DEF RowOK
  <2> QED BY <1>g, <2>1, <2>2, <2>3
<1>15. ASSUME GiveUp(t) PROVE OInv' /\ Held
  <2>1. /\ task[t].pc = "call" /\ UNCHANGED <<main, pending, aborted, crashes>>
        /\ \/ CheckpointThenSettle(t, p, "retryable", {}, "failed", FALSE)
           \/ CheckpointThenSettle(t, p, "failed", {}, "failed", FALSE)
    BY <1>15 DEF GiveUp
  <2> QED BY <1>s, <2>1
<1>16. ASSUME RaiseInterrupt(t) PROVE OInv' /\ Held
  <2> DEFINE k == [task[t] EXCEPT !.pc = "done"]
  <2>1. /\ task[t].pc = "raise" /\ SetTarget(t, "pending", "degraded")
        /\ TaskBecomes(t, k) /\ aborted' /\ UNCHANGED <<main, pending, crashes>>
    BY <1>16 DEF RaiseInterrupt, Goto, TaskBecomes
  <2>2. k.pc = "done" /\ k.phase = p /\ k.inTry = task[t].inTry
    BY <1>0, <2>1 DEF Task
  <2> HIDE DEF k
  <2> QED BY <1>w, <2>1, <2>2, OrderSetTarget DEF TargetState, Readiness
<1>17. ASSUME Settle(t) PROVE OInv' /\ Held
  <2> DEFINE verdict == task[t].verdict
             k == [task[t] EXCEPT !.pc = Ended(t)]
  <2>1. /\ task[t].pc = "settle" /\ SetTarget(t, verdict, ReadinessFor(verdict))
        /\ TaskBecomes(t, k) /\ UNCHANGED <<main, pending, aborted, crashes>>
    BY <1>17 DEF Settle, Goto, TaskBecomes
  <2>2. k.pc = Ended(t) /\ k.phase = p /\ k.inTry = task[t].inTry
    BY <1>0, <2>1 DEF Task
  <2>3. verdict \in {"failed", "blocked", "handed-off"}
    BY <1>0, <2>1 DEF RowOK
  <2>4. /\ verdict \in TargetState /\ ReadinessFor(verdict) \in Readiness
        /\ ReadinessFor(verdict) # "ready"
    BY <2>3 DEF ReadinessFor, TargetState, Readiness
  <2> HIDE DEF k
  <2> QED BY <1>w, <2>1, <2>2, <2>3, <2>4, OrderSetTarget
<1>18. ASSUME CompleteTarget(t) PROVE OInv' /\ Held
  <2> DEFINE readiness == IF store[t].readiness = "configured" THEN "collecting"
                          ELSE store[t].readiness
             k == [task[t] EXCEPT !.pc = "done"]
  <2>1. /\ task[t].pc = "loop" /\ SetTarget(t, "complete", readiness)
        /\ TaskBecomes(t, k) /\ UNCHANGED <<main, pending, aborted, crashes>>
    BY <1>18 DEF CompleteTarget, Goto, TaskBecomes
  <2>2. k.pc = "done" /\ k.phase = p /\ k.inTry = task[t].inTry
    BY <1>0, <2>1 DEF Task
  <2>3. "complete" \in TargetState /\ readiness \in Readiness
    BY <1>0 DEF TargetManifest, TargetState, Readiness
  <2> HIDE DEF k, readiness
  <2> QED BY <1>w, <2>1, <2>2, <2>3, OrderSetTarget
<1>19. ASSUME CatchSave(t) \/ RaiseRefused(t) PROVE OInv' /\ Held
  BY <1>19, <1>w, OrderCatch
<1> QED
  BY <1>1, <1>2, <1>3, <1>4, <1>5, <1>6, <1>7, <1>8, <1>9, <1>10, <1>11, <1>12,
     <1>13, <1>14, <1>15, <1>16, <1>17, <1>18, <1>19 DEF Work

\* A save ends: only what the task stands in changes.
LEMMA OrderSave ==
  ASSUME IInv, OInv, NEW t \in Targets, Save(t) PROVE OInv' /\ Held
<1> DEFINE in == task[t].inTry /\ task[t].pc \in {"result", "settle"}
           k == [task[t] EXCEPT !.inTry = in]
<1>1. /\ writer = t /\ writer' = NoOne /\ saved' = store /\ TaskBecomes(t, k)
      /\ UNCHANGED <<store, main, pending, aborted, crashes, faults>>
  BY DEF Save, TaskBecomes
<1>2. /\ task[t] \in Task /\ store \in [Targets -> TargetManifest]
      /\ main \in {"run", "blocking"} /\ faults \in Nat
  BY <1>1, NoOneAssumption, LimitsAssumption DEF IInv, TypeOK, IdleOK
<1>3. k.pc = task[t].pc /\ k.phase = task[t].phase /\ k.verdict = task[t].verdict /\ k.inTry = in
  BY <1>2 DEF Task
<1>4. in => task[t].inTry
  OBVIOUS
<1> HIDE DEF k, in
<1>5. /\ WaveOrder /\ WriterOrder /\ Processed /\ ParentsGoOn /\ TornByCrash
      /\ RowOrder(t, task[t], store[t], pending)
  BY DEF OInv
<1>6. RowOrder(t, k, store[t], pending)
  BY <1>3, <1>4, <1>5 DEF RowOrder
<1>7. task[t].pc = "off" => t \notin pending
  BY <1>1, <1>5 DEF WriterOrder
<1>8. Synced' /\ (faults' = 0 => faults = 0)
  BY <1>1 DEF Synced
<1>9. main = "blocking" => k.pc \in {"off", "settle"}
  BY <1>3, <1>5 DEF WaveOrder
<1>10. (t \notin pending \/ k.pc = "done") /\ k.pc # "settle" => Settled(store[t]) \/ aborted'
  BY <1>1, <1>2, <1>3, <1>5 DEF Processed
<1>11. k.pc \notin {"off", "queued"} \cup Ending => \A d \in Deps[t] : ~TerminalFailure(store[d])
  BY <1>3, <1>5 DEF ParentsGoOn
<1>12. crashes = 0 /\ faults' = 0 /\ k.pc # "settle" => ~Torn(store[t])
  BY <1>1, <1>3, <1>5 DEF TornByCrash
<1>13. store' = [store EXCEPT ![t] = store[t]] /\ \A u \in Targets : writer' # u
  BY <1>1, <1>2, NoOneAssumption
<1>14. Moves(t, store[t], k)
  BY <1>1, <1>2, <1>3, <1>6, <1>7, <1>8, <1>9, <1>10, <1>11, <1>12, <1>13 DEF Moves
<1> QED BY <1>14, OrderMove

\* A save raises: memory may stay ahead of the file, and the task is caught or
\* makes the run give up.
LEMMA OrderSaveRaises ==
  ASSUME IInv, OInv, NEW t \in Targets, SaveRaises(t) PROVE OInv' /\ Held
<1> DEFINE pc == IF task[t].inTry THEN "caught" ELSE Ended(t)
           k == [task[t] EXCEPT !.pc = pc, !.record = "none", !.inTry = FALSE]
<1>1. /\ writer = t /\ writer' = NoOne /\ saved' \in {saved, store} /\ TaskBecomes(t, k)
      /\ faults' = faults + 1 /\ (aborted => aborted') /\ (~task[t].inTry => aborted')
      /\ UNCHANGED <<store, main, pending, crashes>>
  BY DEF SaveRaises, TaskBecomes
<1>2. /\ task[t] \in Task /\ store \in [Targets -> TargetManifest] /\ task \in [Targets -> Task]
      /\ main \in {"run", "blocking"} /\ faults \in Nat
  BY <1>1, NoOneAssumption, LimitsAssumption DEF IInv, TypeOK, IdleOK
<1>3. k.pc = pc /\ k.phase = task[t].phase /\ ~k.inTry
  BY <1>2 DEF Task
<1> HIDE DEF k
<1>4. WaveOrder /\ WriterOrder /\ RowOrder(t, task[t], store[t], pending)
  BY DEF OInv
\* A caught task is one of the wave, and so is one that ends.
<1>5. task[t].inTry => t \in pending
  BY <1>4 DEF RowOrder
<1>6. t \in pending => task[t].pc # "off" /\ main = "run"
  BY <1>1, <1>2, <1>4 DEF WriterOrder, WaveOrder
<1>7. \/ pc = "caught" /\ task[t].inTry /\ t \in pending
      \/ pc = "done" /\ t \in pending /\ aborted'
      \/ pc = "off" /\ t \notin pending /\ aborted'
  BY <1>1, <1>5 DEF Ended
<1> HIDE DEF pc
<1>8. RowOrder(t, k, store[t], pending)
  BY <1>3, <1>4, <1>7 DEF RowOrder, Ending, Escaped
<1>9. faults' # 0
  BY <1>1, <1>2
<1>10. Synced'
  <2>1. task'[t] = k
    BY <1>1, <1>2 DEF TaskBecomes
  <2>2. aborted' \/ task'[t].pc \in Escaped
    BY <1>3, <1>7, <2>1 DEF Escaped
  <2> QED BY <1>9, <2>2 DEF Synced
<1>11. store' = [store EXCEPT ![t] = store[t]] /\ \A u \in Targets : writer' # u
  BY <1>1, <1>2, NoOneAssumption
<1>12. k.pc \in {"off", "done"} \cup Escaped
  BY <1>3, <1>7 DEF Escaped
<1>13. /\ k.pc = "off" => t \notin pending
       /\ k.pc # "off" => task[t].pc # "off"
       /\ main = "blocking" => k.pc = "off"
       /\ t \notin pending \/ k.pc = "done" => aborted'
  BY <1>3, <1>6, <1>7
<1>14. Moves(t, store[t], k)
  BY <1>1, <1>2, <1>8, <1>9, <1>10, <1>11, <1>12, <1>13 DEF Moves, Ending, Escaped
<1> QED BY <1>14, OrderMove

\* A record is refused: the phase is closed in memory alone.
LEMMA OrderRecordRaises ==
  ASSUME IInv, OInv, NEW t \in Targets, RecordRaises(t) PROVE OInv' /\ Held
<1> DEFINE p == task[t].phase
           row == Closed(store[t], p, "none")
           k == [task[t] EXCEPT !.pc = "caught", !.record = "none", !.inTry = FALSE]
<1>1. /\ task[t].pc \in {"call", "result"} /\ writer = NoOne /\ writer' = NoOne
      /\ faults' = faults + 1 /\ store' = [store EXCEPT ![t] = row] /\ TaskBecomes(t, k)
      /\ UNCHANGED <<saved, main, pending, aborted, crashes>>
  BY DEF RecordRaises, TaskBecomes
<1>2. /\ main = "run" /\ t \in pending /\ faults \in Nat
      /\ task[t] \in Task /\ task \in [Targets -> Task] /\ store[t] \in TargetManifest
      /\ AtRest(store[t]) /\ ~Vetoed(store[t]) /\ store[t].state # "complete"
      /\ \A q \in Phases : q < p => store[t].ckpt[q] = "complete"
      /\ p \in Phases /\ store[t].ckpt[p] = "running"
  <2>1. task[t].pc \notin {"off", "settle"} \cup Ending
    BY <1>1 DEF Ending, Escaped
  <2>2. TypeOK /\ RowOK(t, task[t], store[t], writer)
    BY DEF IInv
  <2> QED BY <1>1, <2>1, <2>2, OrderContext, LimitsAssumption DEF RowOK, TypeOK, Ending
<1>3. /\ AtRest(row) /\ ~Vetoed(row) /\ row.state = store[t].state
      /\ \A q \in Phases : q < p => row.ckpt[q] = "complete"
  BY <1>2, ClosedRow DEF Ownership
<1>4. k.pc = "caught" /\ k.phase = p /\ ~k.inTry
  BY <1>2 DEF Task
<1> HIDE DEF row, k
<1>5. RowOrder(t, k, row, pending)
  BY <1>2, <1>3, <1>4 DEF RowOrder, Ending, Escaped
<1>6. faults' # 0
  BY <1>1, <1>2
<1>7. Synced'
  <2>1. task'[t].pc \in Escaped
    BY <1>1, <1>2, <1>4 DEF TaskBecomes, Escaped
  <2> QED BY <1>6, <2>1 DEF Synced
<1>8. \A u \in Targets : writer' # u
  BY <1>1, NoOneAssumption
<1>9. ~Unauthorized(store[t])
  BY <1>2 DEF Unauthorized, Vetoed
<1>10. Moves(t, row, k)
  BY <1>1, <1>2, <1>4, <1>5, <1>6, <1>7, <1>8, <1>9 DEF Moves, Ending, Escaped
<1> QED BY <1>10, OrderMove

\* Every step of a task keeps the order of the waves.
LEMMA OrderTaskSteps ==
  ASSUME IInv, OInv, NEW t \in Targets, TaskStep(t) PROVE OInv' /\ Held
BY OrderWorkSteps, OrderSave, OrderSaveRaises, OrderRecordRaises DEF TaskStep

-----------------------------------------------------------------------------
(* Manifests between runs *)

\* refresh_collection_readiness adds no veto, lifts none, and tears nothing.
LEMMA RefreshAtRest ==
  ASSUME NEW tm \in TargetManifest, AtRest(tm), tm.readiness = "ready"
  PROVE  /\ AtRest(RefreshTarget(tm))
         /\ Unauthorized(tm) => Unauthorized(RefreshTarget(tm))
         /\ ~Torn(tm) => ~Torn(RefreshTarget(tm))
<1> DEFINE row == RefreshTarget(tm)
<1>1. /\ row.state = "pending" /\ row.blockedBy = tm.blockedBy
      /\ row.ckpt[Validation] = (IF tm.ckpt[Validation] \in {"complete", Absent}
                                 THEN "retryable" ELSE tm.ckpt[Validation])
      /\ \A p \in Phases \ {Validation} : row.ckpt[p] = tm.ckpt[p]
  BY PhasesAssumption DEF RefreshTarget, TargetManifest, Phases, Validation
<1> HIDE DEF row
<1>2. \A p, q \in Phases : p < q => p # Validation
  BY PhasesAssumption DEF Phases, Validation
<1>3. Frontier(row)
  <2> SUFFICES ASSUME NEW p \in Phases, NEW q \in Phases, p < q,
                      row.ckpt[q] \notin {Absent, "retryable"}
               PROVE  row.ckpt[p] = "complete"
    BY DEF Frontier
  <2>1. row.ckpt[p] = tm.ckpt[p]
    BY <1>1, <1>2
  <2>2. tm.ckpt[q] \notin {Absent, "retryable"}
    BY <1>1
  <2> QED BY <2>1, <2>2 DEF AtRest, Frontier
<1>4. Vetoed(row) => Vetoed(tm)
  BY <1>1 DEF Vetoed
<1>5. Unauthorized(tm) => Unauthorized(row)
  <2> SUFFICES ASSUME NEW p \in Phases, tm.ckpt[p] = "blocked", tm.blockedBy[p] = {}
               PROVE  row.ckpt[p] = "blocked" /\ row.blockedBy[p] = {}
    BY DEF Unauthorized
  <2>1. CASE p = Validation
    BY <1>1, <2>1 DEF Absent
  <2>2. CASE p # Validation
    BY <1>1, <2>2
  <2> QED BY <2>1, <2>2
<1>6. ~Torn(tm) => ~Torn(row)
  <2>1. ~Torn(tm) => ~Vetoed(tm)
    <3>1. tm.state \in {"pending", "running", "handed-off", "complete"}
      BY DEF AtRest, TargetManifest, TargetState
    <3> QED BY <3>1, TornIsVetoed DEF AtRest
  <2> QED BY <1>4, <2>1, TornIsVetoed
<1>7. AtRest(row)
  BY <1>1, <1>3 DEF AtRest
<1> QED BY <1>5, <1>6, <1>7 DEF row

\* reopen_failed keeps the phases in order and every block for authorization,
\* and a target it reopens has no veto left: its phases are closed in order, so
\* the one it reopens is the only one FAILED or BLOCKED.
LEMMA ReopenAtRest ==
  ASSUME NEW tm \in TargetManifest, AtRest(tm), NEW b \in BOOLEAN, NEW v \in Phases,
         tm.ckpt[v] = "failed" \/ (b /\ DependencyBlock(tm, v))
  PROVE  /\ AtRest(ReopenTarget(tm, b)) /\ ~Vetoed(ReopenTarget(tm, b))
         /\ ReopenTarget(tm, b).state = "pending"
         /\ ~Unauthorized(tm)
<1> DEFINE row == ReopenTarget(tm, b)
           reopens(p) == tm.ckpt[p] = "failed" \/ (b /\ DependencyBlock(tm, p))
<1>1. /\ row.state = "pending"
      /\ \A p \in Phases : row.ckpt[p] = IF reopens(p) THEN "retryable" ELSE tm.ckpt[p]
  BY DEF ReopenTarget, TargetManifest
<1> HIDE DEF row
<1>2. \A p \in Phases : reopens(p) => tm.ckpt[p] \in {"failed", "blocked"}
  BY DEF DependencyBlock
\* v is the only phase with a veto.
<1>3. \A p \in Phases : tm.ckpt[p] \in {"failed", "blocked"} => p = v
  <2> SUFFICES ASSUME NEW p \in Phases, tm.ckpt[p] \in {"failed", "blocked"}, p # v
               PROVE  FALSE
    OBVIOUS
  <2>1. p < v \/ v < p
    BY PhasesAssumption DEF Phases
  <2>2. tm.ckpt[v] \in {"failed", "blocked"}
    BY <1>2
  <2> QED BY <2>1, <2>2 DEF AtRest, Frontier, Absent
<1>4. Frontier(row)
  <2> SUFFICES ASSUME NEW p \in Phases, NEW q \in Phases, p < q,
                      row.ckpt[q] \notin {Absent, "retryable"}
               PROVE  row.ckpt[p] = "complete"
    BY DEF Frontier
  <2>1. ~reopens(q) /\ tm.ckpt[q] \notin {Absent, "retryable"}
    BY <1>1
  <2>2. tm.ckpt[p] = "complete"
    BY <2>1 DEF AtRest, Frontier
  <2>3. ~reopens(p)
    BY <1>2, <2>2
  <2> QED BY <1>1, <2>2, <2>3
<1>5. ~Vetoed(row)
  <2> SUFFICES ASSUME NEW p \in Phases, row.ckpt[p] \in {"failed", "blocked"} PROVE FALSE
    BY DEF Vetoed
  <2>1. ~reopens(p) /\ tm.ckpt[p] \in {"failed", "blocked"}
    BY <1>1
  <2> QED BY <1>3, <2>1
<1>6. ~Unauthorized(tm)
  <2> SUFFICES ASSUME NEW p \in Phases, tm.ckpt[p] = "blocked", tm.blockedBy[p] = {}
               PROVE  FALSE
    BY DEF Unauthorized
  <2>1. p = v
    BY <1>3
  <2> QED BY <2>1 DEF DependencyBlock
<1>7. AtRest(row)
  BY <1>1, <1>4 DEF AtRest
<1> QED BY <1>1, <1>5, <1>6, <1>7 DEF row

\* The target a retry is for: a FAILED one, or one blocked by a failure.
LEMMA ReopenedTarget ==
  ASSUME NEW m \in [Targets -> TargetManifest], NEW t \in Targets, AtRest(m[t]),
         t \in FailedTargets(m) \/ DependencyBlocked(m[t], FailedTargets(m))
  PROVE  /\ AtRest(ReopenFailed(m)[t]) /\ ~Vetoed(ReopenFailed(m)[t])
         /\ ReopenFailed(m)[t].state = "pending"
         /\ ~Unauthorized(m[t])
<1> DEFINE b == DependencyBlocked(m[t], FailedTargets(m))
<1>1. ReopenFailed(m)[t] = ReopenTarget(m[t], b)
  BY DEF ReopenFailed
<1>2. b \in BOOLEAN /\ m[t] \in TargetManifest
  BY DEF DependencyBlocked
<1>3. \E v \in Phases : m[t].ckpt[v] = "failed" \/ (b /\ DependencyBlock(m[t], v))
  <2>1. CASE t \in FailedTargets(m)
    BY <2>1 DEF FailedTargets, CkptStates
  <2>2. CASE b
    BY <2>2 DEF DependencyBlocked
  <2> QED BY <2>1, <2>2
<1> HIDE DEF b
<1> QED BY <1>1, <1>2, <1>3, ReopenAtRest

\* What execute() starts from.
LEMMA PreparedAtRest ==
  ASSUME TypeOK, \A t \in Targets : AtRest(store[t]),
         NEW expired \in SUBSET Targets, NEW retry \in BOOLEAN, NEW t \in Targets
  PROVE  /\ Prepared(expired, retry)[t] \in TargetManifest
         /\ AtRest(Prepared(expired, retry)[t])
         /\ Unauthorized(store[t]) => Unauthorized(Prepared(expired, retry)[t])
         /\ ~Torn(store[t]) => ~Torn(Prepared(expired, retry)[t])
<1> DEFINE refreshed == RefreshReadiness(store, expired)
<1>1. store \in [Targets -> TargetManifest]
  BY DEF TypeOK
<1>2. refreshed \in [Targets -> TargetManifest]
  BY <1>1, RefreshReadinessType
<1>3. /\ AtRest(refreshed[t])
      /\ Unauthorized(store[t]) => Unauthorized(refreshed[t])
      /\ ~Torn(store[t]) => ~Torn(refreshed[t])
  <2>1. CASE store[t].readiness = "ready" /\ t \in expired
    <3>1. refreshed[t] = RefreshTarget(store[t])
      BY <2>1 DEF RefreshReadiness
    <3> QED BY <1>1, <2>1, <3>1, RefreshAtRest
  <2>2. CASE ~(store[t].readiness = "ready" /\ t \in expired)
    <3>1. refreshed[t] = store[t]
      BY <2>2 DEF RefreshReadiness
    <3> QED BY <3>1
  <2> QED BY <2>1, <2>2
<1> HIDE DEF refreshed
<1>4. CASE ~retry
  <2>1. Prepared(expired, retry) = refreshed
    BY <1>4 DEF Prepared, refreshed
  <2> QED BY <1>2, <1>3, <2>1
<1>5. CASE retry
  <2>1. Prepared(expired, retry) = ReopenFailed(refreshed)
    BY <1>5 DEF Prepared, refreshed
  <2>2. ReopenFailed(refreshed) \in [Targets -> TargetManifest]
    BY <1>2, ReopenFailedType
  <2>3. CASE t \in FailedTargets(refreshed) \/ DependencyBlocked(refreshed[t], FailedTargets(refreshed))
    <3>1. /\ AtRest(ReopenFailed(refreshed)[t]) /\ ~Vetoed(ReopenFailed(refreshed)[t])
          /\ ~Unauthorized(refreshed[t])
      BY <1>2, <1>3, <2>3, ReopenedTarget
    <3>2. ~Torn(ReopenFailed(refreshed)[t])
      BY <3>1, TornIsVetoed
    <3> QED BY <1>3, <2>1, <2>2, <3>1, <3>2
  <2>4. CASE ~(t \in FailedTargets(refreshed) \/ DependencyBlocked(refreshed[t], FailedTargets(refreshed)))
    <3>1. ReopenFailed(refreshed)[t] = refreshed[t]
      BY <2>4 DEF ReopenFailed
    <3> QED BY <1>2, <1>3, <2>1, <3>1
  <2> QED BY <2>3, <2>4
<1> QED BY <1>4, <1>5

-----------------------------------------------------------------------------
(* The other steps keep the order *)

\* A target without a running task is in order when it is at rest, and one still
\* to be processed may be entered.
LEMMA IdleRow ==
  ASSUME NEW t \in Targets, NEW tm, NEW k, NEW waiting, AtRest(tm), ~k.inTry,
         k.pc = "off" \/ (k.pc = "queued" /\ k.phase = 1 /\ t \in waiting),
         t \in waiting => ~Vetoed(tm) /\ tm.state # "complete"
  PROVE  RowOrder(t, k, tm, waiting)
<1>1. \A q \in Phases : ~(q < 1)
  BY PhasesAssumption DEF Phases
<1> QED BY <1>1 DEF RowOrder, Escaped

\* A row that keeps its task and is in order at rest.
LEMMA RowIsAtRest ==
  ASSUME OInv, NEW t \in Targets PROVE AtRest(store[t])
BY DEF OInv, RowOrder

\* A task that is none stands in no try.
LEMMA NoTryWithoutTask ==
  ASSUME IInv, writer = NoOne, NEW t \in Targets, task[t].pc \in {"off", "done"}
  PROVE  ~task[t].inTry
BY NoOneAssumption DEF IInv, RowOK

\* Steps that change no manifest and leave the pool without a running task.
LEMMA OrderUnsaved ==
  ASSUME IInv, OInv, UNCHANGED <<store, saved, writer, crashes, faults>>, aborted => aborted',
         \A t \in Targets : \/ task'[t] = task[t]
                            \/ task'[t].pc \in {"off", "queued"} /\ task[t].pc \in {"off", "done"},
         WaveOrder', WriterOrder', Processed',
         \A t \in Targets : RowOrder(t, task'[t], store[t], pending')
  PROVE  OInv' /\ Held
<1>1. /\ ParentsGoOn /\ TornByCrash /\ Synced /\ SavedOrder
      /\ \A t \in Targets : RowOrder(t, task[t], store[t], pending)
  BY DEF OInv
<1>2. ParentsGoOn'
  BY <1>1 DEF ParentsGoOn
<1>3. TornByCrash'
  BY <1>1 DEF TornByCrash
<1>4. Synced'
  BY <1>1 DEF Synced, Escaped
<1>5. SavedOrder'
  BY <1>1 DEF SavedOrder
<1>6. \A t \in Targets : task'[t].pc = "call" => task[t].pc = "call"
  OBVIOUS
<1>7. \A t \in Targets : AuthorizationBlocked(t) => AuthorizationBlocked(t)' /\ task'[t].pc # "call"
  <2> SUFFICES ASSUME NEW t \in Targets, AuthorizationBlocked(t)
               PROVE  AuthorizationBlocked(t)' /\ task'[t].pc # "call"
    OBVIOUS
  <2>1. AuthorizationBlocked(t)'
    BY DEF AuthorizationBlocked
  <2>2. task[t].pc # "call"
    BY AuthorizationVetoes, OrderContext DEF Ending, Escaped
  <2> QED BY <1>6, <2>1, <2>2
<1> QED BY <1>2, <1>3, <1>4, <1>5, <1>6, <1>7 DEF OInv, Held

\* The wave is made of pending targets whose parents are settled.
LEMMA OrderSubmitWave ==
  ASSUME IInv, OInv, SubmitWave PROVE OInv' /\ Held
<1>1. /\ main = "run" /\ Wave = {} /\ ~aborted
      /\ task' = [t \in Targets |-> IF t \in Ready THEN [NoTask EXCEPT !.pc = "queued"]
                                    ELSE NoTask]
      /\ UNCHANGED <<store, saved, writer, main, pending, aborted, crashes, faults>>
  BY DEF SubmitWave
<1>2. \A t \in Targets : task[t].pc = "off"
  BY <1>1 DEF Wave
<1>3. \A t \in Targets :
        /\ task'[t].pc = (IF t \in Ready THEN "queued" ELSE "off")
        /\ task'[t].phase = 1 /\ ~task'[t].inTry
  BY <1>1 DEF NoTask
<1>4. /\ Processed /\ WriterOrder /\ \A t \in Targets : RowOrder(t, task[t], store[t], pending)
  BY DEF OInv
<1>5. \A d \in Targets : d \notin pending => Settled(store[d])
  BY <1>1, <1>2, <1>4 DEF Processed
<1>6. WaveOrder'
  <2>1. \A t \in Ready : t \in pending /\ \A d \in Deps[t] : d \notin pending
    BY DEF Ready
  <2>2. \A t \in Targets : \A d \in Deps[t] : d \in Targets
    BY DepsAssumption
  <2> QED BY <1>1, <1>3, <1>5, <2>1, <2>2 DEF WaveOrder
<1>7. Processed' /\ WriterOrder'
  BY <1>1, <1>2, <1>3, <1>4, <1>5 DEF Processed, WriterOrder
<1>8. \A t \in Targets : RowOrder(t, task'[t], store[t], pending')
  <2> SUFFICES ASSUME NEW t \in Targets PROVE RowOrder(t, task'[t], store[t], pending')
    OBVIOUS
  <2>1. AtRest(store[t])
    BY RowIsAtRest
  <2>2. t \in pending' => ~Vetoed(store[t]) /\ store[t].state # "complete"
    BY <1>1, <1>2, <1>4 DEF RowOrder, Ending, Escaped
  <2>3. \/ task'[t].pc = "off"
        \/ task'[t].pc = "queued" /\ task'[t].phase = 1 /\ t \in pending'
    BY <1>1, <1>3 DEF Ready
  <2>4. ~task'[t].inTry
    BY <1>3
  <2> QED BY <2>1, <2>2, <2>3, <2>4, IdleRow
<1>9. \A t \in Targets : task'[t].pc \in {"off", "queued"} /\ task[t].pc \in {"off", "done"}
  BY <1>2, <1>3
<1> QED BY <1>1, <1>6, <1>7, <1>8, <1>9, OrderUnsaved

\* A joined wave has settled its targets, unless it was interrupted.
LEMMA OrderJoinWave ==
  ASSUME IInv, OInv, JoinWave PROVE OInv' /\ Held
<1>1. /\ main = "run" /\ \A t \in Targets : task[t].pc \in {"off", "done"}
      /\ task' = [t \in Targets |-> NoTask] /\ pending' = pending \ Wave /\ writer = NoOne
      /\ UNCHANGED <<store, saved, writer, main, aborted, crashes, faults>>
  BY DEF JoinWave, Wave
<1>2. \A t \in Targets : task'[t].pc = "off" /\ ~task'[t].inTry
  BY <1>1 DEF NoTask
<1>3. Processed /\ \A t \in Targets : RowOrder(t, task[t], store[t], pending)
  BY DEF OInv
<1>4. WaveOrder' /\ WriterOrder'
  BY <1>1, <1>2, NoOneAssumption DEF WaveOrder, WriterOrder
<1>5. Processed'
  <2> SUFFICES ASSUME NEW d \in Targets, d \notin pending' PROVE Settled(store[d]) \/ aborted
    BY <1>1, <1>2 DEF Processed
  <2>1. d \notin pending \/ task[d].pc = "done"
    BY <1>1 DEF Wave
  <2>2. task[d].pc # "settle"
    BY <1>1
  <2> QED BY <1>1, <1>3, <2>1, <2>2 DEF Processed
<1>6. \A t \in Targets : RowOrder(t, task'[t], store[t], pending')
  <2> SUFFICES ASSUME NEW t \in Targets PROVE RowOrder(t, task'[t], store[t], pending')
    OBVIOUS
  <2>1. AtRest(store[t])
    BY RowIsAtRest
  <2>2. t \in pending' => ~Vetoed(store[t]) /\ store[t].state # "complete"
    BY <1>1, <1>3 DEF RowOrder, Wave, Ending, Escaped
  <2> QED BY <1>2, <2>1, <2>2, IdleRow
<1>7. \A t \in Targets : task'[t].pc \in {"off", "queued"} /\ task[t].pc \in {"off", "done"}
  BY <1>1, <1>2
<1> QED BY <1>1, <1>4, <1>5, <1>6, <1>7, OrderUnsaved

\* An interrupt of the main thread only makes the run give up.
LEMMA OrderInterrupt ==
  ASSUME IInv, OInv, Interrupt PROVE OInv' /\ Held
<1>1. aborted' /\ UNCHANGED <<store, saved, writer, main, pending, task, crashes, faults>>
  BY DEF Interrupt
<1>2. WaveOrder' /\ WriterOrder' /\ Processed'
  BY <1>1 DEF OInv, WaveOrder, WriterOrder, Processed
<1>3. \A t \in Targets : RowOrder(t, task'[t], store[t], pending')
  BY <1>1 DEF OInv
<1> QED BY <1>1, <1>2, <1>3, OrderUnsaved

\* What a process leaves behind is what it saved.
LEMMA OrderLeft ==
  ASSUME IInv, OInv, main' = "idle", pending' = {}, store' = saved, saved' = saved,
         \A t \in Targets : task'[t].pc = "off" /\ ~task'[t].inTry, TornByCrash'
  PROVE  OInv' /\ Held
<1>1. SavedOrder
  BY DEF OInv
<1>2. WaveOrder' /\ WriterOrder' /\ Processed' /\ ParentsGoOn' /\ Synced' /\ SavedOrder'
  BY <1>1 DEF WaveOrder, WriterOrder, Processed, ParentsGoOn, Synced, SavedOrder
<1>3. \A t \in Targets : RowOrder(t, task'[t], store'[t], pending')
  BY <1>1, IdleRow DEF SavedOrder
<1>4. Held
  BY DEF Held, AuthorizationBlocked
<1> QED BY <1>2, <1>3, <1>4 DEF OInv

\* The end of a run leaves no task.
LEMMA OrderEnd ==
  ASSUME IInv, OInv, End PROVE OInv' /\ Held
<1>1. /\ \A t \in Targets : task[t].pc = "off"
      /\ writer = NoOne /\ main' = "idle" /\ pending' = {} /\ store' = saved
      /\ UNCHANGED <<saved, task, crashes, faults>>
  BY DEF End, Wave
<1>2. \A t \in Targets : ~task[t].inTry
  BY <1>1, NoTryWithoutTask
<1>3. TornByCrash'
  BY <1>1 DEF OInv, TornByCrash, Synced
<1> QED BY <1>1, <1>2, <1>3, OrderLeft

\* A death leaves the manifest as it was saved.
LEMMA OrderCrash ==
  ASSUME IInv, OInv, Crash PROVE OInv' /\ Held
<1>1. /\ main' = "idle" /\ pending' = {} /\ task' = [t \in Targets |-> NoTask]
      /\ crashes' = crashes + 1 /\ crashes \in Nat /\ store' = saved /\ saved' = saved
  BY LimitsAssumption DEF Crash, IInv, TypeOK
<1>2. \A t \in Targets : task'[t].pc = "off" /\ ~task'[t].inTry
  BY <1>1 DEF NoTask
<1>3. TornByCrash'
  BY <1>1 DEF TornByCrash
<1> QED BY <1>1, <1>2, <1>3, OrderLeft

\* Blocking a target the graph leaves unresolved: it may be entered, so it has
\* no veto that the block could lift.
LEMMA OrderBlockUnresolved ==
  ASSUME IInv, OInv, NEW t \in Targets, BlockUnresolved(t) PROVE OInv' /\ Held
<1> DEFINE p == NextIncomplete(store[t])
<1>1. /\ \A u \in Targets : task[u].pc = "off"
      /\ writer = NoOne /\ ~aborted
      /\ t \in pending /\ main \in {"run", "blocking"} /\ main' = "blocking"
      /\ Block(t, p, {}, FALSE) /\ pending' = pending \ {t}
      /\ UNCHANGED <<saved, aborted, crashes, faults>>
  BY DEF BlockUnresolved, Wave
<1>2. /\ WaveOrder /\ Processed /\ TornByCrash /\ Synced /\ SavedOrder
      /\ \A u \in Targets : RowOrder(u, task[u], store[u], pending)
  BY DEF OInv
<1>3. /\ TypeOK /\ task \in [Targets -> Task] /\ store \in [Targets -> TargetManifest]
  BY DEF IInv, TypeOK
<1>4. p \in Phases /\ \A q \in Phases : q < p => store[t].ckpt[q] = "complete"
  BY NextIncompleteIsPhase, NextIncompleteIsFirst
<1> HIDE DEF p
<1>5. /\ AtRest(store[t]) /\ ~Vetoed(store[t]) /\ store[t].state # "complete"
  BY <1>1, <1>2, RowIsAtRest DEF RowOrder, Ending, Escaped
<1>6. PICK row \in TargetManifest :
        /\ store' = [store EXCEPT ![t] = row] /\ Frontier(row)
        /\ row.state = store[t].state /\ row.readiness = store[t].readiness
        /\ (writer' = writer /\ row = store[t]) \/ (writer = NoOne /\ writer' = t)
  <2>1. Frontier(store[t]) /\ {} \in SUBSET Targets
    BY <1>5 DEF AtRest
  <2> QED BY <1>1, <1>3, <1>4, <2>1, BlockRow
<1> DEFINE k == [task[t] EXCEPT !.pc = "settle", !.verdict = "blocked", !.inTry = FALSE]
<1>7. task' = [task EXCEPT ![t] = k]
  <2>1. SettleLater(t, "blocked", FALSE)
    BY <1>1, <1>3, <1>4, BlockFacts
  <2> QED BY <2>1 DEF SettleLater
<1>8. k.pc = "settle" /\ k.verdict = "blocked" /\ ~k.inTry
  BY <1>3 DEF Task
<1> HIDE DEF k
<1>9. /\ store'[t] = row /\ task'[t] = k
      /\ \A u \in Targets \ {t} : store'[u] = store[u] /\ task'[u] = task[u]
  BY <1>3, <1>6, <1>7
<1>10. WaveOrder'
  BY <1>1, <1>8, <1>9 DEF WaveOrder
<1>11. WriterOrder'
  BY <1>1, <1>6, NoOneAssumption DEF WriterOrder
<1>12. Processed'
  <2> SUFFICES ASSUME NEW d \in Targets, d \notin pending' \/ task'[d].pc = "done",
                      task'[d].pc # "settle"
               PROVE  Settled(store'[d]) \/ aborted'
    BY DEF Processed
  <2>1. d # t
    BY <1>8, <1>9
  <2>2. d \notin pending /\ task[d].pc # "settle"
    BY <1>1, <1>9, <2>1
  <2> QED BY <1>1, <1>2, <1>9, <2>1, <2>2 DEF Processed
<1>13. ParentsGoOn'
  BY <1>1, <1>8, <1>9 DEF ParentsGoOn, Ending
<1>14. TornByCrash'
  BY <1>1, <1>2, <1>8, <1>9 DEF TornByCrash
<1>15. Synced'
  <2> SUFFICES ASSUME writer' = NoOne PROVE saved' = store'
    BY DEF Synced
  <2>1. store' = store
    BY <1>3, <1>6, NoOneAssumption
  <2> QED BY <1>1, <1>2, <2>1 DEF Synced, Escaped
<1>16. SavedOrder'
  <2>1. ~Unauthorized(saved[t])
    BY <1>2, <1>5 DEF SavedOrder, Unauthorized, Vetoed
  <2> QED BY <1>1, <1>2, <1>9, <2>1 DEF SavedOrder
<1>17. \A u \in Targets : RowOrder(u, task'[u], store'[u], pending')
  <2> SUFFICES ASSUME NEW u \in Targets PROVE RowOrder(u, task'[u], store'[u], pending')
    OBVIOUS
  <2>1. CASE u = t
    <3>1. AtRest(row)
      BY <1>5, <1>6 DEF AtRest
    <3> QED BY <1>1, <1>5, <1>6, <1>8, <1>9, <2>1, <3>1 DEF RowOrder, Ending, Escaped
  <2>2. CASE u # t
    BY <1>1, <1>2, <1>9, <2>2 DEF RowOrder
  <2> QED BY <2>1, <2>2
<1>18. Held
  <2>1. \A u \in Targets : task'[u].pc # "call"
    BY <1>1, <1>8, <1>9
  <2> QED BY <1>1, <2>1 DEF Held, AuthorizationBlocked
<1> QED BY <1>10, <1>11, <1>12, <1>13, <1>14, <1>15, <1>16, <1>17, <1>18 DEF OInv

\* A run begins with the targets it may enter; the others are settled.
LEMMA OrderBegin ==
  ASSUME IInv, OInv, NEW expired \in SUBSET Targets, NEW retry \in BOOLEAN,
         Begin(expired, retry)
  PROVE  OInv' /\ Held
<1> DEFINE prepared == Prepared(expired, retry)
<1>1. /\ main = "idle" /\ main' = "run" /\ store' = prepared /\ saved' = prepared
      /\ pending' = ResumableTargets(prepared) /\ UNCHANGED <<task, writer, crashes, faults>>
  BY DEF Begin
<1>2. /\ TypeOK /\ writer = NoOne /\ store = saved
      /\ \A t \in Targets : task[t].pc = "off" /\ ~task[t].inTry
  BY <1>1, NoTryWithoutTask DEF IInv, IdleOK
<1>3. TornByCrash
  BY DEF OInv
<1>4. \A t \in Targets :
        /\ prepared[t] \in TargetManifest /\ AtRest(prepared[t])
        /\ Unauthorized(store[t]) => Unauthorized(prepared[t])
        /\ ~Torn(store[t]) => ~Torn(prepared[t])
  BY <1>2, RowIsAtRest, PreparedAtRest
<1> HIDE DEF prepared
<1>5. \A t \in Targets :
        /\ t \in pending' => ~Vetoed(prepared[t]) /\ prepared[t].state # "complete"
        /\ t \notin pending' => Settled(prepared[t])
  BY <1>1, <1>4, NotResumableIsSettled DEF ResumableTargets
<1>6. WaveOrder' /\ WriterOrder' /\ Processed' /\ ParentsGoOn'
  BY <1>1, <1>2, <1>5, NoOneAssumption DEF WaveOrder, WriterOrder, Processed, ParentsGoOn
<1>7. TornByCrash'
  BY <1>1, <1>2, <1>3, <1>4 DEF TornByCrash
<1>8. \A t \in Targets : RowOrder(t, task'[t], store'[t], pending')
  BY <1>1, <1>2, <1>4, <1>5, IdleRow
<1>9. Held
  <2>1. \A t \in Targets : task'[t].pc # "call"
    BY <1>1, <1>2
  <2>2. \A t \in Targets : AuthorizationBlocked(t) => AuthorizationBlocked(t)'
    BY <1>1, <1>2, <1>4 DEF AuthorizationBlocked, Unauthorized
  <2> QED BY <2>1, <2>2 DEF Held
<1>10. Synced' /\ SavedOrder'
  BY <1>1, <1>4 DEF Synced, SavedOrder
<1> QED BY <1>6, <1>7, <1>8, <1>9, <1>10 DEF OInv

\* A handed-off phase is the only open one: closing it leaves no veto behind.
LEMMA OrderImport ==
  ASSUME IInv, OInv, NEW t \in Targets, NEW p \in Phases, ImportHandoff(t, p)
  PROVE  OInv' /\ Held
<1>1. /\ main = "idle" /\ store[t].ckpt[p] = "handed-off" /\ saved' = store'
      /\ UNCHANGED <<writer, main, pending, task, crashes, faults>>
  BY DEF ImportHandoff
<1>2. /\ TypeOK /\ store[t] \in TargetManifest /\ store \in [Targets -> TargetManifest]
      /\ writer = NoOne /\ store = saved
      /\ \A u \in Targets : task[u].pc = "off" /\ ~task[u].inTry
  BY <1>1, NoTryWithoutTask DEF IInv, IdleOK, TypeOK
<1>3. PICK record \in RecordsFor(p) :
        store' = [store EXCEPT ![t] = [Closed(@, p, record) EXCEPT
                                         !.state = "pending", !.readiness = "configured"]]
  BY DEF ImportHandoff
<1> DEFINE closed == Closed(store[t], p, record)
           row == [closed EXCEPT !.state = "pending", !.readiness = "configured"]
<1>a. store' = [store EXCEPT ![t] = row]
  BY <1>2, <1>3
<1>b. /\ pending = {} /\ TornByCrash /\ \A u \in Targets : AtRest(store[u])
  BY <1>1, RowIsAtRest DEF OInv, WaveOrder
<1>4. /\ closed \in TargetManifest /\ closed.ckpt = [store[t].ckpt EXCEPT ![p] = "complete"]
  <2>1. record \in Ownership
    BY RecordsFacts
  <2>2. "complete" \in AllowedFrom(store[t].ckpt[p])
    BY <1>1, AllowedTransitions
  <2>3. "complete" \in PhaseState
    BY DEF PhaseState
  <2> QED BY <1>2, <2>1, <2>2, <2>3, ClosedFacts
<1> HIDE DEF closed
<1>5. /\ row.ckpt = closed.ckpt /\ row.state = "pending" /\ row \in TargetManifest
  BY <1>4 DEF TargetManifest, TargetState, Readiness
<1> HIDE DEF row
<1>6. /\ row.ckpt[p] = "complete" /\ \A q \in Phases \ {p} : row.ckpt[q] = store[t].ckpt[q]
  BY <1>2, <1>4, <1>5 DEF TargetManifest
\* Every phase before p is closed, and none behind it was entered.
<1>7. \A q \in Phases : /\ q < p => store[t].ckpt[q] = "complete"
                        /\ p < q => store[t].ckpt[q] \in {Absent, "retryable"}
  BY <1>1, <1>b DEF AtRest, Frontier, Absent
<1>8. \A q \in Phases : q = p \/ q < p \/ p < q
  BY PhasesAssumption DEF Phases
<1>9. ~Vetoed(row) /\ ~Vetoed(store[t])
  BY <1>1, <1>6, <1>7, <1>8 DEF Vetoed, Absent
<1>10. Frontier(row)
  <2> SUFFICES ASSUME NEW r \in Phases, NEW q \in Phases, r < q,
                      row.ckpt[q] \notin {Absent, "retryable"}
               PROVE  row.ckpt[r] = "complete"
    BY DEF Frontier
  <2>1. CASE r = p
    BY <1>6, <2>1
  <2>2. CASE r # p
    <3>1. q = p \/ store[t].ckpt[q] \notin {Absent, "retryable"}
      BY <1>6
    <3>2. store[t].ckpt[r] = "complete"
      BY <1>1, <1>b, <1>7, <3>1 DEF AtRest, Frontier
    <3> QED BY <1>6, <2>2, <3>2
  <2> QED BY <2>1, <2>2
<1>11. AtRest(row) /\ ~Torn(row)
  BY <1>5, <1>9, <1>10, TornIsVetoed DEF AtRest
<1>12. /\ store'[t] = row /\ \A u \in Targets \ {t} : store'[u] = store[u]
  BY <1>a, <1>2
<1>13. WaveOrder' /\ WriterOrder' /\ Processed' /\ ParentsGoOn'
  BY <1>1, <1>2, <1>b DEF WaveOrder, WriterOrder, Processed, ParentsGoOn
<1>14. TornByCrash'
  BY <1>1, <1>b, <1>11, <1>12 DEF TornByCrash
<1>15. \A u \in Targets : AtRest(store'[u])
  BY <1>b, <1>11, <1>12
<1>16. \A u \in Targets : RowOrder(u, task'[u], store'[u], pending')
  BY <1>1, <1>2, <1>b, <1>15, IdleRow
<1>17. Held
  <2>1. ~AuthorizationBlocked(t)
    BY <1>2, <1>9 DEF AuthorizationBlocked, Vetoed
  <2>2. \A u \in Targets \ {t} : AuthorizationBlocked(u) => AuthorizationBlocked(u)'
    BY <1>1, <1>2, <1>12 DEF AuthorizationBlocked
  <2>3. \A u \in Targets : task'[u].pc # "call"
    BY <1>1, <1>2
  <2> QED BY <2>1, <2>2, <2>3 DEF Held
<1>18. Synced' /\ SavedOrder'
  BY <1>1, <1>15 DEF Synced, SavedOrder
<1> QED BY <1>13, <1>14, <1>16, <1>17, <1>18 DEF OInv

\* A fresh manifest is in order.
LEMMA InitOInv == Init => OInv
<1> SUFFICES ASSUME Init PROVE OInv
  OBVIOUS
<1>1. /\ main = "idle" /\ pending = {} /\ saved = store
      /\ \A t \in Targets : task[t].pc = "off" /\ ~task[t].inTry
      /\ \A t \in Targets :
           /\ store[t].state = "pending" /\ \A p \in Phases : store[t].ckpt[p] = Absent
  BY DEF Init, NoTask, FreshManifest, FreshTarget
<1>2. \A t \in Targets : ~Vetoed(store[t])
  BY <1>1 DEF Vetoed, Absent
<1>3. \A t \in Targets : AtRest(store[t]) /\ ~Torn(store[t])
  BY <1>1, <1>2, TornIsVetoed DEF AtRest, Frontier
<1>4. /\ WaveOrder /\ WriterOrder /\ Processed /\ ParentsGoOn /\ TornByCrash
      /\ Synced /\ SavedOrder
  BY <1>1, <1>3
  DEF WaveOrder, WriterOrder, Processed, ParentsGoOn, TornByCrash, Synced, SavedOrder
<1>5. \A t \in Targets : RowOrder(t, task[t], store[t], pending)
  BY <1>1, <1>3, IdleRow
<1> QED BY <1>4, <1>5 DEF OInv

\* Every step keeps the order of the waves, and no step does what Held forbids.
LEMMA NextOInv == IInv /\ OInv /\ [Next]_vars => OInv' /\ Held
<1> SUFFICES ASSUME IInv, OInv, [Next]_vars PROVE OInv' /\ Held
  OBVIOUS
<1>1. ASSUME MainStep PROVE OInv' /\ Held
  BY <1>1, OrderSubmitWave, OrderJoinWave, OrderEnd, OrderBlockUnresolved DEF MainStep
<1>2. ASSUME NEW t \in Targets, TaskStep(t) PROVE OInv' /\ Held
  BY <1>2, OrderTaskSteps
<1>3. ASSUME Command PROVE OInv' /\ Held
  BY <1>3, OrderBegin, OrderImport DEF Command
<1>4. ASSUME Crash PROVE OInv' /\ Held
  BY <1>4, OrderCrash
<1>5. ASSUME Interrupt PROVE OInv' /\ Held
  BY <1>5, OrderInterrupt
<1>6. CASE UNCHANGED vars
  <2>1. UNCHANGED <<store, saved, writer, main, pending, task, aborted, crashes, faults>>
    BY <1>6 DEF vars
  <2>2. WaveOrder' /\ WriterOrder' /\ Processed'
    BY <2>1 DEF OInv, WaveOrder, WriterOrder, Processed
  <2>3. \A t \in Targets : RowOrder(t, task'[t], store[t], pending')
    BY <2>1 DEF OInv
  <2> QED BY <2>1, <2>2, <2>3, OrderUnsaved
<1> QED BY <1>1, <1>2, <1>3, <1>4, <1>5, <1>6 DEF Next

\* The order of the waves holds between any two steps of any run.
THEOREM ExecOrder == Spec => []OInv
<1>1. IInv /\ OInv /\ [Next]_vars => OInv'
  BY NextOInv
<1> QED BY ExecInvariant, InitOInv, <1>1, PTL DEF Spec

\* What the order says of a handler call: the parents have no terminal failure
\* and were settled, so they are complete, unless one is torn.
LEMMA CallsFollowParents ==
  ASSUME IInv, OInv, NEW t \in Targets, task[t].pc = "call", NEW d \in Deps[t]
  PROVE  store[d].state = "complete" \/ Torn(store[d])
<1>1. main = "run"
  BY OrderContext DEF Ending, Escaped
<1>2. Settled(store[d]) /\ ~TerminalFailure(store[d])
  BY <1>1 DEF OInv, WaveOrder, ParentsGoOn, Ending, Escaped
<1> QED BY <1>2 DEF Settled, TerminalFailure

\* A handler runs only while every target its own depends on is COMPLETE, or was
\* left torn by the death or a raised save of an earlier run (_execute_target,
\* _target_is_ready).
THEOREM ExecParentsCompleteOrTorn == Spec => []ParentsCompleteOrTorn
<1>1. IInv /\ OInv => ParentsCompleteOrTorn
  BY CallsFollowParents DEF ParentsCompleteOrTorn
<1> QED BY ExecInvariant, ExecOrder, <1>1, PTL

\* Without process deaths and raised saves the rule holds as it is documented:
\* PDBs stop when their CDB cannot proceed (_execute_target).
THEOREM ExecParentsComplete ==
  ASSUME MaxCrashes = 0, MaxFaults = 0 PROVE Spec => []ParentsComplete
<1>1. IInv /\ OInv => ParentsComplete
  <2> SUFFICES ASSUME IInv, OInv, NEW t \in Targets, task[t].pc = "call", NEW d \in Deps[t]
               PROVE  store[d].state = "complete"
    BY DEF ParentsComplete
  <2>1. main = "run" /\ crashes = 0 /\ faults = 0
    BY OrderContext, LimitsAssumption DEF IInv, TypeOK, Ending, Escaped
  <2>2. d \in Targets /\ d \notin pending
    BY <2>1, DepsAssumption DEF OInv, WaveOrder
  <2>3. task[d].pc = "off"
    BY <2>1, <2>2 DEF OInv, WaveOrder
  <2>4. ~Torn(store[d])
    BY <2>1, <2>2, <2>3 DEF OInv, TornByCrash
  <2> QED BY <2>4, CallsFollowParents
<1> QED BY ExecInvariant, ExecOrder, <1>1, PTL

\* Once a worker has seen an authorization failure no handler is called any more
\* in the run (_run_phase looks at the circuit behind the semaphores).
THEOREM ExecCircuitStopsNewCalls == Spec => CircuitStopsNewCalls
<1>1. IInv /\ OInv /\ [Next]_vars =>
        [circuit => \A t \in Targets : task'[t].pc = "call" => task[t].pc = "call"]_vars
  BY NextOInv DEF Held
<1> QED BY ExecInvariant, ExecOrder, <1>1, PTL DEF Spec, CircuitStopsNewCalls

\* A phase blocked for authorization is never lifted by a resume, a retry or an
\* import, and its target calls no handler again (reopen_failed,
\* _target_is_resumable).
THEOREM ExecAuthorizationBlockPermanent == Spec => AuthorizationBlockPermanent
<1>1. IInv /\ OInv /\ [Next]_vars =>
        [\A t \in Targets : AuthorizationBlocked(t) =>
           AuthorizationBlocked(t)' /\ task'[t].pc # "call"]_vars
  BY NextOInv DEF Held
<1> QED BY ExecInvariant, ExecOrder, <1>1, PTL DEF Spec, AuthorizationBlockPermanent

\* A run that ends by itself has given every target a verdict, or found it torn,
\* and the file has it (execute).
THEOREM ExecRunSettles == Spec => RunSettles
<1>1. IInv /\ OInv /\ [Next]_vars =>
        [main # "idle" /\ main' = "idle" /\ ~aborted' =>
           /\ store = saved
           /\ \A t \in Targets :
                \/ saved[t].state \in {"complete", "failed", "blocked", "handed-off"}
                \/ Torn(saved[t])]_vars
  <2> SUFFICES ASSUME IInv, OInv, [Next]_vars, main # "idle", main' = "idle", ~aborted'
               PROVE  store = saved /\ \A t \in Targets : Settled(store[t])
    BY DEF Settled
  <2>1. ASSUME End PROVE store = saved /\ \A t \in Targets : Settled(store[t])
    <3>1. /\ \A t \in Targets : task[t].pc = "off"
          /\ pending = {} /\ ~aborted /\ writer = NoOne
      BY <2>1 DEF End, Wave
    <3>2. store = saved
      BY <3>1 DEF OInv, Synced, Escaped
    <3> QED BY <3>1, <3>2 DEF OInv, Processed
  <2>2. ~Crash
    BY DEF Crash
  <2>3. ASSUME NEW u \in Targets, TaskStep(u) PROVE FALSE
    <3>1. ASSUME Work(u) PROVE FALSE
      BY <3>1 DEF Work, Start, NextPhase, EnterPhase, NoHandler, AcquireRegion, CallHandler,
         Succeed, CheckpointVerdict, HandOff, ReturnVerdict, AuthError, ConflictError,
         RetryLater, RetryNow, GiveUp, HandlerInterrupted, RaiseInterrupt, Settle,
         CompleteTarget, CatchSave, RaiseRefused
    <3> QED BY <2>3, <3>1 DEF TaskStep, Save, SaveRaises, RecordRaises
  <2>4. ASSUME SubmitWave \/ JoinWave \/ Interrupt \/ UNCHANGED vars PROVE FALSE
    <3>1. main' = main
      BY <2>4 DEF SubmitWave, JoinWave, Interrupt, vars
    <3> QED BY <3>1
  <2>5. ASSUME Command PROVE FALSE
    <3>1. \A expired, retry : Begin(expired, retry) => main = "idle"
      BY DEF Begin
    <3>2. \A u, p : ImportHandoff(u, p) => main = "idle"
      BY DEF ImportHandoff
    <3> QED BY <2>5, <3>1, <3>2 DEF Command
  <2>6. ASSUME NEW u \in Targets, BlockUnresolved(u) PROVE FALSE
    BY <2>6 DEF BlockUnresolved
  <2> QED BY <2>1, <2>2, <2>3, <2>4, <2>5, <2>6 DEF Next, MainStep
<1> QED BY ExecInvariant, ExecOrder, <1>1, PTL DEF Spec, RunSettles

\* resume --retry-failed re-enters every failed target, and every child that
\* failure blocked (RunManifest.reopen_failed).
THEOREM ExecRetryReopensFailures == Spec => []RetryReopensFailures
<1>1. IInv /\ OInv => RetryReopensFailures
  <2> DEFINE failed == FailedTargets(store)
             Concerned(t) ==
               \/ t \in failed
               \/ \E p \in Phases :
                    DependencyBlock(store[t], p) /\ store[t].blockedBy[p] \cap failed # {}
  <2> SUFFICES ASSUME IInv, OInv, NEW t \in Targets, Concerned(t)
               PROVE  TargetIsResumable(ReopenFailed(store)[t])
    BY DEF RetryReopensFailures
  <2>1. store \in [Targets -> TargetManifest] /\ AtRest(store[t])
    BY RowIsAtRest DEF IInv, TypeOK
  <2>2. t \in failed \/ DependencyBlocked(store[t], failed)
    <3>1. \A d \in Targets : d \in IdsWithin[d]
      BY IdsWithinAssumption
    <3>2. \A p \in Phases : store[t].blockedBy[p] \in SUBSET Targets
      BY <2>1 DEF TargetManifest
    <3> QED BY <3>1, <3>2 DEF DependencyBlocked, NamesFailed
  <2>3. ~Vetoed(ReopenFailed(store)[t]) /\ ReopenFailed(store)[t].state = "pending"
    BY <2>1, <2>2, ReopenedTarget
  <2> QED BY <2>3 DEF TargetIsResumable, Resumable, Vetoed, CkptStates
<1> QED BY ExecInvariant, ExecOrder, <1>1, PTL
=============================================================================
