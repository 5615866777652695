--------------------------- MODULE FleetExecutor ---------------------------
(***************************************************************************)
(* FleetOnboardingExecutor (fleet_executor.py): one process at a time,     *)
(* holding the run lease, walks the plan's targets in dependency waves.    *)
(* Every target of a wave is a task of a thread pool; a task runs the      *)
(* phases of its target in order and persists a checkpoint before and      *)
(* after each handler call.  A checkpoint and the target state that goes   *)
(* with it are two separate saves, and the process may die between any two *)
(* steps; a later command resumes from what was saved.                     *)
(*                                                                         *)
(* _checkpoint and _set_target change the manifest in memory and then save *)
(* the whole of it, under one lock (writer).  The save may raise: memory   *)
(* is then ahead of the file until another worker saves, and what becomes  *)
(* of the exception depends on where in _run_phase the save stands.  What  *)
(* happens when two processes disagree on the manifest is FleetCommands.   *)
(***************************************************************************)
EXTENDS FleetManifest

CONSTANTS
  Deps,          \* Deps[t]: the targets t depends on
  RegionOf, ServiceOf,          \* semaphore names of a target and of a phase
  RegionLimit, ServiceLimit,    \* semaphore sizes
  Concurrency,   \* thread pool size
  Retries,       \* further attempts after a transient error
  Handled,       \* phases with a handler in every run
  Optional,      \* phases a run may have no handler for
  Creates,       \* phases whose handler creates or reuses a cloud resource
  Verdicts,      \* Verdicts[p]: readiness values the handler of p may return
  Errors,        \* kinds of exception the OCI facade may raise in a handler
  MaxCrashes,    \* bound on process deaths
  MaxFaults,     \* bound on saves and records that raise
  NoOne          \* the manifest lock is free

ASSUME DepsAssumption == Deps \in [Targets -> SUBSET Targets]

ASSUME LimitsAssumption ==
  /\ Concurrency \in Nat \ {0}
  /\ Retries \in Nat
  /\ MaxCrashes \in Nat /\ MaxFaults \in Nat
  /\ \A t \in Targets : RegionLimit[RegionOf[t]] \in Nat \ {0}
  /\ \A p \in Phases : ServiceLimit[ServiceOf[p]] \in Nat \ {0}

ASSUME PhaseSetsAssumption ==
  /\ Handled \subseteq Phases /\ Optional \subseteq Phases \ Handled
  /\ Creates \subseteq Handled \ {Validation}
  /\ Verdicts \in [Phases -> SUBSET Readiness]

ErrorKinds == {"auth", "conflict", "transient", "fatal", "interrupt"}

ASSUME ErrorsAssumption == Errors \subseteq ErrorKinds

ASSUME NoOneAssumption == NoOne \notin Targets

VARIABLES
  store,     \* the manifest in memory: Targets -> TargetManifest
  saved,     \* the manifest in the state store
  writer,    \* the target whose task holds the manifest lock: its change is in
             \* memory and its save is under way
  main,      \* "idle": no process; "run": execute() works through the waves;
             \* "blocking": it gives up on an unresolvable graph
  pending,   \* targets this run has still to process
  task,      \* the pool's tasks, one per target of the wave
  circuit,   \* _authorization_failure is set
  aborted,   \* an exception is on its way to the main thread
  crashes,   \* number of process deaths so far
  faults,    \* number of saves and records that raised so far
  handlers   \* the phases this run has a handler for

vars == <<store, saved, writer, main, pending, task, circuit, aborted, crashes, faults,
          handlers>>

-----------------------------------------------------------------------------
(* Tasks of the thread pool *)

(* pc of a task: "off" no task; "queued" submitted; "loop" at the head of   *)
(* the phase loop; "region"/"service" waiting for a semaphore; "call" past  *)
(* the last look at the circuit: in the handler; "result" a readiness is    *)
(* saved and the checkpoint is not; "backoff" sleeping before another       *)
(* attempt; "settle" the checkpoint is saved and the target state is not;   *)
(* "raise" interrupted, target state not saved yet; "caught" in the except  *)
(* clause with an exception of its own save; "refused" there with a         *)
(* CheckpointTransitionError; "done" returned or raised.  verdict is the    *)
(* target state to settle, record the ownership a "result" checkpoint has   *)
(* yet to save, inTry whether the task stands in the try of _run_phase.     *)
PCs == {"off", "queued", "loop", "region", "service", "call", "result",
        "backoff", "settle", "raise", "caught", "refused", "done"}

Task == [pc : PCs, phase : 1 .. NumPhases + 1, attempt : 0 .. Retries,
         verdict : TargetState, record : Ownership, inTry : BOOLEAN]

NoTask == [pc |-> "off", phase |-> 1, attempt |-> 0, verdict |-> "pending",
           record |-> "none", inTry |-> FALSE]

Wave == {t \in Targets : task[t].pc # "off"}
Started == {t \in Targets : task[t].pc \notin {"off", "queued", "done"}}

InRegion(r) == {t \in Targets : RegionOf[t] = r /\ task[t].pc \in {"service", "call"}}
InService(s) ==
  {t \in Targets : task[t].pc = "call" /\ ServiceOf[task[t].phase] = s}

Goto(t, pc) == task' = [task EXCEPT ![t].pc = pc]

\* The lock is taken and the manifest changed in memory; Save or SaveRaises is
\* what follows.
Change(t, row) ==
  /\ writer = NoOne /\ writer' = t
  /\ store' = [store EXCEPT ![t] = row]

Checkpoint(t, p, state, cause) == Change(t, Checkpointed(store[t], p, state, cause))

SetTarget(t, state, readiness) ==
  Change(t, [store[t] EXCEPT !.state = state, !.readiness = readiness])

\* The target state goes with a readiness: BLOCKED and HANDED_OFF have theirs,
\* FAILED is DEGRADED.
ReadinessFor(state) == IF state = "failed" THEN "degraded" ELSE state

SettleLater(t, verdict, inTry) ==
  task' = [task EXCEPT ![t].pc = "settle", ![t].verdict = verdict, ![t].inTry = inTry]

\* Save a checkpoint now and the target state that goes with it in a later step.
CheckpointThenSettle(t, p, state, cause, verdict, inTry) ==
  Checkpoint(t, p, state, cause) /\ SettleLater(t, verdict, inTry)

\* _block: a COMPLETE or BLOCKED checkpoint is left as it is.
Block(t, p, cause, inTry) ==
  IF store[t].ckpt[p] \in {"blocked", "complete"}
  THEN SettleLater(t, "blocked", inTry) /\ UNCHANGED <<store, writer>>
  ELSE CheckpointThenSettle(t, p, "blocked", cause, "blocked", inTry)

-----------------------------------------------------------------------------
(* The main thread *)

FreshManifest == [t \in Targets |-> FreshTarget]

\* What execute() starts from: the loaded manifest with expired verdicts
\* reopened, and failures reopened when --retry-failed is given.
Prepared(expired, retry) ==
  LET refreshed == RefreshReadiness(store, expired)
  IN  IF retry THEN ReopenFailed(refreshed) ELSE refreshed

\* READY verdicts without a recorded collection proof never count as fresh.
Unproven == {t \in Targets : store[t].res[Validation] = "none"}

ResumableTargets(m) == {t \in Targets : TargetIsResumable(m[t])}

\* execute() up to the first wave.  With no resumable target it returns the
\* prepared manifest without saving anything, and if its first save raises it
\* ends with nothing done.
Begin(expired, retry) ==
  LET prepared == Prepared(expired, retry)
  IN  /\ main = "idle"
      /\ ResumableTargets(prepared) # {}
      /\ main' = "run"
      /\ store' = prepared /\ saved' = prepared
      /\ pending' = ResumableTargets(prepared)
      /\ aborted' = FALSE
      /\ \E more \in SUBSET Optional : handlers' = Handled \cup more
      /\ UNCHANGED <<writer, task, circuit, crashes, faults>>

\* Mutant of Ready: a wave takes every pending target.
ReadyAll == pending

Ready == {t \in pending : Deps[t] \cap pending = {}}

SubmitWave ==
  /\ main = "run" /\ Wave = {} /\ ~aborted
  /\ Ready # {}
  /\ task' = [t \in Targets |-> IF t \in Ready THEN [NoTask EXCEPT !.pc = "queued"]
                                ELSE NoTask]
  /\ UNCHANGED <<store, saved, writer, main, pending, circuit, aborted, crashes, faults,
                 handlers>>

\* Mutant of BlockUnresolved: an empty wave is waited out.
WaitUnresolved(t) ==
  /\ main = "blocking" /\ Wave = {} /\ writer = NoOne /\ ~aborted /\ t \in pending
  /\ Block(t, NextIncomplete(store[t]), {}, FALSE)
  /\ pending' = pending \ {t}
  /\ UNCHANGED <<saved, main, circuit, aborted, crashes, faults, handlers>>

\* "dependency graph cannot be resolved": one pending target after another is
\* blocked, in the main thread, and the loop ends.
BlockUnresolved(t) ==
  /\ Wave = {} /\ writer = NoOne /\ ~aborted /\ t \in pending
  /\ main = "blocking" \/ (main = "run" /\ Ready = {})
  /\ main' = "blocking"
  /\ Block(t, NextIncomplete(store[t]), {}, FALSE)
  /\ pending' = pending \ {t}
  /\ UNCHANGED <<saved, circuit, aborted, crashes, faults, handlers>>

\* Mutant of JoinWave: the futures of the wave are not waited for.
JoinWaveEarly ==
  /\ main = "run" /\ Wave # {} /\ writer = NoOne
  /\ task' = [t \in Targets |-> NoTask]
  /\ pending' = pending \ Wave
  /\ UNCHANGED <<store, saved, writer, main, circuit, aborted, crashes, faults, handlers>>

\* The pool has joined: every future of the wave has been waited for.
JoinWave ==
  /\ main = "run" /\ Wave # {} /\ writer = NoOne
  /\ \A t \in Wave : task[t].pc = "done"
  /\ task' = [t \in Targets |-> NoTask]
  /\ pending' = pending \ Wave
  /\ UNCHANGED <<store, saved, writer, main, circuit, aborted, crashes, faults, handlers>>

\* execute() returns, or raises once the tasks of the wave have ended: the
\* lease is released, and what was never saved is gone with the process.
End ==
  /\ main # "idle" /\ Wave = {} /\ writer = NoOne
  /\ pending = {} \/ aborted
  /\ main' = "idle" /\ pending' = {}
  /\ store' = saved
  /\ circuit' = FALSE /\ handlers' = Handled
  /\ UNCHANGED <<saved, writer, task, aborted, crashes, faults>>

\* Ctrl-C in the main thread, which waits for the futures of the wave.
Interrupt ==
  /\ main = "run" /\ Wave # {} /\ ~aborted
  /\ "interrupt" \in Errors
  /\ aborted' = TRUE
  /\ UNCHANGED <<store, saved, writer, main, pending, task, circuit, crashes, faults,
                 handlers>>

-----------------------------------------------------------------------------
(* A task: _execute_target.  Work(t) adds that t's own save is over and that *)
(* none of these steps saves anything: Save(t) and SaveRaises(t) follow.     *)

FailedDeps(t) == {d \in Deps[t] : TerminalFailure(store[d])}

Start(t) ==
  /\ task[t].pc = "queued"
  /\ Cardinality(Started) < Concurrency
  /\ IF circuit
     THEN Block(t, NextIncomplete(store[t]), {}, FALSE)
     ELSE IF FailedDeps(t) # {}
     THEN Block(t, NextIncomplete(store[t]), FailedDeps(t), FALSE)
     ELSE Goto(t, "loop") /\ UNCHANGED <<store, writer>>
  /\ UNCHANGED <<main, pending, circuit, aborted, crashes, handlers>>

NextPhase(t) ==
  LET p == task[t].phase
  IN  /\ task[t].pc = "loop" /\ p \in Phases
      /\ store[t].ckpt[p] = "complete"
      /\ task' = [task EXCEPT ![t].phase = p + 1]
      /\ UNCHANGED <<store, writer, main, pending, circuit, aborted, crashes, handlers>>

\* The head of the loop and of _run_phase: an open circuit blocks the phase, any
\* other is checkpointed RUNNING.  (A phase that is BLOCKED or FAILED ends the
\* target; no resumable target has one.)
EnterPhase(t) ==
  LET p == task[t].phase
  IN  /\ task[t].pc = "loop" /\ p \in Phases
      /\ store[t].ckpt[p] \notin {"complete", "blocked", "failed"}
      /\ IF circuit THEN Block(t, p, {}, FALSE)
         ELSE /\ Checkpoint(t, p, "running", {})
              /\ task' = [task EXCEPT ![t].pc = "region", ![t].attempt = 0]
      /\ UNCHANGED <<main, pending, circuit, aborted, crashes, handlers>>

NoHandler(t) ==
  LET p == task[t].phase
  IN  /\ task[t].pc = "region" /\ p \notin handlers
      /\ CheckpointThenSettle(t, p, "handed-off", {}, "handed-off", FALSE)
      /\ UNCHANGED <<main, pending, circuit, aborted, crashes, handlers>>

\* The try of _run_phase begins.
AcquireRegion(t) ==
  /\ task[t].pc = "region" /\ task[t].phase \in handlers
  /\ Cardinality(InRegion(RegionOf[t])) < RegionLimit[RegionOf[t]]
  /\ task' = [task EXCEPT ![t].pc = "service", ![t].inTry = TRUE]
  /\ UNCHANGED <<store, writer, main, pending, circuit, aborted, crashes, handlers>>

\* Mutant of CallHandler: the circuit is not looked at behind the semaphores.
CallHandlerUnchecked(t) ==
  LET p == task[t].phase
  IN  /\ task[t].pc = "service"
      /\ Cardinality(InService(ServiceOf[p])) < ServiceLimit[ServiceOf[p]]
      /\ Goto(t, "call")
      /\ UNCHANGED <<store, writer, main, pending, circuit, aborted, crashes, handlers>>

\* Both semaphores held: the circuit is looked at once more, then the handler
\* is called.  The call is taken to begin with that look.
CallHandler(t) ==
  LET p == task[t].phase
  IN  /\ task[t].pc = "service"
      /\ Cardinality(InService(ServiceOf[p])) < ServiceLimit[ServiceOf[p]]
      /\ IF circuit THEN Block(t, p, {}, TRUE)
         ELSE Goto(t, "call") /\ UNCHANGED <<store, writer>>
      /\ UNCHANGED <<main, pending, circuit, aborted, crashes, handlers>>

-----------------------------------------------------------------------------
(* Outcomes of a handler *)

\* The ownership a handler may record, if any.  Which one is the subject of
\* ServiceEnablement: not every handler tells what it made from what it found.
RecordsFor(p) == IF p \in Creates THEN {"none", "owned", "reused"} ELSE {"none"}

\* validation records non-owning collection proofs with a READY verdict.
ResultRecords(p, readiness) ==
  IF p = Validation /\ readiness = "ready" THEN {"reused"} ELSE RecordsFor(p)

\* Mutant of Closed: the records of the phase are replaced, not added to.
ClosedAfresh(tm, p, record) ==
  [Checkpointed(tm, p, "complete", {}) EXCEPT !.res[p] = record]

\* A target with phase p closed: COMPLETE is saved with the record, if any.
Closed(tm, p, record) ==
  [Checkpointed(tm, p, "complete", {}) EXCEPT
     !.res[p] = IF record = "none" THEN @ ELSE record]

\* The loop goes on with the phase after p once COMPLETE is saved.
CompletePhase(t, p, record, inTry) ==
  /\ Change(t, Closed(store[t], p, record))
  /\ task' = [task EXCEPT ![t].pc = "loop", ![t].record = "none", ![t].inTry = inTry]

Succeed(t) ==
  LET p == task[t].phase
  IN  /\ task[t].pc = "call" /\ Verdicts[p] = {}
      /\ \E record \in RecordsFor(p) : CompletePhase(t, p, record, TRUE)
      /\ UNCHANGED <<main, pending, circuit, aborted, crashes, handlers>>

\* A handler that also returns a readiness: target state and verdict are saved
\* first, the COMPLETE checkpoint and the resources after them.
ReturnVerdict(t, readiness) ==
  LET p == task[t].phase
  IN  /\ task[t].pc = "call" /\ readiness \in Verdicts[p]
      /\ SetTarget(t, "running", readiness)
      /\ \E record \in ResultRecords(p, readiness) :
           task' = [task EXCEPT ![t].pc = "result", ![t].record = record]
      /\ UNCHANGED <<main, pending, circuit, aborted, crashes, handlers>>

CheckpointVerdict(t) ==
  /\ task[t].pc = "result"
  /\ CompletePhase(t, task[t].phase, task[t].record, TRUE)
  /\ UNCHANGED <<main, pending, circuit, aborted, crashes, handlers>>

\* The handler needs an operator: the signed packet is written and the phase
\* is handed off.  Without a key to sign with there is no writer, and the phase
\* is blocked instead.
HandOff(t) ==
  LET p == task[t].phase
  IN  /\ task[t].pc = "call" /\ p # Validation
      /\ \/ CheckpointThenSettle(t, p, "handed-off", {}, "handed-off", TRUE)
         \/ CheckpointThenSettle(t, p, "blocked", {}, "blocked", TRUE)
      /\ UNCHANGED <<main, pending, circuit, aborted, crashes, handlers>>

AuthError(t) ==
  LET p == task[t].phase
  IN  /\ task[t].pc = "call" /\ "auth" \in Errors
      /\ circuit' = TRUE
      /\ CheckpointThenSettle(t, p, "blocked", {}, "blocked", FALSE)
      /\ UNCHANGED <<main, pending, aborted, crashes, handlers>>

\* An unambiguous 409: the resource exists and no record is made of it.
ConflictError(t) ==
  LET p == task[t].phase
  IN  /\ task[t].pc = "call" /\ "conflict" \in Errors
      /\ p \in Creates
      /\ CompletePhase(t, p, "none", FALSE)
      /\ UNCHANGED <<main, pending, circuit, aborted, crashes, handlers>>

\* A transient error with attempts left: RETRYABLE is saved, and RUNNING again
\* after the backoff.
RetryLater(t) ==
  LET p == task[t].phase
  IN  /\ task[t].pc = "call" /\ "transient" \in Errors
      /\ task[t].attempt < Retries
      /\ Checkpoint(t, p, "retryable", {})
      /\ task' = [task EXCEPT ![t].pc = "backoff", ![t].inTry = FALSE]
      /\ UNCHANGED <<main, pending, circuit, aborted, crashes, handlers>>

RetryNow(t) ==
  /\ task[t].pc = "backoff"
  /\ Checkpoint(t, task[t].phase, "running", {})
  /\ task' = [task EXCEPT ![t].pc = "region", ![t].attempt = @ + 1]
  /\ UNCHANGED <<main, pending, circuit, aborted, crashes, handlers>>

GiveUp(t) ==
  LET p == task[t].phase
  IN  /\ task[t].pc = "call"
      /\ \/ /\ "transient" \in Errors /\ task[t].attempt = Retries
            /\ CheckpointThenSettle(t, p, "retryable", {}, "failed", FALSE)
         \/ /\ "fatal" \in Errors
            /\ CheckpointThenSettle(t, p, "failed", {}, "failed", FALSE)
      /\ UNCHANGED <<main, pending, circuit, aborted, crashes, handlers>>

\* KeyboardInterrupt out of the handler.
HandlerInterrupted(t) ==
  LET p == task[t].phase
  IN  /\ task[t].pc = "call" /\ "interrupt" \in Errors
      /\ Checkpoint(t, p, "retryable", {})
      /\ task' = [task EXCEPT ![t].pc = "raise", ![t].inTry = FALSE]
      /\ UNCHANGED <<main, pending, circuit, aborted, crashes, handlers>>

RaiseInterrupt(t) ==
  /\ task[t].pc = "raise"
  /\ SetTarget(t, "pending", "degraded")
  /\ Goto(t, "done")
  /\ aborted' = TRUE
  /\ UNCHANGED <<main, pending, circuit, crashes, handlers>>

-----------------------------------------------------------------------------
(* The second save of a task, and the end of a target *)

\* Where the task of t ends: the main thread's own blocks have no future.
Ended(t) == IF t \in pending THEN "done" ELSE "off"

Settle(t) ==
  /\ task[t].pc = "settle"
  /\ SetTarget(t, task[t].verdict, ReadinessFor(task[t].verdict))
  /\ Goto(t, Ended(t))
  /\ UNCHANGED <<main, pending, circuit, aborted, crashes, handlers>>

\* Every phase is COMPLETE: configuration alone is only "collecting".
CompleteTarget(t) ==
  /\ task[t].pc = "loop" /\ task[t].phase = NumPhases + 1
  /\ SetTarget(t, "complete",
       IF store[t].readiness = "configured" THEN "collecting" ELSE store[t].readiness)
  /\ Goto(t, "done")
  /\ UNCHANGED <<main, pending, circuit, aborted, crashes, handlers>>

-----------------------------------------------------------------------------
(* Saves, and what becomes of one that raises *)

\* _save writes the whole manifest, the changes of other workers included.
Save(t) ==
  /\ writer = t /\ writer' = NoOne
  /\ saved' = store
  /\ task' = [task EXCEPT ![t].inTry = @ /\ task[t].pc \in {"result", "settle"}]
  /\ UNCHANGED <<store, main, pending, circuit, aborted, crashes, faults, handlers>>

\* The save raises (SQLite or the file system), before its commit or after it.
\* Inside the try the exception is classified like one of the handler's,
\* elsewhere it leaves the task.
SaveRaises(t) ==
  /\ writer = t /\ writer' = NoOne
  /\ faults < MaxFaults /\ faults' = faults + 1
  /\ saved' \in {saved, store}
  /\ task' = [task EXCEPT ![t].pc = IF task[t].inTry THEN "caught" ELSE Ended(t),
                          ![t].record = "none", ![t].inTry = FALSE]
  /\ aborted' = (aborted \/ ~task[t].inTry)
  /\ UNCHANGED <<store, main, pending, circuit, crashes, handlers>>

\* with_resource refuses a record that contradicts an earlier one: COMPLETE is
\* in memory by then, without the record, and nothing is saved.
RecordRaises(t) ==
  LET p == task[t].phase
  IN  /\ \/ task[t].pc = "call" /\ Verdicts[p] = {} /\ p \in Creates
         \/ task[t].pc = "result" /\ task[t].record # "none"
      /\ writer = NoOne
      /\ faults < MaxFaults /\ faults' = faults + 1
      /\ store' = [store EXCEPT ![t] = Closed(@, p, "none")]
      /\ task' = [task EXCEPT ![t].pc = "caught", ![t].record = "none",
                              ![t].inTry = FALSE]
      /\ UNCHANGED <<saved, writer, main, pending, circuit, aborted, crashes, handlers>>

\* Mutant of CatchSave: the phase is given up without a word.
CatchSaveSilently(t) ==
  /\ task[t].pc = "caught"
  /\ Goto(t, "done")
  /\ UNCHANGED <<store, writer, main, pending, circuit, aborted, crashes, handlers>>

\* Such an exception is neither one of authorization nor a conflict nor
\* transient: the phase is to be FAILED, which its checkpoint may refuse.
CatchSave(t) ==
  LET p == task[t].phase
  IN  /\ task[t].pc = "caught" /\ writer = NoOne
      /\ IF Transition(store[t].ckpt[p], "failed") = Rejected
         THEN Goto(t, "refused") /\ UNCHANGED <<store, writer>>
         ELSE CheckpointThenSettle(t, p, "failed", {}, "failed", FALSE)
      /\ UNCHANGED <<main, pending, circuit, aborted, crashes, handlers>>

\* CheckpointTransitionError out of the except clause: it leaves the task.
RaiseRefused(t) ==
  /\ task[t].pc = "refused"
  /\ Goto(t, "done")
  /\ aborted' = TRUE
  /\ UNCHANGED <<store, writer, main, pending, circuit, crashes, handlers>>

-----------------------------------------------------------------------------
(* Between runs, and failures *)

\* HandoffEvidenceImporter.import_packet: signed evidence for a handed-off
\* phase closes it; ownership follows from the attested effect.
ImportHandoff(t, p) ==
  /\ main = "idle"
  /\ p \in Handled /\ store[t].ckpt[p] = "handed-off"
  /\ \E record \in RecordsFor(p) :
       store' = [store EXCEPT ![t] = [Closed(@, p, record) EXCEPT
                                        !.state = "pending", !.readiness = "configured"]]
  /\ saved' = store'
  /\ UNCHANGED <<writer, main, pending, task, circuit, aborted, crashes, faults, handlers>>

\* The process dies, or its lease is lost and every later call and save of it
\* raises RunLeaseError: nothing more is saved.
Crash ==
  /\ main # "idle" /\ crashes < MaxCrashes
  /\ main' = "idle" /\ pending' = {}
  /\ task' = [t \in Targets |-> NoTask]
  /\ store' = saved /\ writer' = NoOne
  /\ crashes' = crashes + 1
  /\ circuit' = FALSE /\ aborted' = TRUE /\ handlers' = Handled
  /\ UNCHANGED <<saved, faults>>

-----------------------------------------------------------------------------
Init ==
  /\ store = FreshManifest /\ saved = FreshManifest /\ writer = NoOne
  /\ main = "idle" /\ pending = {}
  /\ task = [t \in Targets |-> NoTask]
  /\ circuit = FALSE /\ aborted = FALSE
  /\ crashes = 0 /\ faults = 0 /\ handlers = Handled

\* A step of t that changes the manifest in memory, if at all: not before its
\* own last save has ended.
Work(t) ==
  /\ writer # t /\ UNCHANGED <<saved, faults>>
  /\ \/ Start(t) \/ NextPhase(t) \/ EnterPhase(t) \/ NoHandler(t)
     \/ AcquireRegion(t) \/ CallHandler(t)
     \/ Succeed(t) \/ CheckpointVerdict(t) \/ HandOff(t)
     \/ \E r \in Readiness : ReturnVerdict(t, r)
     \/ AuthError(t) \/ ConflictError(t) \/ RetryLater(t) \/ RetryNow(t)
     \/ GiveUp(t) \/ HandlerInterrupted(t) \/ RaiseInterrupt(t)
     \/ Settle(t) \/ CompleteTarget(t)
     \/ CatchSave(t) \/ RaiseRefused(t)

TaskStep(t) == Work(t) \/ Save(t) \/ SaveRaises(t) \/ RecordRaises(t)

MainStep ==
  \/ SubmitWave \/ JoinWave \/ End
  \/ \E t \in Targets : BlockUnresolved(t)

Command ==
  \/ \E expired \in SUBSET Targets, retry \in BOOLEAN :
        Unproven \subseteq expired /\ Begin(expired, retry)
  \/ \E t \in Targets, p \in Phases : ImportHandoff(t, p)

Next ==
  \/ MainStep
  \/ \E t \in Targets : TaskStep(t)
  \/ Command \/ Interrupt \/ Crash

Spec == Init /\ [][Next]_vars

\* The threads of a live process are scheduled, saves end, and every call of a
\* handler returns: the runner gives the OCI CLI no timeout (runner.py), so this
\* is an assumption about the CLI.  Nothing is assumed of the operator, of
\* failures or of the cloud.
Fairness ==
  /\ WF_vars(MainStep)
  /\ \A t \in Targets : WF_vars(TaskStep(t))

FairSpec == Spec /\ Fairness

-----------------------------------------------------------------------------
(* Properties *)

\* Every variable has its type; in particular no checkpoint was ever Rejected.
TypeOK ==
  /\ store \in [Targets -> TargetManifest] /\ saved \in [Targets -> TargetManifest]
  /\ writer \in Targets \cup {NoOne}
  /\ main \in {"idle", "run", "blocking"}
  /\ pending \subseteq Targets
  /\ task \in [Targets -> Task]
  /\ circuit \in BOOLEAN /\ aborted \in BOOLEAN
  /\ crashes \in 0 .. MaxCrashes /\ faults \in 0 .. MaxFaults
  /\ handlers \in SUBSET Phases

\* Over any number of interrupted, resumed and retried runs the executor asks
\* for a checkpoint transition the table refuses in one situation only: a save
\* or a record raised after the try of _run_phase had closed the phase, and the
\* except clause asks for FAILED.  Nothing else raises the
\* CheckpointTransitionError of PhaseCheckpoint.transition.
RefusedOnlyAfterRaisedSave ==
  \A t \in Targets :
    /\ \A p \in Phases : Rejected \notin {store[t].ckpt[p], saved[t].ckpt[p]}
    /\ task[t].pc = "refused" =>
         faults > 0 /\ store[t].ckpt[task[t].phase] \in {"complete", "handed-off", "blocked"}

\* The two saves of a failure are torn: the checkpoint says FAILED or BLOCKED,
\* the target state does not.
Torn(tm) ==
  /\ tm.state \in {"pending", "running", "handed-off"}
  /\ CkptStates(tm) \cap {"failed", "blocked"} # {}

\* A target's handler runs only while every target it depends on is COMPLETE:
\* PDBs stop when their CDB cannot proceed (_execute_target).
ParentsComplete ==
  \A t \in Targets : task[t].pc = "call" =>
     \A d \in Deps[t] : store[d].state = "complete"

\* The same over process deaths, which can leave a parent torn.
ParentsCompleteOrTorn ==
  \A t \in Targets : task[t].pc = "call" =>
     \A d \in Deps[t] : store[d].state = "complete" \/ Torn(store[d])

\* resume --retry-failed can always re-enter a failed phase, and every child
\* blocked by that failure (reopen_failed).
RetryReopensFailures ==
  LET failed == FailedTargets(store)
      reopened == ReopenFailed(store)
  IN  main = "idle" =>
        \A t \in Targets :
          \/ t \in failed
          \/ \E p \in Phases :
                DependencyBlock(store[t], p) /\ store[t].blockedBy[p] \cap failed # {}
          => TargetIsResumable(reopened[t])

\* A FAILED target is always one that --retry-failed reopens (README, runbook).
FailedIsRetryable ==
  \A t \in Targets :
    main = "idle" /\ store[t].state = "failed" =>
      TargetIsResumable(ReopenFailed(store)[t])

\* A completed phase is never replayed: its saved checkpoint stays COMPLETE,
\* except that an expired READY verdict reopens validation.
CompletedNeverReplayed ==
  [][\A t \in Targets, p \in Phases :
       saved[t].ckpt[p] = "complete" =>
         \/ saved'[t].ckpt[p] = "complete"
         \/ p = Validation /\ main = "idle" /\ saved[t].readiness = "ready"]_vars

\* What offboarding works from: an ownership record once saved is neither lost
\* nor changed, by replays, reopened phases, imports, deaths or raised saves
\* (TargetManifest.with_resource).
RecordsKept ==
  [][\A t \in Targets, p \in Phases :
       saved[t].res[p] # "none" => saved'[t].res[p] = saved[t].res[p]]_vars

\* Once a worker has opened the authorization circuit no handler is called any
\* more in this run; only calls already in flight finish.
CircuitStopsNewCalls ==
  [][circuit => \A t \in Targets : task'[t].pc = "call" => task[t].pc = "call"]_vars

\* A phase blocked for authorization stays blocked: no resume, retry or import
\* ever calls a handler of that target again.
AuthorizationBlocked(t) ==
  \E p \in Phases : saved[t].ckpt[p] = "blocked" /\ saved[t].blockedBy[p] = {}

AuthorizationBlockPermanent ==
  [][\A t \in Targets : AuthorizationBlocked(t) =>
       AuthorizationBlocked(t)' /\ task'[t].pc # "call"]_vars

\* A run that ends by itself leaves every target with a verdict, and the
\* verdict is saved: an exception of a save that the run survives lost nothing.
RunSettles ==
  [][main # "idle" /\ main' = "idle" /\ ~aborted' =>
       /\ store = saved
       /\ \A t \in Targets :
            \/ saved[t].state \in {"complete", "failed", "blocked", "handed-off"}
            \/ Torn(saved[t])]_vars

\* Every run ends: retries are bounded, the semaphores are taken in one order,
\* and an unresolvable graph is blocked instead of waited for.
RunTerminates == main # "idle" ~> main = "idle"
=============================================================================
