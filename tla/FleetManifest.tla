--------------------------- MODULE FleetManifest ---------------------------
(***************************************************************************)
(* The durable run manifest of the fleet lifecycle (fleet.py): the states  *)
(* of a phase checkpoint and of a target, the transitions a checkpoint     *)
(* accepts, which targets a resume re-enters, what an explicit             *)
(* --retry-failed reopens and what an expired READY verdict reopens        *)
(* (fleet_status.py).  Only definitions: the components that own a         *)
(* manifest extend this module.                                            *)
(*                                                                         *)
(* Abstracted: a phase is its position in FleetOnboardingExecutor.PHASES,  *)
(* the last one being "validation"; attempts, work request references and  *)
(* free-text messages are dropped, except that a "dependency failed: ..."  *)
(* message is the set of target ids it lists; the resources of a phase are *)
(* summarised by the ownership the manifest records for them.              *)
(***************************************************************************)
EXTENDS Naturals, FiniteSets

CONSTANTS
  Targets,      \* target ids of the plan
  NumPhases,    \* the lifecycle phases are 1 .. NumPhases, in order
  IdsWithin     \* IdsWithin[t]: the target ids that are substrings of id t

ASSUME PhasesAssumption == NumPhases \in Nat \ {0}

ASSUME IdsWithinAssumption ==
  /\ IdsWithin \in [Targets -> SUBSET Targets]
  /\ \A t \in Targets : t \in IdsWithin[t]

Phases == 1 .. NumPhases
Validation == NumPhases

PhaseState == {"pending", "running", "complete", "failed", "retryable",
               "blocked", "handed-off"}
TargetState == {"pending", "running", "complete", "failed", "blocked",
                "handed-off"}
Readiness == {"configured", "collecting", "ready", "degraded", "blocked",
              "handed-off"}
\* What the manifest says of a phase's resources: nothing recorded, OWNED and
\* enabled by the run (cleanup_allowed), or REUSED/PREEXISTING.
Ownership == {"none", "owned", "reused"}

Absent == "absent"        \* no checkpoint written for the phase yet
Rejected == "rejected"    \* transition() raised CheckpointTransitionError

TargetManifest ==
  [state : TargetState, readiness : Readiness,
   ckpt : [Phases -> PhaseState \cup {Absent}],
   blockedBy : [Phases -> SUBSET Targets],
   res : [Phases -> Ownership]]

FreshTarget ==
  [state |-> "pending", readiness |-> "configured",
   ckpt |-> [p \in Phases |-> Absent],
   blockedBy |-> [p \in Phases |-> {}],
   res |-> [p \in Phases |-> "none"]]

-----------------------------------------------------------------------------
(* Checkpoint transitions *)

\* Mutant of AllowedFrom: a handed-off phase cannot be entered again.
AllowedFromWithoutReentry(s) ==
  CASE s \in {"pending", Absent} -> {"running", "blocked", "handed-off"}
    [] s = "running"    -> {"complete", "failed", "retryable", "blocked", "handed-off"}
    [] s = "retryable"  -> {"running", "blocked", "handed-off"}
    [] s = "failed"     -> {"retryable", "blocked", "handed-off"}
    [] s = "handed-off" -> {"complete", "blocked"}
    [] OTHER            -> {}

\* _ALLOWED_PHASE_TRANSITIONS; an absent checkpoint is created PENDING by
\* transition_checkpoint before it moves.
AllowedFrom(s) ==
  CASE s \in {"pending", Absent} -> {"running", "blocked", "handed-off"}
    [] s = "running"    -> {"complete", "failed", "retryable", "blocked", "handed-off"}
    [] s = "retryable"  -> {"running", "blocked", "handed-off"}
    [] s = "failed"     -> {"retryable", "blocked", "handed-off"}
    [] s = "handed-off" -> {"running", "complete", "blocked"}
    [] OTHER            -> {}

Transition(from, to) ==
  IF to = from \/ to \in AllowedFrom(from) THEN to ELSE Rejected

\* RunManifest.transition_checkpoint on one target; cause is the set of
\* dependencies a "dependency failed:" message lists, {} for any other message.
Checkpointed(tm, p, to, cause) ==
  [tm EXCEPT !.ckpt[p] = Transition(tm.ckpt[p], to), !.blockedBy[p] = cause]

-----------------------------------------------------------------------------
(* Which targets a run may re-enter *)

CkptStates(tm) == {tm.ckpt[p] : p \in Phases}

\* TargetManifest.resumable
Resumable(tm) ==
  /\ tm.state \notin {"complete", "failed", "blocked"}
  /\ \/ tm.state \in {"pending", "running"}
     \/ CkptStates(tm) \cap {"pending", "running", "retryable", "handed-off"} # {}

\* FleetOnboardingExecutor._target_is_resumable
TargetIsResumable(tm) ==
  /\ Resumable(tm)
  /\ CkptStates(tm) \cap {"blocked", "failed"} = {}

\* _next_incomplete_phase: the first phase without a COMPLETE checkpoint
NextIncomplete(tm) ==
  LET incomplete == {p \in Phases : tm.ckpt[p] # "complete"}
  IN  IF incomplete = {} THEN NumPhases
      ELSE CHOOSE p \in incomplete : \A q \in incomplete : p <= q

\* Mutant of TerminalFailure: a handed-off parent does not stop its children.
TerminalFailureExceptHandoff(tm) == tm.state \in {"failed", "blocked"}

\* _target_terminal_failure
TerminalFailure(tm) == tm.state \in {"failed", "blocked", "handed-off"}

-----------------------------------------------------------------------------
(* RunManifest.reopen_failed: resume --retry-failed *)

FailedTargets(m) ==
  {t \in Targets : m[t].state = "failed" /\ "failed" \in CkptStates(m[t])}

DependencyBlock(tm, p) == tm.ckpt[p] = "blocked" /\ tm.blockedBy[p] # {}

\* The message of the block contains the id of a failed target.
NamesFailed(tm, p, failed) ==
  \E d \in tm.blockedBy[p] : IdsWithin[d] \cap failed # {}

DependencyBlocked(tm, failed) ==
  \E p \in Phases : DependencyBlock(tm, p) /\ NamesFailed(tm, p, failed)

\* Mutants of ReopenTarget: the children of a failure stay blocked, or every phase is
\* reopened.
ReopenOnlyFailed(tm, dependencyBlocked) ==
  [tm EXCEPT !.state = "pending", !.readiness = "degraded",
             !.ckpt = [p \in Phases |-> IF tm.ckpt[p] = "failed" THEN "retryable"
                                        ELSE tm.ckpt[p]]]

ReopenEveryPhase(tm, dependencyBlocked) ==
  [tm EXCEPT !.state = "pending", !.readiness = "degraded",
             !.ckpt = [p \in Phases |-> IF tm.ckpt[p] = Absent THEN Absent
                                        ELSE "retryable"]]

ReopenTarget(tm, dependencyBlocked) ==
  LET reopens(p) == \/ tm.ckpt[p] = "failed"
                    \/ dependencyBlocked /\ DependencyBlock(tm, p)
  IN  [tm EXCEPT
         !.state = "pending",
         !.readiness = "degraded",
         !.ckpt = [p \in Phases |-> IF reopens(p) THEN "retryable" ELSE tm.ckpt[p]],
         !.blockedBy = [p \in Phases |-> IF reopens(p) THEN {} ELSE tm.blockedBy[p]]]

\* Mutant of ReopenFailed: it reopens whatever is blocked, for any reason.
ReopenBlockedToo(m) ==
  [t \in Targets |->
     IF m[t].state \in {"failed", "blocked"}
     THEN [m[t] EXCEPT !.state = "pending",
                       !.ckpt = [p \in Phases |-> IF @[p] \in {"failed", "blocked"}
                                                  THEN "retryable" ELSE @[p]]]
     ELSE m[t]]

ReopenFailed(m) ==
  LET failed == FailedTargets(m)
  IN  [t \in Targets |->
         IF t \in failed \/ DependencyBlocked(m[t], failed)
         THEN ReopenTarget(m[t], DependencyBlocked(m[t], failed))
         ELSE m[t]]

-----------------------------------------------------------------------------
(* refresh_collection_readiness: the targets whose READY verdict has expired *)

RefreshTarget(tm) ==
  [tm EXCEPT
     !.state = "pending",
     !.readiness = "collecting",
     !.ckpt[Validation] =
        IF @ \in {"complete", Absent} THEN "retryable" ELSE @]

\* Mutant of RefreshReadiness: it does not ask for a READY verdict.
RefreshAnyReadiness(m, expired) ==
  [t \in Targets |-> IF t \in expired THEN RefreshTarget(m[t]) ELSE m[t]]

\* expired is the set of targets whose proofs are no longer fresh.
RefreshReadiness(m, expired) ==
  [t \in Targets |-> IF m[t].readiness = "ready" /\ t \in expired
                     THEN RefreshTarget(m[t]) ELSE m[t]]
=============================================================================
