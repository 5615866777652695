----------------------------- MODULE FleetLease -----------------------------
(***************************************************************************)
(* The run lease of fleet_state.py: a row of the local SQLite store that a *)
(* process acquires before its first checkpoint or OCI call, a heartbeat   *)
(* thread that renews it, and the fence the process consults on both sides *)
(* of every call and save.  A process that dies leaves its row behind; the *)
(* next one may take it over once it has expired.                          *)
(*                                                                         *)
(* Time is counted in ticks.  lease.left is the time until expires_at, and *)
(* beat[a] the time until the heartbeat of a is due; a negative beat is a  *)
(* heartbeat that is late, by at most Delay ticks.  Every process has an   *)
(* owner id of its own (a fresh uuid), so a dead one never comes back.     *)
(***************************************************************************)
EXTENDS Integers

CONSTANTS
  Actors,       \* the processes that ever work on the run
  PlanOf,       \* PlanOf[a]: the plan a was approved for
  TTL,          \* lifetime of a lease
  Interval,     \* time between two heartbeats
  Delay,        \* bound on how late the heartbeat thread is scheduled
  RenewRaises,  \* TRUE: renew_lease may raise (SQLite locked, disk error)
  NoOwner       \* there is no lease row

ASSUME TimingAssumption ==
  TTL \in Nat \ {0} /\ Interval \in Nat \ {0} /\ Delay \in Nat

ASSUME ActorsAssumption == NoOwner \notin Actors /\ RenewRaises \in BOOLEAN

VARIABLES
  lease,   \* [owner, left]: the row, if any
  stage,      \* what each process does
  beat,    \* time until the next heartbeat of each process
  ticking, \* the heartbeat thread of the process is running
  lost,    \* LeaseHeartbeat._lost
  late     \* some heartbeat was later than its lease could bear, or failed

leaseVars == <<lease, stage, beat, ticking, lost, late>>

(* "idle" before the command; "held" between two fenced steps; "writing"    *)
(* past the fence, in an OCI call or a save; "closing" leaving the command; *)
(* "done" ended; "dead" killed.                                             *)
Stages == {"idle", "held", "writing", "closing", "done", "dead"}

Alive(a) == stage[a] \in {"held", "writing"}

NoLease == [owner |-> NoOwner, left |-> 0]

LeaseInit ==
  /\ lease = NoLease
  /\ stage = [a \in Actors |-> "idle"]
  /\ beat = [a \in Actors |-> 0]
  /\ ticking = [a \in Actors |-> FALSE]
  /\ lost = [a \in Actors |-> FALSE]
  /\ late = FALSE

-----------------------------------------------------------------------------
(* The store *)

\* Mutant of Acquirable: an unexpired row for the same plan is taken over.
AcquirableUnexpired(a) ==
  lease.owner # NoOwner => PlanOf[lease.owner] = PlanOf[a]

\* acquire_lease lets a in: no row, or an expired row for the same plan.
Acquirable(a) ==
  lease.owner # NoOwner => lease.left = 0 /\ PlanOf[lease.owner] = PlanOf[a]

\* renew_lease returns TRUE: the row is still a's and has not expired.
Renewable(a) == lease.owner = a /\ lease.left > 0

-----------------------------------------------------------------------------
(* A process *)

Acquire(a) ==
  /\ stage[a] = "idle"
  /\ Acquirable(a)
  /\ lease' = [owner |-> a, left |-> TTL]
  /\ stage' = [stage EXCEPT ![a] = "held"]
  /\ beat' = [beat EXCEPT ![a] = Interval]
  /\ ticking' = [ticking EXCEPT ![a] = TRUE]
  /\ UNCHANGED <<lost, late>>

\* RunLeaseError or RunPlanBindingError before any call is made.
Refuse(a) ==
  /\ stage[a] = "idle"
  /\ ~Acquirable(a)
  /\ stage' = [stage EXCEPT ![a] = "done"]
  /\ UNCHANGED <<lease, beat, ticking, lost, late>>

\* assert_held before a call or a save: go ahead, or raise.
EnterWrite(a) ==
  /\ stage[a] = "held"
  /\ stage' = [stage EXCEPT ![a] = IF lost[a] THEN "closing" ELSE "writing"]
  /\ UNCHANGED <<lease, beat, ticking, lost, late>>

\* assert_held after it.
LeaveWrite(a) ==
  /\ stage[a] = "writing"
  /\ stage' = [stage EXCEPT ![a] = IF lost[a] THEN "closing" ELSE "held"]
  /\ UNCHANGED <<lease, beat, ticking, lost, late>>

\* The command is over: the heartbeat stops, then the row is deleted.
StopHeartbeat(a) ==
  /\ stage[a] \in {"held", "closing"} /\ (stage[a] = "held" \/ ticking[a])
  /\ stage' = [stage EXCEPT ![a] = "closing"]
  /\ ticking' = [ticking EXCEPT ![a] = FALSE]
  /\ UNCHANGED <<lease, beat, lost, late>>

\* Mutant of Release: the row is deleted whoever owns it.
ReleaseAny(a) ==
  /\ stage[a] = "closing" /\ ~ticking[a]
  /\ stage' = [stage EXCEPT ![a] = "done"]
  /\ lease' = NoLease
  /\ UNCHANGED <<beat, ticking, lost, late>>

Release(a) ==
  /\ stage[a] = "closing" /\ ~ticking[a]
  /\ stage' = [stage EXCEPT ![a] = "done"]
  /\ lease' = IF lease.owner = a THEN NoLease ELSE lease
  /\ UNCHANGED <<beat, ticking, lost, late>>

\* Mutant of Dies: the heartbeat outlives the command.
DieBeating(a) ==
  /\ stage[a] \in {"held", "writing", "closing"}
  /\ stage' = [stage EXCEPT ![a] = "dead"]
  /\ UNCHANGED <<lease, beat, ticking, lost, late>>

Dies(a) ==
  /\ stage[a] \in {"held", "writing", "closing"}
  /\ stage' = [stage EXCEPT ![a] = "dead"]
  /\ ticking' = [ticking EXCEPT ![a] = FALSE]
  /\ UNCHANGED <<lease, beat, lost, late>>

-----------------------------------------------------------------------------
(* Its heartbeat thread *)

\* Mutants of Renew: the expiry is not moved, or a refused renewal is only
\* tried again.
RenewKeepsExpiry(a) ==
  /\ ticking[a] /\ beat[a] <= 0
  /\ Renewable(a)
  /\ beat' = [beat EXCEPT ![a] = Interval]
  /\ UNCHANGED <<lease, stage, ticking, lost, late>>

RenewTriesAgain(a) ==
  /\ ticking[a] /\ beat[a] <= 0
  /\ lease' = IF Renewable(a) THEN [lease EXCEPT !.left = TTL] ELSE lease
  /\ beat' = [beat EXCEPT ![a] = Interval]
  /\ UNCHANGED <<stage, ticking, lost, late>>

\* Due, or late: renew_lease succeeds, or tells the thread the lease is gone.
Renew(a) ==
  /\ ticking[a] /\ beat[a] <= 0
  /\ IF Renewable(a)
     THEN /\ lease' = [lease EXCEPT !.left = TTL]
          /\ beat' = [beat EXCEPT ![a] = Interval]
          /\ UNCHANGED <<ticking, lost>>
     ELSE /\ lost' = [lost EXCEPT ![a] = TRUE]
          /\ ticking' = [ticking EXCEPT ![a] = FALSE]
          /\ UNCHANGED <<lease, beat>>
  /\ UNCHANGED <<stage, late>>

\* An exception out of renew_lease ends the thread and leaves _lost unset.
RenewFails(a) ==
  /\ RenewRaises
  /\ ticking[a] /\ beat[a] <= 0
  /\ ticking' = [ticking EXCEPT ![a] = FALSE]
  /\ late' = TRUE
  /\ UNCHANGED <<lease, stage, beat, lost>>

-----------------------------------------------------------------------------
\* A heartbeat that comes this late finds its lease expired.
TooLate(b) == b + TTL <= Interval

\* A tick of the clock.  A running heartbeat thread is never later than Delay.
Tick ==
  /\ \A a \in Actors : ticking[a] => beat[a] > -Delay
  /\ lease' = [lease EXCEPT !.left = IF @ = 0 THEN 0 ELSE @ - 1]
  /\ beat' = [a \in Actors |-> IF ticking[a] THEN beat[a] - 1 ELSE beat[a]]
  /\ late' = (late \/ \E a \in Actors : ticking[a] /\ TooLate(beat[a] - 1))
  /\ UNCHANGED <<stage, ticking, lost>>

ActorStep(a) ==
  \/ Acquire(a) \/ Refuse(a) \/ EnterWrite(a) \/ LeaveWrite(a)
  \/ StopHeartbeat(a) \/ Release(a) \/ Dies(a)

LeaseNext ==
  \/ \E a \in Actors : ActorStep(a) \/ Renew(a) \/ RenewFails(a)
  \/ Tick

LeaseSpec == LeaseInit /\ [][LeaseNext]_leaseVars

\* Time passes, and a due heartbeat is taken: without it time could not pass.
FairLeaseSpec == LeaseSpec /\ WF_leaseVars(Tick) /\ \A a \in Actors : WF_leaseVars(Renew(a))

-----------------------------------------------------------------------------
(* Properties *)

LeaseTypes ==
  /\ lease \in [owner : Actors \cup {NoOwner}, left : 0 .. TTL]
  /\ stage \in [Actors -> Stages]
  /\ beat \in [Actors -> -Delay .. Interval]
  /\ ticking \in [Actors -> BOOLEAN]
  /\ lost \in [Actors -> BOOLEAN]
  /\ late \in BOOLEAN

\* A process past the fence still owns an unexpired lease: "a writer that loses
\* its lease cannot issue a later request or persist a stale result"
\* (LeaseHeartbeat).
WriterOwnsLease ==
  \A a \in Actors : stage[a] = "writing" => Renewable(a)

\* As long as no heartbeat was so late that its lease ran out, or failed, a
\* process past the fence owns an unexpired lease.
PunctualWriterOwnsLease == ~late => WriterOwnsLease

\* Under the same condition no two processes are past the fence at once, so no
\* OCI call or save of one interleaves with the other's (runbook: "a second
\* local actor fails before it can make a service call").
OneWriter ==
  ~late => \A a, b \in Actors : stage[a] = "writing" /\ stage[b] = "writing" => a = b

\* Giving up a lease never takes it from the process that owns it by then: the
\* row changes hands only when it is deleted by its owner or has expired.
NeverStolen ==
  [][\A a \in Actors :
       lease.owner = a /\ lease'.owner # a => stage[a] = "closing" \/ lease.left = 0]_leaseVars

\* A process that outlived its lease is told so by its own heartbeat, unless the
\* heartbeat thread has ended: the fence closes behind it.
StaleActorFenced ==
  \A a \in Actors :
    Alive(a) /\ ~Renewable(a) /\ ticking[a] ~> lost[a] \/ ~Alive(a) \/ ~ticking[a]

\* The lease of a process that died does not keep the run locked for ever.
DeadLeaseExpires ==
  \A a \in Actors : stage[a] = "dead" ~> lease.owner # a \/ lease.left = 0
=============================================================================
