---------------------------- MODULE FleetCleanup ----------------------------
(***************************************************************************)
(* Offboarding (fleet_offboarding.py, fleet_state.py): the CLI commands    *)
(* offboard (CleanupExecutor) and import-cleanup-handoff work on one       *)
(* approved cleanup plan, a sequence of actions, and on its checkpoint in  *)
(* the store.  An action is a call to OCI or, where no direct route        *)
(* exists, a signed packet for an operator whose evidence is imported      *)
(* later.  The checkpoint is saved after every action.                     *)
(*                                                                         *)
(* No call waits for what it asks for: the command line has no             *)
(* --wait-for-state.  Most of them are accepted as work requests, which    *)
(* end later, and may fail; a secret is scheduled to be deleted.           *)
(*                                                                         *)
(* Both commands hold the run lease.  MayLapse lets a lease be lost while  *)
(* its owner still works (FleetLease says when that can happen); the fence *)
(* around every OCI call then refuses, once the heartbeat has noticed.     *)
(***************************************************************************)
EXTENDS Naturals, FiniteSets

CONSTANTS
  Procs, Command,   \* Command[a]: "offboard" or "import"
  NumActions,       \* the plan's actions are 1 .. NumActions, in order
  Operator,         \* the actions that need an operator (CleanupHandoffRequired)
  MaxPackets,       \* bound on the packets issued for an action
  MayLapse,         \* a lease may be lost under its owner
  None

Actions == 1 .. NumActions

ASSUME CleanupAssumption ==
  /\ NumActions \in Nat \ {0} /\ MaxPackets \in Nat
  /\ Operator \subseteq Actions
  /\ Command \in [Procs -> {"offboard", "import"}]
  /\ None \notin Procs /\ MayLapse \in BOOLEAN

VARIABLES
  saved,     \* the cleanup checkpoint in the store
  holder,    \* the process that owns the run lease
  pc,        \* where each process is
  mem,       \* the checkpoint each executor works on
  at,        \* the action each executor is at
  lost,      \* LeaseHeartbeat._lost of each process
  packet,    \* packet[i]: the packet in the file of action i, 0 if none
  attested,  \* the packets an operator has completed, as <<action, packet>>
  resource,  \* what is left of the resource of each action
  reverted,  \* the actions whose removal OCI had accepted and did not carry out
  lapsed     \* some process has lost its lease while it worked

vars == <<saved, holder, pc, mem, at, lost, packet, attested, resource, reverted, lapsed>>

(* "new"; "run" between actions; "call" past the fence, in OCI; "save" the  *)
(* outcome is in memory; "import" lease taken, evidence not yet read;       *)
(* "done" ended; "dead" killed.                                             *)
PCs == {"new", "run", "call", "save", "import", "done", "dead"}

ActionState == {"none", "complete", "failed", "handed-off"}

\* A service or an association that is to be disabled counts as a resource, too.
Resource == {"live", "deleting", "gone"}

\* handoffs[i] is the packet bound to action i; retained is the evidence
\* window: none recorded, still open, or past its retained_until.
Checkpoint == [states : [Actions -> ActionState],
               handoffs : [Actions -> 0 .. MaxPackets],
               retained : {"none", "open", "past"}]

Nothing == [states |-> [i \in Actions |-> "none"],
            handoffs |-> [i \in Actions |-> 0], retained |-> "none"]

Init ==
  /\ saved = Nothing
  /\ holder = None
  /\ pc = [a \in Procs |-> "new"]
  /\ mem = [a \in Procs |-> Nothing]
  /\ at = [a \in Procs |-> 1]
  /\ lost = [a \in Procs |-> FALSE]
  /\ packet = [i \in Actions |-> 0]
  /\ attested = {}
  /\ resource = [i \in Actions |-> "live"]
  /\ reverted = {}
  /\ lapsed = FALSE

-----------------------------------------------------------------------------
(* offboard *)

Recorded(c) == {i \in Actions : c.states[i] # "none"}
AllComplete(c) == \A i \in Actions : c.states[i] = "complete"

\* purge_expired_cleanup_evidence: a checkpoint is terminal when every action
\* it has recorded is complete.
Purged(c) ==
  IF c.retained = "past" /\ Recorded(c) # {}
     /\ \A i \in Recorded(c) : c.states[i] = "complete"
  THEN [c EXCEPT !.retained = "none"] ELSE c

\* _local_write_lease, then CleanupExecutor.execute up to its loop.
BeginOffboard(a) ==
  /\ pc[a] = "new" /\ Command[a] = "offboard"
  /\ holder = None
  /\ holder' = a
  /\ saved' = Purged(saved)
  /\ mem' = [mem EXCEPT ![a] = Purged(saved)]
  /\ pc' = [pc EXCEPT ![a] = "run"]
  /\ UNCHANGED <<at, lost, packet, attested, resource, reverted, lapsed>>

Skip(a) ==
  /\ pc[a] = "run" /\ at[a] \in Actions
  /\ mem[a].states[at[a]] = "complete"
  /\ at' = [at EXCEPT ![a] = @ + 1]
  /\ UNCHANGED <<saved, holder, pc, mem, lost, packet, attested, resource, reverted, lapsed>>

\* The action at hand ends in state s; its checkpoint is still to be saved.
Conclude(a, s) ==
  /\ mem' = [mem EXCEPT ![a].states[at[a]] = s]
  /\ pc' = [pc EXCEPT ![a] = "save"]

\* _FencedCleanupOperations before the call: a lost lease raises, and the
\* executor takes that for a failed action.
EnterCall(a) ==
  /\ pc[a] = "run" /\ at[a] \in Actions
  /\ mem[a].states[at[a]] # "complete"
  /\ IF lost[a] THEN Conclude(a, "failed")
     ELSE pc' = [pc EXCEPT ![a] = "call"] /\ UNCHANGED mem
  /\ UNCHANGED <<saved, holder, at, lost, packet, attested, resource, reverted, lapsed>>

\* OCI accepts the removal of the resource of action i: it is under way, or done at
\* once; what is gone is not found (OciNotFound, OciAlreadyDone).
Accept(i) ==
  \E r \in {"deleting", "gone"} :
    /\ resource[i] = "gone" => r = "gone"
    /\ resource' = [resource EXCEPT ![i] = r]

\* The removal is accepted, or there is nothing to remove; then the fence after the
\* call.
Delete(a) ==
  /\ pc[a] = "call" /\ at[a] \notin Operator
  /\ Accept(at[a])
  /\ Conclude(a, IF lost[a] THEN "failed" ELSE "complete")
  /\ UNCHANGED <<saved, holder, at, lost, packet, attested, reverted, lapsed>>

\* Mutant of DeleteFails: every error is taken for "already gone".
DeleteFailsComplete(a) ==
  /\ pc[a] = "call" /\ at[a] \notin Operator
  /\ Accept(at[a]) \/ UNCHANGED resource
  /\ Conclude(a, "complete")
  /\ UNCHANGED <<saved, holder, at, lost, packet, attested, reverted, lapsed>>

\* Any other exception, before or after OCI accepted the removal.
DeleteFails(a) ==
  /\ pc[a] = "call" /\ at[a] \notin Operator
  /\ Accept(at[a]) \/ UNCHANGED resource
  /\ Conclude(a, "failed")
  /\ UNCHANGED <<saved, holder, at, lost, packet, attested, reverted, lapsed>>

\* Mutant of HandOff: every visit writes a packet, the binding is kept.
HandOffEachTime(a) ==
  LET i == at[a]
  IN  /\ pc[a] = "call" /\ i \in Operator /\ ~lost[a]
      /\ packet[i] < MaxPackets
      /\ packet' = [packet EXCEPT ![i] = @ + 1]
      /\ mem' = [mem EXCEPT ![a].states[i] = "handed-off",
                            ![a].handoffs[i] = IF @ = 0 THEN packet[i] + 1 ELSE @]
      /\ pc' = [pc EXCEPT ![a] = "save"]
      /\ UNCHANGED <<saved, holder, at, lost, attested, resource, reverted, lapsed>>

\* CleanupHandoffRequired: a packet is written once, and bound to the action.
\* If the lease is gone by then, RunLeaseError takes its place.
HandOff(a) ==
  LET i == at[a]
  IN  /\ pc[a] = "call" /\ i \in Operator /\ ~lost[a]
      /\ IF mem[a].handoffs[i] = 0
         THEN /\ packet[i] < MaxPackets
              /\ packet' = [packet EXCEPT ![i] = @ + 1]
              /\ mem' = [mem EXCEPT ![a].states[i] = "handed-off",
                                    ![a].handoffs[i] = packet[i] + 1]
         ELSE /\ mem' = [mem EXCEPT ![a].states[i] = "handed-off"]
              /\ UNCHANGED packet
      /\ pc' = [pc EXCEPT ![a] = "save"]
      /\ UNCHANGED <<saved, holder, at, lost, attested, resource, reverted, lapsed>>

HandOffFenced(a) ==
  /\ pc[a] = "call" /\ at[a] \in Operator /\ lost[a]
  /\ Conclude(a, "failed")
  /\ UNCHANGED <<saved, holder, at, lost, packet, attested, resource, reverted, lapsed>>

\* The packet cannot be written or is refused: the exception ends the command
\* and the action is not checkpointed.
PacketFails(a) ==
  /\ pc[a] = "call" /\ at[a] \in Operator /\ ~lost[a]
  /\ mem[a].handoffs[at[a]] = 0
  /\ pc' = [pc EXCEPT ![a] = "done"]
  /\ holder' = IF holder = a THEN None ELSE holder
  /\ UNCHANGED <<saved, mem, at, lost, packet, attested, resource, reverted, lapsed>>

\* _save: the whole checkpoint, with the window it already has or a new one.
SaveAction(a) ==
  LET checkpoint == [mem[a] EXCEPT !.retained = IF @ = "none" THEN "open" ELSE @]
  IN  /\ pc[a] = "save"
      /\ saved' = checkpoint
      /\ mem' = [mem EXCEPT ![a] = checkpoint]
      /\ at' = [at EXCEPT ![a] = @ + 1]
      /\ pc' = [pc EXCEPT ![a] = "run"]
      /\ UNCHANGED <<holder, lost, packet, attested, resource, reverted, lapsed>>

EndOffboard(a) ==
  /\ pc[a] = "run" /\ at[a] = NumActions + 1
  /\ pc' = [pc EXCEPT ![a] = "done"]
  /\ holder' = IF holder = a THEN None ELSE holder
  /\ UNCHANGED <<saved, mem, at, lost, packet, attested, resource, reverted, lapsed>>

-----------------------------------------------------------------------------
(* import-cleanup-handoff *)

BeginImport(a) ==
  /\ pc[a] = "new" /\ Command[a] = "import"
  /\ holder = None
  /\ holder' = a
  /\ pc' = [pc EXCEPT ![a] = "import"]
  /\ UNCHANGED <<saved, mem, at, lost, packet, attested, resource, reverted, lapsed>>

\* CleanupHandoffEvidenceImporter.import_packet: evidence for packet n closes
\* the action it is bound to; for a completed action it changes nothing, and
\* any other is refused.
ImportEvidence(a, i, n) ==
  /\ pc[a] = "import"
  /\ <<i, n>> \in attested
  /\ saved' = IF saved.handoffs[i] = n /\ saved.states[i] = "handed-off"
              THEN [saved EXCEPT !.states[i] = "complete"] ELSE saved
  /\ pc' = [pc EXCEPT ![a] = "done"]
  /\ holder' = IF holder = a THEN None ELSE holder
  /\ UNCHANGED <<mem, at, lost, packet, attested, resource, reverted, lapsed>>

-----------------------------------------------------------------------------
(* The operator, time and failures *)

\* The operator does the work of the packet in the file and attests it.
Attest(i) ==
  /\ packet[i] # 0 /\ <<i, packet[i]>> \notin attested
  /\ attested' = attested \cup {<<i, packet[i]>>}
  /\ Accept(i)
  /\ UNCHANGED <<saved, holder, pc, mem, at, lost, packet, reverted, lapsed>>

\* The work request of a removal ends: the resource is gone, or it is still there.
Removed(i) ==
  /\ resource[i] = "deleting"
  /\ resource' = [resource EXCEPT ![i] = "gone"]
  /\ UNCHANGED <<saved, holder, pc, mem, at, lost, packet, attested, reverted, lapsed>>

RemovalFails(i) ==
  /\ resource[i] = "deleting"
  /\ resource' = [resource EXCEPT ![i] = "live"]
  /\ reverted' = reverted \cup {i}
  /\ UNCHANGED <<saved, holder, pc, mem, at, lost, packet, attested, lapsed>>

\* Seven days pass between two commands.
WindowEnds ==
  /\ saved.retained = "open"
  /\ \A a \in Procs : pc[a] \in {"new", "done", "dead"}
  /\ saved' = [saved EXCEPT !.retained = "past"]
  /\ UNCHANGED <<holder, pc, mem, at, lost, packet, attested, resource, reverted, lapsed>>

\* A second command is refused while the lease is held.
Refuse(a) ==
  /\ pc[a] = "new" /\ holder # None
  /\ pc' = [pc EXCEPT ![a] = "done"]
  /\ UNCHANGED <<saved, holder, mem, at, lost, packet, attested, resource, reverted, lapsed>>

\* The process dies and its lease runs out.
Die(a) ==
  /\ pc[a] \in {"run", "call", "save", "import"}
  /\ pc' = [pc EXCEPT ![a] = "dead"]
  /\ holder' = IF holder = a THEN None ELSE holder
  /\ UNCHANGED <<saved, mem, at, lost, packet, attested, resource, reverted, lapsed>>

Lapse ==
  /\ MayLapse /\ holder # None
  /\ holder' = None
  /\ lapsed' = TRUE
  /\ UNCHANGED <<saved, pc, mem, at, lost, packet, attested, resource, reverted>>

\* The heartbeat finds the lease gone.
Notice(a) ==
  /\ pc[a] \in {"run", "call", "save"} /\ holder # a /\ ~lost[a]
  /\ lost' = [lost EXCEPT ![a] = TRUE]
  /\ UNCHANGED <<saved, holder, pc, mem, at, packet, attested, resource, reverted, lapsed>>

Step(a) ==
  \/ BeginOffboard(a) \/ Skip(a) \/ EnterCall(a) \/ Delete(a) \/ DeleteFails(a)
  \/ HandOff(a) \/ HandOffFenced(a) \/ PacketFails(a) \/ SaveAction(a) \/ EndOffboard(a)
  \/ BeginImport(a) \/ \E i \in Actions, n \in 1 .. MaxPackets : ImportEvidence(a, i, n)
  \/ Refuse(a) \/ Die(a) \/ Notice(a)

Next ==
  \/ \E a \in Procs : Step(a)
  \/ \E i \in Actions : Attest(i) \/ Removed(i) \/ RemovalFails(i)
  \/ WindowEnds \/ Lapse

Spec == Init /\ [][Next]_vars

-----------------------------------------------------------------------------
(* Properties *)

TypeOK ==
  /\ saved \in Checkpoint
  /\ holder \in Procs \cup {None}
  /\ pc \in [Procs -> PCs]
  /\ mem \in [Procs -> Checkpoint]
  /\ at \in [Procs -> 1 .. NumActions + 1]
  /\ lost \in [Procs -> BOOLEAN]
  /\ packet \in [Actions -> 0 .. MaxPackets]
  /\ attested \subseteq Actions \X (1 .. MaxPackets)
  /\ resource \in [Actions -> Resource]
  /\ reverted \subseteq Actions
  /\ lapsed \in BOOLEAN

\* An action is recorded complete only when its resource is gone, OCI has accepted to
\* remove it, or an operator attests that; whatever failed, was retried, crashed or
\* was fenced on the way.  That an accepted removal fails afterwards the checkpoint
\* never learns (CleanupExecutor, CleanupHandoffEvidenceImporter).
CompleteMeansAccepted ==
  \A i \in Actions :
    saved.states[i] = "complete" => resource[i] # "live" \/ i \in reverted

\* As long as every process keeps its lease, the packet bound to a handed-off
\* action is the one in its file, so that the operator's answer to it can be
\* imported: a restart never replaces it.
HandoffAnswerable ==
  \A i \in Actions :
    ~lapsed /\ saved.states[i] = "handed-off" =>
      saved.handoffs[i] = packet[i] /\ packet[i] # 0

\* A process whose heartbeat has seen the lease go does not save any more
\* (LeaseHeartbeat: "cannot ... persist a stale result").
LostLeaseNeverSaves ==
  [][\A a \in Procs : lost[a] /\ pc[a] = "save" /\ pc'[a] = "run" => FALSE]_vars

\* Evidence is dropped only after the whole plan is complete ("any incomplete
\* state retains its metadata", purge_expired_cleanup_evidence).
EvidenceKeptUntilTerminal ==
  [][saved.retained # "none" /\ saved'.retained = "none" => AllComplete(saved)]_vars
=============================================================================
