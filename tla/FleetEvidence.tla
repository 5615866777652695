---------------------------- MODULE FleetEvidence ----------------------------
(***************************************************************************)
(* When a target counts as READY: what validation concludes from the cloud *)
(* (validation.py, LifecycleOperations.validation), the signed packets of  *)
(* a hand-off and of collection evidence (fleet_handoff.py), and the       *)
(* verdict that fleet-status reports (fleet_status.py).                    *)
(*                                                                         *)
(* One target with two phases: "work", which is handed off until signed    *)
(* completion evidence is imported, and "validation".  The clock counts in *)
(* steps of which MaxAge make the 900 seconds evidence is fresh and Skew   *)
(* the 60 seconds a clock may be ahead.  Imports take the write lease that *)
(* a run holds; the resume command loads the manifest before it has it.    *)
(***************************************************************************)
EXTENDS Naturals, Sequences, FiniteSets

CONSTANTS
  Services,     \* the services selected for the target
  Facade,       \* those the OCI facade has an observation query for (none so far)
  Attempts,     \* insight_attempts
  MaxAge, Skew, MaxTime, MaxPackets, MaxEnvelopes,
  MaxEvents     \* commands and faults together

ServiceNames == {"dbm", "opsi", "datasafe", "logan"}

ASSUME EvidenceAssumption ==
  /\ Services \in SUBSET ServiceNames \ {{}} /\ Facade \subseteq {"dbm", "opsi", "logan"}
  /\ Attempts \in Nat \ {0, 1}
  /\ MaxAge \in Nat \ {0} /\ Skew \in Nat

VARIABLES
  now,
  cloud,       \* the last sample of each service (0: none), the insight, dbm
  target,      \* the target in the stored manifest
  command,     \* the resume command: where it is, what it has read
  packet,      \* the hand-off packet on disk, by its nonce, 0: none
  completions, \* the signed completions the operator holds
  envelopes,   \* the signed collection evidence the operator holds
  budget       \* the faults and the commands so far

vars == <<now, cloud, target, command, packet, completions, envelopes, budget>>

Proof == [service : ServiceNames, at : Nat]
CheckpointState == {"absent", "running", "complete", "handed-off", "failed", "retryable"}

\* ref is the handoff_ref of the "work" phase, owned the packets whose completion
\* added its OWNED resources.
TargetManifest ==
  [state : {"pending", "running", "complete", "failed", "handed-off"},
   readiness : {"configured", "collecting", "ready", "degraded", "handed-off"},
   work : CheckpointState, validation : CheckpointState,
   ref : Nat, proofs : SUBSET Proof, owned : SUBSET Nat]

NoCommand == [pc |-> "idle", retry |-> FALSE, copy |-> <<>>, proofs |-> {},
              tries |-> 0, clean |-> TRUE, absent |-> FALSE, finding |-> "none"]

\* The first packet is on disk and waits, or was answered, and the validation after
\* that may have failed.
Init ==
  /\ now = 1
  /\ cloud = [last |-> [s \in ServiceNames |-> 0], insight |-> "active", dbm |-> "enabled"]
  /\ completions = {} /\ envelopes = {}
  /\ packet = 1
  /\ \E at \in {<<"handed-off", "handed-off", "handed-off", "absent">>,
               <<"pending", "configured", "complete", "absent">>,
               <<"failed", "degraded", "complete", "failed">>} :
       target = [state |-> at[1], readiness |-> at[2], work |-> at[3],
                 validation |-> at[4], ref |-> 1, proofs |-> {}, owned |-> {}]
  /\ command = NoCommand
  /\ budget = [faults |-> 0, commands |-> 0]

held == <<completions, envelopes>>
Happens(what) ==
  /\ budget.commands + budget.faults < MaxEvents
  /\ budget' = [budget EXCEPT ![what] = @ + 1]

Fault == Happens("faults")
Running == command.pc \notin {"idle", "loaded", "copied"}

-----------------------------------------------------------------------------
(* The verdict *)

\* Mutant of FreshProofs: a proof never expires.
FreshProofsAny(proofs, t) == {p.service : p \in proofs}

\* The services with a proof that is not older than MaxAge and not from the future.
FreshProofs(proofs, t) ==
  {p.service : p \in {q \in proofs : q.at <= t + Skew /\ t <= q.at + MaxAge}}

\* A stored READY counts only as long as every selected service, which the proofs
\* themselves name, has a fresh proof.
Proven(m, t) ==
  m.readiness = "ready" /\ m.proofs # {} /\ Services \subseteq FreshProofs(m.proofs, t)

\* fleet_status._verdict
Verdict(m, t) ==
  CASE m.readiness \in {"handed-off", "degraded"}               -> m.readiness
    [] Proven(m, t)                                             -> "ready"
    [] "handed-off" \in {m.work, m.validation}                  -> "handed-off"
    [] "failed" \in {m.work, m.validation}                      -> "degraded"
    [] m.work = "complete"                                      -> "collecting"
    [] OTHER                                                    -> "configured"

\* refresh_collection_readiness: an expired READY reopens the validation.
Refreshed(m, t) ==
  IF m.readiness # "ready" \/ Proven(m, t) THEN m
  ELSE [m EXCEPT !.state = "pending", !.readiness = "collecting",
          !.validation = IF @ \in {"complete", "absent"} THEN "retryable" ELSE @]

\* reopen_failed on this target.
Reopened(m) ==
  IF m.state # "failed" THEN m
  ELSE [m EXCEPT !.state = "pending", !.readiness = "degraded",
          !.validation = IF @ = "failed" THEN "retryable" ELSE @]

Resumable(m) == m.state \in {"pending", "running", "handed-off"}

-----------------------------------------------------------------------------
(* resume *)

\* _cmd_resume takes the imported proofs from one read of the manifest, ...
Load(retry) ==
  /\ command.pc = "idle" /\ Happens("commands")
  /\ command' = [NoCommand EXCEPT !.pc = "loaded", !.retry = retry, !.proofs = target.proofs]
  /\ UNCHANGED <<now, cloud, target, packet, held>>

\* ... and execute its copy from another, before it has the lease.
Copy ==
  /\ command.pc = "loaded"
  /\ command' = [command EXCEPT !.pc = "copied", !.copy = Refreshed(target, now)]
  /\ UNCHANGED <<now, cloud, target, packet, held, budget>>

\* Nothing to do, or the copy becomes the manifest.
Begin ==
  LET m == IF command.retry THEN Reopened(command.copy) ELSE command.copy
  IN  /\ command.pc = "copied"
      /\ IF Resumable(m)
         THEN /\ target' = m
              /\ command' = [command EXCEPT !.copy = <<>>,
                   !.pc = IF m.work = "complete" THEN "validation" ELSE "work"]
         ELSE command' = NoCommand /\ UNCHANGED target
      /\ UNCHANGED <<now, cloud, packet, held, budget>>

\* The phase that needs an operator is entered again each time.
EnterWork ==
  /\ command.pc = "work"
  /\ target' = [target EXCEPT !.work = "running"]
  /\ command' = [command EXCEPT !.pc = "issue"]
  /\ UNCHANGED <<now, cloud, packet, held, budget>>

\* HandoffPacketWriter.write: a packet with a nonce of its own replaces the last.
Issue ==
  /\ command.pc = "issue" /\ packet < MaxPackets
  /\ packet' = packet + 1
  /\ command' = [command EXCEPT !.pc = "handoff"]
  /\ UNCHANGED <<now, cloud, target, held, budget>>

HandOff ==
  /\ command.pc = "handoff"
  /\ target' = [target EXCEPT !.work = "handed-off", !.ref = packet,
                  !.state = "handed-off", !.readiness = "handed-off"]
  /\ command' = NoCommand
  /\ UNCHANGED <<now, cloud, packet, held, budget>>

\* The process dies; what it has stored stays.
Crash ==
  /\ command.pc # "idle" /\ Fault
  /\ command' = NoCommand
  /\ UNCHANGED <<now, cloud, target, packet, held>>

-----------------------------------------------------------------------------
(* Validation *)

\* The plan need not have the id of the Ops Insights insight.
EnterValidation ==
  /\ command.pc = "validation"
  /\ target' = [target EXCEPT !.validation = "running"]
  /\ \E look \in {"get", "list"} :
       command' = [command EXCEPT !.pc = look, !.absent = cloud.insight = "none"]
  /\ UNCHANGED <<now, cloud, packet, held, budget>>

Conclude(finding) == command' = [command EXCEPT !.pc = "verdict", !.finding = finding]

\* _insight_state_by_id: without an answer the listing decides.
GetInsight ==
  /\ command.pc = "get"
  /\ \/ cloud.insight # "none" /\ Conclude(cloud.insight) /\ UNCHANGED budget
     \/ cloud.insight = "none" /\ command' = [command EXCEPT !.pc = "list"] /\ UNCHANGED budget
     \/ Fault /\ command' = [command EXCEPT !.pc = "list"]
  /\ UNCHANGED <<now, cloud, target, packet, held>>

\* One answer without the insight: clean tells whether it is complete, non-empty and
\* like the answers before it.
Missed(clean, enough) ==
  LET stays == command.clean /\ clean
  IN  IF command.tries + 1 < enough
      THEN command' = [command EXCEPT !.tries = @ + 1, !.clean = stays]
      ELSE Conclude(IF stays THEN "not_found" ELSE "unknown")

\* Mutant of ListInsights: one answer is enough.
ListInsightsOnce ==
  /\ command.pc = "list"
  /\ \/ cloud.insight # "none" /\ Conclude(cloud.insight) /\ UNCHANGED budget
     \/ cloud.insight = "none" /\ Missed(TRUE, 1) /\ UNCHANGED budget
     \/ Fault /\ \E clean \in BOOLEAN : Missed(clean, 1)
  /\ UNCHANGED <<now, cloud, target, packet, held>>

\* One attempt of _opsi_insight_state.  The listing flaps: it may be empty, fail, be
\* incomplete or leave entries out.
ListInsights ==
  /\ command.pc = "list"
  /\ \/ cloud.insight # "none" /\ Conclude(cloud.insight) /\ UNCHANGED budget
     \/ cloud.insight = "none" /\ Missed(TRUE, Attempts) /\ UNCHANGED budget
     \/ Fault /\ \E clean \in BOOLEAN : Missed(clean, Attempts)
  /\ UNCHANGED <<now, cloud, target, packet, held>>

\* collection_proofs: what the facade can observe.
Observed == {[service |-> s, at |-> cloud.last[s]] :
               s \in {x \in Services \cap Facade :
                        cloud.last[x] > 0 /\ now <= cloud.last[x] + MaxAge}}

\* The services the findings have a proof for: observations, imported proofs (every
\* one that is not of dbm or opsi reads like a Log Analytics result), and any
\* searchable record at all.
Marked ==
  {p.service : p \in Observed}
    \cup {IF s \in {"dbm", "opsi"} THEN s ELSE "logan" : s \in FreshProofs(command.proofs, now)}
    \cup (IF "logan" \in Services /\ cloud.last["logan"] > 0 THEN {"logan"} ELSE {})

\* collection_verdict: an insight that could not be read is worded "query_failed".
CollectionVerdict ==
  CASE command.finding \in {"failed", "unknown"} \/ cloud.dbm = "failed" -> "degraded"
    [] Services \subseteq Marked                                         -> "ready"
    [] OTHER                                                             -> "collecting"

\* The end of validation and of the target.
Validated ==
  /\ command.pc = "verdict"
  /\ target' = [target EXCEPT !.validation = "complete", !.state = "complete",
                  !.readiness = CollectionVerdict, !.proofs = @ \cup Observed]
  /\ command' = NoCommand
  /\ UNCHANGED <<now, cloud, packet, held, budget>>

\* Reading the database itself fails.
ValidationFails ==
  /\ command.pc \in {"get", "list", "verdict"} /\ Fault
  /\ target' = [target EXCEPT !.validation = "failed", !.state = "failed",
                  !.readiness = "degraded"]
  /\ command' = NoCommand
  /\ UNCHANGED <<now, cloud, packet, held>>

-----------------------------------------------------------------------------
(* Signed evidence *)

\* write_completion, for the packet on disk, while the phase waits for it.
Attest ==
  /\ target.work = "handed-off" /\ packet \notin completions
  /\ completions' = completions \cup {packet}
  /\ UNCHANGED <<now, cloud, target, command, packet, envelopes, budget>>

Completed(c) ==
  [target EXCEPT !.work = "complete", !.state = "pending", !.readiness = "configured",
     !.owned = @ \cup {c}]

\* HandoffEvidenceImporter: the phase waits, and for this very packet.
ImportHandoff(c) ==
  /\ ~Running /\ target.work = "handed-off" /\ target.ref = c
  /\ target' = Completed(c)
  /\ UNCHANGED <<now, cloud, command, packet, held, budget>>

\* Evidence for the last sample, by a signer whose clock may be ahead (of a sample too
\* old it would never be imported).
Sign(s, ahead) ==
  /\ cloud.last[s] > 0 /\ now <= cloud.last[s] + ahead + MaxAge
  /\ Cardinality(envelopes) < MaxEnvelopes
  /\ envelopes' = envelopes \cup {[service |-> s, at |-> cloud.last[s] + ahead]}
  /\ UNCHANGED <<now, cloud, target, command, packet, completions, budget>>

\* Mutant of Promoted: the phases need not be complete.
PromotedAnyway(m) ==
  IF Services \subseteq {p.service : p \in m.proofs} THEN [m EXCEPT !.readiness = "ready"] ELSE m

\* Evidence of every service, expired or not, makes a complete target READY.
Promoted(m) ==
  IF Services \subseteq {p.service : p \in m.proofs} /\ m.state = "complete"
  THEN [m EXCEPT !.readiness = "ready"] ELSE m

\* CollectionEvidenceImporter
ImportCollection(e) ==
  /\ ~Running /\ e.service \in Services
  /\ e.at <= now + Skew /\ now <= e.at + MaxAge
  /\ target' = Promoted([target EXCEPT !.proofs = @ \cup {e}])
  /\ UNCHANGED <<now, cloud, command, packet, held, budget>>

-----------------------------------------------------------------------------
(* The cloud *)

Tick ==
  /\ now < MaxTime /\ now' = now + 1
  /\ UNCHANGED <<cloud, target, command, packet, held, budget>>

Collect(s) ==
  /\ cloud.last[s] < now
  /\ cloud' = [cloud EXCEPT !.last[s] = now]
  /\ UNCHANGED <<now, target, command, packet, held, budget>>

\* An insight appears, fails or goes away, Database Management fails.
Changes ==
  /\ Fault
  /\ \/ \E i \in {"none", "active", "failed"} : i # cloud.insight /\ cloud' = [cloud EXCEPT !.insight = i]
     \/ cloud.dbm = "enabled" /\ cloud' = [cloud EXCEPT !.dbm = "failed"]
  /\ command' = [command EXCEPT !.absent = @ \/ (command.pc \in {"get", "list"} /\ cloud'.insight = "none")]
  /\ UNCHANGED <<now, target, packet, held>>

-----------------------------------------------------------------------------

Next ==
  \/ \E retry \in BOOLEAN : Load(retry)
  \/ Copy \/ Begin \/ EnterWork \/ Issue \/ HandOff \/ Crash
  \/ EnterValidation \/ GetInsight \/ ListInsights \/ Validated \/ ValidationFails
  \/ Attest \/ \E c \in completions : ImportHandoff(c)
  \/ \E s \in Services, ahead \in 0 .. Skew : Sign(s, ahead)
  \/ \E e \in envelopes : ImportCollection(e)
  \/ \E s \in Services : Collect(s)
  \/ Tick \/ Changes

Spec == Init /\ [][Next]_vars

-----------------------------------------------------------------------------
(* Properties *)

\* Every field of the state has its type.
TypeOK ==
  /\ target \in TargetManifest
  /\ packet \in 0 .. MaxPackets /\ target.ref <= packet /\ target.owned \subseteq 1 .. packet

\* What fleet-status reports as ready has been collected: every selected service has
\* had a sample within the 900 seconds, give or take the skew, however late and in
\* which order evidence was signed, imported, replayed or expired, and whatever
\* readiness the manifest stores (fleet_handoff.py:325, fleet_status.py:46-85).
ReadyMeansCollected ==
  Verdict(target, now) = "ready" =>
    \A s \in Services : cloud.last[s] > 0 /\ now <= cloud.last[s] + MaxAge + Skew

\* Evidence never promotes a target over a phase that is still to be done or handed
\* off (fleet_handoff.py:322-325: "Preserve an in-flight target's execution state").
ReadyMeansConfigured ==
  Verdict(target, now) = "ready" => target.work = "complete" /\ target.validation = "complete"

\* validation.py "never a false NOT_FOUND": the insight was absent at some time of
\* the look, as long as the listing is not wrong in every attempt.
NoFalseNotFound ==
  command.finding = "not_found" => command.absent \/ budget.faults >= Attempts

\* README.md, "degraded": "A phase failed or current evidence reports a degraded
\* condition".
DegradedHasCause ==
  [][target.readiness # "degraded" /\ target'.readiness = "degraded" =>
       \/ "failed" \in {target'.work, target'.validation}
       \/ cloud.insight = "failed" \/ cloud.dbm = "failed"]_vars
=============================================================================
