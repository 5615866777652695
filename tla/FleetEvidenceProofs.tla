-------------------------- MODULE FleetEvidenceProofs --------------------------
(***************************************************************************)
(* What a verdict of fleet-status is worth, for every set of services,     *)
(* every age and every number of packets, proofs and commands.             *)
(*                                                                         *)
(* A target reported ready has both its phases complete: the readiness of  *)
(* the manifest is only as good as its state, and a state "complete" must  *)
(* not survive the start of a run (SoundTarget, SoundRun).  It has been    *)
(* collected: a proof is of a sample there was, wherever it is kept, and   *)
(* it does not matter when it was signed or imported (Genuine).  And an    *)
(* insight is reported missing only if it was, or the listing was wrong in *)
(* every attempt: attempts are paid for by faults (LookInv).               *)
(***************************************************************************)
EXTENDS FleetEvidence, TLAPS

Fields == {"state", "readiness", "work", "validation", "ref", "proofs", "owned"}

\* A stored READY is a complete target, and a complete target has its phases.
SoundTarget(m) ==
  /\ Fields \subseteq DOMAIN m
  /\ m.readiness = "ready" => m.state = "complete"
  /\ m.state = "complete" => m.work = "complete" /\ m.validation = "complete"

InWork == {"work", "issue", "handoff"}
InValidation == {"validation", "get", "list", "verdict"}

\* A run works on a target that is not complete, and validates one whose work is.
SoundRun ==
  /\ {"pc", "copy"} \subseteq DOMAIN command
  /\ command.pc \in {"idle", "loaded", "copied"} \cup InWork \cup InValidation
  /\ command.pc = "copied" => SoundTarget(command.copy)
  /\ command.pc \in InWork \cup InValidation => target.state # "complete"
  /\ command.pc \in InValidation => target.work = "complete"

EvidenceInv == SoundTarget(target) /\ SoundRun

\* Reopening an expired READY leaves no complete target behind
\* (refresh_collection_readiness).
LEMMA RefreshedSound ==
  ASSUME NEW m, NEW t, SoundTarget(m)
  PROVE  SoundTarget(Refreshed(m, t))
  BY DEF SoundTarget, Refreshed, Fields

\* Nor does reopening a failed one (reopen_failed).
LEMMA ReopenedSound ==
  ASSUME NEW m, SoundTarget(m)
  PROVE  SoundTarget(Reopened(m))
  BY DEF SoundTarget, Reopened, Fields

\* Collection evidence makes only a complete target READY.
LEMMA PromotedSound ==
  ASSUME NEW m, SoundTarget(m)
  PROVE  SoundTarget(Promoted(m)) /\ Promoted(m).state = m.state
  BY DEF SoundTarget, Promoted, Fields

\* Every target of Init waits, is pending or has failed.
LEMMA EvidenceInit == Init => EvidenceInv
  BY DEF Init, EvidenceInv, SoundTarget, SoundRun, NoCommand, Fields, InWork, InValidation

\* Every step of a command, an import or the cloud keeps the invariant.
LEMMA EvidenceStep == EvidenceInv /\ [Next]_vars => EvidenceInv'
<1> SUFFICES ASSUME EvidenceInv, [Next]_vars PROVE EvidenceInv'
  OBVIOUS
<1> USE DEF EvidenceInv, SoundRun, InWork, InValidation
<1>1. ASSUME NEW retry \in BOOLEAN, Load(retry) PROVE EvidenceInv'
  BY <1>1 DEF Load, NoCommand
<1>2. CASE Copy
  <2>1. SoundTarget(command'.copy)
    BY <1>2, RefreshedSound DEF Copy
  <2>2. QED
    BY <1>2, <2>1 DEF Copy
<1>3. CASE Begin
  <2> DEFINE m == IF command.retry THEN Reopened(command.copy) ELSE command.copy
  <2>1. SoundTarget(m)
    BY <1>3, ReopenedSound DEF Begin
  <2>2. \/ /\ Resumable(m) /\ target' = m
           /\ DOMAIN command' = DOMAIN command
           /\ command'.pc = IF m.work = "complete" THEN "validation" ELSE "work"
        \/ command' = NoCommand /\ UNCHANGED target
    BY <1>3 DEF Begin
  <2> HIDE DEF m
  <2>3. CASE command' = NoCommand /\ UNCHANGED target
    BY <2>3 DEF NoCommand
  <2>4. CASE /\ Resumable(m) /\ target' = m
             /\ DOMAIN command' = DOMAIN command
             /\ command'.pc = IF m.work = "complete" THEN "validation" ELSE "work"
    <3>1. m.state # "complete"
      BY <2>4 DEF Resumable
    <3>2. QED
      BY <2>1, <2>4, <3>1
  <2>5. QED
    BY <2>2, <2>3, <2>4
<1>4. CASE EnterWork
  <2>1. /\ target'.state = target.state /\ target'.readiness = target.readiness
        /\ DOMAIN target' = DOMAIN target
    BY <1>4 DEF EnterWork, SoundTarget, Fields
  <2>2. command'.pc = "issue" /\ DOMAIN command' = DOMAIN command /\ target.state # "complete"
    BY <1>4 DEF EnterWork
  <2>3. QED
    BY <2>1, <2>2 DEF SoundTarget
<1>5. CASE Issue
  BY <1>5 DEF Issue
<1>6. CASE HandOff
  BY <1>6 DEF HandOff, SoundTarget, Fields, NoCommand
<1>7. CASE Crash
  BY <1>7 DEF Crash, NoCommand
<1>8. CASE EnterValidation
  <2>1. /\ target'.state = target.state /\ target'.readiness = target.readiness
        /\ target'.work = target.work /\ DOMAIN target' = DOMAIN target
    BY <1>8 DEF EnterValidation, SoundTarget, Fields
  <2>2. command'.pc \in {"get", "list"} /\ DOMAIN command' = DOMAIN command
    BY <1>8 DEF EnterValidation
  <2>3. command.pc = "validation"
    BY <1>8 DEF EnterValidation
  <2>4. QED
    BY <2>1, <2>2, <2>3 DEF SoundTarget
<1>9. CASE GetInsight \/ ListInsights
  <2>1. /\ command'.pc \in {"list", "verdict"} /\ DOMAIN command' = DOMAIN command
        /\ command.pc \in InValidation /\ UNCHANGED target
    BY <1>9 DEF GetInsight, ListInsights, Missed, Conclude
  <2>2. QED
    BY <2>1
<1>10. CASE Validated
  <2>1. /\ target'.work = target.work /\ target'.validation = "complete"
        /\ target'.state = "complete" /\ DOMAIN target' = DOMAIN target
    BY <1>10 DEF Validated, SoundTarget, Fields
  <2>2. target.work = "complete" /\ command' = NoCommand
    BY <1>10 DEF Validated
  <2>3. QED
    BY <2>1, <2>2 DEF SoundTarget, NoCommand
<1>11. CASE ValidationFails
  BY <1>11 DEF ValidationFails, SoundTarget, Fields, NoCommand
<1>12. ASSUME NEW c, ImportHandoff(c) PROVE EvidenceInv'
  BY <1>12 DEF ImportHandoff, Completed, Running, SoundTarget, Fields
<1>13. ASSUME NEW e, ImportCollection(e) PROVE EvidenceInv'
  <2> DEFINE m == [target EXCEPT !.proofs = @ \cup {e}]
  <2>1. SoundTarget(m) /\ m.state = target.state
    BY DEF SoundTarget, Fields
  <2>2. target' = Promoted(m) /\ ~Running /\ UNCHANGED command
    BY <1>13 DEF ImportCollection
  <2> HIDE DEF m
  <2>3. SoundTarget(target')
    BY <2>1, <2>2, PromotedSound
  <2>4. QED
    BY <2>2, <2>3 DEF Running
<1>14. CASE Changes
  <2>1. DOMAIN command' = DOMAIN command /\ command'.pc = command.pc
        /\ command'.copy = command.copy /\ UNCHANGED target
    BY <1>14 DEF Changes
  <2>2. QED
    BY <2>1
<1>15. CASE UNCHANGED <<target, command>>
  BY <1>15
<1>16. \/ \E retry \in BOOLEAN : Load(retry)
       \/ Copy \/ Begin \/ EnterWork \/ Issue \/ HandOff \/ Crash
       \/ EnterValidation \/ GetInsight \/ ListInsights \/ Validated \/ ValidationFails
       \/ \E c \in completions : ImportHandoff(c)
       \/ \E e \in envelopes : ImportCollection(e)
       \/ Changes \/ UNCHANGED <<target, command>>
  BY DEF Next, vars, Attest, Sign, Tick, Collect
<1>17. QED
  BY <1>1, <1>2, <1>3, <1>4, <1>5, <1>6, <1>7, <1>8, <1>9, <1>10, <1>11, <1>12, <1>13,
     <1>14, <1>15, <1>16

\* What fleet-status reports as ready has its work and its validation complete: signed
\* evidence never promotes a target over a phase that is handed off or to be done.
THEOREM EvidenceReadyMeansConfigured == Spec => []ReadyMeansConfigured
<1>1. EvidenceInv => ReadyMeansConfigured
  BY DEF EvidenceInv, SoundTarget, ReadyMeansConfigured, Verdict, Proven
<1>2. QED
  BY <1>1, EvidenceInit, EvidenceStep, PTL DEF Spec

-----------------------------------------------------------------------------
(* Ready means collected *)

\* A proof is of a sample that was taken, by a clock that is at most Skew ahead.
Genuine(p) ==
  /\ p.service \in ServiceNames /\ p.at \in Nat
  /\ cloud.last[p.service] > 0 /\ p.at <= cloud.last[p.service] + Skew

\* So are those in the manifest, in the copy of a command, and in the operator's
\* hands.
CollectionInv ==
  /\ now \in Nat /\ "last" \in DOMAIN cloud /\ cloud.last \in [ServiceNames -> Nat]
  /\ Fields \subseteq DOMAIN target /\ {"pc", "copy"} \subseteq DOMAIN command
  /\ \A p \in target.proofs : Genuine(p)
  /\ \A p \in envelopes : Genuine(p)
  /\ command.pc = "copied" =>
       /\ Fields \subseteq DOMAIN command.copy
       /\ \A p \in command.copy.proofs : Genuine(p)

\* There are no proofs at first.
LEMMA CollectionInit == Init => CollectionInv
  BY DEF Init, CollectionInv, NoCommand, Fields, ServiceNames

\* Reopening and promoting leave the proofs as they are
\* (refresh_collection_readiness, reopen_failed, CollectionEvidenceImporter).
LEMMA ProofsStay ==
  ASSUME NEW m, NEW t, Fields \subseteq DOMAIN m
  PROVE  /\ Fields \subseteq DOMAIN Refreshed(m, t) /\ Refreshed(m, t).proofs = m.proofs
         /\ Fields \subseteq DOMAIN Reopened(m) /\ Reopened(m).proofs = m.proofs
         /\ Fields \subseteq DOMAIN Promoted(m) /\ Promoted(m).proofs = m.proofs
<1>1. Fields \subseteq DOMAIN Refreshed(m, t) /\ Refreshed(m, t).proofs = m.proofs
  BY DEF Refreshed, Fields
<1>2. Fields \subseteq DOMAIN Reopened(m) /\ Reopened(m).proofs = m.proofs
  BY DEF Reopened, Fields
<1>3. Fields \subseteq DOMAIN Promoted(m) /\ Promoted(m).proofs = m.proofs
  BY DEF Promoted, Fields
<1> QED
  BY <1>1, <1>2, <1>3

\* What the facade observes is a sample.
LEMMA ObservedGenuine ==
  ASSUME CollectionInv, NEW p \in Observed
  PROVE  Genuine(p)
<1>1. PICK s \in Services : /\ p = [service |-> s, at |-> cloud.last[s]]
                            /\ cloud.last[s] > 0
  BY DEF Observed
<1>2. s \in ServiceNames /\ cloud.last[s] \in Nat /\ Skew \in Nat
  BY EvidenceAssumption DEF CollectionInv
<1>3. p.service = s /\ p.at = cloud.last[s]
  BY <1>1
<1> QED
  BY <1>1, <1>2, <1>3 DEF Genuine

\* A step that takes no sample keeps the invariant, if what it adds is genuine.
LEMMA CollectionCarried ==
  ASSUME CollectionInv, now' \in Nat, cloud'.last = cloud.last, "last" \in DOMAIN cloud',
         Fields \subseteq DOMAIN target', {"pc", "copy"} \subseteq DOMAIN command',
         \A p \in target'.proofs : Genuine(p),
         \A p \in envelopes' : Genuine(p),
         command'.pc = "copied" =>
           /\ Fields \subseteq DOMAIN command'.copy
           /\ \A p \in command'.copy.proofs : Genuine(p)
  PROVE  CollectionInv'
<1>1. \A p : Genuine(p) => Genuine(p)'
  BY DEF Genuine
<1> QED
  BY <1>1 DEF CollectionInv

\* Every step keeps the proofs genuine.
LEMMA CollectionStep == CollectionInv /\ [Next]_vars => CollectionInv'
<1> SUFFICES ASSUME CollectionInv, [Next]_vars PROVE CollectionInv'
  OBVIOUS
<1>f. /\ now \in Nat /\ "last" \in DOMAIN cloud /\ cloud.last \in [ServiceNames -> Nat]
      /\ Fields \subseteq DOMAIN target /\ {"pc", "copy"} \subseteq DOMAIN command
      /\ \A p \in target.proofs : Genuine(p)
      /\ \A p \in envelopes : Genuine(p)
      /\ command.pc = "copied" =>
           /\ Fields \subseteq DOMAIN command.copy
           /\ \A p \in command.copy.proofs : Genuine(p)
  BY DEF CollectionInv
<1>a. ASSUME UNCHANGED <<now, cloud, envelopes>>, command'.pc # "copied",
             {"pc", "copy"} \subseteq DOMAIN command', Fields \subseteq DOMAIN target',
             target'.proofs = target.proofs
      PROVE  CollectionInv'
  BY <1>a, <1>f, CollectionCarried
<1>1. ASSUME NEW retry \in BOOLEAN, Load(retry) PROVE CollectionInv'
  BY <1>1, <1>a, <1>f DEF Load, NoCommand, held
<1>2. CASE Copy
  <2>1. /\ UNCHANGED <<now, cloud, target, envelopes>>
        /\ command'.copy = Refreshed(target, now)
        /\ {"pc", "copy"} \subseteq DOMAIN command'
    BY <1>2, <1>f DEF Copy, held
  <2>2. /\ Fields \subseteq DOMAIN command'.copy
        /\ \A p \in command'.copy.proofs : Genuine(p)
    BY <2>1, <1>f, ProofsStay
  <2> QED
    BY <2>1, <2>2, <1>f, CollectionCarried
<1>3. CASE Begin
  <2> DEFINE m == IF command.retry THEN Reopened(command.copy) ELSE command.copy
  <2>1. Fields \subseteq DOMAIN m /\ \A p \in m.proofs : Genuine(p)
    <3>1. /\ Fields \subseteq DOMAIN command.copy
          /\ \A p \in command.copy.proofs : Genuine(p)
      BY <1>3, <1>f DEF Begin
    <3> QED
      BY <3>1, ProofsStay
  <2>2. /\ UNCHANGED <<now, cloud, envelopes>>
        /\ \/ /\ target' = m
              /\ \E l \in {"validation", "work"} :
                   command' = [command EXCEPT !.copy = <<>>, !.pc = l]
           \/ command' = NoCommand /\ target' = target
    BY <1>3 DEF Begin, held
  <2> HIDE DEF m
  <2>3. command'.pc # "copied" /\ {"pc", "copy"} \subseteq DOMAIN command'
    <3>1. ASSUME NEW l \in {"validation", "work"},
                 command' = [command EXCEPT !.copy = <<>>, !.pc = l]
          PROVE  command'.pc # "copied" /\ {"pc", "copy"} \subseteq DOMAIN command'
      BY <3>1, <1>f
    <3>2. CASE command' = NoCommand
      BY <3>2 DEF NoCommand
    <3> QED
      BY <2>2, <3>1, <3>2
  <2> QED
    BY <2>1, <2>2, <2>3, <1>f, CollectionCarried
<1>4. CASE EnterWork \/ HandOff \/ EnterValidation \/ ValidationFails
  <2>1. Fields \subseteq DOMAIN target' /\ target'.proofs = target.proofs
    BY <1>4, <1>f DEF EnterWork, HandOff, EnterValidation, ValidationFails, Fields
  <2>2. command'.pc # "copied" /\ {"pc", "copy"} \subseteq DOMAIN command'
    <3>1. CASE EnterWork
      BY <3>1, <1>f DEF EnterWork
    <3>2. CASE HandOff \/ ValidationFails
      BY <3>2 DEF HandOff, ValidationFails, NoCommand
    <3>3. CASE EnterValidation
      <4>1. PICK look \in {"get", "list"} :
              command' = [command EXCEPT !.pc = look, !.absent = cloud.insight = "none"]
        BY <3>3 DEF EnterValidation
      <4> QED
        BY <4>1, <1>f
    <3> QED
      BY <1>4, <3>1, <3>2, <3>3
  <2>3. UNCHANGED <<now, cloud, envelopes>>
    BY <1>4 DEF EnterWork, HandOff, EnterValidation, ValidationFails, held
  <2> QED
    BY <2>1, <2>2, <2>3, <1>a
<1>5. CASE Issue \/ Crash
  <2>1. command'.pc # "copied" /\ {"pc", "copy"} \subseteq DOMAIN command'
    BY <1>5, <1>f DEF Issue, Crash, NoCommand
  <2>2. UNCHANGED <<now, cloud, target, envelopes>>
    BY <1>5 DEF Issue, Crash, held
  <2> QED
    BY <2>1, <2>2, <1>f, <1>a
<1>6. CASE GetInsight \/ ListInsights
  BY <1>6, <1>a, <1>f DEF GetInsight, ListInsights, Missed, Conclude, held
<1>7. CASE Validated
  <2>1. /\ UNCHANGED <<now, cloud, envelopes>> /\ command' = NoCommand
        /\ Fields \subseteq DOMAIN target'
        /\ target'.proofs = target.proofs \cup Observed
    BY <1>7, <1>f DEF Validated, Fields, held
  <2>2. \A p \in target'.proofs : Genuine(p)
    BY <2>1, <1>f, ObservedGenuine
  <2>3. {"pc", "copy"} \subseteq DOMAIN command' /\ command'.pc # "copied"
    BY <2>1 DEF NoCommand
  <2> QED
    BY <2>1, <2>2, <2>3, <1>f, CollectionCarried
<1>8. ASSUME NEW c, ImportHandoff(c) PROVE CollectionInv'
  <2>1. /\ UNCHANGED <<now, cloud, envelopes, command>>
        /\ Fields \subseteq DOMAIN target' /\ target'.proofs = target.proofs
    BY <1>8, <1>f DEF ImportHandoff, Completed, Fields, held
  <2> QED
    BY <2>1, <1>f, CollectionCarried
<1>9. ASSUME NEW e \in envelopes, ImportCollection(e) PROVE CollectionInv'
  <2> DEFINE m == [target EXCEPT !.proofs = @ \cup {e}]
  <2>1. Fields \subseteq DOMAIN m /\ m.proofs = target.proofs \cup {e}
    BY <1>f DEF Fields
  <2>2. target' = Promoted(m) /\ UNCHANGED <<now, cloud, envelopes, command>>
    BY <1>9 DEF ImportCollection, held
  <2> HIDE DEF m
  <2>3. Fields \subseteq DOMAIN target' /\ target'.proofs = target.proofs \cup {e}
    BY <2>1, <2>2, ProofsStay
  <2> QED
    BY <2>2, <2>3, <1>f, CollectionCarried
<1>10. ASSUME NEW s \in Services, NEW ahead \in 0 .. Skew, Sign(s, ahead)
       PROVE  CollectionInv'
  <2> DEFINE e == [service |-> s, at |-> cloud.last[s] + ahead]
  <2>1. Genuine(e)
    <3>1. s \in ServiceNames /\ cloud.last[s] \in Nat /\ Skew \in Nat /\ ahead \in Nat
      BY <1>f, EvidenceAssumption
    <3>2. e.service = s /\ e.at = cloud.last[s] + ahead /\ cloud.last[s] > 0
      BY <1>10 DEF Sign
    <3> QED
      BY <3>1, <3>2 DEF Genuine
  <2>2. envelopes' = envelopes \cup {e} /\ UNCHANGED <<now, cloud, target, command>>
    BY <1>10 DEF Sign
  <2> HIDE DEF e
  <2> QED
    BY <2>1, <2>2, <1>f, CollectionCarried
<1>11. ASSUME NEW s \in Services, Collect(s) PROVE CollectionInv'
  <2>1. /\ UNCHANGED <<now, target, command, envelopes>>
        /\ "last" \in DOMAIN cloud' /\ cloud'.last \in [ServiceNames -> Nat]
        /\ \A r \in ServiceNames : cloud.last[r] <= cloud'.last[r]
    BY <1>11, <1>f, EvidenceAssumption DEF Collect, held
  <2>2. \A p : Genuine(p) => Genuine(p)'
    <3> SUFFICES ASSUME NEW p, Genuine(p) PROVE Genuine(p)'
      OBVIOUS
    <3>1. cloud.last[p.service] <= cloud'.last[p.service] /\ Skew \in Nat
      BY <2>1, EvidenceAssumption DEF Genuine
    <3>2. cloud.last[p.service] \in Nat /\ cloud'.last[p.service] \in Nat
      BY <1>f, <2>1 DEF Genuine
    <3> QED
      BY <3>1, <3>2 DEF Genuine
  <2> QED
    BY <2>1, <2>2, <1>f DEF CollectionInv
<1>12. CASE Tick
  BY <1>12, <1>f, CollectionCarried DEF Tick, held
<1>13. CASE Changes
  <2>1. /\ UNCHANGED <<now, target, envelopes>> /\ cloud'.last = cloud.last
        /\ "last" \in DOMAIN cloud' /\ {"pc", "copy"} \subseteq DOMAIN command'
        /\ command'.pc = command.pc /\ command'.copy = command.copy
    BY <1>13, <1>f DEF Changes, held
  <2> QED
    BY <2>1, <1>f, CollectionCarried
<1>14. CASE Attest \/ UNCHANGED vars
  BY <1>14, <1>f, CollectionCarried DEF Attest, vars
<1> QED
  BY <1>1, <1>2, <1>3, <1>4, <1>5, <1>6, <1>7, <1>8, <1>9, <1>10, <1>11, <1>12, <1>13,
     <1>14 DEF Next

\* What fleet-status reports as ready has been collected: a ready verdict rests on a
\* fresh proof of every service, and a proof on a sample.
THEOREM EvidenceReadyMeansCollected == Spec => []ReadyMeansCollected
<1>1. CollectionInv => ReadyMeansCollected
  <2> SUFFICES ASSUME CollectionInv, Verdict(target, now) = "ready", NEW s \in Services
               PROVE  cloud.last[s] > 0 /\ now <= cloud.last[s] + MaxAge + Skew
    BY DEF ReadyMeansCollected
  <2>1. Proven(target, now)
    BY DEF Verdict, Proven
  <2>2. PICK p \in target.proofs : p.service = s /\ now <= p.at + MaxAge
    BY <2>1 DEF Proven, FreshProofs
  <2>3. Genuine(p) /\ now \in Nat /\ MaxAge \in Nat /\ Skew \in Nat /\ cloud.last[s] \in Nat
    BY EvidenceAssumption DEF CollectionInv
  <2> QED
    BY <2>2, <2>3 DEF Genuine
<1> QED
  BY <1>1, CollectionInit, CollectionStep, PTL DEF Spec

-----------------------------------------------------------------------------
(* No insight is missed that is there *)

CommandFields == {"pc", "copy", "proofs", "tries", "clean", "absent", "finding", "retry"}

\* While a command looks for an insight that has been there all along, each of its
\* attempts has cost a fault.
LookInv ==
  /\ "faults" \in DOMAIN budget /\ budget.faults \in Nat
  /\ "insight" \in DOMAIN cloud /\ cloud.insight \in {"none", "active", "failed"}
  /\ CommandFields \subseteq DOMAIN command /\ command.tries \in Nat
  /\ command.pc # "verdict" => command.finding = "none"
  /\ command.pc \notin {"get", "list", "verdict"} => command.tries = 0
  /\ command.pc \in {"get", "list"} /\ ~command.absent =>
       cloud.insight # "none" /\ command.tries <= budget.faults
  /\ NoFalseNotFound

\* Nobody looks at first.
LEMMA LookInit == Init => LookInv
  BY DEF Init, LookInv, NoCommand, CommandFields, NoFalseNotFound

\* Every step keeps it.
LEMMA LookStep == LookInv /\ [Next]_vars => LookInv'
<1> SUFFICES ASSUME LookInv, [Next]_vars PROVE LookInv'
  OBVIOUS
<1> USE DEF LookInv, CommandFields, NoFalseNotFound
<1>a. Attempts \in Nat
  BY EvidenceAssumption
<1>b. /\ Fault => /\ "faults" \in DOMAIN budget' /\ budget'.faults \in Nat
                  /\ budget'.faults = budget.faults + 1
      /\ Happens("commands") => /\ "faults" \in DOMAIN budget'
                                /\ budget'.faults = budget.faults
  BY DEF Happens, Fault
<1>c. ASSUME command' = NoCommand, UNCHANGED cloud, UNCHANGED budget \/ Fault
      PROVE  LookInv'
  BY <1>a, <1>b, <1>c DEF NoCommand
<1>1. ASSUME NEW retry \in BOOLEAN, Load(retry) PROVE LookInv'
  BY <1>1, <1>b DEF Load, NoCommand
<1>2. CASE Copy \/ EnterWork \/ Issue
  BY <1>2 DEF Copy, EnterWork, Issue
<1>3. CASE Begin
  <2>1. UNCHANGED <<cloud, budget>>
    BY <1>3 DEF Begin
  <2>2. CASE command' = NoCommand
    BY <2>1, <2>2, <1>c
  <2>3. ASSUME NEW l \in {"validation", "work"},
               command' = [command EXCEPT !.copy = <<>>, !.pc = l]
        PROVE  LookInv'
    BY <1>3, <2>1, <2>3 DEF Begin
  <2> QED
    BY <1>3, <2>2, <2>3 DEF Begin
<1>4. CASE HandOff \/ Validated
  BY <1>4, <1>c DEF HandOff, Validated
<1>5. CASE Crash \/ ValidationFails
  BY <1>5, <1>c DEF Crash, ValidationFails
<1>6. CASE EnterValidation
  <2>1. /\ command'.pc \in {"get", "list"}
        /\ command'.absent = (cloud.insight = "none")
        /\ command'.tries = 0 /\ command'.finding = "none"
        /\ DOMAIN command' = DOMAIN command
    BY <1>6 DEF EnterValidation
  <2>2. UNCHANGED <<cloud, budget>>
    BY <1>6 DEF EnterValidation
  <2>3. ~command'.absent => cloud.insight # "none"
    BY <2>1, Zenon
  <2>4. budget.faults >= 0 /\ command'.tries \in Nat /\ command'.tries <= budget.faults
    BY <2>1
  <2> QED
    BY <2>1, <2>2, <2>3, <2>4
<1>7. ASSUME Conclude(cloud.insight), cloud.insight # "none", UNCHANGED <<cloud, budget>>
      PROVE  LookInv'
  BY <1>7 DEF Conclude
<1>8. CASE GetInsight
  <2>1. ASSUME command' = [command EXCEPT !.pc = "list"], UNCHANGED cloud,
               UNCHANGED budget \/ Fault, command.pc = "get"
        PROVE  LookInv'
    BY <2>1, <1>a, <1>b
  <2> QED
    BY <1>7, <1>8, <2>1 DEF GetInsight
<1>9. ASSUME NEW clean \in BOOLEAN, Missed(clean, Attempts), command.pc = "list",
             UNCHANGED cloud,
             (cloud.insight = "none" /\ UNCHANGED budget) \/ Fault
      PROVE  LookInv'
  <2>1. /\ budget'.faults \in Nat /\ "faults" \in DOMAIN budget'
        /\ budget.faults <= budget'.faults
        /\ ~command.absent => budget'.faults = budget.faults + 1
    BY <1>9, <1>b
  <2>2. CASE command.tries + 1 < Attempts
    <3>1. command' = [command EXCEPT !.tries = @ + 1, !.clean = command.clean /\ clean]
      BY <1>9, <2>2 DEF Missed
    <3>2. /\ command'.tries = command.tries + 1 /\ command'.pc = "list"
          /\ command'.absent = command.absent /\ command'.finding = "none"
          /\ DOMAIN command' = DOMAIN command
      BY <3>1, <1>9
    <3>3. ~command'.absent => cloud'.insight # "none" /\ command'.tries <= budget'.faults
      BY <3>2, <1>9, <2>1
    <3> QED
      BY <3>2, <3>3, <2>1, <1>9
  <2>3. CASE ~(command.tries + 1 < Attempts)
    <3>1. PICK finding \in {"not_found", "unknown"} : Conclude(finding)
      BY <1>9, <2>3 DEF Missed
    <3>2. command.absent \/ budget'.faults >= Attempts
      BY <1>a, <1>9, <2>1, <2>3
    <3> QED
      BY <1>9, <2>1, <3>1, <3>2 DEF Conclude
  <2> QED
    BY <2>2, <2>3
<1>10. CASE ListInsights
  BY <1>7, <1>9, <1>10 DEF ListInsights
<1>11. CASE Changes
  <2>1. /\ "insight" \in DOMAIN cloud' /\ cloud'.insight \in {"none", "active", "failed"}
        /\ Fault
    BY <1>11 DEF Changes
  <2>2. command' = [command EXCEPT !.absent =
           @ \/ (command.pc \in {"get", "list"} /\ cloud'.insight = "none")]
    BY <1>11 DEF Changes
  <2>3. /\ command'.pc = command.pc /\ command'.tries = command.tries
        /\ command'.finding = command.finding /\ DOMAIN command' = DOMAIN command
        /\ command'.absent = (command.absent \/
             (command.pc \in {"get", "list"} /\ cloud'.insight = "none"))
    BY <2>2
  <2>4. /\ command.absent => command'.absent
        /\ command.pc \in {"get", "list"} /\ ~command'.absent =>
             ~command.absent /\ cloud'.insight # "none"
    BY <2>3, Zenon
  <2> HIDE DEF LookInv
  <2>5. /\ budget'.faults \in Nat /\ "faults" \in DOMAIN budget'
        /\ budget'.faults = budget.faults + 1 /\ budget.faults \in Nat
        /\ command.tries \in Nat
    BY <2>1, <1>b DEF LookInv
  <2>6. command'.pc \in {"get", "list"} /\ ~command'.absent =>
          cloud'.insight # "none" /\ command'.tries <= budget'.faults
    BY <2>3, <2>4, <2>5 DEF LookInv
  <2>7. NoFalseNotFound'
    BY <1>a, <2>3, <2>4, <2>5 DEF LookInv
  <2> QED
    BY <2>1, <2>3, <2>5, <2>6, <2>7 DEF LookInv
<1>12. ASSUME NEW s \in Services, Collect(s) PROVE LookInv'
  BY <1>12 DEF Collect
<1>13. CASE UNCHANGED <<cloud, command, budget>>
  BY <1>13
<1>14. \/ \E retry \in BOOLEAN : Load(retry)
       \/ Copy \/ Begin \/ EnterWork \/ Issue \/ HandOff \/ Crash
       \/ EnterValidation \/ GetInsight \/ ListInsights \/ Validated \/ ValidationFails
       \/ \E s \in Services : Collect(s)
       \/ Changes \/ UNCHANGED <<cloud, command, budget>>
  BY DEF Next, vars, Attest, Sign, Tick, ImportHandoff, ImportCollection
<1> QED
  BY <1>1, <1>2, <1>3, <1>4, <1>5, <1>6, <1>8, <1>10, <1>11, <1>12, <1>13, <1>14

\* validation.py: "never a false NOT_FOUND".  An insight that was there all the time
\* is reported missing only after a fault in each attempt.
THEOREM EvidenceNoFalseNotFound == Spec => []NoFalseNotFound
<1>1. LookInv => NoFalseNotFound
  BY DEF LookInv
<1> QED
  BY <1>1, LookInit, LookStep, PTL DEF Spec
=============================================================================
