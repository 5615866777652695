-------------------------- MODULE FleetCleanupProofs ---------------------------
(***************************************************************************)
(* The cleanup checkpoint never claims what has not happened, for every    *)
(* plan, every number of processes and packets, and with leases lost under *)
(* their owners.  The checkpoint in the store is a copy of what an         *)
(* executor has in memory, and an import trusts what an operator has       *)
(* attested, so the claim is made of all three (AcceptedInv); and it is    *)
(* that a removal has been asked for, which a work request that fails      *)
(* later does not take back.                                               *)
(***************************************************************************)
EXTENDS FleetCleanup, TLAPS

\* at[a] names an action while a is at work on one.
CleanupTyping ==
  /\ TypeOK
  /\ \A a \in Procs : pc[a] \in {"call", "save"} => at[a] \in Actions

\* The removal of the resource of action i has been accepted, or it was gone.
Accepted(i) == resource[i] # "live" \/ i \in reverted

Claims(c) == \A i \in Actions : c.states[i] = "complete" => Accepted(i)

AcceptedInv ==
  /\ Claims(saved)
  /\ \A a \in Procs : Claims(mem[a])
  /\ \A i \in Actions, n \in 1 .. MaxPackets : <<i, n>> \in attested => Accepted(i)

\* What is accepted stays accepted, and Accept makes it so.
LEMMA AcceptFacts ==
  ASSUME CleanupTyping, NEW i \in Actions, Accept(i), UNCHANGED reverted
  PROVE  /\ resource' \in [Actions -> Resource] /\ Accepted(i)'
         /\ \A j \in Actions : Accepted(j) => Accepted(j)'
<1>1. PICK r \in {"deleting", "gone"} : resource' = [resource EXCEPT ![i] = r]
  BY DEF Accept
<1>2. resource \in [Actions -> Resource]
  BY DEF CleanupTyping, TypeOK
<1>3. resource'[i] = r /\ \A j \in Actions \ {i} : resource'[j] = resource[j]
  BY <1>1, <1>2
<1>4. resource' \in [Actions -> Resource]
  BY <1>1, <1>2 DEF Resource
<1> QED BY <1>3, <1>4 DEF Accepted

\* Purging changes only the evidence window (purge_expired_cleanup_evidence).
LEMMA PurgedChecked ==
  ASSUME NEW c \in Checkpoint
  PROVE  Purged(c) \in Checkpoint /\ Purged(c).states = c.states /\ Purged(c).handoffs = c.handoffs
  BY DEF Purged, Checkpoint

\* Setting the state of one action gives a checkpoint.
LEMMA SetState ==
  ASSUME NEW c \in Checkpoint, NEW i \in Actions, NEW s \in ActionState
  PROVE  /\ [c EXCEPT !.states[i] = s] \in Checkpoint
         /\ [c EXCEPT !.states[i] = s].states = [c.states EXCEPT ![i] = s]
         /\ [c EXCEPT !.states[i] = s].handoffs = c.handoffs
  BY DEF Checkpoint

\* Init is typed: nothing is recorded and every process is at the first action.
LEMMA CleanupInitTyped == Init => CleanupTyping
<1> SUFFICES ASSUME Init PROVE CleanupTyping
  OBVIOUS
<1>1. Nothing \in Checkpoint
  BY CleanupAssumption DEF Nothing, Checkpoint, ActionState
<1>2. 1 \in 1 .. NumActions + 1 /\ 0 \in 0 .. MaxPackets
  BY CleanupAssumption
<1>3. /\ saved \in Checkpoint /\ mem \in [Procs -> Checkpoint]
      /\ packet \in [Actions -> 0 .. MaxPackets] /\ at \in [Procs -> 1 .. NumActions + 1]
  BY <1>1, <1>2 DEF Init
<1>4. resource \in [Actions -> Resource] /\ reverted \subseteq Actions
  BY DEF Init, Resource
<1>5. QED
  BY <1>3, <1>4 DEF Init, CleanupTyping, TypeOK, PCs

\* What a step of CleanupExecutor does to the memory of its process: the action at
\* hand has state s, the rest is as before.
LEMMA ConcludeTyped ==
  ASSUME CleanupTyping, NEW a \in Procs, NEW s \in ActionState, at[a] \in Actions, Conclude(a, s)
  PROVE  /\ mem' \in [Procs -> Checkpoint] /\ pc' \in [Procs -> PCs]
         /\ pc' = [pc EXCEPT ![a] = "save"]
         /\ mem'[a].states = [mem[a].states EXCEPT ![at[a]] = s]
         /\ mem'[a].handoffs = mem[a].handoffs
         /\ \A b \in Procs \ {a} : mem'[b] = mem[b]
<1> DEFINE c == [mem[a] EXCEPT !.states[at[a]] = s]
<1>1. mem[a] \in Checkpoint /\ mem \in [Procs -> Checkpoint] /\ pc \in [Procs -> PCs]
  BY DEF CleanupTyping, TypeOK
<1>2. /\ c \in Checkpoint /\ c.states = [mem[a].states EXCEPT ![at[a]] = s]
      /\ c.handoffs = mem[a].handoffs
  BY <1>1, SetState
<1>3. mem' = [mem EXCEPT ![a] = c]
  BY DEF Conclude
<1> HIDE DEF c
<1>4. pc' = [pc EXCEPT ![a] = "save"]
  BY DEF Conclude
<1>5. QED
  BY <1>1, <1>2, <1>3, <1>4 DEF PCs

\* CleanupHandoffRequired: the memory and the packets of HandOff.
LEMMA HandOffTyped ==
  ASSUME CleanupTyping, NEW a \in Procs, at[a] \in Actions, HandOff(a)
  PROVE  /\ mem' \in [Procs -> Checkpoint] /\ packet' \in [Actions -> 0 .. MaxPackets]
         /\ pc' = [pc EXCEPT ![a] = "save"]
         /\ mem'[a].states = [mem[a].states EXCEPT ![at[a]] = "handed-off"]
         /\ \A b \in Procs \ {a} : mem'[b] = mem[b]
         /\ \/ /\ mem[a].handoffs[at[a]] # 0 /\ mem'[a].handoffs = mem[a].handoffs
               /\ UNCHANGED packet
            \/ /\ mem[a].handoffs[at[a]] = 0
               /\ packet' = [packet EXCEPT ![at[a]] = packet[at[a]] + 1]
               /\ mem'[a].handoffs = [mem[a].handoffs EXCEPT ![at[a]] = packet[at[a]] + 1]
<1> DEFINE i == at[a]
           states == [mem[a].states EXCEPT ![i] = "handed-off"]
<1>1. /\ mem[a] \in Checkpoint /\ mem \in [Procs -> Checkpoint]
      /\ packet \in [Actions -> 0 .. MaxPackets] /\ i \in Actions
  BY DEF CleanupTyping, TypeOK
<1>2. pc' = [pc EXCEPT ![a] = "save"]
  BY DEF HandOff
<1>3. states \in [Actions -> ActionState]
  BY <1>1 DEF Checkpoint, ActionState
<1>4. CASE mem[a].handoffs[i] = 0
  <2> DEFINE handoffs == [mem[a].handoffs EXCEPT ![i] = packet[i] + 1]
             c == [mem[a] EXCEPT !.states = states, !.handoffs = handoffs]
  <2>1. packet[i] + 1 \in 0 .. MaxPackets
    BY <1>1, <1>4, CleanupAssumption DEF HandOff
  <2>2. handoffs \in [Actions -> 0 .. MaxPackets]
    BY <1>1, <2>1 DEF Checkpoint
  <2>3. mem' = [mem EXCEPT ![a].states[i] = "handed-off", ![a].handoffs[i] = packet[i] + 1]
    BY <1>4 DEF HandOff
  <2>4. mem' = [mem EXCEPT ![a] = c]
    BY <1>1, <2>3 DEF Checkpoint
  <2>5. packet' = [packet EXCEPT ![i] = packet[i] + 1]
    BY <1>4 DEF HandOff
  <2> HIDE DEF states, handoffs
  <2>6. c \in Checkpoint /\ c.states = states /\ c.handoffs = handoffs
    BY <1>1, <1>3, <2>2 DEF Checkpoint
  <2> HIDE DEF c
  <2>7. mem'[a] = c /\ \A b \in Procs \ {a} : mem'[b] = mem[b]
    BY <1>1, <2>4
  <2>8. mem' \in [Procs -> Checkpoint] /\ packet' \in [Actions -> 0 .. MaxPackets]
    BY <1>1, <2>1, <2>4, <2>5, <2>6
  <2>9. QED
    BY <1>2, <1>4, <2>5, <2>6, <2>7, <2>8 DEF states, handoffs
<1>5. CASE mem[a].handoffs[i] # 0
  <2> DEFINE c == [mem[a] EXCEPT !.states[i] = "handed-off"]
  <2>1. mem' = [mem EXCEPT ![a] = c] /\ packet' = packet
    BY <1>5 DEF HandOff
  <2>2. c \in Checkpoint /\ c.states = states /\ c.handoffs = mem[a].handoffs
    BY <1>1, SetState DEF ActionState
  <2> HIDE DEF c, states
  <2>3. QED
    BY <1>1, <1>2, <1>5, <2>1, <2>2 DEF states
<1>6. QED
  BY <1>4, <1>5

\* _save: what it writes differs from the memory only in the evidence window.
LEMMA SaveTyped ==
  ASSUME CleanupTyping, NEW a \in Procs, SaveAction(a)
  PROVE  /\ saved' \in Checkpoint
         /\ saved'.states = mem[a].states /\ saved'.handoffs = mem[a].handoffs
         /\ mem' = [mem EXCEPT ![a] = saved']
<1> DEFINE c == [mem[a] EXCEPT !.retained = IF mem[a].retained = "none" THEN "open"
                                            ELSE mem[a].retained]
<1>1. mem[a] \in Checkpoint
  BY DEF CleanupTyping, TypeOK
<1>2. saved' = c /\ mem' = [mem EXCEPT ![a] = saved']
  BY DEF SaveAction
<1>3. c \in Checkpoint /\ c.states = mem[a].states /\ c.handoffs = mem[a].handoffs
  BY <1>1 DEF Checkpoint
<1>4. QED
  BY <1>2, <1>3

\* import_packet: the checkpoint afterwards; only the action of the packet may change.
LEMMA ImportTyped ==
  ASSUME CleanupTyping, NEW a \in Procs, NEW i \in Actions, NEW n \in 1 .. MaxPackets,
         ImportEvidence(a, i, n)
  PROVE  /\ saved' \in Checkpoint /\ saved'.handoffs = saved.handoffs
         /\ \/ saved' = saved
            \/ /\ saved.states[i] = "handed-off"
               /\ saved'.states = [saved.states EXCEPT ![i] = "complete"]
<1>1. saved \in Checkpoint
  BY DEF CleanupTyping, TypeOK
<1>2. \/ saved' = saved
      \/ saved.states[i] = "handed-off" /\ saved' = [saved EXCEPT !.states[i] = "complete"]
  BY DEF ImportEvidence
<1>3. "complete" \in ActionState
  BY DEF ActionState
<1>4. /\ [saved EXCEPT !.states[i] = "complete"] \in Checkpoint
      /\ [saved EXCEPT !.states[i] = "complete"].states = [saved.states EXCEPT ![i] = "complete"]
      /\ [saved EXCEPT !.states[i] = "complete"].handoffs = saved.handoffs
  BY <1>1, <1>3, SetState
<1>5. QED
  BY <1>1, <1>2, <1>4

\* Every step is typed.
LEMMA CleanupStepTyped == CleanupTyping /\ [Next]_vars => CleanupTyping'
<1> SUFFICES ASSUME CleanupTyping, [Next]_vars PROVE CleanupTyping'
  OBVIOUS
<1> USE DEF CleanupTyping, TypeOK
<1>1. ASSUME NEW a \in Procs, BeginOffboard(a) PROVE CleanupTyping'
  <2>1. Purged(saved) \in Checkpoint
    BY PurgedChecked
  <2>2. QED
    BY <1>1, <2>1 DEF BeginOffboard, PCs
<1>2. ASSUME NEW a \in Procs, Skip(a) PROVE CleanupTyping'
  <2>1. at[a] + 1 \in 1 .. NumActions + 1
    BY <1>2, CleanupAssumption DEF Skip, Actions
  <2>2. QED
    BY <1>2, <2>1 DEF Skip
<1>3. ASSUME NEW a \in Procs, NEW s \in ActionState, Conclude(a, s), at[a] \in Actions,
             resource' \in [Actions -> Resource],
             UNCHANGED <<saved, holder, at, lost, packet, attested, reverted, lapsed>>
      PROVE  CleanupTyping'
  BY <1>3, ConcludeTyped
<1>4. ASSUME NEW a \in Procs, EnterCall(a) PROVE CleanupTyping'
  <2>1. CASE lost[a]
    BY <1>4, <2>1, <1>3 DEF EnterCall, ActionState
  <2>2. CASE ~lost[a]
    BY <1>4, <2>2 DEF EnterCall, PCs
  <2>3. QED
    BY <2>1, <2>2
<1>5. ASSUME NEW a \in Procs, Delete(a) \/ DeleteFails(a) \/ HandOffFenced(a)
      PROVE CleanupTyping'
  <2>1. at[a] \in Actions
    BY <1>5 DEF Delete, DeleteFails, HandOffFenced
  <2>2. \E s \in ActionState : Conclude(a, s)
    BY <1>5 DEF Delete, DeleteFails, HandOffFenced, ActionState
  <2>3. /\ Accept(at[a]) \/ UNCHANGED resource
        /\ UNCHANGED <<saved, holder, at, lost, packet, attested, reverted, lapsed>>
    BY <1>5 DEF Delete, DeleteFails, HandOffFenced
  <2>4. resource' \in [Actions -> Resource]
    BY <2>1, <2>3, AcceptFacts
  <2>5. QED
    BY <2>1, <2>2, <2>3, <2>4, <1>3
<1>6. ASSUME NEW a \in Procs, HandOff(a) PROVE CleanupTyping'
  <2>1. at[a] \in Actions
    BY <1>6 DEF HandOff
  <2>2. UNCHANGED <<saved, holder, at, lost, attested, resource, reverted, lapsed>>
    BY <1>6 DEF HandOff
  <2>3. /\ mem' \in [Procs -> Checkpoint] /\ packet' \in [Actions -> 0 .. MaxPackets]
        /\ pc' = [pc EXCEPT ![a] = "save"]
    BY <1>6, <2>1, HandOffTyped
  <2>4. QED
    BY <2>1, <2>2, <2>3 DEF PCs
<1>7. ASSUME NEW a \in Procs, SaveAction(a) PROVE CleanupTyping'
  <2>1. at[a] + 1 \in 1 .. NumActions + 1
    BY <1>7, CleanupAssumption DEF SaveAction, Actions
  <2>2. /\ at' = [at EXCEPT ![a] = at[a] + 1] /\ pc' = [pc EXCEPT ![a] = "run"]
        /\ UNCHANGED <<holder, lost, packet, attested, resource, reverted, lapsed>>
    BY <1>7 DEF SaveAction
  <2>3. QED
    BY <1>7, <2>1, <2>2, SaveTyped DEF PCs
<1>8. ASSUME NEW a \in Procs,
             PacketFails(a) \/ EndOffboard(a) \/ BeginImport(a) \/ Refuse(a) \/ Die(a) \/ Notice(a)
      PROVE  CleanupTyping'
  BY <1>8 DEF PacketFails, EndOffboard, BeginImport, Refuse, Die, Notice, PCs
<1>9. ASSUME NEW a \in Procs, NEW i \in Actions, NEW n \in 1 .. MaxPackets, ImportEvidence(a, i, n)
      PROVE  CleanupTyping'
  <2>1. saved' \in Checkpoint
    BY <1>9, ImportTyped
  <2>2. QED
    BY <1>9, <2>1 DEF ImportEvidence, PCs
<1>10. ASSUME NEW i \in Actions, Attest(i) PROVE CleanupTyping'
  <2>1. packet[i] \in 1 .. MaxPackets
    BY <1>10, CleanupAssumption DEF Attest
  <2>2. resource' \in [Actions -> Resource]
    BY <1>10, AcceptFacts DEF Attest
  <2>3. QED
    BY <1>10, <2>1, <2>2 DEF Attest
<1>a. ASSUME NEW i \in Actions, Removed(i) \/ RemovalFails(i) PROVE CleanupTyping'
  BY <1>a DEF Removed, RemovalFails, Resource
<1>11. CASE WindowEnds
  <2>1. [saved EXCEPT !.retained = "past"] \in Checkpoint
    BY DEF Checkpoint
  <2>2. QED
    BY <1>11, <2>1 DEF WindowEnds
<1>12. CASE Lapse \/ UNCHANGED vars
  BY <1>12 DEF Lapse, vars
<1>13. QED
  BY <1>1, <1>2, <1>4, <1>5, <1>6, <1>7, <1>8, <1>9, <1>10, <1>a, <1>11, <1>12 DEF Next, Step

-----------------------------------------------------------------------------
(* Complete means accepted *)

\* Nothing is complete at first.
LEMMA AcceptedInit == Init => AcceptedInv
  BY DEF Init, AcceptedInv, Claims, Nothing

\* What is accepted stays so, and only what is accepted becomes complete.
LEMMA AcceptedStep == CleanupTyping /\ AcceptedInv /\ [Next]_vars => AcceptedInv'
<1> SUFFICES ASSUME CleanupTyping, AcceptedInv, [Next]_vars PROVE AcceptedInv'
  OBVIOUS
<1> USE DEF AcceptedInv, Claims, Accepted
<1>t. /\ saved \in Checkpoint /\ mem \in [Procs -> Checkpoint] /\ pc \in [Procs -> PCs]
      /\ \A a \in Procs : mem[a].states \in [Actions -> ActionState]
      /\ saved.states \in [Actions -> ActionState]
  BY DEF CleanupTyping, TypeOK, Checkpoint
<1>1. ASSUME NEW a \in Procs, BeginOffboard(a) PROVE AcceptedInv'
  <2>1. Purged(saved).states = saved.states
    BY <1>t, PurgedChecked
  <2>2. /\ saved' = Purged(saved) /\ mem' = [mem EXCEPT ![a] = Purged(saved)]
        /\ UNCHANGED <<attested, resource, reverted>>
    BY <1>1 DEF BeginOffboard
  <2>3. QED
    BY <1>t, <2>1, <2>2
<1>2. ASSUME NEW a \in Procs, NEW s \in ActionState, Conclude(a, s),
             NEW j \in Actions, at[a] = j,
             \A i \in Actions : Accepted(i) => Accepted(i)',
             s = "complete" => Accepted(j)',
             UNCHANGED <<saved, attested>>
      PROVE  AcceptedInv'
  <2>1. /\ mem'[a].states = [mem[a].states EXCEPT ![at[a]] = s]
        /\ \A b \in Procs \ {a} : mem'[b] = mem[b]
    BY <1>2, ConcludeTyped
  <2>2. ASSUME NEW i \in Actions, mem'[a].states[i] = "complete" PROVE Accepted(i)'
    <3> HIDE DEF Accepted
    <3>1. CASE i = j
      BY <1>t, <1>2, <2>1, <2>2, <3>1
    <3>2. CASE i # j
      BY <1>t, <1>2, <2>1, <2>2, <3>2
    <3>3. QED
      BY <3>1, <3>2
  <2>3. QED
    <3> HIDE DEF Accepted
    <3>1. QED
      BY <1>2, <2>1, <2>2
<1>3. ASSUME NEW a \in Procs, EnterCall(a) PROVE AcceptedInv'
  <2>1. CASE lost[a]
    <3>1. /\ at[a] \in Actions /\ Conclude(a, "failed")
          /\ UNCHANGED <<saved, attested, resource, reverted>>
      BY <1>3, <2>1 DEF EnterCall
    <3>2. QED
      BY <3>1, <1>2 DEF ActionState
  <2>2. CASE ~lost[a]
    BY <1>3, <2>2 DEF EnterCall, Accepted
  <2>3. QED
    BY <2>1, <2>2
<1>4. ASSUME NEW a \in Procs, Delete(a) PROVE AcceptedInv'
  <2>1. PICK s \in ActionState : Conclude(a, s)
    BY <1>4 DEF Delete, ActionState
  <2>2. PICK j \in Actions : at[a] = j
    BY <1>4 DEF Delete, CleanupTyping
  <2>3. Accepted(j)' /\ \A i \in Actions : Accepted(i) => Accepted(i)'
    BY <1>4, <2>2, AcceptFacts DEF Delete
  <2>5. UNCHANGED <<saved, attested>>
    BY <1>4 DEF Delete
  <2> HIDE DEF Accepted, AcceptedInv
  <2>4. QED
    BY <2>1, <2>2, <2>3, <2>5, <1>2
<1>5. ASSUME NEW a \in Procs, DeleteFails(a) PROVE AcceptedInv'
  <2>1. /\ at[a] \in Actions /\ Conclude(a, "failed") /\ UNCHANGED <<saved, attested, reverted>>
        /\ Accept(at[a]) \/ UNCHANGED resource
    BY <1>5 DEF DeleteFails, CleanupTyping
  <2>2. \A i \in Actions : Accepted(i) => Accepted(i)'
    BY <2>1, AcceptFacts DEF Accepted
  <2>3. QED
    BY <2>1, <2>2, <1>2 DEF ActionState
<1>6. ASSUME NEW a \in Procs, HandOff(a) PROVE AcceptedInv'
  <2>1. at[a] \in Actions
    BY <1>6 DEF HandOff, CleanupTyping
  <2>2. /\ mem'[a].states = [mem[a].states EXCEPT ![at[a]] = "handed-off"]
        /\ \A b \in Procs \ {a} : mem'[b] = mem[b]
    BY <1>6, <2>1, HandOffTyped
  <2>3. UNCHANGED <<saved, attested, resource, reverted>>
    BY <1>6 DEF HandOff
  <2>4. ASSUME NEW i \in Actions, mem'[a].states[i] = "complete" PROVE Accepted(i)'
    BY <1>t, <2>1, <2>2, <2>3, <2>4
  <2>5. QED
    BY <2>2, <2>3, <2>4
<1>7. ASSUME NEW a \in Procs, HandOffFenced(a) PROVE AcceptedInv'
  BY <1>7, <1>2 DEF HandOffFenced, ActionState, CleanupTyping, Accepted
<1>8. ASSUME NEW a \in Procs, SaveAction(a) PROVE AcceptedInv'
  <2>1. saved'.states = mem[a].states /\ mem' = [mem EXCEPT ![a] = saved']
    BY <1>8, SaveTyped
  <2>2. UNCHANGED <<attested, resource, reverted>>
    BY <1>8 DEF SaveAction
  <2>3. QED
    BY <1>t, <2>1, <2>2
<1>9. ASSUME NEW a \in Procs, NEW i \in Actions, NEW n \in 1 .. MaxPackets, ImportEvidence(a, i, n)
      PROVE  AcceptedInv'
  <2>1. \/ saved' = saved
        \/ saved'.states = [saved.states EXCEPT ![i] = "complete"]
    BY <1>9, ImportTyped
  <2>2. <<i, n>> \in attested /\ UNCHANGED <<mem, attested, resource, reverted>>
    BY <1>9 DEF ImportEvidence
  <2>3. Accepted(i)
    BY <2>2
  <2>4. ASSUME NEW j \in Actions, saved'.states[j] = "complete" PROVE Accepted(j)'
    BY <1>t, <2>1, <2>2, <2>3, <2>4
  <2>5. QED
    BY <2>2, <2>4
<1>10. ASSUME NEW i \in Actions, Attest(i) PROVE AcceptedInv'
  <2>1. /\ attested' = attested \cup {<<i, packet[i]>>} /\ Accept(i)
        /\ UNCHANGED <<saved, mem, reverted>>
    BY <1>10 DEF Attest
  <2>2. Accepted(i)' /\ \A j \in Actions : Accepted(j) => Accepted(j)'
    BY <2>1, AcceptFacts
  <2>3. ASSUME NEW j \in Actions, NEW n \in 1 .. MaxPackets, <<j, n>> \in attested'
        PROVE  Accepted(j)'
    BY <2>1, <2>2, <2>3
  <2>4. QED
    BY <2>1, <2>2, <2>3
<1>a. ASSUME NEW i \in Actions, Removed(i) \/ RemovalFails(i) PROVE AcceptedInv'
  <2>1. UNCHANGED <<saved, mem, attested>>
    BY <1>a DEF Removed, RemovalFails
  <2>2. resource \in [Actions -> Resource]
    BY DEF CleanupTyping, TypeOK
  <2>3. \A j \in Actions : Accepted(j) => Accepted(j)'
    BY <1>a, <2>2 DEF Removed, RemovalFails, Accepted
  <2>4. QED
    BY <2>1, <2>3
<1>11. CASE WindowEnds
  <2>1. saved'.states = saved.states /\ UNCHANGED <<mem, attested, resource, reverted>>
    BY <1>11, <1>t DEF WindowEnds, Checkpoint
  <2>2. QED
    BY <2>1
<1>12. CASE UNCHANGED <<saved, mem, attested, resource, reverted>>
  BY <1>12
<1>13. \/ UNCHANGED <<saved, mem, attested, resource, reverted>> \/ WindowEnds
       \/ \E i \in Actions : Attest(i) \/ Removed(i) \/ RemovalFails(i)
       \/ \E a \in Procs :
            \/ BeginOffboard(a) \/ EnterCall(a) \/ Delete(a) \/ DeleteFails(a) \/ HandOff(a)
            \/ HandOffFenced(a) \/ SaveAction(a)
            \/ \E i \in Actions, n \in 1 .. MaxPackets : ImportEvidence(a, i, n)
  BY DEF Next, Step, vars, Skip, PacketFails, EndOffboard, BeginImport, Refuse, Die, Notice, Lapse
<1>14. QED
  BY <1>1, <1>3, <1>4, <1>5, <1>6, <1>7, <1>8, <1>9, <1>10, <1>a, <1>11, <1>12, <1>13

\* The checkpoint records an action complete only when its resource is gone, OCI has
\* accepted to remove it or an operator has attested that, whatever failed, died, was
\* fenced, retried or imported, and whoever lost the lease.
THEOREM CleanupCompleteMeansAccepted == Spec => []CompleteMeansAccepted
<1>1. AcceptedInv => CompleteMeansAccepted
  BY DEF AcceptedInv, Claims, Accepted, CompleteMeansAccepted
<1>2. CleanupTyping /\ AcceptedInv /\ [Next]_vars => (CleanupTyping /\ AcceptedInv)'
  BY CleanupStepTyped, AcceptedStep
<1>3. QED
  BY <1>1, <1>2, CleanupInitTyped, AcceptedInit, PTL DEF Spec

-----------------------------------------------------------------------------
(* A hand-off stays answerable *)

\* Between the lease and the end of a command, and with a checkpoint in memory.
Busy == {"run", "call", "save", "import"}
Executing == {"run", "call", "save"}

\* A packet bound to an action is the one in its file, and what is handed off is bound.
Bound(c) ==
  \A i \in Actions :
    /\ c.handoffs[i] # 0 => c.handoffs[i] = packet[i]
    /\ c.states[i] = "handed-off" => c.handoffs[i] # 0

\* No executor has forgotten a binding of the store.
Follows(c) == \A i \in Actions : c.handoffs[i] = 0 => saved.handoffs[i] = 0

BoundInv ==
  ~lapsed =>
    /\ \A a \in Procs : pc[a] \in Busy => holder = a
    /\ Bound(saved)
    /\ \A a \in Procs : pc[a] \in Executing => Bound(mem[a]) /\ Follows(mem[a])

\* Nothing is bound and nobody works at first.
LEMMA BoundInit == Init => BoundInv
  BY DEF Init, BoundInv, Bound, Nothing, Busy, Executing

\* As long as no lease is lost, one process at a time binds packets, and it has read
\* the bindings of those before it.
LEMMA BoundStep == CleanupTyping /\ BoundInv /\ [Next]_vars => BoundInv'
<1> SUFFICES ASSUME CleanupTyping, BoundInv, [Next]_vars, ~lapsed' PROVE BoundInv'
  BY DEF BoundInv
<1> USE DEF Busy, Executing
<1>t. /\ saved \in Checkpoint /\ mem \in [Procs -> Checkpoint] /\ pc \in [Procs -> PCs]
      /\ packet \in [Actions -> 0 .. MaxPackets]
      /\ \A a \in Procs : /\ mem[a].states \in [Actions -> ActionState]
                          /\ mem[a].handoffs \in [Actions -> 0 .. MaxPackets]
      /\ saved.states \in [Actions -> ActionState]
      /\ saved.handoffs \in [Actions -> 0 .. MaxPackets]
  BY DEF CleanupTyping, TypeOK, Checkpoint
<1>l. ~lapsed
  BY DEF Next, Step, vars, BeginOffboard, Skip, EnterCall, Delete, DeleteFails, HandOff,
         HandOffFenced, PacketFails, SaveAction, EndOffboard, BeginImport, ImportEvidence,
         Refuse, Die, Notice, Attest, Removed, RemovalFails, WindowEnds, Lapse
<1>h. /\ \A a \in Procs : pc[a] \in Busy => holder = a
      /\ Bound(saved)
      /\ \A a \in Procs : pc[a] \in Executing => Bound(mem[a]) /\ Follows(mem[a])
  BY <1>l DEF BoundInv
<1>1. ASSUME NEW a \in Procs, BeginOffboard(a) PROVE BoundInv'
  <2>1. Purged(saved).states = saved.states /\ Purged(saved).handoffs = saved.handoffs
    BY <1>t, PurgedChecked
  <2>2. /\ saved' = Purged(saved) /\ mem' = [mem EXCEPT ![a] = Purged(saved)]
        /\ pc' = [pc EXCEPT ![a] = "run"] /\ holder = None /\ holder' = a /\ packet' = packet
    BY <1>1 DEF BeginOffboard
  <2>3. \A b \in Procs : pc[b] \notin Busy
    BY <1>h, <2>2, CleanupAssumption
  <2>4. Bound(saved)' /\ mem'[a] = saved'
    BY <1>h, <1>t, <2>1, <2>2 DEF Bound
  <2>5. Follows(saved)' /\ Follows(mem[a])'
    BY <2>4 DEF Follows
  <2>6. \A b \in Procs : pc'[b] \in Busy => b = a
    BY <1>t, <2>2, <2>3
  <2>7. Bound(mem[a])'
    BY <2>4 DEF Bound
  <2>8. QED
    BY <2>2, <2>4, <2>5, <2>6, <2>7 DEF BoundInv
<1>2. ASSUME NEW a \in Procs, NEW s \in ActionState \ {"handed-off"}, Conclude(a, s),
             at[a] \in Actions, pc[a] \in Executing,
             UNCHANGED <<saved, holder, packet>>
      PROVE  BoundInv'
  <2>1. /\ mem'[a].states = [mem[a].states EXCEPT ![at[a]] = s]
        /\ mem'[a].handoffs = mem[a].handoffs
        /\ \A b \in Procs \ {a} : mem'[b] = mem[b]
        /\ pc' = [pc EXCEPT ![a] = "save"]
    BY <1>2, ConcludeTyped
  <2>2. Bound(mem[a]) /\ Follows(mem[a]) /\ holder = a
    BY <1>2, <1>h
  <2>3. /\ \A i \in Actions : mem'[a].handoffs[i] # 0 => mem'[a].handoffs[i] = packet'[i]
        /\ \A i \in Actions : mem'[a].states[i] = "handed-off" => mem'[a].handoffs[i] # 0
        /\ \A i \in Actions : mem'[a].handoffs[i] = 0 => saved'.handoffs[i] = 0
    BY <1>t, <1>2, <2>1, <2>2 DEF Bound, Follows
  <2>4. \A b \in Procs \ {a} : pc'[b] = pc[b]
    BY <1>t, <2>1
  <2>5. Bound(saved)' /\ Bound(mem[a])' /\ Follows(mem[a])'
    BY <1>h, <1>2, <2>3 DEF Bound, Follows
  <2>6. ASSUME NEW b \in Procs, b # a, pc'[b] \in Executing
        PROVE  Bound(mem[b])' /\ Follows(mem[b])'
    <3>1. pc[b] \in Executing /\ mem'[b] = mem[b]
      BY <2>1, <2>4, <2>6
    <3>2. QED
      BY <1>h, <1>2, <3>1 DEF Bound, Follows
  <2>7. \A b \in Procs : pc'[b] \in Busy => holder' = b
    BY <1>h, <1>2, <2>1, <2>2, <2>4
  <2>8. QED
    BY <2>5, <2>6, <2>7 DEF BoundInv
<1>3. ASSUME NEW a \in Procs, EnterCall(a) PROVE BoundInv'
  <2>1. CASE lost[a]
    BY <1>3, <2>1, <1>2 DEF EnterCall, ActionState
  <2>2. CASE ~lost[a]
    BY <1>3, <2>2, <1>h, <1>t DEF EnterCall, BoundInv, Bound, Follows
  <2>3. QED
    BY <2>1, <2>2
<1>4. ASSUME NEW a \in Procs, Delete(a) \/ DeleteFails(a) \/ HandOffFenced(a) PROVE BoundInv'
  <2>1. /\ at[a] \in Actions /\ pc[a] \in Executing /\ UNCHANGED <<saved, holder, packet>>
    BY <1>4 DEF Delete, DeleteFails, HandOffFenced, CleanupTyping
  <2>2. \E s \in ActionState \ {"handed-off"} : Conclude(a, s)
    BY <1>4 DEF Delete, DeleteFails, HandOffFenced, ActionState
  <2>3. QED
    BY <2>1, <2>2, <1>2
<1>5. ASSUME NEW a \in Procs, HandOff(a) PROVE BoundInv'
  <2> DEFINE i == at[a]
  <2>1. i \in Actions /\ pc[a] = "call" /\ UNCHANGED <<saved, holder>>
    BY <1>5 DEF HandOff, CleanupTyping
  <2>2. /\ pc' = [pc EXCEPT ![a] = "save"]
        /\ mem'[a].states = [mem[a].states EXCEPT ![i] = "handed-off"]
        /\ \A b \in Procs \ {a} : mem'[b] = mem[b]
        /\ \/ /\ mem[a].handoffs[i] # 0 /\ mem'[a].handoffs = mem[a].handoffs
              /\ UNCHANGED packet
           \/ /\ mem[a].handoffs[i] = 0
              /\ packet' = [packet EXCEPT ![i] = packet[i] + 1]
              /\ mem'[a].handoffs = [mem[a].handoffs EXCEPT ![i] = packet[i] + 1]
    BY <1>5, <2>1, HandOffTyped
  <2> HIDE DEF i
  <2>3. holder = a /\ Bound(mem[a]) /\ Follows(mem[a]) /\ Bound(saved)
    BY <2>1, <1>h
  <2>4. \A b \in Procs \ {a} : pc'[b] \notin Busy
    BY <1>t, <1>h, <2>2, <2>3
  <2>5. mem'[a].handoffs[i] # 0 /\ mem'[a].handoffs[i] = packet'[i]
    BY <1>t, <2>1, <2>2, <2>3 DEF Bound
  <2>6. \A j \in Actions \ {i} :
          /\ mem'[a].handoffs[j] = mem[a].handoffs[j] /\ packet'[j] = packet[j]
          /\ mem'[a].states[j] = mem[a].states[j]
    BY <1>t, <2>1, <2>2
  <2>7. Bound(mem[a])'
    BY <2>3, <2>5, <2>6 DEF Bound
  <2>8. Follows(mem[a])'
    BY <2>1, <2>3, <2>5, <2>6 DEF Follows
  <2>9. Bound(saved)'
    BY <1>t, <2>1, <2>2, <2>3, <2>6 DEF Bound, Follows
  <2>10. QED
    BY <2>1, <2>3, <2>4, <2>7, <2>8, <2>9 DEF BoundInv, Bound, Follows
<1>6. ASSUME NEW a \in Procs, SaveAction(a) PROVE BoundInv'
  <2>1. /\ saved'.states = mem[a].states /\ saved'.handoffs = mem[a].handoffs
        /\ mem' = [mem EXCEPT ![a] = saved']
    BY <1>6, SaveTyped
  <2>2. pc[a] = "save" /\ pc' = [pc EXCEPT ![a] = "run"] /\ UNCHANGED <<holder, packet>>
    BY <1>6 DEF SaveAction
  <2>3. holder = a /\ Bound(mem[a])
    BY <2>2, <1>h
  <2>4. \A b \in Procs \ {a} : pc'[b] \notin Busy
    BY <1>t, <1>h, <2>2, <2>3
  <2>5. Bound(saved)' /\ Follows(saved)' /\ mem'[a] = saved'
    BY <1>t, <2>1, <2>2, <2>3 DEF Bound, Follows
  <2>6. QED
    BY <2>2, <2>3, <2>4, <2>5 DEF BoundInv, Bound, Follows
<1>7. ASSUME NEW a \in Procs, BeginImport(a) PROVE BoundInv'
  <2>1. /\ holder = None /\ holder' = a /\ pc' = [pc EXCEPT ![a] = "import"]
        /\ UNCHANGED <<saved, mem, packet>>
    BY <1>7 DEF BeginImport
  <2>2. \A b \in Procs : pc'[b] \in Busy => b = a
    BY <1>t, <1>h, <2>1, CleanupAssumption
  <2>3. \A b \in Procs : pc'[b] \notin Executing
    BY <1>t, <2>1, <2>2
  <2>4. Bound(saved)'
    BY <1>h, <2>1 DEF Bound
  <2>5. QED
    BY <2>1, <2>2, <2>3, <2>4 DEF BoundInv
<1>8. ASSUME NEW a \in Procs, NEW i \in Actions, NEW n \in 1 .. MaxPackets, ImportEvidence(a, i, n)
      PROVE  BoundInv'
  <2>1. /\ saved'.handoffs = saved.handoffs
        /\ saved' = saved \/ saved'.states = [saved.states EXCEPT ![i] = "complete"]
    BY <1>8, ImportTyped
  <2>2. /\ pc[a] = "import" /\ pc' = [pc EXCEPT ![a] = "done"] /\ UNCHANGED <<mem, packet>>
        /\ holder = a
    BY <1>8, <1>h DEF ImportEvidence
  <2>3. \A b \in Procs : pc'[b] \notin Busy
    BY <1>t, <1>h, <2>2
  <2>4. Bound(saved)'
    BY <1>t, <1>h, <2>1, <2>2 DEF Bound
  <2>5. QED
    BY <2>3, <2>4 DEF BoundInv
<1>9. ASSUME NEW a \in Procs, PacketFails(a) \/ EndOffboard(a) \/ Die(a) PROVE BoundInv'
  <2>1. /\ pc' = [pc EXCEPT ![a] = "done"] \/ pc' = [pc EXCEPT ![a] = "dead"]
        /\ pc[a] \in Busy /\ UNCHANGED <<saved, mem, packet>>
    BY <1>9 DEF PacketFails, EndOffboard, Die
  <2>2. \A b \in Procs : pc'[b] \notin Busy
    BY <1>t, <1>h, <2>1
  <2>3. QED
    BY <1>h, <2>1, <2>2 DEF BoundInv, Bound
<1>10. ASSUME NEW a \in Procs, Refuse(a) PROVE BoundInv'
  <2>1. pc' = [pc EXCEPT ![a] = "done"] /\ UNCHANGED <<saved, holder, mem, packet>>
    BY <1>10 DEF Refuse
  <2>2. \A b \in Procs : pc'[b] \in Busy => pc'[b] = pc[b]
    BY <1>t, <2>1
  <2>3. QED
    BY <1>h, <2>1, <2>2 DEF BoundInv, Bound, Follows
<1>11. CASE WindowEnds
  <2>1. /\ saved'.states = saved.states /\ saved'.handoffs = saved.handoffs
        /\ UNCHANGED <<holder, pc, mem, packet>>
    BY <1>11, <1>t DEF WindowEnds, Checkpoint
  <2>2. QED
    BY <1>h, <2>1 DEF BoundInv, Bound, Follows
<1>12. CASE UNCHANGED <<saved, holder, pc, mem, packet>>
  BY <1>12, <1>h DEF BoundInv, Bound, Follows
<1>13. \/ UNCHANGED <<saved, holder, pc, mem, packet>> \/ WindowEnds
       \/ \E a \in Procs :
            \/ BeginOffboard(a) \/ EnterCall(a) \/ Delete(a) \/ DeleteFails(a) \/ HandOff(a)
            \/ HandOffFenced(a) \/ SaveAction(a) \/ BeginImport(a)
            \/ PacketFails(a) \/ EndOffboard(a) \/ Die(a) \/ Refuse(a)
            \/ \E i \in Actions, n \in 1 .. MaxPackets : ImportEvidence(a, i, n)
  BY DEF Next, Step, vars, Skip, Notice, Lapse, Attest, Removed, RemovalFails
<1>14. QED
  BY <1>1, <1>3, <1>4, <1>5, <1>6, <1>7, <1>8, <1>9, <1>10, <1>11, <1>12, <1>13

\* As long as every process keeps its lease, the packet of a handed-off action is the
\* one in its file, so the operator's answer can be imported, whatever failed or died
\* between the packet and the checkpoint (CleanupExecutor, CleanupHandoffRequired).
THEOREM CleanupHandoffAnswerable == Spec => []HandoffAnswerable
<1>1. BoundInv => HandoffAnswerable
  BY DEF BoundInv, Bound, HandoffAnswerable
<1>2. CleanupTyping /\ BoundInv /\ [Next]_vars => (CleanupTyping /\ BoundInv)'
  BY CleanupStepTyped, BoundStep
<1>3. QED
  BY <1>1, <1>2, CleanupInitTyped, BoundInit, PTL DEF Spec
=============================================================================
