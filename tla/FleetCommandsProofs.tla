------------------------ MODULE FleetCommandsProofs -------------------------
(***************************************************************************)
(* Proofs about FleetCommands and, at the end, about the lease it rests on *)
(* (FleetLease), for any number of commands, targets and phases and any    *)
(* times.                                                                  *)
(*                                                                         *)
(* At most one command on a run is in a phase handler.  HandlersExclusive  *)
(* says nothing of how a process gets to a handler: it holds the lease     *)
(* from acquire_lease on, and only its own end releases it (HolderOK).     *)
(*                                                                         *)
(* Only a copy loaded before another command saved can undo progress.  A   *)
(* save replaces the whole manifest, so this is about copies: while a      *)
(* command works, the store is its copy (Copies), because nobody else has  *)
(* the lease; before its first save, a copy that is not outdated is the    *)
(* store as Load reads it, with the expired READY verdicts and perhaps the *)
(* failures reopened (Loads).  And within one copy a step goes back on     *)
(* nothing: the phase it enters or closes is not complete (InHandler), and *)
(* what is not complete is not owned (OwnedIsComplete), so that reopening  *)
(* a validation, which creates nothing, takes nothing from a record.       *)
(*                                                                         *)
(* Of the lease: as long as no renewal is late or raises, a process at     *)
(* work owns the lease and the lease has not run out (Punctual), so nobody *)
(* else can acquire it.                                                    *)
(***************************************************************************)
EXTENDS FleetCommands, FleetLease, WellFoundedInduction, TLAPS

-----------------------------------------------------------------------------
(* The invariant *)

\* Between acquire_lease and the end of a command the lease is its own.
Inside == {"leased", "work", "call"}
HolderOK == \A a \in Procs : pc[a] \in Inside => holder = a

Manifest == [Targets -> TargetManifest]

\* The types, except for the target of a cursor that was never set: a plan without
\* targets has none.
Types ==
  /\ store \in Manifest
  /\ holder \in Procs \cup {None}
  /\ pc \in [Procs -> PCs]
  /\ mem \in [Procs -> Manifest]
  /\ left \in [Procs -> SUBSET Targets]
  /\ DOMAIN cursor = Procs
  /\ Targets # {} => cursor \in [Procs -> [target : Targets, phase : Phases]]
  /\ cloud \in [Targets -> [Phases -> {"absent", "prior", "ours"}]]
  /\ outdated \in [Procs -> BOOLEAN]

\* A resource is recorded as owned together with the end of the phase that creates it.
OwnedIsComplete(m) ==
  \A t \in Targets, p \in Phases :
    m[t].res[p] = "owned" => m[t].ckpt[p] = "complete" /\ p \in Creates

\* What is left to do in a copy m may be entered.
Enterable(m, l) ==
  \A t \in l, p \in Phases : m[t].ckpt[p] \notin {"blocked", "failed"}

\* A command in a handler has the phase RUNNING in its copy m.
InHandler(a, m, c) ==
  pc[a] = "call" =>
    /\ c.target \in left[a] /\ c.phase \in Phases
    /\ m[c.target].ckpt[c.phase] = "running"

Works(a) == pc[a] \in {"work", "call"} /\ Command[a] # "import"
HasLoaded(a) == pc[a] \in {"loaded", "leased"} /\ Command[a] # "import"

\* While a command works, the store is its copy.
Copies == \A a \in Procs : Works(a) => mem[a] = store

\* Until then its copy is what Load makes of the store, for some expired verdicts.
FreshCopy(a) == \E expired \in SUBSET Targets : mem[a] = Loaded(a, expired)
Loads == \A a \in Procs : HasLoaded(a) /\ ~outdated[a] => FreshCopy(a)

IInv ==
  /\ Types /\ HolderOK /\ Copies /\ Loads
  /\ OwnedIsComplete(store)
  /\ \A a \in Procs :
       /\ OwnedIsComplete(mem[a]) /\ Enterable(mem[a], left[a])
       /\ InHandler(a, mem[a], cursor[a])
       /\ Command[a] = "import" => left[a] = {} /\ pc[a] # "call"

\* Nothing in m is undone in n: no completed phase, no recorded ownership.
Keeps(m, n) ==
  \A t \in Targets, p \in Phases :
    /\ m[t].ckpt[p] = "complete" => n[t].ckpt[p] = "complete"
    /\ m[t].res[p] = "owned" => n[t].res[p] = "owned"

\* Nothing but the validation of a READY target.
KeepsUnlessReady(m, n) ==
  \A t \in Targets, p \in Phases :
    /\ m[t].ckpt[p] = "complete" =>
         \/ n[t].ckpt[p] = "complete"
         \/ p = Validation /\ m[t].readiness = "ready" /\ n[t].ckpt[p] = "retryable"
    /\ m[t].res[p] = "owned" => n[t].res[p] = "owned"

\* A step of a undoes no more than that, unless it saves an outdated copy under its
\* lease.
KeepsOrOutdated(a) ==
  KeepsUnlessReady(store, store') \/ (pc[a] \in Inside /\ outdated[a])

-----------------------------------------------------------------------------
(* The operators on manifests *)

\* A non-empty set of numbers has a least one.
LEMMA LeastExists ==
  ASSUME NEW S \in SUBSET Nat, S # {}
  PROVE  \E p \in S : \A q \in S : p <= q
<1>1. PICK p \in S : \A q \in S : ~(<<q, p>> \in OpToRel(<, Nat))
  BY NatLessThanWellFounded, WFMin, Zenon
<1>2. \A q \in S : ~(q < p)
  BY <1>1 DEF OpToRel
<1> QED BY <1>2

\* _next_incomplete_phase is a phase.
LEMMA NextIncompleteIsPhase ==
  ASSUME NEW tm PROVE NextIncomplete(tm) \in Phases
<1> DEFINE I == {p \in Phases : tm.ckpt[p] # "complete"}
<1>1. CASE I = {}
  BY <1>1, PhasesAssumption DEF NextIncomplete, Phases
<1>2. CASE I # {}
  <2>1. I \in SUBSET Nat
    BY PhasesAssumption DEF Phases
  <2>2. \E p \in I : \A q \in I : p <= q
    BY <1>2, <2>1, LeastExists
  <2> QED BY <1>2, <2>2 DEF NextIncomplete
<1> QED BY <1>1, <1>2

\* A transition the table allows moves one checkpoint and keeps the rest of a
\* target's manifest (RunManifest.transition_checkpoint).
LEMMA CheckpointedFacts ==
  ASSUME NEW tm \in TargetManifest, NEW p \in Phases, NEW to \in PhaseState,
         to = tm.ckpt[p] \/ to \in AllowedFrom(tm.ckpt[p])
  PROVE  /\ Checkpointed(tm, p, to, {}) \in TargetManifest
         /\ Checkpointed(tm, p, to, {}).ckpt = [tm.ckpt EXCEPT ![p] = to]
         /\ Checkpointed(tm, p, to, {}).res = tm.res
BY DEF Checkpointed, Transition, TargetManifest

\* reopen_failed keeps the types, every completed phase and every record.
LEMMA ReopenFailedFacts ==
  ASSUME NEW m \in Manifest
  PROVE  /\ ReopenFailed(m) \in Manifest
         /\ \A t \in Targets : ReopenFailed(m)[t].res = m[t].res
         /\ \A t \in Targets, p \in Phases, s \in {"complete", "retryable"} :
              m[t].ckpt[p] = s => ReopenFailed(m)[t].ckpt[p] = s
<1>1. \A tm \in TargetManifest, b \in BOOLEAN :
        /\ ReopenTarget(tm, b) \in TargetManifest
        /\ ReopenTarget(tm, b).res = tm.res
        /\ \A p \in Phases, s \in {"complete", "retryable"} :
             tm.ckpt[p] = s => ReopenTarget(tm, b).ckpt[p] = s
  <2> TAKE tm \in TargetManifest, b \in BOOLEAN
  <2> DEFINE reopens(p) == tm.ckpt[p] = "failed" \/ (b /\ DependencyBlock(tm, p))
             ckpt == [p \in Phases |-> IF reopens(p) THEN "retryable" ELSE tm.ckpt[p]]
             blockedBy == [p \in Phases |-> IF reopens(p) THEN {} ELSE tm.blockedBy[p]]
  <2>1. ReopenTarget(tm, b) =
          [tm EXCEPT !.state = "pending", !.readiness = "degraded",
                     !.ckpt = ckpt, !.blockedBy = blockedBy]
    BY DEF ReopenTarget
  <2>2. ckpt \in [Phases -> PhaseState \cup {Absent}]
    BY DEF TargetManifest, PhaseState
  <2>3. blockedBy \in [Phases -> SUBSET Targets]
    BY DEF TargetManifest
  <2>4. \A p \in Phases, s \in {"complete", "retryable"} : tm.ckpt[p] = s => ckpt[p] = s
    BY DEF DependencyBlock
  <2> HIDE DEF ckpt, blockedBy
  <2> QED BY <2>1, <2>2, <2>3, <2>4 DEF TargetManifest, TargetState, Readiness
<1>2. \A t \in Targets : DependencyBlocked(m[t], FailedTargets(m)) \in BOOLEAN
  BY DEF DependencyBlocked
<1>3. \A t \in Targets : m[t] \in TargetManifest
  BY DEF Manifest
<1> QED BY <1>1, <1>2, <1>3 DEF ReopenFailed, Manifest

\* refresh_collection_readiness keeps the types and every record, and every completed
\* phase but the validation of a READY target.
LEMMA RefreshFacts ==
  ASSUME NEW m \in Manifest, NEW expired \in SUBSET Targets
  PROVE  /\ RefreshReadiness(m, expired) \in Manifest
         /\ \A t \in Targets : RefreshReadiness(m, expired)[t].res = m[t].res
         /\ KeepsUnlessReady(m, RefreshReadiness(m, expired))
<1> DEFINE n == RefreshReadiness(m, expired)
<1>1. \A t \in Targets : m[t] \in TargetManifest
  BY DEF Manifest
<1>2. Validation \in Phases
  BY PhasesAssumption DEF Validation, Phases
<1>3. \A tm \in TargetManifest :
        /\ RefreshTarget(tm) \in TargetManifest /\ RefreshTarget(tm).res = tm.res
        /\ \A p \in Phases : tm.ckpt[p] = "complete" =>
             \/ RefreshTarget(tm).ckpt[p] = "complete"
             \/ p = Validation /\ RefreshTarget(tm).ckpt[p] = "retryable"
  BY <1>2 DEF RefreshTarget, TargetManifest, TargetState, Readiness, PhaseState
<1>4. \A t \in Targets : \/ n[t] = m[t]
                         \/ n[t] = RefreshTarget(m[t]) /\ m[t].readiness = "ready"
  BY DEF RefreshReadiness
<1>5. n = [t \in Targets |-> n[t]] /\ \A t \in Targets : n[t] \in TargetManifest
  BY <1>1, <1>3, <1>4 DEF RefreshReadiness
<1>6. n \in Manifest
  BY <1>5 DEF Manifest
<1> HIDE DEF n
<1>7. \A t \in Targets : n[t].res = m[t].res
  BY <1>1, <1>3, <1>4
<1>8. KeepsUnlessReady(m, n)
  BY <1>1, <1>3, <1>4, <1>7 DEF KeepsUnlessReady
<1> QED BY <1>6, <1>7, <1>8 DEF n

\* So does the loading of the store.
LEMMA LoadedFacts ==
  ASSUME store \in Manifest, OwnedIsComplete(store), NEW a, NEW expired \in SUBSET Targets
  PROVE  /\ Loaded(a, expired) \in Manifest
         /\ KeepsUnlessReady(store, Loaded(a, expired))
         /\ OwnedIsComplete(Loaded(a, expired))
<1> DEFINE r == RefreshReadiness(store, expired)
           n == Loaded(a, expired)
<1>1. /\ r \in Manifest /\ KeepsUnlessReady(store, r)
      /\ \A t \in Targets : r[t].res = store[t].res
  BY RefreshFacts
<1>2. n = r \/ n = ReopenFailed(r)
  BY DEF Loaded
<1> HIDE DEF r, n
<1>3. /\ n \in Manifest /\ \A t \in Targets : n[t].res = r[t].res
      /\ \A t \in Targets, p \in Phases, s \in {"complete", "retryable"} :
           r[t].ckpt[p] = s => n[t].ckpt[p] = s
  BY <1>1, <1>2, ReopenFailedFacts
<1>4. KeepsUnlessReady(store, n)
  BY <1>1, <1>3 DEF KeepsUnlessReady
<1>5. OwnedIsComplete(n)
  BY <1>1, <1>3, <1>4, CommandsAssumption DEF OwnedIsComplete, KeepsUnlessReady
<1> QED BY <1>3, <1>4, <1>5 DEF n

-----------------------------------------------------------------------------
(* A step of one command *)

\* A step of a keeps the invariant when it leaves the others alone, changes the
\* store only under the lease, and leaves its own state in order.
LEMMA OneCommand ==
  ASSUME IInv, NEW a \in Procs, Types',
         \A b \in Procs \ {a} : /\ pc'[b] = pc[b] /\ mem'[b] = mem[b]
                                /\ left'[b] = left[b] /\ cursor'[b] = cursor[b]
                                /\ pc[b] \in Inside => holder' = b,
         \/ store' = store /\ \A b \in Procs \ {a} : outdated'[b] = outdated[b]
         \/ pc[a] \in Inside /\ \A b \in Procs \ {a} : pc[b] # "new" => outdated'[b],
         pc'[a] \in Inside => holder' = a,
         OwnedIsComplete(store'),
         OwnedIsComplete(mem'[a]),
         Enterable(mem'[a], left'[a]),
         InHandler(a, mem[a], cursor[a])',
         Command[a] = "import" => left'[a] = {} /\ pc'[a] # "call",
         Works(a)' => mem'[a] = store',
         HasLoaded(a)' /\ ~outdated'[a] => FreshCopy(a)'
  PROVE  IInv'
<1>1. HolderOK'
  BY DEF HolderOK
<1>2. \A b \in Procs \ {a} : pc[b] \in Inside => store' = store
  BY DEF IInv, HolderOK
<1>3. \A b \in Procs : Works(b)' => mem'[b] = store'
  <2> TAKE b \in Procs
  <2>1. CASE b # a
    BY <1>2, <2>1 DEF IInv, Copies, Works, Inside
  <2> QED BY <2>1
<1>4. \A b \in Procs : HasLoaded(b)' /\ ~outdated'[b] => FreshCopy(b)'
  <2> TAKE b \in Procs
  <2>1. CASE b # a
    <3> SUFFICES ASSUME HasLoaded(b)', ~outdated'[b]
                 PROVE  FreshCopy(b)'
      OBVIOUS
    <3>1. HasLoaded(b) /\ pc[b] # "new"
      BY <2>1 DEF HasLoaded
    <3>2. store' = store /\ outdated'[b] = outdated[b]
      BY <2>1, <3>1
    <3>3. FreshCopy(b)
      BY <3>1, <3>2 DEF IInv, Loads
    <3> QED BY <2>1, <3>2, <3>3 DEF FreshCopy, Loaded
  <2> QED BY <2>1
<1>5. \A b \in Procs : /\ OwnedIsComplete(mem'[b]) /\ Enterable(mem'[b], left'[b])
                       /\ InHandler(b, mem[b], cursor[b])'
                       /\ Command[b] = "import" => left'[b] = {} /\ pc'[b] # "call"
  <2> TAKE b \in Procs
  <2>1. CASE b # a
    <3>1. /\ OwnedIsComplete(mem[b]) /\ Enterable(mem[b], left[b])
          /\ InHandler(b, mem[b], cursor[b])
          /\ Command[b] = "import" => left[b] = {} /\ pc[b] # "call"
      BY DEF IInv
    <3>2. /\ pc'[b] = pc[b] /\ mem'[b] = mem[b]
          /\ left'[b] = left[b] /\ cursor'[b] = cursor[b]
      BY <2>1
    <3> QED BY <3>1, <3>2 DEF InHandler
  <2> QED BY <2>1
<1> QED BY <1>1, <1>3, <1>4, <1>5 DEF IInv, Copies, Loads

\* What a save of the copy of a, with one target changed, does to everybody.
LEMMA SaveTargetFacts ==
  ASSUME Types, NEW a \in Procs, NEW t \in Targets, NEW tm \in TargetManifest,
         SaveTarget(a, t, tm)
  PROVE  /\ store' \in Manifest /\ mem' \in [Procs -> Manifest]
         /\ outdated' \in [Procs -> BOOLEAN]
         /\ mem'[a] = store' /\ store'[t] = tm
         /\ \A u \in Targets \ {t} : store'[u] = mem[a][u]
         /\ \A b \in Procs \ {a} : mem'[b] = mem[b] /\ (pc[b] # "new" => outdated'[b])
<1> DEFINE updated == [mem[a] EXCEPT ![t] = tm]
<1>1. /\ mem' = [mem EXCEPT ![a] = updated] /\ store' = updated
      /\ outdated' = [b \in Procs |-> outdated[b] \/ (b # a /\ pc[b] # "new")]
  BY DEF SaveTarget, Save
<1>2. mem[a] \in Manifest
  BY DEF Types
<1>3. /\ updated \in Manifest /\ updated[t] = tm
      /\ \A u \in Targets \ {t} : updated[u] = mem[a][u]
  BY <1>2 DEF Manifest
<1> HIDE DEF updated
<1>4. mem' \in [Procs -> Manifest] /\ mem'[a] = updated /\ \A b \in Procs \ {a} : mem'[b] = mem[b]
  BY <1>1, <1>3 DEF Types
<1>5. outdated' \in [Procs -> BOOLEAN]
  <2>1. \A b \in Procs : (outdated[b] \/ (b # a /\ pc[b] # "new")) \in BOOLEAN
    BY DEF Types
  <2> QED BY <1>1, <2>1
<1> QED BY <1>1, <1>3, <1>4, <1>5

\* The manifest n of a target goes back on nothing of o, and has nothing owned in an
\* open phase; it may be entered; the cursor c is at one of its phases, RUNNING.
GoesOn(o, n) ==
  \A p \in Phases : /\ o.ckpt[p] = "complete" => n.ckpt[p] = "complete"
                    /\ o.res[p] = "owned" => n.res[p] = "owned"
                    /\ n.res[p] = "owned" => n.ckpt[p] = "complete" /\ p \in Creates
CanEnter(n) == \A p \in Phases : n.ckpt[p] \notin {"blocked", "failed"}
AtPhase(c, t, n) == c.target = t /\ c.phase \in Phases /\ n.ckpt[c.phase] = "running"

\* A command at work that saves a target it has still to do, where the new
\* manifest tm of the target goes back on nothing.
LEMMA WorkStep ==
  ASSUME IInv, NEW a \in Procs, Works(a),
         NEW t \in left[a], NEW tm \in TargetManifest,
         SaveTarget(a, t, tm), UNCHANGED holder,
         GoesOn(mem[a][t], tm),
         pc' \in [Procs -> PCs], pc'[a] \in {"work", "call"},
         left' \in [Procs -> SUBSET Targets], left'[a] \in {left[a], left[a] \ {t}},
         DOMAIN cursor' = Procs,
         Targets # {} => cursor' \in [Procs -> [target : Targets, phase : Phases]],
         \A b \in Procs \ {a} :
           pc'[b] = pc[b] /\ left'[b] = left[b] /\ cursor'[b] = cursor[b],
         t \in left'[a] => CanEnter(tm),
         pc'[a] = "call" => t \in left'[a] /\ AtPhase(cursor'[a], t, tm),
         cloud' \in [Targets -> [Phases -> {"absent", "prior", "ours"}]]
  PROVE  IInv' /\ Keeps(store, store')
<1>1. /\ Types /\ HolderOK /\ Copies /\ pc \in [Procs -> PCs]
      /\ left \in [Procs -> SUBSET Targets] /\ DOMAIN cursor = Procs
      /\ holder \in Procs \cup {None} /\ left[a] \subseteq Targets
      /\ OwnedIsComplete(mem[a]) /\ Enterable(mem[a], left[a])
  BY DEF IInv, Types
<1>2. mem[a] = store /\ pc[a] \in Inside /\ holder = a /\ Command[a] # "import"
  BY <1>1 DEF Copies, Works, Inside, HolderOK
<1>3. t \in Targets
  BY <1>1
<1>4. /\ store' \in Manifest /\ mem' \in [Procs -> Manifest]
      /\ outdated' \in [Procs -> BOOLEAN]
      /\ mem'[a] = store' /\ store'[t] = tm
      /\ \A u \in Targets \ {t} : store'[u] = mem[a][u]
      /\ \A b \in Procs \ {a} : mem'[b] = mem[b] /\ (pc[b] # "new" => outdated'[b])
  BY <1>1, <1>3, SaveTargetFacts
<1>5. Keeps(store, store')
  <2> SUFFICES ASSUME NEW u \in Targets, NEW p \in Phases
               PROVE  /\ mem[a][u].ckpt[p] = "complete" => store'[u].ckpt[p] = "complete"
                      /\ mem[a][u].res[p] = "owned" => store'[u].res[p] = "owned"
    BY <1>2 DEF Keeps
  <2>1. CASE u = t
    BY <1>4, <2>1 DEF GoesOn
  <2>2. CASE u # t
    BY <1>4, <2>2
  <2> QED BY <2>1, <2>2
<1>6. OwnedIsComplete(store')
  <2> SUFFICES ASSUME NEW u \in Targets, NEW p \in Phases, store'[u].res[p] = "owned"
               PROVE  store'[u].ckpt[p] = "complete" /\ p \in Creates
    BY DEF OwnedIsComplete
  <2>1. CASE u = t
    BY <1>4, <2>1 DEF GoesOn
  <2>2. CASE u # t
    <3>1. store'[u] = mem[a][u]
      BY <1>4, <2>2
    <3>2. OwnedIsComplete(mem[a])
      BY <1>1
    <3> QED BY <3>1, <3>2 DEF OwnedIsComplete
  <2> QED BY <2>1, <2>2
<1>7. Enterable(store', left'[a])
  <2> SUFFICES ASSUME NEW u \in left'[a], NEW p \in Phases
               PROVE  store'[u].ckpt[p] \notin {"blocked", "failed"}
    BY DEF Enterable
  <2>1. CASE u = t
    BY <1>4, <2>1 DEF CanEnter
  <2>2. CASE u # t
    <3>1. u \in left[a] /\ u \in Targets
      BY <1>1
    <3>2. store'[u] = mem[a][u]
      BY <1>4, <2>2, <3>1
    <3>3. Enterable(mem[a], left[a])
      BY <1>1
    <3> QED BY <3>1, <3>2, <3>3 DEF Enterable
  <2> QED BY <2>1, <2>2
<1>8. Types'
  BY <1>1, <1>4 DEF Types
<1>9. InHandler(a, mem[a], cursor[a])'
  BY <1>4 DEF InHandler, AtPhase
<1>10. \A b \in Procs \ {a} : pc[b] \in Inside => holder' = b
  BY <1>1 DEF HolderOK
<1>11. ~HasLoaded(a)'
  BY DEF HasLoaded
<1> QED
  BY <1>2, <1>4, <1>5, <1>6, <1>7, <1>8, <1>9, <1>10, <1>11, OneCommand

\* A step that touches neither the store nor any copy keeps the invariant when
\* the lease goes with it.
LEMMA QuietStep ==
  ASSUME IInv, NEW a \in Procs, NEW l \in PCs, pc' = [pc EXCEPT ![a] = l],
         UNCHANGED <<store, mem, left, cursor, cloud, outdated>>,
         \/ l = "leased" /\ holder = None /\ holder' = a
            /\ (HasLoaded(a) \/ Command[a] = "import")
         \/ l \in {"done", "dead"} /\ pc[a] \in Inside /\ holder' = None
         \/ l = "done" /\ pc[a] \notin Inside /\ holder' = holder
  PROVE  IInv'
<1>1. /\ Types /\ HolderOK /\ Loads /\ pc \in [Procs -> PCs] /\ holder \in Procs \cup {None}
      /\ OwnedIsComplete(store)
      /\ OwnedIsComplete(mem[a]) /\ Enterable(mem[a], left[a])
      /\ Command[a] = "import" => left[a] = {}
  BY DEF IInv, Types
<1>2. pc'[a] = l /\ \A b \in Procs \ {a} : pc'[b] = pc[b]
  BY <1>1
<1>3. Types'
  BY <1>1 DEF Types
<1>4. \A b \in Procs \ {a} : pc[b] \in Inside => holder' = b
  BY <1>1, CommandsAssumption DEF HolderOK
<1>5. pc'[a] \in Inside => holder' = a
  BY <1>2 DEF Inside
<1>6. InHandler(a, mem[a], cursor[a])' /\ ~Works(a)' /\ pc'[a] # "call"
  BY <1>2 DEF InHandler, Works
<1>7. HasLoaded(a)' /\ ~outdated'[a] => FreshCopy(a)'
  BY <1>1, <1>2 DEF HasLoaded, Loads, FreshCopy, Loaded
<1> QED BY <1>1, <1>2, <1>3, <1>4, <1>5, <1>6, <1>7, OneCommand

-----------------------------------------------------------------------------
(* The actions *)

\* A loaded copy keeps the invariant, and only what may be entered is left to do in it.
LEMMA LoadStep ==
  ASSUME IInv, NEW a \in Procs, Load(a)
  PROVE  IInv' /\ store' = store
<1>0. PICK expired \in SUBSET Targets :
        /\ mem' = [mem EXCEPT ![a] = Loaded(a, expired)]
        /\ left' = [left EXCEPT ![a] = Pending(Loaded(a, expired))]
        /\ pc' = [pc EXCEPT ![a] = IF Pending(Loaded(a, expired)) = {} THEN "done"
                                  ELSE "loaded"]
  BY DEF Load
<1> DEFINE loaded == Loaded(a, expired)
           l == IF Pending(loaded) = {} THEN "done" ELSE "loaded"
<1>1. /\ pc[a] = "new" /\ Command[a] # "import"
      /\ mem' = [mem EXCEPT ![a] = loaded]
      /\ left' = [left EXCEPT ![a] = Pending(loaded)]
      /\ pc' = [pc EXCEPT ![a] = l]
      /\ outdated' = [outdated EXCEPT ![a] = FALSE]
      /\ UNCHANGED <<store, holder, cursor, cloud>>
  BY <1>0 DEF Load
<1>2. /\ Types /\ HolderOK /\ OwnedIsComplete(store) /\ store \in Manifest
      /\ pc \in [Procs -> PCs] /\ mem \in [Procs -> Manifest]
      /\ left \in [Procs -> SUBSET Targets] /\ outdated \in [Procs -> BOOLEAN]
  BY DEF IInv, Types
<1>3. loaded \in Manifest /\ OwnedIsComplete(loaded)
  BY <1>2, LoadedFacts
<1>4. Enterable(loaded, Pending(loaded)) /\ Pending(loaded) \in SUBSET Targets
  BY DEF Enterable, Pending, TargetIsResumable, CkptStates
<1>5. l \in {"done", "loaded"}
  OBVIOUS
<1> HIDE DEF loaded, l
<1>6. /\ pc'[a] = l /\ mem'[a] = loaded /\ left'[a] = Pending(loaded)
      /\ \A b \in Procs \ {a} : /\ pc'[b] = pc[b] /\ mem'[b] = mem[b] /\ left'[b] = left[b]
                                /\ cursor'[b] = cursor[b] /\ outdated'[b] = outdated[b]
  BY <1>1, <1>2
<1>7. Types'
  BY <1>1, <1>2, <1>3, <1>4, <1>5 DEF Types, PCs
<1>8. \A b \in Procs \ {a} : pc[b] \in Inside => holder' = b
  BY <1>1, <1>2 DEF HolderOK
<1>9. /\ pc'[a] \notin Inside /\ InHandler(a, mem[a], cursor[a])' /\ ~Works(a)'
      /\ pc'[a] # "call"
  BY <1>5, <1>6 DEF Inside, InHandler, Works
<1>10. FreshCopy(a)'
  BY <1>1, <1>6 DEF FreshCopy, Loaded, loaded
<1> QED
  BY <1>1, <1>2, <1>3, <1>4, <1>6, <1>7, <1>8, <1>9, <1>10, OneCommand

\* The lease is taken by a command that has loaded, or by an import.
LEMMA AcquireLeaseStep ==
  ASSUME IInv, NEW a \in Procs, AcquireLease(a)
  PROVE  IInv' /\ store' = store
<1>2. CASE holder = None
  <2>1. HasLoaded(a) \/ Command[a] = "import"
    BY DEF AcquireLease, HasLoaded
  <2> QED BY <1>2, <2>1, QuietStep DEF AcquireLease, PCs
<1>1. CASE holder # None
  <2>1. pc[a] \notin Inside
    BY DEF AcquireLease, Inside
  <2> QED BY <1>1, <2>1, QuietStep DEF AcquireLease, PCs
<1> QED BY <1>1, <1>2

\* The first save makes the copy of the command the store: if the copy is not
\* outdated this undoes no more than an expired verdict.
LEMMA FirstSaveStep ==
  ASSUME IInv, NEW a \in Procs, FirstSave(a)
  PROVE  IInv' /\ KeepsOrOutdated(a)
<1>1. /\ pc[a] = "leased" /\ Command[a] # "import"
      /\ store' = mem[a]
      /\ outdated' = [b \in Procs |-> outdated[b] \/ (b # a /\ pc[b] # "new")]
      /\ pc' = [pc EXCEPT ![a] = "work"]
      /\ UNCHANGED <<holder, mem, left, cursor, cloud>>
  BY DEF FirstSave, Save
<1>2. /\ Types /\ HolderOK /\ Loads /\ store \in Manifest /\ mem[a] \in Manifest
      /\ pc \in [Procs -> PCs]
      /\ OwnedIsComplete(store) /\ OwnedIsComplete(mem[a]) /\ Enterable(mem[a], left[a])
  BY DEF IInv, Types
<1>3. /\ pc'[a] = "work" /\ \A b \in Procs \ {a} : pc'[b] = pc[b]
      /\ \A b \in Procs \ {a} : pc[b] # "new" => outdated'[b]
  BY <1>1, <1>2
<1>4. KeepsOrOutdated(a)
  <2>1. CASE outdated[a]
    BY <1>1, <2>1 DEF KeepsOrOutdated, Inside
  <2>2. CASE ~outdated[a]
    <3>1. PICK expired \in SUBSET Targets : mem[a] = Loaded(a, expired)
      BY <1>1, <1>2, <2>2 DEF Loads, HasLoaded, FreshCopy
    <3> QED BY <1>1, <1>2, <3>1, LoadedFacts DEF KeepsOrOutdated
  <2> QED BY <2>1, <2>2
<1>5. outdated' \in [Procs -> BOOLEAN]
  <2>1. \A b \in Procs : (outdated[b] \/ (b # a /\ pc[b] # "new")) \in BOOLEAN
    BY <1>2 DEF Types
  <2> QED BY <1>1, <2>1
<1>6. Types'
  BY <1>1, <1>2, <1>5 DEF Types, PCs
<1>7. /\ pc[a] \in Inside /\ holder' = a /\ ~HasLoaded(a)' /\ mem'[a] = store'
      /\ InHandler(a, mem[a], cursor[a])' /\ pc'[a] # "call"
      /\ \A b \in Procs \ {a} : pc[b] \in Inside => holder' = b
  BY <1>1, <1>2, <1>3 DEF Inside, HolderOK, HasLoaded, InHandler
<1> QED BY <1>1, <1>2, <1>3, <1>4, <1>6, <1>7, OneCommand

\* A phase is entered that is not complete, and so not owned.
LEMMA EnterPhaseStep ==
  ASSUME IInv, NEW a \in Procs, NEW t \in Targets, EnterPhase(a, t)
  PROVE  IInv' /\ Keeps(store, store')
<1> DEFINE p == NextIncomplete(mem[a][t])
           tm == Checkpointed(mem[a][t], p, "running", {})
           c == [target |-> t, phase |-> p]
<1>1. /\ pc[a] = "work" /\ t \in left[a] /\ mem[a][t].ckpt[p] # "complete"
      /\ SaveTarget(a, t, tm)
      /\ cursor' = [cursor EXCEPT ![a] = c]
      /\ pc' = [pc EXCEPT ![a] = "call"]
      /\ UNCHANGED <<holder, left, cloud>>
  BY DEF EnterPhase
<1>2. p \in Phases
  BY NextIncompleteIsPhase
<1>3. /\ mem[a] \in Manifest /\ mem[a][t] \in TargetManifest
      /\ pc \in [Procs -> PCs] /\ left \in [Procs -> SUBSET Targets] /\ DOMAIN cursor = Procs
      /\ Targets # {} => cursor \in [Procs -> [target : Targets, phase : Phases]]
      /\ cloud \in [Targets -> [Phases -> {"absent", "prior", "ours"}]]
      /\ OwnedIsComplete(mem[a]) /\ Enterable(mem[a], left[a])
  BY DEF IInv, Types, Manifest
<1>4. Works(a)
  BY <1>1 DEF IInv, Works
<1>5. mem[a][t].ckpt[p] \in (PhaseState \cup {Absent}) \ {"complete", "blocked", "failed"}
  BY <1>1, <1>2, <1>3 DEF Enterable, TargetManifest
<1>6. "running" = mem[a][t].ckpt[p] \/ "running" \in AllowedFrom(mem[a][t].ckpt[p])
  BY <1>5 DEF AllowedFrom, PhaseState, Absent
<1>7. "running" \in PhaseState
  BY DEF PhaseState
<1> HIDE DEF p
<1>8. tm \in TargetManifest /\ tm.ckpt = [mem[a][t].ckpt EXCEPT ![p] = "running"]
      /\ tm.res = mem[a][t].res
  <2>1. mem[a][t] \in TargetManifest
    BY <1>3
  <2> QED BY <1>2, <1>6, <1>7, <2>1, CheckpointedFacts
<1>9. GoesOn(mem[a][t], tm) /\ CanEnter(tm) /\ tm.ckpt[p] = "running"
  BY <1>1, <1>2, <1>3, <1>8 DEF TargetManifest, OwnedIsComplete, Enterable, GoesOn, CanEnter
<1>10. c.target = t /\ c.phase = p /\ c \in [target : Targets, phase : Phases]
  BY <1>2
<1> HIDE DEF tm, c
<1>11. /\ pc' \in [Procs -> PCs] /\ pc'[a] = "call"
       /\ left' \in [Procs -> SUBSET Targets] /\ left'[a] = left[a]
       /\ DOMAIN cursor' = Procs /\ cursor'[a] = c
       /\ Targets # {} => cursor' \in [Procs -> [target : Targets, phase : Phases]]
       /\ \A b \in Procs \ {a} :
            pc'[b] = pc[b] /\ left'[b] = left[b] /\ cursor'[b] = cursor[b]
       /\ cloud' \in [Targets -> [Phases -> {"absent", "prior", "ours"}]]
       /\ holder' = holder
  BY <1>1, <1>3, <1>10 DEF PCs
<1>12. t \in left'[a] /\ AtPhase(cursor'[a], t, tm)
  BY <1>1, <1>2, <1>9, <1>10, <1>11 DEF AtPhase
<1> QED
  BY <1>1, <1>4, <1>8, <1>9, <1>11, <1>12, WorkStep

\* A target whose phases are all complete is complete.
LEMMA CompleteTargetStep ==
  ASSUME IInv, NEW a \in Procs, NEW t \in Targets, CompleteTarget(a, t)
  PROVE  IInv' /\ Keeps(store, store')
<1> DEFINE o == mem[a][t]
           tm == [o EXCEPT !.state = "complete",
                           !.readiness = IF o.readiness = "configured" THEN "collecting"
                                         ELSE o.readiness]
<1>1. /\ pc[a] = "work" /\ t \in left[a]
      /\ SaveTarget(a, t, tm)
      /\ left' = [left EXCEPT ![a] = left[a] \ {t}]
      /\ UNCHANGED <<holder, pc, cursor, cloud>>
  BY DEF CompleteTarget
<1>2. /\ mem[a] \in Manifest /\ mem[a][t] \in TargetManifest
      /\ pc \in [Procs -> PCs] /\ left \in [Procs -> SUBSET Targets] /\ DOMAIN cursor = Procs
      /\ Targets # {} => cursor \in [Procs -> [target : Targets, phase : Phases]]
      /\ cloud \in [Targets -> [Phases -> {"absent", "prior", "ours"}]]
      /\ OwnedIsComplete(mem[a])
  BY DEF IInv, Types, Manifest
<1>3. Works(a)
  BY <1>1 DEF IInv, Works
<1>4. tm \in TargetManifest /\ tm.ckpt = mem[a][t].ckpt /\ tm.res = mem[a][t].res
  BY <1>2 DEF TargetManifest, TargetState, Readiness
<1> HIDE DEF tm
<1>5. GoesOn(mem[a][t], tm)
  BY <1>2, <1>4 DEF OwnedIsComplete, GoesOn
<1>6. /\ pc' \in [Procs -> PCs] /\ pc'[a] = "work"
      /\ left' \in [Procs -> SUBSET Targets] /\ left'[a] = left[a] \ {t}
      /\ DOMAIN cursor' = Procs
      /\ Targets # {} => cursor' \in [Procs -> [target : Targets, phase : Phases]]
      /\ \A b \in Procs \ {a} :
           pc'[b] = pc[b] /\ left'[b] = left[b] /\ cursor'[b] = cursor[b]
      /\ cloud' \in [Targets -> [Phases -> {"absent", "prior", "ours"}]]
      /\ holder' = holder /\ t \notin left'[a]
  BY <1>1, <1>2 DEF PCs
<1> QED
  BY <1>1, <1>3, <1>4, <1>5, <1>6, WorkStep

\* A record of the phase p is new: OWNED where the run creates the resource.  The
\* record r of a phase that creates nothing stays.
LEMMA RecordFacts ==
  ASSUME Types, NEW t \in Targets, NEW p \in Phases, NEW r \in Ownership, CreateIn(t, p)
  PROVE  /\ Record(t, p, r) \in Ownership
         /\ p \notin Creates => Record(t, p, r) = r
         /\ cloud' \in [Targets -> [Phases -> {"absent", "prior", "ours"}]]
<1>1. Record(t, p, r) \in Ownership /\ (p \notin Creates => Record(t, p, r) = r)
  BY DEF Record, Ownership
<1>2. cloud \in [Targets -> [Phases -> {"absent", "prior", "ours"}]]
  BY DEF Types
<1>3. CASE p \in Creates /\ cloud[t][p] = "absent"
  BY <1>2, <1>3, <1>1 DEF CreateIn
<1>4. CASE ~(p \in Creates /\ cloud[t][p] = "absent")
  BY <1>2, <1>4, <1>1 DEF CreateIn
<1> QED BY <1>3, <1>4

\* A phase that ends RUNNING or HANDED_OFF is complete, with the record r for it, and
\* nothing else is changed.
Closes(tm, p, r, n) ==
  /\ tm.ckpt[p] \in {"running", "handed-off"}
  /\ \A q \in Phases : tm.res[q] = "owned" => tm.ckpt[q] = "complete" /\ q \in Creates
  /\ p \notin Creates => r = tm.res[p]
  /\ n.ckpt = Checkpointed(tm, p, "complete", {}).ckpt
  /\ n.res = [Checkpointed(tm, p, "complete", {}).res EXCEPT ![p] = r]

LEMMA ClosedFacts ==
  ASSUME NEW tm \in TargetManifest, NEW p \in Phases, NEW r \in Ownership, NEW n,
         Closes(tm, p, r, n)
  PROVE  /\ n.ckpt = [tm.ckpt EXCEPT ![p] = "complete"]
         /\ n.ckpt \in [Phases -> PhaseState \cup {Absent}]
         /\ n.res \in [Phases -> Ownership]
         /\ Checkpointed(tm, p, "complete", {}) \in TargetManifest
         /\ GoesOn(tm, n)
         /\ CanEnter(tm) => CanEnter(n)
<1> USE DEF Closes
<1>1. "complete" \in AllowedFrom(tm.ckpt[p]) /\ "complete" \in PhaseState
  BY DEF AllowedFrom, PhaseState, Absent
<1>2. /\ Checkpointed(tm, p, "complete", {}) \in TargetManifest
      /\ Checkpointed(tm, p, "complete", {}).ckpt = [tm.ckpt EXCEPT ![p] = "complete"]
      /\ Checkpointed(tm, p, "complete", {}).res = tm.res
  BY <1>1, CheckpointedFacts
<1>3. /\ tm.ckpt \in [Phases -> PhaseState \cup {Absent}] /\ tm.res \in [Phases -> Ownership]
  BY DEF TargetManifest
<1>4. n.ckpt = [tm.ckpt EXCEPT ![p] = "complete"] /\ n.res = [tm.res EXCEPT ![p] = r]
  BY <1>2
<1>5. n.ckpt \in [Phases -> PhaseState \cup {Absent}] /\ n.res \in [Phases -> Ownership]
  BY <1>1, <1>3, <1>4
<1>6. \A q \in Phases : /\ tm.ckpt[q] = "complete" => n.ckpt[q] = "complete"
                        /\ n.ckpt[q] \in {tm.ckpt[q], "complete"}
  BY <1>3, <1>4
<1>7. tm.res[p] # "owned" /\ n.ckpt[p] = "complete"
  BY <1>3, <1>4
<1>8. \A q \in Phases \ {p} : n.res[q] = tm.res[q]
  BY <1>3, <1>4
<1>9. \A q \in Phases : /\ tm.res[q] = "owned" => n.res[q] = "owned"
                        /\ n.res[q] = "owned" => n.ckpt[q] = "complete" /\ q \in Creates
  <2> TAKE q \in Phases
  <2>1. CASE q = p
    BY <1>3, <1>4, <1>7, <2>1
  <2>2. CASE q # p
    BY <1>6, <1>8, <2>2
  <2> QED BY <2>1, <2>2
<1>10. GoesOn(tm, n)
  BY <1>6, <1>9 DEF GoesOn
<1>11. CanEnter(tm) => CanEnter(n)
  BY <1>6 DEF CanEnter
<1> QED BY <1>2, <1>4, <1>5, <1>10, <1>11

\* What a command in a handler starts from.
LEMMA CallContext ==
  ASSUME IInv, NEW a \in Procs, pc[a] = "call"
  PROVE  /\ Works(a) /\ cursor[a].target \in Targets /\ cursor[a].target \in left[a]
         /\ cursor[a].phase \in Phases
         /\ mem[a][cursor[a].target] \in TargetManifest
         /\ mem[a][cursor[a].target].ckpt[cursor[a].phase] = "running"
         /\ \A q \in Phases : mem[a][cursor[a].target].res[q] = "owned" =>
              mem[a][cursor[a].target].ckpt[q] = "complete" /\ q \in Creates
         /\ CanEnter(mem[a][cursor[a].target])
         /\ Types
<1>1. /\ InHandler(a, mem[a], cursor[a]) /\ OwnedIsComplete(mem[a]) /\ Enterable(mem[a], left[a])
      /\ Types /\ mem[a] \in Manifest /\ left[a] \subseteq Targets
      /\ Command[a] # "import"
  BY DEF IInv, Types
<1>2. Works(a) /\ cursor[a].target \in Targets /\ cursor[a].target \in left[a]
  BY <1>1 DEF Works, InHandler
<1> QED
  BY <1>1, <1>2 DEF InHandler, OwnedIsComplete, Enterable, CanEnter, Manifest

\* The phase of the handler closes, and its resource is recorded.
LEMMA SucceedStep ==
  ASSUME IInv, NEW a \in Procs, Succeed(a)
  PROVE  IInv' /\ Keeps(store, store')
<1> DEFINE t == cursor[a].target
           p == cursor[a].phase
<1>0. PICK o \in Reported(mem[a][t], p) :
        SaveTarget(a, t, [Checkpointed(o, p, "complete", {}) EXCEPT !.res[p] = Record(t, p, @)])
  BY DEF Succeed
<1> DEFINE c == Checkpointed(o, p, "complete", {})
           r == Record(t, p, c.res[p])
           tm == [c EXCEPT !.res = [c.res EXCEPT ![p] = r]]
<1>1. /\ pc[a] = "call" /\ SaveTarget(a, t, tm) /\ CreateIn(t, p)
      /\ pc' = [pc EXCEPT ![a] = "work"]
      /\ UNCHANGED <<holder, left, cursor>>
  BY <1>0 DEF Succeed
<1>a. /\ Works(a) /\ t \in Targets /\ t \in left[a] /\ p \in Phases
      /\ mem[a][t] \in TargetManifest /\ mem[a][t].ckpt[p] = "running"
      /\ CanEnter(mem[a][t]) /\ Types
      /\ \A q \in Phases : mem[a][t].res[q] = "owned" =>
           mem[a][t].ckpt[q] = "complete" /\ q \in Creates
  BY <1>1, CallContext
<1> HIDE DEF t, p
<1>b. o \in TargetManifest /\ o.ckpt = mem[a][t].ckpt /\ o.res = mem[a][t].res
  <2> DEFINE v(q) == [mem[a][t] EXCEPT !.state = "running", !.readiness = q]
  <2>1. \A q \in Readiness : v(q) \in TargetManifest /\ v(q).ckpt = mem[a][t].ckpt
                            /\ v(q).res = mem[a][t].res
    BY <1>a DEF TargetManifest, TargetState
  <2>2. o = mem[a][t] \/ \E q \in {"ready", "collecting", "degraded"} : o = v(q)
    BY <1>0 DEF Reported
  <2> HIDE DEF v
  <2> QED BY <1>a, <2>1, <2>2 DEF Readiness
<1>2. /\ Works(a) /\ t \in Targets /\ t \in left[a] /\ p \in Phases
      /\ o \in TargetManifest /\ o.ckpt[p] = "running" /\ CanEnter(o) /\ Types
      /\ \A q \in Phases : o.res[q] = "owned" => o.ckpt[q] = "complete" /\ q \in Creates
  BY <1>a, <1>b DEF CanEnter
<1>3. /\ c \in TargetManifest /\ c.res = o.res
  <2>1. "complete" \in PhaseState /\ "complete" \in AllowedFrom(o.ckpt[p])
    BY <1>2 DEF PhaseState, AllowedFrom, Absent
  <2> QED BY <1>2, <2>1, CheckpointedFacts
<1>4. c.res[p] \in Ownership
  BY <1>2, <1>3 DEF TargetManifest
<1>5. /\ r \in Ownership /\ (p \notin Creates => r = o.res[p])
      /\ cloud' \in [Targets -> [Phases -> {"absent", "prior", "ours"}]]
  BY <1>1, <1>2, <1>3, <1>4, RecordFacts
<1>6. tm.ckpt = c.ckpt /\ tm.res = [c.res EXCEPT ![p] = r]
  BY <1>3 DEF TargetManifest
<1> HIDE DEF r
<1>7. tm \in TargetManifest
  BY <1>3, <1>5 DEF TargetManifest
<1> HIDE DEF tm
<1>8. GoesOn(o, tm) /\ CanEnter(tm)
  <2>1. Closes(o, p, r, tm)
    BY <1>2, <1>5, <1>6 DEF Closes
  <2> HIDE DEF c
  <2> QED BY <1>2, <1>5, <2>1, ClosedFacts
<1>9. /\ pc' \in [Procs -> PCs] /\ pc'[a] = "work"
      /\ left' \in [Procs -> SUBSET Targets] /\ left'[a] = left[a]
      /\ DOMAIN cursor' = Procs
      /\ Targets # {} => cursor' \in [Procs -> [target : Targets, phase : Phases]]
      /\ \A b \in Procs \ {a} :
           pc'[b] = pc[b] /\ left'[b] = left[b] /\ cursor'[b] = cursor[b]
      /\ holder' = holder
  BY <1>1, <1>2 DEF Types, PCs
<1>10. GoesOn(mem[a][t], tm)
  BY <1>8, <1>b DEF GoesOn
<1> QED
  BY <1>1, <1>2, <1>5, <1>7, <1>8, <1>9, <1>10, WorkStep

\* The phase of the handler is handed off or fails, and the target leaves the run.
LEMMA StopStep ==
  ASSUME IInv, NEW a \in Procs, HandOff(a) \/ Fail(a)
  PROVE  IInv' /\ Keeps(store, store')
<1>1. PICK state \in {"handed-off", "failed"}, readiness \in {"handed-off", "degraded"} :
        Stop(a, state, readiness)
  BY DEF HandOff, Fail
<1> DEFINE t == cursor[a].target
           p == cursor[a].phase
           o == mem[a][t]
           c == Checkpointed(o, p, state, {})
           tm == [c EXCEPT !.state = state, !.readiness = readiness]
<1>2. /\ pc[a] = "call" /\ SaveTarget(a, t, tm)
      /\ left' = [left EXCEPT ![a] = left[a] \ {t}]
      /\ pc' = [pc EXCEPT ![a] = "work"]
      /\ UNCHANGED <<holder, cursor, cloud>>
  BY <1>1 DEF Stop
<1>3. /\ Works(a) /\ t \in Targets /\ t \in left[a] /\ p \in Phases
      /\ o \in TargetManifest /\ o.ckpt[p] = "running" /\ Types
      /\ \A q \in Phases : o.res[q] = "owned" => o.ckpt[q] = "complete" /\ q \in Creates
  BY <1>2, CallContext
<1> HIDE DEF t, p, o
<1>4. state \in PhaseState /\ state \in AllowedFrom(o.ckpt[p])
  BY <1>3 DEF PhaseState, AllowedFrom, Absent
<1>5. c \in TargetManifest /\ c.ckpt = [o.ckpt EXCEPT ![p] = state] /\ c.res = o.res
  BY <1>3, <1>4, CheckpointedFacts
<1> HIDE DEF c
<1>6. tm \in TargetManifest /\ tm.ckpt = c.ckpt /\ tm.res = c.res
  BY <1>5 DEF TargetManifest, TargetState, Readiness
<1> HIDE DEF tm
<1>7. GoesOn(o, tm)
  BY <1>3, <1>5, <1>6 DEF GoesOn, TargetManifest
<1>8. /\ pc' \in [Procs -> PCs] /\ pc'[a] = "work"
      /\ left' \in [Procs -> SUBSET Targets] /\ left'[a] = left[a] \ {t} /\ t \notin left'[a]
      /\ DOMAIN cursor' = Procs
      /\ Targets # {} => cursor' \in [Procs -> [target : Targets, phase : Phases]]
      /\ \A b \in Procs \ {a} :
           pc'[b] = pc[b] /\ left'[b] = left[b] /\ cursor'[b] = cursor[b]
      /\ cloud' \in [Targets -> [Phases -> {"absent", "prior", "ours"}]]
      /\ holder' = holder
  BY <1>2, <1>3 DEF Types, PCs
<1>9. GoesOn(mem[a][t], tm)
  BY <1>7 DEF o
<1> QED
  BY <1>2, <1>3, <1>6, <1>8, <1>9, WorkStep

\* An import closes the handed-off phase of the manifest it has loaded under the
\* lease.
LEMMA ImportStep ==
  ASSUME IInv, NEW a \in Procs, NEW t \in Targets, NEW p \in Phases, Import(a, t, p)
  PROVE  IInv' /\ Keeps(store, store')
<1> DEFINE o == store[t]
           c == Checkpointed(o, p, "complete", {})
           r == Record(t, p, c.res[p])
           tm == [c EXCEPT !.state = "pending", !.readiness = "configured",
                           !.res = [c.res EXCEPT ![p] = r]]
<1>1. /\ pc[a] = "leased" /\ Command[a] = "import" /\ o.ckpt[p] = "handed-off"
      /\ store' = [store EXCEPT ![t] = tm]
      /\ outdated' = [b \in Procs |-> outdated[b] \/ (b # a /\ pc[b] # "new")]
      /\ CreateIn(t, p) /\ pc' = [pc EXCEPT ![a] = "work"]
      /\ UNCHANGED <<holder, mem, left, cursor>>
  BY DEF Import, Save
<1>2. /\ Types /\ HolderOK /\ store \in Manifest /\ pc \in [Procs -> PCs]
      /\ OwnedIsComplete(store) /\ OwnedIsComplete(mem[a]) /\ Enterable(mem[a], left[a])
      /\ left[a] = {}
  BY <1>1 DEF IInv, Types
<1>3. /\ o \in TargetManifest
      /\ \A q \in Phases : o.res[q] = "owned" => o.ckpt[q] = "complete" /\ q \in Creates
  BY <1>2 DEF Manifest, OwnedIsComplete
<1>4. /\ c \in TargetManifest /\ c.res = o.res
  <2>1. "complete" \in PhaseState /\ "complete" \in AllowedFrom(o.ckpt[p])
    BY <1>1 DEF PhaseState, AllowedFrom, Absent
  <2> QED BY <1>3, <2>1, CheckpointedFacts
<1>5. c.res[p] \in Ownership
  BY <1>4 DEF TargetManifest
<1>6. /\ r \in Ownership /\ (p \notin Creates => r = o.res[p])
      /\ cloud' \in [Targets -> [Phases -> {"absent", "prior", "ours"}]]
  BY <1>1, <1>2, <1>4, <1>5, RecordFacts
<1> HIDE DEF o
<1>7. tm.ckpt = c.ckpt /\ tm.res = [c.res EXCEPT ![p] = r]
  BY <1>4 DEF TargetManifest
<1> HIDE DEF r
<1>8. tm \in TargetManifest
  BY <1>4, <1>6 DEF TargetManifest, TargetState, Readiness
<1> HIDE DEF tm
<1>9. GoesOn(o, tm)
  <2>1. Closes(o, p, r, tm)
    BY <1>1, <1>3, <1>6, <1>7 DEF Closes
  <2> HIDE DEF c
  <2> QED BY <1>3, <1>6, <2>1, ClosedFacts
<1>10. /\ store' \in Manifest /\ store'[t] = tm
       /\ \A u \in Targets \ {t} : store'[u] = store[u]
  BY <1>1, <1>2, <1>8 DEF Manifest
<1>11. Keeps(store, store') /\ OwnedIsComplete(store')
  <2> SUFFICES ASSUME NEW u \in Targets, NEW q \in Phases
               PROVE  /\ store[u].ckpt[q] = "complete" => store'[u].ckpt[q] = "complete"
                      /\ store[u].res[q] = "owned" => store'[u].res[q] = "owned"
                      /\ store'[u].res[q] = "owned" =>
                           store'[u].ckpt[q] = "complete" /\ q \in Creates
    BY DEF Keeps, OwnedIsComplete
  <2>1. CASE u = t
    BY <1>9, <1>10, <2>1 DEF GoesOn, o
  <2>2. CASE u # t
    <3>1. store'[u] = store[u]
      BY <1>10, <2>2
    <3> QED BY <1>2, <3>1 DEF OwnedIsComplete
  <2> QED BY <2>1, <2>2
<1>12. outdated' \in [Procs -> BOOLEAN] /\ \A b \in Procs \ {a} : pc[b] # "new" => outdated'[b]
  <2>1. \A b \in Procs : (outdated[b] \/ (b # a /\ pc[b] # "new")) \in BOOLEAN
    BY <1>2 DEF Types
  <2> QED BY <1>1, <2>1
<1>13. pc' \in [Procs -> PCs] /\ pc'[a] = "work" /\ \A b \in Procs \ {a} : pc'[b] = pc[b]
  BY <1>1, <1>2 DEF PCs
<1>14. Types'
  BY <1>1, <1>2, <1>6, <1>10, <1>12, <1>13 DEF Types
<1>15. /\ pc[a] \in Inside /\ holder' = a /\ ~HasLoaded(a)' /\ ~Works(a)'
       /\ InHandler(a, mem[a], cursor[a])' /\ pc'[a] # "call"
       /\ \A b \in Procs \ {a} : pc[b] \in Inside => holder' = b
  BY <1>1, <1>2, <1>13 DEF Inside, HolderOK, HasLoaded, Works, InHandler
<1> QED
  BY <1>1, <1>2, <1>11, <1>12, <1>13, <1>14, <1>15, OneCommand

\* The end of a command and the death of one.
LEMMA EndStep ==
  ASSUME IInv, NEW a \in Procs, Finish(a) \/ Die(a)
  PROVE  IInv' /\ store' = store
<1>1. PICK l \in {"done", "dead"} : pc' = [pc EXCEPT ![a] = l]
  BY DEF Finish, Die
<1>2. pc[a] \in Inside /\ holder' = None /\ UNCHANGED <<store, mem, left, cursor, cloud, outdated>>
  BY DEF Finish, Die, Inside
<1>3. l \in PCs
  BY DEF PCs
<1> QED BY <1>1, <1>2, <1>3, QuietStep

-----------------------------------------------------------------------------
(* Theorems *)

\* At first nobody has the lease, a copy or anything to do.
LEMMA CommandsInit == Init => IInv
<1> SUFFICES ASSUME Init PROVE IInv
  OBVIOUS
<1>1. FreshTarget \in TargetManifest
  BY DEF FreshTarget, TargetManifest, TargetState, Readiness, Ownership, PhaseState
<1>2. /\ store = [t \in Targets |-> FreshTarget] /\ holder = None
      /\ pc = [a \in Procs |-> "new"] /\ mem = [a \in Procs |-> store]
      /\ left = [a \in Procs |-> {}] /\ outdated = [a \in Procs |-> FALSE]
      /\ cursor = [a \in Procs |-> [target |-> CHOOSE t \in Targets : TRUE, phase |-> 1]]
  BY DEF Init
<1>3. cloud \in [Targets -> [Phases -> {"absent", "prior", "ours"}]]
  BY DEF Init
<1>4. store \in Manifest /\ mem \in [Procs -> Manifest]
  BY <1>1, <1>2 DEF Manifest
<1>5. Targets # {} => cursor \in [Procs -> [target : Targets, phase : Phases]]
  <2>1. 1 \in Phases
    BY PhasesAssumption DEF Phases
  <2>2. Targets # {} => (CHOOSE t \in Targets : TRUE) \in Targets
    OBVIOUS
  <2> QED BY <1>2, <2>1, <2>2
<1>6. Types
  BY <1>2, <1>3, <1>4, <1>5 DEF Types, PCs
<1>7. \A t \in Targets : store[t] = FreshTarget
  BY <1>2
<1>8. OwnedIsComplete(store)
  BY <1>7 DEF OwnedIsComplete, FreshTarget
<1>9. /\ HolderOK /\ Copies /\ Loads
      /\ \A a \in Procs : /\ Enterable(mem[a], left[a]) /\ InHandler(a, mem[a], cursor[a])
                          /\ Command[a] = "import" => left[a] = {} /\ pc[a] # "call"
                          /\ mem[a] = store
  BY <1>2 DEF HolderOK, Copies, Loads, Works, HasLoaded, Inside, Enterable, InHandler
<1> QED BY <1>6, <1>8, <1>9 DEF IInv

\* Every step of a command keeps the invariant, and undoes nothing unless it saves
\* an outdated copy.
LEMMA CommandStep ==
  ASSUME IInv, NEW a \in Procs, Step(a)
  PROVE  IInv' /\ KeepsOrOutdated(a)
<1>1. /\ store' = store => KeepsUnlessReady(store, store')
      /\ Keeps(store, store') => KeepsUnlessReady(store, store')
  BY DEF Keeps, KeepsUnlessReady
<1>2. CASE Load(a)
  BY <1>1, <1>2, LoadStep DEF KeepsOrOutdated
<1>3. CASE AcquireLease(a)
  BY <1>1, <1>3, AcquireLeaseStep DEF KeepsOrOutdated
<1>4. CASE FirstSave(a)
  BY <1>4, FirstSaveStep
<1>5. CASE \E t \in Targets : EnterPhase(a, t) \/ CompleteTarget(a, t)
  BY <1>1, <1>5, EnterPhaseStep, CompleteTargetStep DEF KeepsOrOutdated
<1>6. CASE Succeed(a)
  BY <1>1, <1>6, SucceedStep DEF KeepsOrOutdated
<1>7. CASE HandOff(a) \/ Fail(a)
  BY <1>1, <1>7, StopStep DEF KeepsOrOutdated
<1>8. CASE \E t \in Targets, p \in Phases : Import(a, t, p)
  BY <1>1, <1>8, ImportStep DEF KeepsOrOutdated
<1>9. CASE Finish(a) \/ Die(a)
  BY <1>1, <1>9, EndStep DEF KeepsOrOutdated
<1> QED
  BY <1>2, <1>3, <1>4, <1>5, <1>6, <1>7, <1>8, <1>9 DEF Step

\* A stuttering step changes nothing.
LEMMA CommandsStutter ==
  ASSUME IInv, UNCHANGED vars
  PROVE  IInv' /\ Keeps(store, store')
  BY DEF vars, IInv, Types, HolderOK, Copies, Loads, FreshCopy, Loaded, Works, HasLoaded,
       InHandler, Keeps

\* The invariant is inductive.
LEMMA CommandsNext == IInv /\ [Next]_vars => IInv'
  BY CommandStep, CommandsStutter DEF Next

\* The lease, the copies and the records, for any number of commands, targets and
\* phases (cli.py _cmd_resume, _cmd_import_handoff; fleet_executor.py execute).
THEOREM CommandsInvariant == Spec => []IInv
  BY CommandsInit, CommandsNext, PTL DEF Spec

\* The types of the store, of every copy and of the cloud, for a plan with a target.
THEOREM CommandsTypeOK ==
  ASSUME Targets # {}
  PROVE  Spec => []TypeOK
<1>1. IInv => TypeOK
  BY DEF IInv, Types, TypeOK, Manifest
<1> QED BY <1>1, CommandsInvariant, PTL

\* Two commands on one run never call a phase handler at the same time
\* (FleetOnboardingExecutor.execute: acquire_lease before the first save).
THEOREM CommandsHandlersExclusive == Spec => []HandlersExclusive
<1>1. IInv => HandlersExclusive
  BY DEF IInv, HolderOK, Inside, HandlersExclusive
<1> QED BY <1>1, CommandsInvariant, PTL

\* A recorded ownership, and a completed phase other than the validation of a target
\* that the store says is READY, is undone only by a save of a copy that was loaded,
\* before the lease was asked for, and that another command has saved over since
\* (FleetOnboardingExecutor.execute: load, refresh, acquire_lease, save).
THEOREM CommandsOnlyOutdatedCopiesUndo == Spec => OnlyOutdatedCopiesUndo
<1> DEFINE A == \A a \in Procs : holder = a /\ Undone => outdated[a]
<1>1. IInv /\ [Next]_vars => [A]_vars
  <2> SUFFICES ASSUME IInv, Next, NEW a \in Procs, holder = a, Undone
               PROVE  outdated[a]
    OBVIOUS
  <2>1. PICK b \in Procs : Step(b)
    BY DEF Next
  <2>2. ~KeepsUnlessReady(store, store')
    BY DEF Undone, Revalidated, KeepsUnlessReady
  <2>3. pc[b] \in Inside /\ outdated[b]
    BY <2>1, <2>2, CommandStep DEF KeepsOrOutdated
  <2>4. b = a
    BY <2>3 DEF IInv, HolderOK
  <2> QED BY <2>3, <2>4
<1>2. Spec => [][A]_vars
  BY <1>1, CommandsInvariant, PTL DEF Spec
<1> QED BY <1>2 DEF OnlyOutdatedCopiesUndo

-----------------------------------------------------------------------------
(* The run lease *)

\* What makes exclusion inductive: a process at work has its heartbeat running,
\* owns the row, and the row outlives the next heartbeat by TTL - Interval.
Owned(a) ==
  /\ ticking[a]
  /\ lease.owner = a
  /\ lease.left = TTL - Interval + beat[a]

Punctual ==
  /\ \A a \in Actors : Alive(a) => Owned(a)
  /\ \A a \in Actors : ticking[a] => Alive(a) /\ ~TooLate(beat[a])
  /\ \A a \in Actors : ~lost[a]

LeaseIInv == LeaseTypes /\ (~late => Punctual)

\* A process at work holds a lease that has not expired.
LEMMA OwnedIsRenewable ==
  ASSUME LeaseTypes, Punctual, NEW a \in Actors, Alive(a)
  PROVE  Renewable(a)
BY TimingAssumption DEF LeaseTypes, Punctual, Owned, Renewable, TooLate

\* While one process is at work no other can acquire the lease.
LEMMA NobodyElseAcquires ==
  ASSUME LeaseTypes, Punctual, NEW a \in Actors, NEW b \in Actors, Alive(a), Acquirable(b)
  PROVE  FALSE
BY OwnedIsRenewable, ActorsAssumption DEF Renewable, Acquirable

\* The invariant holds initially.
LEMMA LeaseIInvInit == LeaseInit => LeaseIInv
<1> SUFFICES ASSUME LeaseInit PROVE LeaseTypes /\ Punctual
  BY DEF LeaseIInv
<1>1. LeaseTypes
  <2>1. late \in BOOLEAN /\ lost \in [Actors -> BOOLEAN] /\ ticking \in [Actors -> BOOLEAN]
    BY DEF LeaseInit
  <2>2. lease \in [owner : Actors \cup {NoOwner}, left : 0 .. TTL]
    BY TimingAssumption DEF LeaseInit, NoLease
  <2>3. stage \in [Actors -> Stages]
    BY DEF LeaseInit, Stages
  <2>4. 0 \in -Delay .. Interval
    BY TimingAssumption
  <2>5. beat \in [Actors -> -Delay .. Interval]
    BY <2>4 DEF LeaseInit
  <2> QED BY <2>1, <2>2, <2>3, <2>5 DEF LeaseTypes
<1>2. Punctual
  BY DEF LeaseInit, Punctual, Alive
<1> QED BY <1>1, <1>2

\* Every step keeps the types.
LEMMA NextTypeOK == LeaseTypes /\ [LeaseNext]_leaseVars => LeaseTypes'
<1> SUFFICES ASSUME LeaseTypes, [LeaseNext]_leaseVars PROVE LeaseTypes'
  OBVIOUS
<1> USE TimingAssumption, ActorsAssumption DEF LeaseTypes
<1>1. ASSUME NEW a \in Actors, Acquire(a) PROVE LeaseTypes'
  BY <1>1 DEF Acquire, Stages
<1>2. ASSUME NEW a \in Actors, Refuse(a) PROVE LeaseTypes'
  BY <1>2 DEF Refuse, Stages
<1>3. ASSUME NEW a \in Actors, EnterWrite(a) PROVE LeaseTypes'
  BY <1>3 DEF EnterWrite, Stages
<1>4. ASSUME NEW a \in Actors, LeaveWrite(a) PROVE LeaseTypes'
  BY <1>4 DEF LeaveWrite, Stages
<1>5. ASSUME NEW a \in Actors, StopHeartbeat(a) PROVE LeaseTypes'
  BY <1>5 DEF StopHeartbeat, Stages
<1>6. ASSUME NEW a \in Actors, Release(a) PROVE LeaseTypes'
  BY <1>6 DEF Release, NoLease, Stages
<1>7. ASSUME NEW a \in Actors, Dies(a) PROVE LeaseTypes'
  BY <1>7 DEF Dies, Stages
<1>8. ASSUME NEW a \in Actors, Renew(a) PROVE LeaseTypes'
  <2>1. CASE Renewable(a)
    BY <1>8, <2>1 DEF Renew
  <2>2. CASE ~Renewable(a)
    BY <1>8, <2>2 DEF Renew
  <2> QED BY <2>1, <2>2
<1>9. ASSUME NEW a \in Actors, RenewFails(a) PROVE LeaseTypes'
  BY <1>9 DEF RenewFails
<1>10. ASSUME Tick PROVE LeaseTypes'
  BY <1>10 DEF Tick
<1>11. CASE UNCHANGED leaseVars
  BY <1>11 DEF leaseVars
<1> QED
  BY <1>1, <1>2, <1>3, <1>4, <1>5, <1>6, <1>7, <1>8, <1>9, <1>10, <1>11
  DEF LeaseNext, ActorStep

\* A step after which no heartbeat has been too late keeps the processes in time.
LEMMA NextPunctual == LeaseIInv /\ [LeaseNext]_leaseVars /\ ~late' => Punctual'
<1> SUFFICES ASSUME LeaseIInv, [LeaseNext]_leaseVars, ~late' PROVE Punctual'
  OBVIOUS
<1>0. LeaseTypes /\ LeaseTypes' /\ ~late /\ Punctual
  <2>1. ~late
    BY DEF LeaseNext, ActorStep, Acquire, Refuse, EnterWrite, LeaveWrite, StopHeartbeat,
           Release, Dies, Renew, RenewFails, Tick, leaseVars
  <2> QED BY <2>1, NextTypeOK DEF LeaseIInv
<1> USE <1>0, TimingAssumption, ActorsAssumption DEF LeaseTypes, Punctual
<1>1. ASSUME NEW a \in Actors, Acquire(a) PROVE Punctual'
  <2>1. \A b \in Actors : ~Alive(b)
    BY <1>1, NobodyElseAcquires DEF Acquire
  <2>2. \A b \in Actors : Alive(b)' => b = a
    BY <1>1, <2>1 DEF Acquire, Alive
  <2> QED BY <1>1, <2>1, <2>2 DEF Acquire, Alive, Owned, TooLate
<1>2. ASSUME NEW a \in Actors, Refuse(a) PROVE Punctual'
  BY <1>2 DEF Refuse, Alive, Owned
<1>3. ASSUME NEW a \in Actors, EnterWrite(a) PROVE Punctual'
  BY <1>3 DEF EnterWrite, Alive, Owned
<1>4. ASSUME NEW a \in Actors, LeaveWrite(a) PROVE Punctual'
  BY <1>4 DEF LeaveWrite, Alive, Owned
<1>5. ASSUME NEW a \in Actors, StopHeartbeat(a) PROVE Punctual'
  BY <1>5 DEF StopHeartbeat, Alive, Owned
<1>6. ASSUME NEW a \in Actors, Release(a) PROVE Punctual'
  <2>1. ~Alive(a) /\ ~Alive(a)'
    BY <1>6 DEF Release, Alive
  <2>2. \A b \in Actors : Alive(b)' => Alive(b) /\ lease.owner # a
    BY <1>6, <2>1 DEF Release, Alive, Owned
  <2>3. (\E b \in Actors : Alive(b)') => UNCHANGED lease
    BY <1>6, <2>2 DEF Release
  <2> QED BY <1>6, <2>2, <2>3 DEF Release, Alive, Owned
<1>7. ASSUME NEW a \in Actors, Dies(a) PROVE Punctual'
  BY <1>7 DEF Dies, Alive, Owned
<1>8. ASSUME NEW a \in Actors, Renew(a) PROVE Punctual'
  <2>1. Alive(a) /\ Renewable(a)
    BY <1>8, OwnedIsRenewable DEF Renew
  <2>2. \A b \in Actors : Alive(b) => b = a
    BY <2>1 DEF Renewable, Owned
  <2> QED BY <1>8, <2>1, <2>2 DEF Renew, Alive, Owned, TooLate
<1>9. ASSUME NEW a \in Actors, RenewFails(a) PROVE Punctual'
  BY <1>9 DEF RenewFails
<1>10. ASSUME Tick PROVE Punctual'
  <2>1. \A a \in Actors : Alive(a) => lease.left > 0
    BY OwnedIsRenewable DEF Renewable
  <2>2. \A a \in Actors : Alive(a) => Owned(a)'
    BY <1>10, <2>1 DEF Tick, Owned
  <2>3. \A a \in Actors : ticking[a] => ~TooLate(beat[a] - 1)
    BY <1>10 DEF Tick
  <2> QED BY <1>10, <2>2, <2>3 DEF Tick, Alive
<1>11. CASE UNCHANGED leaseVars
  BY <1>11 DEF leaseVars, Alive, Owned
<1> QED
  BY <1>1, <1>2, <1>3, <1>4, <1>5, <1>6, <1>7, <1>8, <1>9, <1>10, <1>11
  DEF LeaseNext, ActorStep, LeaseIInv

\* The strengthening holds in every reachable state.
THEOREM LeaseInvariant == LeaseSpec => []LeaseIInv
<1>1. LeaseInit => LeaseIInv
  BY LeaseIInvInit
<1>2. LeaseIInv /\ [LeaseNext]_leaseVars => LeaseIInv'
  BY NextTypeOK, NextPunctual DEF LeaseIInv
<1> QED BY <1>1, <1>2, PTL DEF LeaseSpec

\* Types: the invariant LeaseTypes of the runs, for every value of the constants.
THEOREM LeaseTypeOK == LeaseSpec => []LeaseTypes
<1>1. LeaseIInv => LeaseTypes
  BY DEF LeaseIInv
<1> QED BY <1>1, LeaseInvariant, PTL

\* As long as no heartbeat is too late or fails, a process past the fence owns an
\* unexpired lease, so that nothing it sends or saves is stale (LeaseHeartbeat).
THEOREM LeasePunctualWriter == LeaseSpec => []PunctualWriterOwnsLease
<1>1. LeaseIInv => PunctualWriterOwnsLease
  BY OwnedIsRenewable DEF LeaseIInv, PunctualWriterOwnsLease, WriterOwnsLease, Alive
<1> QED BY <1>1, LeaseInvariant, PTL

\* Under the same condition at most one process is past the fence.
THEOREM LeaseOneWriter == LeaseSpec => []OneWriter
<1>1. LeaseIInv => OneWriter
  BY OwnedIsRenewable DEF LeaseIInv, OneWriter, Alive, Renewable
<1> QED BY <1>1, LeaseInvariant, PTL

\* The row of the lease changes hands only when its owner deletes it or when it
\* has expired, whatever the heartbeats do (acquire_lease, release_lease).
THEOREM LeaseNeverStolen == LeaseSpec => NeverStolen
<1> DEFINE A == \A a \in Actors :
      lease.owner = a /\ lease'.owner # a => stage[a] = "closing" \/ lease.left = 0
<1>1. LeaseTypes /\ [LeaseNext]_leaseVars => [A]_leaseVars
  <2> SUFFICES ASSUME LeaseTypes, [LeaseNext]_leaseVars, NEW a \in Actors,
                      lease.owner = a, lease'.owner # a
               PROVE  stage[a] = "closing" \/ lease.left = 0
    OBVIOUS
  <2> USE DEF LeaseTypes
  <2>1. ASSUME NEW b \in Actors, Acquire(b) PROVE lease.left = 0
    BY <2>1, ActorsAssumption DEF Acquire, Acquirable
  <2>2. ASSUME NEW b \in Actors, Release(b) PROVE stage[a] = "closing"
    BY <2>2 DEF Release
  <2>3. ASSUME NEW b \in Actors,
               Refuse(b) \/ EnterWrite(b) \/ LeaveWrite(b) \/ StopHeartbeat(b)
                 \/ Dies(b) \/ RenewFails(b) \/ UNCHANGED leaseVars
        PROVE  FALSE
    BY <2>3 DEF Refuse, EnterWrite, LeaveWrite, StopHeartbeat, Dies, RenewFails, leaseVars
  <2>4. ASSUME NEW b \in Actors, Renew(b) PROVE FALSE
    BY <2>4 DEF Renew
  <2>5. ASSUME Tick PROVE FALSE
    BY <2>5 DEF Tick
  <2> QED BY <2>1, <2>2, <2>3, <2>4, <2>5 DEF LeaseNext, ActorStep
<1> QED BY <1>1, LeaseTypeOK, PTL DEF LeaseSpec, NeverStolen
=============================================================================
