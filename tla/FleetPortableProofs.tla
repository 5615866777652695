------------------------ MODULE FleetPortableProofs -------------------------
(***************************************************************************)
(* Proofs about FleetPortable, for any hosts, commands and items, and for  *)
(* clocks that disagree in any way.  Two facts carry them.                 *)
(*                                                                         *)
(* Exclusion (Exclusive): until a lease runs out under its owner, whoever  *)
(* is active owns the unexpired remote lease.                              *)
(*                                                                         *)
(* Freshness (CacheFresh, MemFresh): on a host that is not mixed, as long  *)
(* as somebody's pull is of the current version of the object, the cache   *)
(* and every manifest read from it since then contain what the object has  *)
(* done.  It does not depend on leases: a save or a pull keeps it, and an  *)
(* upload makes every earlier pull out of date.                            *)
(***************************************************************************)
EXTENDS FleetPortable, TLAPS

USE PortableAssumption

-----------------------------------------------------------------------------
(* The invariant *)

\* An unexpired lease was written by somebody.
LeaseWritten == rlease.open => rlease.owner # None

\* Until a lease lapses, an active process owns it.
Exclusive ==
  ~lapsed => \A p \in Procs : Active(p) => rlease.owner = p /\ rlease.open

\* Before the first upload there is nothing in the object.
NothingUploaded == object.etag = 0 => object.db.done = {}

\* No process knows a version that does not exist yet.
KnownVersions == \A p \in Procs : proc[p].etag <= object.etag

\* The version p has pulled is still the current one.
UpToDate(p) == proc[p].etag = object.etag /\ object.etag # 0

CacheFresh ==
  \A p \in Procs :
    UpToDate(p) /\ HostOf[p] \notin mixed
      => object.db.done \subseteq cache[HostOf[p]].done

MemFresh ==
  \A p, q \in Procs :
    /\ UpToDate(p) /\ HostOf[p] \notin mixed
    /\ HostOf[q] = HostOf[p] /\ Loaded(q) /\ ~proc[q].overwritten
    => object.db.done \subseteq proc[q].mem

\* What a process still has to do is not done, and its call is of an item.
LeftOpen ==
  \A p \in Procs :
    /\ proc[p].pc \in {"work", "call"} => proc[p].left \cap proc[p].mem = {}
    /\ proc[p].pc = "call" => proc[p].at \in Items

\* What a process has completed is in the cache of its host.
MemCached ==
  \A p \in Procs :
    Loaded(p) /\ ~proc[p].overwritten /\ ~lapsed
      => proc[p].mem \subseteq cache[HostOf[p]].done

IInv ==
  /\ TypeOK /\ LeaseWritten /\ Exclusive
  /\ NothingUploaded /\ KnownVersions /\ CacheFresh /\ MemFresh
  /\ LeftOpen /\ MemCached

-----------------------------------------------------------------------------
(* Each action keeps it *)

\* The branches of the actions that have two.
Ends(p) == End(p) /\ UNCHANGED <<object, rlease, cache, lapsed, mixed>>
GivesUp(p) ==
  Goto(p, "close") /\ UNCHANGED <<object, rlease, cache, lapsed, mixed>>

\* What a process is after its pull, and what another process notices.
Puller(p) ==
  [At(IF Command[p] = "status" THEN "done" ELSE "pulled")
     EXCEPT !.etag = IF Command[p] = "status" THEN 0 ELSE object.etag]
PulledOver(p, q) ==
  [proc[q] EXCEPT !.overwritten = @ \/ (HostOf[q] = HostOf[p] /\ Loaded(q))]

PullsObject(p) ==
  /\ object.etag # 0
  /\ cache' = [cache EXCEPT ![HostOf[p]] = object.db]
  /\ mixed' = mixed \ {HostOf[p]}
  /\ proc' = [q \in Procs |-> IF q = p THEN Puller(p) ELSE PulledOver(p, q)]
  /\ UNCHANGED <<object, rlease, lapsed>>

LocksRow(p) ==
  /\ cache' = [cache EXCEPT ![HostOf[p]].row = p]
  /\ Goto(p, "local")
  /\ UNCHANGED <<object, rlease, lapsed, mixed>>

TakesLease(p) ==
  /\ ~rlease.open /\ rlease' = [owner |-> p, open |-> TRUE]
  /\ Goto(p, "remote")
  /\ UNCHANGED <<object, cache, lapsed, mixed>>

Loads(p) ==
  /\ proc[p].pc = "remote"
  /\ cache' = [cache EXCEPT ![HostOf[p]].row = p]
  /\ proc' = [proc EXCEPT ![p].pc = "work", ![p].mem = cache[HostOf[p]].done,
                          ![p].left = Items \ cache[HostOf[p]].done]
  /\ UNCHANGED <<object, rlease, lapsed, mixed>>

\* Each of them does one of two things.
LEMMA Branches ==
  \A p \in Procs :
    /\ Pull(p) => Ends(p) \/ PullsObject(p)
    /\ AcquireLocal(p) => LocksRow(p) \/ Ends(p)
    /\ AcquireRemote(p) => GivesUp(p) \/ TakesLease(p)
    /\ Begin(p) => Loads(p) \/ GivesUp(p)
<1> SUFFICES ASSUME NEW p \in Procs
    PROVE /\ Pull(p) => Ends(p) \/ PullsObject(p)
          /\ AcquireLocal(p) => LocksRow(p) \/ Ends(p)
          /\ AcquireRemote(p) => GivesUp(p) \/ TakesLease(p)
          /\ Begin(p) => Loads(p) \/ GivesUp(p)
  OBVIOUS
<1>1. Pull(p) => Ends(p) \/ PullsObject(p)
  BY DEF Pull, Ends, PullsObject, Puller, PulledOver
<1>2. AcquireLocal(p) => LocksRow(p) \/ Ends(p)
  BY DEF AcquireLocal, LocksRow, Ends
<1>3. AcquireRemote(p) => GivesUp(p) \/ TakesLease(p)
  BY DEF AcquireRemote, GivesUp, TakesLease
<1>4. Begin(p) => Loads(p) \/ GivesUp(p)
  BY DEF Begin, Loads, GivesUp
<1> QED
  BY <1>1, <1>2, <1>3, <1>4

\* What a pull by p leaves of the record of q.
Pulled(p, q) ==
  /\ q = p => /\ proc'[q].pc \in {"done", "pulled"}
              /\ proc'[q].etag \in {0, object.etag}
  /\ q # p => /\ proc'[q].pc = proc[q].pc
              /\ proc'[q].etag = proc[q].etag
              /\ proc'[q].mem = proc[q].mem
              /\ proc'[q].left = proc[q].left
              /\ proc'[q].at = proc[q].at
              /\ proc[q].overwritten => proc'[q].overwritten
              /\ HostOf[q] = HostOf[p] /\ Loaded(q) => proc'[q].overwritten

\* A pull does that.
LEMMA PulledFields ==
  ASSUME TypeOK, NEW p \in Procs, PullsObject(p), NEW q \in Procs
  PROVE  Pulled(p, q)
<1> USE DEF TypeOK, Process, Pulled
<1>1. CASE q = p
  BY <1>1 DEF PullsObject, Puller, At
<1>2. CASE q # p
  <2>1. proc'[q] = PulledOver(p, q) /\ proc[q] \in Process
    BY <1>2 DEF PullsObject
  <2> QED
    BY <1>2, <2>1 DEF PulledOver
<1> QED
  BY <1>1, <1>2

\* Updates of a process record, which keep its type.
Goes(r, l) == [r EXCEPT !.pc = l]
Calling(r, i) == [r EXCEPT !.pc = "call", !.at = i]
Loading(r, m, n) == [r EXCEPT !.pc = "work", !.mem = m, !.left = n]
Saving(r, m, n) ==
  [r EXCEPT !.pc = "work", !.mem = m, !.left = n, !.at = None]
Importing(r, m) == [r EXCEPT !.pc = "push", !.mem = m]
Losing(r, f) == IF f = "rlost" THEN [r EXCEPT !.rlost = TRUE]
                               ELSE [r EXCEPT !.llost = TRUE]
Marking(r, b) == [r EXCEPT !.overwritten = b]

\* A jump keeps the type.
LEMMA GoesType == \A r \in Process, l \in PCs : Goes(r, l) \in Process
  BY DEF Process, Goes

\* So does the entry of a call,
LEMMA CallingType == \A r \in Process, i \in Items : Calling(r, i) \in Process
  BY DEF Process, PCs, Calling

\* reading the manifest,
LEMMA LoadingType ==
  \A r \in Process, m, n \in SUBSET Items : Loading(r, m, n) \in Process
  BY DEF Process, PCs, Loading

\* saving it,
LEMMA SavingType ==
  \A r \in Process, m, n \in SUBSET Items : Saving(r, m, n) \in Process
  BY DEF Process, PCs, Saving

\* an import,
LEMMA ImportingType ==
  \A r \in Process, m \in SUBSET Items : Importing(r, m) \in Process
  BY DEF Process, PCs, Importing

\* a heartbeat that gives up,
LEMMA LosingType ==
  \A r \in Process :
    Losing(r, "rlost") \in Process /\ Losing(r, "llost") \in Process
  BY DEF Process, Losing

\* and a pull over the cache.
LEMMA MarkingType ==
  \A r \in Process, b \in BOOLEAN : Marking(r, b) \in Process
  BY DEF Process, Marking

\* proc' when one record changes.
LEMMA OneChanges ==
  ASSUME TypeOK, NEW p \in Procs, NEW r \in Process,
         proc' = [proc EXCEPT ![p] = r]
  PROVE  proc' \in [Procs -> Process]
  BY DEF TypeOK

\* A jump keeps the types.
LEMMA GotoTypes ==
  ASSUME TypeOK, NEW p \in Procs, NEW l \in PCs, Goto(p, l)
  PROVE  proc' \in [Procs -> Process]
<1>1. proc[p] \in Process
  BY DEF TypeOK
<1>2. Goes(proc[p], l) \in Process
  BY <1>1, GoesType
<1>3. proc' = [proc EXCEPT ![p] = Goes(proc[p], l)]
  BY DEF Goto, Goes
<1> QED
  BY <1>2, <1>3, OneChanges

\* Types.  A completed item is that of the call, so it is an item.
LEMMA TypeStep == TypeOK /\ LeftOpen /\ [Next]_vars => TypeOK'
<1> SUFFICES ASSUME TypeOK, LeftOpen, [Next]_vars PROVE TypeOK'
  OBVIOUS
<1> DEFINE Others ==
      /\ object' \in [etag : Nat, db : Database]
      /\ rlease' \in [owner : Procs \cup {None}, open : BOOLEAN]
      /\ cache' \in [Hosts -> Database]
      /\ lapsed' \in BOOLEAN
      /\ mixed' \subseteq Hosts
<1>a. ASSUME Others, proc' \in [Procs -> Process] PROVE TypeOK'
  BY <1>a DEF TypeOK
<1>b. /\ "done" \in PCs /\ "close" \in PCs /\ "local" \in PCs
      /\ "remote" \in PCs /\ "work" \in PCs /\ "call" \in PCs /\ "push" \in PCs
      /\ "pulled" \in PCs
  BY DEF PCs
<1>c. \A l \in PCs : At(l) \in Process
  BY DEF At, Process
<1>d. \A p \in Procs :
        proc[p] \in Process /\ cache[HostOf[p]].done \subseteq Items
  BY DEF TypeOK, Database
<1>1. ASSUME NEW p \in Procs, Ends(p) PROVE TypeOK'
  <2>1. Others
    BY <1>1 DEF Ends, TypeOK
  <2>2. proc' \in [Procs -> Process]
    BY <1>1, <1>b, <1>c, OneChanges DEF Ends, End
  <2> QED
    BY <2>1, <2>2, <1>a
<1>2. ASSUME NEW p \in Procs, GivesUp(p) PROVE TypeOK'
  <2>1. Others
    BY <1>2 DEF GivesUp, TypeOK
  <2>2. proc' \in [Procs -> Process]
    BY <1>2, <1>b, GotoTypes DEF GivesUp
  <2> QED
    BY <2>1, <2>2, <1>a
<1>3. ASSUME NEW p \in Procs, PullsObject(p) PROVE TypeOK'
  <2>1. Others
    BY <1>3 DEF PullsObject, TypeOK
  <2>2. Puller(p) \in Process
    <3>1. \A l \in PCs, e \in Nat : [At(l) EXCEPT !.etag = e] \in Process
      BY DEF At, Process
    <3>2. object.etag \in Nat
      BY DEF TypeOK
    <3> QED
      BY <3>1, <3>2, <1>b DEF Puller
  <2>3. \A q \in Procs : PulledOver(p, q) \in Process
    <3> SUFFICES ASSUME NEW q \in Procs PROVE PulledOver(p, q) \in Process
      OBVIOUS
    <3>1. (proc[q].overwritten \/ (HostOf[q] = HostOf[p] /\ Loaded(q)))
            \in BOOLEAN
      OBVIOUS
    <3>2. proc[q] \in Process
      BY <1>d
    <3> QED
      BY <3>1, <3>2, MarkingType DEF PulledOver, Marking
  <2>4. proc' \in [Procs -> Process]
    BY <1>3, <2>2, <2>3 DEF PullsObject
  <2> QED
    BY <2>1, <2>4, <1>a
<1>4. ASSUME NEW p \in Procs, LocksRow(p) PROVE TypeOK'
  <2>1. Others
    BY <1>4 DEF LocksRow, TypeOK, Database
  <2>2. proc' \in [Procs -> Process]
    BY <1>4, <1>b, GotoTypes DEF LocksRow
  <2> QED
    BY <2>1, <2>2, <1>a
<1>5. ASSUME NEW p \in Procs, TakesLease(p) PROVE TypeOK'
  <2>1. Others
    BY <1>5 DEF TakesLease, TypeOK
  <2>2. proc' \in [Procs -> Process]
    BY <1>5, <1>b, GotoTypes DEF TakesLease
  <2> QED
    BY <2>1, <2>2, <1>a
<1>6. ASSUME NEW p \in Procs, Loads(p) PROVE TypeOK'
  <2>1. Others
    BY <1>6 DEF Loads, TypeOK, Database
  <2> DEFINE done == cache[HostOf[p]].done
             r == Loading(proc[p], done, Items \ done)
  <2>2. r \in Process
    BY <1>d, LoadingType
  <2>3. proc' = [proc EXCEPT ![p] = r]
    BY <1>6 DEF Loads, Loading
  <2>4. proc' \in [Procs -> Process]
    BY <2>2, <2>3, OneChanges
  <2> QED
    BY <2>1, <2>4, <1>a
<1>7. ASSUME NEW p \in Procs, NEW i \in Items, Enter(p, i) PROVE TypeOK'
  <2>1. Others
    BY <1>7 DEF Enter, TypeOK
  <2> DEFINE r == Calling(proc[p], i)
  <2>2. r \in Process
    BY <1>d, CallingType
  <2>3. proc' = [proc EXCEPT ![p] = r]
    BY <1>7 DEF Enter, Calling
  <2>4. proc' \in [Procs -> Process]
    BY <2>2, <2>3, OneChanges
  <2> QED
    BY <2>1, <2>4, <1>a
<1>8. ASSUME NEW p \in Procs, NEW i \in Items, NEW done \in SUBSET Items,
             SaveManifest(p, i, done), UNCHANGED <<object, rlease, lapsed>>
      PROVE  TypeOK'
  <2>1. Others
    BY <1>8 DEF SaveManifest, TypeOK, Database
  <2> DEFINE r == Saving(proc[p], done, proc[p].left \ {i})
  <2>2. proc[p].left \ {i} \in SUBSET Items
    BY <1>d DEF Process
  <2>3. r \in Process
    BY <2>2, <1>d, SavingType
  <2>4. proc' = [proc EXCEPT ![p] = r]
    BY <1>8 DEF SaveManifest, Saving
  <2>5. proc' \in [Procs -> Process]
    BY <2>3, <2>4, OneChanges
  <2> QED
    BY <2>1, <2>5, <1>a
<1>9. ASSUME NEW p \in Procs, NEW i \in Items, Fail(p, i) PROVE TypeOK'
  <2>1. proc[p].mem \in SUBSET Items
    BY <1>d DEF Process
  <2> QED
    BY <2>1, <1>8, <1>9 DEF Fail
<1>10. ASSUME NEW p \in Procs, Complete(p) PROVE TypeOK'
  <2>1. proc[p].at \in Items
    BY <1>10 DEF Complete, LeftOpen
  <2>2. proc[p].mem \cup {proc[p].at} \in SUBSET Items
    BY <2>1, <1>d DEF Process
  <2> QED
    BY <2>1, <2>2, <1>8, <1>10 DEF Complete
<1>11. ASSUME NEW p \in Procs, NEW i \in Items, Import(p, i) PROVE TypeOK'
  <2>1. Others
    BY <1>11 DEF Import, TypeOK, Database
  <2> DEFINE done == cache[HostOf[p]].done \cup {i}
             r == Importing(proc[p], done)
  <2>2. r \in Process
    BY <1>d, ImportingType
  <2>3. proc' = [proc EXCEPT ![p] = r]
    BY <1>11 DEF Import, Importing
  <2>4. proc' \in [Procs -> Process]
    BY <2>2, <2>3, OneChanges
  <2> QED
    BY <2>1, <2>4, <1>a
<1>12. ASSUME NEW p \in Procs,
              StopFenced(p) \/ EndWork(p) \/ ImportRefused(p) \/ Push(p)
                \/ PushRefused(p)
       PROVE  TypeOK'
  <2>1. Others
    BY <1>12 DEF StopFenced, EndWork, ReleaseRow, ImportRefused, Push, PushRefused,
                 TypeOK, Database
  <2>2. proc' \in [Procs -> Process]
    BY <1>12, <1>b, GotoTypes DEF StopFenced, EndWork, ImportRefused, Push,
                                  PushRefused
  <2> QED
    BY <2>1, <2>2, <1>a
<1>13. ASSUME NEW p \in Procs, Close(p) \/ Die(p) PROVE TypeOK'
  <2>3. cache' \in [Hosts -> Database]
    BY <1>13 DEF Close, Die, ReleaseRow, TypeOK, Database
  <2>4. rlease' \in [owner : Procs \cup {None}, open : BOOLEAN]
    BY <1>13 DEF Close, Die, TypeOK
  <2>1. Others
    BY <1>13, <2>3, <2>4 DEF Close, Die, TypeOK
  <2>2. proc' \in [Procs -> Process]
    BY <1>13, <1>b, <1>c, OneChanges DEF Close, Die, End
  <2> QED
    BY <2>1, <2>2, <1>a
<1>14. ASSUME NEW p \in Procs, LoseRemote(p) \/ LoseLocal(p) PROVE TypeOK'
  <2>1. Others
    BY <1>14 DEF LoseRemote, LoseLocal, TypeOK
  <2>2. /\ Losing(proc[p], "rlost") \in Process
        /\ Losing(proc[p], "llost") \in Process
    BY <1>d, LosingType
  <2>3. \/ proc' = [proc EXCEPT ![p] = Losing(proc[p], "rlost")]
        \/ proc' = [proc EXCEPT ![p] = Losing(proc[p], "llost")]
    BY <1>14 DEF LoseRemote, LoseLocal, Losing
  <2>4. proc' \in [Procs -> Process]
    BY <2>2, <2>3, OneChanges
  <2> QED
    BY <2>1, <2>4, <1>a
<1>15. ASSUME NEW p \in Procs, RenewRemote(p) PROVE TypeOK'
  BY <1>15 DEF RenewRemote, TypeOK
<1>16. ASSUME NEW h \in Hosts, RowExpires(h) PROVE TypeOK'
  BY <1>16 DEF RowExpires, TypeOK, Database
<1>17. CASE Lapse
  BY <1>17 DEF Lapse, TypeOK
<1>18. CASE UNCHANGED vars
  BY <1>18 DEF vars, TypeOK
<1> QED
  BY <1>1, <1>2, <1>3, <1>4, <1>5, <1>6, <1>7, <1>9, <1>10, <1>11, <1>12, <1>13,
     <1>14, <1>15, <1>16, <1>17, <1>18, Branches DEF Next, Step

\* A lease is taken only when it is not open, and then nobody is active; it is
\* given up by a process that is not active any more.
LEMMA ExclusiveStep ==
  TypeOK /\ LeaseWritten /\ Exclusive /\ [Next]_vars
    => (LeaseWritten /\ Exclusive)'
<1> SUFFICES ASSUME TypeOK, LeaseWritten, Exclusive, [Next]_vars
             PROVE  (LeaseWritten /\ Exclusive)'
  OBVIOUS
<1>p. \A p, q \in Procs : PullsObject(p) => Pulled(p, q)
  BY PulledFields
<1> USE DEF LeaseWritten, Exclusive, TypeOK, Process, PCs, Active, At
<1>1. ASSUME NEW p \in Procs, Ends(p) PROVE (LeaseWritten /\ Exclusive)'
  BY <1>1 DEF Ends, End
<1>2. ASSUME NEW p \in Procs, GivesUp(p) PROVE (LeaseWritten /\ Exclusive)'
  BY <1>2 DEF GivesUp, Goto
<1>3. ASSUME NEW p \in Procs, PullsObject(p)
      PROVE  (LeaseWritten /\ Exclusive)'
  <2>1. /\ UNCHANGED <<object, rlease, lapsed>>
        /\ mixed' = mixed \ {HostOf[p]}
        /\ cache' = [cache EXCEPT ![HostOf[p]] = object.db]
    BY <1>3 DEF PullsObject
  <2>2. \A q \in Procs : Pulled(p, q)
    BY <1>3, <1>p
  <2> QED
    BY <2>1, <2>2 DEF Pulled
<1>4. ASSUME NEW p \in Procs, LocksRow(p)
      PROVE  (LeaseWritten /\ Exclusive)'
  BY <1>4 DEF LocksRow, Goto
<1>5. ASSUME NEW p \in Procs, TakesLease(p)
      PROVE  (LeaseWritten /\ Exclusive)'
  BY <1>5 DEF TakesLease, Goto
<1>6. ASSUME NEW p \in Procs, Loads(p) PROVE (LeaseWritten /\ Exclusive)'
  BY <1>6 DEF Loads
<1>7. ASSUME NEW p \in Procs, NEW i \in Items, Enter(p, i)
      PROVE  (LeaseWritten /\ Exclusive)'
  BY <1>7 DEF Enter
<1>8. ASSUME NEW p \in Procs, NEW i \in Items, Fail(p, i)
      PROVE  (LeaseWritten /\ Exclusive)'
  BY <1>8 DEF Fail, SaveManifest
<1>9. ASSUME NEW p \in Procs, NEW i \in Items, Import(p, i)
      PROVE  (LeaseWritten /\ Exclusive)'
  BY <1>9 DEF Import
<1>10. ASSUME NEW p \in Procs, Complete(p)
      PROVE  (LeaseWritten /\ Exclusive)'
  BY <1>10 DEF Complete, SaveManifest
<1>11. ASSUME NEW p \in Procs, StopFenced(p)
      PROVE  (LeaseWritten /\ Exclusive)'
  BY <1>11 DEF StopFenced, Goto
<1>12. ASSUME NEW p \in Procs, EndWork(p) PROVE (LeaseWritten /\ Exclusive)'
  BY <1>12 DEF EndWork, ReleaseRow, Goto
<1>13. ASSUME NEW p \in Procs, ImportRefused(p)
      PROVE  (LeaseWritten /\ Exclusive)'
  BY <1>13 DEF ImportRefused, Goto
<1>14. ASSUME NEW p \in Procs, Push(p) PROVE (LeaseWritten /\ Exclusive)'
  BY <1>14 DEF Push, Goto
<1>15. ASSUME NEW p \in Procs, PushRefused(p)
      PROVE  (LeaseWritten /\ Exclusive)'
  BY <1>15 DEF PushRefused, Goto
<1>16. ASSUME NEW p \in Procs, Close(p) PROVE (LeaseWritten /\ Exclusive)'
  BY <1>16 DEF Close, ReleaseRow, End
<1>17. ASSUME NEW p \in Procs, RenewRemote(p)
      PROVE  (LeaseWritten /\ Exclusive)'
  BY <1>17 DEF RenewRemote
<1>18. ASSUME NEW p \in Procs, LoseRemote(p)
      PROVE  (LeaseWritten /\ Exclusive)'
  BY <1>18 DEF LoseRemote
<1>19. ASSUME NEW p \in Procs, LoseLocal(p)
      PROVE  (LeaseWritten /\ Exclusive)'
  BY <1>19 DEF LoseLocal
<1>20. ASSUME NEW p \in Procs, Die(p) PROVE (LeaseWritten /\ Exclusive)'
  BY <1>20 DEF Die, End, Working
<1>21. ASSUME NEW h \in Hosts, RowExpires(h)
      PROVE  (LeaseWritten /\ Exclusive)'
  BY <1>21 DEF RowExpires
<1>22. ASSUME Lapse PROVE (LeaseWritten /\ Exclusive)'
  BY <1>22 DEF Lapse
<1>23. CASE UNCHANGED vars
  BY <1>23 DEF vars
<1> QED
  BY <1>1, <1>2, <1>3, <1>4, <1>5, <1>6, <1>7, <1>8, <1>9, <1>10, <1>11,
     <1>12, <1>13, <1>14, <1>15, <1>16, <1>17, <1>18, <1>19, <1>20, <1>21,
     <1>22, <1>23, Branches DEF Next, Step

\* The ETag goes up with each upload and nobody makes one up.
LEMMA VersionStep ==
  TypeOK /\ NothingUploaded /\ KnownVersions /\ [Next]_vars
    => (NothingUploaded /\ KnownVersions)'
<1> SUFFICES ASSUME TypeOK, NothingUploaded, KnownVersions, [Next]_vars
             PROVE  (NothingUploaded /\ KnownVersions)'
  OBVIOUS
<1>p. \A p, q \in Procs : PullsObject(p) => Pulled(p, q)
  BY PulledFields
<1> USE DEF NothingUploaded, KnownVersions, TypeOK, Process, Database, At
<1>1. ASSUME NEW p \in Procs, Ends(p)
      PROVE  (NothingUploaded /\ KnownVersions)'
  BY <1>1 DEF Ends, End
<1>2. ASSUME NEW p \in Procs, GivesUp(p)
      PROVE  (NothingUploaded /\ KnownVersions)'
  BY <1>2 DEF GivesUp, Goto
<1>3. ASSUME NEW p \in Procs, PullsObject(p)
      PROVE  (NothingUploaded /\ KnownVersions)'
  <2>1. /\ UNCHANGED <<object, rlease, lapsed>>
        /\ mixed' = mixed \ {HostOf[p]}
        /\ cache' = [cache EXCEPT ![HostOf[p]] = object.db]
    BY <1>3 DEF PullsObject
  <2>2. \A q \in Procs : Pulled(p, q)
    BY <1>3, <1>p
  <2> QED
    BY <2>1, <2>2 DEF Pulled
<1>4. ASSUME NEW p \in Procs, LocksRow(p)
      PROVE  (NothingUploaded /\ KnownVersions)'
  BY <1>4 DEF LocksRow, Goto
<1>5. ASSUME NEW p \in Procs, TakesLease(p)
      PROVE  (NothingUploaded /\ KnownVersions)'
  BY <1>5 DEF TakesLease, Goto
<1>6. ASSUME NEW p \in Procs, Loads(p)
      PROVE  (NothingUploaded /\ KnownVersions)'
  BY <1>6 DEF Loads
<1>7. ASSUME NEW p \in Procs, NEW i \in Items, Enter(p, i)
      PROVE  (NothingUploaded /\ KnownVersions)'
  BY <1>7 DEF Enter
<1>8. ASSUME NEW p \in Procs, NEW i \in Items, Fail(p, i)
      PROVE  (NothingUploaded /\ KnownVersions)'
  BY <1>8 DEF Fail, SaveManifest
<1>9. ASSUME NEW p \in Procs, NEW i \in Items, Import(p, i)
      PROVE  (NothingUploaded /\ KnownVersions)'
  BY <1>9 DEF Import
<1>10. ASSUME NEW p \in Procs, Complete(p)
      PROVE  (NothingUploaded /\ KnownVersions)'
  BY <1>10 DEF Complete, SaveManifest
<1>11. ASSUME NEW p \in Procs, StopFenced(p)
      PROVE  (NothingUploaded /\ KnownVersions)'
  BY <1>11 DEF StopFenced, Goto
<1>12. ASSUME NEW p \in Procs, EndWork(p)
      PROVE  (NothingUploaded /\ KnownVersions)'
  BY <1>12 DEF EndWork, ReleaseRow, Goto
<1>13. ASSUME NEW p \in Procs, ImportRefused(p)
      PROVE  (NothingUploaded /\ KnownVersions)'
  BY <1>13 DEF ImportRefused, Goto
<1>14. ASSUME NEW p \in Procs, Push(p)
      PROVE  (NothingUploaded /\ KnownVersions)'
  BY <1>14 DEF Push, Goto
<1>15. ASSUME NEW p \in Procs, PushRefused(p)
      PROVE  (NothingUploaded /\ KnownVersions)'
  BY <1>15 DEF PushRefused, Goto
<1>16. ASSUME NEW p \in Procs, Close(p)
      PROVE  (NothingUploaded /\ KnownVersions)'
  BY <1>16 DEF Close, ReleaseRow, End
<1>17. ASSUME NEW p \in Procs, RenewRemote(p)
      PROVE  (NothingUploaded /\ KnownVersions)'
  BY <1>17 DEF RenewRemote
<1>18. ASSUME NEW p \in Procs, LoseRemote(p)
      PROVE  (NothingUploaded /\ KnownVersions)'
  BY <1>18 DEF LoseRemote
<1>19. ASSUME NEW p \in Procs, LoseLocal(p)
      PROVE  (NothingUploaded /\ KnownVersions)'
  BY <1>19 DEF LoseLocal
<1>20. ASSUME NEW p \in Procs, Die(p)
      PROVE  (NothingUploaded /\ KnownVersions)'
  BY <1>20 DEF Die, End, Working
<1>21. ASSUME NEW h \in Hosts, RowExpires(h)
      PROVE  (NothingUploaded /\ KnownVersions)'
  BY <1>21 DEF RowExpires
<1>22. ASSUME Lapse PROVE (NothingUploaded /\ KnownVersions)'
  BY <1>22 DEF Lapse
<1>23. CASE UNCHANGED vars
  BY <1>23 DEF vars
<1> QED
  BY <1>1, <1>2, <1>3, <1>4, <1>5, <1>6, <1>7, <1>8, <1>9, <1>10, <1>11,
     <1>12, <1>13, <1>14, <1>15, <1>16, <1>17, <1>18, <1>19, <1>20, <1>21,
     <1>22, <1>23, Branches DEF Next, Step

\* Begin separates what is done from what is left, and a save keeps it so.
LEMMA LeftStep ==
  TypeOK /\ LeftOpen /\ [Next]_vars
    => LeftOpen'
<1> SUFFICES ASSUME TypeOK, LeftOpen, [Next]_vars
             PROVE  LeftOpen'
  OBVIOUS
<1>p. \A p, q \in Procs : PullsObject(p) => Pulled(p, q)
  BY PulledFields
<1> USE DEF LeftOpen, TypeOK, Process, Database, PCs, At
<1>1. ASSUME NEW p \in Procs, Ends(p) PROVE LeftOpen'
  BY <1>1 DEF Ends, End
<1>2. ASSUME NEW p \in Procs, GivesUp(p) PROVE LeftOpen'
  BY <1>2 DEF GivesUp, Goto
<1>3. ASSUME NEW p \in Procs, PullsObject(p) PROVE LeftOpen'
  <2>1. /\ UNCHANGED <<object, rlease, lapsed>>
        /\ mixed' = mixed \ {HostOf[p]}
        /\ cache' = [cache EXCEPT ![HostOf[p]] = object.db]
    BY <1>3 DEF PullsObject
  <2>2. \A q \in Procs : Pulled(p, q)
    BY <1>3, <1>p
  <2> HIDE DEF TypeOK, Process, Database, PCs, At
  <2> QED
    BY <2>1, <2>2 DEF Pulled
<1>4. ASSUME NEW p \in Procs, LocksRow(p) PROVE LeftOpen'
  BY <1>4 DEF LocksRow, Goto
<1>5. ASSUME NEW p \in Procs, TakesLease(p) PROVE LeftOpen'
  BY <1>5 DEF TakesLease, Goto
<1>6. ASSUME NEW p \in Procs, Loads(p) PROVE LeftOpen'
  BY <1>6 DEF Loads
<1>7. ASSUME NEW p \in Procs, NEW i \in Items, Enter(p, i) PROVE LeftOpen'
  BY <1>7 DEF Enter
<1>8. ASSUME NEW p \in Procs, NEW i \in Items, Fail(p, i) PROVE LeftOpen'
  BY <1>8 DEF Fail, SaveManifest
<1>9. ASSUME NEW p \in Procs, NEW i \in Items, Import(p, i) PROVE LeftOpen'
  BY <1>9 DEF Import
<1>10. ASSUME NEW p \in Procs, Complete(p) PROVE LeftOpen'
  BY <1>10 DEF Complete, SaveManifest
<1>11. ASSUME NEW p \in Procs, StopFenced(p) PROVE LeftOpen'
  BY <1>11 DEF StopFenced, Goto
<1>12. ASSUME NEW p \in Procs, EndWork(p) PROVE LeftOpen'
  BY <1>12 DEF EndWork, ReleaseRow, Goto
<1>13. ASSUME NEW p \in Procs, ImportRefused(p) PROVE LeftOpen'
  BY <1>13 DEF ImportRefused, Goto
<1>14. ASSUME NEW p \in Procs, Push(p) PROVE LeftOpen'
  BY <1>14 DEF Push, Goto
<1>15. ASSUME NEW p \in Procs, PushRefused(p) PROVE LeftOpen'
  BY <1>15 DEF PushRefused, Goto
<1>16. ASSUME NEW p \in Procs, Close(p) PROVE LeftOpen'
  BY <1>16 DEF Close, ReleaseRow, End
<1>17. ASSUME NEW p \in Procs, RenewRemote(p) PROVE LeftOpen'
  BY <1>17 DEF RenewRemote
<1>18. ASSUME NEW p \in Procs, LoseRemote(p) PROVE LeftOpen'
  BY <1>18 DEF LoseRemote
<1>19. ASSUME NEW p \in Procs, LoseLocal(p) PROVE LeftOpen'
  BY <1>19 DEF LoseLocal
<1>20. ASSUME NEW p \in Procs, Die(p) PROVE LeftOpen'
  BY <1>20 DEF Die, End, Working
<1>21. ASSUME NEW h \in Hosts, RowExpires(h) PROVE LeftOpen'
  BY <1>21 DEF RowExpires
<1>22. ASSUME Lapse PROVE LeftOpen'
  BY <1>22 DEF Lapse
<1>23. CASE UNCHANGED vars
  BY <1>23 DEF vars
<1> QED
  BY <1>1, <1>2, <1>3, <1>4, <1>5, <1>6, <1>7, <1>8, <1>9, <1>10, <1>11,
     <1>12, <1>13, <1>14, <1>15, <1>16, <1>17, <1>18, <1>19, <1>20, <1>21,
     <1>22, <1>23, Branches DEF Next, Step

\* Saves are of manifests that are fresh, or else they mix the cache up.
LEMMA CacheFreshStep ==
  TypeOK /\ KnownVersions /\ CacheFresh /\ MemFresh /\ [Next]_vars
    => CacheFresh'
<1> SUFFICES ASSUME TypeOK, KnownVersions, CacheFresh, MemFresh, [Next]_vars
             PROVE  CacheFresh'
  OBVIOUS
<1>p. \A p, q \in Procs : PullsObject(p) => Pulled(p, q)
  BY PulledFields
<1> USE DEF CacheFresh, MemFresh, KnownVersions, UpToDate, Loaded, TypeOK,
  Process, Database, PCs, At
<1>1. ASSUME NEW p \in Procs, Ends(p) PROVE CacheFresh'
  BY <1>1 DEF Ends, End
<1>2. ASSUME NEW p \in Procs, GivesUp(p) PROVE CacheFresh'
  BY <1>2 DEF GivesUp, Goto
<1>3. ASSUME NEW p \in Procs, PullsObject(p) PROVE CacheFresh'
  <2>1. /\ UNCHANGED <<object, rlease, lapsed>>
        /\ mixed' = mixed \ {HostOf[p]}
        /\ cache' = [cache EXCEPT ![HostOf[p]] = object.db]
    BY <1>3 DEF PullsObject
  <2>2. \A q \in Procs : Pulled(p, q)
    BY <1>3, <1>p
  <2> QED
    BY <2>1, <2>2 DEF Pulled
<1>4. ASSUME NEW p \in Procs, LocksRow(p) PROVE CacheFresh'
  BY <1>4 DEF LocksRow, Goto
<1>5. ASSUME NEW p \in Procs, TakesLease(p) PROVE CacheFresh'
  BY <1>5 DEF TakesLease, Goto
<1>6. ASSUME NEW p \in Procs, Loads(p) PROVE CacheFresh'
  BY <1>6 DEF Loads
<1>7. ASSUME NEW p \in Procs, NEW i \in Items, Enter(p, i)
      PROVE  CacheFresh'
  BY <1>7 DEF Enter
<1>8. ASSUME NEW p \in Procs, NEW i \in Items, Fail(p, i) PROVE CacheFresh'
  BY <1>8 DEF Fail, SaveManifest
<1>9. ASSUME NEW p \in Procs, NEW i \in Items, Import(p, i)
      PROVE  CacheFresh'
  BY <1>9 DEF Import
<1>10. ASSUME NEW p \in Procs, Complete(p) PROVE CacheFresh'
  BY <1>10 DEF Complete, SaveManifest
<1>11. ASSUME NEW p \in Procs, StopFenced(p) PROVE CacheFresh'
  BY <1>11 DEF StopFenced, Goto
<1>12. ASSUME NEW p \in Procs, EndWork(p) PROVE CacheFresh'
  BY <1>12 DEF EndWork, ReleaseRow, Goto
<1>13. ASSUME NEW p \in Procs, ImportRefused(p) PROVE CacheFresh'
  BY <1>13 DEF ImportRefused, Goto
<1>14. ASSUME NEW p \in Procs, Push(p) PROVE CacheFresh'
  BY <1>14 DEF Push, Goto
<1>15. ASSUME NEW p \in Procs, PushRefused(p) PROVE CacheFresh'
  BY <1>15 DEF PushRefused, Goto
<1>16. ASSUME NEW p \in Procs, Close(p) PROVE CacheFresh'
  BY <1>16 DEF Close, ReleaseRow, End
<1>17. ASSUME NEW p \in Procs, RenewRemote(p) PROVE CacheFresh'
  BY <1>17 DEF RenewRemote
<1>18. ASSUME NEW p \in Procs, LoseRemote(p) PROVE CacheFresh'
  BY <1>18 DEF LoseRemote
<1>19. ASSUME NEW p \in Procs, LoseLocal(p) PROVE CacheFresh'
  BY <1>19 DEF LoseLocal
<1>20. ASSUME NEW p \in Procs, Die(p) PROVE CacheFresh'
  BY <1>20 DEF Die, End, Working
<1>21. ASSUME NEW h \in Hosts, RowExpires(h) PROVE CacheFresh'
  BY <1>21 DEF RowExpires
<1>22. ASSUME Lapse PROVE CacheFresh'
  BY <1>22 DEF Lapse
<1>23. CASE UNCHANGED vars
  BY <1>23 DEF vars
<1> QED
  BY <1>1, <1>2, <1>3, <1>4, <1>5, <1>6, <1>7, <1>8, <1>9, <1>10, <1>11,
     <1>12, <1>13, <1>14, <1>15, <1>16, <1>17, <1>18, <1>19, <1>20, <1>21,
     <1>22, <1>23, Branches DEF Next, Step

\* A manifest is read from a fresh cache, and a later pull overwrites it.
LEMMA MemFreshStep ==
  TypeOK /\ KnownVersions /\ CacheFresh /\ MemFresh /\ [Next]_vars
    => MemFresh'
<1> SUFFICES ASSUME TypeOK, KnownVersions, CacheFresh, MemFresh, [Next]_vars
             PROVE  MemFresh'
  OBVIOUS
<1>p. \A p, q \in Procs : PullsObject(p) => Pulled(p, q)
  BY PulledFields
<1> USE DEF CacheFresh, MemFresh, KnownVersions, UpToDate, Loaded, TypeOK,
  Process, Database, PCs, At
<1>1. ASSUME NEW p \in Procs, Ends(p) PROVE MemFresh'
  BY <1>1 DEF Ends, End
<1>2. ASSUME NEW p \in Procs, GivesUp(p) PROVE MemFresh'
  BY <1>2 DEF GivesUp, Goto
<1>3. ASSUME NEW p \in Procs, PullsObject(p) PROVE MemFresh'
  <2>1. /\ UNCHANGED <<object, rlease, lapsed>>
        /\ mixed' = mixed \ {HostOf[p]}
        /\ cache' = [cache EXCEPT ![HostOf[p]] = object.db]
    BY <1>3 DEF PullsObject
  <2>2. \A q \in Procs : Pulled(p, q)
    BY <1>3, <1>p
  <2> QED
    BY <2>1, <2>2 DEF Pulled
<1>4. ASSUME NEW p \in Procs, LocksRow(p) PROVE MemFresh'
  BY <1>4 DEF LocksRow, Goto
<1>5. ASSUME NEW p \in Procs, TakesLease(p) PROVE MemFresh'
  BY <1>5 DEF TakesLease, Goto
<1>6. ASSUME NEW p \in Procs, Loads(p) PROVE MemFresh'
  BY <1>6 DEF Loads
<1>7. ASSUME NEW p \in Procs, NEW i \in Items, Enter(p, i) PROVE MemFresh'
  BY <1>7 DEF Enter
<1>8. ASSUME NEW p \in Procs, NEW i \in Items, Fail(p, i) PROVE MemFresh'
  BY <1>8 DEF Fail, SaveManifest
<1>9. ASSUME NEW p \in Procs, NEW i \in Items, Import(p, i) PROVE MemFresh'
  BY <1>9 DEF Import
<1>10. ASSUME NEW p \in Procs, Complete(p) PROVE MemFresh'
  BY <1>10 DEF Complete, SaveManifest
<1>11. ASSUME NEW p \in Procs, StopFenced(p) PROVE MemFresh'
  BY <1>11 DEF StopFenced, Goto
<1>12. ASSUME NEW p \in Procs, EndWork(p) PROVE MemFresh'
  BY <1>12 DEF EndWork, ReleaseRow, Goto
<1>13. ASSUME NEW p \in Procs, ImportRefused(p) PROVE MemFresh'
  BY <1>13 DEF ImportRefused, Goto
<1>14. ASSUME NEW p \in Procs, Push(p) PROVE MemFresh'
  BY <1>14 DEF Push, Goto
<1>15. ASSUME NEW p \in Procs, PushRefused(p) PROVE MemFresh'
  BY <1>15 DEF PushRefused, Goto
<1>16. ASSUME NEW p \in Procs, Close(p) PROVE MemFresh'
  BY <1>16 DEF Close, ReleaseRow, End
<1>17. ASSUME NEW p \in Procs, RenewRemote(p) PROVE MemFresh'
  BY <1>17 DEF RenewRemote
<1>18. ASSUME NEW p \in Procs, LoseRemote(p) PROVE MemFresh'
  BY <1>18 DEF LoseRemote
<1>19. ASSUME NEW p \in Procs, LoseLocal(p) PROVE MemFresh'
  BY <1>19 DEF LoseLocal
<1>20. ASSUME NEW p \in Procs, Die(p) PROVE MemFresh'
  BY <1>20 DEF Die, End, Working
<1>21. ASSUME NEW h \in Hosts, RowExpires(h) PROVE MemFresh'
  BY <1>21 DEF RowExpires
<1>22. ASSUME Lapse PROVE MemFresh'
  BY <1>22 DEF Lapse
<1>23. CASE UNCHANGED vars
  BY <1>23 DEF vars
<1> QED
  BY <1>1, <1>2, <1>3, <1>4, <1>5, <1>6, <1>7, <1>8, <1>9, <1>10, <1>11,
     <1>12, <1>13, <1>14, <1>15, <1>16, <1>17, <1>18, <1>19, <1>20, <1>21,
     <1>22, <1>23, Branches DEF Next, Step

\* While the lease excludes other commands, only a pull takes completed items
\* out of the cache.
LEMMA MemCachedStep ==
  TypeOK /\ LeftOpen /\ Exclusive /\ MemCached /\ [Next]_vars
    => MemCached'
<1> SUFFICES ASSUME TypeOK, LeftOpen, Exclusive, MemCached, [Next]_vars
             PROVE  MemCached'
  OBVIOUS
<1>p. \A p, q \in Procs : PullsObject(p) => Pulled(p, q)
  BY PulledFields
<1> USE DEF MemCached, LeftOpen, Exclusive, Active, Loaded, TypeOK, Process,
  Database, PCs, At
<1>1. ASSUME NEW p \in Procs, Ends(p) PROVE MemCached'
  BY <1>1 DEF Ends, End
<1>2. ASSUME NEW p \in Procs, GivesUp(p) PROVE MemCached'
  BY <1>2 DEF GivesUp, Goto
<1>3. ASSUME NEW p \in Procs, PullsObject(p) PROVE MemCached'
  <2>1. /\ UNCHANGED <<object, rlease, lapsed>>
        /\ mixed' = mixed \ {HostOf[p]}
        /\ cache' = [cache EXCEPT ![HostOf[p]] = object.db]
    BY <1>3 DEF PullsObject
  <2>2. \A q \in Procs : Pulled(p, q)
    BY <1>3, <1>p
  <2> QED
    BY <2>1, <2>2 DEF Pulled
<1>4. ASSUME NEW p \in Procs, LocksRow(p) PROVE MemCached'
  BY <1>4 DEF LocksRow, Goto
<1>5. ASSUME NEW p \in Procs, TakesLease(p) PROVE MemCached'
  BY <1>5 DEF TakesLease, Goto
<1>6. ASSUME NEW p \in Procs, Loads(p) PROVE MemCached'
  BY <1>6 DEF Loads
<1>7. ASSUME NEW p \in Procs, NEW i \in Items, Enter(p, i) PROVE MemCached'
  BY <1>7 DEF Enter
<1>8. ASSUME NEW p \in Procs, NEW i \in Items, Fail(p, i) PROVE MemCached'
  BY <1>8 DEF Fail, SaveManifest
<1>9. ASSUME NEW p \in Procs, NEW i \in Items, Import(p, i)
      PROVE  MemCached'
  BY <1>9 DEF Import
<1>10. ASSUME NEW p \in Procs, Complete(p) PROVE MemCached'
  BY <1>10 DEF Complete, SaveManifest
<1>11. ASSUME NEW p \in Procs, StopFenced(p) PROVE MemCached'
  BY <1>11 DEF StopFenced, Goto
<1>12. ASSUME NEW p \in Procs, EndWork(p) PROVE MemCached'
  BY <1>12 DEF EndWork, ReleaseRow, Goto
<1>13. ASSUME NEW p \in Procs, ImportRefused(p) PROVE MemCached'
  BY <1>13 DEF ImportRefused, Goto
<1>14. ASSUME NEW p \in Procs, Push(p) PROVE MemCached'
  BY <1>14 DEF Push, Goto
<1>15. ASSUME NEW p \in Procs, PushRefused(p) PROVE MemCached'
  BY <1>15 DEF PushRefused, Goto
<1>16. ASSUME NEW p \in Procs, Close(p) PROVE MemCached'
  BY <1>16 DEF Close, ReleaseRow, End
<1>17. ASSUME NEW p \in Procs, RenewRemote(p) PROVE MemCached'
  BY <1>17 DEF RenewRemote
<1>18. ASSUME NEW p \in Procs, LoseRemote(p) PROVE MemCached'
  BY <1>18 DEF LoseRemote
<1>19. ASSUME NEW p \in Procs, LoseLocal(p) PROVE MemCached'
  BY <1>19 DEF LoseLocal
<1>20. ASSUME NEW p \in Procs, Die(p) PROVE MemCached'
  BY <1>20 DEF Die, End, Working
<1>21. ASSUME NEW h \in Hosts, RowExpires(h) PROVE MemCached'
  BY <1>21 DEF RowExpires
<1>22. ASSUME Lapse PROVE MemCached'
  BY <1>22 DEF Lapse
<1>23. CASE UNCHANGED vars
  BY <1>23 DEF vars
<1> QED
  BY <1>1, <1>2, <1>3, <1>4, <1>5, <1>6, <1>7, <1>8, <1>9, <1>10, <1>11,
     <1>12, <1>13, <1>14, <1>15, <1>16, <1>17, <1>18, <1>19, <1>20, <1>21,
     <1>22, <1>23, Branches DEF Next, Step

-----------------------------------------------------------------------------
(* Theorems *)

\* The invariant holds at first.
LEMMA Start == Init => IInv
<1> SUFFICES ASSUME Init PROVE IInv
  OBVIOUS
<1>1. TypeOK
  BY DEF Init, TypeOK, NewDatabase, Database, Process, PCs, At
<1> QED
  BY <1>1 DEF Init, IInv, LeaseWritten, Exclusive, NothingUploaded, KnownVersions,
    CacheFresh, MemFresh, LeftOpen, MemCached, UpToDate, Active, Loaded,
    NewDatabase, At

\* The invariant holds always.
THEOREM PortableInvariant == Spec => []IInv
<1>1. IInv /\ [Next]_vars => IInv'
  BY TypeStep, ExclusiveStep, VersionStep, LeftStep, CacheFreshStep, MemFreshStep,
    MemCachedStep DEF IInv
<1> QED
  BY <1>1, Start, PTL DEF Spec

\* Types, for any hosts, processes and items.
THEOREM PortableTypeOK == Spec => []TypeOK
<1>1. IInv => TypeOK
  BY DEF IInv
<1> QED
  BY <1>1, PortableInvariant, PTL

\* Until a lease lapses, one process of all hosts is in a call: both would own
\* the remote lease.
THEOREM PortableOneCaller == Spec => []OneCaller
<1>1. IInv => OneCaller
  BY DEF IInv, Exclusive, Active, OneCaller
<1> QED
  BY <1>1, PortableInvariant, PTL

\* Whoever uploads, from the step.
LEMMA UploadIsPush ==
  ASSUME TypeOK, [Next]_vars, NEW p \in Procs, Uploads(p)
  PROVE  Push(p)
<1>1. object' # object
  BY DEF Uploads
<1>2. PICK q \in Procs : Push(q)
  <2>1. ASSUME NEW q \in Procs, Step(q) PROVE Push(q)
    <3>1. ~(Pull(q) \/ AcquireLocal(q) \/ AcquireRemote(q) \/ Begin(q))
      <4>1. ~(Ends(q) \/ GivesUp(q) \/ TakesLease(q) \/ LocksRow(q))
        BY <1>1 DEF Ends, GivesUp, LocksRow, TakesLease
      <4>2. ~PullsObject(q) /\ ~Loads(q)
        BY <1>1 DEF PullsObject, Loads
      <4> QED
        BY <4>1, <4>2, Branches
    <3>2. ~(\E i \in Items : Enter(q, i) \/ Fail(q, i) \/ Import(q, i))
      BY <1>1 DEF Enter, Fail, Import
    <3>3. ~(Complete(q) \/ StopFenced(q) \/ EndWork(q) \/ ImportRefused(q))
      BY <1>1 DEF Complete, StopFenced, EndWork, ImportRefused
    <3>4. ~(PushRefused(q) \/ Close(q) \/ RenewRemote(q))
      BY <1>1 DEF PushRefused, Close, RenewRemote
    <3>5. ~(LoseRemote(q) \/ LoseLocal(q) \/ Die(q))
      BY <1>1 DEF LoseRemote, LoseLocal, Die
    <3> QED
      BY <2>1, <3>1, <3>2, <3>3, <3>4, <3>5 DEF Step
  <2>2. ~Lapse /\ ~(\E h \in Hosts : RowExpires(h)) /\ ~UNCHANGED vars
    BY <1>1 DEF Lapse, RowExpires, vars
  <2> QED
    BY <2>1, <2>2 DEF Next
<1>3. p = q
  BY <1>2 DEF Push, Goto, Uploads, TypeOK
<1> QED
  BY <1>2, <1>3

\* An upload keeps what the object has, but from a mixed host: the pusher is up
\* to date, so its cache is fresh.
THEOREM PortableUploadsKeepProgress == Spec => UploadsKeepProgress
<1>1. IInv /\ [Next]_vars =>
        [\A p \in Procs : Uploads(p) /\ HostOf[p] \notin mixed
           => object.db.done \subseteq object'.db.done]_vars
  <2> SUFFICES ASSUME IInv, [Next]_vars, NEW p \in Procs, Uploads(p),
                      HostOf[p] \notin mixed
               PROVE  object.db.done \subseteq object'.db.done
    OBVIOUS
  <2>1. Push(p)
    BY UploadIsPush DEF IInv
  <2>2. object' = [etag |-> object.etag + 1, db |-> cache[HostOf[p]]]
        /\ proc[p].etag = object.etag
    BY <2>1 DEF Push
  <2>3. CASE object.etag = 0
    BY <2>3 DEF IInv, NothingUploaded
  <2>4. CASE object.etag # 0
    BY <2>2, <2>4 DEF IInv, CacheFresh, UpToDate
  <2> QED
    BY <2>3, <2>4
<1> QED
  BY <1>1, PortableInvariant, PTL DEF Spec, UploadsKeepProgress

\* An upload carries the work of the uploader: its manifest is in the cache.
THEOREM PortableUploadCarriesWork == Spec => UploadCarriesWork
<1>1. IInv /\ [Next]_vars =>
        [\A p \in Procs : Uploads(p) /\ ~proc[p].overwritten /\ ~lapsed
           => proc[p].mem \subseteq object'.db.done]_vars
  <2> SUFFICES ASSUME IInv, [Next]_vars, NEW p \in Procs, Uploads(p),
                      ~proc[p].overwritten, ~lapsed
               PROVE  proc[p].mem \subseteq object'.db.done
    OBVIOUS
  <2>1. Push(p)
    BY UploadIsPush DEF IInv
  <2> QED
    BY <2>1 DEF Push, IInv, MemCached, Loaded
<1> QED
  BY <1>1, PortableInvariant, PTL DEF Spec, UploadCarriesWork

\* A process is in a call from "work" only by Enter: every other step that moves
\* it goes elsewhere.
LEMMA EntersOnly ==
  ASSUME TypeOK, [Next]_vars, NEW p \in Procs, proc[p].pc = "work",
         proc'[p].pc = "call"
  PROVE  \E i \in Items : Enter(p, i)
<1> USE DEF TypeOK, Process, PCs, At
<1>1. ASSUME NEW q \in Procs, NEW i \in Items, Enter(q, i) PROVE q = p
  BY <1>1 DEF Enter
<1>2. ASSUME NEW q \in Procs,
             Ends(q) \/ GivesUp(q) \/ TakesLease(q) \/ LocksRow(q)
      PROVE  FALSE
  BY <1>2 DEF Ends, GivesUp, TakesLease, LocksRow, Goto, End
<1>3. ASSUME NEW q \in Procs, Loads(q) PROVE FALSE
  BY <1>3 DEF Loads
<1>4. ASSUME NEW q \in Procs, PullsObject(q) PROVE FALSE
  <2>1. Pulled(q, p)
    BY <1>4, PulledFields
  <2> QED
    BY <2>1 DEF Pulled
<1>5. ASSUME NEW q \in Procs, NEW i \in Items, Fail(q, i) \/ Import(q, i)
      PROVE  FALSE
  <2>1. CASE Fail(q, i)
    BY <2>1 DEF Fail, SaveManifest
  <2>2. CASE Import(q, i)
    BY <2>2 DEF Import
  <2> QED
    BY <1>5, <2>1, <2>2
<1>6. ASSUME NEW q \in Procs, Complete(q) PROVE FALSE
  BY <1>6 DEF Complete, SaveManifest
<1>7. ASSUME NEW q \in Procs,
             StopFenced(q) \/ EndWork(q) \/ ImportRefused(q) \/ Push(q)
               \/ PushRefused(q)
      PROVE  FALSE
  <2>1. PICK l \in {"close", "push"} : Goto(q, l)
    BY <1>7 DEF StopFenced, EndWork, ImportRefused, Push, PushRefused
  <2> QED
    BY <2>1 DEF Goto
<1>8. ASSUME NEW q \in Procs,
             Close(q) \/ RenewRemote(q) \/ LoseRemote(q) \/ LoseLocal(q) \/ Die(q)
      PROVE  FALSE
  BY <1>8 DEF Close, RenewRemote, LoseRemote, LoseLocal, Die, End
<1>9. ~Lapse /\ ~(\E h \in Hosts : RowExpires(h)) /\ ~UNCHANGED vars
  BY DEF Lapse, RowExpires, vars
<1> QED
  BY <1>1, <1>2, <1>3, <1>4, <1>5, <1>6, <1>7, <1>8, <1>9, Branches
     DEF Next, Step

\* What a process calls is left in its manifest, and a manifest read from a fresh
\* cache leaves nothing that the object has done.
THEOREM PortableReplayOnlyOutdated == Spec => ReplayOnlyOutdated
<1> DEFINE Outdated ==
      \A p \in Procs :
        /\ Calls(p) /\ proc'[p].at \in object.db.done
        /\ HostOf[p] \notin mixed /\ ~proc[p].overwritten
        => proc[p].etag # object.etag
<1>1. IInv /\ [Next]_vars => [Outdated]_vars
  <2> SUFFICES ASSUME IInv, [Next]_vars, NEW p \in Procs, Calls(p),
                      proc'[p].at \in object.db.done,
                      HostOf[p] \notin mixed, ~proc[p].overwritten,
                      proc[p].etag = object.etag
               PROVE  FALSE
    OBVIOUS
  <2>1. TypeOK
    BY DEF IInv
  <2>2. \E i \in Items : Enter(p, i)
    BY <2>1, EntersOnly DEF Calls
  <2>3. proc'[p].at \in proc[p].left
    BY <2>1, <2>2 DEF Enter, TypeOK, Process
  <2>4. object.etag # 0
    BY DEF IInv, NothingUploaded
  <2>5. object.db.done \subseteq proc[p].mem
    BY <2>4 DEF IInv, MemFresh, UpToDate, Loaded, Calls
  <2> QED
    BY <2>3, <2>5 DEF IInv, LeftOpen, Calls
<1> QED
  BY <1>1, PortableInvariant, PTL DEF Spec, ReplayOnlyOutdated
=============================================================================
