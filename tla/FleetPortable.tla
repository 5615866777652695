---------------------------- MODULE FleetPortable ---------------------------
(***************************************************************************)
(* One run worked on from several hosts (fleet_portable_state.py and the   *)
(* commands of cli.py that use --state-backend object).  The state object  *)
(* in Object Storage is replaced only by a writer that names its current   *)
(* ETag; a second object is the lease between hosts.  Every host has a     *)
(* local cache, the SQLite file the executor works on, in which the row of *)
(* the local lease is stored too: an upload carries it along.              *)
(*                                                                         *)
(* A command pulls first and takes the remote lease later.  The remote     *)
(* lease has a heartbeat which gives up for good at the first renewal that *)
(* fails.  Clocks differ between hosts and heartbeats are late, so that a  *)
(* lease can look expired while its owner works (Lapse).                   *)
(***************************************************************************)
EXTENDS Naturals

CONSTANTS
  Hosts, Procs,
  HostOf, Command,  \* host of a process; "onboard", "resume", "import" or "status"
  Items,            \* the phases of the run, each done once
  None

ASSUME PortableAssumption ==
  /\ HostOf \in [Procs -> Hosts]
  /\ Command \in [Procs -> {"onboard", "resume", "import", "status"}]
  /\ None \notin Procs

VARIABLES
  object,   \* the state object: its ETag (0: none) and the uploaded database
  rlease,   \* the lease object: who wrote it last, and whether it is unexpired
  cache,    \* cache[h]: the local database of a host
  proc,     \* what each process is doing
  lapsed,   \* history: a lease ran out under its owner
  mixed     \* history: hosts where a manifest was saved over a later pull

vars == <<object, rlease, cache, proc, lapsed, mixed>>

\* A database: the manifest, here the set of completed items, and the owner in
\* its local lease row.
Database == [done : SUBSET Items, row : Procs \cup {None}]
NewDatabase == [done |-> {}, row |-> None]

(* pc: "new"; "pulled"; "local" an import with the local lease; "remote"    *)
(* with the remote lease; "work" between items; "call" in OCI; "push" about *)
(* to upload; "close" releasing; "done" ended, or killed.                   *)
PCs == {"new", "pulled", "local", "remote", "work", "call", "push", "close", "done"}

\* etag is the portable_etag to upload against, mem the manifest worked on, left
\* the items still to try, at the one in the call; rlost and llost are the
\* _lost flags of the two heartbeats; overwritten (history) tells that another
\* process of the host has pulled over the cache since p read its manifest.
Process == [pc : PCs, etag : Nat, mem : SUBSET Items,
            left : SUBSET Items, at : Items \cup {None},
            rlost : BOOLEAN, llost : BOOLEAN, overwritten : BOOLEAN]

At(l) == [pc |-> l, etag |-> 0, mem |-> {}, left |-> {}, at |-> None,
          rlost |-> FALSE, llost |-> FALSE, overwritten |-> FALSE]

Active(p) == proc[p].pc \in {"remote", "work", "call", "push"}
Working(p) == Active(p) \/ proc[p].pc \in {"pulled", "local", "close"}

\* The process has its manifest in memory.
Loaded(p) == proc[p].pc \in {"work", "call", "push"}

Init ==
  /\ object = [etag |-> 0, db |-> NewDatabase]
  /\ rlease = [owner |-> None, open |-> FALSE]
  /\ cache = [h \in Hosts |-> NewDatabase]
  /\ proc = [p \in Procs |-> At("new")]
  /\ lapsed = FALSE
  /\ mixed = {}

Goto(p, l) == proc' = [proc EXCEPT ![p].pc = l]

\* The process ends or is killed: its memory is gone.
End(p) == proc' = [proc EXCEPT ![p] = At("done")]

-----------------------------------------------------------------------------
(* Before the work *)

\* _portable_pull: the object replaces the cache of the host, whoever uses it;
\* without an object the command ends.
Pull(p) ==
  LET h == HostOf[p]
      puller == [At(IF Command[p] = "status" THEN "done" ELSE "pulled")
                   EXCEPT !.etag = IF Command[p] = "status" THEN 0 ELSE object.etag]
  IN  /\ proc[p].pc = "new" /\ Command[p] # "onboard"
      /\ IF object.etag = 0
         THEN End(p) /\ UNCHANGED <<cache, mixed>>
         ELSE /\ cache' = [cache EXCEPT ![h] = object.db]
              /\ mixed' = mixed \ {h}
              /\ proc' = [q \in Procs |->
                   IF q = p THEN puller
                   ELSE [proc[q] EXCEPT !.overwritten = @ \/ (HostOf[q] = h /\ Loaded(q))]]
      /\ UNCHANGED <<object, rlease, lapsed>>

\* The local lease row lets p in.
LocalLeaseFree(p) == cache[HostOf[p]].row \in {None, p}

\* import-handoff takes the local lease before the remote one.
AcquireLocal(p) ==
  /\ proc[p].pc = "pulled" /\ Command[p] = "import"
  /\ IF LocalLeaseFree(p)
     THEN Goto(p, "local") /\ cache' = [cache EXCEPT ![HostOf[p]].row = p]
     ELSE End(p) /\ UNCHANGED cache
  /\ UNCHANGED <<object, rlease, lapsed, mixed>>

ReadyForRemote(p) ==
  \/ Command[p] = "onboard" /\ proc[p].pc = "new"
  \/ Command[p] = "resume"  /\ proc[p].pc = "pulled"
  \/ Command[p] = "import"  /\ proc[p].pc = "local"

\* Mutant of AcquireRemote: an unexpired lease is replaced.
AcquireRemoteAnyway(p) ==
  /\ ReadyForRemote(p)
  /\ rlease' = [owner |-> p, open |-> TRUE]
  /\ Goto(p, "remote")
  /\ UNCHANGED <<object, cache, lapsed, mixed>>

\* acquire_lease: an absent or expired lease is replaced against its ETag.
AcquireRemote(p) ==
  /\ ReadyForRemote(p)
  /\ IF rlease.open
     THEN Goto(p, "close") /\ UNCHANGED rlease
     ELSE rlease' = [owner |-> p, open |-> TRUE] /\ Goto(p, "remote")
  /\ UNCHANGED <<object, cache, lapsed, mixed>>

\* Mutant of Begin: the cached manifest is not read.
BeginFresh(p) ==
  LET h == HostOf[p]
  IN  /\ proc[p].pc = "remote" /\ Command[p] \in {"onboard", "resume"}
      /\ IF LocalLeaseFree(p)
         THEN /\ cache' = [cache EXCEPT ![h].row = p]
              /\ proc' = [proc EXCEPT ![p].pc = "work", ![p].left = Items]
         ELSE Goto(p, "close") /\ UNCHANGED cache
      /\ UNCHANGED <<object, rlease, lapsed, mixed>>

\* FleetOnboardingExecutor.execute up to its waves: the manifest comes from the
\* cache as it is now, and the local lease is taken.
Begin(p) ==
  LET h == HostOf[p]
  IN  /\ proc[p].pc = "remote" /\ Command[p] \in {"onboard", "resume"}
      /\ IF LocalLeaseFree(p)
         THEN /\ cache' = [cache EXCEPT ![h].row = p]
              /\ proc' = [proc EXCEPT ![p].pc = "work", ![p].mem = cache[h].done,
                                      ![p].left = Items \ cache[h].done]
         ELSE Goto(p, "close") /\ UNCHANGED cache
      /\ UNCHANGED <<object, rlease, lapsed, mixed>>

-----------------------------------------------------------------------------
(* The work *)

Fenced(p) == proc[p].rlost \/ proc[p].llost

\* Both fences before a call are open.
Enter(p, i) ==
  /\ proc[p].pc = "work" /\ i \in proc[p].left
  /\ ~Fenced(p)
  /\ proc' = [proc EXCEPT ![p].pc = "call", ![p].at = i]
  /\ UNCHANGED <<object, rlease, cache, lapsed, mixed>>

\* Item i is done with; every save writes the whole manifest and leaves the
\* lease row alone.
SaveManifest(p, i, done) ==
  /\ cache' = [cache EXCEPT ![HostOf[p]].done = done]
  /\ proc' = [proc EXCEPT ![p].pc = "work", ![p].mem = done,
                          ![p].left = @ \ {i}, ![p].at = None]
  /\ mixed' = IF proc[p].overwritten THEN mixed \cup {HostOf[p]} ELSE mixed

\* Mutant of Complete: the outcome stays in memory.
CompleteUnsaved(p) ==
  /\ proc[p].pc = "call" /\ ~Fenced(p)
  /\ proc' = [proc EXCEPT ![p].pc = "work", ![p].mem = @ \cup {proc[p].at},
                          ![p].left = @ \ {proc[p].at}, ![p].at = None]
  /\ UNCHANGED <<object, rlease, cache, lapsed, mixed>>

\* The call returns and the fences are still open.
Complete(p) ==
  /\ proc[p].pc = "call" /\ ~Fenced(p)
  /\ SaveManifest(p, proc[p].at, proc[p].mem \cup {proc[p].at})
  /\ UNCHANGED <<object, rlease, lapsed>>

\* The call fails, or the remote fence raises StateConflictError on either side
\* of it: to the executor that is a failed phase, which it saves.
Fail(p, i) ==
  /\ \/ proc[p].pc = "call" /\ i = proc[p].at
     \/ proc[p].pc = "work" /\ i \in proc[p].left /\ proc[p].rlost
  /\ ~proc[p].llost
  /\ SaveManifest(p, i, proc[p].mem)
  /\ UNCHANGED <<object, rlease, lapsed>>

\* The local fence raises RunLeaseError, which ends the command unsaved.
StopFenced(p) ==
  /\ proc[p].pc \in {"work", "call"} /\ proc[p].llost
  /\ Goto(p, "close")
  /\ UNCHANGED <<object, rlease, cache, lapsed, mixed>>

ReleaseRow(p) ==
  cache' = [cache EXCEPT ![HostOf[p]].row = IF @ = p THEN None ELSE @]

\* execute() returns: the local lease is released before the upload.
EndWork(p) ==
  /\ proc[p].pc = "work" /\ proc[p].left = {} /\ ~proc[p].llost
  /\ ReleaseRow(p)
  /\ Goto(p, "push")
  /\ UNCHANGED <<object, rlease, lapsed, mixed>>

\* import-handoff loads, completes the attested phase and saves, under both
\* leases; it keeps the local one.
Import(p, i) ==
  LET done == cache[HostOf[p]].done
  IN  /\ proc[p].pc = "remote" /\ Command[p] = "import" /\ i \notin done
      /\ ~Fenced(p)
      /\ cache' = [cache EXCEPT ![HostOf[p]].done = done \cup {i}]
      /\ proc' = [proc EXCEPT ![p].pc = "push", ![p].mem = done \cup {i}]
      /\ UNCHANGED <<object, rlease, lapsed, mixed>>

\* The packet is refused, or a fence raises.
ImportRefused(p) ==
  /\ proc[p].pc = "remote" /\ Command[p] = "import"
  /\ Goto(p, "close")
  /\ UNCHANGED <<object, rlease, cache, lapsed, mixed>>

-----------------------------------------------------------------------------
(* After the work *)

\* Mutants of Push: the upload does not name the ETag it replaces, once or until
\* it is answered.
PushUnconditional(p) ==
  /\ proc[p].pc = "push" /\ ~Fenced(p)
  /\ object' = [etag |-> object.etag + 1, db |-> cache[HostOf[p]]]
  /\ Goto(p, "close")
  /\ UNCHANGED <<rlease, cache, lapsed, mixed>>

\* _portable_push: the cache as it is now, against the ETag of the pull, or
\* create-only without one.
Push(p) ==
  /\ proc[p].pc = "push" /\ ~Fenced(p)
  /\ object.etag = proc[p].etag
  /\ object' = [etag |-> object.etag + 1, db |-> cache[HostOf[p]]]
  /\ Goto(p, "close")
  /\ UNCHANGED <<rlease, cache, lapsed, mixed>>

\* The ETag has changed, Object Storage cannot be reached, or a fence raises.
PushRefused(p) ==
  /\ proc[p].pc = "push"
  /\ Goto(p, "close")
  /\ UNCHANGED <<object, rlease, cache, lapsed, mixed>>

\* RemoteLeaseHeartbeat.close marks the lease expired if it is still p's, and
\* an import deletes its local row.
Close(p) ==
  /\ proc[p].pc = "close"
  /\ rlease' = IF rlease.owner = p /\ ~proc[p].rlost
               THEN [rlease EXCEPT !.open = FALSE] ELSE rlease
  /\ ReleaseRow(p)
  /\ End(p)
  /\ UNCHANGED <<object, lapsed, mixed>>

-----------------------------------------------------------------------------
(* Heartbeats, time and failures *)

\* The remote heartbeat: only the last writer of the lease object can renew it,
\* and then even an expired one.
RenewRemote(p) ==
  /\ Active(p) /\ ~proc[p].rlost
  /\ rlease.owner = p /\ ~rlease.open
  /\ rlease' = [rlease EXCEPT !.open = TRUE]
  /\ UNCHANGED <<object, cache, proc, lapsed, mixed>>

\* Replaced by another process, or any error of the renewal.
LoseRemote(p) ==
  /\ Active(p) /\ ~proc[p].rlost
  /\ proc' = [proc EXCEPT ![p].rlost = TRUE]
  /\ UNCHANGED <<object, rlease, cache, lapsed, mixed>>

\* Who beats for the local lease: the executor while it works, an import from
\* its acquisition to its end.
HoldsLocal(p) ==
  \/ proc[p].pc \in {"work", "call"}
  \/ Command[p] = "import" /\ proc[p].pc \in {"local", "remote", "push", "close"}

\* The local heartbeat finds its row gone: a pull replaced the database.
LoseLocal(p) ==
  /\ HoldsLocal(p) /\ ~proc[p].llost
  /\ cache[HostOf[p]].row # p
  /\ proc' = [proc EXCEPT ![p].llost = TRUE]
  /\ UNCHANGED <<object, rlease, cache, lapsed, mixed>>

\* The remote lease runs out, or another host's clock says so.
Lapse ==
  /\ rlease.open
  /\ rlease' = [rlease EXCEPT !.open = FALSE]
  /\ lapsed' = (lapsed \/ Active(rlease.owner))
  /\ UNCHANGED <<object, cache, proc, mixed>>

\* A row nobody renews runs out: its owner has ended, or it came with a pull.
RowExpires(h) ==
  LET p == cache[h].row
  IN  /\ p # None
      /\ HostOf[p] # h \/ ~HoldsLocal(p)
      /\ cache' = [cache EXCEPT ![h].row = None]
      /\ UNCHANGED <<object, rlease, proc, lapsed, mixed>>

Die(p) ==
  /\ Working(p)
  /\ End(p)
  /\ UNCHANGED <<object, rlease, cache, lapsed, mixed>>

Step(p) ==
  \/ Pull(p) \/ AcquireLocal(p) \/ AcquireRemote(p) \/ Begin(p)
  \/ \E i \in Items : Enter(p, i) \/ Fail(p, i) \/ Import(p, i)
  \/ Complete(p) \/ StopFenced(p) \/ EndWork(p) \/ ImportRefused(p)
  \/ Push(p) \/ PushRefused(p) \/ Close(p)
  \/ RenewRemote(p) \/ LoseRemote(p) \/ LoseLocal(p) \/ Die(p)

Next ==
  \/ \E p \in Procs : Step(p)
  \/ \E h \in Hosts : RowExpires(h)
  \/ Lapse

Spec == Init /\ [][Next]_vars

-----------------------------------------------------------------------------
(* Properties *)

TypeOK ==
  /\ object \in [etag : Nat, db : Database]
  /\ rlease \in [owner : Procs \cup {None}, open : BOOLEAN]
  /\ cache \in [Hosts -> Database]
  /\ proc \in [Procs -> Process]
  /\ lapsed \in BOOLEAN
  /\ mixed \subseteq Hosts

\* The process whose step uploads.
Uploads(p) == object' # object /\ proc[p].pc = "push" /\ proc'[p].pc # "push"

\* An upload never discards progress another host has uploaded ("a concurrent
\* writer fails closed rather than being overwritten", runbook), although every
\* command pulls before it takes the lease and whatever the clocks do.  The
\* exception is a host where a running command has saved an older manifest over
\* the cache another one had pulled: nothing in the cache tells the two apart.
UploadsKeepProgress ==
  [][\A p \in Procs : Uploads(p) /\ HostOf[p] \notin mixed
       => object.db.done \subseteq object'.db.done]_vars

\* The remote lease "prevents two hosts from making OCI calls before either has
\* uploaded a checkpoint" (runbook).
OneCaller ==
  ~lapsed => \A p, q \in Procs :
    proc[p].pc = "call" /\ proc[q].pc = "call" => p = q

\* An upload carries everything the uploader has completed, unless another
\* command of its host has pulled over the cache in between.
UploadCarriesWork ==
  [][\A p \in Procs :
       Uploads(p) /\ ~proc[p].overwritten /\ ~lapsed
       => proc[p].mem \subseteq object'.db.done]_vars

\* The next handler call of p.
Calls(p) == proc[p].pc = "work" /\ proc'[p].pc = "call"

\* A phase that is complete in the state object is called again only by a
\* process whose pull is out of date, and which will not be able to upload, or
\* on a host whose cache was mixed up as above.
ReplayOnlyOutdated ==
  [][\A p \in Procs :
       /\ Calls(p) /\ proc'[p].at \in object.db.done
       /\ HostOf[p] \notin mixed /\ ~proc[p].overwritten
       => proc[p].etag # object.etag]_vars

\* What the runbook's line says without an exception; no configuration lists it.
NeverOverwritten == [][object.db.done \subseteq object'.db.done]_vars
=============================================================================
