------------------------ MODULE ServiceEnablementProofs ------------------------
(***************************************************************************)
(* The phase handlers and offboarding implement the ledger, for any        *)
(* targets, services, sources, starting points and numbers of faults,      *)
(* foreign changes and re-entries.                                         *)
(*                                                                         *)
(* What a handler claims it has seen itself do, but not in the same step:  *)
(* between the call that switches a service on and the record in the       *)
(* manifest there are waits, retries and the steps of everybody else.      *)
(* EarnedJob says what a job may rely on at each point in between.         *)
(*                                                                         *)
(* Two more invariants rest on its Shape.  What the run has switched on    *)
(* and not recorded some worker accounts for (LeakInv), and a target that  *)
(* configure has promised an insight has one or is on its way to it        *)
(* (AttachInv).                                                            *)
(***************************************************************************)
EXTENDS ServiceEnablement, TLAPS

JobFields == {"pc", "left", "applied", "tries", "claim"}
HistoryFields == {"before", "made", "raced", "cutOff", "removed"}

\* What is about to be upserted are associations of the target.
OwnClaim(t, j) == j.pc = "upsert" => j.claim \subseteq {t} \X Sources

\* The fields of the state that matter to the ledger.
Shape ==
  /\ cloud \in Cloud
  /\ DOMAIN job = Targets
  /\ \A t \in Targets : DOMAIN job[t] = JobFields /\ OwnClaim(t, job[t])
  /\ DOMAIN history = HistoryFields

Credit == history.made \cup history.raced

\* A job j of target t, among the services c: what it has applied, or is going to
\* claim, is credited (credit).
EarnedJob(t, j, c, credit) ==
  /\ j.applied => \/ j.pc = "wait" /\ <<t, "dbm">> \in credit
                  \/ j.pc = "reference" /\ <<t, "opsi">> \in credit
                  \/ j.pc \in {"set_read", "set_write"} /\ <<t, "credential">> \in credit
                  \/ j.pc = "record"
  /\ j.pc = "record" => j.claim \cap ByLook \subseteq credit
  /\ j.pc = "upsert" => j.claim \cap c.assoc \subseteq credit
  /\ j.pc = "create_named" /\ t \in c.named => <<t, "credential">> \in credit
  /\ j.pc = "repair" /\ c.insight[t] = "active" => <<t, "opsi">> \in credit

\* When offboarding begins every worker is at rest, and nothing is removed before.
AtRest ==
  /\ flow = "offboard" => \A t \in Targets : Settled(t)
  /\ flow # "offboard" => plan = {} /\ history.removed = {}
  /\ plan \subseteq owned /\ history.removed \subseteq owned
  /\ history.removed \cap On(cloud) = {}

LedgerInv ==
  /\ Shape
  /\ AtRest
  /\ owned \cap ByLook \subseteq Credit
  /\ flow = "lifecycle" => \A t \in Targets : EarnedJob(t, job[t], cloud, Credit)

-----------------------------------------------------------------------------
(* What is on *)

\* What is on, item by item (is_enabled and its counterparts).
LEMMA OnMember ==
  ASSUME NEW c \in Cloud
  PROVE  \A i : i \in On(c) <=>
           \/ \E t \in Targets :
                \/ i = <<t, "dbm">> /\ DbmOn(c, t)
                \/ i = <<t, "opsi">> /\ c.insight[t] = "active"
                \/ i = <<t, "datasafe">> /\ t \in c.safe
                \/ i = <<t, "credential">> /\ t \in c.named
           \/ i \in c.assoc
  BY DEF On, Cloud

\* Only items are on.
LEMMA OnItems == ASSUME NEW c \in Cloud PROVE On(c) \subseteq Items
  BY OnMember DEF Items, ServiceNames, Cloud

\* The services after the calls that add to them.
Enabling(t) == [cloud EXCEPT !.dbm[t] = "enabling"]
Registered(t) == [cloud EXCEPT !.safe = @ \cup {t}]
Named(t) == [cloud EXCEPT !.named = @ \cup {t}]
Associated(items) == [cloud EXCEPT !.assoc = @ \cup items]
WithPreferred(t, name) == [cloud EXCEPT !.preferred[t] = @ \cup {name}]
WithEntity(t) == [cloud EXCEPT !.entities = @ \cup {t}]

\* Enabling Database Management adds its item and nothing else (EnableDbm).
LEMMA OnDbm ==
  ASSUME Shape, NEW t \in Targets
  PROVE  Enabling(t) \in Cloud /\ On(Enabling(t)) = On(cloud) \cup {<<t, "dbm">>}
<1> DEFINE c == Enabling(t)
<1>1. /\ c \in Cloud /\ cloud \in Cloud
      /\ c.insight = cloud.insight /\ c.safe = cloud.safe /\ c.named = cloud.named
      /\ c.assoc = cloud.assoc
  BY DEF Shape, Cloud, Enabling
<1>2. \A u \in Targets : DbmOn(c, u) <=> DbmOn(cloud, u) \/ u = t
  BY DEF Shape, Cloud, DbmOn, Enabling
<1> HIDE DEF c
<1>3. \A i : i \in On(c) <=> i \in On(cloud) \/ i = <<t, "dbm">>
  BY <1>1, <1>2, OnMember
<1>4. QED
  BY <1>1, <1>3 DEF c

\* An insight made active (RepairInsight, EnableInsight, CreateInsight, ...).
LEMMA OnInsight ==
  ASSUME Shape, NEW t \in Targets
  PROVE  Active(t) \in Cloud /\ On(Active(t)) = On(cloud) \cup {<<t, "opsi">>}
<1> DEFINE c == Active(t)
<1>1. /\ c \in Cloud /\ cloud \in Cloud
      /\ c.dbm = cloud.dbm /\ c.safe = cloud.safe /\ c.named = cloud.named
      /\ c.assoc = cloud.assoc
  BY DEF Shape, Cloud, Active
<1>2. \A u \in Targets : c.insight[u] = "active" <=> cloud.insight[u] = "active" \/ u = t
  BY DEF Shape, Cloud, Active
<1>3. \A u \in Targets : DbmOn(c, u) <=> DbmOn(cloud, u)
  BY <1>1 DEF DbmOn
<1> HIDE DEF c
<1>4. \A i : i \in On(c) <=> i \in On(cloud) \/ i = <<t, "opsi">>
  BY <1>1, <1>2, <1>3, OnMember
<1>5. QED
  BY <1>1, <1>4 DEF c

\* A Data Safe target, a named credential or associations that are added.
LEMMA OnAdded ==
  ASSUME Shape, NEW t \in Targets, NEW items \in SUBSET (Targets \X Sources)
  PROVE  /\ Registered(t) \in Cloud /\ On(Registered(t)) = On(cloud) \cup {<<t, "datasafe">>}
         /\ Named(t) \in Cloud /\ On(Named(t)) = On(cloud) \cup {<<t, "credential">>}
         /\ Associated(items) \in Cloud /\ On(Associated(items)) = On(cloud) \cup items
<1>t. cloud \in Cloud
  BY DEF Shape
<1>1. Registered(t) \in Cloud /\ On(Registered(t)) = On(cloud) \cup {<<t, "datasafe">>}
  <2> DEFINE c == Registered(t)
  <2>1. /\ c \in Cloud /\ c.dbm = cloud.dbm /\ c.insight = cloud.insight /\ c.named = cloud.named
        /\ c.assoc = cloud.assoc /\ c.safe = cloud.safe \cup {t}
    BY <1>t DEF Cloud, Registered
  <2>2. \A u \in Targets : DbmOn(c, u) <=> DbmOn(cloud, u)
    BY <2>1 DEF DbmOn
  <2> HIDE DEF c
  <2>3. \A i : i \in On(c) <=> i \in On(cloud) \/ i = <<t, "datasafe">>
    BY <1>t, <2>1, <2>2, OnMember
  <2>4. QED
    BY <2>1, <2>3 DEF c
<1>2. Named(t) \in Cloud /\ On(Named(t)) = On(cloud) \cup {<<t, "credential">>}
  <2> DEFINE c == Named(t)
  <2>1. /\ c \in Cloud /\ c.dbm = cloud.dbm /\ c.insight = cloud.insight /\ c.safe = cloud.safe
        /\ c.assoc = cloud.assoc /\ c.named = cloud.named \cup {t}
    BY <1>t DEF Cloud, Named
  <2>2. \A u \in Targets : DbmOn(c, u) <=> DbmOn(cloud, u)
    BY <2>1 DEF DbmOn
  <2> HIDE DEF c
  <2>3. \A i : i \in On(c) <=> i \in On(cloud) \/ i = <<t, "credential">>
    BY <1>t, <2>1, <2>2, OnMember
  <2>4. QED
    BY <2>1, <2>3 DEF c
<1>3. Associated(items) \in Cloud /\ On(Associated(items)) = On(cloud) \cup items
  <2> DEFINE c == Associated(items)
  <2>1. /\ c \in Cloud /\ c.dbm = cloud.dbm /\ c.insight = cloud.insight /\ c.safe = cloud.safe
        /\ c.assoc = cloud.assoc \cup items /\ c.named = cloud.named
    BY <1>t DEF Cloud, Associated
  <2>2. \A u \in Targets : DbmOn(c, u) <=> DbmOn(cloud, u)
    BY <2>1 DEF DbmOn
  <2> HIDE DEF c
  <2>3. \A i : i \in On(c) <=> i \in On(cloud) \/ i \in items
    BY <1>t, <2>1, <2>2, OnMember
  <2>4. QED
    BY <2>1, <2>3 DEF c
<1>4. QED
  BY <1>1, <1>2, <1>3

\* Preferred credentials and entities are no items.
LEMMA OnSame ==
  ASSUME Shape, NEW t \in Targets, NEW name \in PreferredNames
  PROVE  /\ WithPreferred(t, name) \in Cloud /\ On(WithPreferred(t, name)) = On(cloud)
         /\ WithEntity(t) \in Cloud /\ On(WithEntity(t)) = On(cloud)
<1>1. /\ WithPreferred(t, name) \in Cloud /\ WithEntity(t) \in Cloud
  BY DEF Shape, Cloud, WithPreferred, WithEntity
<1>2. ASSUME NEW c \in Cloud, c.dbm = cloud.dbm, c.insight = cloud.insight, c.safe = cloud.safe,
             c.named = cloud.named, c.assoc = cloud.assoc
      PROVE  On(c) = On(cloud)
  BY <1>2 DEF On, DbmOn
<1>3. QED
  BY <1>1, <1>2 DEF WithPreferred, WithEntity, Shape, Cloud

\* What the operations of OciCleanupOperations take away: their item, and only that.
LEMMA OnSwitchedOff ==
  ASSUME Shape, EnablementAssumption, NEW t \in Targets, NEW service \in ServiceNames
  PROVE  /\ SwitchedOff(t, service) \in Cloud
         /\ On(SwitchedOff(t, service)) = On(cloud) \ {<<t, service>>}
<1> DEFINE c == SwitchedOff(t, service)
<1>t. cloud \in Cloud
  BY DEF Shape
<1>1. c \in Cloud
  BY <1>t DEF Cloud, SwitchedOff, PreferredNames
<1>2. /\ \A u \in Targets : DbmOn(c, u) <=> DbmOn(cloud, u) /\ <<u, "dbm">> # <<t, service>>
      /\ \A u \in Targets : c.insight[u] = "active" <=>
                             cloud.insight[u] = "active" /\ <<u, "opsi">> # <<t, service>>
      /\ c.safe = {u \in cloud.safe : <<u, "datasafe">> # <<t, service>>}
      /\ c.named = {u \in cloud.named : <<u, "credential">> # <<t, service>>}
      /\ c.assoc = {i \in cloud.assoc : i # <<t, service>>}
  <2>a. \A i \in cloud.assoc : i[2] \in Sources /\ i = <<i[1], i[2]>>
    BY <1>t DEF Cloud
  <2>1. CASE service = "dbm"
    BY <2>1, <2>a, <1>t, EnablementAssumption DEF Cloud, SwitchedOff, DbmOn
  <2>2. CASE service = "opsi"
    BY <2>2, <2>a, <1>t, EnablementAssumption DEF Cloud, SwitchedOff, DbmOn
  <2>3. CASE service = "datasafe"
    BY <2>3, <2>a, <1>t, EnablementAssumption DEF Cloud, SwitchedOff, DbmOn
  <2>4. CASE service = "credential"
    <3>1. c = [cloud EXCEPT !.named = @ \ {t}, !.preferred[t] = {}]
      BY <2>4 DEF SwitchedOff
    <3> HIDE DEF c
    <3>2. /\ c.dbm = cloud.dbm /\ c.insight = cloud.insight /\ c.safe = cloud.safe
          /\ c.named = cloud.named \ {t} /\ c.assoc = cloud.assoc
      BY <3>1, <1>t DEF Cloud
    <3>3. \A i \in cloud.assoc : i # <<t, service>>
      BY <2>4, <2>a, EnablementAssumption
    <3>4. QED
      BY <3>2, <3>3, <2>4 DEF DbmOn
  <2>5. CASE service \notin {"dbm", "opsi", "datasafe", "credential"}
    BY <2>5, <2>a, <1>t, EnablementAssumption DEF Cloud, SwitchedOff, DbmOn
  <2>6. QED
    BY <2>1, <2>2, <2>3, <2>4, <2>5
<1> HIDE DEF c
<1>3. \A i : i \in On(c) <=> i \in On(cloud) /\ i # <<t, service>>
  BY <1>t, <1>1, <1>2, OnMember
<1>4. QED
  BY <1>1, <1>3 DEF c

-----------------------------------------------------------------------------
(* A step of a worker *)

\* What Made adds in a lifecycle.
NewCredit(c) == Credit \cup (On(c) \ On(cloud))

\* A step of the worker of t, as far as the ledger is concerned.
Result(t) ==
  /\ cloud' \in Cloud
  /\ DOMAIN job' = Targets /\ \A u \in Targets \ {t} : job'[u] = job[u]
  /\ DOMAIN job'[t] = JobFields /\ OwnClaim(t, job'[t])
  /\ DOMAIN history' = HistoryFields
  /\ history'.raced = history.raced /\ history'.removed = history.removed
  /\ IF flow = "lifecycle"
     THEN /\ flow' = flow /\ On(cloud) \subseteq On(cloud')
          /\ history'.made = history.made \cup (On(cloud') \ On(cloud))
          /\ EarnedJob(t, job'[t], cloud', NewCredit(cloud'))
     ELSE flow' \in {flow, "aborted"} /\ history'.made = history.made

\* A job that has applied nothing and is at no point that counts owes nothing.
LEMMA NothingOwed ==
  ASSUME NEW t, NEW j, NEW c, NEW credit, ~j.applied,
         j.pc \notin {"record", "upsert", "create_named", "repair"}
  PROVE  EarnedJob(t, j, c, credit)
  BY DEF EarnedJob

\* Moves: the result is what the step of the job makes of it.
LEMMA MovesResult ==
  ASSUME Shape, NEW t \in Targets, NEW c \in Cloud, On(cloud) \subseteq On(c),
         NEW next, DOMAIN next = JobFields, OwnClaim(t, next),
         Moves(t, c, next),
         flow = "lifecycle" => EarnedJob(t, next, c, NewCredit(c))
  PROVE  Result(t)
<1>1. cloud' = c /\ job' = [job EXCEPT ![t] = next] /\ flow' = flow
  BY DEF Moves
<1>2. history' = [history EXCEPT !.made = Made(c)]
  BY DEF Moves
<1>3. /\ DOMAIN history' = HistoryFields /\ history'.made = Made(c)
      /\ history'.raced = history.raced /\ history'.removed = history.removed
  BY <1>2 DEF Shape, HistoryFields
<1>4. /\ DOMAIN job' = Targets /\ job'[t] = next
      /\ \A u \in Targets \ {t} : job'[u] = job[u]
  BY <1>1 DEF Shape
<1>5. QED
  BY <1>1, <1>3, <1>4 DEF Result, Made

\* Stops: a job that stops owes nothing, whatever its call has done.
LEMMA StopsResult ==
  ASSUME Shape, NEW t \in Targets, NEW c \in Cloud, On(cloud) \subseteq On(c), Stops(t, c)
  PROVE  Result(t)
<1> USE DEF OwnClaim
<1> DEFINE next == [Idle(job[t].left) EXCEPT !.pc = "stopped"]
<1>1. cloud' = c /\ job' = [job EXCEPT ![t] = next]
      /\ flow' = IF flow = "lifecycle" THEN flow ELSE "aborted"
  BY DEF Stops
<1>2. history' = [history EXCEPT !.made = Made(c),
                   !.cutOff = @ \cup ((Made(c) \cap ({t} \X ServiceNames)) \ owned)]
  BY DEF Stops
<1>3. /\ DOMAIN history' = HistoryFields /\ history'.made = Made(c)
      /\ history'.raced = history.raced /\ history'.removed = history.removed
  BY <1>2 DEF Shape, HistoryFields
<1>4. DOMAIN next = JobFields /\ next.pc = "stopped" /\ next.applied = FALSE
  BY DEF Idle, JobFields
<1> HIDE DEF next
<1>5. EarnedJob(t, next, c, NewCredit(c))
  BY <1>4, NothingOwed
<1>6. /\ DOMAIN job' = Targets /\ job'[t] = next
      /\ \A u \in Targets \ {t} : job'[u] = job[u]
  BY <1>1 DEF Shape
<1>7. QED
  BY <1>1, <1>3, <1>4, <1>5, <1>6 DEF Result, Made

\* Call: either of the two.
LEMMA CallResult ==
  ASSUME Shape, NEW t \in Targets, NEW c \in Cloud, On(cloud) \subseteq On(c),
         NEW next, DOMAIN next = JobFields, OwnClaim(t, next),
         Call(t, c, next),
         flow = "lifecycle" => EarnedJob(t, next, c, NewCredit(c))
  PROVE  Result(t)
<1> USE DEF OwnClaim
<1>1. Moves(t, c, next) \/ Stops(t, c) \/ Stops(t, cloud)
  BY DEF Call
<1>2. cloud \in Cloud
  BY DEF Shape
<1>3. QED
  BY <1>1, <1>2, MovesResult, StopsResult

\* A phase that raises, before its call or without one.
LEMMA RefusedResult ==
  ASSUME Shape, NEW t \in Targets, Stops(t, cloud)
  PROVE  Result(t)
<1>1. cloud \in Cloud
  BY DEF Shape
<1>2. QED
  BY <1>1, StopsResult

\* A step that only moves the job.
LEMMA StayResult ==
  ASSUME Shape, NEW t \in Targets, NEW next, DOMAIN next = JobFields, OwnClaim(t, next),
         Moves(t, cloud, next),
         flow = "lifecycle" => EarnedJob(t, next, cloud, Credit)
  PROVE  Result(t)
<1> USE DEF OwnClaim
<1>1. cloud \in Cloud /\ NewCredit(cloud) = Credit
  BY DEF Shape, NewCredit
<1>2. QED
  BY <1>1, MovesResult

\* The end of a phase without a record.
LEMMA AdvanceResult ==
  ASSUME Shape, NEW t \in Targets, Moves(t, cloud, Idle(Tail(job[t].left)))
  PROVE  Result(t)
<1> USE DEF OwnClaim
<1> DEFINE next == Idle(Tail(job[t].left))
<1>1. DOMAIN next = JobFields /\ ~next.applied /\ next.pc = "idle"
  BY DEF Idle, JobFields
<1> HIDE DEF next
<1>2. EarnedJob(t, next, cloud, Credit)
  BY <1>1, NothingOwed
<1>3. QED
  BY <1>1, <1>2, StayResult DEF next

\* A job that has applied nothing goes on to a point that does not count.
LEMMA ContinueResult ==
  ASSUME Shape, NEW t \in Targets, NEW l, flow = "lifecycle" => ~job[t].applied,
         l \notin {"record", "upsert", "create_named", "repair"},
         Moves(t, cloud, [job[t] EXCEPT !.pc = l])
  PROVE  Result(t)
<1> USE DEF OwnClaim
<1> DEFINE next == [job[t] EXCEPT !.pc = l]
<1>1. /\ DOMAIN next = JobFields /\ next.pc = l
      /\ flow = "lifecycle" => ~next.applied
  BY DEF Shape, JobFields
<1> HIDE DEF next
<1>2. flow = "lifecycle" => EarnedJob(t, next, cloud, Credit)
  BY <1>1, NothingOwed
<1>3. QED
  BY <1>1, <1>2, StayResult DEF next

\* A phase whose call is credited, if there was one, may be recorded.
LEMMA RecordsResult ==
  ASSUME Shape, NEW t \in Targets, NEW service,
         flow = "lifecycle" /\ job[t].applied => <<t, service>> \in Credit \/ <<t, service>> \notin ByLook,
         Moves(t, cloud, Owning(t, service))
  PROVE  Result(t)
<1> USE DEF OwnClaim
<1> DEFINE next == Owning(t, service)
<1>1. /\ DOMAIN next = JobFields /\ next.pc = "record"
      /\ next.claim = IF job[t].applied THEN {<<t, service>>} ELSE {}
  BY DEF Owning, Shape, JobFields
<1> HIDE DEF next
<1>2. flow = "lifecycle" => next.claim \cap ByLook \subseteq Credit
  BY <1>1
<1>3. flow = "lifecycle" => EarnedJob(t, next, cloud, Credit)
  BY <1>1, <1>2 DEF EarnedJob
<1>4. QED
  BY <1>1, <1>3, StayResult DEF next

\* What the invariant says of the job of t.
Owes(t) == flow = "lifecycle" => EarnedJob(t, job[t], cloud, Credit)

\* After a call that has switched item i of t on, the job may rely on it.
LEMMA AppliedResult ==
  ASSUME Shape, NEW t \in Targets, NEW c \in Cloud, NEW service, NEW l,
         On(c) = On(cloud) \cup {<<t, service>>},
         <<t, service>> \in On(cloud) /\ flow = "lifecycle" => <<t, service>> \in Credit,
         Call(t, c, Applied(t, l)),
         <<l, service>> \in {<<"wait", "dbm">>, <<"reference", "opsi">>}
  PROVE  Result(t)
<1> USE DEF OwnClaim
<1> DEFINE next == Applied(t, l)
<1>1. DOMAIN next = JobFields /\ next.pc = l
  BY DEF Applied, Shape, JobFields
<1> HIDE DEF next
<1>2. flow = "lifecycle" => <<t, service>> \in NewCredit(c)
  BY DEF NewCredit
<1>3. flow = "lifecycle" => EarnedJob(t, next, c, NewCredit(c))
  BY <1>1, <1>2 DEF EarnedJob
<1>4. QED
  BY <1>1, <1>3, CallResult DEF next

\* Enter: no phase begins at a point that counts.
LEMMA EnterResult ==
  ASSUME Shape, NEW t \in Targets, Owes(t), Enter(t)
  PROVE  Result(t)
<1> DEFINE e == Entry(t, Head(job[t].left))
<1>1. At(t, "idle")
  BY DEF Enter
<1>2. \/ Stops(t, cloud)
      \/ Moves(t, cloud, Idle(Tail(job[t].left)))
      \/ e \notin {"refused", "skipped"} /\ Moves(t, cloud, [job[t] EXCEPT !.pc = e])
  BY DEF Enter, Refused, Advance, Continue
<1>3. e \notin {"record", "upsert", "create_named", "repair"}
  BY DEF Entry
<1>4. flow = "lifecycle" => ~job[t].applied
  BY <1>1 DEF Owes, EarnedJob, At
<1> HIDE DEF e
<1>5. QED
  BY <1>2, <1>3, <1>4, RefusedResult, AdvanceResult, ContinueResult

\* enable_dbm: what is switched on here is credited, what was on is not claimed.
LEMMA EnableDbmResult ==
  ASSUME Shape, NEW t \in Targets, Owes(t), EnableDbm(t)
  PROVE  Result(t)
<1> USE DEF OwnClaim
<1> DEFINE c == Enabling(t)
           claiming == [Applied(t, "record") EXCEPT !.claim = {<<t, "dbm">>}]
<1>1. At(t, "enable_dbm")
  BY DEF EnableDbm
<1>2. \/ Moves(t, cloud, [job[t] EXCEPT !.pc = "healthy"])
      \/ Moves(t, cloud, Owning(t, "dbm"))
      \/ Stops(t, cloud)
      \/ ~DbmOn(cloud, t) /\ Call(t, c, Applied(t, "wait"))
      \/ ~DbmOn(cloud, t) /\ Call(t, c, claiming)
  BY DEF EnableDbm, Refused, Records, Continue, Enabling
<1>3. flow = "lifecycle" => ~job[t].applied
  BY <1>1 DEF Owes, EarnedJob, At
<1>4. c \in Cloud /\ On(c) = On(cloud) \cup {<<t, "dbm">>} /\ cloud \in Cloud
  BY OnDbm DEF Shape
<1>5. ~DbmOn(cloud, t) => <<t, "dbm">> \notin On(cloud)
  <2>1. ~DbmOn(cloud, t) => <<t, "dbm">> \notin cloud.assoc
    BY EnablementAssumption DEF Shape, Cloud
  <2>2. QED
    BY <1>4, <2>1, OnMember
<1>6. DOMAIN claiming = JobFields /\ claiming.pc = "record" /\ claiming.claim = {<<t, "dbm">>}
  BY DEF Applied, Shape, JobFields
<1> HIDE DEF c, claiming
<1>7. ~DbmOn(cloud, t) => EarnedJob(t, claiming, c, NewCredit(c))
  <2>1. ~DbmOn(cloud, t) => <<t, "dbm">> \in NewCredit(c)
    BY <1>4, <1>5 DEF NewCredit
  <2>2. QED
    BY <1>6, <2>1 DEF EarnedJob
<1>8. CASE Moves(t, cloud, [job[t] EXCEPT !.pc = "healthy"])
  BY <1>3, <1>8, ContinueResult
<1>9. CASE Moves(t, cloud, Owning(t, "dbm"))
  BY <1>3, <1>9, RecordsResult
<1>10. CASE ~DbmOn(cloud, t) /\ Call(t, c, Applied(t, "wait"))
  BY <1>4, <1>5, <1>10, AppliedResult
<1>11. CASE ~DbmOn(cloud, t) /\ Call(t, c, claiming)
  BY <1>4, <1>6, <1>7, <1>11, CallResult
<1>12. QED
  BY <1>2, <1>8, <1>9, <1>10, <1>11, RefusedResult

\* _dbm_monitoring_healthy and the modification: nothing is claimed.
LEMMA ModifyResult ==
  ASSUME Shape, NEW t \in Targets, Owes(t), Healthy(t) \/ Modify(t)
  PROVE  Result(t)
<1>1. At(t, "healthy") \/ At(t, "modify")
  BY DEF Healthy, Modify
<1>2. \/ Moves(t, cloud, Owning(t, "dbm"))
      \/ Moves(t, cloud, [job[t] EXCEPT !.pc = "modify"])
      \/ Moves(t, cloud, [job[t] EXCEPT !.pc = "wait"])
      \/ Stops(t, cloud)
  BY DEF Healthy, Modify, Records, Continue, Call
<1>3. flow = "lifecycle" => ~job[t].applied
  BY <1>1 DEF Owes, EarnedJob, At
<1>4. QED
  BY <1>2, <1>3, RecordsResult, ContinueResult, RefusedResult

\* _wait_dbm_enabled keeps what is owed and records it at the end.
LEMMA WaitDbmResult ==
  ASSUME Shape, NEW t \in Targets, Owes(t), WaitDbm(t)
  PROVE  Result(t)
<1> USE DEF OwnClaim
<1> DEFINE next == [job[t] EXCEPT !.pc = "wait", !.tries = @ + 1]
<1>1. At(t, "wait")
  BY DEF WaitDbm
<1>2. \/ Stops(t, cloud)
      \/ Moves(t, cloud, next)
      \/ Moves(t, cloud, Owning(t, "dbm"))
  BY DEF WaitDbm, Refused, Again, Records
<1>3. flow = "lifecycle" /\ job[t].applied => <<t, "dbm">> \in Credit
  BY <1>1 DEF Owes, EarnedJob, At
<1>4. DOMAIN next = JobFields /\ next.pc = "wait" /\ (next.applied = job[t].applied)
  BY DEF Shape, JobFields
<1> HIDE DEF next
<1>5. flow = "lifecycle" => EarnedJob(t, next, cloud, Credit)
  BY <1>3, <1>4 DEF EarnedJob
<1>6. QED
  BY <1>2, <1>3, <1>4, <1>5, RefusedResult, StayResult, RecordsResult

\* The items of the services other than the Log Analytics sources, one by one.
LEMMA OnPlain ==
  ASSUME Shape, NEW t \in Targets
  PROVE  /\ <<t, "opsi">> \in On(cloud) <=> cloud.insight[t] = "active"
         /\ <<t, "credential">> \in On(cloud) <=> t \in cloud.named
<1>1. cloud \in Cloud /\ <<t, "opsi">> \notin cloud.assoc /\ <<t, "credential">> \notin cloud.assoc
  BY EnablementAssumption DEF Shape, Cloud
<1>2. QED
  BY <1>1, OnMember

\* _find_opsi_insight: nothing is applied; only a failed insight is to be repaired.
LEMMA FindResult ==
  ASSUME Shape, NEW t \in Targets, Owes(t), Find(t)
  PROVE  Result(t)
<1> USE DEF OwnClaim
<1> DEFINE found(state) == AfterFinding(t, state)
           next(state) == [job[t] EXCEPT !.pc = found(state)]
<1>1. At(t, "find")
  BY DEF Find
<1>2. \/ Stops(t, cloud)
      \/ Moves(t, cloud, next(cloud.insight[t]))
      \/ Moves(t, cloud, next("none"))
  BY DEF Find, Refused, Continue
<1>3. flow = "lifecycle" => ~job[t].applied
  BY <1>1 DEF Owes, EarnedJob, At
<1>4. ASSUME NEW state \in {"none", "active", "failed", "disabled"}
      PROVE  /\ DOMAIN next(state) = JobFields /\ next(state).pc = found(state)
             /\ next(state).applied = job[t].applied
             /\ found(state) \notin {"record", "upsert", "create_named"}
             /\ found(state) = "repair" => state = "failed"
  BY DEF Shape, JobFields, AfterFinding
<1>5. cloud.insight[t] \in {"none", "active", "failed", "disabled"}
  BY DEF Shape, Cloud
<1> HIDE DEF found, next
<1>6. ASSUME NEW state \in {"none", "active", "failed", "disabled"},
             state \in {"none", cloud.insight[t]}, Moves(t, cloud, next(state))
      PROVE  Result(t)
  <2>1. flow = "lifecycle" => EarnedJob(t, next(state), cloud, Credit)
    BY <1>3, <1>4, <1>6 DEF EarnedJob
  <2>2. QED
    BY <1>4, <1>6, <2>1, StayResult
<1>7. QED
  BY <1>2, <1>5, <1>6, RefusedResult

\* The calls that make an insight active are credited with it: it was not active, or
\* somebody else came first to a call that was already on its way.
LEMMA InsightResult ==
  ASSUME Shape, NEW t \in Targets, Owes(t),
         RepairInsight(t) \/ EnableInsight(t) \/ CreateInsight(t) \/ EnableAutonomousInsight(t)
  PROVE  Result(t)
<1> USE DEF OwnClaim
<1> DEFINE again == [job[t] EXCEPT !.pc = "create", !.tries = @ + 1]
<1>1. \/ Stops(t, cloud)
      \/ /\ Moves(t, cloud, [job[t] EXCEPT !.pc = "reference"])
         /\ At(t, "create") \/ At(t, "enable_adb")
      \/ At(t, "create") /\ Moves(t, cloud, again)
      \/ /\ Call(t, Active(t), Applied(t, "reference"))
         /\ At(t, "repair") \/ cloud.insight[t] # "active"
  BY DEF RepairInsight, EnableInsight, CreateInsight, EnableAutonomousInsight, Refused, Continue, Again
<1>2. CASE /\ Moves(t, cloud, [job[t] EXCEPT !.pc = "reference"])
           /\ At(t, "create") \/ At(t, "enable_adb")
  <2>1. flow = "lifecycle" => ~job[t].applied
    BY <1>2 DEF Owes, EarnedJob, At
  <2>2. QED
    BY <1>2, <2>1, ContinueResult
<1>3. CASE At(t, "create") /\ Moves(t, cloud, again)
  <2>1. flow = "lifecycle" => ~job[t].applied
    BY <1>3 DEF Owes, EarnedJob, At
  <2>2. DOMAIN again = JobFields /\ again.pc = "create" /\ (again.applied = job[t].applied)
    BY DEF Shape, JobFields
  <2> HIDE DEF again
  <2>3. flow = "lifecycle" => EarnedJob(t, again, cloud, Credit)
    BY <2>1, <2>2, NothingOwed
  <2>4. QED
    BY <1>3, <2>2, <2>3, StayResult
<1>4. CASE /\ Call(t, Active(t), Applied(t, "reference"))
           /\ At(t, "repair") \/ cloud.insight[t] # "active"
  <2>1. Active(t) \in Cloud /\ On(Active(t)) = On(cloud) \cup {<<t, "opsi">>}
    BY OnInsight
  <2>2. <<t, "opsi">> \in On(cloud) /\ flow = "lifecycle" => <<t, "opsi">> \in Credit
    BY <1>4, OnPlain DEF Owes, EarnedJob, At
  <2>3. QED
    BY <1>4, <2>1, <2>2, AppliedResult
<1> HIDE DEF again
<1>5. QED
  BY <1>1, <1>2, <1>3, <1>4, RefusedResult

\* _opsi_reference records what was applied.
LEMMA ReferenceResult ==
  ASSUME Shape, NEW t \in Targets, Owes(t), Reference(t)
  PROVE  Result(t)
<1>1. At(t, "reference")
  BY DEF Reference
<1>2. \/ Moves(t, cloud, Idle(Tail(job[t].left)))
      \/ Moves(t, cloud, Owning(t, "opsi"))
      \/ Stops(t, cloud)
  BY DEF Reference, Advance, Records, Refused
<1>3. flow = "lifecycle" /\ job[t].applied => <<t, "opsi">> \in Credit
  BY <1>1 DEF Owes, EarnedJob, At
<1>4. QED
  BY <1>2, <1>3, AdvanceResult, RecordsResult, RefusedResult

\* Data Safe: its claims are outside the ledger.
LEMMA DataSafeResult ==
  ASSUME Shape, NEW t \in Targets, Owes(t), ListSafe(t) \/ RegisterSafe(t)
  PROVE  Result(t)
<1> USE DEF OwnClaim
<1> DEFINE claiming == [Applied(t, "record") EXCEPT !.claim = {<<t, "datasafe">>}]
<1>1. \/ At(t, "list_safe") /\ Moves(t, cloud, Owning(t, "datasafe"))
      \/ Moves(t, cloud, Idle(Tail(job[t].left)))
      \/ Stops(t, cloud)
      \/ At(t, "list_safe") /\ Moves(t, cloud, [job[t] EXCEPT !.pc = "register_safe"])
      \/ Moves(t, cloud, claiming)
      \/ Call(t, Registered(t), claiming)
  BY DEF ListSafe, RegisterSafe, Records, Advance, Refused, Continue, Registered
<1>2. At(t, "list_safe") /\ flow = "lifecycle" => ~job[t].applied
  BY DEF Owes, EarnedJob, At
<1>3. DOMAIN claiming = JobFields /\ claiming.pc = "record" /\ claiming.claim = {<<t, "datasafe">>}
  BY DEF Applied, Shape, JobFields
<1>4. claiming.claim \cap ByLook = {}
  BY <1>3 DEF ByLook
<1>5. \A c, credit : EarnedJob(t, claiming, c, credit)
  BY <1>3, <1>4 DEF EarnedJob
<1>6. Registered(t) \in Cloud /\ On(cloud) \subseteq On(Registered(t))
  BY OnAdded
<1> HIDE DEF claiming
<1>7. CASE Moves(t, cloud, claiming)
  BY <1>3, <1>5, <1>7, StayResult
<1>8. CASE Call(t, Registered(t), claiming)
  BY <1>3, <1>5, <1>6, <1>8, CallResult
<1>9. QED
  BY <1>1, <1>2, <1>7, <1>8, AdvanceResult, RecordsResult, RefusedResult, ContinueResult

\* A credential attempt that fails: the next one finds what this one has created.
LEMMA AttemptResult ==
  ASSUME Shape, NEW t \in Targets, NEW c \in Cloud, On(cloud) \subseteq On(c), AttemptFails(t, c),
         flow = "lifecycle" /\ t \in c.named => <<t, "credential">> \in NewCredit(c)
  PROVE  Result(t)
<1> USE DEF OwnClaim
<1> DEFINE next == [Idle(job[t].left) EXCEPT !.pc = "create_named", !.tries = job[t].tries + 1]
<1>1. Moves(t, c, next) \/ Stops(t, c)
  BY DEF AttemptFails
<1>2. DOMAIN next = JobFields /\ next.pc = "create_named" /\ next.applied = FALSE
  BY DEF Idle, JobFields
<1> HIDE DEF next
<1>3. flow = "lifecycle" => EarnedJob(t, next, c, NewCredit(c))
  BY <1>2 DEF EarnedJob
<1>4. QED
  BY <1>1, <1>2, <1>3, MovesResult, StopsResult

\* _already_set and _named_credential_id: the credential is created only when the
\* look has not found it.
LEMMA LookupResult ==
  ASSUME Shape, NEW t \in Targets, Owes(t), Preferred(t) \/ Lookup(t)
  PROVE  Result(t)
<1> USE DEF OwnClaim
<1> DEFINE next == [job[t] EXCEPT !.pc = "create_named"]
<1>1. At(t, "preferred") \/ At(t, "lookup")
  BY DEF Preferred, Lookup
<1>2. flow = "lifecycle" => ~job[t].applied
  BY <1>1 DEF Owes, EarnedJob, At
<1>3. \/ Moves(t, cloud, Owning(t, "credential"))
      \/ Moves(t, cloud, [job[t] EXCEPT !.pc = "lookup"])
      \/ Moves(t, cloud, [job[t] EXCEPT !.pc = "set_read"])
      \/ t \notin cloud.named /\ Moves(t, cloud, next)
  BY DEF Preferred, Lookup, Records, Continue
<1>4. DOMAIN next = JobFields /\ next.pc = "create_named" /\ (next.applied = job[t].applied)
  BY DEF Shape, JobFields
<1> HIDE DEF next
<1>5. CASE t \notin cloud.named /\ Moves(t, cloud, next)
  <2>1. flow = "lifecycle" => EarnedJob(t, next, cloud, Credit)
    BY <1>2, <1>4, <1>5 DEF EarnedJob
  <2>2. QED
    BY <1>4, <1>5, <2>1, StayResult
<1>6. QED
  BY <1>2, <1>3, <1>5, RecordsResult, ContinueResult

\* create_named_credential: what it returns the run, or somebody who came first, has
\* switched on.
LEMMA CreateNamedResult ==
  ASSUME Shape, NEW t \in Targets, Owes(t), CreateNamed(t)
  PROVE  Result(t)
<1> USE DEF OwnClaim
<1> DEFINE next == Applied(t, "set_read")
<1>1. At(t, "create_named")
  BY DEF CreateNamed
<1>2. \/ Moves(t, Named(t), next)
      \/ \E d \in {cloud, Named(t)} : AttemptFails(t, d)
  BY DEF CreateNamed, Named
<1>3. flow = "lifecycle" /\ t \in cloud.named => <<t, "credential">> \in Credit
  BY <1>1 DEF Owes, EarnedJob, At
<1>4. Named(t) \in Cloud /\ On(Named(t)) = On(cloud) \cup {<<t, "credential">>} /\ cloud \in Cloud
  BY OnAdded DEF Shape
<1>5. flow = "lifecycle" => <<t, "credential">> \in NewCredit(Named(t))
  BY <1>3, <1>4, OnPlain DEF NewCredit
<1>6. DOMAIN next = JobFields /\ next.pc = "set_read"
  BY DEF Applied, Shape, JobFields
<1> HIDE DEF next
<1>7. flow = "lifecycle" => EarnedJob(t, next, Named(t), NewCredit(Named(t)))
  BY <1>5, <1>6 DEF EarnedJob
<1>8. CASE Moves(t, Named(t), next)
  BY <1>4, <1>6, <1>7, <1>8, MovesResult
<1>9. CASE AttemptFails(t, Named(t))
  BY <1>4, <1>5, <1>9, AttemptResult
<1>10. CASE AttemptFails(t, cloud)
  BY <1>3, <1>4, <1>10, AttemptResult DEF NewCredit
<1>11. QED
  BY <1>2, <1>8, <1>9, <1>10

\* set_preferred_named_credential: it keeps what is owed.
LEMMA SetPreferredResult ==
  ASSUME Shape, NEW t \in Targets, Owes(t), NEW name \in PreferredNames, SetPreferred(t, name)
  PROVE  Result(t)
<1> USE DEF OwnClaim
<1> DEFINE c == WithPreferred(t, name)
           write == [job[t] EXCEPT !.pc = "set_write"]
           record == Owning(t, "credential")
<1>1. At(t, "set_read") \/ At(t, "set_write")
  BY DEF SetPreferred
<1>2. \/ Moves(t, c, write) \/ Moves(t, c, record)
      \/ \E d \in {cloud, c} : (job[t].applied /\ AttemptFails(t, d)) \/ Stops(t, d)
  BY DEF SetPreferred, WithPreferred
<1>3. c \in Cloud /\ On(c) = On(cloud) /\ cloud \in Cloud
  BY OnSame DEF Shape
<1>4. flow = "lifecycle" /\ job[t].applied => <<t, "credential">> \in Credit
  BY <1>1 DEF Owes, EarnedJob, At
<1>5. NewCredit(c) = Credit /\ NewCredit(cloud) = Credit
  BY <1>3 DEF NewCredit
<1>6. /\ DOMAIN write = JobFields /\ write.pc = "set_write" /\ (write.applied = job[t].applied)
      /\ DOMAIN record = JobFields /\ record.pc = "record"
      /\ record.claim = IF job[t].applied THEN {<<t, "credential">>} ELSE {}
  BY DEF Owning, Shape, JobFields
<1> HIDE DEF c, write, record
<1>7. flow = "lifecycle" => EarnedJob(t, write, c, NewCredit(c))
  BY <1>4, <1>5, <1>6 DEF EarnedJob
<1>8. flow = "lifecycle" => EarnedJob(t, record, c, NewCredit(c))
  BY <1>4, <1>5, <1>6 DEF EarnedJob
<1>9. CASE Moves(t, c, write)
  BY <1>3, <1>6, <1>7, <1>9, MovesResult
<1>10. CASE Moves(t, c, record)
  BY <1>3, <1>6, <1>8, <1>10, MovesResult
<1>11. ASSUME NEW d \in {cloud, c}, (job[t].applied /\ AttemptFails(t, d)) \/ Stops(t, d)
       PROVE  Result(t)
  <2>1. d \in Cloud /\ On(cloud) \subseteq On(d) /\ NewCredit(d) = Credit
    BY <1>3, <1>5
  <2>2. QED
    BY <1>4, <1>11, <2>1, AttemptResult, StopsResult
<1>12. QED
  BY <1>2, <1>9, <1>10, <1>11

\* _classify_associations and the upsert: what is not there yet is claimed, and what
\* others have added since was a race.
LEMMA AssociationsResult ==
  ASSUME Shape, NEW t \in Targets, Owes(t), Entities(t) \/ Classify(t) \/ Upsert(t)
  PROVE  Result(t)
<1> USE DEF OwnClaim
<1>1. CASE Entities(t)
  <2> DEFINE next == [job[t] EXCEPT !.pc = "classify"]
  <2>1. Stops(t, cloud) \/ Moves(t, cloud, next) \/ Call(t, WithEntity(t), next)
    BY <1>1 DEF Entities, Refused, Continue, WithEntity
  <2>2. flow = "lifecycle" => ~job[t].applied
    BY <1>1 DEF Entities, Owes, EarnedJob, At
  <2>3. DOMAIN next = JobFields /\ next.pc = "classify" /\ (next.applied = job[t].applied)
    BY DEF Shape, JobFields
  <2>4. WithEntity(t) \in Cloud /\ On(WithEntity(t)) = On(cloud)
    BY OnSame DEF PreferredNames
  <2> HIDE DEF next
  <2>5. \A c, credit : flow = "lifecycle" => EarnedJob(t, next, c, credit)
    BY <2>2, <2>3, NothingOwed
  <2>6. QED
    BY <2>1, <2>3, <2>4, <2>5, RefusedResult, StayResult, CallResult
<1>2. CASE Classify(t)
  <2> DEFINE created == ({t} \X Sources) \ cloud.assoc
             next == [job[t] EXCEPT !.claim = created,
                            !.pc = IF created = {} THEN "record" ELSE "upsert"]
  <2>1. Moves(t, cloud, next)
    BY <1>2 DEF Classify
  <2>2. flow = "lifecycle" => ~job[t].applied
    BY <1>2 DEF Classify, Owes, EarnedJob, At
  <2>3. /\ DOMAIN next = JobFields /\ (next.applied = job[t].applied) /\ next.claim = created
        /\ next.pc = IF created = {} THEN "record" ELSE "upsert"
    BY DEF Shape, JobFields
  <2>4. created \subseteq {t} \X Sources /\ created \cap cloud.assoc = {}
    OBVIOUS
  <2> HIDE DEF next, created
  <2>5. flow = "lifecycle" => EarnedJob(t, next, cloud, Credit)
    BY <2>2, <2>3, <2>4 DEF EarnedJob
  <2>6. QED
    BY <2>1, <2>3, <2>4, <2>5, StayResult
<1>3. CASE Upsert(t)
  <2> DEFINE next == [job[t] EXCEPT !.pc = "record"]
             c == Associated(job[t].claim)
  <2>1. Call(t, c, next)
    BY <1>3 DEF Upsert, Associated
  <2>2. job[t].claim \in SUBSET ({t} \X Sources)
    BY <1>3 DEF Upsert, At, Shape
  <2>3. flow = "lifecycle" => ~job[t].applied /\ job[t].claim \cap cloud.assoc \subseteq Credit
    BY <1>3 DEF Upsert, Owes, EarnedJob, At
  <2>4. c \in Cloud /\ On(c) = On(cloud) \cup job[t].claim
    BY <2>2, OnAdded
  <2>5. /\ DOMAIN next = JobFields /\ next.pc = "record" /\ next.claim = job[t].claim
        /\ (next.applied = job[t].applied)
    BY DEF Shape, JobFields
  <2> HIDE DEF next, c
  <2>6. \A i \in job[t].claim : i \in On(cloud) => i \in cloud.assoc
    <3>1. SUFFICES ASSUME NEW i \in job[t].claim, i \in On(cloud) PROVE i \in cloud.assoc
      OBVIOUS
    <3>2. PICK source \in Sources : i = <<t, source>>
      BY <2>2
    <3>3. source \notin {"dbm", "opsi", "datasafe", "credential"}
      BY EnablementAssumption
    <3>4. QED
      BY <3>1, <3>2, <3>3, OnMember DEF Shape
  <2>7. flow = "lifecycle" => job[t].claim \subseteq NewCredit(c)
    BY <2>3, <2>4, <2>6 DEF NewCredit
  <2>8. flow = "lifecycle" => EarnedJob(t, next, c, NewCredit(c))
    BY <2>3, <2>5, <2>7 DEF EarnedJob
  <2>9. QED
    BY <2>1, <2>4, <2>5, <2>8, CallResult
<1>4. QED
  BY <1>1, <1>2, <1>3

\* Every step of a worker but the record has such a result.
LEMMA WorkerResult ==
  ASSUME Shape, NEW t \in Targets, Owes(t), WorkerStep(t)
  PROVE  /\ Result(t) /\ UNCHANGED plan
         /\ owned' = owned \/ (Record(t) /\ flow = "lifecycle" /\ owned' = owned \cup job[t].claim)
<1>1. CASE Record(t)
  <2>1. Result(t)
    BY <1>1, AdvanceResult DEF Record, Advance
  <2>2. QED
    BY <1>1, <2>1 DEF Record, WorkerStep
<1>2. ASSUME BlockChild(t) \/ Breakdown(t) PROVE Result(t)
  <2>1. Stops(t, cloud)
    BY <1>2 DEF BlockChild, Breakdown, Refused
  <2>2. QED
    BY <2>1, RefusedResult
<1>3. ASSUME ~Record(t) PROVE Result(t) /\ UNCHANGED owned
  <2>1. Result(t)
    BY <1>2, <1>3, EnterResult, EnableDbmResult, ModifyResult, WaitDbmResult, FindResult,
       InsightResult, ReferenceResult, DataSafeResult, LookupResult, CreateNamedResult,
       SetPreferredResult, AssociationsResult DEF WorkerStep
  <2>2. QED
    BY <1>3, <2>1 DEF WorkerStep
<1>4. QED
  BY <1>1, <1>3 DEF WorkerStep

-----------------------------------------------------------------------------
(* The invariant *)

\* What others gain by a call is credited, so their jobs are as good as before.
LEMMA OthersEarned ==
  ASSUME Shape, NEW u \in Targets, NEW j, NEW c \in Cloud, NEW credit, NEW more,
         OwnClaim(u, j), EarnedJob(u, j, cloud, credit),
         credit \subseteq more, On(c) \subseteq On(cloud) \cup more
  PROVE  EarnedJob(u, j, c, more)
<1>1. cloud \in Cloud
  BY DEF Shape
<1>2. <<u, "opsi">> \notin cloud.assoc /\ <<u, "credential">> \notin cloud.assoc
  BY <1>1, EnablementAssumption DEF Cloud
<1>3. u \in c.named => u \in cloud.named \/ <<u, "credential">> \in more
  <2>1. u \in c.named => <<u, "credential">> \in On(c)
    BY OnMember
  <2>2. <<u, "credential">> \in On(cloud) => u \in cloud.named
    BY <1>1, <1>2, OnMember
  <2>3. QED
    BY <2>1, <2>2
<1>4. c.insight[u] = "active" => cloud.insight[u] = "active" \/ <<u, "opsi">> \in more
  <2>1. c.insight[u] = "active" => <<u, "opsi">> \in On(c)
    BY OnMember
  <2>2. <<u, "opsi">> \in On(cloud) => cloud.insight[u] = "active"
    BY <1>1, <1>2, OnMember
  <2>3. QED
    BY <2>1, <2>2
<1>5. j.pc = "upsert" => j.claim \cap c.assoc \subseteq more
  <2>1. SUFFICES ASSUME j.pc = "upsert", NEW i \in j.claim, i \in c.assoc PROVE i \in more
    OBVIOUS
  <2>2. i \in On(cloud) \/ i \in more
    BY <2>1, OnMember
  <2>3. PICK source \in Sources : i = <<u, source>>
    BY <2>1 DEF OwnClaim
  <2>4. source \notin {"dbm", "opsi", "datasafe", "credential"}
    BY <2>3, EnablementAssumption
  <2>5. i \in On(cloud) => i \in cloud.assoc
    BY <1>1, <2>3, <2>4, OnMember
  <2>6. QED
    BY <2>1, <2>2, <2>5 DEF EarnedJob
<1>6. QED
  BY <1>3, <1>4, <1>5 DEF EarnedJob

\* At first nothing is claimed, nothing runs, and only items are on.
LEMMA LedgerInvInit == Init => LedgerInv
<1> SUFFICES ASSUME Init PROVE LedgerInv
  OBVIOUS
<1>1. PICK start \in Starts : cloud = CloudWith(start.on, start.broken)
  BY DEF Init
<1>2. start.on \subseteq Items /\ \A t \in DOMAIN start.broken : start.broken[t] \in {"failed", "disabled"}
  BY EnablementAssumption
<1>3. cloud \in Cloud
  BY <1>1, <1>2 DEF CloudWith, Cloud
<1>4. /\ job = [t \in Targets |-> Idle(<<>>)] /\ flow = "none" /\ owned = {} /\ plan = {}
      /\ DOMAIN history = HistoryFields /\ history.removed = {}
  BY DEF Init, HistoryFields
<1>5. \A t \in Targets : DOMAIN job[t] = JobFields /\ job[t].pc = "idle"
  BY <1>4 DEF Idle, JobFields
<1>6. Shape
  BY <1>3, <1>4, <1>5 DEF Shape, OwnClaim
<1>7. QED
  BY <1>4, <1>6 DEF LedgerInv, AtRest

\* A worker at rest makes no step while the run is offboarded.
LEMMA RestingWorker ==
  ASSUME NEW t \in Targets, Settled(t), WorkerStep(t)
  PROVE  FALSE
<1>1. \A l : l \notin {"idle", "stopped"} => ~At(t, l)
  BY DEF Settled, At
<1>2. ~Enter(t) /\ ~BlockChild(t) /\ ~Breakdown(t) /\ ~Record(t)
  BY <1>1 DEF Settled, At, Enter, BlockChild, Breakdown, Record
<1>3. /\ ~EnableDbm(t) /\ ~Healthy(t) /\ ~Modify(t) /\ ~WaitDbm(t) /\ ~Find(t)
      /\ ~RepairInsight(t) /\ ~EnableInsight(t) /\ ~CreateInsight(t)
      /\ ~EnableAutonomousInsight(t) /\ ~Reference(t)
  BY <1>1 DEF EnableDbm, Healthy, Modify, WaitDbm, Find, RepairInsight, EnableInsight,
              CreateInsight, EnableAutonomousInsight, Reference
<1>4. /\ ~ListSafe(t) /\ ~RegisterSafe(t) /\ ~Preferred(t) /\ ~Lookup(t) /\ ~CreateNamed(t)
      /\ \A name \in PreferredNames : ~SetPreferred(t, name)
      /\ ~Entities(t) /\ ~Classify(t) /\ ~Upsert(t)
  BY <1>1 DEF ListSafe, RegisterSafe, Preferred, Lookup, CreateNamed, SetPreferred, Entities,
              Classify, Upsert
<1>5. QED
  BY <1>2, <1>3, <1>4 DEF WorkerStep

\* A worker's step keeps the invariant.
LEMMA WorkerInv ==
  ASSUME LedgerInv, NEW t \in Targets, WorkerStep(t)
  PROVE  LedgerInv' /\ Result(t)
<1>1. /\ Shape /\ AtRest /\ owned \cap ByLook \subseteq Credit
      /\ flow = "lifecycle" => \A u \in Targets : EarnedJob(u, job[u], cloud, Credit)
  BY DEF LedgerInv
<1>2. /\ Result(t) /\ UNCHANGED plan
      /\ owned' = owned \/ (Record(t) /\ flow = "lifecycle" /\ owned' = owned \cup job[t].claim)
  BY <1>1, WorkerResult DEF Owes
<1>3. flow # "offboard"
  BY <1>1, RestingWorker DEF AtRest
<1>4. plan' = {} /\ history'.removed = {} /\ flow' # "offboard"
  BY <1>1, <1>2, <1>3 DEF AtRest, Result
<1>5. AtRest'
  BY <1>4 DEF AtRest
<1>6. Shape'
  BY <1>1, <1>2 DEF Shape, Result
<1>7. ASSUME flow = "lifecycle"
      PROVE  /\ owned' \cap ByLook \subseteq Credit'
             /\ \A u \in Targets : EarnedJob(u, job'[u], cloud', Credit')
  <2>1. /\ Credit' = NewCredit(cloud') /\ Credit \subseteq Credit'
        /\ On(cloud') \subseteq On(cloud) \cup Credit' /\ cloud' \in Cloud
    BY <1>2, <1>7 DEF Result, Credit, NewCredit
  <2>2. owned' \cap ByLook \subseteq Credit'
    <3>1. Record(t) => job[t].claim \cap ByLook \subseteq Credit
      BY <1>1, <1>7 DEF Record, At, EarnedJob
    <3>2. QED
      BY <1>1, <1>2, <2>1, <3>1
  <2>3. EarnedJob(t, job'[t], cloud', Credit')
    BY <1>2, <1>7, <2>1 DEF Result
  <2>4. ASSUME NEW u \in Targets, u # t PROVE EarnedJob(u, job'[u], cloud', Credit')
    <3>1. job'[u] = job[u] /\ OwnClaim(u, job[u]) /\ EarnedJob(u, job[u], cloud, Credit)
      BY <1>1, <1>2, <1>7, <2>4 DEF Result, Shape
    <3>2. QED
      BY <1>1, <2>1, <3>1, OthersEarned
  <2>5. QED
    BY <2>2, <2>3, <2>4
<1>8. ASSUME flow # "lifecycle"
      PROVE  owned' \cap ByLook \subseteq Credit' /\ flow' # "lifecycle"
  BY <1>1, <1>2, <1>8 DEF Result, Credit
<1>9. QED
  BY <1>2, <1>5, <1>6, <1>7, <1>8 DEF LedgerInv

\* A command that starts, or that decides about a target, begins with idle jobs.
LEMMA IdleShape ==
  ASSUME NEW t, NEW phases
  PROVE  /\ DOMAIN Idle(phases) = JobFields /\ OwnClaim(t, Idle(phases))
         /\ \A c, credit : EarnedJob(t, Idle(phases), c, credit)
<1>1. DOMAIN Idle(phases) = JobFields /\ Idle(phases).pc = "idle" /\ Idle(phases).applied = FALSE
  BY DEF Idle, JobFields
<1>2. QED
  BY <1>1, NothingOwed DEF OwnClaim

\* The commands around the workers keep the invariant.
LEMMA CommandInv ==
  ASSUME LedgerInv,
         \/ \E t \in Targets : DecideAbout(t) \/ (Reenter(t) /\ UNCHANGED <<plan, expert>>)
         \/ \E S \in Selections :
              \/ StartLifecycle(S)
              \/ \E mode \in {"plan", "apply", "db-side-only"}, force \in BOOLEAN :
                   StartExpert(S, mode, force)
         \/ BeginOffboard \/ RegisterAll \/ Report
  PROVE  LedgerInv'
<1>1. /\ Shape /\ AtRest /\ owned \cap ByLook \subseteq Credit
      /\ flow = "lifecycle" => \A u \in Targets : EarnedJob(u, job[u], cloud, Credit)
  BY DEF LedgerInv
<1>2. ASSUME NEW t \in Targets, DecideAbout(t) PROVE LedgerInv'
  <2>1. /\ flow = "expert" /\ UNCHANGED <<cloud, flow, owned, plan, history>>
        /\ \E phases : job' = [job EXCEPT ![t] = Idle(phases)]
    BY <1>2 DEF DecideAbout, Decide
  <2>2. Shape'
    BY <1>1, <2>1, IdleShape DEF Shape
  <2>3. QED
    BY <1>1, <2>1, <2>2 DEF LedgerInv, AtRest, Credit
<1>3. ASSUME NEW t \in Targets, Reenter(t), UNCHANGED plan PROVE LedgerInv'
  <2> DEFINE next == [job[t] EXCEPT !.pc = "idle"]
  <2>1. /\ flow = "lifecycle" /\ At(t, "stopped") /\ UNCHANGED <<cloud, flow, owned, history>>
        /\ job' = [job EXCEPT ![t].pc = "idle"]
    BY <1>3 DEF Reenter
  <2>2. job' = [job EXCEPT ![t] = next]
    BY <2>1 DEF Shape
  <2>3. DOMAIN next = JobFields /\ next.pc = "idle" /\ (next.applied = job[t].applied)
    BY <1>1 DEF Shape, JobFields
  <2>4. ~job[t].applied
    BY <1>1, <2>1 DEF EarnedJob, At
  <2> HIDE DEF next
  <2>5. EarnedJob(t, next, cloud, Credit) /\ OwnClaim(t, next)
    BY <2>3, <2>4, NothingOwed DEF OwnClaim
  <2>6. Shape'
    BY <1>1, <2>1, <2>2, <2>3, <2>5 DEF Shape
  <2>7. \A u \in Targets : EarnedJob(u, job'[u], cloud, Credit)
    BY <1>1, <2>1, <2>2, <2>5 DEF Shape
  <2>8. QED
    BY <1>1, <1>3, <2>1, <2>6, <2>7 DEF LedgerInv, AtRest, Credit
<1>4. ASSUME NEW S \in Selections, StartLifecycle(S) PROVE LedgerInv'
  <2>1. /\ flow \in {"none", "done", "aborted"} /\ flow' = "lifecycle"
        /\ job' = [t \in Targets |-> Idle(IF t \in S THEN PhasesOf(t) ELSE <<>>)]
        /\ history' = [history EXCEPT !.before = Existing(cloud)]
        /\ UNCHANGED <<cloud, owned, plan>>
    BY <1>4 DEF StartLifecycle, Entered
  <2>2. /\ DOMAIN history' = HistoryFields /\ history'.made = history.made
        /\ history'.raced = history.raced /\ history'.removed = history.removed
    BY <1>1, <2>1 DEF Shape, HistoryFields
  <2>3. Shape' /\ \A u \in Targets : EarnedJob(u, job'[u], cloud', Credit')
    BY <1>1, <2>1, <2>2, IdleShape DEF Shape
  <2>4. QED
    BY <1>1, <2>1, <2>2, <2>3 DEF LedgerInv, AtRest, Credit
<1>5. ASSUME NEW S \in Selections, NEW mode, NEW force, StartExpert(S, mode, force) PROVE LedgerInv'
  <2>1. /\ flow \in {"none", "done", "aborted"} /\ flow' = "expert"
        /\ job' = [t \in Targets |-> Idle(<<>>)] /\ UNCHANGED <<cloud, history, owned, plan>>
    BY <1>5 DEF StartExpert, Entered
  <2>2. Shape'
    BY <1>1, <2>1, IdleShape DEF Shape
  <2>3. QED
    BY <1>1, <2>1, <2>2 DEF LedgerInv, AtRest, Credit
<1>6. CASE BeginOffboard
  <2>1. /\ flow = "lifecycle" /\ flow' = "offboard" /\ plan' = owned
        /\ \A t \in Targets : Settled(t)
        /\ UNCHANGED <<cloud, job, owned, history>>
    BY <1>6 DEF BeginOffboard
  <2>2. AtRest'
    BY <1>1, <2>1 DEF AtRest, Settled
  <2>3. QED
    BY <1>1, <2>1, <2>2 DEF LedgerInv, Shape, Credit
<1>7. CASE RegisterAll
  <2>1. /\ flow = "expert" /\ flow' \in {"datasafe", "done"}
        /\ UNCHANGED <<cloud, owned, plan, history>>
    BY <1>7 DEF RegisterAll
  <2>2. DOMAIN job' = Targets /\ \A t \in Targets : \E phases : job'[t] = Idle(phases)
    BY <1>7 DEF RegisterAll
  <2>3. Shape'
    BY <1>1, <2>1, <2>2, IdleShape DEF Shape
  <2>4. QED
    BY <1>1, <2>1, <2>3 DEF LedgerInv, AtRest, Credit
<1>8. CASE Report
  BY <1>1, <1>8 DEF Report, LedgerInv, AtRest, Shape, Credit
<1>9. QED
  BY <1>2, <1>3, <1>4, <1>5, <1>6, <1>7, <1>8

\* What somebody else switches on a job may rely on only if it counts as a race.
LEMMA ForeignEarned ==
  ASSUME Shape, NEW u \in Targets, NEW t \in Targets, NEW service \in ServiceNames,
         NEW c \in Cloud, On(c) = On(cloud) \cup {<<t, service>>},
         NEW j, NEW credit, NEW more, OwnClaim(u, j), EarnedJob(u, j, cloud, credit),
         credit \subseteq more,
         u = t /\ <<t, service>> \notin more =>
           /\ ~(service = "credential" /\ j.pc = "create_named")
           /\ ~(service \in Sources /\ j.pc = "upsert")
           /\ ~(service = "opsi" /\ j.pc = "repair")
  PROVE  EarnedJob(u, j, c, more)
<1>1. CASE <<t, service>> \in more
  <2>1. On(c) \subseteq On(cloud) \cup more
    BY <1>1
  <2>2. QED
    BY <2>1, OthersEarned
<1>2. CASE <<t, service>> \notin more
  <2>1. j.pc = "create_named" /\ u \in c.named => u \in cloud.named
    BY <1>2, OnMember, OnPlain
  <2>2. j.pc = "repair" /\ c.insight[u] = "active" => cloud.insight[u] = "active"
    BY <1>2, OnMember, OnPlain
  <2>3. j.pc = "upsert" => j.claim \cap c.assoc \subseteq cloud.assoc
    <3>1. SUFFICES ASSUME j.pc = "upsert", NEW i \in j.claim, i \in c.assoc PROVE i \in cloud.assoc
      OBVIOUS
    <3>2. PICK source \in Sources : i = <<u, source>>
      BY <3>1 DEF OwnClaim
    <3>3. source \notin {"dbm", "opsi", "datasafe", "credential"}
      BY <3>2, EnablementAssumption
    <3>4. i # <<t, service>>
      BY <1>2, <3>1, <3>2
    <3>5. i \in On(cloud)
      BY <3>1, <3>4, OnMember
    <3>6. QED
      BY <3>2, <3>3, <3>5, OnMember DEF Shape
  <2>4. QED
    BY <2>1, <2>2, <2>3 DEF EarnedJob
<1>3. QED
  BY <1>1, <1>2

\* The services after a foreign change.
ForeignCloud(t, service) ==
  CASE service = "dbm"        -> [cloud EXCEPT !.dbm[t] = "enabling"]
    [] service = "opsi"       -> [cloud EXCEPT !.insight[t] = "active"]
    [] service = "datasafe"   -> [cloud EXCEPT !.safe = @ \cup {t}]
    [] service = "credential" -> [cloud EXCEPT !.named = @ \cup {t}]
    [] OTHER                  -> [cloud EXCEPT !.assoc = @ \cup {<<t, service>>}]

Raced(t, service) ==
  \/ service = "credential" /\ At(t, "create_named")
  \/ service \in Sources /\ At(t, "upsert")
  \/ service = "opsi" /\ At(t, "repair")

\* A foreign change adds its item, whichever it is.
LEMMA OnForeign ==
  ASSUME Shape, NEW t \in Targets, NEW service \in ServiceNames
  PROVE  /\ ForeignCloud(t, service) \in Cloud
         /\ On(ForeignCloud(t, service)) = On(cloud) \cup {<<t, service>>}
<1>1. CASE service = "dbm"
  BY <1>1, OnDbm DEF ForeignCloud, Enabling
<1>2. CASE service = "opsi"
  BY <1>2, OnInsight DEF ForeignCloud, Active
<1>3. CASE service = "datasafe"
  BY <1>3, OnAdded DEF ForeignCloud, Registered
<1>4. CASE service = "credential"
  BY <1>4, OnAdded DEF ForeignCloud, Named
<1>5. CASE service \notin {"dbm", "opsi", "datasafe", "credential"}
  <2>1. {<<t, service>>} \in SUBSET (Targets \X Sources)
    BY <1>5 DEF ServiceNames
  <2>2. ForeignCloud(t, service) = Associated({<<t, service>>})
    BY <1>5 DEF ForeignCloud, Associated
  <2>3. QED
    BY <2>1, <2>2, OnAdded
<1>6. QED
  BY <1>1, <1>2, <1>3, <1>4, <1>5

\* What a foreign change does.
LEMMA ForeignEffect ==
  ASSUME Shape, NEW t \in Targets, NEW service \in ServiceNames, Foreign(t, service)
  PROVE  /\ flow = "lifecycle" /\ <<t, service>> \notin On(cloud)
         /\ cloud' \in Cloud /\ On(cloud') = On(cloud) \cup {<<t, service>>}
         /\ DOMAIN history' = HistoryFields
         /\ history'.made = history.made /\ history'.removed = history.removed
         /\ history'.raced = history.raced \cup (IF Raced(t, service) THEN {<<t, service>>} ELSE {})
         /\ UNCHANGED elsewhere
<1>1. /\ cloud' = ForeignCloud(t, service)
      /\ history' = IF Raced(t, service)
                    THEN [history EXCEPT !.raced = @ \cup {<<t, service>>}] ELSE history
      /\ flow = "lifecycle" /\ <<t, service>> \notin On(cloud) /\ UNCHANGED elsewhere
  BY DEF Foreign, ForeignCloud, Raced
<1>2. /\ DOMAIN history' = HistoryFields
      /\ history'.made = history.made /\ history'.removed = history.removed
      /\ history'.raced = history.raced \cup (IF Raced(t, service) THEN {<<t, service>>} ELSE {})
  BY <1>1 DEF Shape, HistoryFields
<1>3. QED
  BY <1>1, <1>2, OnForeign

\* A control plane that gets on, or fails, switches nothing on.
LEMMA ControlPlaneEffect ==
  ASSUME Shape, NEW t \in Targets, Registers(t) \/ Breaks(t)
  PROVE  cloud' \in Cloud /\ On(cloud') \subseteq On(cloud) /\ UNCHANGED <<elsewhere, history>>
<1>1. UNCHANGED <<elsewhere, history>>
  BY DEF Registers, Breaks
<1>2. \/ /\ cloud.dbm[t] \in {"enabling", "on"}
         /\ \E state \in {"on", "registered", "failed"} : cloud' = [cloud EXCEPT !.dbm[t] = state]
      \/ cloud' = [cloud EXCEPT !.insight[t] = "failed"]
  BY DEF Registers, Breaks
<1>3. /\ cloud' \in Cloud
      /\ \A u \in Targets : DbmOn(cloud', u) => DbmOn(cloud, u)
      /\ \A u \in Targets : cloud'.insight[u] = "active" => cloud.insight[u] = "active"
      /\ cloud'.safe = cloud.safe /\ cloud'.named = cloud.named /\ cloud'.assoc = cloud.assoc
  BY <1>2 DEF Shape, Cloud, DbmOn
<1>4. \A i : i \in On(cloud') => i \in On(cloud)
  BY <1>3, OnMember DEF Shape
<1>5. QED
  BY <1>1, <1>3, <1>4

\* What one action of the cleanup plan does.
LEMMA CleanupEffect ==
  ASSUME LedgerInv, NEW i \in Items, Cleanup(i)
  PROVE  /\ i \in owned /\ flow = "offboard" /\ plan' = plan \ {i}
         /\ UNCHANGED <<job, flow, owned>>
         /\ DOMAIN history' = HistoryFields /\ cloud' \in Cloud
         /\ history'.made = history.made /\ history'.raced = history.raced
         /\ \/ UNCHANGED cloud /\ history'.removed = history.removed
            \/ On(cloud') = On(cloud) \ {i} /\ history'.removed = history.removed \cup {i}
<1>1. Shape /\ AtRest
  BY DEF LedgerInv
<1>2. i \in plan /\ plan' = plan \ {i} /\ UNCHANGED <<job, flow, owned>>
  BY DEF Cleanup
<1>3. i \in owned /\ flow = "offboard"
  BY <1>1, <1>2 DEF AtRest
<1>4. \/ cloud' = SwitchedOff(i[1], i[2]) /\ history' = [history EXCEPT !.removed = @ \cup {i}]
      \/ UNCHANGED <<cloud, history>>
  BY DEF Cleanup
<1>5. PICK t \in Targets, service \in ServiceNames : i = <<t, service>>
  BY DEF Items
<1>6. SwitchedOff(t, service) \in Cloud /\ On(SwitchedOff(t, service)) = On(cloud) \ {i}
  BY <1>1, <1>5, OnSwitchedOff, EnablementAssumption
<1>7. CASE cloud' = SwitchedOff(i[1], i[2]) /\ history' = [history EXCEPT !.removed = @ \cup {i}]
  <2>1. cloud' = SwitchedOff(t, service)
    BY <1>5, <1>7
  <2>2. /\ DOMAIN history' = HistoryFields /\ history'.removed = history.removed \cup {i}
        /\ history'.made = history.made /\ history'.raced = history.raced
    BY <1>1, <1>7 DEF Shape, HistoryFields
  <2>3. QED
    BY <1>2, <1>3, <1>6, <2>1, <2>2
<1>8. CASE UNCHANGED <<cloud, history>>
  BY <1>1, <1>2, <1>3, <1>8 DEF Shape
<1>9. QED
  BY <1>4, <1>7, <1>8

\* What happens outside the program, and offboarding, keep the invariant.
LEMMA OutsideInv ==
  ASSUME LedgerInv,
         \/ \E t \in Targets :
              \/ Registers(t) \/ Breaks(t)
              \/ \E service \in ServiceNames : Foreign(t, service)
         \/ \E i \in Items : Cleanup(i)
  PROVE  LedgerInv'
<1>1. /\ Shape /\ AtRest /\ owned \cap ByLook \subseteq Credit
      /\ flow = "lifecycle" => \A u \in Targets : EarnedJob(u, job[u], cloud, Credit)
      /\ \A u \in Targets : OwnClaim(u, job[u])
  BY DEF LedgerInv, Shape
<1>2. ASSUME NEW t \in Targets, Registers(t) \/ Breaks(t) PROVE LedgerInv'
  <2>1. cloud' \in Cloud /\ On(cloud') \subseteq On(cloud) /\ UNCHANGED <<elsewhere, history>>
    BY <1>1, <1>2, ControlPlaneEffect
  <2>2. Shape'
    BY <1>1, <2>1 DEF Shape, elsewhere
  <2>3. flow = "lifecycle" => \A u \in Targets : EarnedJob(u, job[u], cloud', Credit)
    BY <1>1, <2>1, OthersEarned
  <2>4. QED
    BY <1>1, <2>1, <2>2, <2>3 DEF LedgerInv, AtRest, Credit, elsewhere, Settled
<1>3. ASSUME NEW t \in Targets, NEW service \in ServiceNames, Foreign(t, service) PROVE LedgerInv'
  <2>1. /\ flow = "lifecycle" /\ cloud' \in Cloud /\ On(cloud') = On(cloud) \cup {<<t, service>>}
        /\ DOMAIN history' = HistoryFields
        /\ history'.made = history.made /\ history'.removed = history.removed
        /\ history'.raced = history.raced \cup (IF Raced(t, service) THEN {<<t, service>>} ELSE {})
        /\ UNCHANGED elsewhere
    BY <1>1, <1>3, ForeignEffect
  <2>2. Shape'
    BY <1>1, <2>1 DEF Shape, elsewhere
  <2>3. AtRest'
    BY <1>1, <2>1 DEF AtRest, elsewhere, Settled
  <2>4. Credit \subseteq Credit' /\ (Raced(t, service) => <<t, service>> \in Credit')
    BY <2>1 DEF Credit
  <2>5. ASSUME NEW u \in Targets PROVE EarnedJob(u, job[u], cloud', Credit')
    <3>1. EarnedJob(u, job[u], cloud, Credit) /\ OwnClaim(u, job[u])
      BY <1>1, <2>1
    <3>2. u = t /\ <<t, service>> \notin Credit' =>
            /\ ~(service = "credential" /\ job[u].pc = "create_named")
            /\ ~(service \in Sources /\ job[u].pc = "upsert")
            /\ ~(service = "opsi" /\ job[u].pc = "repair")
      BY <2>4 DEF Raced, At
    <3>3. QED
      BY <1>1, <2>1, <2>4, <3>1, <3>2, ForeignEarned
  <2>6. QED
    BY <1>1, <2>1, <2>2, <2>3, <2>4, <2>5 DEF LedgerInv, elsewhere
<1>4. ASSUME NEW i \in Items, Cleanup(i) PROVE LedgerInv'
  <2>1. /\ i \in owned /\ flow = "offboard" /\ plan' = plan \ {i}
        /\ UNCHANGED <<job, flow, owned>>
        /\ DOMAIN history' = HistoryFields /\ cloud' \in Cloud
        /\ history'.made = history.made /\ history'.raced = history.raced
        /\ \/ UNCHANGED cloud /\ history'.removed = history.removed
           \/ On(cloud') = On(cloud) \ {i} /\ history'.removed = history.removed \cup {i}
    BY <1>4, CleanupEffect
  <2>2. Shape'
    BY <1>1, <2>1 DEF Shape
  <2>3. AtRest'
    BY <1>1, <2>1 DEF AtRest, Settled
  <2>4. QED
    BY <1>1, <2>1, <2>2, <2>3 DEF LedgerInv, Credit
<1>5. QED
  BY <1>2, <1>3, <1>4

\* Every step keeps the invariant.
LEMMA LedgerInvStep == LedgerInv /\ [Next]_vars => LedgerInv'
<1> SUFFICES ASSUME LedgerInv, [Next]_vars PROVE LedgerInv'
  OBVIOUS
<1>1. CASE UNCHANGED vars
  BY <1>1 DEF vars, LedgerInv, Shape, AtRest, Credit, Settled
<1>2. CASE Next
  BY <1>2, WorkerInv, CommandInv, OutsideInv DEF Next
<1>3. QED
  BY <1>1, <1>2

-----------------------------------------------------------------------------
(* The refinement *)

\* What a step does to the ledger: the four kinds, and nothing at all.
LEMMA LedgerStep ==
  LedgerInv /\ LedgerInv' /\ [Next]_vars => [Ledger!Next]_Ledger!ledger
<1> SUFFICES ASSUME LedgerInv, LedgerInv', [Next]_vars PROVE [Ledger!Next]_Ledger!ledger
  OBVIOUS
<1> DEFINE on == On(cloud) \cap ByLook
           credit == (history.made \cup history.raced) \cap ByLook
           claimed == owned \cap ByLook
           removed == history.removed \cap ByLook
<1>0. /\ Shape /\ AtRest /\ claimed' \subseteq credit' /\ on' \subseteq ByLook
  BY DEF LedgerInv, Credit
<1>1. ASSUME UNCHANGED <<claimed, removed>>, on \subseteq on', credit' = credit \cup (on' \ on)
      PROVE  [Ledger!Next]_Ledger!ledger
  <2>1. CASE on' = on
    BY <1>1, <2>1 DEF Ledger!ledger
  <2>2. CASE on' # on
    BY <1>1, <2>2 DEF Ledger!Next, Ledger!TurnOn
  <2>3. QED
    BY <2>1, <2>2
<1>2. ASSUME UNCHANGED <<credit, claimed, removed>> PROVE [Ledger!Next]_Ledger!ledger
  BY <1>0, <1>2 DEF Ledger!Next, Ledger!Elsewhere
<1>3. ASSUME UNCHANGED <<on, credit, removed>>, claimed \subseteq claimed'
      PROVE  [Ledger!Next]_Ledger!ledger
  BY <1>0, <1>3 DEF Ledger!Next, Ledger!Claim
<1>4. ASSUME UNCHANGED <<credit, claimed>>, removed \subseteq removed', removed' \subseteq claimed,
             on' = on \ removed'
      PROVE  [Ledger!Next]_Ledger!ledger
  BY <1>4 DEF Ledger!Next, Ledger!TurnOff
<1>5. ASSUME NEW t \in Targets, WorkerStep(t) PROVE [Ledger!Next]_Ledger!ledger
  <2>1. /\ Result(t)
        /\ owned' = owned \/ (Record(t) /\ flow = "lifecycle" /\ owned' = owned \cup job[t].claim)
    BY <1>5, WorkerResult DEF LedgerInv, Owes
  <2>2. history'.raced = history.raced /\ history'.removed = history.removed
    BY <2>1 DEF Result
  <2>3. CASE flow = "lifecycle" /\ owned' = owned
    <3>1. On(cloud) \subseteq On(cloud') /\ history'.made = history.made \cup (On(cloud') \ On(cloud))
      BY <2>1, <2>3 DEF Result
    <3>2. on \subseteq on' /\ credit' = credit \cup (on' \ on)
      BY <2>2, <3>1
    <3>3. QED
      BY <1>1, <2>2, <2>3, <3>2
  <2>4. CASE Record(t) /\ flow = "lifecycle" /\ owned' = owned \cup job[t].claim
    <3>1. cloud' = cloud
      BY <2>4 DEF Record, Advance, Moves
    <3>2. history'.made = history.made
      BY <2>1, <2>4, <3>1 DEF Result
    <3>3. QED
      BY <1>3, <2>2, <2>4, <3>1, <3>2
  <2>5. CASE flow # "lifecycle"
    <3>1. history'.made = history.made /\ owned' = owned
      BY <2>1, <2>5 DEF Result
    <3>2. QED
      BY <1>2, <2>2, <3>1
  <2>6. QED
    BY <2>1, <2>3, <2>4, <2>5
<1>6. ASSUME NEW t \in Targets, NEW service \in ServiceNames, Foreign(t, service)
      PROVE  [Ledger!Next]_Ledger!ledger
  <2>1. /\ <<t, service>> \notin On(cloud) /\ On(cloud') = On(cloud) \cup {<<t, service>>}
        /\ history'.made = history.made /\ history'.removed = history.removed
        /\ history'.raced = history.raced \cup (IF Raced(t, service) THEN {<<t, service>>} ELSE {})
        /\ owned' = owned
    BY <1>0, <1>6, ForeignEffect DEF elsewhere
  <2>2. CASE Raced(t, service)
    <3>1. on \subseteq on' /\ credit' = credit \cup (on' \ on)
      BY <2>1, <2>2
    <3>2. QED
      BY <1>1, <2>1, <3>1
  <2>3. CASE ~Raced(t, service)
    BY <1>2, <2>1, <2>3
  <2>4. QED
    BY <2>2, <2>3
<1>7. ASSUME NEW i \in Items, Cleanup(i) PROVE [Ledger!Next]_Ledger!ledger
  <2>1. /\ i \in owned /\ UNCHANGED owned
        /\ history'.made = history.made /\ history'.raced = history.raced
        /\ \/ UNCHANGED cloud /\ history'.removed = history.removed
           \/ On(cloud') = On(cloud) \ {i} /\ history'.removed = history.removed \cup {i}
    BY <1>7, CleanupEffect
  <2>2. CASE UNCHANGED cloud /\ history'.removed = history.removed
    BY <1>2, <2>1, <2>2
  <2>3. CASE On(cloud') = On(cloud) \ {i} /\ history'.removed = history.removed \cup {i}
    <3>1. history.removed \cap On(cloud) = {} /\ history.removed \subseteq owned
      BY <1>0 DEF AtRest
    <3>2. on' = on \ removed' /\ removed \subseteq removed' /\ removed' \subseteq claimed
      BY <2>1, <2>3, <3>1
    <3>3. QED
      BY <1>4, <2>1, <3>2
  <2>4. QED
    BY <2>1, <2>2, <2>3
<1>8. ASSUME NEW t \in Targets, Registers(t) \/ Breaks(t) PROVE [Ledger!Next]_Ledger!ledger
  <2>1. UNCHANGED <<owned, history>>
    BY <1>8 DEF Registers, Breaks, elsewhere
  <2>2. QED
    BY <1>2, <2>1
<1>9. ASSUME /\ history'.made = history.made /\ history'.raced = history.raced
             /\ history'.removed = history.removed /\ owned' = owned
      PROVE  [Ledger!Next]_Ledger!ledger
  BY <1>2, <1>9
<1>10. ASSUME NEW S, StartLifecycle(S) PROVE [Ledger!Next]_Ledger!ledger
  <2>1. history' = [history EXCEPT !.before = Existing(cloud)] /\ owned' = owned
    BY <1>10 DEF StartLifecycle
  <2>2. /\ history'.made = history.made /\ history'.raced = history.raced
        /\ history'.removed = history.removed
    BY <1>0, <2>1 DEF Shape, HistoryFields
  <2>3. QED
    BY <1>9, <2>1, <2>2
<1>11. \/ \E t \in Targets :
            \/ WorkerStep(t) \/ Registers(t) \/ Breaks(t)
            \/ \E service \in ServiceNames : Foreign(t, service)
       \/ \E i \in Items : Cleanup(i)
       \/ \E S \in Selections : StartLifecycle(S)
       \/ UNCHANGED <<history, owned>>
  BY DEF Next, vars, DecideAbout, Decide, Reenter, StartExpert, BeginOffboard, RegisterAll, Report
<1>12. QED
  BY <1>5, <1>6, <1>7, <1>8, <1>9, <1>10, <1>11

\* The handlers claim in the manifest only what their own calls have switched on, or
\* what somebody else switched on between their look and their call, and offboarding
\* touches only what is claimed (fleet_operations.py, log_analytics.py, CleanupPlanner):
\* the lifecycle implements the ledger.
THEOREM ServicesImplementLedger == Spec => ImplementsLedger
<1>1. Init => Ledger!Init
  BY DEF Init, Ledger!Init
<1>2. QED
  BY <1>1, LedgerInvInit, LedgerInvStep, LedgerStep, PTL DEF Spec, ImplementsLedger, Ledger!Spec

\* Whatever is switched on and off by whom, what a run of the ledger removes it has
\* claimed, and what it has claimed it has switched on itself (CleanupPlanner: "only
\* owned, run-enabled resources").
LEMMA LedgerRemovesOwnWork == Ledger!Spec => []Ledger!RemovedIsOwnWork
<1>1. Ledger!Init => Ledger!RemovedIsOwnWork
  BY DEF Ledger!Init, Ledger!RemovedIsOwnWork
<1>2. Ledger!RemovedIsOwnWork /\ [Ledger!Next]_Ledger!ledger
        => Ledger!RemovedIsOwnWork'
  BY DEF Ledger!RemovedIsOwnWork, Ledger!Next, Ledger!TurnOn, Ledger!Claim,
         Ledger!TurnOff, Ledger!Elsewhere, Ledger!ledger
<1> QED
  BY <1>1, <1>2, PTL DEF Ledger!Spec

\* So it is with the phase handlers and offboarding (fleet_operations.py,
\* fleet_offboarding.py): outside Data Safe, offboarding switches off only what the
\* manifest claimed, and the manifest claimed only what the run has credit for.
THEOREM ServicesRemoveOwnWork == Spec => []Ledger!RemovedIsOwnWork
  BY ServicesImplementLedger, LedgerRemovesOwnWork, PTL DEF ImplementsLedger

-----------------------------------------------------------------------------
(* What is not recorded was interrupted *)

\* What the run switched on and neither owns nor has lost in an interruption.
Open == history.made \ (owned \cup history.cutOff)

\* A job j that accounts for item i of its target: it will still record it.
Due(i, j) ==
  \/ j.pc = "wait" /\ j.applied /\ i[2] = "dbm"
  \/ j.pc = "reference" /\ j.applied /\ i[2] = "opsi"
  \/ j.pc \in {"set_read", "set_write"} /\ j.applied /\ i[2] = "credential"
  \/ j.pc = "create_named" /\ i[2] = "credential"
  \/ j.pc \in {"upsert", "record"} /\ i \in j.claim

\* In a lifecycle somebody accounts for what is open; outside there is nothing open.
LeakInv ==
  /\ history.made \subseteq Items
  /\ flow = "lifecycle" => \A i \in Open : Due(i, job[i[1]])
  /\ flow # "lifecycle" => Open = {}

\* A step of the worker of t, as far as open items are concerned.
Accounted(t) ==
  /\ history'.made \subseteq Items
  /\ \A i \in history'.made \ (owned \cup history'.cutOff) :
       IF i[1] = t THEN Due(i, job'[t]) ELSE i \in Open

\* The next job accounts for what the job did.
Carries(t, next) == \A i \in Items : i[1] = t /\ Due(i, job[t]) => Due(i, next)

\* What is new belongs to the target.
OwnItems(t, c) == \A i \in On(c) \ On(cloud) : i[1] = t

\* Moves: the next job accounts for what was open and for what is new.
LEMMA MovesAccounted ==
  ASSUME Shape, LeakInv, flow = "lifecycle", NEW t \in Targets, NEW c \in Cloud, NEW next,
         Moves(t, c, next), Carries(t, next), OwnItems(t, c),
         \A i \in On(c) \ On(cloud) : Due(i, next)
  PROVE  Accounted(t)
<1>1. job' = [job EXCEPT ![t] = next] /\ history' = [history EXCEPT !.made = Made(c)]
  BY DEF Moves
<1>2. /\ history'.made = history.made \cup (On(c) \ On(cloud))
      /\ history'.cutOff = history.cutOff
  BY <1>1 DEF Shape, HistoryFields, Made
<1>3. job'[t] = next /\ On(c) \subseteq Items
  BY <1>1, OnItems DEF Shape
<1>4. history.made \subseteq Items /\ \A i \in Open : Due(i, job[i[1]])
  BY DEF LeakInv
<1>5. ASSUME NEW i \in history'.made \ (owned \cup history'.cutOff)
      PROVE  IF i[1] = t THEN Due(i, next) ELSE i \in Open
  <2>1. i \in Items /\ (i \in Open \/ i \in On(c) \ On(cloud))
    BY <1>2, <1>3, <1>4 DEF Open
  <2>2. CASE i \in Open
    BY <1>4, <2>1, <2>2 DEF Carries
  <2>3. CASE i \in On(c) \ On(cloud)
    BY <2>3 DEF OwnItems
  <2> QED
    BY <2>1, <2>2, <2>3
<1> QED
  BY <1>2, <1>3, <1>4, <1>5 DEF Accounted

\* Stops: what is open is cut off.
LEMMA StopsAccounted ==
  ASSUME Shape, LeakInv, flow = "lifecycle", NEW t \in Targets, NEW c \in Cloud,
         Stops(t, c), OwnItems(t, c)
  PROVE  Accounted(t)
<1>1. history' = [history EXCEPT !.made = Made(c),
                   !.cutOff = @ \cup ((Made(c) \cap ({t} \X ServiceNames)) \ owned)]
  BY DEF Stops
<1>2. /\ history'.made = history.made \cup (On(c) \ On(cloud))
      /\ history'.cutOff =
           history.cutOff \cup ((history'.made \cap ({t} \X ServiceNames)) \ owned)
  BY <1>1 DEF Shape, HistoryFields, Made
<1>3. history.made \subseteq Items /\ On(c) \subseteq Items
  BY OnItems DEF LeakInv
<1>4. ASSUME NEW i \in history'.made \ (owned \cup history'.cutOff)
      PROVE  i[1] # t /\ i \in Open
  <2>1. i \in Items
    BY <1>2, <1>3
  <2>2. i[1] # t
    BY <1>2, <2>1 DEF Items
  <2> QED
    BY <1>2, <2>2 DEF OwnItems, Open
<1> QED
  BY <1>2, <1>3, <1>4 DEF Accounted

\* Call: either of the two.
LEMMA CallAccounted ==
  ASSUME Shape, LeakInv, flow = "lifecycle", NEW t \in Targets, NEW c \in Cloud, NEW next,
         Call(t, c, next), Carries(t, next), OwnItems(t, c),
         \A i \in On(c) \ On(cloud) : Due(i, next)
  PROVE  Accounted(t)
<1>1. Moves(t, c, next) \/ Stops(t, c) \/ Stops(t, cloud)
  BY DEF Call
<1>2. cloud \in Cloud /\ OwnItems(t, cloud)
  BY DEF Shape, OwnItems
<1> QED
  BY <1>1, <1>2, MovesAccounted, StopsAccounted

\* A step that switches nothing on.
LEMMA StayAccounted ==
  ASSUME Shape, LeakInv, flow = "lifecycle", NEW t \in Targets, NEW next,
         (Moves(t, cloud, next) /\ Carries(t, next)) \/ Stops(t, cloud)
  PROVE  Accounted(t)
<1>1. cloud \in Cloud /\ OwnItems(t, cloud) /\ On(cloud) \ On(cloud) = {}
  BY DEF Shape, OwnItems
<1> QED
  BY <1>1, MovesAccounted, StopsAccounted

\* Points at which a job has nothing to account for.
Quiet(t) ==
  job[t].pc \notin {"wait", "reference", "set_read", "set_write", "create_named", "upsert",
                    "record"}

\* At such a point every next job will do.
LEMMA QuietCarries == ASSUME NEW t, Quiet(t), NEW next PROVE Carries(t, next)
  BY DEF Quiet, Carries, Due

\* The first steps of a phase, and the looks before its calls.
LEMMA LooksAccounted ==
  ASSUME Shape, LeakInv, flow = "lifecycle", NEW t \in Targets,
         \/ Enter(t) \/ BlockChild(t) \/ Breakdown(t) \/ Healthy(t) \/ Modify(t) \/ Find(t)
         \/ ListSafe(t) \/ Preferred(t) \/ Lookup(t) \/ Classify(t)
  PROVE  Accounted(t)
<1>1. Stops(t, cloud) \/ (Quiet(t) /\ \E next : Moves(t, cloud, next))
  <2>1. CASE Enter(t) \/ BlockChild(t) \/ Breakdown(t)
    BY <2>1 DEF Enter, BlockChild, Breakdown, Refused, Advance, Continue, At, Quiet
  <2>2. CASE Healthy(t) \/ Modify(t)
    BY <2>2 DEF Healthy, Modify, Call, Records, Continue, At, Quiet
  <2>3. CASE Find(t)
    BY <2>3 DEF Find, Refused, Continue, At, Quiet
  <2>4. CASE ListSafe(t)
    BY <2>4 DEF ListSafe, Refused, Records, Advance, Continue, At, Quiet
  <2>5. CASE Preferred(t) \/ Lookup(t)
    BY <2>5 DEF Preferred, Lookup, Records, Continue, At, Quiet
  <2>6. CASE Classify(t)
    BY <2>6 DEF Classify, At, Quiet
  <2> QED
    BY <2>1, <2>2, <2>3, <2>4, <2>5, <2>6
<1> QED
  BY <1>1, QuietCarries, StayAccounted

\* The jobs that follow a call: what they have applied and what they claim.
LEMMA NextJobs ==
  ASSUME Shape, NEW t \in Targets, NEW l, NEW service
  PROVE  /\ Applied(t, l).pc = l /\ Applied(t, l).applied
         /\ LET claiming == [Applied(t, "record") EXCEPT !.claim = {<<t, service>>}]
            IN  claiming.pc = "record" /\ claiming.claim = {<<t, service>>}
         /\ Owning(t, service).pc = "record"
         /\ job[t].applied => Owning(t, service).claim = {<<t, service>>}
         /\ [job[t] EXCEPT !.pc = l].pc = l
         /\ [job[t] EXCEPT !.pc = l].claim = job[t].claim
         /\ [job[t] EXCEPT !.pc = l].applied = job[t].applied
  BY DEF Applied, Owning, Shape, JobFields

\* The calls that switch a service on: the next job has applied or claims the item.
LEMMA CallsAccounted ==
  ASSUME Shape, LeakInv, flow = "lifecycle", NEW t \in Targets,
         \/ EnableDbm(t) \/ RepairInsight(t) \/ EnableInsight(t) \/ CreateInsight(t)
         \/ EnableAutonomousInsight(t) \/ RegisterSafe(t) \/ Entities(t)
  PROVE  Accounted(t)
<1>1. Quiet(t)
  BY DEF EnableDbm, RepairInsight, EnableInsight, CreateInsight, EnableAutonomousInsight,
         RegisterSafe, Entities, At, Quiet
<1>a. ASSUME NEW next, Moves(t, cloud, next) \/ Stops(t, cloud) PROVE Accounted(t)
  BY <1>1, <1>a, QuietCarries, StayAccounted
<1>b. ASSUME NEW c \in Cloud, NEW service, On(c) = On(cloud) \cup {<<t, service>>}, NEW next,
             Call(t, c, next), Due(<<t, service>>, next)
      PROVE  Accounted(t)
  <2>1. \A i \in On(c) \ On(cloud) : i[1] = t /\ Due(i, next)
    BY <1>b
  <2> QED
    BY <1>1, <1>b, <2>1, QuietCarries, CallAccounted DEF OwnItems
<1>2. CASE EnableDbm(t)
  <2> DEFINE claiming == [Applied(t, "record") EXCEPT !.claim = {<<t, "dbm">>}]
  <2>1. \/ Stops(t, cloud) \/ \E next : Moves(t, cloud, next)
        \/ Call(t, Enabling(t), Applied(t, "wait"))
        \/ Call(t, Enabling(t), claiming)
    BY <1>2 DEF EnableDbm, Refused, Records, Continue, Enabling
  <2>2. Due(<<t, "dbm">>, Applied(t, "wait")) /\ Due(<<t, "dbm">>, claiming)
    BY NextJobs DEF Due
  <2> HIDE DEF claiming
  <2> QED
    BY <1>a, <1>b, <2>1, <2>2, OnDbm
<1>3. CASE RepairInsight(t) \/ EnableInsight(t) \/ CreateInsight(t) \/ EnableAutonomousInsight(t)
  <2>1. \/ Stops(t, cloud) \/ \E next : Moves(t, cloud, next)
        \/ Call(t, Active(t), Applied(t, "reference"))
    BY <1>3 DEF RepairInsight, EnableInsight, CreateInsight, EnableAutonomousInsight, Refused,
                Continue, Again
  <2>2. Due(<<t, "opsi">>, Applied(t, "reference"))
    BY NextJobs DEF Due
  <2> QED
    BY <1>a, <1>b, <2>1, <2>2, OnInsight
<1>4. CASE RegisterSafe(t)
  <2> DEFINE claiming == [Applied(t, "record") EXCEPT !.claim = {<<t, "datasafe">>}]
  <2>1. Moves(t, cloud, claiming) \/ Call(t, Registered(t), claiming)
    BY <1>4 DEF RegisterSafe, Registered
  <2>2. Due(<<t, "datasafe">>, claiming)
    BY NextJobs DEF Due
  <2> HIDE DEF claiming
  <2> QED
    BY <1>a, <1>b, <2>1, <2>2, OnAdded
<1>5. CASE Entities(t)
  <2>1. \/ Stops(t, cloud) \/ \E next : Moves(t, cloud, next)
        \/ \E next : Call(t, WithEntity(t), next)
    BY <1>5 DEF Entities, Refused, Continue, WithEntity
  <2>2. WithEntity(t) \in Cloud /\ On(WithEntity(t)) = On(cloud)
    BY OnSame DEF PreferredNames
  <2> QED
    BY <1>1, <1>a, <2>1, <2>2, QuietCarries, CallAccounted DEF OwnItems
<1> QED
  BY <1>2, <1>3, <1>4, <1>5

\* The waits and lookups between a call and the record keep the account.
LEMMA WaitsAccounted ==
  ASSUME Shape, LeakInv, flow = "lifecycle", NEW t \in Targets, WaitDbm(t) \/ Reference(t)
  PROVE  Accounted(t)
<1>1. CASE WaitDbm(t)
  <2> DEFINE next == [job[t] EXCEPT !.pc = "wait", !.tries = @ + 1]
  <2>1. /\ job[t].pc = "wait"
        /\ Stops(t, cloud) \/ Moves(t, cloud, next) \/ Moves(t, cloud, Owning(t, "dbm"))
    BY <1>1 DEF WaitDbm, Refused, Again, Records, At
  <2>2. next.pc = "wait" /\ (next.applied = job[t].applied)
    BY DEF Shape, JobFields
  <2> HIDE DEF next
  <2>3. Carries(t, next)
    BY <2>1, <2>2 DEF Carries, Due
  <2>4. Carries(t, Owning(t, "dbm"))
    BY <2>1, NextJobs DEF Carries, Due, Items
  <2> QED
    BY <2>1, <2>3, <2>4, StayAccounted
<1>2. CASE Reference(t)
  <2>1. /\ job[t].pc = "reference"
        /\ Stops(t, cloud) \/ Moves(t, cloud, Owning(t, "opsi"))
    BY <1>2 DEF Reference, Refused, Records, At
  <2>2. Carries(t, Owning(t, "opsi"))
    BY <2>1, NextJobs DEF Carries, Due, Items
  <2> QED
    BY <2>1, <2>2, StayAccounted
<1> QED
  BY <1>1, <1>2

\* A credential attempt that fails and is repeated finds what it has created.
LEMMA AttemptAccounted ==
  ASSUME Shape, LeakInv, flow = "lifecycle", NEW t \in Targets, NEW c \in Cloud,
         job[t].pc \in {"create_named", "set_read", "set_write"}, AttemptFails(t, c),
         \A i \in On(c) \ On(cloud) : i = <<t, "credential">>
  PROVE  Accounted(t)
<1> DEFINE next == [Idle(job[t].left) EXCEPT !.pc = "create_named", !.tries = job[t].tries + 1]
<1>1. Moves(t, c, next) \/ Stops(t, c)
  BY DEF AttemptFails
<1>2. next.pc = "create_named"
  BY DEF Idle
<1> HIDE DEF next
<1>3. Carries(t, next) /\ OwnItems(t, c) /\ \A i \in On(c) \ On(cloud) : Due(i, next)
  BY <1>2 DEF Carries, Due, OwnItems
<1> QED
  BY <1>1, <1>3, MovesAccounted, StopsAccounted

\* The steps of a credential phase.
LEMMA CredentialsAccounted ==
  ASSUME Shape, LeakInv, flow = "lifecycle", NEW t \in Targets,
         CreateNamed(t) \/ \E name \in PreferredNames : SetPreferred(t, name)
  PROVE  Accounted(t)
<1>0. cloud \in Cloud
  BY DEF Shape
<1>1. CASE CreateNamed(t)
  <2>1. /\ job[t].pc = "create_named"
        /\ \/ Moves(t, Named(t), Applied(t, "set_read"))
           \/ \E d \in {cloud, Named(t)} : AttemptFails(t, d)
    BY <1>1 DEF CreateNamed, Named, At
  <2>2. Named(t) \in Cloud /\ On(Named(t)) = On(cloud) \cup {<<t, "credential">>}
    BY OnAdded
  <2>3. /\ Carries(t, Applied(t, "set_read")) /\ OwnItems(t, Named(t))
        /\ \A i \in On(Named(t)) \ On(cloud) : Due(i, Applied(t, "set_read"))
    BY <2>1, <2>2, NextJobs DEF Carries, Due, OwnItems
  <2> QED
    BY <1>0, <2>1, <2>2, <2>3, MovesAccounted, AttemptAccounted
<1>2. ASSUME NEW name \in PreferredNames, SetPreferred(t, name) PROVE Accounted(t)
  <2> DEFINE c == WithPreferred(t, name)
             write == [job[t] EXCEPT !.pc = "set_write"]
  <2>1. /\ job[t].pc \in {"set_read", "set_write"}
        /\ \/ Moves(t, c, write) \/ Moves(t, c, Owning(t, "credential"))
           \/ \E d \in {cloud, c} : AttemptFails(t, d) \/ Stops(t, d)
    BY <1>2 DEF SetPreferred, WithPreferred, At
  <2>2. c \in Cloud /\ On(c) = On(cloud)
    BY OnSame
  <2>3. Carries(t, write) /\ Carries(t, Owning(t, "credential"))
    BY <2>1, NextJobs DEF Carries, Due, Items
  <2> HIDE DEF c, write
  <2>4. ASSUME NEW d \in {cloud, c}
        PROVE  d \in Cloud /\ OwnItems(t, d) /\ On(d) \ On(cloud) = {}
    BY <1>0, <2>2 DEF OwnItems
  <2> QED
    BY <2>1, <2>3, <2>4, MovesAccounted, StopsAccounted, AttemptAccounted
<1> QED
  BY <1>1, <1>2

\* The upsert makes what it has claimed.
LEMMA UpsertAccounted ==
  ASSUME Shape, LeakInv, flow = "lifecycle", NEW t \in Targets, Upsert(t)
  PROVE  Accounted(t)
<1> DEFINE next == [job[t] EXCEPT !.pc = "record"]
           c == Associated(job[t].claim)
<1>1. job[t].pc = "upsert" /\ Call(t, c, next)
  BY DEF Upsert, Associated, At
<1>2. job[t].claim \in SUBSET ({t} \X Sources)
  BY <1>1 DEF Shape, OwnClaim
<1>3. c \in Cloud /\ On(c) = On(cloud) \cup job[t].claim
  BY <1>2, OnAdded
<1>4. next.pc = "record" /\ next.claim = job[t].claim
  BY NextJobs
<1> HIDE DEF c, next
<1>5. Carries(t, next) /\ OwnItems(t, c) /\ \A i \in On(c) \ On(cloud) : Due(i, next)
  BY <1>1, <1>2, <1>3, <1>4 DEF Carries, Due, OwnItems
<1> QED
  BY <1>1, <1>3, <1>5, CallAccounted

\* Every step of a worker but the record accounts for what is open.
LEMMA WorkerAccounted ==
  ASSUME Shape, LeakInv, flow = "lifecycle", NEW t \in Targets, WorkerStep(t), ~Record(t)
  PROVE  Accounted(t) /\ UNCHANGED owned
<1>1. Accounted(t)
  BY LooksAccounted, CallsAccounted, WaitsAccounted, CredentialsAccounted, UpsertAccounted
     DEF WorkerStep
<1> QED
  BY <1>1 DEF WorkerStep

\* Outside a lifecycle the workers make nothing that counts.
LEMMA WorkerOutside ==
  ASSUME Shape, flow # "lifecycle", NEW t \in Targets, WorkerStep(t)
  PROVE  /\ flow' # "lifecycle" /\ owned' = owned
         /\ history'.made = history.made /\ history.cutOff \subseteq history'.cutOff
<1>1. (\E c, next : Moves(t, c, next)) \/ (\E c : Stops(t, c))
  <2>1. CASE Enter(t) \/ BlockChild(t) \/ Breakdown(t) \/ Record(t)
    BY <2>1 DEF Enter, BlockChild, Breakdown, Record, Refused, Advance, Continue
  <2>2. CASE EnableDbm(t) \/ Healthy(t) \/ Modify(t) \/ WaitDbm(t)
    BY <2>2 DEF EnableDbm, Healthy, Modify, WaitDbm, Call, Records, Continue, Refused, Again
  <2>3. CASE \/ Find(t) \/ RepairInsight(t) \/ EnableInsight(t) \/ CreateInsight(t)
             \/ EnableAutonomousInsight(t) \/ Reference(t)
    BY <2>3 DEF Find, RepairInsight, EnableInsight, CreateInsight, EnableAutonomousInsight,
                Reference, Call, Records, Continue, Refused, Again, Advance
  <2>4. CASE ListSafe(t) \/ RegisterSafe(t) \/ Preferred(t) \/ Lookup(t)
    BY <2>4 DEF ListSafe, RegisterSafe, Preferred, Lookup, Call, Records, Continue, Refused,
                Advance
  <2>5. CASE CreateNamed(t) \/ \E name \in PreferredNames : SetPreferred(t, name)
    BY <2>5 DEF CreateNamed, SetPreferred, AttemptFails
  <2>6. CASE Entities(t) \/ Classify(t) \/ Upsert(t)
    BY <2>6 DEF Entities, Classify, Upsert, Call, Continue, Refused
  <2> QED
    BY <2>1, <2>2, <2>3, <2>4, <2>5, <2>6 DEF WorkerStep
<1>2. ASSUME NEW c, NEW next, Moves(t, c, next)
      PROVE  /\ flow' = flow /\ history'.made = history.made
             /\ history'.cutOff = history.cutOff
  BY <1>2 DEF Moves, Made, Shape, HistoryFields
<1>3. ASSUME NEW c, Stops(t, c)
      PROVE  /\ flow' = "aborted" /\ history'.made = history.made
             /\ history.cutOff \subseteq history'.cutOff
  BY <1>3 DEF Stops, Made, Shape, HistoryFields
<1>4. owned' = owned
  BY DEF WorkerStep, Record
<1> QED
  BY <1>1, <1>2, <1>3, <1>4

\* At first the run has made nothing.
LEMMA LeakInit == Init => LeakInv
  BY DEF Init, LeakInv, Open

\* Every step keeps the account.
LEMMA LeakStep == LedgerInv /\ LeakInv /\ [Next]_vars => LeakInv'
<1> SUFFICES ASSUME LedgerInv, LeakInv, [Next]_vars PROVE LeakInv'
  OBVIOUS
<1>0. Shape /\ AtRest
  BY DEF LedgerInv
<1>a. /\ history.made \subseteq Items
      /\ flow = "lifecycle" => \A i \in Open : Due(i, job[i[1]])
      /\ flow # "lifecycle" => Open = {}
  BY DEF LeakInv
<1>b. ASSUME flow # "lifecycle", flow' # "lifecycle", history'.made = history.made,
             history.cutOff \subseteq history'.cutOff, owned \subseteq owned'
      PROVE  LeakInv'
  BY <1>a, <1>b DEF LeakInv, Open
<1>c. ASSUME UNCHANGED <<job, flow, owned>>, history'.made = history.made,
             history'.cutOff = history.cutOff
      PROVE  LeakInv'
  BY <1>a, <1>c DEF LeakInv, Open
<1>1. ASSUME NEW t \in Targets, WorkerStep(t), flow # "lifecycle" PROVE LeakInv'
  BY <1>0, <1>1, <1>b, WorkerOutside
<1>2. ASSUME NEW t \in Targets, WorkerStep(t), flow = "lifecycle" PROVE LeakInv'
  <2>1. flow' = "lifecycle" /\ \A u \in Targets \ {t} : job'[u] = job[u]
    BY <1>0, <1>2, WorkerResult DEF LedgerInv, Owes, Result
  <2>2. CASE ~Record(t)
    <3>1. Accounted(t) /\ owned' = owned
      BY <1>0, <1>2, <2>2, WorkerAccounted
    <3>2. ASSUME NEW i \in Open' PROVE Due(i, job'[i[1]])
      <4>1. i \in Items /\ (IF i[1] = t THEN Due(i, job'[t]) ELSE i \in Open)
        BY <3>1, <3>2 DEF Accounted, Open
      <4>2. i[1] \in Targets
        BY <4>1 DEF Items
      <4> QED
        BY <1>2, <1>a, <2>1, <4>1, <4>2
    <3>3. history'.made \subseteq Items
      BY <3>1 DEF Accounted
    <3> QED
      BY <2>1, <3>2, <3>3 DEF LeakInv
  <2>3. CASE Record(t)
    <3>1. /\ job[t].pc = "record" /\ owned' = owned \cup job[t].claim
          /\ Moves(t, cloud, Idle(Tail(job[t].left)))
      BY <1>2, <2>3 DEF Record, Advance, At
    <3>2. history' = [history EXCEPT !.made = Made(cloud)]
      BY <3>1 DEF Moves
    <3>3. history'.made = history.made /\ history'.cutOff = history.cutOff
      BY <1>0, <1>2, <3>2 DEF Made, Shape, HistoryFields
    <3>4. ASSUME NEW i \in Open' PROVE Due(i, job'[i[1]])
      <4>1. i \in Open /\ i \notin job[t].claim /\ i \in Items
        BY <1>a, <3>1, <3>3, <3>4 DEF Open
      <4>2. i[1] # t
        BY <1>2, <1>a, <3>1, <4>1 DEF Due
      <4>3. i[1] \in Targets
        BY <4>1 DEF Items
      <4> QED
        BY <1>2, <1>a, <2>1, <4>1, <4>2, <4>3
    <3> QED
      BY <1>a, <2>1, <3>3, <3>4 DEF LeakInv
  <2> QED
    BY <2>2, <2>3
<1>3. ASSUME NEW t \in Targets, Reenter(t) PROVE LeakInv'
  <2>1. /\ flow = "lifecycle" /\ flow' = flow /\ job[t].pc = "stopped"
        /\ job' = [job EXCEPT ![t].pc = "idle"] /\ UNCHANGED <<history, owned>>
    BY <1>3 DEF Reenter, At
  <2>2. \A u \in Targets \ {t} : job'[u] = job[u]
    BY <1>0, <2>1 DEF Shape
  <2>3. ASSUME NEW i \in Open' PROVE Due(i, job'[i[1]])
    <3>1. i \in Open /\ i[1] \in Targets /\ Due(i, job[i[1]])
      BY <1>a, <2>1, <2>3 DEF Open, Items
    <3>2. i[1] # t
      BY <2>1, <3>1 DEF Due
    <3> QED
      BY <2>2, <3>1, <3>2
  <2> QED
    BY <1>a, <2>1, <2>3 DEF LeakInv
<1>4. ASSUME NEW t \in Targets, DecideAbout(t) PROVE LeakInv'
  BY <1>4, <1>b DEF DecideAbout, Decide
<1>5. ASSUME NEW S, StartLifecycle(S) PROVE LeakInv'
  <2>1. /\ flow # "lifecycle" /\ owned' = owned
        /\ history' = [history EXCEPT !.before = Existing(cloud)]
    BY <1>5 DEF StartLifecycle, Entered
  <2>2. history'.made = history.made /\ history'.cutOff = history.cutOff
    BY <1>0, <2>1 DEF Shape, HistoryFields
  <2> QED
    BY <1>a, <2>1, <2>2 DEF LeakInv, Open
<1>6. ASSUME NEW S, NEW mode, NEW force, StartExpert(S, mode, force) PROVE LeakInv'
  BY <1>6, <1>b DEF StartExpert, Entered
<1>7. CASE BeginOffboard
  <2>1. /\ flow = "lifecycle" /\ flow' = "offboard" /\ UNCHANGED <<owned, history>>
        /\ \A t \in Targets : Settled(t)
    BY <1>7 DEF BeginOffboard
  <2>2. ASSUME NEW i \in Open PROVE FALSE
    <3>1. i[1] \in Targets /\ Due(i, job[i[1]])
      BY <1>a, <2>1, <2>2 DEF Open, Items
    <3> QED
      BY <2>1, <3>1 DEF Settled, Due
  <2> QED
    BY <1>a, <2>1, <2>2 DEF LeakInv, Open
<1>8. CASE RegisterAll \/ Report
  BY <1>8, <1>b DEF RegisterAll, Report
<1>9. ASSUME NEW t \in Targets, Registers(t) \/ Breaks(t) PROVE LeakInv'
  BY <1>9, <1>c DEF Registers, Breaks, elsewhere
<1>10. ASSUME NEW t \in Targets, NEW service \in ServiceNames, Foreign(t, service)
       PROVE  LeakInv'
  <2>1. /\ UNCHANGED <<job, flow, owned>>
        /\ \/ history' = [history EXCEPT !.raced = @ \cup {<<t, service>>}]
           \/ history' = history
    BY <1>10 DEF Foreign, elsewhere
  <2>2. history'.made = history.made /\ history'.cutOff = history.cutOff
    BY <1>0, <2>1 DEF Shape, HistoryFields
  <2> QED
    BY <1>c, <2>1, <2>2
<1>11. ASSUME NEW i \in Items, Cleanup(i) PROVE LeakInv'
  <2>1. /\ UNCHANGED <<job, flow, owned>>
        /\ \/ history' = [history EXCEPT !.removed = @ \cup {i}]
           \/ history' = history
    BY <1>11 DEF Cleanup
  <2>2. history'.made = history.made /\ history'.cutOff = history.cutOff
    BY <1>0, <2>1 DEF Shape, HistoryFields
  <2> QED
    BY <1>c, <2>1, <2>2
<1>12. CASE UNCHANGED vars
  BY <1>12, <1>c DEF vars
<1> QED
  BY <1>1, <1>2, <1>3, <1>4, <1>5, <1>6, <1>7, <1>8, <1>9, <1>10, <1>11, <1>12 DEF Next

\* What the run switched on it owns, or it lost it in an interruption, or a worker is
\* still on its way to the record: every phase that goes through records all of its
\* work (fleet_operations.py, log_analytics.py).
THEOREM ServicesLeaksAreInterruptions == Spec => []LeaksAreInterruptions
<1>1. LeakInv => LeaksAreInterruptions
  <2> SUFFICES ASSUME LeakInv, NEW i \in Open PROVE job[i[1]].pc \notin {"idle", "stopped"}
    BY DEF LeaksAreInterruptions, Open
  <2> QED
    BY DEF LeakInv, Due
<1> QED
  BY <1>1, LedgerInvInit, LedgerInvStep, LeakInit, LeakStep, PTL DEF Spec

-----------------------------------------------------------------------------
(* A target reported enabled is attached *)

\* configure --apply still has to come to the insight of the target of job j.
Attaching(j) ==
  \/ /\ j.left = <<"dbm", "opsi">>
     /\ j.pc \in {"idle", "enable_dbm", "healthy", "modify", "wait", "record"}
  \/ /\ j.left = <<"opsi">>
     /\ j.pc \in {"idle", "find", "repair", "enable", "create"}

Attached(t) == cloud.insight[t] # "none"

\* The targets configure answers for.
Promised(t) == decision[t] = "enabled" /\ OpsiReady(t)

\* No error has been passed over, and who is promised an insight has one or gets one.
AttachInv ==
  /\ DOMAIN decision = Targets
  /\ flow \in {"expert", "datasafe"} => \A t \in Targets : job[t].pc # "stopped"
  /\ flow = "expert" =>
       \A t \in Targets : Promised(t) => Attached(t) \/ Attaching(job[t])
  /\ flow \in {"datasafe", "done"} => \A t \in Targets : Promised(t) => Attached(t)

\* No insight there is gets lost.
Keeps(c) == \A u \in Targets : cloud.insight[u] # "none" => c.insight[u] # "none"

\* The calls of the handlers lose none.
LEMMA CallsKeep ==
  ASSUME Shape, NEW t \in Targets
  PROVE  /\ Keeps(cloud) /\ Keeps(Enabling(t)) /\ Keeps(Active(t)) /\ Keeps(Registered(t))
         /\ Keeps(Named(t)) /\ Keeps(WithEntity(t))
         /\ \A items : Keeps(Associated(items))
         /\ \A name : Keeps(WithPreferred(t, name))
         /\ Active(t).insight[t] = "active"
  BY DEF Shape, Cloud, Keeps, Enabling, Active, Registered, Named, WithEntity, Associated,
         WithPreferred

\* A step of the worker of t, as far as its insight is concerned.
StillAttaching(t, c, j) == OpsiReady(t) /\ Attaching(job[t]) => c.insight[t] # "none" \/ Attaching(j)

Going(t) ==
  /\ Keeps(cloud')
  /\ flow' # "aborted" => job'[t].pc # "stopped" /\ StillAttaching(t, cloud', job'[t])

\* Moves and Stops outside a lifecycle.
LEMMA MovesGoing ==
  ASSUME Shape, flow # "lifecycle", NEW t \in Targets, NEW c, Keeps(c),
         \/ Stops(t, c)
         \/ \E next : /\ Moves(t, c, next) /\ next.pc # "stopped"
                      /\ StillAttaching(t, c, next)
  PROVE  Going(t)
<1>1. CASE Stops(t, c)
  BY <1>1 DEF Stops, Going
<1>2. ASSUME NEW next, Moves(t, c, next), next.pc # "stopped", StillAttaching(t, c, next)
      PROVE  Going(t)
  <2>1. cloud' = c /\ job'[t] = next
    BY <1>2 DEF Moves, Shape
  <2> QED
    BY <1>2, <2>1 DEF Going, Keeps, StillAttaching
<1> QED
  BY <1>1, <1>2

\* Call: either of the two.
LEMMA CallGoing ==
  ASSUME Shape, flow # "lifecycle", NEW t \in Targets, NEW c, Keeps(c), NEW next,
         Call(t, c, next), next.pc # "stopped", StillAttaching(t, c, next)
  PROVE  Going(t)
  BY CallsKeep, MovesGoing DEF Call

\* A call that stays at the state of the services.
LEMMA StayGoing ==
  ASSUME Shape, flow # "lifecycle", NEW t \in Targets,
         \/ Stops(t, cloud)
         \/ \E next : /\ Moves(t, cloud, next) /\ next.pc # "stopped"
                      /\ StillAttaching(t, cloud, next)
  PROVE  Going(t)
  BY CallsKeep, MovesGoing

\* The phases a job still has to do.
LEMMA NextLeft ==
  ASSUME Shape, NEW t \in Targets, NEW l, NEW service
  PROVE  /\ [job[t] EXCEPT !.pc = l].left = job[t].left
         /\ [job[t] EXCEPT !.pc = l].pc = l
         /\ [job[t] EXCEPT !.pc = l, !.tries = @ + 1].left = job[t].left
         /\ [job[t] EXCEPT !.pc = l, !.tries = @ + 1].pc = l
         /\ Applied(t, l).left = job[t].left /\ Applied(t, l).pc = l
         /\ [Applied(t, l) EXCEPT !.claim = {<<t, service>>}].left = job[t].left
         /\ [Applied(t, l) EXCEPT !.claim = {<<t, service>>}].pc = l
         /\ Owning(t, service).left = job[t].left /\ Owning(t, service).pc = "record"
  BY DEF Applied, Owning, Shape, JobFields

\* A phase of dbm or opsi is neither skipped nor stopped without an error.
LEMMA EnterGoing ==
  ASSUME Shape, flow # "lifecycle", NEW t \in Targets, Enter(t)
  PROVE  Going(t)
<1> DEFINE e == Entry(t, Head(job[t].left))
           next == [job[t] EXCEPT !.pc = e]
<1>1. job[t].pc = "idle"
  BY DEF Enter, At
<1>2. \/ e = "refused" /\ Stops(t, cloud)
      \/ e = "skipped" /\ Moves(t, cloud, Idle(Tail(job[t].left)))
      \/ Moves(t, cloud, next)
  BY DEF Enter, Refused, Advance, Continue
<1>3. next.pc = e /\ next.left = job[t].left
  BY NextLeft
<1>4. e # "stopped"
  BY DEF Entry
<1>5. OpsiReady(t) /\ job[t].left = <<"dbm", "opsi">> => e \in {"refused", "enable_dbm"}
  BY DEF Entry, OpsiReady, Native
<1>6. OpsiReady(t) /\ job[t].left = <<"opsi">> => e = "find"
  BY DEF Entry, OpsiReady, Native
<1>7. Idle(Tail(job[t].left)).pc = "idle"
  BY DEF Idle
<1> HIDE DEF e, next
<1>8. CASE Moves(t, cloud, next) /\ e # "refused"
  <2>1. StillAttaching(t, cloud, next)
    BY <1>1, <1>3, <1>5, <1>6, <1>8 DEF StillAttaching, Attaching
  <2> QED
    BY <1>3, <1>4, <1>8, <2>1, StayGoing
<1>9. CASE e = "skipped" /\ Moves(t, cloud, Idle(Tail(job[t].left)))
  <2>1. ~(OpsiReady(t) /\ Attaching(job[t]))
    BY <1>5, <1>6, <1>9 DEF Attaching
  <2> QED
    BY <1>7, <1>9, <2>1, StayGoing DEF StillAttaching
<1>10. e = "refused" => Stops(t, cloud)
  BY DEF Enter, Refused, e
<1> QED
  BY <1>2, <1>8, <1>9, <1>10, StayGoing

\* A next job that is as good as any, whatever the call does.
OnTheWay(t, j) == j.pc # "stopped" /\ \A c : StillAttaching(t, c, j)

\* Database Management leads to the insight.
LEMMA DbmGoing ==
  ASSUME Shape, flow # "lifecycle", NEW t \in Targets,
         EnableDbm(t) \/ Healthy(t) \/ Modify(t) \/ WaitDbm(t) \/ Record(t)
  PROVE  Going(t)
<1> DEFINE Ahead == {"healthy", "modify", "wait", "record"}
<1>a. ASSUME NEW j, j.left = job[t].left, j.pc \in Ahead,
             job[t].pc \in {"enable_dbm", "healthy", "modify", "wait"}
      PROVE  OnTheWay(t, j)
  BY <1>a DEF StillAttaching, Attaching, OnTheWay
<1>1. CASE EnableDbm(t)
  <2> DEFINE claiming == [Applied(t, "record") EXCEPT !.claim = {<<t, "dbm">>}]
  <2>1. /\ job[t].pc = "enable_dbm"
        /\ \/ Stops(t, cloud)
           \/ Moves(t, cloud, [job[t] EXCEPT !.pc = "healthy"])
           \/ Moves(t, cloud, Owning(t, "dbm"))
           \/ Call(t, Enabling(t), Applied(t, "wait"))
           \/ Call(t, Enabling(t), claiming)
    BY <1>1 DEF EnableDbm, Refused, Records, Continue, Enabling, At
  <2>2. OnTheWay(t, [job[t] EXCEPT !.pc = "healthy"])
    <3> DEFINE next == [job[t] EXCEPT !.pc = "healthy"]
    <3>1. next.left = job[t].left /\ next.pc = "healthy"
      BY NextLeft
    <3> HIDE DEF next
    <3>2. OnTheWay(t, next)
      BY <1>a, <2>1, <3>1
    <3> QED
      BY <3>2 DEF next
  <2>3. OnTheWay(t, Owning(t, "dbm")) /\ OnTheWay(t, Applied(t, "wait"))
    BY <1>a, <2>1, NextLeft
  <2>4. claiming.left = job[t].left /\ claiming.pc = "record"
    BY NextLeft
  <2> HIDE DEF claiming
  <2>5. OnTheWay(t, claiming)
    BY <1>a, <2>1, <2>4
  <2> QED
    BY <2>1, <2>2, <2>3, <2>5, StayGoing, CallGoing, CallsKeep DEF OnTheWay
<1>2. CASE Healthy(t) \/ Modify(t) \/ WaitDbm(t)
  <2> DEFINE again == [job[t] EXCEPT !.pc = "wait", !.tries = @ + 1]
  <2>1. /\ job[t].pc \in {"healthy", "modify", "wait"}
        /\ \/ Stops(t, cloud)
           \/ Moves(t, cloud, Owning(t, "dbm"))
           \/ \E l \in {"modify", "wait"} : Moves(t, cloud, [job[t] EXCEPT !.pc = l])
           \/ Moves(t, cloud, again)
    BY <1>2 DEF Healthy, Modify, WaitDbm, Call, Refused, Records, Continue, Again, At
  <2>2. ASSUME NEW l \in {"modify", "wait"} PROVE OnTheWay(t, [job[t] EXCEPT !.pc = l])
    <3> DEFINE next == [job[t] EXCEPT !.pc = l]
    <3>1. next.left = job[t].left /\ next.pc = l
      BY NextLeft
    <3> HIDE DEF next
    <3>2. OnTheWay(t, next)
      BY <1>a, <2>1, <2>2, <3>1
    <3> QED
      BY <3>2 DEF next
  <2>3. OnTheWay(t, Owning(t, "dbm"))
    BY <1>a, <2>1, NextLeft
  <2>4. again.left = job[t].left /\ again.pc = "wait"
    BY NextLeft
  <2> HIDE DEF again
  <2>5. OnTheWay(t, again)
    BY <1>a, <2>1, <2>4
  <2> QED
    BY <2>1, <2>2, <2>3, <2>5, StayGoing DEF OnTheWay
<1>3. CASE Record(t)
  <2>1. job[t].pc = "record" /\ Moves(t, cloud, Idle(Tail(job[t].left)))
    BY <1>3 DEF Record, Advance, At
  <2>2. Attaching(job[t]) => job[t].left = <<"dbm", "opsi">>
    BY <2>1 DEF Attaching
  <2>3. Tail(<<"dbm", "opsi">>) = <<"opsi">>
    OBVIOUS
  <2>4. Idle(Tail(job[t].left)).pc = "idle" /\ Idle(Tail(job[t].left)).left = Tail(job[t].left)
    BY DEF Idle
  <2>5. StillAttaching(t, cloud, Idle(Tail(job[t].left)))
    BY <2>2, <2>3, <2>4 DEF StillAttaching, Attaching
  <2> QED
    BY <2>1, <2>4, <2>5, StayGoing
<1> QED
  BY <1>1, <1>2, <1>3

\* The steps towards the insight end with it, or with an error.
LEMMA InsightGoing ==
  ASSUME Shape, flow # "lifecycle", NEW t \in Targets,
         Find(t) \/ RepairInsight(t) \/ EnableInsight(t) \/ CreateInsight(t)
  PROVE  Going(t)
<1>1. CASE Find(t)
  <2>1. job[t].pc = "find"
    BY <1>1 DEF Find, At
  <2>2. \/ Stops(t, cloud)
        \/ \E state \in {"none", cloud.insight[t]} :
             Moves(t, cloud, [job[t] EXCEPT !.pc = AfterFinding(t, state)])
    BY <1>1 DEF Find, Refused, Continue
  <2>3. ASSUME NEW state \in {"none", cloud.insight[t]},
               Moves(t, cloud, [job[t] EXCEPT !.pc = AfterFinding(t, state)])
        PROVE  Going(t)
    <3> DEFINE l == AfterFinding(t, state)
               next == [job[t] EXCEPT !.pc = l]
    <3>1. cloud.insight[t] \in {"none", "active", "failed", "disabled"}
      BY DEF Shape, Cloud
    <3>2. l # "stopped"
      BY <3>1 DEF AfterFinding
    <3>3. OpsiReady(t) /\ cloud.insight[t] = "none" => l \in {"enable", "create"}
      BY DEF AfterFinding, OpsiReady
    <3>4. next.pc = l /\ next.left = job[t].left
      BY NextLeft
    <3> HIDE DEF l
    <3>5. StillAttaching(t, cloud, next)
      <4> HIDE DEF next
      <4> QED
        BY <2>1, <3>3, <3>4 DEF StillAttaching, Attaching
    <3>6. Moves(t, cloud, next)
      BY <2>3 DEF l
    <3> HIDE DEF next
    <3> QED
      BY <3>2, <3>4, <3>5, <3>6, StayGoing
  <2> QED
    BY <2>2, <2>3, StayGoing
<1>2. CASE RepairInsight(t) \/ EnableInsight(t) \/ CreateInsight(t)
  <2> DEFINE again == [job[t] EXCEPT !.pc = "create", !.tries = @ + 1]
             reference == [job[t] EXCEPT !.pc = "reference"]
  <2>1. \/ Stops(t, cloud)
        \/ Call(t, Active(t), Applied(t, "reference"))
        \/ cloud.insight[t] # "none" /\ Moves(t, cloud, reference)
        \/ job[t].pc = "create" /\ Moves(t, cloud, again)
    BY <1>2 DEF RepairInsight, EnableInsight, CreateInsight, Refused, Continue, Again, At
  <2>2. /\ Applied(t, "reference").pc = "reference" /\ reference.pc = "reference"
        /\ again.pc = "create" /\ again.left = job[t].left
    BY NextLeft
  <2> HIDE DEF again, reference
  <2>3. job[t].pc = "create" => StillAttaching(t, cloud, again)
    BY <2>2 DEF StillAttaching, Attaching
  <2>4. cloud.insight[t] # "none" => StillAttaching(t, cloud, reference)
    BY DEF StillAttaching
  <2>5. StillAttaching(t, Active(t), Applied(t, "reference"))
    BY CallsKeep DEF StillAttaching
  <2> QED
    BY <2>1, <2>2, <2>3, <2>4, <2>5, StayGoing, CallGoing, CallsKeep
<1> QED
  BY <1>1, <1>2

\* The other steps of a worker have nothing to do with an insight that is due.
LEMMA OtherGoing ==
  ASSUME Shape, flow # "lifecycle", NEW t \in Targets,
         \/ BlockChild(t) \/ Breakdown(t) \/ EnableAutonomousInsight(t) \/ Reference(t)
         \/ ListSafe(t) \/ RegisterSafe(t) \/ Preferred(t) \/ Lookup(t) \/ CreateNamed(t)
         \/ \E name \in PreferredNames : SetPreferred(t, name)
         \/ Entities(t) \/ Classify(t) \/ Upsert(t)
  PROVE  Going(t)
<1> DEFINE Aside == {"enable_adb", "reference", "list_safe", "register_safe", "preferred",
                     "lookup", "create_named", "set_read", "set_write", "entities", "classify",
                     "upsert"}
<1>a. ASSUME job[t].pc \in Aside, NEW c, Keeps(c), NEW next,
             Moves(t, c, next) \/ Call(t, c, next), next.pc # "stopped"
      PROVE  Going(t)
  <2>1. StillAttaching(t, c, next)
    BY <1>a DEF StillAttaching, Attaching
  <2> QED
    BY <1>a, <2>1, MovesGoing, CallGoing
<1>b. ASSUME NEW c, Stops(t, c), Keeps(c) PROVE Going(t)
  BY <1>b, MovesGoing
<1>k. /\ Keeps(cloud) /\ Keeps(Active(t)) /\ Keeps(Registered(t))
      /\ Keeps(Named(t)) /\ Keeps(WithEntity(t))
      /\ \A items : Keeps(Associated(items))
      /\ \A name : Keeps(WithPreferred(t, name))
  BY CallsKeep
<1>l. \A phases : Idle(phases).pc = "idle"
  BY DEF Idle
<1>f. ASSUME job[t].pc \in Aside, NEW c, AttemptFails(t, c), Keeps(c) PROVE Going(t)
  <2> DEFINE next == [Idle(job[t].left) EXCEPT !.pc = "create_named", !.tries = job[t].tries + 1]
  <2>1. Moves(t, c, next) \/ Stops(t, c)
    BY <1>f DEF AttemptFails
  <2>2. next.pc = "create_named"
    BY DEF Idle
  <2> HIDE DEF next
  <2> QED
    BY <1>f, <1>a, <1>b, <2>1, <2>2
<1>1. CASE BlockChild(t) \/ Breakdown(t)
  BY <1>1, <1>b, <1>k DEF BlockChild, Breakdown, Refused
<1>2. CASE EnableAutonomousInsight(t)
  <2>1. /\ job[t].pc \in Aside
        /\ \/ Moves(t, cloud, [job[t] EXCEPT !.pc = "reference"])
           \/ Call(t, Active(t), Applied(t, "reference"))
    BY <1>2 DEF EnableAutonomousInsight, Continue, At
  <2>2. [job[t] EXCEPT !.pc = "reference"].pc = "reference" /\ Applied(t, "reference").pc = "reference"
    BY NextLeft
  <2> HIDE DEF Aside
  <2> QED
    BY <1>a, <1>k, <2>1, <2>2
<1>3. CASE Reference(t)
  <2>1. /\ job[t].pc \in Aside
        /\ Moves(t, cloud, Idle(Tail(job[t].left)))
    BY <1>3 DEF Reference, Advance, At
  <2> HIDE DEF Aside
  <2> QED
    BY <1>a, <1>k, <1>l, <2>1
<1>4. CASE ListSafe(t) \/ RegisterSafe(t)
  <2> DEFINE claiming == [Applied(t, "record") EXCEPT !.claim = {<<t, "datasafe">>}]
             register == [job[t] EXCEPT !.pc = "register_safe"]
  <2>1. /\ job[t].pc \in Aside
        /\ \/ Stops(t, cloud) \/ Moves(t, cloud, Owning(t, "datasafe"))
           \/ Moves(t, cloud, Idle(Tail(job[t].left)))
           \/ Moves(t, cloud, register)
           \/ Moves(t, cloud, claiming) \/ Call(t, Registered(t), claiming)
    BY <1>4 DEF ListSafe, RegisterSafe, Records, Refused, Advance, Continue, Registered, At
  <2>2. /\ register.pc = "register_safe" /\ claiming.pc = "record"
        /\ Owning(t, "datasafe").pc = "record"
    BY NextLeft
  <2> HIDE DEF Aside, claiming, register
  <2> QED
    BY <1>a, <1>b, <1>k, <1>l, <2>1, <2>2
<1>5. CASE Preferred(t) \/ Lookup(t)
  <2>1. /\ job[t].pc \in Aside
        /\ \/ Moves(t, cloud, Owning(t, "credential"))
           \/ \E l \in {"lookup", "set_read", "create_named"} :
                Moves(t, cloud, [job[t] EXCEPT !.pc = l])
    BY <1>5 DEF Preferred, Lookup, Records, Continue, At
  <2>2. Owning(t, "credential").pc = "record" /\ \A l : [job[t] EXCEPT !.pc = l].pc = l
    BY NextLeft
  <2> HIDE DEF Aside
  <2> QED
    BY <1>a, <1>k, <2>1, <2>2
<1>6. CASE CreateNamed(t)
  <2>1. /\ job[t].pc \in Aside
        /\ \/ Moves(t, Named(t), Applied(t, "set_read"))
           \/ \E d \in {cloud, Named(t)} : AttemptFails(t, d)
    BY <1>6 DEF CreateNamed, Named, At
  <2>2. Applied(t, "set_read").pc = "set_read"
    BY NextLeft
  <2> HIDE DEF Aside
  <2> QED
    BY <1>a, <1>f, <1>k, <2>1, <2>2
<1>7. ASSUME NEW name \in PreferredNames, SetPreferred(t, name) PROVE Going(t)
  <2> DEFINE write == [job[t] EXCEPT !.pc = "set_write"]
  <2>1. /\ job[t].pc \in Aside
        /\ \/ Moves(t, WithPreferred(t, name), write)
           \/ Moves(t, WithPreferred(t, name), Owning(t, "credential"))
           \/ \E d \in {cloud, WithPreferred(t, name)} : AttemptFails(t, d) \/ Stops(t, d)
    BY <1>7 DEF SetPreferred, WithPreferred, At
  <2>2. write.pc = "set_write" /\ Owning(t, "credential").pc = "record"
    BY NextLeft
  <2> HIDE DEF Aside, write
  <2> QED
    BY <1>a, <1>b, <1>f, <1>k, <2>1, <2>2
<1>8. CASE Entities(t)
  <2> DEFINE next == [job[t] EXCEPT !.pc = "classify"]
  <2>1. /\ job[t].pc \in Aside
        /\ Stops(t, cloud) \/ Moves(t, cloud, next) \/ Call(t, WithEntity(t), next)
    BY <1>8 DEF Entities, Refused, Continue, WithEntity, At
  <2>2. next.pc = "classify"
    BY NextLeft
  <2> HIDE DEF Aside, next
  <2> QED
    BY <1>a, <1>b, <1>k, <2>1, <2>2
<1>9. CASE Classify(t)
  <2> DEFINE created == ({t} \X Sources) \ cloud.assoc
             next == [job[t] EXCEPT !.claim = created,
                            !.pc = IF created = {} THEN "record" ELSE "upsert"]
  <2>1. job[t].pc \in Aside /\ Moves(t, cloud, next)
    BY <1>9 DEF Classify, At
  <2>2. next.pc # "stopped"
    BY DEF Shape, JobFields
  <2> HIDE DEF Aside, next
  <2> QED
    BY <1>a, <1>k, <2>1, <2>2
<1>10. CASE Upsert(t)
  <2> DEFINE next == [job[t] EXCEPT !.pc = "record"]
  <2>1. job[t].pc \in Aside /\ Call(t, Associated(job[t].claim), next)
    BY <1>10 DEF Upsert, Associated, At
  <2>2. next.pc = "record"
    BY NextLeft
  <2> HIDE DEF Aside, next
  <2> QED
    BY <1>a, <1>k, <2>1, <2>2
<1> QED
  BY <1>1, <1>2, <1>3, <1>4, <1>5, <1>6, <1>7, <1>8, <1>9, <1>10

\* Every step of a worker keeps an insight that is due on its way.
LEMMA WorkerGoing ==
  ASSUME Shape, flow # "lifecycle", NEW t \in Targets, WorkerStep(t)
  PROVE  /\ Going(t) /\ decision' = decision /\ flow' \in {flow, "aborted"}
         /\ \A u \in Targets \ {t} : job'[u] = job[u]
<1>1. Going(t)
  BY EnterGoing, DbmGoing, InsightGoing, OtherGoing DEF WorkerStep
<1>2. Result(t)
  BY WorkerResult DEF Owes
<1> QED
  BY <1>1, <1>2 DEF Result, WorkerStep, expert

\* At first nobody is promised anything.
LEMMA AttachInit == Init => AttachInv
  BY DEF Init, AttachInv

\* Every step keeps the promise.
LEMMA AttachStep == LedgerInv /\ AttachInv /\ [Next]_vars => AttachInv'
<1> SUFFICES ASSUME LedgerInv, AttachInv, [Next]_vars PROVE AttachInv'
  OBVIOUS
<1>0. Shape /\ AtRest
  BY DEF LedgerInv
<1>a. ASSUME flow' \in {"lifecycle", "offboard", "aborted", "none"}, DOMAIN decision' = Targets
      PROVE  AttachInv'
  BY <1>a DEF AttachInv
<1>d. DOMAIN decision = Targets
  BY DEF AttachInv
<1>1. ASSUME NEW t \in Targets, WorkerStep(t) PROVE AttachInv'
  <2>1. CASE flow = "lifecycle"
    <3>1. flow' = flow /\ decision' = decision
      BY <1>0, <1>1, <2>1, WorkerResult DEF Result, Owes, LedgerInv, WorkerStep, expert
    <3> QED
      BY <1>a, <1>d, <2>1, <3>1
  <2>2. CASE flow # "lifecycle"
    <3>1. /\ Going(t) /\ decision' = decision /\ flow' \in {flow, "aborted"}
          /\ \A u \in Targets \ {t} : job'[u] = job[u]
      BY <1>0, <1>1, <2>2, WorkerGoing
    <3>2. CASE flow' = "aborted"
      BY <1>a, <1>d, <3>1, <3>2
    <3>3. CASE flow' = flow /\ flow' # "aborted"
      <4>1. job'[t].pc # "stopped" /\ StillAttaching(t, cloud', job'[t]) /\ Keeps(cloud')
        BY <3>1, <3>3 DEF Going
      <4>2. \A u \in Targets : Promised(u)' <=> Promised(u)
        BY <3>1 DEF Promised
      <4>3. \A u \in Targets : Attached(u) => Attached(u)'
        BY <4>1 DEF Keeps, Attached
      <4>4. ASSUME flow = "expert", NEW u \in Targets, Promised(u), ~Attached(u)'
            PROVE  Attaching(job'[u])
        <5>1. Attaching(job[u]) /\ OpsiReady(u)
          BY <4>3, <4>4 DEF AttachInv, Promised
        <5> QED
          BY <3>1, <4>1, <4>4, <5>1 DEF StillAttaching, Attached
      <4> QED
        BY <1>d, <3>1, <3>3, <4>1, <4>2, <4>3, <4>4 DEF AttachInv
    <3> QED
      BY <3>1, <3>2, <3>3
  <2> QED
    BY <2>1, <2>2
<1>2. ASSUME NEW t \in Targets, NEW seenEnabled, Decide(t, seenEnabled) PROVE AttachInv'
  <2>1. /\ flow = "expert" /\ UNCHANGED <<cloud, flow>>
        /\ \E verdict : decision' = [decision EXCEPT ![t] = verdict]
        /\ \E phases : job' = [job EXCEPT ![t] = Idle(phases)]
    BY <1>2 DEF Decide
  <2>2. /\ DOMAIN decision' = Targets
        /\ \A u \in Targets \ {t} : decision'[u] = decision[u] /\ job'[u] = job[u]
        /\ job'[t].pc = "idle"
    BY <1>0, <1>d, <2>1 DEF Shape, Idle
  <2>3. decision'[t] = "enabled" => \/ job'[t].left = <<"opsi">>
                                    \/ job'[t].left = <<"dbm", "opsi">>
    BY <1>0, <1>2, <1>d DEF Decide, Idle, Shape
  <2>4. \A u \in Targets : Promised(u)' => Attached(u)' \/ Attaching(job'[u])
    <3> SUFFICES ASSUME NEW u \in Targets, Promised(u)' PROVE Attached(u)' \/ Attaching(job'[u])
      OBVIOUS
    <3>1. CASE u = t
      BY <2>2, <2>3, <3>1 DEF Promised, Attaching
    <3>2. CASE u # t
      BY <2>1, <2>2, <3>2 DEF Promised, AttachInv, Attached
    <3> QED
      BY <3>1, <3>2
  <2>5. \A u \in Targets : job'[u].pc # "stopped"
    BY <2>1, <2>2 DEF AttachInv
  <2> QED
    BY <2>1, <2>2, <2>4, <2>5 DEF AttachInv
<1>3. ASSUME NEW S, StartLifecycle(S) PROVE AttachInv'
  BY <1>3, <1>a, <1>d DEF StartLifecycle, expert
<1>4. ASSUME NEW S, NEW mode, NEW force, StartExpert(S, mode, force) PROVE AttachInv'
  <2>1. /\ flow' = "expert" /\ decision' = [t \in Targets |-> "none"]
        /\ job' = [t \in Targets |-> Idle(<<>>)]
    BY <1>4 DEF StartExpert
  <2> QED
    BY <2>1 DEF AttachInv, Promised, Idle
<1>5. CASE RegisterAll
  <2>1. /\ flow = "expert" /\ UNCHANGED <<cloud, decision>>
        /\ \A t \in Targets : Settled(t)
        /\ \A t \in Targets : \E phases : job'[t] = Idle(phases)
        /\ flow' \in {"datasafe", "done"}
    BY <1>5 DEF RegisterAll, expert
  <2>2. \A t \in Targets : job[t].pc # "stopped" /\ ~Attaching(job[t])
    BY <2>1 DEF AttachInv, Settled, Attaching
  <2>3. \A t \in Targets : Promised(t)' => Attached(t)'
    BY <2>1, <2>2 DEF AttachInv, Promised, Attached
  <2>4. \A t \in Targets : job'[t].pc # "stopped"
    <3>1. \A phases : Idle(phases).pc = "idle"
      BY DEF Idle
    <3> QED
      BY <2>1, <3>1
  <2> QED
    BY <1>d, <2>1, <2>3, <2>4 DEF AttachInv
<1>6. CASE Report
  BY <1>6 DEF Report, AttachInv, Promised, Attached, expert
<1>7. ASSUME NEW t \in Targets, Registers(t) \/ Breaks(t) PROVE AttachInv'
  <2>1. UNCHANGED <<job, flow, decision>>
    BY <1>7 DEF Registers, Breaks, elsewhere, expert
  <2>2. Keeps(cloud')
    BY <1>0, <1>7 DEF Registers, Breaks, Keeps, Shape, Cloud
  <2>3. \A u \in Targets : Attached(u) => Attached(u)'
    BY <2>2 DEF Keeps, Attached
  <2> QED
    BY <2>1, <2>3 DEF AttachInv, Promised
<1>8. ASSUME NEW i \in Items, Cleanup(i) PROVE AttachInv'
  <2>1. flow = "offboard" /\ UNCHANGED <<flow, decision>>
    BY <1>0, <1>8 DEF Cleanup, AtRest, expert
  <2> QED
    BY <1>a, <1>d, <2>1
<1>9. ASSUME \/ \E t \in Targets :
                 \/ Reenter(t) /\ UNCHANGED <<plan, expert>>
                 \/ \E service \in ServiceNames : Foreign(t, service)
             \/ BeginOffboard
      PROVE  AttachInv'
  <2>1. flow' \in {"lifecycle", "offboard"} /\ decision' = decision
    BY <1>9 DEF Reenter, Foreign, BeginOffboard, elsewhere, expert
  <2> QED
    BY <1>a, <1>d, <2>1
<1>10. CASE UNCHANGED vars
  BY <1>10 DEF vars, AttachInv, Promised, Attached
<1> QED
  BY <1>1, <1>2, <1>3, <1>4, <1>5, <1>6, <1>7, <1>8, <1>9, <1>10 DEF Next, DecideAbout

\* A target that configure --apply reports enabled has an insight if its fields allow
\* one (orchestrator.py, _create_opsi_pe_comanaged): the enablement comes to it, or
\* the command ends with an error.
THEOREM ServicesEnabledMeansAttached == Spec => []EnabledMeansAttached
<1>1. AttachInv => EnabledMeansAttached
  BY DEF AttachInv, EnabledMeansAttached, Promised, Attached
<1> QED
  BY <1>1, LedgerInvInit, LedgerInvStep, AttachInit, AttachStep, PTL DEF Spec
=============================================================================
