------------------------ MODULE ExpertCommandsProofs -----------------------
(***************************************************************************)
(* Proofs about the expert commands: the scripts on the database hosts     *)
(* (DbExec) and the commands that share a configuration file               *)
(* (ConfigCommands), for any number of commands, targets, ports, scripts   *)
(* and faults.                                                             *)
(*                                                                         *)
(* DbExec has three invariants, each on top of the one before it.  IInv:   *)
(* the types, where a command stands in its scripts, and that the session  *)
(* it uses is one of its name or the best it could find; SessionsSpared    *)
(* follows.  PInv: a port has one listener, so the host a command meets is *)
(* its own or that of the command whose forward has the port, on record as *)
(* a mix-up; what a script that is through has done stays done there, and  *)
(* so "executed" means prepared, unless the script was replaced on its     *)
(* host.  LInv: until something fails, time is up or another command's     *)
(* session or forward came between, the newest session of the name is the  *)
(* command's own, and so it deletes what it made.                          *)
(*                                                                         *)
(* ConfigCommands has three.  ConfigIInv: every id in a file, in the cloud *)
(* or in a command is that of something made, or a placeholder a dry run   *)
(* put there.  LookedFirst: what is about to be created is not there,      *)
(* unless a look was blurred.  Kept: a file, or the copy of the command    *)
(* that is writing it, has every id a save has put into it, until a save   *)
(* from an outdated copy, a file written anew or a writer's death.         *)
(***************************************************************************)
EXTENDS DbExec, ConfigCommands, SequenceTheorems, FiniteSetTheorems,
        WellFoundedInduction, TLAPS

\* What a command records of a target.
Outcomes == {"executed", "failed", "handoff", "skipped"}
\* What a command keeps while it runs (the values of run[c]).
Run ==
  [pc : Steps \cup Final, at : Nat, sent : Nat, script : Nat, session : Nat, port : Nat,
   met : Hosts \cup {Nobody}, failed : BOOLEAN, decisions : Seq(Outcomes)]

\* Where a command has its tunnel ahead of it, and where it is the user of a session.
Before == {"done", "reap", "create", "resolve", "port"}
Users == {"port", "forward", "wait", "script", "sqlplus", "clean", "teardown"}

\* The scripts, in order, for the target r is at.
ScriptsOf(c, r) == OrderedScripts(Targets(c)[r.at])

\* A command that is not over works on a target of its list, and where it stands in the
\* scripts.
RunOK(c, r) ==
  /\ r \in Run
  /\ r.pc = "done" => Len(r.decisions) = Len(Targets(c))
  /\ r.pc # "done" =>
       /\ r.at \in 1 .. Len(Targets(c)) /\ Targets(c)[r.at] \in HasScripts /\ c \notin Production
       /\ Len(r.decisions) = r.at - 1 /\ r.script <= Len(ScriptsOf(c, r))
  /\ r.pc \in Before \cup {"forward", "wait"} =>
       r.sent = 0 /\ r.script = 0 /\ ~r.failed /\ r.met = Nobody
  /\ r.pc \in Before => r.port = 0
  /\ r.pc \in Users \ {"port"} => r.port \in Ports
  /\ r.pc \in {"script", "sqlplus"} => r.script < Len(ScriptsOf(c, r))
  /\ r.pc = "script" => r.sent = r.script
  /\ r.pc = "sqlplus" => r.sent = r.script + 1 /\ r.met # Nobody
  /\ r.script # 0 => r.met # Nobody
  /\ r.pc \in {"clean", "teardown"} /\ ~r.failed => r.script = Len(ScriptsOf(c, r))

\* What a mix-up is.
Confusion == [kind : {"session", "port", "file"}, who : Commands, at : Nat,
              by : Commands \cup {Nobody}]

\* Every variable has its type.
Types ==
  /\ now \in Nat /\ issued \in Nat
  /\ sessions \subseteq Session
  /\ forwards \subseteq Forward
  /\ uploads \subseteq [by : Commands, host : Hosts, script : Nat]
  /\ mixups \subseteq Confusion
  /\ db \in [Hosts -> [Containers -> User]]
  /\ run \in [Commands -> Run]

\* Session ids are handed out in order, each to one session.
SessionsOK ==
  /\ \A s \in sessions : s.id \in 1 .. issued
  /\ \A s, x \in sessions : s.id = x.id => s = x
  /\ \A c \in Commands : run[c].session <= issued

\* The session a command uses is one of its name, or the best it could find.
Chosen(c) ==
  run[c].pc \in Users =>
    \A s \in sessions : s.id = run[c].session =>
      \/ s.label = Label(Target(c)) \/ Failed("list")
      \/ \A x \in sessions : x.by = c => x.label # Label(Target(c))

\* The first layer, which holds whatever fails and whatever the hosts are.
IInv ==
  /\ Types /\ SessionsOK
  /\ \A c \in Commands : RunOK(c, run[c])
  /\ \A c \in Commands : Chosen(c)

-----------------------------------------------------------------------------
\* A non-empty set of numbers has a least one.
LEMMA LeastExists ==
  ASSUME NEW S \in SUBSET Nat, S # {}
  PROVE  \E p \in S : \A q \in S : p <= q
<1>1. PICK p \in S : \A q \in S : ~(<<q, p>> \in OpToRel(<, Nat))
  BY NatLessThanWellFounded, WFMin, Zenon
<1>2. \A q \in S : ~(q < p)
  BY <1>1 DEF OpToRel
<1> QED BY <1>2

\* The constants.
LEMMA TargetsFacts ==
  ASSUME NEW c \in Commands
  PROVE  /\ Len(Targets(c)) \in Nat /\ DOMAIN Targets(c) = 1 .. Len(Targets(c))
         /\ Host(c) \in Hosts /\ Targets(c) \in Seq(STRING)
         /\ Ports \subseteq Nat \ {0} /\ TTL \in Nat /\ Began \in Nat
         /\ Nobody \notin Hosts /\ Nobody \notin Commands /\ c # Nobody
BY DbExecAssumption DEF Began, Nobody

\* What Onward looks for is there: the first target from i on that needs a session.
LEMMA SkippedFacts ==
  ASSUME NEW c \in Commands, NEW i \in 1 .. Len(Targets(c)) + 1
  PROVE  /\ Skipped(c, i).next \in i .. Len(Targets(c)) + 1
         /\ Skipped(c, i).next <= Len(Targets(c)) =>
              Targets(c)[Skipped(c, i).next] \in HasScripts /\ c \notin Production
         /\ Skipped(c, i).decisions \in Seq({"handoff", "skipped"})
         /\ Len(Skipped(c, i).decisions) = Skipped(c, i).next - i
<1> DEFINE n == Len(Targets(c))
           needs(j) == Targets(c)[j] \in HasScripts /\ c \notin Production
           good(j) == /\ j > n \/ needs(j)
                      /\ \A l \in i .. j - 1 : ~needs(l)
           next == CHOOSE j \in i .. n + 1 : good(j)
           S == {j \in i .. n + 1 : j > n \/ needs(j)}
           d == [l \in 1 .. next - i |->
                  IF Targets(c)[i + l - 1] \in HasScripts THEN "handoff" ELSE "skipped"]
<1>1. n \in Nat
  BY TargetsFacts
<1> HIDE DEF n, needs
<1>2. S \in SUBSET Nat /\ n + 1 \in S
  BY <1>1 DEF n
<1>3. PICK p \in S : \A q \in S : p <= q
  BY <1>2, LeastExists
<1>4. p \in i .. n + 1 /\ good(p)
  <2>1. p \in i .. n + 1 /\ (p > n \/ needs(p))
    BY <1>3
  <2>2. ASSUME NEW l \in i .. p - 1 PROVE ~needs(l)
    <3> SUFFICES ASSUME needs(l) PROVE FALSE
      OBVIOUS
    <3>1. l \in S
      BY <2>1, <1>1 DEF n
    <3> QED BY <3>1, <1>3, <1>1, <2>1
  <2> QED BY <2>1, <2>2
<1>5. next \in i .. n + 1 /\ good(next)
  <2> HIDE DEF good
  <2> QED BY <1>4
<1> HIDE DEF next, good
<1>6. Skipped(c, i) = [next |-> next, decisions |-> d]
  BY DEF Skipped, next, good, needs, n
<1>7. next - i \in Nat
  BY <1>5, <1>1 DEF n
<1>8. d \in Seq({"handoff", "skipped"}) /\ Len(d) = next - i
  BY <1>7
<1>9. next <= n => needs(next)
  BY <1>5, <1>1 DEF good
<1> QED BY <1>5, <1>6, <1>8, <1>9 DEF n, needs

\* The command when it is through with the targets before i.
LEMMA OnwardFacts ==
  ASSUME NEW c \in Commands, NEW i \in 1 .. Len(Targets(c)) + 1,
         NEW ds \in Seq(Outcomes), Len(ds) = i - 1
  PROVE  LET r == Onward(c, i, ds) IN
         /\ RunOK(c, r) /\ r.pc \in {"done", "reap"} /\ r.session = 0 /\ r.port = 0
         /\ r.met = Nobody /\ r.script = 0 /\ r.sent = 0
         /\ \A l \in 1 .. Len(r.decisions) :
              r.decisions[l] = "executed" => l \in 1 .. Len(ds) /\ ds[l] = "executed"
<1> DEFINE s == Skipped(c, i)
           n == Len(Targets(c))
           all == ds \o s.decisions
           r == Onward(c, i, ds)
<1>1. /\ s.next \in i .. n + 1
      /\ s.next <= n => Targets(c)[s.next] \in HasScripts /\ c \notin Production
      /\ s.decisions \in Seq({"handoff", "skipped"}) /\ Len(s.decisions) = s.next - i
  BY SkippedFacts
<1>2. n \in Nat
  BY TargetsFacts
<1> HIDE DEF s
<1>3. s.decisions \in Seq(Outcomes)
  BY <1>1 DEF Outcomes
<1>4. /\ all \in Seq(Outcomes) /\ Len(all) = Len(ds) + Len(s.decisions)
      /\ \A l \in 1 .. Len(ds) + Len(s.decisions) :
           all[l] = IF l <= Len(ds) THEN ds[l] ELSE s.decisions[l - Len(ds)]
  BY <1>3, ConcatProperties
<1>5. Len(all) = s.next - 1
  BY <1>1, <1>2, <1>4
<1> HIDE DEF all
<1>6. r = [NoRun EXCEPT !.at = s.next, !.decisions = all,
             !.pc = IF s.next > n THEN "done" ELSE "reap"]
  BY DEF Onward, s, all
<1>7. /\ r.at = s.next /\ r.decisions = all /\ r.pc = (IF s.next > n THEN "done" ELSE "reap")
      /\ r.script = 0 /\ r.session = 0 /\ r.port = 0 /\ r.met = Nobody /\ r.failed = FALSE
      /\ r.sent = 0
  BY <1>6 DEF NoRun
<1>8. r \in Run
  <2>1. s.next \in Nat /\ (IF s.next > n THEN "done" ELSE "reap") \in Steps \cup Final
    BY <1>1, <1>2 DEF Steps, Final
  <2>2. NoRun \in Run
    BY DEF NoRun, Run, Final, Outcomes
  <2> QED BY <2>1, <2>2, <1>4, <1>6 DEF Run
<1> HIDE DEF r
<1>9. RunOK(c, r)
  <2>1. CASE s.next > n
    BY <1>1, <1>2, <1>5, <1>7, <1>8, <2>1 DEF RunOK, Users, Before
  <2>2. CASE s.next <= n
    <3>1. Len(ScriptsOf(c, r)) \in Nat
      BY DEF ScriptsOf, OrderedScripts, SCRIPT_RUN_ORDER
    <3> QED BY <1>1, <1>2, <1>5, <1>7, <1>8, <2>2, <3>1 DEF RunOK, Users, Before
  <2> QED BY <2>1, <2>2, <1>1, <1>2
<1>10. ASSUME NEW l \in 1 .. Len(r.decisions), r.decisions[l] = "executed"
       PROVE  l \in 1 .. Len(ds) /\ ds[l] = "executed"
  <2>1. CASE l <= Len(ds)
    BY <2>1, <1>4, <1>7, <1>10
  <2>2. CASE l > Len(ds)
    <3>1. l - Len(ds) \in 1 .. Len(s.decisions)
      BY <2>2, <1>4, <1>7, <1>10, <1>3
    <3>2. s.decisions[l - Len(ds)] \in {"handoff", "skipped"}
      BY <3>1, <1>1
    <3>3. all[l] = s.decisions[l - Len(ds)]
      <4>1. l \in 1 .. Len(ds) + Len(s.decisions) /\ ~(l <= Len(ds))
        BY <2>2, <1>4, <1>7, <1>10
      <4> QED BY <4>1, <1>4
    <3> QED BY <3>2, <3>3, <1>7, <1>10
  <2> QED BY <2>1, <2>2
<1> QED BY <1>7, <1>9, <1>10 DEF r

-----------------------------------------------------------------------------
(* The scripts *)

\* What the statements of a script do, as a set, and whether a user has it.
Did(k) == {Statements(k)[i] : i \in 1 .. Len(Statements(k))}
Given(u, x) == IF x = "account" THEN u.exists /\ u.open ELSE x \in u.grants
Required(t) == {"account"} \cup (Grants \ (IF t \in WantsSafe THEN {} ELSE {"auditing"}))

\* The statements of a script are grants, or the one that makes the account.
LEMMA StatementsFacts ==
  ASSUME NEW k \in 1 .. 6
  PROVE  /\ Len(Statements(k)) \in Nat
         /\ \A i \in 1 .. Len(Statements(k)) : Statements(k)[i] \in Grants \cup {"account"}
<1>1. CASE k = 1
  BY <1>1 DEF Statements, Grants
<1>2. CASE k = 2
  BY <1>2 DEF Statements, Grants
<1>3. CASE k = 3
  BY <1>3 DEF Statements, Grants
<1>4. CASE k = 4
  BY <1>4 DEF Statements, Grants
<1>5. CASE k = 5
  BY <1>5 DEF Statements, Grants
<1>6. CASE k = 6
  BY <1>6 DEF Statements, Grants
<1> QED BY <1>1, <1>2, <1>3, <1>4, <1>5, <1>6

\* A script takes nothing away, wherever it breaks off.
LEMMA ApplyKeeps ==
  ASSUME NEW u \in User, NEW k \in 1 .. 6, NEW n \in 0 .. Len(Statements(k))
  PROVE  Apply(u, k, n) \in User /\ \A x : Given(u, x) => Given(Apply(u, k, n), x)
<1> DEFINE done == {Statements(k)[i] : i \in 1 .. n}
<1>1. done \subseteq Grants \cup {"account"}
  <2> SUFFICES ASSUME NEW i \in 1 .. n PROVE Statements(k)[i] \in Grants \cup {"account"}
    OBVIOUS
  <2>1. i \in 1 .. Len(Statements(k))
    BY StatementsFacts
  <2> QED BY <2>1, StatementsFacts
<1> HIDE DEF done
<1>2. Apply(u, k, n) = [exists |-> u.exists \/ "account" \in done, open |-> u.open \/ "account" \in done,
                        grants |-> u.grants \cup (done \ {"account"})]
  BY DEF Apply, done
<1> QED BY <1>1, <1>2 DEF User, Given

\* All of a script does what the script is for.
LEMMA ApplyDoes ==
  ASSUME NEW u \in User, NEW k \in 1 .. 6, NEW x \in Did(k)
  PROVE  Given(Apply(u, k, Len(Statements(k))), x)
<1> DEFINE done == {Statements(k)[i] : i \in 1 .. Len(Statements(k))}
           exists == u.exists \/ "account" \in done
           open == u.open \/ "account" \in done
           all == u.grants \cup (done \ {"account"})
<1>1. x \in done
  BY DEF Did
<1>2. Apply(u, k, Len(Statements(k))) = [exists |-> exists, open |-> open, grants |-> all]
  BY DEF Apply
<1>3. (x = "account" => exists /\ open) /\ (x # "account" => x \in all)
  BY <1>1
<1> HIDE DEF exists, open, all
<1>4. /\ Apply(u, k, Len(Statements(k))).exists = exists /\ Apply(u, k, Len(Statements(k))).open = open
      /\ Apply(u, k, Len(Statements(k))).grants = all
  BY <1>2
<1> QED BY <1>3, <1>4 DEF Given

\* The scripts of a target between them do all that is required of them.
LEMMA ScriptsFacts ==
  ASSUME NEW t \in HasScripts
  PROVE  /\ OrderedScripts(t) \in Seq(1 .. 6) /\ Len(OrderedScripts(t)) \in 5 .. 6
         /\ \A x \in Required(t) : \E j \in 1 .. Len(OrderedScripts(t)) : x \in Did(OrderedScripts(t)[j])
<1>1. /\ "account" \in Did(1)
      /\ {"create_session", "select_any_dictionary", "select_catalog_role"} \subseteq Did(2)
      /\ {"performance_hub", "tuning_sets"} \subseteq Did(3)
      /\ "awr" \in Did(5) /\ "auditing" \in Did(6)
  <2>1. "account" \in Did(1)
    BY DEF Did, Statements
  <2>2. {"create_session", "select_any_dictionary", "select_catalog_role"} \subseteq Did(2)
    BY DEF Did, Statements
  <2>3. {"performance_hub", "tuning_sets"} \subseteq Did(3)
    BY DEF Did, Statements
  <2>4. "awr" \in Did(5)
    BY DEF Did, Statements
  <2>5. "auditing" \in Did(6)
    BY DEF Did, Statements
  <2> QED BY <2>1, <2>2, <2>3, <2>4, <2>5
<1>2. CASE t \in WantsSafe
  <2>1. OrderedScripts(t) = <<1, 2, 3, 5, 6, 4>>
    BY <1>2 DEF OrderedScripts, SCRIPT_RUN_ORDER
  <2> QED BY <1>1, <1>2, <2>1 DEF Required, Grants
<1>3. CASE t \notin WantsSafe
  <2>1. OrderedScripts(t) = <<1, 2, 3, 5, 4>>
    BY <1>3 DEF OrderedScripts
  <2> QED BY <1>1, <1>3, <2>1 DEF Required, Grants
<1> QED BY <1>2, <1>3

-----------------------------------------------------------------------------
(* The steps of a command *)

\* What the lemmas about a step of c may take for granted.
LEMMA AtStep ==
  ASSUME IInv, NEW c \in Commands
  PROVE  /\ RunOK(c, run[c]) /\ run[c] \in Run /\ run \in [Commands -> Run]
         /\ run[c].session <= issued /\ issued \in Nat
         /\ run[c].pc # "done" =>
              /\ run[c].at \in 1 .. Len(Targets(c)) /\ Target(c) \in HasScripts
              /\ Scripts(c) = ScriptsOf(c, run[c]) /\ Len(Scripts(c)) \in 5 .. 6
              /\ Scripts(c) \in Seq(1 .. 6)
<1>1. RunOK(c, run[c]) /\ run \in [Commands -> Run] /\ run[c].session <= issued /\ issued \in Nat
  BY DEF IInv, Types, SessionsOK
<1>2. ASSUME run[c].pc # "done"
      PROVE  run[c].at \in 1 .. Len(Targets(c)) /\ Target(c) \in HasScripts
  BY <1>1, <1>2 DEF RunOK, Target
<1> QED BY <1>1, <1>2, ScriptsFacts DEF Scripts, ScriptsOf, Target

\* A step that only moves c on.
Moved(c, pc) ==
  /\ run' = [run EXCEPT ![c] = run'[c]] /\ run'[c] \in Run /\ run'[c].pc = pc
  /\ run'[c].at = run[c].at /\ run'[c].sent = run[c].sent
  /\ run'[c].script = run[c].script /\ run'[c].session = run[c].session
  /\ run'[c].port = run[c].port /\ run'[c].met = run[c].met /\ run'[c].failed = run[c].failed
  /\ run'[c].decisions = run[c].decisions

\* Goto changes where the command is and nothing else of it.
LEMMA GotoMoves ==
  ASSUME IInv, NEW c \in Commands, NEW pc \in Steps \cup Final, Goto(c, pc)
  PROVE  Moved(c, pc)
<1>1. run[c] \in Run /\ run' = [run EXCEPT ![c] = [run[c] EXCEPT !.pc = pc]] /\ run \in [Commands -> Run]
  BY AtStep DEF Goto
<1>2. run'[c] = [run[c] EXCEPT !.pc = pc]
  BY <1>1
<1> QED BY <1>1, <1>2 DEF Moved, Run

\* A step of c and what it makes of it: who stays, who goes on.
Advances(c) ==
  /\ run' \in [Commands -> Run] /\ \A d \in Commands : d # c => run'[d] = run[d]
  /\ RunOK(c, run'[c])
  /\ run'[c].session <= issued

\* A move that keeps RunOK is a step as Advances wants it.
LEMMA MovedAdvances ==
  ASSUME IInv, NEW c \in Commands, NEW pc \in Steps \cup Final, Moved(c, pc), RunOK(c, run'[c])
  PROVE  Advances(c)
BY AtStep DEF Moved, Advances

\* The moves of the command that change nothing else keep what is true of it.
LEMMA GotoRun ==
  ASSUME IInv, NEW c \in Commands, NEW pc, Goto(c, pc),
         \/ run[c].pc = "reap" /\ pc = "create"
         \/ run[c].pc = "create" /\ pc = "resolve"
         \/ run[c].pc = "forward" /\ pc = "wait"
         \/ run[c].pc = "wait" /\ pc = "script"
         \/ run[c].pc = "clean" /\ pc = "teardown"
         \/ run[c].pc \notin Final /\ pc = "killed"
  PROVE  Moved(c, pc) /\ Advances(c)
<1>1. pc \in Steps \cup Final /\ run[c].pc # "done"
  BY DEF Steps, Final
<1>2. Moved(c, pc)
  BY <1>1, GotoMoves
<1>3. RunOK(c, run[c]) /\ Len(ScriptsOf(c, run[c])) \in 5 .. 6
  BY <1>1, AtStep
<1>4. ScriptsOf(c, run'[c]) = ScriptsOf(c, run[c])
  BY <1>2 DEF Moved, ScriptsOf
<1>5. RunOK(c, run'[c])
  <2> DEFINE r == run[c]
             q == run'[c]
             n == Len(ScriptsOf(c, r))
  <2>1. /\ q \in Run /\ q.pc = pc /\ q.at = r.at /\ q.sent = r.sent /\ q.script = r.script
        /\ q.port = r.port
        /\ q.met = r.met /\ q.failed = r.failed /\ q.decisions = r.decisions
        /\ ScriptsOf(c, q) = ScriptsOf(c, r)
    BY <1>2, <1>4 DEF Moved
  <2>2. /\ r.at \in 1 .. Len(Targets(c)) /\ Targets(c)[r.at] \in HasScripts /\ c \notin Production
        /\ Len(r.decisions) = r.at - 1 /\ r.script <= n /\ n \in 5 .. 6
    BY <1>1, <1>3 DEF RunOK
  <2>3. pc \in {"create", "resolve", "wait", "script", "teardown", "killed"}
    OBVIOUS
  <2>4. pc \in {"create", "resolve", "wait", "script"} =>
            r.sent = 0 /\ r.script = 0 /\ ~r.failed /\ r.met = Nobody
    BY <1>3 DEF RunOK, Before
  <2>5. pc \in {"create", "resolve"} => r.port = 0
    BY <1>3 DEF RunOK, Before
  <2>6. pc \in {"wait", "script", "teardown"} => r.port \in Ports
    BY <1>3 DEF RunOK, Users
  <2>7. (pc = "teardown" /\ ~r.failed => r.script = n) /\ (r.script # 0 => r.met # Nobody)
    BY <1>3 DEF RunOK
  <2> HIDE DEF r, q, n
  <2>8. RunOK(c, q) <=>
          /\ q \in Run
          /\ q.pc = "done" => Len(q.decisions) = Len(Targets(c))
          /\ q.pc # "done" =>
               /\ q.at \in 1 .. Len(Targets(c)) /\ Targets(c)[q.at] \in HasScripts /\ c \notin Production
               /\ Len(q.decisions) = q.at - 1 /\ q.script <= n
          /\ q.pc \in Before \cup {"forward", "wait"} =>
               q.sent = 0 /\ q.script = 0 /\ ~q.failed /\ q.met = Nobody
          /\ q.pc \in Before => q.port = 0
          /\ q.pc \in Users \ {"port"} => q.port \in Ports
          /\ q.pc \in {"script", "sqlplus"} => q.script < n
          /\ q.pc = "script" => q.sent = q.script
          /\ q.pc = "sqlplus" => q.sent = q.script + 1 /\ q.met # Nobody
          /\ q.script # 0 => q.met # Nobody
          /\ q.pc \in {"clean", "teardown"} /\ ~q.failed => q.script = n
    BY <2>1 DEF RunOK, n
  <2>9. RunOK(c, q)
    BY <2>1, <2>2, <2>3, <2>4, <2>5, <2>6, <2>7, <2>8 DEF Before, Users
  <2> QED BY <2>9 DEF q
<1> QED BY <1>1, <1>2, <1>5, MovedAdvances

\* The end of a target: what the decisions are then.
Settles(c, failed) ==
  /\ run'[c].pc \in {"done", "reap"} /\ run'[c].session = 0 /\ run'[c].port = 0
  /\ run'[c].met = Nobody /\ run'[c].script = 0 /\ run'[c].sent = 0
  /\ \A l \in 1 .. Len(run'[c].decisions) :
       run'[c].decisions[l] = "executed" =>
         \/ l \in 1 .. run[c].at - 1 /\ run[c].decisions[l] = "executed"
         \/ l = run[c].at /\ ~failed

\* The end of a target: its decision is appended, "failed" if the runner raised, and the next
\* target begins (db_exec.py, execute).
LEMMA DecideRun ==
  ASSUME IInv, NEW c \in Commands, NEW failed \in BOOLEAN, run[c].pc # "done", Decide(c, failed)
  PROVE  Settles(c, failed) /\ Advances(c)
<1> DEFINE i == run[c].at + 1
           last == IF failed THEN "failed" ELSE "executed"
           ds == Append(run[c].decisions, last)
<1>1. /\ run[c] \in Run /\ run \in [Commands -> Run] /\ issued \in Nat
      /\ run[c].at \in 1 .. Len(Targets(c)) /\ Len(run[c].decisions) = run[c].at - 1
      /\ run[c].decisions \in Seq(Outcomes) /\ last \in Outcomes
      /\ Len(Targets(c)) \in Nat
  BY AtStep, TargetsFacts DEF RunOK, Run, Outcomes
<1>2. /\ ds \in Seq(Outcomes) /\ Len(ds) = run[c].at
      /\ \A l \in 1 .. run[c].at - 1 : ds[l] = run[c].decisions[l]
      /\ ds[run[c].at] = last
  BY <1>1, AppendProperties
<1>3. i \in 1 .. Len(Targets(c)) + 1 /\ Len(ds) = i - 1
  BY <1>1, <1>2
<1>4. run' = [run EXCEPT ![c] = Onward(c, i, ds)]
  BY DEF Decide
<1>5. run'[c] = Onward(c, i, ds)
  BY <1>1, <1>4
<1> HIDE DEF ds, i
<1>6. /\ RunOK(c, run'[c]) /\ run'[c].pc \in {"done", "reap"} /\ run'[c].session = 0
      /\ run'[c].port = 0 /\ run'[c].met = Nobody /\ run'[c].script = 0 /\ run'[c].sent = 0
      /\ \A l \in 1 .. Len(run'[c].decisions) :
           run'[c].decisions[l] = "executed" => l \in 1 .. Len(ds) /\ ds[l] = "executed"
  BY <1>2, <1>3, <1>5, OnwardFacts
<1>7. Settles(c, failed)
  <2> SUFFICES ASSUME NEW l \in 1 .. Len(run'[c].decisions), run'[c].decisions[l] = "executed"
               PROVE  \/ l \in 1 .. run[c].at - 1 /\ run[c].decisions[l] = "executed"
                      \/ l = run[c].at /\ ~failed
    BY <1>6 DEF Settles
  <2>1. l \in 1 .. run[c].at /\ ds[l] = "executed"
    BY <1>2, <1>6
  <2> QED BY <2>1, <1>1, <1>2
<1>8. Advances(c)
  <2>1. run' \in [Commands -> Run] /\ \A d \in Commands : d # c => run'[d] = run[d]
    <3>1. Onward(c, i, ds) \in Run
      BY <1>5, <1>6 DEF RunOK
    <3> QED BY <3>1, <1>1, <1>4
  <2> QED BY <2>1, <1>1, <1>6 DEF Advances
<1> QED BY <1>7, <1>8

\* A target goes on.
Stays(c) ==
  /\ run'[c].at = run[c].at /\ run'[c].decisions = run[c].decisions

\* The command has a session to go through.
LEMMA ResolveRun ==
  ASSUME IInv, NEW c \in Commands, run[c].pc = "resolve", NEW id \in 0 .. issued,
         run' = [run EXCEPT ![c].pc = "port", ![c].session = id]
  PROVE  /\ Advances(c) /\ Stays(c) /\ run'[c].pc = "port" /\ run'[c].session = id
         /\ run'[c].port = 0 /\ run'[c].script = 0 /\ run'[c].met = Nobody
<1> DEFINE q == [run[c] EXCEPT !.pc = "port", !.session = id]
<1>1. run[c] \in Run /\ run \in [Commands -> Run] /\ RunOK(c, run[c]) /\ issued \in Nat
  BY AtStep
<1>6. id \in Nat /\ id <= issued
  BY <1>1
<1>2. run'[c] = q /\ run' = [run EXCEPT ![c] = q]
  BY <1>1
<1>3. /\ q \in Run /\ q.pc = "port" /\ q.session = id /\ q.at = run[c].at /\ q.script = run[c].script
      /\ q.sent = run[c].sent
      /\ q.port = run[c].port /\ q.met = run[c].met /\ q.failed = run[c].failed
      /\ q.decisions = run[c].decisions
  BY <1>1, <1>6 DEF Run, Steps
<1>4. ScriptsOf(c, q) = ScriptsOf(c, run[c])
  BY <1>3 DEF ScriptsOf
<1> HIDE DEF q
<1>5. RunOK(c, q) /\ q.port = 0 /\ q.script = 0 /\ q.met = Nobody
  BY <1>1, <1>3, <1>4 DEF RunOK, Before, Users
<1> QED BY <1>1, <1>2, <1>3, <1>5, <1>6 DEF Advances, Stays

\* The command has drawn its port.
LEMMA PortRun ==
  ASSUME IInv, NEW c \in Commands, run[c].pc = "port", NEW port \in Ports,
         run' = [run EXCEPT ![c].pc = "forward", ![c].port = port]
  PROVE  /\ Advances(c) /\ Stays(c) /\ run'[c].pc = "forward" /\ run'[c].session = run[c].session
         /\ run'[c].port = port /\ run'[c].script = 0 /\ run'[c].met = Nobody
<1> DEFINE q == [run[c] EXCEPT !.pc = "forward", !.port = port]
<1>1. /\ run[c] \in Run /\ run \in [Commands -> Run] /\ RunOK(c, run[c])
      /\ issued \in Nat /\ run[c].session <= issued
  BY AtStep
<1>6. port \in Nat
  BY DbExecAssumption
<1>2. run'[c] = q /\ run' = [run EXCEPT ![c] = q]
  BY <1>1
<1>3. /\ q \in Run /\ q.pc = "forward" /\ q.session = run[c].session /\ q.at = run[c].at
      /\ q.sent = run[c].sent /\ q.script = run[c].script /\ q.port = port /\ q.met = run[c].met
      /\ q.failed = run[c].failed /\ q.decisions = run[c].decisions
  BY <1>1, <1>6 DEF Run, Steps
<1>4. ScriptsOf(c, q) = ScriptsOf(c, run[c])
  BY <1>3 DEF ScriptsOf
<1> HIDE DEF q
<1>5. RunOK(c, q) /\ q.script = 0 /\ q.met = Nobody
  BY <1>1, <1>3, <1>4 DEF RunOK, Before, Users
<1> QED BY <1>1, <1>2, <1>3, <1>5 DEF Advances, Stays

\* The command after a step of its work on the host.
At(c, pc, sent, script, met, failed) ==
  [run[c] EXCEPT !.pc = pc, !.sent = sent, !.script = script, !.met = met, !.failed = failed]

\* Such a step.
Works(c, pc, sent, script, met, failed) ==
  /\ run' = [run EXCEPT ![c] = At(c, pc, sent, script, met, failed)]
  /\ run[c].pc \in {"wait", "script", "sqlplus", "clean"}
  /\ pc \in {"script", "sqlplus", "clean", "teardown"} /\ sent \in Nat /\ script \in Nat
  /\ met \in Hosts \cup {Nobody} /\ failed \in BOOLEAN /\ script <= Len(Scripts(c))
  /\ pc \in {"script", "sqlplus"} => script < Len(Scripts(c))
  /\ pc = "script" => sent = script
  /\ pc = "sqlplus" => sent = script + 1 /\ met # Nobody
  /\ script # 0 => met # Nobody
  /\ pc \in {"clean", "teardown"} /\ ~failed => script = Len(Scripts(c))

\* The steps on the host keep the target, the session and the port.
LEMMA WorkRun ==
  ASSUME IInv, NEW c \in Commands, NEW pc, NEW sent, NEW script, NEW met, NEW failed,
         Works(c, pc, sent, script, met, failed)
  PROVE  /\ Advances(c) /\ Stays(c) /\ run'[c].pc = pc /\ run'[c].session = run[c].session
         /\ run'[c].port = run[c].port /\ run'[c].sent = sent /\ run'[c].script = script
         /\ run'[c].met = met /\ run'[c].failed = failed
<1> DEFINE q == At(c, pc, sent, script, met, failed)
<1>1. /\ run[c] \in Run /\ run \in [Commands -> Run] /\ RunOK(c, run[c])
      /\ issued \in Nat /\ run[c].session <= issued /\ Scripts(c) = ScriptsOf(c, run[c])
  BY AtStep DEF Works
<1>2. run'[c] = q /\ run' = [run EXCEPT ![c] = q]
  BY <1>1 DEF Works
<1>3. /\ q \in Run /\ q.pc = pc /\ q.session = run[c].session /\ q.at = run[c].at
      /\ q.sent = sent /\ q.script = script /\ q.port = run[c].port /\ q.met = met
      /\ q.failed = failed /\ q.decisions = run[c].decisions
  BY <1>1 DEF At, Run, Steps, Works
<1>4. ScriptsOf(c, q) = Scripts(c)
  BY <1>1, <1>3 DEF ScriptsOf
<1> HIDE DEF q
<1>5. RunOK(c, q)
  <2>1. /\ run[c].at \in 1 .. Len(Targets(c)) /\ Targets(c)[run[c].at] \in HasScripts
        /\ c \notin Production /\ Len(run[c].decisions) = run[c].at - 1 /\ run[c].port \in Ports
    BY <1>1 DEF RunOK, Users, Works
  <2> QED BY <1>3, <1>4, <2>1 DEF RunOK, Before, Users, Works
<1> QED BY <1>1, <1>2, <1>3, <1>5 DEF Advances, Stays

\* Where a command at work stands.
LEMMA AtWork ==
  ASSUME IInv, NEW c \in Commands, run[c].pc \in {"wait", "script", "sqlplus", "clean"}
  PROVE  /\ run[c] \in Run /\ run \in [Commands -> Run] /\ RunOK(c, run[c])
         /\ run[c].sent \in Nat /\ run[c].script \in Nat /\ run[c].met \in Hosts \cup {Nobody}
         /\ run[c].failed \in BOOLEAN /\ Len(Scripts(c)) \in Nat /\ run[c].script <= Len(Scripts(c))
         /\ Scripts(c) = ScriptsOf(c, run[c])
BY AtStep DEF RunOK, Run

\* A tunnel or a script that fails: on to the clean-up.
LEMMA BreaksRun ==
  ASSUME IInv, NEW c \in Commands, run[c].pc \in {"wait", "sqlplus"}, Breaks(c)
  PROVE  /\ Advances(c) /\ Stays(c) /\ run'[c].pc = "clean" /\ run'[c].session = run[c].session
         /\ run'[c].port = run[c].port /\ run'[c].sent = run[c].sent
         /\ run'[c].script = run[c].script /\ run'[c].met = run[c].met
<1>0. PICK yes \in BOOLEAN : yes = TRUE
  OBVIOUS
<1>1. /\ run[c] \in Run /\ run \in [Commands -> Run] /\ RunOK(c, run[c]) /\ run[c].sent \in Nat
      /\ run[c].script \in Nat /\ run[c].met \in Hosts \cup {Nobody} /\ run[c].script <= Len(Scripts(c))
  BY AtWork
<1>2. [run[c] EXCEPT !.pc = "clean", !.failed = TRUE]
        = At(c, "clean", run[c].sent, run[c].script, run[c].met, yes)
  BY <1>0, <1>1 DEF Run, At
<1>3. run' = [run EXCEPT ![c] = At(c, "clean", run[c].sent, run[c].script, run[c].met, yes)]
  BY <1>0, <1>1, <1>2 DEF Breaks
<1>4. run[c].script # 0 => run[c].met # Nobody
  BY <1>0, <1>1 DEF RunOK
<1>5. Works(c, "clean", run[c].sent, run[c].script, run[c].met, yes)
  BY <1>0, <1>1, <1>3, <1>4 DEF Works
<1> QED BY <1>5, WorkRun

\* What becomes of a command when its script is copied, when it is not, when there is no
\* way to the host, and after the clean-up.
Copied(c, h) == run' = [run EXCEPT ![c].pc = "sqlplus", ![c].sent = @ + 1, ![c].met = h]
NotCopied(c, h) ==
  run' = [run EXCEPT ![c].pc = "clean", ![c].sent = @ + 1, ![c].met = h, ![c].failed = TRUE]
Nowhere(c) == run' = [run EXCEPT ![c].pc = "clean", ![c].sent = @ + 1, ![c].failed = TRUE]
Cleaned(c, h) == run' = [run EXCEPT ![c].pc = "teardown", ![c].met = h]

\* A script is copied.
LEMMA CopiedRun ==
  ASSUME IInv, NEW c \in Commands, run[c].pc = "script", NEW h \in Hosts, Copied(c, h)
  PROVE  /\ Advances(c) /\ Stays(c) /\ run'[c].pc = "sqlplus" /\ run'[c].session = run[c].session
         /\ run'[c].port = run[c].port /\ run'[c].sent = run[c].sent + 1
         /\ run'[c].script = run[c].script /\ run'[c].met = h
<1>1. /\ run[c] \in Run /\ run \in [Commands -> Run] /\ RunOK(c, run[c]) /\ run[c].sent \in Nat
      /\ run[c].script \in Nat /\ run[c].failed \in BOOLEAN
      /\ run[c].script <= Len(Scripts(c)) /\ Scripts(c) = ScriptsOf(c, run[c])
  BY AtWork
<1>2. run[c].script < Len(Scripts(c)) /\ run[c].sent = run[c].script /\ h # Nobody
  BY <1>1, TargetsFacts DEF RunOK
<1>3. [run[c] EXCEPT !.pc = "sqlplus", !.sent = run[c].sent + 1, !.met = h]
        = At(c, "sqlplus", run[c].sent + 1, run[c].script, h, run[c].failed)
  BY <1>1 DEF Run, At
<1>4. run' = [run EXCEPT ![c] = At(c, "sqlplus", run[c].sent + 1, run[c].script, h, run[c].failed)]
  BY <1>1, <1>3 DEF Copied
<1>5. Works(c, "sqlplus", run[c].sent + 1, run[c].script, h, run[c].failed)
  BY <1>1, <1>2, <1>4 DEF Works
<1> QED BY <1>5, WorkRun

\* A script could not be copied.
LEMMA NotCopiedRun ==
  ASSUME IInv, NEW c \in Commands, run[c].pc = "script", NEW h \in Hosts \cup {Nobody},
         h = Nobody => run[c].met = Nobody, NotCopied(c, h)
  PROVE  /\ Advances(c) /\ Stays(c) /\ run'[c].pc = "clean" /\ run'[c].session = run[c].session
         /\ run'[c].port = run[c].port /\ run'[c].sent = run[c].sent + 1
         /\ run'[c].script = run[c].script /\ run'[c].met = h
<1>0. PICK yes \in BOOLEAN : yes = TRUE
  OBVIOUS
<1>1. /\ run[c] \in Run /\ run \in [Commands -> Run] /\ RunOK(c, run[c]) /\ run[c].sent \in Nat
      /\ run[c].script \in Nat /\ run[c].script <= Len(Scripts(c))
  BY AtWork
<1>2. run[c].script # 0 => h # Nobody
  BY <1>0, <1>1 DEF RunOK
<1>3. [run[c] EXCEPT !.pc = "clean", !.sent = run[c].sent + 1, !.met = h, !.failed = TRUE]
        = At(c, "clean", run[c].sent + 1, run[c].script, h, yes)
  BY <1>0, <1>1 DEF Run, At
<1>4. run' = [run EXCEPT ![c] = At(c, "clean", run[c].sent + 1, run[c].script, h, yes)]
  BY <1>0, <1>1, <1>3 DEF NotCopied
<1>5. Works(c, "clean", run[c].sent + 1, run[c].script, h, yes)
  BY <1>0, <1>1, <1>2, <1>4 DEF Works
<1> QED BY <1>5, WorkRun

\* Without a way to the host, the host the command has met stays as it was.
LEMMA NowhereRun ==
  ASSUME IInv, NEW c \in Commands, run[c].pc = "script", Nowhere(c)
  PROVE  NotCopied(c, run[c].met) /\ run[c].met \in Hosts \cup {Nobody}
<1>1. run[c] \in Run /\ run \in [Commands -> Run] /\ run[c].met \in Hosts \cup {Nobody}
  BY AtWork
<1>2. [run[c] EXCEPT !.pc = "clean", !.sent = run[c].sent + 1, !.failed = TRUE]
        = [run[c] EXCEPT !.pc = "clean", !.sent = run[c].sent + 1, !.met = run[c].met, !.failed = TRUE]
  BY <1>1 DEF Run
<1>3. run' = [run EXCEPT ![c] = [run[c] EXCEPT !.pc = "clean", !.sent = run[c].sent + 1, !.failed = TRUE]]
  BY <1>1 DEF Nowhere
<1>4. run' = [run EXCEPT ![c] = [run[c] EXCEPT !.pc = "clean", !.sent = run[c].sent + 1,
                                               !.met = run[c].met, !.failed = TRUE]]
  BY <1>2, <1>3
<1> QED BY <1>1, <1>4 DEF NotCopied

\* A script is through.
LEMMA ThroughRun ==
  ASSUME IInv, NEW c \in Commands, run[c].pc = "sqlplus", Through(c)
  PROVE  /\ Advances(c) /\ Stays(c) /\ run'[c].pc \in {"script", "clean"}
         /\ run'[c].session = run[c].session /\ run'[c].port = run[c].port
         /\ run'[c].sent = run[c].sent /\ run'[c].script = run[c].script + 1
         /\ run'[c].met = run[c].met
<1> DEFINE n == Len(Scripts(c))
           k == run[c].script + 1
           pc == IF k = n THEN "clean" ELSE "script"
<1>1. /\ run[c] \in Run /\ run \in [Commands -> Run] /\ RunOK(c, run[c]) /\ run[c].sent \in Nat
      /\ run[c].script \in Nat /\ run[c].met \in Hosts \cup {Nobody} /\ run[c].failed \in BOOLEAN
      /\ n \in Nat /\ Scripts(c) = ScriptsOf(c, run[c])
  BY AtWork
<1>2. k \in Nat /\ k <= n /\ run[c].sent = k /\ run[c].met # Nobody
  BY <1>1 DEF RunOK
<1>3. run' = [run EXCEPT ![c].script = k, ![c].pc = pc]
  BY <1>1 DEF Through
<1>4. [run[c] EXCEPT !.script = k, !.pc = pc]
        = At(c, pc, run[c].sent, k, run[c].met, run[c].failed)
  BY <1>1, <1>2 DEF Run, At
<1> HIDE DEF k
<1>5. run' = [run EXCEPT ![c] = At(c, pc, run[c].sent, k, run[c].met, run[c].failed)]
  BY <1>1, <1>3, <1>4
<1>6. pc \in {"script", "clean"} /\ (pc = "script" => k < n) /\ (pc = "clean" => k = n)
  BY <1>1, <1>2
<1> HIDE DEF pc, n
<1>7. /\ pc \in {"script", "sqlplus"} => k < Len(Scripts(c))
      /\ pc \in {"clean", "teardown"} /\ ~run[c].failed => k = Len(Scripts(c))
      /\ k <= Len(Scripts(c))
  BY <1>2, <1>6 DEF n
<1>8. /\ Advances(c) /\ Stays(c) /\ run'[c].pc = pc
      /\ run'[c].session = run[c].session /\ run'[c].port = run[c].port
      /\ run'[c].sent = run[c].sent /\ run'[c].script = k /\ run'[c].met = run[c].met
  <2>1. Works(c, pc, run[c].sent, k, run[c].met, run[c].failed)
    BY <1>1, <1>2, <1>5, <1>6, <1>7 DEF Works
  <2> QED BY <2>1, WorkRun
<1> QED BY <1>6, <1>8 DEF k

\* After the clean-up, on a host or without one.
LEMMA CleanedRun ==
  ASSUME IInv, NEW c \in Commands, run[c].pc = "clean", NEW h \in Hosts \cup {Nobody},
         h = Nobody => run[c].met = Nobody, Cleaned(c, h)
  PROVE  /\ Advances(c) /\ Stays(c) /\ run'[c].pc = "teardown" /\ run'[c].session = run[c].session
         /\ run'[c].port = run[c].port /\ run'[c].sent = run[c].sent
         /\ run'[c].script = run[c].script /\ run'[c].met = h
<1>1. /\ run[c] \in Run /\ run \in [Commands -> Run] /\ RunOK(c, run[c]) /\ run[c].sent \in Nat
      /\ run[c].script \in Nat /\ run[c].failed \in BOOLEAN /\ run[c].script <= Len(Scripts(c))
      /\ Scripts(c) = ScriptsOf(c, run[c])
  BY AtWork
<1>2. (run[c].script # 0 => h # Nobody) /\ (~run[c].failed => run[c].script = Len(Scripts(c)))
  BY <1>1 DEF RunOK
<1>3. [run[c] EXCEPT !.pc = "teardown", !.met = h]
        = At(c, "teardown", run[c].sent, run[c].script, h, run[c].failed)
  BY <1>1 DEF Run, At
<1>4. run' = [run EXCEPT ![c] = At(c, "teardown", run[c].sent, run[c].script, h, run[c].failed)]
  BY <1>1, <1>3 DEF Cleaned
<1>5. Works(c, "teardown", run[c].sent, run[c].script, h, run[c].failed)
  BY <1>1, <1>2, <1>4 DEF Works
<1> QED BY <1>5, WorkRun

-----------------------------------------------------------------------------
(* What a step of a command does to everything else *)

\* The sessions of a step of c: some are deleted, or one is created.
Grows(c) ==
  \/ issued' = issued /\ sessions' \subseteq sessions
  \/ run[c].pc = "create" /\ issued' = issued + 1 /\ sessions' = sessions \cup {NewSession(c)}

\* No database user loses anything.
Keeps == \A h \in Hosts, n \in Containers : \A x : Given(db[h][n], x) => Given(db'[h][n], x)

\* The forward c opens: alone on its port, and a mix-up for all who go by that port.
Opened(c, f) ==
  /\ run[c].pc = "forward" /\ f = Tunnel(c) /\ Listening(run[c].port) = {}
  /\ \A d \in Rivals(c) : Mixup("port", d, c) \in mixups'

\* The file c copies.
Copies(c, u) ==
  /\ run[c].pc = "script" /\ u.by = c /\ u.host \in Reached(c) /\ u.host = run'[c].met
  /\ u.script = Current(c) /\ u \in [by : Commands, host : Hosts, script : Nat]

\* A script lies on a host.
There(h, k, files) == \E u \in files : u.host = h /\ u.script = k

\* Who has copied its script finds it there, or a mix-up is due to c.
FilesStay(c) ==
  \A d \in Commands \ {c} :
    run[d].pc = "sqlplus" /\ There(run[d].met, Current(d), uploads) =>
      There(run[d].met, Current(d), uploads') \/ Mixup("file", d, c) \in mixups'

\* All a step of c may do to the shared state.
Effects(c) ==
  /\ Advances(c) /\ now' = now /\ faults \subseteq faults' /\ Grows(c)
  /\ mixups \subseteq mixups' /\ mixups' \subseteq Confusion
  /\ \A f \in forwards' : f \in forwards \/ Opened(c, f)
  /\ \A u \in uploads' : u \in uploads \/ Copies(c, u)
  /\ FilesStay(c)
  /\ db' \in [Hosts -> [Containers -> User]] /\ Keeps

\* Faults are not forgotten.
LEMMA FaultGrows ==
  ASSUME NEW kind, Fault(kind)
  PROVE  faults \subseteq faults' /\ kind \in faults'
BY DEF Fault

\* No forward comes up because a session ends.
LEMMA AliveShrinks ==
  ASSUME NEW held, NEW open
  PROVE  Alive(held, open) \subseteq held
BY DEF Alive

\* A mix-up is one.
LEMMA MixupFacts ==
  ASSUME IInv, NEW c \in Commands, NEW d \in Commands \cup {Nobody},
         NEW kind \in {"session", "port", "file"}
  PROVE  Mixup(kind, c, d) \in Confusion
<1>1. run[c].at \in Nat
  BY AtStep DEF Run
<1> QED BY <1>1 DEF Mixup, Confusion

\* The hosts behind a port are hosts.
LEMMA ReachedHosts ==
  ASSUME IInv, NEW c \in Commands
  PROVE  Reached(c) \subseteq Hosts
<1> SUFFICES ASSUME NEW f \in forwards PROVE f.to \in Hosts
  BY DEF Reached, Listening
<1> QED BY DEF IInv, Types, Forward

\* A script is one of the six.
LEMMA ScriptHere ==
  ASSUME IInv, NEW c \in Commands, run[c].pc \in {"script", "sqlplus"}
  PROVE  /\ run[c].script + 1 \in 1 .. Len(Scripts(c)) /\ run[c].script \in Nat
         /\ Current(c) \in 1 .. 6 /\ Container(c) \in Containers
<1>1. /\ RunOK(c, run[c]) /\ run[c] \in Run /\ Len(Scripts(c)) \in 5 .. 6
      /\ Scripts(c) = ScriptsOf(c, run[c]) /\ Scripts(c) \in Seq(1 .. 6)
  BY AtStep
<1>2. run[c].script \in Nat /\ run[c].script < Len(Scripts(c))
  BY <1>1 DEF RunOK, Run
<1>3. Container(c) \in Containers
  BY DEF Container, Containers
<1>4. run[c].script + 1 \in 1 .. Len(Scripts(c))
  BY <1>1, <1>2
<1> QED BY <1>1, <1>2, <1>3, <1>4 DEF Current

\* Whatever part of a script is run, every user has what it had.
LEMMA DbStep ==
  ASSUME IInv, NEW h \in Hosts, NEW m \in Containers,
         NEW k \in 1 .. 6, NEW n \in 0 .. Len(Statements(k)),
         db' = [db EXCEPT ![h][m] = Apply(@, k, n)]
  PROVE  db' \in [Hosts -> [Containers -> User]] /\ Keeps /\ db'[h][m] = Apply(db[h][m], k, n)
<1> DEFINE u == Apply(db[h][m], k, n)
           g == [db[h] EXCEPT ![m] = u]
<1>1. db \in [Hosts -> [Containers -> User]]
  BY DEF IInv, Types
<1>2. db[h] \in [Containers -> User] /\ db[h][m] \in User
  BY <1>1
<1>3. u \in User /\ \A x : Given(db[h][m], x) => Given(u, x)
  BY <1>2, ApplyKeeps
<1>4. db' = [db EXCEPT ![h] = g]
  BY <1>1
<1> HIDE DEF u
<1>5. g \in [Containers -> User] /\ g[m] = u /\ \A x \in Containers \ {m} : g[x] = db[h][x]
  BY <1>2, <1>3
<1> HIDE DEF g
<1>6. db' \in [Hosts -> [Containers -> User]] /\ db'[h] = g /\ \A x \in Hosts \ {h} : db'[x] = db[x]
  BY <1>1, <1>4, <1>5
<1>7. Keeps
  <2> SUFFICES ASSUME NEW i \in Hosts, NEW j \in Containers, NEW x, Given(db[i][j], x)
               PROVE  Given(db'[i][j], x)
    BY DEF Keeps
  <2>1. CASE i = h /\ j = m
    BY <2>1, <1>3, <1>5, <1>6
  <2>2. CASE ~(i = h /\ j = m)
    <3>1. db'[i][j] = db[i][j]
      BY <2>2, <1>5, <1>6
    <3> QED BY <3>1
  <2> QED BY <2>1, <2>2
<1> QED BY <1>5, <1>6, <1>7 DEF u

\* A step that leaves the files, the databases and the mix-ups as they are and opens no
\* forward.
LEMMA Quietly ==
  ASSUME IInv, NEW c \in Commands, Advances(c), Grows(c), now' = now, faults \subseteq faults',
         forwards' \subseteq forwards, uploads' = uploads, db' = db, mixups' = mixups
  PROVE  Effects(c)
<1>1. db' \in [Hosts -> [Containers -> User]] /\ Keeps /\ mixups' \subseteq Confusion
  BY DEF IInv, Types, Keeps
<1>2. FilesStay(c)
  BY DEF FilesStay
<1> QED BY <1>1, <1>2 DEF Effects

\* _reap_stale_sessions: only sessions that are over go.
LEMMA ReapStep ==
  ASSUME IInv, NEW c \in Commands, Reap(c)
  PROVE  Effects(c) /\ Moved(c, "create") /\ run[c].pc = "reap" /\ forwards' = Alive(forwards, sessions')
         /\ issued' = issued /\ uploads' = uploads /\ mixups' = mixups
         /\ \A s \in sessions \ sessions' : Stale(s)
<1>1. Moved(c, "create") /\ Advances(c)
  BY GotoRun DEF Reap
<1>2. faults \subseteq faults' /\ sessions' \subseteq sessions /\ \A s \in sessions \ sessions' : Stale(s)
  BY FaultGrows DEF Reap
<1>3. now' = now /\ uploads' = uploads /\ issued' = issued /\ db' = db /\ mixups' = mixups
      /\ forwards' = Alive(forwards, sessions') /\ forwards' \subseteq forwards
  BY AliveShrinks DEF Reap
<1>4. Effects(c)
  BY <1>1, <1>2, <1>3, Quietly DEF Grows
<1> QED BY <1>1, <1>2, <1>3, <1>4 DEF Reap

\* The session is created and the command looks for it, or the target has failed.
LEMMA CreateStep ==
  ASSUME IInv, NEW c \in Commands, Create(c)
  PROVE  /\ Effects(c) /\ run[c].pc = "create" /\ forwards' = forwards /\ uploads' = uploads
         /\ mixups' = mixups
         /\ \/ Moved(c, "resolve") /\ issued' = issued + 1 /\ sessions' = sessions \cup {NewSession(c)}
            \/ Settles(c, TRUE) /\ Failed("create")'
<1>1. /\ Advances(c) /\ faults \subseteq faults' /\ Grows(c)
      /\ \/ Moved(c, "resolve") /\ issued' = issued + 1 /\ sessions' = sessions \cup {NewSession(c)}
         \/ Settles(c, TRUE) /\ Failed("create")'
  <2>1. CASE /\ sessions' = sessions \cup {NewSession(c)} /\ issued' = issued + 1
             /\ Goto(c, "resolve") /\ UNCHANGED faults
    BY <2>1, GotoRun DEF Create, Grows
  <2>2. CASE /\ Fault("create") /\ Decide(c, TRUE)
             /\ \/ sessions' = sessions \cup {NewSession(c)} /\ issued' = issued + 1
                \/ UNCHANGED <<sessions, issued>>
    <3>1. Settles(c, TRUE) /\ Advances(c)
      BY <2>2, DecideRun DEF Create
    <3>2. faults \subseteq faults' /\ Failed("create")'
      BY <2>2, FaultGrows DEF Failed
    <3> QED BY <2>2, <3>1, <3>2 DEF Create, Grows
  <2> QED BY <2>1, <2>2 DEF Create
<1>2. /\ now' = now /\ uploads' = uploads /\ forwards' = forwards /\ db' = db /\ mixups' = mixups
      /\ run[c].pc = "create"
  BY DEF Create
<1> QED BY <1>1, <1>2, Quietly

\* There is a newest one among sessions.
LEMMA NewestFacts ==
  ASSUME IInv, NEW found \in SUBSET sessions, found # {}
  PROVE  Newest(found) \in found /\ \A x \in found : x.id <= Newest(found).id
<1> DEFINE S == {issued - s.id : s \in found}
<1>1. issued \in Nat /\ \A s \in found : s.id \in 1 .. issued
  BY DEF IInv, Types, SessionsOK
<1>2. S \in SUBSET Nat /\ S # {}
  BY <1>1
<1>3. PICK p \in S : \A q \in S : p <= q
  BY <1>2, LeastExists
<1>4. PICK s \in found : p = issued - s.id
  BY <1>3
<1>5. ASSUME NEW x \in found PROVE x.id <= s.id
  <2>1. issued - x.id \in S
    OBVIOUS
  <2>2. issued - s.id <= issued - x.id
    BY <2>1, <1>3, <1>4
  <2> QED BY <2>2, <1>1
<1>6. \E y \in found : \A x \in found : x.id <= y.id
  BY <1>5
<1> QED BY <1>6 DEF Newest

\* Whom the session is of that the command goes on with.
Takes(c, s) ==
  /\ run'[c].session = s.id
  /\ \/ s \in Named(c) /\ \A x \in Named(c) : x.id <= s.id
     \/ Named(c) = {} \/ Failed("list")'
  /\ s.by # c => Mixup("session", c, s.by) \in mixups'

\* The session the command goes on with is the newest of its name, unless there is none or
\* the list failed; one that is not its own is a mix-up.
LEMMA ResolveStep ==
  ASSUME IInv, NEW c \in Commands, Resolve(c)
  PROVE  /\ Effects(c) /\ run[c].pc = "resolve" /\ sessions' = sessions /\ issued' = issued
         /\ forwards' = forwards /\ uploads' = uploads
         /\ \/ Settles(c, TRUE) /\ Failed("resolve")'
            \/ /\ Stays(c) /\ run'[c].pc = "port" /\ run'[c].port = 0 /\ run'[c].script = 0
               /\ run'[c].met = Nobody
               /\ \E s \in sessions \cup {NoSession} : Takes(c, s)
<1>1. /\ run[c].pc = "resolve" /\ now' = now /\ sessions' = sessions /\ issued' = issued
      /\ forwards' = forwards /\ uploads' = uploads /\ db' = db
      /\ issued \in Nat /\ \A s \in sessions : s.id \in 0 .. issued
  BY DEF Resolve, IInv, Types, SessionsOK
<1>2. CASE \E s \in sessions \cup {NoSession} :
             /\ \/ Named(c) # {} /\ s = Newest(Named(c)) /\ UNCHANGED faults
                \/ Named(c) # {} /\ Fault("list")
                \/ Named(c) = {} /\ UNCHANGED faults
             /\ run' = [run EXCEPT ![c].pc = "port", ![c].session = s.id]
             /\ mixups' = mixups \cup {Mixup("session", c, d) : d \in {s.by} \ {c}}
  <2>1. PICK s \in sessions \cup {NoSession} :
             /\ \/ Named(c) # {} /\ s = Newest(Named(c)) /\ UNCHANGED faults
                \/ Named(c) # {} /\ Fault("list")
                \/ Named(c) = {} /\ UNCHANGED faults
             /\ run' = [run EXCEPT ![c].pc = "port", ![c].session = s.id]
             /\ mixups' = mixups \cup {Mixup("session", c, d) : d \in {s.by} \ {c}}
    BY <1>2
  <2>2. s.id \in 0 .. issued /\ s.by \in Commands \cup {Nobody}
    BY <1>1 DEF NoSession, IInv, Types, Session
  <2>3. /\ Advances(c) /\ Stays(c) /\ run'[c].pc = "port" /\ run'[c].session = s.id
        /\ run'[c].port = 0 /\ run'[c].script = 0 /\ run'[c].met = Nobody
    BY <1>1, <2>1, <2>2, ResolveRun
  <2>4. /\ faults \subseteq faults'
        /\ \/ s \in Named(c) /\ \A x \in Named(c) : x.id <= s.id
           \/ Named(c) = {} \/ Failed("list")'
    <3>1. Named(c) \in SUBSET sessions
      BY DEF Named
    <3> QED BY <2>1, <3>1, NewestFacts, FaultGrows DEF Failed
  <2>5. Takes(c, s)
    BY <2>1, <2>3, <2>4 DEF Takes
  <2>6. mixups \subseteq mixups' /\ mixups' \subseteq Confusion
    <3>1. Mixup("session", c, s.by) \in Confusion
      BY <2>2, MixupFacts
    <3> QED BY <2>1, <3>1 DEF IInv, Types
  <2>7. db' \in [Hosts -> [Containers -> User]] /\ Keeps /\ FilesStay(c)
    BY <1>1 DEF IInv, Types, Keeps, FilesStay
  <2>8. Effects(c)
    BY <1>1, <2>3, <2>4, <2>6, <2>7 DEF Effects, Grows
  <2> QED BY <1>1, <2>3, <2>5, <2>8
<1>3. CASE Fault("resolve") /\ Decide(c, TRUE) /\ UNCHANGED mixups
  <2>1. Settles(c, TRUE) /\ Advances(c)
    BY <1>1, <1>3, DecideRun
  <2>2. faults \subseteq faults' /\ Failed("resolve")'
    BY <1>3, FaultGrows DEF Failed
  <2>3. Grows(c)
    BY <1>1 DEF Grows
  <2> QED BY <1>1, <1>3, <2>1, <2>2, <2>3, Quietly
<1> QED BY <1>2, <1>3 DEF Resolve

\* _free_port: nobody listens on the port.
LEMMA PickPortStep ==
  ASSUME IInv, NEW c \in Commands, PickPort(c)
  PROVE  /\ Effects(c) /\ Stays(c) /\ run[c].pc = "port" /\ run'[c].pc = "forward"
         /\ run'[c].session = run[c].session /\ run'[c].script = 0 /\ run'[c].met = Nobody
         /\ FreePort(run'[c].port) /\ run'[c].port \in Ports
         /\ sessions' = sessions /\ issued' = issued /\ forwards' = forwards /\ uploads' = uploads
         /\ mixups' = mixups
<1>1. PICK port \in Ports : FreePort(port) /\ run' = [run EXCEPT ![c].pc = "forward", ![c].port = port]
  BY DEF PickPort
<1>2. /\ run[c].pc = "port" /\ now' = now /\ sessions' = sessions /\ issued' = issued /\ faults' = faults
      /\ forwards' = forwards /\ uploads' = uploads /\ db' = db /\ mixups' = mixups
  BY DEF PickPort
<1>3. /\ Advances(c) /\ Stays(c) /\ run'[c].pc = "forward" /\ run'[c].session = run[c].session
      /\ run'[c].port = port /\ run'[c].script = 0 /\ run'[c].met = Nobody
  BY <1>1, <1>2, PortRun
<1>4. Effects(c)
  BY <1>2, <1>3, Quietly DEF Grows
<1> QED BY <1>1, <1>2, <1>3, <1>4

\* The forward of the command is up if its session is and nobody has the port.
LEMMA OpenForwardStep ==
  ASSUME IInv, NEW c \in Commands, OpenForward(c)
  PROVE  /\ Effects(c) /\ Moved(c, "wait") /\ run[c].pc = "forward"
         /\ \/ forwards' = forwards \cup {Tunnel(c)}
            \/ /\ Listening(run[c].port) # {} \/ \A s \in sessions : s.id # run[c].session
               /\ forwards' = forwards
         /\ sessions' = sessions /\ issued' = issued /\ uploads' = uploads
<1>1. Moved(c, "wait") /\ Advances(c)
  BY GotoRun DEF OpenForward
<1>2. /\ run[c].pc = "forward" /\ now' = now /\ sessions' = sessions /\ issued' = issued
      /\ faults' = faults /\ uploads' = uploads /\ db' = db
  BY DEF OpenForward
<1>3. CASE /\ Listening(run[c].port) = {} /\ forwards' = forwards \cup {Tunnel(c)}
           /\ mixups' = mixups \cup {Mixup("port", d, c) : d \in Rivals(c)}
  <2>1. mixups \subseteq mixups' /\ mixups' \subseteq Confusion
    <3>1. \A d \in Rivals(c) : Mixup("port", d, c) \in Confusion
      BY MixupFacts DEF Rivals
    <3> QED BY <1>3, <3>1 DEF IInv, Types
  <2>2. \A f \in forwards' : f \in forwards \/ Opened(c, f)
    BY <1>2, <1>3 DEF Opened
  <2>3. db' \in [Hosts -> [Containers -> User]] /\ Keeps /\ FilesStay(c)
    BY <1>2 DEF IInv, Types, Keeps, FilesStay
  <2>4. Effects(c)
    BY <1>1, <1>2, <2>1, <2>2, <2>3 DEF Effects, Grows
  <2> QED BY <1>1, <1>2, <1>3, <2>4
<1>4. CASE /\ Listening(run[c].port) # {} \/ \A s \in sessions : s.id # run[c].session
           /\ UNCHANGED <<forwards, mixups>>
  <2>1. Effects(c)
    BY <1>1, <1>2, <1>4, Quietly DEF Grows
  <2> QED BY <1>1, <1>2, <1>4, <2>1
<1> QED BY <1>3, <1>4 DEF OpenForward

\* _wait_for_tunnel changes nothing but where the command is.
LEMMA WaitStep ==
  ASSUME IInv, NEW c \in Commands, WaitForTunnel(c)
  PROVE  /\ Effects(c) /\ Stays(c) /\ run[c].pc = "wait" /\ run'[c].pc \in {"script", "clean"}
         /\ run'[c].session = run[c].session /\ run'[c].port = run[c].port
         /\ run'[c].sent = run[c].sent
         /\ run'[c].script = run[c].script /\ run'[c].met = run[c].met
         /\ sessions' = sessions /\ issued' = issued /\ forwards' = forwards /\ uploads' = uploads
         /\ mixups' = mixups
<1>1. /\ run[c].pc = "wait" /\ now' = now /\ sessions' = sessions /\ issued' = issued /\ forwards' = forwards
      /\ uploads' = uploads /\ db' = db /\ mixups' = mixups
  BY DEF WaitForTunnel
<1>2. /\ Advances(c) /\ Stays(c) /\ run'[c].pc \in {"script", "clean"}
      /\ run'[c].session = run[c].session /\ run'[c].port = run[c].port /\ run'[c].sent = run[c].sent
      /\ run'[c].script = run[c].script /\ run'[c].met = run[c].met /\ faults \subseteq faults'
  <2>1. CASE Goto(c, "script") /\ UNCHANGED faults
    <3>1. Moved(c, "script") /\ Advances(c)
      BY <1>1, <2>1, GotoRun
    <3> QED BY <2>1, <3>1 DEF Moved, Stays
  <2>2. CASE (IF Listening(run[c].port) = {} THEN UNCHANGED faults ELSE Fault("tunnel")) /\ Breaks(c)
    <3>1. faults \subseteq faults'
      BY <2>2, FaultGrows
    <3> QED BY <1>1, <2>2, <3>1, BreaksRun
  <2> QED BY <2>1, <2>2 DEF WaitForTunnel
<1>3. Effects(c)
  BY <1>1, <1>2, Quietly DEF Grows
<1> QED BY <1>1, <1>2, <1>3

\* A script is copied to a host behind the port, over whatever has its name, or it is not.
LEMMA UploadStep ==
  ASSUME IInv, NEW c \in Commands, Upload(c)
  PROVE  /\ Effects(c) /\ Stays(c) /\ run[c].pc = "script" /\ run'[c].pc \in {"sqlplus", "clean"}
         /\ run'[c].session = run[c].session /\ run'[c].port = run[c].port
         /\ run'[c].sent = run[c].sent + 1 /\ run'[c].script = run[c].script
         /\ run'[c].met \in Reached(c) \/ run'[c].met = run[c].met
         /\ run'[c].pc = "sqlplus" => There(run'[c].met, Current(c), uploads')
         /\ sessions' = sessions /\ issued' = issued /\ forwards' = forwards /\ mixups' = mixups
<1> DEFINE k == Current(c)
<1>1. /\ run[c].pc = "script" /\ now' = now /\ sessions' = sessions /\ issued' = issued
      /\ forwards' = forwards /\ db' = db /\ mixups' = mixups
  BY DEF Upload
<1>2. k \in 1 .. 6 /\ Reached(c) \subseteq Hosts
  BY <1>1, ScriptHere, ReachedHosts
<1>3. CASE Reached(c) = {} /\ UNCHANGED <<uploads, faults>> /\ Nowhere(c)
  <2>1. NotCopied(c, run[c].met) /\ run[c].met \in Hosts \cup {Nobody}
    BY <1>1, <1>3, NowhereRun
  <2>2. /\ Advances(c) /\ Stays(c) /\ run'[c].pc = "clean" /\ run'[c].session = run[c].session
        /\ run'[c].port = run[c].port /\ run'[c].sent = run[c].sent + 1
        /\ run'[c].script = run[c].script /\ run'[c].met = run[c].met
    BY <1>1, <2>1, NotCopiedRun
  <2>3. Effects(c)
    BY <1>1, <1>3, <2>2, Quietly DEF Grows
  <2> QED BY <1>1, <2>2, <2>3
<1>4. CASE \E h \in Reached(c) :
             /\ uploads' = (uploads \ OnHost(h, k)) \cup {[by |-> c, host |-> h, script |-> k]}
             /\ \/ Copied(c, h) /\ UNCHANGED faults
                \/ Fault("scp") /\ NotCopied(c, h)
  <2>1. PICK h \in Reached(c) :
             /\ uploads' = (uploads \ OnHost(h, k)) \cup {[by |-> c, host |-> h, script |-> k]}
             /\ \/ Copied(c, h) /\ UNCHANGED faults
                \/ Fault("scp") /\ NotCopied(c, h)
    BY <1>4
  <2>2. h \in Hosts /\ h # Nobody
    BY <1>2, TargetsFacts
  <2>3. /\ Advances(c) /\ Stays(c) /\ run'[c].pc \in {"sqlplus", "clean"}
        /\ run'[c].session = run[c].session
        /\ run'[c].port = run[c].port /\ run'[c].sent = run[c].sent + 1
        /\ run'[c].script = run[c].script /\ run'[c].met = h /\ faults \subseteq faults'
    <3>1. CASE Copied(c, h) /\ UNCHANGED faults
      BY <1>1, <2>2, <3>1, CopiedRun
    <3>2. CASE Fault("scp") /\ NotCopied(c, h)
      BY <1>1, <2>2, <3>2, NotCopiedRun, FaultGrows
    <3> QED BY <2>1, <3>1, <3>2
  <2> DEFINE new == [by |-> c, host |-> h, script |-> k]
  <2>4. new \in [by : Commands, host : Hosts, script : Nat]
        /\ new.by = c /\ new.host = h /\ new.script = k
    BY <1>2, <2>2
  <2>5. uploads' = (uploads \ OnHost(h, k)) \cup {new}
    BY <2>1
  <2> HIDE DEF new, k
  <2>6. \A u \in uploads' : u \in uploads \/ Copies(c, u)
    BY <1>1, <2>1, <2>3, <2>4, <2>5 DEF Copies, k
  <2>7. FilesStay(c)
    <3> SUFFICES ASSUME NEW g, NEW j, There(g, j, uploads) PROVE There(g, j, uploads')
      BY DEF FilesStay
    <3>1. PICK u \in uploads : u.host = g /\ u.script = j
      BY DEF There
    <3>2. CASE u \in OnHost(h, k)
      <4>1. new.host = g /\ new.script = j
        BY <3>1, <3>2, <2>4 DEF OnHost
      <4> QED BY <4>1, <2>5 DEF There
    <3>3. CASE u \notin OnHost(h, k)
      BY <3>1, <3>3, <2>5 DEF There
    <3> QED BY <3>2, <3>3
  <2>8. There(run'[c].met, k, uploads')
    BY <2>3, <2>4, <2>5 DEF There
  <2>9. mixups' \subseteq Confusion /\ db' \in [Hosts -> [Containers -> User]] /\ Keeps
    BY <1>1 DEF IInv, Types, Keeps
  <2>10. Effects(c)
    BY <1>1, <2>3, <2>6, <2>7, <2>9 DEF Effects, Grows
  <2> QED BY <1>1, <2>1, <2>3, <2>8, <2>10 DEF k
<1> QED BY <1>3, <1>4 DEF Upload, Copied, NotCopied, Nowhere

\* A script that is through has done all it is for on the host behind the port, unless its
\* file was not there.
LEMMA RunScriptStep ==
  ASSUME IInv, NEW c \in Commands, RunScript(c)
  PROVE  /\ Effects(c) /\ Stays(c) /\ run[c].pc = "sqlplus" /\ run'[c].pc \in {"script", "clean"}
         /\ run'[c].session = run[c].session /\ run'[c].port = run[c].port
         /\ run'[c].sent = run[c].sent /\ run'[c].met = run[c].met
         /\ \/ run'[c].script = run[c].script
            \/ /\ run'[c].script = run[c].script + 1
               /\ \/ ~There(run[c].met, Current(c), uploads)
                  \/ \A x \in Did(Current(c)) : Given(db'[run[c].met][Container(c)], x)
         /\ sessions' = sessions /\ issued' = issued /\ forwards' = forwards /\ uploads' = uploads
         /\ mixups' = mixups
<1> DEFINE k == Current(c)
           m == Container(c)
           n == Len(Statements(k))
<1>1. /\ run[c].pc = "sqlplus" /\ now' = now /\ sessions' = sessions /\ issued' = issued
      /\ forwards' = forwards /\ uploads' = uploads /\ mixups' = mixups /\ mixups \subseteq Confusion
  BY DEF RunScript, IInv, Types
<1>2. k \in 1 .. 6 /\ Reached(c) \subseteq Hosts /\ m \in Containers
  BY <1>1, ScriptHere, ReachedHosts
<1>3. n \in Nat /\ n \in 0 .. n
  BY <1>2, StatementsFacts
<1>4. Reached(c) \subseteq {run[c].met}
  BY <1>1, AtStep DEF RunOK, Reached
<1>5. FilesStay(c) /\ Grows(c)
  BY <1>1 DEF FilesStay, Grows
<1>6. ASSUME Breaks(c)
      PROVE  /\ Advances(c) /\ Stays(c) /\ run'[c].pc = "clean" /\ run'[c].session = run[c].session
             /\ run'[c].port = run[c].port /\ run'[c].sent = run[c].sent
             /\ run'[c].script = run[c].script /\ run'[c].met = run[c].met
  BY <1>1, <1>6, BreaksRun
<1>7. ASSUME Through(c)
      PROVE  /\ Advances(c) /\ Stays(c) /\ run'[c].pc \in {"script", "clean"}
             /\ run'[c].session = run[c].session /\ run'[c].port = run[c].port
             /\ run'[c].sent = run[c].sent /\ run'[c].script = run[c].script + 1
             /\ run'[c].met = run[c].met
  BY <1>1, <1>7, ThroughRun
<1> HIDE DEF k, m, n
<1>8. CASE Reached(c) = {} /\ Breaks(c) /\ UNCHANGED <<db, faults>>
  <2>1. Effects(c)
    BY <1>1, <1>5, <1>6, <1>8, Quietly
  <2> QED BY <1>1, <1>6, <1>8, <2>1
<1>9. CASE \E h \in Reached(c) : OnHost(h, k) = {} /\ Through(c) /\ UNCHANGED <<db, faults>>
  <2>1. OnHost(run[c].met, k) = {} /\ Through(c) /\ UNCHANGED <<db, faults>>
    BY <1>4, <1>9
  <2>2. Effects(c)
    BY <1>1, <1>5, <1>7, <2>1, Quietly
  <2>3. ~There(run[c].met, k, uploads)
    BY <2>1 DEF There, OnHost
  <2> QED BY <1>1, <1>7, <2>1, <2>2, <2>3 DEF k
<1>10. CASE \E h \in Reached(c) :
              /\ OnHost(h, k) # {} /\ Through(c) /\ UNCHANGED faults
              /\ db' = [db EXCEPT ![h][m] = Apply(@, k, n)]
  <2>1. PICK h \in Reached(c) :
              /\ Through(c) /\ UNCHANGED faults /\ db' = [db EXCEPT ![h][m] = Apply(@, k, n)]
    BY <1>10
  <2>2. h \in Hosts /\ h = run[c].met
    BY <1>2, <1>4
  <2>3. /\ db' \in [Hosts -> [Containers -> User]] /\ Keeps
        /\ db'[h][m] = Apply(db[h][m], k, n)
    BY <1>2, <1>3, <2>1, <2>2, DbStep DEF n
  <2>4. db[h][m] \in User
    BY <1>2, <2>2 DEF IInv, Types
  <2>5. \A x \in Did(k) : Given(db'[h][m], x)
    BY <1>2, <2>3, <2>4, ApplyDoes DEF n
  <2>6. Effects(c)
    BY <1>1, <1>5, <1>7, <2>1, <2>3 DEF Effects
  <2> QED BY <1>1, <1>7, <2>1, <2>2, <2>5, <2>6 DEF k, m
<1>11. CASE \E h \in Reached(c) : \E j \in 0 .. n :
              /\ Breaks(c) /\ Fault("sql") /\ db' = [db EXCEPT ![h][m] = Apply(@, k, j)]
  <2>1. PICK h \in Reached(c), j \in 0 .. n :
              /\ Breaks(c) /\ Fault("sql") /\ db' = [db EXCEPT ![h][m] = Apply(@, k, j)]
    BY <1>11
  <2>2. h \in Hosts /\ faults \subseteq faults'
    BY <1>2, <2>1, FaultGrows
  <2>3. db' \in [Hosts -> [Containers -> User]] /\ Keeps
    BY <1>2, <2>1, <2>2, DbStep DEF n
  <2>4. Effects(c)
    BY <1>1, <1>5, <1>6, <2>1, <2>2, <2>3 DEF Effects
  <2> QED BY <1>1, <1>6, <2>1, <2>4
<1> QED BY <1>8, <1>9, <1>10, <1>11 DEF RunScript, k, m, n

\* _cleanup_remote removes what lies on the host behind the port under the names of the
\* command's scripts; then the forward ends.
LEMMA CleanStep ==
  ASSUME IInv, NEW c \in Commands, CleanRemote(c)
  PROVE  /\ Effects(c) /\ Stays(c) /\ run[c].pc = "clean" /\ run'[c].pc = "teardown"
         /\ run'[c].session = run[c].session /\ run'[c].port = run[c].port
         /\ run'[c].script = run[c].script
         /\ run'[c].met \in Reached(c) \/ run'[c].met = run[c].met
         /\ forwards' = forwards \ Own(c) /\ sessions' = sessions /\ issued' = issued
         /\ uploads' \subseteq uploads
         /\ \/ Failed("remove")' \/ Reached(c) = {} \/ Sent(c) = {}
            \/ /\ run'[c].met \in Reached(c)
               /\ \A u \in uploads' : u.host # run'[c].met \/ u.script \notin Sent(c)
<1>1. /\ run[c].pc = "clean" /\ now' = now /\ sessions' = sessions /\ issued' = issued
      /\ db' = db /\ forwards' = forwards \ Own(c) /\ run[c].met \in Hosts \cup {Nobody}
      /\ RunOK(c, run[c])
  BY AtStep DEF CleanRemote, Run
<1>2. Reached(c) \subseteq Hosts /\ Nobody \notin Hosts
  BY ReachedHosts, TargetsFacts
<1>3. CASE \E h \in Reached(c) :
             /\ uploads' = {u \in uploads : u.host # h \/ u.script \notin Sent(c)}
             /\ mixups' = mixups \cup {Mixup("file", d, c) : d \in Robbed(c, h)}
             /\ Cleaned(c, h) /\ UNCHANGED faults
  <2>1. PICK h \in Reached(c) :
             /\ uploads' = {u \in uploads : u.host # h \/ u.script \notin Sent(c)}
             /\ mixups' = mixups \cup {Mixup("file", d, c) : d \in Robbed(c, h)}
             /\ Cleaned(c, h) /\ UNCHANGED faults
    BY <1>3
  <2>2. h \in Hosts \cup {Nobody} /\ h # Nobody
    BY <1>2
  <2>3. /\ Advances(c) /\ Stays(c) /\ run'[c].pc = "teardown" /\ run'[c].session = run[c].session
        /\ run'[c].port = run[c].port /\ run'[c].script = run[c].script /\ run'[c].met = h
    BY <1>1, <2>1, <2>2, CleanedRun
  <2>4. mixups \subseteq mixups' /\ mixups' \subseteq Confusion
    <3>1. \A d \in Robbed(c, h) : Mixup("file", d, c) \in Confusion
      BY MixupFacts DEF Robbed
    <3> QED BY <2>1, <3>1 DEF IInv, Types
  <2>5. FilesStay(c)
    <3> SUFFICES ASSUME NEW d \in Commands \ {c}, run[d].pc = "sqlplus",
                        There(run[d].met, Current(d), uploads),
                        ~There(run[d].met, Current(d), uploads')
                 PROVE  Mixup("file", d, c) \in mixups'
      BY DEF FilesStay
    <3>1. run[d].met = h /\ Current(d) \in Sent(c)
      BY <2>1 DEF There
    <3>2. d \in Robbed(c, h)
      BY <3>1 DEF Robbed
    <3> QED BY <2>1, <3>2
  <2>6. db' \in [Hosts -> [Containers -> User]] /\ Keeps
    BY <1>1 DEF IInv, Types, Keeps
  <2>7. Effects(c)
    BY <1>1, <2>1, <2>3, <2>4, <2>5, <2>6 DEF Effects, Grows
  <2> QED BY <1>1, <2>1, <2>3, <2>7
<1>4. CASE /\ Goto(c, "teardown") /\ UNCHANGED <<uploads, mixups>>
           /\ \/ (Reached(c) = {} \/ Sent(c) = {}) /\ UNCHANGED faults
              \/ Fault("remove")
  <2>1. Moved(c, "teardown") /\ Advances(c)
    BY <1>1, <1>4, GotoRun
  <2>2. faults \subseteq faults' /\ (Reached(c) = {} \/ Sent(c) = {} \/ Failed("remove")')
    BY <1>4, FaultGrows DEF Failed
  <2>3. Effects(c)
    BY <1>1, <1>4, <2>1, <2>2, Quietly DEF Grows
  <2> QED BY <1>1, <1>4, <2>1, <2>2, <2>3 DEF Moved, Stays
<1> QED BY <1>3, <1>4 DEF CleanRemote, Cleaned

\* _safe_teardown: the session the command used goes, and no other.
LEMMA TeardownStep ==
  ASSUME IInv, NEW c \in Commands, Teardown(c)
  PROVE  /\ Effects(c) /\ Settles(c, run[c].failed) /\ run[c].pc = "teardown"
         /\ forwards' = Alive(forwards, sessions') /\ issued' = issued /\ uploads' = uploads
         /\ mixups' = mixups
         /\ \/ sessions' = {s \in sessions : s.id # run[c].session}
            \/ sessions' = sessions /\ Failed("delete")'
<1>1. /\ run[c].pc = "teardown" /\ now' = now /\ issued' = issued /\ uploads' = uploads
      /\ db' = db /\ mixups' = mixups /\ run[c].failed \in BOOLEAN
      /\ forwards' = Alive(forwards, sessions')
  BY AtStep DEF Teardown, Run
<1>2. Settles(c, run[c].failed) /\ Advances(c)
  BY <1>1, DecideRun DEF Teardown
<1>3. /\ faults \subseteq faults' /\ sessions' \subseteq sessions
      /\ \/ sessions' = {s \in sessions : s.id # run[c].session}
         \/ sessions' = sessions /\ Failed("delete")'
  BY FaultGrows DEF Teardown, Failed
<1>4. forwards' \subseteq forwards /\ Grows(c)
  BY <1>1, <1>3, AliveShrinks DEF Grows
<1> QED BY <1>1, <1>2, <1>3, <1>4, Quietly

\* SIGKILL leaves everything as it is.
LEMMA KilledStep ==
  ASSUME IInv, NEW c \in Commands, Killed(c)
  PROVE  /\ Effects(c) /\ Moved(c, "killed") /\ run[c].pc \notin Final
         /\ forwards' = forwards /\ sessions' = sessions /\ issued' = issued /\ uploads' = uploads
         /\ mixups' = mixups
<1>1. Moved(c, "killed") /\ Advances(c)
  BY GotoRun DEF Killed
<1>2. /\ run[c].pc \notin Final /\ now' = now /\ sessions' = sessions /\ issued' = issued
      /\ uploads' = uploads /\ forwards' = forwards /\ mixups' = mixups
      /\ db' = db /\ faults \subseteq faults'
  BY FaultGrows DEF Killed
<1>3. Grows(c)
  BY <1>2 DEF Grows
<1> QED BY <1>1, <1>2, <1>3, Quietly

\* The steps that are no command's.
NobodyMoves ==
  /\ run' = run /\ issued' = issued /\ faults' = faults /\ mixups' = mixups /\ uploads' = uploads
  /\ db' = db /\ now' \in Nat /\ now' >= now
  /\ \/ sessions' = sessions /\ forwards' = forwards
     \/ /\ sessions' \subseteq sessions /\ now' = now
        /\ \A s \in sessions \ sessions' : now - s.born > TTL
        /\ forwards' = Alive(forwards, sessions')

\* Time, and the Bastion that ends sessions.
LEMMA IdleStep ==
  ASSUME IInv, Tick \/ Expire \/ UNCHANGED vars
  PROVE  NobodyMoves
<1> now \in Nat
  BY DEF IInv, Types
<1>1. CASE Tick
  BY <1>1 DEF Tick, NobodyMoves
<1>2. CASE Expire
  BY <1>2 DEF Expire, NobodyMoves
<1>3. CASE UNCHANGED vars
  BY <1>3 DEF vars, NobodyMoves
<1> QED BY <1>1, <1>2, <1>3

-----------------------------------------------------------------------------
(* The first layer *)

\* What a new session is.
LEMMA NewSessionFacts ==
  ASSUME IInv, NEW c \in Commands, run[c].pc = "create"
  PROVE  /\ NewSession(c) \in Session /\ NewSession(c).id = issued + 1 /\ NewSession(c).by = c
         /\ NewSession(c).born = now /\ NewSession(c).label = Label(Target(c))
<1>1. Target(c) \in HasScripts /\ issued + 1 \in Nat /\ now \in Nat
  BY AtStep DEF IInv, Types
<1>2. Label(Target(c)) \in Labels
  BY <1>1 DEF Labels
<1> QED BY <1>1, <1>2 DEF NewSession, Session

\* A command that starts is at its first target that needs a session, or through.
LEMMA InitRun ==
  ASSUME Init, NEW c \in Commands
  PROVE  /\ RunOK(c, run[c]) /\ run[c].pc \in {"done", "reap"} /\ run[c].session = 0 /\ run[c].port = 0
         /\ run[c].met = Nobody /\ run[c].script = 0
         /\ \A l \in 1 .. Len(run[c].decisions) : run[c].decisions[l] # "executed"
<1>1. run[c] = Onward(c, 1, << >>)
  BY DEF Init
<1>2. PICK i \in 1 .. Len(Targets(c)) + 1 : i = 1
  BY TargetsFacts
<1>3. PICK none \in Seq(Outcomes) : none = << >> /\ Len(none) = 0
  BY EmptySeq, Zenon
<1>4. run[c] = Onward(c, i, none) /\ Len(none) = i - 1
  BY <1>1, <1>2, <1>3
<1>5. /\ RunOK(c, run[c]) /\ run[c].pc \in {"done", "reap"} /\ run[c].session = 0 /\ run[c].port = 0
      /\ run[c].met = Nobody /\ run[c].script = 0
      /\ \A l \in 1 .. Len(run[c].decisions) : run[c].decisions[l] = "executed" => l \in 1 .. Len(none)
  BY <1>4, OnwardFacts
<1> QED BY <1>3, <1>5

\* The invariant holds initially.
LEMMA InitInv == Init => IInv
<1> SUFFICES ASSUME Init PROVE IInv
  OBVIOUS
<1>1. now \in Nat /\ issued = 2
  BY DbExecAssumption DEF Init, Began
<1>2. sessions \subseteq Session /\ \A s \in sessions : s.id \in 1 .. 2
  <2>1. [id |-> 1, label |-> "colleague", by |-> Nobody, born |-> now] \in Session
    BY <1>1 DEF Session, Labels
  <2>2. [id |-> 2, label |-> "dbman-exec-old", by |-> Nobody, born |-> 0] \in Session
    BY DEF Session, Labels
  <2> QED BY <2>1, <2>2 DEF Init
<1>3. \A s, x \in sessions : s.id = x.id => s = x
  BY DEF Init
<1>4. db \in [Hosts -> [Containers -> User]]
  BY DEF Init, User
<1>5. \A c \in Commands : RunOK(c, run[c]) /\ run[c].pc \in {"done", "reap"} /\ run[c].session = 0
  BY InitRun
<1>6. run \in [Commands -> Run]
  <2> SUFFICES ASSUME NEW c \in Commands PROVE run[c] \in Run
    BY DEF Init
  <2> QED BY <1>5 DEF RunOK
<1>7. Types
  <2>1. forwards = {} /\ mixups = {} /\ uploads = {}
    BY DEF Init
  <2> QED BY <1>1, <1>2, <1>4, <1>6, <2>1 DEF Types
<1>8. SessionsOK
  BY <1>1, <1>2, <1>3, <1>5 DEF SessionsOK
<1>9. \A c \in Commands : Chosen(c)
  BY <1>5 DEF Chosen, Users
<1> QED BY <1>5, <1>7, <1>8, <1>9 DEF IInv

\* Every step of a command keeps the types, the ids of the sessions and what is true of
\* the commands.
LEMMA TypesStep ==
  ASSUME IInv, NEW c \in Commands, Effects(c)
  PROVE  Types' /\ SessionsOK' /\ \A d \in Commands : RunOK(d, run[d])'
<1>1. Types /\ SessionsOK /\ \A d \in Commands : RunOK(d, run[d])
  BY DEF IInv
<1>2. \A d \in Commands : RunOK(d, run'[d])
  BY <1>1 DEF Effects, Advances
<1>3. issued' \in Nat /\ sessions' \subseteq Session /\ issued <= issued'
      /\ (\A s \in sessions' : s.id \in 1 .. issued') /\ \A s, x \in sessions' : s.id = x.id => s = x
  <2>1. CASE issued' = issued /\ sessions' \subseteq sessions
    BY <2>1, <1>1 DEF Types, SessionsOK
  <2>2. CASE /\ run[c].pc = "create" /\ issued' = issued + 1
             /\ sessions' = sessions \cup {NewSession(c)}
    <3>1. NewSession(c) \in Session /\ NewSession(c).id = issued + 1
      BY <2>2, NewSessionFacts
    <3> HIDE DEF NewSession
    <3>2. issued \in Nat /\ \A s \in sessions : s.id \in 1 .. issued /\ s.id # issued + 1
      BY <1>1 DEF Types, SessionsOK
    <3> QED BY <2>2, <3>1, <3>2, <1>1 DEF Types, SessionsOK
  <2> QED BY <2>1, <2>2 DEF Effects, Grows
<1>4. forwards' \subseteq Forward
  <2> SUFFICES ASSUME NEW f \in forwards', f \notin forwards PROVE f \in Forward
    BY <1>1 DEF Types
  <2>1. run[c].pc = "forward" /\ f = Tunnel(c)
    BY DEF Effects, Opened
  <2>2. run[c].port \in Ports /\ run[c].session \in Nat /\ Host(c) \in Hosts
    BY <1>1, <2>1, TargetsFacts DEF RunOK, Users, Run
  <2> QED BY <2>1, <2>2 DEF Tunnel, Forward
<1>5. uploads' \subseteq [by : Commands, host : Hosts, script : Nat]
  BY <1>1 DEF Types, Effects, Copies
<1>6. Types'
  BY <1>1, <1>3, <1>4, <1>5 DEF Types, Effects, Advances
<1>7. SessionsOK'
  <2> SUFFICES ASSUME NEW d \in Commands PROVE run'[d].session <= issued'
    BY <1>3 DEF SessionsOK
  <2>1. run'[d].session <= issued /\ run'[d].session \in Nat
    BY <1>1, <1>6 DEF SessionsOK, Effects, Advances, Types, Run
  <2> QED BY <2>1, <1>1, <1>3 DEF Types
<1> QED BY <1>2, <1>6, <1>7

\* A command keeps to its session while sessions end and others are created.
LEMMA ChosenKept ==
  ASSUME IInv, NEW d \in Commands, faults \subseteq faults',
         run'[d].pc \in Users =>
           run[d].pc \in Users /\ run'[d].at = run[d].at /\ run'[d].session = run[d].session,
         \A s \in sessions' : s \in sessions \/ (s.id > issued /\ s.by # d)
  PROVE  Chosen(d)'
<1> SUFFICES ASSUME run'[d].pc \in Users, NEW s \in sessions', s.id = run'[d].session
             PROVE  \/ s.label = Label(Targets(d)[run'[d].at]) \/ "list" \in faults'
                    \/ \A x \in sessions' : x.by = d => x.label # Label(Targets(d)[run'[d].at])
  BY DEF Chosen, Target, Failed
<1>1. run[d].pc \in Users /\ run'[d].at = run[d].at /\ s.id = run[d].session
  OBVIOUS
<1>2. run[d].session <= issued /\ issued \in Nat /\ run[d].session \in Nat
  BY AtStep DEF Run
<1>3. s \in sessions
  BY <1>1, <1>2
<1>4. \/ s.label = Label(Target(d)) \/ Failed("list")
      \/ \A x \in sessions : x.by = d => x.label # Label(Target(d))
  BY <1>1, <1>3 DEF IInv, Chosen
<1> QED BY <1>1, <1>4 DEF Target, Failed

\* Of another command's step.
LEMMA ChosenByOthers ==
  ASSUME IInv, NEW c \in Commands, Effects(c), NEW d \in Commands, d # c
  PROVE  Chosen(d)'
<1>1. \A s \in sessions' : s \in sessions \/ (s.id > issued /\ s.by # d)
  <2>1. CASE sessions' \subseteq sessions
    BY <2>1
  <2>2. CASE run[c].pc = "create" /\ sessions' = sessions \cup {NewSession(c)}
    <3>1. NewSession(c).id = issued + 1 /\ NewSession(c).by = c /\ issued \in Nat
      BY <2>2, NewSessionFacts DEF IInv, Types
    <3> QED BY <2>2, <3>1
  <2> QED BY <2>1, <2>2 DEF Effects, Grows
<1>2. run'[d] = run[d] /\ faults \subseteq faults'
  BY DEF Effects, Advances
<1> QED BY <1>1, <1>2, ChosenKept

\* A command that uses no session has chosen none.
LEMMA ChosenByReap ==
  ASSUME IInv, NEW c \in Commands, run'[c].pc \notin Users
  PROVE  Chosen(c)'
BY DEF Chosen

\* The choice itself (_newest_active_by_name and what happens without one).
LEMMA ChosenByResolve ==
  ASSUME IInv, NEW c \in Commands, Resolve(c)
  PROVE  Chosen(c)'
<1>1. sessions' = sessions
  BY ResolveStep
<1>2. CASE Settles(c, TRUE)
  BY <1>2 DEF Settles, Chosen, Users
<1>3. CASE Stays(c) /\ \E s \in Named(c) : run'[c].session = s.id
  <2>1. PICK s \in Named(c) : run'[c].session = s.id
    BY <1>3
  <2>2. s \in sessions /\ s.label = Label(Target(c))
    BY <2>1 DEF Named
  <2>3. \A x \in sessions : x.id = run'[c].session => x.label = Label(Targets(c)[run'[c].at])
    BY <1>3, <2>1, <2>2 DEF IInv, SessionsOK, Stays, Target
  <2> QED BY <1>1, <2>3 DEF Chosen, Target
<1>4. CASE Stays(c) /\ Named(c) = {}
  <2>1. \A x \in sessions' : x.label # Label(Targets(c)[run'[c].at])
    BY <1>1, <1>4 DEF Named, Stays, Target
  <2> QED BY <2>1 DEF Chosen, Target
<1>5. CASE Failed("list")'
  BY <1>5 DEF Chosen
<1> QED BY <1>2, <1>3, <1>4, <1>5, ResolveStep DEF Takes

\* Every step of a command has the effects above and keeps its choice.
LEMMA ChosenStep ==
  ASSUME IInv, NEW c \in Commands, Step(c) \/ Killed(c)
  PROVE  Effects(c) /\ Chosen(c)'
<1>1. ASSUME Effects(c), sessions' \subseteq sessions, Stays(c),
             run[c].pc \in Users, run'[c].session = run[c].session
      PROVE  Chosen(c)'
  BY <1>1, ChosenKept DEF Stays, Effects
<1>2. CASE Upload(c)
  BY <1>1, <1>2, UploadStep DEF Users
<1>3. CASE Reap(c)
  <2>1. Effects(c) /\ run'[c].pc = "create"
    BY <1>3, ReapStep DEF Moved
  <2> QED BY <2>1, ChosenByReap DEF Users
<1>4. CASE Create(c)
  <2>1. Effects(c) /\ run'[c].pc \in {"resolve", "done", "reap"}
    BY <1>4, CreateStep DEF Moved, Settles
  <2> QED BY <2>1, ChosenByReap DEF Users
<1>5. CASE Resolve(c)
  BY <1>5, ResolveStep, ChosenByResolve
<1>6. CASE PickPort(c)
  BY <1>1, <1>6, PickPortStep DEF Users
<1>7. CASE OpenForward(c)
  BY <1>1, <1>7, OpenForwardStep DEF Users, Moved, Stays
<1>8. CASE WaitForTunnel(c)
  BY <1>1, <1>8, WaitStep DEF Users
<1>9. CASE RunScript(c)
  BY <1>1, <1>9, RunScriptStep DEF Users
<1>10. CASE CleanRemote(c)
  BY <1>1, <1>10, CleanStep DEF Users
<1>11. CASE Teardown(c)
  <2>1. Effects(c) /\ run'[c].pc \in {"done", "reap"}
    BY <1>11, TeardownStep DEF Settles
  <2> QED BY <2>1, ChosenByReap DEF Users
<1>12. CASE Killed(c)
  <2>1. Effects(c) /\ run'[c].pc = "killed"
    BY <1>12, KilledStep DEF Moved
  <2> QED BY <2>1, ChosenByReap DEF Users
<1> QED BY <1>2, <1>3, <1>4, <1>5, <1>6, <1>7, <1>8, <1>9, <1>10, <1>11, <1>12 DEF Step

\* Time and the end of sessions keep the invariant.
LEMMA IdleInv ==
  ASSUME IInv, NobodyMoves
  PROVE  IInv'
<1>1. /\ run' = run /\ issued' = issued /\ sessions' \subseteq sessions /\ forwards' \subseteq forwards
      /\ faults' = faults /\ mixups' = mixups /\ uploads' = uploads /\ db' = db /\ now' \in Nat
  BY AliveShrinks DEF NobodyMoves
<1>2. Types'
  BY <1>1 DEF IInv, Types
<1>3. SessionsOK' /\ \A c \in Commands : RunOK(c, run[c])'
  BY <1>1 DEF IInv, SessionsOK
<1>4. \A c \in Commands : Chosen(c)'
  BY <1>1, ChosenKept
<1> QED BY <1>2, <1>3, <1>4 DEF IInv

\* Every step keeps the invariant.
LEMMA NextInv == IInv /\ [Next]_vars => IInv'
<1> SUFFICES ASSUME IInv, [Next]_vars PROVE IInv'
  OBVIOUS
<1>1. ASSUME NEW c \in Commands, Step(c) \/ Killed(c) PROVE IInv'
  <2>1. Effects(c) /\ Chosen(c)'
    BY <1>1, ChosenStep
  <2>2. ASSUME NEW d \in Commands PROVE Chosen(d)'
    BY <2>1, ChosenByOthers
  <2> QED BY <2>1, <2>2, TypesStep DEF IInv
<1>2. CASE Tick \/ Expire \/ UNCHANGED vars
  BY <1>2, IdleStep, IdleInv
<1> QED BY <1>1, <1>2 DEF Next

\* The invariant holds in every reachable state, for any commands, targets, ports and faults.
THEOREM DbExecInvariant == Spec => []IInv
BY InitInv, NextInv, PTL DEF Spec

\* The types of the state of db-exec, for every value of the constants.
THEOREM DbExecTypes == Spec => []TypeOK
<1>1. IInv => TypeOK
  BY DEF IInv, Types, TypeOK, RunOK, Run, Confusion
<1> QED BY <1>1, DbExecInvariant, PTL

\* SessionsSpared, as a fact about one step.
Spared ==
  \A s \in sessions \ sessions' :
    \/ now - s.born > TTL
    \/ \E c \in Commands :
         /\ run[c].pc = "teardown" /\ run[c].session = s.id
         /\ \/ s.label = Label(Target(c)) \/ Failed("list")
            \/ \A x \in sessions : x.by = c => x.label # Label(Target(c))

\* A session of the Bastion that is not over is ended by the teardown of the command that
\* uses it and by nothing else; that one has the name of the command's target, unless the
\* list failed or the own session was over (bastion_exec.py:142-146, 351-381).
THEOREM DbExecSessionsSpared == Spec => SessionsSpared
<1>1. IInv /\ [Next]_vars => [Spared]_vars
  <2> SUFFICES ASSUME IInv, [Next]_vars, NEW s \in sessions, s \notin sessions'
               PROVE  \/ now - s.born > TTL
                      \/ \E c \in Commands :
                           /\ run[c].pc = "teardown" /\ run[c].session = s.id
                           /\ \/ s.label = Label(Target(c)) \/ Failed("list")
                              \/ \A x \in sessions : x.by = c => x.label # Label(Target(c))
    BY DEF Spared
  <2>1. CASE Tick \/ Expire \/ UNCHANGED vars
    BY <2>1, IdleStep DEF NobodyMoves
  <2>2. ASSUME NEW c \in Commands, Step(c) \/ Killed(c), ~Reap(c), ~Teardown(c) PROVE FALSE
    <3>1. sessions \subseteq sessions'
      BY <2>2, CreateStep, ResolveStep, PickPortStep, OpenForwardStep, WaitStep, UploadStep, RunScriptStep,
         CleanStep, KilledStep DEF Step, Create
    <3> QED BY <3>1
  <2>3. ASSUME NEW c \in Commands, Reap(c) PROVE now - s.born > TTL
    BY <2>3, ReapStep DEF Stale
  <2>4. ASSUME NEW c \in Commands, Teardown(c)
        PROVE  /\ run[c].pc = "teardown" /\ run[c].session = s.id
               /\ \/ s.label = Label(Target(c)) \/ Failed("list")
                  \/ \A x \in sessions : x.by = c => x.label # Label(Target(c))
    <3>1. run[c].pc = "teardown" /\ s.id = run[c].session
      BY <2>4, TeardownStep
    <3> QED BY <3>1 DEF IInv, Chosen, Users
  <2> QED BY <2>1, <2>2, <2>3, <2>4 DEF Next
<1>2. Spec => [][Spared]_vars
  BY <1>1, DbExecInvariant, PTL DEF Spec
<1> QED BY <1>2 DEF SessionsSpared, Spared

-----------------------------------------------------------------------------
(* Ports, hosts and files *)

\* Where a command goes by its port.
Tunneled == {"forward", "wait", "script", "sqlplus", "clean"}

\* d took the port from c, at c's target i.
Took(c, d, i) == [kind |-> "port", who |-> c, at |-> i, by |-> d] \in mixups
\* Somebody took a port from c.
Intruded(c) == \E m \in mixups : m.kind = "port" /\ m.who = c
\* A file was removed before c ran it, at its target i.
RobbedAt(c, i) == \E m \in mixups : m.kind = "file" /\ m.who = c /\ m.at = i

\* There is one forward on a port, and it leads to the host of its command.  It is the one of
\* the command that goes by the port, or it has taken the port before the command met a host.
PortsOK ==
  /\ \A f \in forwards : f.to = Host(f.by)
  /\ \A f, g \in forwards : f.port = g.port => f = g
  /\ \A c \in Commands, f \in forwards :
       run[c].pc \in Tunneled /\ f.port = run[c].port =>
         f.by = c \/ run[c].met # Nobody \/ Took(c, f.by, run[c].at)

\* A command has met, and has left files on, its own host or one whose command took the port.
HostsOK ==
  /\ \A c \in Commands : run[c].met # Nobody => run[c].met \in Behind(c, run[c].at)
  /\ \A u \in uploads : u.host = Host(u.by) \/ Intruded(u.by)

\* The script that is about to be run is on the host.
FilesOK(c) ==
  run[c].pc = "sqlplus" => There(run[c].met, Current(c), uploads) \/ RobbedAt(c, run[c].at)

\* The scripts that are through have done what they are for, on the host that was met.
ScriptsDone(c) ==
  run[c].pc # "done" =>
    \/ RobbedAt(c, run[c].at)
    \/ \A j \in 1 .. run[c].script : \A x \in Did(Scripts(c)[j]) : Given(db[run[c].met][Container(c)], x)

\* A target decided "executed" is prepared on a host that was behind the port.
DecisionsOK(c) ==
  \A i \in 1 .. Len(run[c].decisions) : run[c].decisions[i] = "executed" =>
    /\ Targets(c)[i] \in HasScripts
    /\ \/ RobbedAt(c, i)
       \/ \E h \in Behind(c, i) \cap Hosts :
            \A x \in Required(Targets(c)[i]) : Given(db[h][Container(c)], x)

\* The second layer.
PInv == PortsOK /\ HostsOK /\ \A c \in Commands : FilesOK(c) /\ ScriptsDone(c) /\ DecisionsOK(c)

\* How a step of c moves its port, its host, its script and its decisions.
PortMoves(c) ==
  \/ run'[c].pc \notin Tunneled
  \/ /\ run[c].pc \in Tunneled /\ run'[c].port = run[c].port /\ run'[c].at = run[c].at
     /\ run[c].met # Nobody => run'[c].met # Nobody
  \/ FreePort(run'[c].port) /\ forwards' = forwards
Meets(c) ==
  \/ run'[c].met = Nobody
  \/ run'[c].at = run[c].at /\ run'[c].met = run[c].met
  \/ run'[c].at = run[c].at /\ run[c].pc \in Tunneled /\ run'[c].met \in Reached(c)
Proceeds(c) ==
  \/ Stays(c) /\ run[c].pc # "done" /\ run'[c].script \in {run[c].script, 0}
  \/ /\ Stays(c) /\ run[c].pc = "sqlplus" /\ run'[c].script = run[c].script + 1
     /\ run'[c].met = run[c].met
     /\ \/ ~There(run[c].met, Current(c), uploads)
        \/ \A x \in Did(Current(c)) : Given(db'[run[c].met][Container(c)], x)
  \/ Settles(c, TRUE) /\ run[c].pc # "done"
  \/ Settles(c, run[c].failed) /\ run[c].pc = "teardown"
Brings(c) ==
  run'[c].pc = "sqlplus" =>
    Stays(c) /\ run'[c].script = run[c].script /\ There(run'[c].met, Current(c), uploads')
Progress(c) == PortMoves(c) /\ Meets(c) /\ Proceeds(c) /\ Brings(c)

\* A move is progress.
LEMMA MovedProgress ==
  ASSUME NEW c \in Commands, NEW pc, Moved(c, pc), run[c].pc # "done", pc # "sqlplus",
         pc \in Tunneled => run[c].pc \in Tunneled
  PROVE  Progress(c)
BY DEF Moved, Progress, PortMoves, Meets, Proceeds, Brings, Stays

\* The end of a target is progress.
LEMMA SettledProgress ==
  ASSUME NEW c \in Commands, run[c].pc # "done",
         Settles(c, TRUE) \/ (Settles(c, run[c].failed) /\ run[c].pc = "teardown")
  PROVE  Progress(c)
BY DEF Settles, Progress, PortMoves, Meets, Proceeds, Brings, Tunneled

\* The host that is met by the way of the port is one.
LEMMA MeetsHost ==
  ASSUME IInv, NEW c \in Commands, run'[c].met \in Reached(c)
  PROVE  run'[c].met # Nobody
BY ReachedHosts, TargetsFacts

\* What each step does to the port, the host, the scripts and the decisions of a command.
LEMMA ProgressStep ==
  ASSUME IInv, NEW c \in Commands, Step(c) \/ Killed(c)
  PROVE  Progress(c)
<1>1. CASE Reap(c)
  BY <1>1, ReapStep, MovedProgress DEF Tunneled
<1>2. CASE Create(c)
  <2>1. run[c].pc = "create" /\ (Moved(c, "resolve") \/ Settles(c, TRUE))
    BY <1>2, CreateStep
  <2> QED BY <2>1, MovedProgress, SettledProgress DEF Tunneled
<1>3. CASE Resolve(c)
  <2>1. run[c].pc = "resolve"
    BY <1>3, ResolveStep
  <2>2. CASE Settles(c, TRUE)
    BY <2>1, <2>2, SettledProgress
  <2>3. CASE Stays(c) /\ run'[c].pc = "port" /\ run'[c].script = 0 /\ run'[c].met = Nobody
    BY <2>1, <2>3 DEF Progress, PortMoves, Meets, Proceeds, Brings, Tunneled
  <2> QED BY <1>3, <2>2, <2>3, ResolveStep
<1>4. CASE PickPort(c)
  <2>1. /\ Stays(c) /\ run[c].pc = "port" /\ run'[c].pc = "forward" /\ run'[c].script = 0
        /\ run'[c].met = Nobody /\ FreePort(run'[c].port) /\ forwards' = forwards
    BY <1>4, PickPortStep
  <2> QED BY <2>1 DEF Progress, PortMoves, Meets, Proceeds, Brings
<1>5. CASE OpenForward(c)
  BY <1>5, OpenForwardStep, MovedProgress DEF Tunneled
<1>6. CASE WaitForTunnel(c)
  <2>1. /\ Stays(c) /\ run[c].pc = "wait" /\ run'[c].pc \in {"script", "clean"}
        /\ run'[c].port = run[c].port /\ run'[c].script = run[c].script /\ run'[c].met = run[c].met
    BY <1>6, WaitStep
  <2> QED BY <2>1 DEF Progress, PortMoves, Meets, Proceeds, Brings, Stays, Tunneled
<1>7. CASE Upload(c)
  <2>1. /\ Stays(c) /\ run[c].pc = "script" /\ run'[c].port = run[c].port
        /\ run'[c].script = run[c].script
        /\ run'[c].met \in Reached(c) \/ run'[c].met = run[c].met
        /\ run'[c].pc = "sqlplus" => There(run'[c].met, Current(c), uploads')
    BY <1>7, UploadStep
  <2> QED BY <2>1, MeetsHost DEF Progress, PortMoves, Meets, Proceeds, Brings, Stays, Tunneled
<1>8. CASE RunScript(c)
  <2>1. /\ Stays(c) /\ run[c].pc = "sqlplus" /\ run'[c].pc \in {"script", "clean"}
        /\ run'[c].port = run[c].port /\ run'[c].met = run[c].met
        /\ \/ run'[c].script = run[c].script
           \/ /\ run'[c].script = run[c].script + 1
              /\ \/ ~There(run[c].met, Current(c), uploads)
                 \/ \A x \in Did(Current(c)) : Given(db'[run[c].met][Container(c)], x)
    BY <1>8, RunScriptStep
  <2> QED BY <2>1 DEF Progress, PortMoves, Meets, Proceeds, Brings, Stays, Tunneled
<1>9. CASE CleanRemote(c)
  <2>1. /\ Stays(c) /\ run[c].pc = "clean" /\ run'[c].pc = "teardown"
        /\ run'[c].script = run[c].script
        /\ run'[c].met \in Reached(c) \/ run'[c].met = run[c].met
    BY <1>9, CleanStep
  <2> QED BY <2>1 DEF Progress, PortMoves, Meets, Proceeds, Brings, Stays, Tunneled
<1>10. CASE Teardown(c)
  <2>1. Settles(c, run[c].failed) /\ run[c].pc = "teardown"
    BY <1>10, TeardownStep
  <2> QED BY <2>1, SettledProgress
<1>11. CASE Killed(c)
  BY <1>11, KilledStep, MovedProgress DEF Final, Tunneled
<1> QED BY <1>1, <1>2, <1>3, <1>4, <1>5, <1>6, <1>7, <1>8, <1>9, <1>10, <1>11 DEF Step

\* What is behind a command's port: the host it has met, its own, or one whose command took
\* the port.
LEMMA ReachedHost ==
  ASSUME PortsOK, HostsOK, NEW c \in Commands, run[c].pc \in Tunneled, NEW h \in Reached(c)
  PROVE  h \in Behind(c, run[c].at) /\ run[c].met \in {Nobody, h}
<1>1. PICK f \in forwards : f.port = run[c].port /\ run[c].met \in {Nobody, f.to} /\ h = f.to
  BY DEF Reached, Listening
<1>2. f.to = Host(f.by)
  BY DEF PortsOK
<1>3. CASE f.by = c
  BY <1>1, <1>2, <1>3 DEF Behind
<1>4. CASE run[c].met # Nobody
  BY <1>1, <1>4 DEF HostsOK
<1>5. CASE Took(c, f.by, run[c].at)
  <2> DEFINE m == [kind |-> "port", who |-> c, at |-> run[c].at, by |-> f.by]
  <2>1. m \in mixups /\ m.kind = "port" /\ m.who = c /\ m.at = run[c].at /\ m.by = f.by
    BY <1>5 DEF Took
  <2> QED BY <1>1, <1>2, <2>1 DEF Behind
<1> QED BY <1>1, <1>3, <1>4, <1>5 DEF PortsOK

\* Mix-ups are not forgotten.
LEMMA MixupsStay ==
  ASSUME mixups \subseteq mixups', NEW c, NEW i
  PROVE  /\ Behind(c, i) \subseteq Behind(c, i)' /\ (RobbedAt(c, i) => RobbedAt(c, i)')
         /\ (Intruded(c) => Intruded(c)') /\ \A d : Took(c, d, i) => Took(c, d, i)'
BY DEF Behind, RobbedAt, Intruded, Took

\* Only an intruder's host is behind a port that is not the command's own.
LEMMA BehindFacts ==
  ASSUME NEW c, NEW i, NEW h \in Behind(c, i)
  PROVE  h = Host(c) \/ Intruded(c)
BY DEF Behind, Intruded

\* Whoever opens a forward on a port has it for itself, and it is a mix-up for all others
\* who go by that port.
LEMMA PortsStep ==
  ASSUME IInv, PortsOK, NEW c \in Commands, Effects(c), Progress(c)
  PROVE  PortsOK'
<1>1. /\ \A d \in Commands : d # c => run'[d] = run[d]
      /\ \A f \in forwards' : f \in forwards \/ Opened(c, f)
      /\ mixups \subseteq mixups' /\ PortMoves(c)
  BY DEF Effects, Advances, Progress
<1>2. Tunnel(c).port = run[c].port /\ Tunnel(c).by = c /\ Tunnel(c).to = Host(c)
  BY DEF Tunnel
<1>3. ASSUME NEW f \in forwards' PROVE f.to = Host(f.by)
  BY <1>1, <1>2 DEF PortsOK, Opened
<1>4. ASSUME NEW f \in forwards', NEW g \in forwards', f.port = g.port PROVE f = g
  <2>1. CASE f \in forwards /\ g \in forwards
    BY <2>1, <1>4 DEF PortsOK
  <2>2. CASE Opened(c, f) /\ g \in forwards
    BY <2>2, <1>2, <1>4 DEF Opened, Listening
  <2>3. CASE Opened(c, g) /\ f \in forwards
    BY <2>3, <1>2, <1>4 DEF Opened, Listening
  <2>4. CASE Opened(c, f) /\ Opened(c, g)
    BY <2>4 DEF Opened
  <2> QED BY <1>1, <2>1, <2>2, <2>3, <2>4
<1>5. ASSUME NEW d \in Commands, NEW f \in forwards', run'[d].pc \in Tunneled, f.port = run'[d].port
      PROVE  f.by = d \/ run'[d].met # Nobody \/ [kind |-> "port", who |-> d, at |-> run'[d].at, by |-> f.by] \in mixups'
  <2>1. CASE f \in forwards /\ run[d].pc \in Tunneled /\ run'[d].port = run[d].port
             /\ run'[d].at = run[d].at /\ (run[d].met # Nobody => run'[d].met # Nobody)
    <3>1. f.by = d \/ run[d].met # Nobody \/ Took(d, f.by, run[d].at)
      BY <2>1, <1>5 DEF PortsOK
    <3>2. CASE Took(d, f.by, run[d].at)
      <4>1. [kind |-> "port", who |-> d, at |-> run[d].at, by |-> f.by] \in mixups'
        BY <3>2, <1>1 DEF Took
      <4> QED BY <4>1, <2>1 DEF Took
    <3> QED BY <2>1, <3>1, <3>2
  <2>2. CASE f \in forwards /\ d = c /\ FreePort(run'[c].port)
    BY <2>2, <1>5 DEF FreePort, Listening
  <2>3. CASE Opened(c, f) /\ d = c
    BY <2>3, <1>2 DEF Opened
  <2>4. CASE Opened(c, f) /\ d # c
    <3>1. run'[d] = run[d] /\ run[d].port = run[c].port /\ f.by = c
      BY <2>4, <1>1, <1>2, <1>5 DEF Opened
    <3>2. CASE run[d].met = Nobody
      <4>1. run[d].pc # "sqlplus"
        BY <3>2, AtStep DEF RunOK
      <4>2. d \in Rivals(c)
        BY <2>4, <3>1, <3>2, <4>1, <1>5 DEF Rivals, Tunneled
      <4>3. [kind |-> "port", who |-> d, at |-> run'[d].at, by |-> c] \in mixups'
        BY <2>4, <3>1, <4>2 DEF Opened, Mixup
      <4> QED BY <3>1, <4>3 DEF Took
    <3> QED BY <3>1, <3>2
  <2> QED BY <2>1, <2>2, <2>3, <2>4, <1>1, <1>5 DEF PortMoves
<1>6. /\ \A f \in forwards' : f.to = Host(f.by)
      /\ \A f, g \in forwards' : f.port = g.port => f = g
      /\ \A d \in Commands, f \in forwards' :
           run'[d].pc \in Tunneled /\ f.port = run'[d].port =>
             f.by = d \/ run'[d].met # Nobody \/ [kind |-> "port", who |-> d, at |-> run'[d].at, by |-> f.by] \in mixups'
  BY <1>3, <1>4, <1>5
<1> QED BY <1>6 DEF PortsOK, Took

\* A command meets, and leaves files on, no host but its own and those of intruders.
LEMMA HostsStep ==
  ASSUME IInv, PortsOK, HostsOK, NEW c \in Commands, Effects(c), Progress(c)
  PROVE  HostsOK'
<1>1. /\ \A d \in Commands : d # c => run'[d] = run[d]
      /\ mixups \subseteq mixups' /\ Meets(c)
  BY DEF Effects, Advances, Progress
<1>2. ASSUME NEW d \in Commands, run'[d].met # Nobody
      PROVE  run'[d].met \in {Host(d)} \cup
               {Host(m.by) : m \in {x \in mixups' : x.kind = "port" /\ x.who = d /\ x.at = run'[d].at}}
  <2>1. run'[d].at = run[d].at /\ run'[d].met \in Behind(d, run[d].at)
    <3>1. CASE run'[d].at = run[d].at /\ run'[d].met = run[d].met
      BY <3>1, <1>2 DEF HostsOK
    <3>2. CASE d = c /\ run'[d].at = run[d].at /\ run[d].pc \in Tunneled /\ run'[d].met \in Reached(d)
      BY <3>2, ReachedHost
    <3> QED BY <1>1, <1>2, <3>1, <3>2 DEF Meets
  <2> QED BY <2>1, <1>1 DEF Behind
<1>3. ASSUME NEW u \in uploads' PROVE u.host = Host(u.by) \/ (\E m \in mixups' : m.kind = "port" /\ m.who = u.by)
  <2>1. u.host = Host(u.by) \/ Intruded(u.by)
    <3>1. CASE u \in uploads
      BY <3>1 DEF HostsOK
    <3>2. CASE Copies(c, u)
      <4>1. u.by = c /\ u.host \in Behind(c, run[c].at)
        BY <3>2, ReachedHost DEF Copies, Tunneled
      <4> QED BY <4>1, BehindFacts
    <3> QED BY <3>1, <3>2 DEF Effects
  <2> QED BY <2>1, <1>1 DEF Intruded
<1>4. /\ \A d \in Commands : run'[d].met # Nobody => run'[d].met \in {Host(d)} \cup
               {Host(m.by) : m \in {x \in mixups' : x.kind = "port" /\ x.who = d /\ x.at = run'[d].at}}
      /\ \A u \in uploads' : u.host = Host(u.by) \/ (\E m \in mixups' : m.kind = "port" /\ m.who = u.by)
  BY <1>2, <1>3
<1> QED BY <1>4 DEF HostsOK, Behind, Intruded

\* A script that was copied is there until it is run, or it was removed by another command.
LEMMA FilesStep ==
  ASSUME IInv, PInv, NEW c \in Commands, Effects(c), Progress(c), NEW d \in Commands
  PROVE  FilesOK(d)'
<1>1. FilesOK(d) /\ mixups \subseteq mixups'
  BY DEF PInv, Effects
<1>2. CASE d = c
  <2> SUFFICES ASSUME run'[c].pc = "sqlplus"
               PROVE  There(run'[c].met, Scripts(c)'[run'[c].script + 1], uploads')
    BY <1>2 DEF FilesOK, Current, There
  <2>1. Stays(c) /\ run'[c].script = run[c].script /\ There(run'[c].met, Current(c), uploads')
    BY DEF Progress, Brings
  <2>2. Scripts(c)' = Scripts(c)
    BY <2>1 DEF Scripts, Target, Stays
  <2> QED BY <2>1, <2>2 DEF Current
<1>3. CASE d # c
  <2>1. run'[d] = run[d]
    BY <1>3 DEF Effects, Advances
  <2>2. Scripts(d)' = Scripts(d)
    BY <2>1 DEF Scripts, Target
  <2>3. CASE RobbedAt(d, run[d].at)
    BY <2>1, <2>3, <1>1 DEF FilesOK, RobbedAt
  <2>4. CASE run[d].pc = "sqlplus" /\ Mixup("file", d, c) \in mixups'
    <3>1. PICK m \in mixups' : m.kind = "file" /\ m.who = d /\ m.at = run[d].at
      BY <2>4 DEF Mixup
    <3>2. RobbedAt(d, run[d].at)'
      BY <3>1, <2>1 DEF RobbedAt
    <3> QED BY <3>2 DEF FilesOK
  <2>5. CASE There(run[d].met, Current(d), uploads')
    BY <2>1, <2>2, <2>5 DEF FilesOK, Current, There
  <2>6. CASE run[d].pc # "sqlplus"
    BY <2>1, <2>6 DEF FilesOK
  <2> QED BY <1>1, <1>3, <2>3, <2>4, <2>5, <2>6 DEF FilesOK, Effects, FilesStay
<1> QED BY <1>2, <1>3

\* A host that is met stays met.
LEMMA MetStays ==
  ASSUME IInv, PInv, NEW c \in Commands, Effects(c), Progress(c), run[c].met # Nobody, run'[c].met # Nobody
  PROVE  run'[c].met = run[c].met
<1>1. CASE run[c].pc \in Tunneled /\ run'[c].met \in Reached(c)
  BY <1>1, ReachedHost DEF PInv
<1> QED BY <1>1 DEF Progress, Meets

\* What the scripts that are through have done is still there, and a target is recorded as
\* "executed" only after the last of them.
LEMMA DoneStep ==
  ASSUME IInv, PInv, NEW c \in Commands, Effects(c), Progress(c), NEW d \in Commands
  PROVE  ScriptsDone(d)' /\ DecisionsOK(d)'
<1> DEFINE m == Container(d)
<1>1. m \in Containers
  BY DEF Container, Containers
<1>2. \A h \in Hosts : \A x : Given(db[h][m], x) => Given(db'[h][m], x)
  BY <1>1 DEF Effects, Keeps
<1>3. FilesOK(d) /\ ScriptsDone(d) /\ DecisionsOK(d) /\ HostsOK /\ mixups \subseteq mixups'
  BY DEF PInv, Effects
<1> HIDE DEF m
<1>20. \A i : /\ RobbedAt(d, i) => \E x \in mixups' : x.kind = "file" /\ x.who = d /\ x.at = i
              /\ Behind(d, i) \subseteq {Host(d)} \cup
                   {Host(x.by) : x \in {y \in mixups' : y.kind = "port" /\ y.who = d /\ y.at = i}}
  BY <1>3 DEF RobbedAt, Behind
<1>21. run[d] \in Run /\ RunOK(d, run[d]) /\ RunOK(d, run'[d]) /\ run'[d] \in Run
  <2>1. RunOK(d, run'[d])
    BY AtStep DEF Effects, Advances
  <2> QED BY <2>1, AtStep DEF RunOK
<1>4. ASSUME NEW i \in 1 .. Len(run[d].decisions), run[d].decisions[i] = "executed"
      PROVE  /\ Targets(d)[i] \in HasScripts
             /\ \/ \E x \in mixups' : x.kind = "file" /\ x.who = d /\ x.at = i
                \/ \E h \in ({Host(d)} \cup
                     {Host(x.by) : x \in {y \in mixups' : y.kind = "port" /\ y.who = d /\ y.at = i}}) \cap Hosts :
                     \A x \in Required(Targets(d)[i]) : Given(db'[h][m], x)
  <2>1. Targets(d)[i] \in HasScripts
    BY <1>3, <1>4 DEF DecisionsOK
  <2>2. CASE RobbedAt(d, i)
    BY <2>1, <2>2, <1>20
  <2>3. CASE \E h \in Behind(d, i) \cap Hosts : \A x \in Required(Targets(d)[i]) : Given(db[h][m], x)
    <3>1. PICK h \in Behind(d, i) \cap Hosts : \A x \in Required(Targets(d)[i]) : Given(db[h][m], x)
      BY <2>3
    <3>2. \A x \in Required(Targets(d)[i]) : Given(db'[h][m], x)
      BY <3>1, <1>2
    <3>3. h \in {Host(d)} \cup
                {Host(x.by) : x \in {y \in mixups' : y.kind = "port" /\ y.who = d /\ y.at = i}}
      BY <3>1, <1>20
    <3> QED BY <2>1, <3>1, <3>2, <3>3
  <2> QED BY <2>2, <2>3, <1>3, <1>4 DEF DecisionsOK, m
<1>5. ASSUME run'[d].decisions = run[d].decisions PROVE DecisionsOK(d)'
  BY <1>4, <1>5 DEF DecisionsOK, RobbedAt, Behind, m
<1>6. ASSUME run'[d].at = run[d].at, run'[d].script \in {run[d].script, 0}, run[d].pc # "done",
             run[d].met # Nobody /\ run'[d].met # Nobody => run'[d].met = run[d].met
      PROVE  ScriptsDone(d)'
  <2>1. Scripts(d)' = Scripts(d)
    BY <1>6 DEF Scripts, Target
  <2>2. CASE RobbedAt(d, run[d].at)
    BY <2>2, <1>6, <1>20 DEF ScriptsDone, RobbedAt
  <2>3. CASE run'[d].script = 0
    BY <2>3 DEF ScriptsDone
  <2>4. CASE run'[d].script = run[d].script /\ run[d].script # 0
             /\ \A j \in 1 .. run[d].script : \A x \in Did(Scripts(d)[j]) : Given(db[run[d].met][m], x)
    <3>1. run[d].met # Nobody /\ run'[d].met = run[d].met /\ run[d].met \in Hosts
      BY <2>4, <1>6, <1>21 DEF RunOK, Run
    <3> QED BY <2>1, <2>4, <3>1, <1>2 DEF ScriptsDone, m
  <2> QED BY <2>2, <2>3, <2>4, <1>3, <1>6 DEF ScriptsDone, m
<1>7. CASE d # c
  <2>1. run'[d] = run[d]
    BY <1>7 DEF Effects, Advances
  <2>2. CASE run[d].pc = "done"
    BY <2>1, <2>2, <1>5 DEF ScriptsDone
  <2> QED BY <2>1, <2>2, <1>5, <1>6
<1>8. CASE d = c /\ Stays(d) /\ run[d].pc # "done" /\ run'[d].script \in {run[d].script, 0}
  <2>1. run[d].met # Nobody /\ run'[d].met # Nobody => run'[d].met = run[d].met
    BY <1>8, MetStays
  <2> QED BY <2>1, <1>5, <1>6, <1>8 DEF Stays
<1>9. CASE /\ d = c /\ Stays(d) /\ run[d].pc = "sqlplus" /\ run'[d].script = run[d].script + 1
           /\ run'[d].met = run[d].met
           /\ \/ ~There(run[d].met, Current(d), uploads)
              \/ \A x \in Did(Current(d)) : Given(db'[run[d].met][Container(d)], x)
  <2>1. run[d].script \in Nat /\ Scripts(d)' = Scripts(d) /\ run'[d].at = run[d].at
        /\ run[d].met \in Hosts
    BY <1>9, <1>21 DEF Run, RunOK, Stays, Scripts, Target
  <2>2. CASE RobbedAt(d, run[d].at)
    BY <2>1, <2>2, <1>5, <1>9, <1>20 DEF ScriptsDone, RobbedAt, Stays
  <2>3. CASE ~RobbedAt(d, run[d].at)
    <3>1. \A x \in Did(Scripts(d)[run[d].script + 1]) : Given(db'[run[d].met][m], x)
      BY <2>3, <1>3, <1>9 DEF FilesOK, Current, m
    <3>2. ASSUME NEW j \in 1 .. run[d].script + 1, NEW x \in Did(Scripts(d)[j])
          PROVE  Given(db'[run[d].met][m], x)
      <4>1. CASE j = run[d].script + 1
        BY <4>1, <3>1, <3>2
      <4>2. CASE j \in 1 .. run[d].script
        BY <4>2, <3>2, <2>1, <2>3, <1>2, <1>3, <1>9 DEF ScriptsDone, m
      <4> QED BY <4>1, <4>2, <2>1
    <3>3. ScriptsDone(d)'
      BY <2>1, <3>2, <1>9 DEF ScriptsDone, m
    <3> QED BY <3>3, <1>5, <1>9 DEF Stays
  <2> QED BY <2>2, <2>3
<1>10. ASSUME d = c, run[d].pc # "done", NEW failed \in BOOLEAN, Settles(d, failed),
              failed \/ (run[d].pc = "teardown" /\ ~run[d].failed)
       PROVE  ScriptsDone(d)' /\ DecisionsOK(d)'
  <2>1. ScriptsDone(d)'
    BY <1>10 DEF Settles, ScriptsDone
  <2>2. ASSUME NEW i \in 1 .. Len(run'[d].decisions), run'[d].decisions[i] = "executed"
        PROVE  /\ Targets(d)[i] \in HasScripts
               /\ \/ \E x \in mixups' : x.kind = "file" /\ x.who = d /\ x.at = i
                  \/ \E h \in ({Host(d)} \cup
                       {Host(x.by) : x \in {y \in mixups' : y.kind = "port" /\ y.who = d /\ y.at = i}}) \cap Hosts :
                       \A x \in Required(Targets(d)[i]) : Given(db'[h][m], x)
    <3>1. CASE i \in 1 .. run[d].at - 1 /\ run[d].decisions[i] = "executed"
      <4>1. i \in 1 .. Len(run[d].decisions)
        BY <3>1, <1>10, <1>21 DEF RunOK
      <4> QED BY <3>1, <4>1, <1>4
    <3>2. CASE i = run[d].at /\ ~failed
      <4>1. /\ run[d].pc = "teardown" /\ ~run[d].failed /\ RunOK(d, run[d])
            /\ Target(d) \in HasScripts /\ Scripts(d) = ScriptsOf(d, run[d]) /\ Len(Scripts(d)) # 0
        <5>1. Len(Scripts(d)) \in 5 .. 6
          BY <1>10, AtStep
        <5>2. \A n \in 5 .. 6 : n # 0
          OBVIOUS
        <5> QED BY <5>1, <5>2, <3>2, <1>10, AtStep
      <4>2. run[d].script = Len(Scripts(d)) /\ Targets(d)[i] = Target(d)
        BY <3>2, <4>1 DEF RunOK, Target
      <4>3. CASE RobbedAt(d, i)
        BY <4>1, <4>2, <4>3, <1>20
      <4>4. CASE ~RobbedAt(d, i)
        <5>1. run[d].met # Nobody /\ run[d].met \in Hosts
          <6>1. run[d].script # 0
            BY <4>1, <4>2
          <6>2. run[d].met \in Hosts \cup {Nobody}
            BY <1>21 DEF Run
          <6> QED BY <6>1, <6>2, <1>21 DEF RunOK
        <5>2. ASSUME NEW x \in Required(Target(d)) PROVE Given(db'[run[d].met][m], x)
          <6>1. PICK j \in 1 .. Len(Scripts(d)) : x \in Did(Scripts(d)[j])
            BY <4>1, <5>2, ScriptsFacts DEF Scripts
          <6>2. Given(db[run[d].met][m], x)
            BY <6>1, <4>1, <4>2, <4>4, <3>2, <1>3 DEF ScriptsDone, m
          <6> QED BY <6>2, <5>1, <1>2
        <5>3. run[d].met \in Behind(d, i)
          BY <5>1, <3>2, <1>3 DEF HostsOK
        <5>4. run[d].met \in {Host(d)} \cup
                {Host(x.by) : x \in {y \in mixups' : y.kind = "port" /\ y.who = d /\ y.at = i}}
          BY <5>3, <1>20
        <5> QED BY <4>1, <4>2, <5>1, <5>2, <5>4
      <4> QED BY <4>3, <4>4
    <3> QED BY <2>2, <3>1, <3>2, <1>10 DEF Settles
  <2> QED BY <2>1, <2>2 DEF DecisionsOK, RobbedAt, Behind, m
<1>11. CASE d = c /\ Settles(d, TRUE) /\ run[d].pc # "done"
  BY <1>10, <1>11
<1>12. CASE d = c /\ Settles(d, run[d].failed) /\ run[d].pc = "teardown"
  <2>1. run[d].failed \in BOOLEAN
    BY AtStep DEF Run
  <2>2. CASE run[d].failed = TRUE
    BY <1>10, <1>12, <2>2
  <2>3. CASE run[d].failed = FALSE
    BY <1>10, <1>12, <2>3
  <2> QED BY <2>1, <2>2, <2>3
<1> QED BY <1>7, <1>8, <1>9, <1>11, <1>12 DEF Progress, Proceeds

\* The ports, hosts and decisions before the first step.
LEMMA InitPorts == Init => PInv
<1> SUFFICES ASSUME Init PROVE PInv
  OBVIOUS
<1>1. forwards = {} /\ uploads = {}
  BY DEF Init
<1>2. PortsOK /\ HostsOK
  BY <1>1, InitRun DEF PortsOK, HostsOK
<1>3. ASSUME NEW c \in Commands PROVE FilesOK(c) /\ ScriptsDone(c) /\ DecisionsOK(c)
  BY InitRun DEF FilesOK, ScriptsDone, DecisionsOK
<1> QED BY <1>2, <1>3 DEF PInv

\* Time and the end of sessions take neither a port nor a grant away.
LEMMA IdlePorts ==
  ASSUME PInv, NobodyMoves
  PROVE  PInv'
<1>1. run' = run /\ forwards' \subseteq forwards /\ mixups' = mixups /\ uploads' = uploads /\ db' = db
  BY AliveShrinks DEF NobodyMoves
<1>2. PortsOK'
  BY <1>1 DEF PInv, PortsOK, Took
<1>3. HostsOK'
  BY <1>1 DEF PInv, HostsOK, Behind, Intruded
<1>4. ASSUME NEW c \in Commands PROVE FilesOK(c)' /\ ScriptsDone(c)' /\ DecisionsOK(c)'
  BY <1>1 DEF PInv, FilesOK, ScriptsDone, DecisionsOK, Current, Scripts, Target, There, RobbedAt, Behind
<1> QED BY <1>2, <1>3, <1>4 DEF PInv

\* Every step keeps what is true of ports, hosts and decisions.
LEMMA NextPorts == IInv /\ PInv /\ [Next]_vars => PInv'
<1> SUFFICES ASSUME IInv, PInv, [Next]_vars PROVE PInv'
  OBVIOUS
<1>1. ASSUME NEW c \in Commands, Step(c) \/ Killed(c) PROVE PInv'
  <2>1. Effects(c) /\ Progress(c)
    BY <1>1, ChosenStep, ProgressStep
  <2> QED BY <2>1, PortsStep, HostsStep, FilesStep, DoneStep DEF PInv
<1>2. CASE Tick \/ Expire \/ UNCHANGED vars
  BY <1>2, IdleStep, IdlePorts
<1> QED BY <1>1, <1>2 DEF Next

\* Both invariants together.
LEMMA PortsInvariant == Spec => [](IInv /\ PInv)
BY InitInv, NextInv, InitPorts, NextPorts, PTL DEF Spec

\* A command only ever talks to its own host, and not at all for a production profile, unless
\* another command's forward took the port between _free_port and ssh: a forward that an
\* earlier command left is never reused (bastion_exec.py, the docstring of the module).
THEOREM DbExecOwnHostOnly == Spec => []OwnHostOnly
<1>1. IInv /\ PInv => OwnHostOnly
  <2> SUFFICES ASSUME IInv, PInv, NEW c \in Commands, run[c].met # Nobody
               PROVE  c \notin Production /\ run[c].met \in Behind(c, run[c].at)
    BY DEF OwnHostOnly
  <2>1. run[c].met \in Behind(c, run[c].at)
    BY DEF PInv, HostsOK
  <2>2. run[c].pc # "done"
    BY AtStep DEF RunOK, Before
  <2> QED BY <2>1, <2>2, AtStep DEF RunOK
<1> QED BY <1>1, PortsInvariant, PTL

\* A target recorded as "executed" has its monitoring user, open and with all the grants of
\* its scripts, however other commands broke off (db_exec.py:139-151), on the host the
\* scripts went to; unless another command removed the file of a script before it was run.
THEOREM DbExecExecutedMeansPrepared == Spec => []ExecutedMeansPrepared
<1>1. IInv /\ PInv => ExecutedMeansPrepared
  <2> SUFFICES ASSUME IInv, PInv, NEW c \in Commands, NEW i \in DOMAIN Targets(c),
                      Decided(c, i), run[c].decisions[i] = "executed", ~RobbedAt(c, i)
               PROVE  \E h \in Behind(c, i) :
                        LET u == db[h][Container(c)]
                        IN  u.exists /\ u.open
                            /\ Grants \ (IF Targets(c)[i] \in WantsSafe THEN {} ELSE {"auditing"}) \subseteq u.grants
    BY DEF ExecutedMeansPrepared, RobbedAt
  <2> DEFINE g == Grants \ (IF Targets(c)[i] \in WantsSafe THEN {} ELSE {"auditing"})
  <2>1. i \in 1 .. Len(run[c].decisions)
    BY TargetsFacts, AtStep DEF Decided, Run
  <2>2. PICK h \in Behind(c, i) : \A x \in Required(Targets(c)[i]) : Given(db[h][Container(c)], x)
    BY <2>1 DEF PInv, DecisionsOK
  <2> DEFINE u == db[h][Container(c)]
  <2>3. Given(u, "account") /\ \A x \in g : Given(u, x)
    BY <2>2 DEF Required
  <2>4. \A x \in g : x # "account"
    BY DEF Grants
  <2> HIDE DEF u, g
  <2>5. u.exists /\ u.open /\ g \subseteq u.grants
    BY <2>3, <2>4 DEF Given
  <2> QED BY <2>5 DEF u, g
<1> QED BY <1>1, PortsInvariant, PTL

-----------------------------------------------------------------------------
(* What a command leaves behind *)

\* The command goes on with a session of another.
Strayed(c) == \E m \in mixups : m.kind = "session" /\ m.who = c
\* So it does, or another with its own.
Entangled(c) == \E m \in mixups : m.kind = "session" /\ c \in {m.who, m.by}

\* The command's session may be over, or ended by another.
Cut(c) == now > Began + TTL \/ Entangled(c)
\* The command may have lost its session.
Lost(c) == Failed("create") \/ Failed("resolve") \/ Failed("delete") \/ Strayed(c)

\* A session of a command is no older than the model.
Born == \A s \in sessions : s.by # Nobody => s.born >= Began

\* Where a command holds a forward.
Held == {"wait", "script", "sqlplus", "clean", "killed"}
\* A forward is there only while its command holds it.
ForwardsOwn == \A f \in forwards : run[f.by].pc \in Held

\* The use of another's session is a mix-up.
Borrowings ==
  \A d \in Commands, s \in sessions :
    run[d].pc \in Users /\ s.id = run[d].session /\ s.by # d =>
      Mixup("session", d, s.by) \in mixups

\* The sessions of a command, unless one got lost: none before it creates one, then one, the
\* one it uses.
SessionsOwn(c) ==
  \/ Lost(c)
  \/ \A s \in sessions : s.by = c =>
       /\ run[c].pc \notin {"done", "reap", "create"}
       /\ run[c].pc = "resolve" => \A x \in sessions : x.by = c => x = s
       /\ run[c].pc \in Users => s.id = run[c].session

\* Until it is cut, the session a command works with is its own, and it is there.
SessionAlive(c) ==
  \/ Cut(c)
  \/ run[c].pc \in Users => \E s \in sessions : s.by = c /\ s.id = run[c].session

\* Until then, and unless its port is taken, a command that waits or works has its forward.
ForwardAlive(c) ==
  \/ Cut(c) \/ Intruded(c)
  \/ run[c].pc \in {"wait", "script", "sqlplus", "clean"} =>
       \E f \in forwards : f.by = c /\ f.port = run[c].port /\ f.session = run[c].session

\* Until then, the files of a command have the names it is to remove; after the clean-up there
\* are none, unless that failed.
UploadsOwn(c) ==
  \/ Cut(c) \/ Intruded(c) \/ Failed("remove") \/ run[c].pc = "killed"
  \/ \A u \in uploads : u.by = c =>
       run[c].pc \in {"script", "sqlplus", "clean"} /\ u.script \in Sent(c)

\* What the third layer says of one command.
Left(c) == SessionsOwn(c) /\ SessionAlive(c) /\ ForwardAlive(c) /\ UploadsOwn(c)

\* The third layer.
LInv == now >= Began /\ Born /\ ForwardsOwn /\ Borrowings /\ \A c \in Commands : Left(c)

\* Failures, mix-ups and the end of the sessions' time are for good.
LEMMA Forever ==
  ASSUME IInv, NEW c \in Commands, faults \subseteq faults', mixups \subseteq mixups',
         now' \in Nat, now' >= now
  PROVE  /\ Cut(c) => Cut(c)'
         /\ Lost(c) => Lost(c)'
         /\ Intruded(c) => Intruded(c)'
         /\ Failed("remove") => Failed("remove")'
<1>1. now \in Nat /\ Began \in Nat /\ TTL \in Nat
  BY DbExecAssumption DEF IInv, Types, Began
<1>2. now > Began + TTL => now' > Began + TTL
  BY <1>1
<1>3. (Cut(c) => Cut(c)') /\ (Lost(c) => Lost(c)')
  BY <1>2 DEF Cut, Lost, Failed, Entangled, Strayed, Began
<1> QED BY <1>3 DEF Intruded, Failed

\* The same of a step of any command.
LEMMA ForeverStep ==
  ASSUME IInv, NEW c \in Commands, NEW d \in Commands, Effects(d)
  PROVE  /\ Cut(c) => Cut(c)'
         /\ Lost(c) => Lost(c)'
         /\ Intruded(c) => Intruded(c)'
         /\ Failed("remove") => Failed("remove")'
<1>1. faults \subseteq faults' /\ mixups \subseteq mixups' /\ now' \in Nat /\ now' >= now
  BY DEF Effects, IInv, Types
<1> QED BY <1>1, Forever

\* What other commands' steps leave a command: its session until it is cut, and its forward as
\* long as the session.
LEMMA Survivors ==
  ASSUME IInv, LInv, NEW d \in Commands, Step(d) \/ Killed(d), NEW c \in Commands, c # d
  PROVE  /\ \A s \in sessions : s.by = c /\ ~Cut(c) => s \in sessions'
         /\ \A f \in forwards : f.by = c /\ (\E s \in sessions' : s.id = f.session) => f \in forwards'
<1>1. CASE Reap(d)
  <2>1. ASSUME NEW s \in sessions, s.by = c, ~Cut(c) PROVE s \in sessions'
    <3>1. s.born \in Nat /\ now \in Nat /\ TTL \in Nat /\ Began \in Nat
      BY TargetsFacts DEF IInv, Types, Session
    <3>2. s.born >= Began
      BY <2>1, TargetsFacts DEF LInv, Born
    <3>3. ~(now - s.born > TTL)
      BY <2>1, <3>1, <3>2 DEF Cut
    <3> QED BY <1>1, <3>3, ReapStep DEF Stale
  <2>2. forwards' = Alive(forwards, sessions')
    BY <1>1, ReapStep
  <2> QED BY <2>1, <2>2 DEF Alive
<1>2. CASE Create(d)
  BY <1>2 DEF Create
<1>3. CASE Resolve(d)
  BY <1>3, ResolveStep
<1>4. CASE PickPort(d)
  BY <1>4, PickPortStep
<1>5. CASE OpenForward(d)
  BY <1>5, OpenForwardStep
<1>6. CASE WaitForTunnel(d)
  BY <1>6, WaitStep
<1>7. CASE Upload(d)
  BY <1>7, UploadStep
<1>8. CASE RunScript(d)
  BY <1>8, RunScriptStep
<1>9. CASE CleanRemote(d)
  BY <1>9, CleanStep DEF Own
<1>10. CASE Teardown(d)
  <2>1. ASSUME NEW s \in sessions, s.by = c, ~Cut(c) PROVE s \in sessions'
    <3>1. run[d].pc \in Users
      BY <1>10, TeardownStep DEF Users
    <3>2. CASE s.id = run[d].session
      <4>1. Mixup("session", d, c) \in mixups
        BY <2>1, <3>1, <3>2 DEF LInv, Borrowings
      <4>2. Entangled(c)
        BY <4>1 DEF Entangled, Mixup
      <4> QED BY <2>1, <4>2 DEF Cut
    <3>3. CASE s.id # run[d].session
      BY <1>10, <3>3, TeardownStep
    <3> QED BY <3>2, <3>3
  <2>2. forwards' = Alive(forwards, sessions')
    BY <1>10, TeardownStep
  <2> QED BY <2>1, <2>2 DEF Alive
<1>11. CASE Killed(d)
  BY <1>11, KilledStep
<1> QED BY <1>1, <1>2, <1>3, <1>4, <1>5, <1>6, <1>7, <1>8, <1>9, <1>10, <1>11 DEF Step

\* The sessions of a command are made by it alone.
LEMMA SessionsOfOthers ==
  ASSUME IInv, NEW d \in Commands, Effects(d), NEW c \in Commands, c # d, NEW s \in sessions', s.by = c
  PROVE  s \in sessions
<1>1. CASE run[d].pc = "create" /\ sessions' = sessions \cup {NewSession(d)}
  BY <1>1, NewSessionFacts
<1> QED BY <1>1 DEF Effects, Grows

\* The steps of other commands leave a command its session, its forward and the claim
\* about its files.
LEMMA LeftByOthers ==
  ASSUME IInv, LInv, NEW d \in Commands, Step(d) \/ Killed(d), Effects(d),
         NEW c \in Commands, c # d
  PROVE  Left(c)'
<1>1. run'[c] = run[c] /\ Sent(c)' = Sent(c)
  BY DEF Effects, Advances, Sent, Scripts, Target
<1>2. /\ Cut(c) => Cut(c)'
      /\ Lost(c) => Lost(c)'
      /\ Intruded(c) => Intruded(c)'
      /\ Failed("remove") => Failed("remove")'
  BY ForeverStep
<1>3. \A s \in sessions' : s.by = c => s \in sessions
  BY SessionsOfOthers
<1>4. SessionsOwn(c) /\ SessionAlive(c) /\ ForwardAlive(c) /\ UploadsOwn(c)
  BY DEF LInv, Left
<1>5. SessionsOwn(c)'
  BY <1>1, <1>2, <1>3, <1>4 DEF SessionsOwn
<1>6. ASSUME ~Cut(c), run[c].pc \in Users
      PROVE  \E s \in sessions : s.by = c /\ s.id = run[c].session /\ s \in sessions'
  BY <1>4, <1>6, Survivors DEF SessionAlive
<1>7. SessionAlive(c)'
  BY <1>1, <1>2, <1>6 DEF SessionAlive
<1>8. ForwardAlive(c)'
  <2>1. CASE Cut(c) \/ Intruded(c) \/ run[c].pc \notin {"wait", "script", "sqlplus", "clean"}
    BY <2>1, <1>1, <1>2 DEF ForwardAlive
  <2>2. CASE ~Cut(c) /\ ~Intruded(c) /\ run[c].pc \in {"wait", "script", "sqlplus", "clean"}
    <3>1. PICK f \in forwards : f.by = c /\ f.port = run[c].port /\ f.session = run[c].session
      BY <2>2, <1>4 DEF ForwardAlive
    <3>2. \E s \in sessions' : s.id = f.session
      BY <2>2, <3>1, <1>6 DEF Users
    <3>3. f \in forwards'
      BY <3>1, <3>2, Survivors
    <3> QED BY <3>1, <3>3, <1>1 DEF ForwardAlive
  <2> QED BY <2>1, <2>2
<1>9. UploadsOwn(c)'
  <2>1. \A u \in uploads' : u.by = c => u \in uploads
    BY DEF Effects, Copies
  <2> QED BY <2>1, <1>1, <1>2, <1>4 DEF UploadsOwn
<1> QED BY <1>5, <1>7, <1>8, <1>9 DEF Left

\* The sweep of stale sessions takes none that the command is to use.
LEMMA LeftByReap ==
  ASSUME IInv, LInv, NEW c \in Commands, Reap(c)
  PROVE  Left(c)'
<1>1. /\ run[c].pc = "reap" /\ run'[c].pc = "create" /\ sessions' \subseteq sessions /\ uploads' = uploads
      /\ Effects(c)
  BY ReapStep DEF Moved, Effects, Grows
<1>2. /\ Cut(c) => Cut(c)'
      /\ Lost(c) => Lost(c)'
      /\ Intruded(c) => Intruded(c)'
      /\ Failed("remove") => Failed("remove")'
  BY <1>1, ForeverStep
<1>3. SessionsOwn(c) /\ UploadsOwn(c)
  BY DEF LInv, Left
<1>4. SessionsOwn(c)'
  BY <1>1, <1>2, <1>3 DEF SessionsOwn, Users
<1>5. UploadsOwn(c)'
  BY <1>1, <1>2, <1>3 DEF UploadsOwn
<1> QED BY <1>1, <1>4, <1>5 DEF Left, SessionAlive, ForwardAlive, Users

\* After the last call for a target, if its session is gone.
LEMMA LeftBySettling ==
  ASSUME IInv, LInv, NEW c \in Commands, NEW failed, Settles(c, failed), Effects(c), uploads' = uploads,
         run[c].pc \notin {"script", "sqlplus", "clean", "killed"},
         Lost(c)' \/ \A s \in sessions' : s.by # c
  PROVE  Left(c)'
<1>1. run'[c].pc \in {"done", "reap"}
  BY DEF Settles
<1>2. /\ Cut(c) => Cut(c)'
      /\ Intruded(c) => Intruded(c)'
      /\ Failed("remove") => Failed("remove")'
  BY ForeverStep
<1>3. SessionsOwn(c)'
  BY <1>1 DEF SessionsOwn
<1>4. UploadsOwn(c)'
  BY <1>1, <1>2 DEF LInv, Left, UploadsOwn
<1> QED BY <1>1, <1>3, <1>4 DEF Left, SessionAlive, ForwardAlive, Users

\* The session just created is the only one of the command.
LEMMA LeftByCreate ==
  ASSUME IInv, LInv, NEW c \in Commands, Create(c)
  PROVE  Left(c)'
<1>1. Effects(c) /\ run[c].pc = "create" /\ uploads' = uploads
  BY CreateStep
<1>2. CASE Settles(c, TRUE) /\ Failed("create")'
  <2>1. Lost(c)'
    BY <1>2 DEF Lost
  <2> QED BY <1>1, <1>2, <2>1, LeftBySettling
<1>3. CASE Moved(c, "resolve") /\ issued' = issued + 1 /\ sessions' = sessions \cup {NewSession(c)}
  <2> DEFINE s == NewSession(c)
  <2>1. run'[c].pc = "resolve"
    BY <1>3 DEF Moved
  <2>2. /\ Cut(c) => Cut(c)'
        /\ Lost(c) => Lost(c)'
        /\ Intruded(c) => Intruded(c)'
        /\ Failed("remove") => Failed("remove")'
    BY <1>1, ForeverStep
  <2> HIDE DEF s
  <2>3. sessions' = sessions \cup {s}
    BY <1>3 DEF s
  <2>4. SessionsOwn(c)'
    <3>1. Lost(c) \/ \A x \in sessions : x.by # c
      BY <1>1 DEF LInv, Left, SessionsOwn
    <3>2. CASE \A x \in sessions : x.by # c
      <4>1. \A x, y \in sessions' : x.by = c /\ y.by = c => x = y
        BY <2>3, <3>2
      <4> QED BY <4>1, <2>1 DEF SessionsOwn, Users
    <3> QED BY <2>2, <3>1, <3>2 DEF SessionsOwn
  <2>5. UploadsOwn(c)'
    BY <1>1, <2>1, <2>2 DEF LInv, Left, UploadsOwn
  <2> QED BY <2>1, <2>4, <2>5 DEF Left, SessionAlive, ForwardAlive, Users
<1> QED BY <1>2, <1>3, CreateStep

\* The session the command goes on with is its own, or it has strayed.
LEMMA LeftByResolve ==
  ASSUME IInv, LInv, NEW c \in Commands, Resolve(c)
  PROVE  Left(c)'
<1>1. Effects(c) /\ run[c].pc = "resolve" /\ sessions' = sessions /\ uploads' = uploads
  BY ResolveStep
<1>2. /\ Cut(c) => Cut(c)'
      /\ Lost(c) => Lost(c)'
      /\ Intruded(c) => Intruded(c)'
      /\ Failed("remove") => Failed("remove")'
  BY <1>1, ForeverStep
<1>3. CASE Settles(c, TRUE) /\ Failed("resolve")'
  <2>1. Lost(c)'
    BY <1>3 DEF Lost
  <2> QED BY <1>1, <1>3, <2>1, LeftBySettling
<1>4. CASE run'[c].pc = "port" /\ \E s \in sessions \cup {NoSession} : Takes(c, s)
  <2>1. PICK s \in sessions \cup {NoSession} : Takes(c, s)
    BY <1>4
  <2>2. UploadsOwn(c)'
    BY <1>1, <1>2, <1>4 DEF LInv, Left, UploadsOwn
  <2>3. CASE s.by # c
    <3>1. Mixup("session", c, s.by) \in mixups'
      BY <2>1, <2>3 DEF Takes
    <3>2. \E m \in mixups' : m.kind = "session" /\ m.who = c
      BY <3>1 DEF Mixup
    <3>3. Lost(c)' /\ Cut(c)'
      BY <3>2 DEF Lost, Strayed, Cut, Entangled
    <3> QED BY <2>2, <3>3 DEF Left, SessionsOwn, SessionAlive, ForwardAlive
  <2>4. CASE s.by = c
    <3>1. s \in sessions /\ run'[c].session = s.id
      BY <2>1, <2>4, TargetsFacts DEF Takes, NoSession
    <3>2. SessionAlive(c)'
      BY <1>1, <2>4, <3>1 DEF SessionAlive
    <3>3. SessionsOwn(c)'
      <4>1. Lost(c) \/ \A x \in sessions : x.by = c => x = s
        BY <1>1, <2>4, <3>1 DEF LInv, Left, SessionsOwn
      <4> QED BY <4>1, <1>1, <1>2, <1>4, <3>1 DEF SessionsOwn
    <3> QED BY <1>4, <2>2, <3>2, <3>3 DEF Left, ForwardAlive
  <2> QED BY <2>3, <2>4
<1> QED BY <1>3, <1>4, ResolveStep

\* While the command works through its session.
LEMMA LeftByWork ==
  ASSUME IInv, LInv, NEW c \in Commands, Effects(c), sessions' = sessions,
         run[c].pc \in Users, run'[c].pc \in Users, run'[c].session = run[c].session
  PROVE  SessionsOwn(c)' /\ SessionAlive(c)'
<1>1. (Cut(c) => Cut(c)') /\ (Lost(c) => Lost(c)')
  BY ForeverStep
<1>2. SessionsOwn(c) /\ SessionAlive(c)
  BY DEF LInv, Left
<1>3. run'[c].pc \notin {"done", "reap", "create", "resolve"}
  BY DEF Users
<1>4. SessionsOwn(c)'
  BY <1>1, <1>2, <1>3 DEF SessionsOwn
<1>5. SessionAlive(c)'
  BY <1>1, <1>2, <1>3 DEF SessionAlive
<1> QED BY <1>4, <1>5

\* The forward stays as it is while the command works.
LEMMA ForwardByWork ==
  ASSUME IInv, LInv, NEW c \in Commands, Effects(c), forwards' = forwards,
         run[c].pc \in {"wait", "script", "sqlplus", "clean"},
         run'[c].port = run[c].port, run'[c].session = run[c].session
  PROVE  ForwardAlive(c)'
<1>1. (Cut(c) => Cut(c)') /\ (Intruded(c) => Intruded(c)')
  BY ForeverStep
<1> QED BY <1>1 DEF LInv, Left, ForwardAlive

\* The files stay what they are while the command works.
LEMMA UploadsByWork ==
  ASSUME IInv, LInv, NEW c \in Commands, Effects(c), uploads' \subseteq uploads,
         run[c].pc # "killed",
         run[c].pc \in {"script", "sqlplus", "clean"} =>
           run'[c].pc \in {"script", "sqlplus", "clean"} /\ Stays(c) /\ run'[c].sent = run[c].sent
  PROVE  UploadsOwn(c)'
<1>1. /\ Cut(c) => Cut(c)'
      /\ Intruded(c) => Intruded(c)'
      /\ Failed("remove") => Failed("remove")'
  BY ForeverStep
<1>2. run[c].pc \in {"script", "sqlplus", "clean"} => Sent(c)' = Sent(c)
  BY DEF Sent, Scripts, Target, Stays
<1> QED BY <1>1, <1>2 DEF LInv, Left, UploadsOwn

\* The forward comes up with the session, if nobody has taken the port, and stays up.
LEMMA LeftByTunnel ==
  ASSUME IInv, PInv, LInv, NEW c \in Commands, PickPort(c) \/ OpenForward(c) \/ WaitForTunnel(c)
  PROVE  Left(c)'
<1>1. CASE PickPort(c)
  <2>1. /\ Effects(c) /\ run[c].pc = "port" /\ run'[c].pc = "forward" /\ run'[c].session = run[c].session
        /\ sessions' = sessions /\ uploads' = uploads
    BY <1>1, PickPortStep
  <2>2. SessionsOwn(c)' /\ SessionAlive(c)'
    BY <2>1, LeftByWork DEF Users
  <2>3. UploadsOwn(c)'
    BY <2>1, UploadsByWork
  <2> QED BY <2>1, <2>2, <2>3 DEF Left, ForwardAlive
<1>2. CASE OpenForward(c)
  <2>1. /\ Effects(c) /\ run[c].pc = "forward" /\ run'[c].pc = "wait" /\ run'[c].session = run[c].session
        /\ run'[c].port = run[c].port /\ sessions' = sessions /\ uploads' = uploads
    BY <1>2, OpenForwardStep DEF Moved
  <2>2. SessionsOwn(c)' /\ SessionAlive(c)'
    BY <2>1, LeftByWork DEF Users
  <2>3. UploadsOwn(c)'
    BY <2>1, UploadsByWork
  <2>4. (Cut(c) => Cut(c)') /\ (Intruded(c) => Intruded(c)')
    BY <2>1, ForeverStep
  <2>5. ForwardAlive(c)'
    <3>1. CASE Cut(c) \/ Intruded(c)
      BY <3>1, <2>4 DEF ForwardAlive
    <3>2. CASE ~Cut(c) /\ ~Intruded(c)
      <4>1. \E s \in sessions : s.id = run[c].session
        BY <3>2, <2>1 DEF LInv, Left, SessionAlive, Users
      <4>2. ASSUME NEW f \in Listening(run[c].port) PROVE FALSE
        <5>1. f \in forwards /\ f.port = run[c].port
          BY <4>2 DEF Listening
        <5>2. f.by # c
          BY <5>1, <2>1 DEF LInv, ForwardsOwn, Held
        <5>3. run[c].met = Nobody
          BY <2>1, AtStep DEF RunOK
        <5>4. Took(c, f.by, run[c].at)
          BY <5>1, <5>2, <5>3, <2>1 DEF PInv, PortsOK, Tunneled
        <5>5. \E m \in mixups : m.kind = "port" /\ m.who = c
          BY <5>4 DEF Took
        <5> QED BY <5>5, <3>2 DEF Intruded
      <4>3. forwards' = forwards \cup {Tunnel(c)}
        BY <4>1, <4>2, <1>2, OpenForwardStep
      <4>4. /\ Tunnel(c) \in forwards' /\ Tunnel(c).by = c
            /\ Tunnel(c).port = run'[c].port /\ Tunnel(c).session = run'[c].session
        BY <4>3, <2>1 DEF Tunnel
      <4> QED BY <4>4 DEF ForwardAlive
    <3> QED BY <3>1, <3>2
  <2> QED BY <2>2, <2>3, <2>5 DEF Left
<1>3. CASE WaitForTunnel(c)
  <2>1. /\ Effects(c) /\ run[c].pc = "wait" /\ run'[c].pc \in {"script", "clean"}
        /\ run'[c].session = run[c].session /\ run'[c].port = run[c].port
        /\ sessions' = sessions /\ forwards' = forwards /\ uploads' = uploads
    BY <1>3, WaitStep
  <2>2. SessionsOwn(c)' /\ SessionAlive(c)'
    BY <2>1, LeftByWork DEF Users
  <2>3. UploadsOwn(c)' /\ ForwardAlive(c)'
    BY <2>1, UploadsByWork, ForwardByWork
  <2> QED BY <2>2, <2>3 DEF Left
<1> QED BY <1>1, <1>2, <1>3

\* What the command copies has a name that it is to remove.
LEMMA LeftByUpload ==
  ASSUME IInv, LInv, NEW c \in Commands, Upload(c)
  PROVE  Left(c)'
<1>1. /\ Effects(c) /\ Stays(c) /\ run[c].pc = "script" /\ run'[c].pc \in {"sqlplus", "clean"}
      /\ run'[c].session = run[c].session /\ run'[c].port = run[c].port
      /\ run'[c].sent = run[c].sent + 1 /\ sessions' = sessions /\ forwards' = forwards
  BY UploadStep
<1>2. SessionsOwn(c)' /\ SessionAlive(c)'
  BY <1>1, LeftByWork DEF Users
<1>3. ForwardAlive(c)'
  BY <1>1, ForwardByWork
<1>4. /\ Cut(c) => Cut(c)'
      /\ Intruded(c) => Intruded(c)'
      /\ Failed("remove") => Failed("remove")'
  BY <1>1, ForeverStep
<1>5. Sent(c) \cup {Current(c)} \subseteq Sent(c)'
  <2>1. run[c].sent = run[c].script /\ run[c].sent \in Nat
    BY <1>1, AtStep DEF RunOK, Run
  <2>2. Scripts(c)' = Scripts(c)
    BY <1>1 DEF Scripts, Target, Stays
  <2>3. Sent(c)' = {Scripts(c)[j] : j \in 1 .. run[c].sent + 1}
    BY <1>1, <2>2 DEF Sent
  <2>4. run[c].sent + 1 \in 1 .. run[c].sent + 1 /\ 1 .. run[c].sent \subseteq 1 .. run[c].sent + 1
    BY <2>1
  <2> QED BY <2>1, <2>3, <2>4 DEF Sent, Current
<1>6. UploadsOwn(c)'
  <2>1. CASE Cut(c) \/ Intruded(c) \/ Failed("remove")
    BY <2>1, <1>4 DEF UploadsOwn
  <2>2. CASE \A u \in uploads : u.by = c => u.script \in Sent(c)
    <3>1. ASSUME NEW u \in uploads', u.by = c PROVE u.script \in Sent(c) \cup {Current(c)}
      BY <2>2, <3>1, <1>1 DEF Effects, Copies
    <3> QED BY <3>1, <1>1, <1>5 DEF UploadsOwn
  <2> QED BY <2>1, <2>2, <1>1 DEF LInv, Left, UploadsOwn
<1> QED BY <1>2, <1>3, <1>6 DEF Left

\* A script that is run changes nothing of that.
LEMMA LeftByScript ==
  ASSUME IInv, LInv, NEW c \in Commands, RunScript(c)
  PROVE  Left(c)'
<1>1. /\ Effects(c) /\ Stays(c) /\ run[c].pc = "sqlplus" /\ run'[c].pc \in {"script", "clean"}
      /\ run'[c].session = run[c].session /\ run'[c].port = run[c].port /\ run'[c].sent = run[c].sent
      /\ sessions' = sessions /\ forwards' = forwards /\ uploads' = uploads
  BY RunScriptStep
<1>2. SessionsOwn(c)' /\ SessionAlive(c)'
  BY <1>1, LeftByWork DEF Users
<1>3. UploadsOwn(c)' /\ ForwardAlive(c)'
  BY <1>1, UploadsByWork, ForwardByWork
<1> QED BY <1>2, <1>3 DEF Left

\* The clean-up goes through the command's own forward, to the host the scripts are on.
LEMMA LeftByClean ==
  ASSUME IInv, PInv, LInv, NEW c \in Commands, CleanRemote(c)
  PROVE  Left(c)'
<1>1. /\ Effects(c) /\ run[c].pc = "clean" /\ run'[c].pc = "teardown" /\ run'[c].session = run[c].session
      /\ sessions' = sessions /\ uploads' \subseteq uploads
      /\ \/ Failed("remove")' \/ Reached(c) = {} \/ Sent(c) = {}
         \/ /\ run'[c].met \in Reached(c)
            /\ \A u \in uploads' : u.host # run'[c].met \/ u.script \notin Sent(c)
  BY CleanStep
<1>2. SessionsOwn(c)' /\ SessionAlive(c)'
  BY <1>1, LeftByWork DEF Users
<1>3. /\ Cut(c) => Cut(c)'
      /\ Intruded(c) => Intruded(c)'
      /\ Failed("remove") => Failed("remove")'
  BY <1>1, ForeverStep
<1>4. UploadsOwn(c)'
  <2>1. CASE Cut(c) \/ Intruded(c) \/ Failed("remove")'
    BY <2>1, <1>3 DEF UploadsOwn
  <2>2. CASE ~Cut(c) /\ ~Intruded(c) /\ ~Failed("remove")'
    <3>1. PICK f \in forwards : f.by = c /\ f.port = run[c].port
      BY <2>2, <1>1 DEF LInv, Left, ForwardAlive
    <3>2. f.to = Host(c)
      BY <3>1 DEF PInv, PortsOK
    <3>3. run[c].met \in {Nobody, Host(c)}
      BY <2>2, BehindFacts DEF PInv, HostsOK
    <3>4. Host(c) \in Reached(c)
      BY <3>1, <3>2, <3>3 DEF Reached, Listening
    <3>5. Reached(c) \subseteq {Host(c)}
      BY <3>1, <3>2 DEF Reached, Listening, PInv, PortsOK
    <3>6. ASSUME NEW u \in uploads', u.by = c PROVE FALSE
      <4>1. u \in uploads /\ u.script \in Sent(c)
        BY <3>6, <2>2, <1>1, <1>3 DEF LInv, Left, UploadsOwn
      <4>2. u.host = Host(c)
        BY <4>1, <3>6, <2>2 DEF PInv, HostsOK
      <4> QED BY <4>1, <4>2, <3>4, <3>5, <2>2, <1>1
    <3> QED BY <3>6 DEF UploadsOwn
  <2> QED BY <2>1, <2>2
<1> QED BY <1>1, <1>2, <1>4 DEF Left, ForwardAlive

\* After the teardown no session of the command is left.
LEMMA LeftByTeardown ==
  ASSUME IInv, LInv, NEW c \in Commands, Teardown(c)
  PROVE  Left(c)'
<1>1. /\ Effects(c) /\ Settles(c, run[c].failed) /\ run[c].pc = "teardown" /\ uploads' = uploads
      /\ \/ sessions' = {s \in sessions : s.id # run[c].session}
         \/ sessions' = sessions /\ Failed("delete")'
  BY TeardownStep
<1>2. Lost(c) => Lost(c)'
  BY <1>1, ForeverStep
<1>3. Lost(c)' \/ \A s \in sessions' : s.by # c
  <2>1. CASE Lost(c) \/ Failed("delete")'
    BY <2>1, <1>2 DEF Lost
  <2>2. CASE ~Lost(c) /\ ~Failed("delete")'
    <3>1. \A s \in sessions : s.by = c => s.id = run[c].session
      BY <2>2, <1>1 DEF LInv, Left, SessionsOwn, Users
    <3> QED BY <3>1, <2>2, <1>1
  <2> QED BY <2>1, <2>2
<1> QED BY <1>1, <1>3, LeftBySettling

\* Of a command that was killed nothing is claimed.
LEMMA LeftByKill ==
  ASSUME IInv, LInv, NEW c \in Commands, Killed(c)
  PROVE  Left(c)'
<1>1. run'[c].pc = "killed"
  BY KilledStep DEF Moved
<1> QED BY <1>1 DEF Left, SessionsOwn, SessionAlive, ForwardAlive, UploadsOwn, Users

\* Every step of a command keeps the claims about itself.
LEMMA LeftStep ==
  ASSUME IInv, PInv, LInv, NEW c \in Commands, Step(c) \/ Killed(c)
  PROVE  Left(c)'
BY LeftByReap, LeftByCreate, LeftByResolve, LeftByTunnel, LeftByUpload, LeftByScript, LeftByClean,
   LeftByTeardown, LeftByKill DEF Step

\* A command without a forward of its own is at no step that has one.
LEMMA ForwardsStep ==
  ASSUME IInv, LInv, NEW c \in Commands, Step(c) \/ Killed(c), Effects(c)
  PROVE  ForwardsOwn'
<1>1. \A f \in forwards : run[f.by].pc \in Held /\ f.by \in Commands
  BY DEF LInv, ForwardsOwn, IInv, Types, Forward
<1>2. \A d \in Commands : d # c => run'[d] = run[d]
  BY DEF Effects, Advances
<1>3. Tunnel(c).by = c /\ \A f \in forwards' : f \in forwards \/ (run[c].pc = "forward" /\ f = Tunnel(c))
  BY DEF Tunnel, Effects, Opened
<1> HIDE DEF Tunnel
<1>4. ASSUME run'[c].pc \in Held PROVE ForwardsOwn'
  BY <1>1, <1>2, <1>3, <1>4 DEF ForwardsOwn
<1>5. ASSUME run[c].pc \notin Held \cup {"forward"} PROVE ForwardsOwn'
  BY <1>1, <1>2, <1>3, <1>5 DEF ForwardsOwn
<1>6. CASE Reap(c) \/ Create(c) \/ Resolve(c) \/ PickPort(c) \/ Teardown(c)
  BY <1>5, <1>6, ReapStep, CreateStep, ResolveStep, PickPortStep, TeardownStep DEF Held
<1>7. CASE OpenForward(c) \/ Killed(c)
  BY <1>4, <1>7, OpenForwardStep, KilledStep DEF Held, Moved
<1>8. CASE WaitForTunnel(c) \/ Upload(c) \/ RunScript(c)
  BY <1>4, <1>8, WaitStep, UploadStep, RunScriptStep DEF Held
<1>9. CASE CleanRemote(c)
  <2>1. forwards' = forwards \ Own(c)
    BY <1>9, CleanStep
  <2> QED BY <2>1, <1>1, <1>2 DEF ForwardsOwn, Own
<1> QED BY <1>6, <1>7, <1>8, <1>9 DEF Step

\* A command that uses a session has used it before, or has just taken it.
LEMMA UsersStep ==
  ASSUME IInv, NEW c \in Commands, Step(c) \/ Killed(c), run'[c].pc \in Users
  PROVE  \/ run[c].pc \in Users /\ run'[c].session = run[c].session /\ run'[c].at = run[c].at
         \/ /\ Stays(c) /\ sessions' = sessions
            /\ \E s \in sessions \cup {NoSession} : Takes(c, s)
<1>1. CASE Reap(c) \/ Create(c) \/ Teardown(c) \/ Killed(c)
  BY <1>1, ReapStep, CreateStep, TeardownStep, KilledStep DEF Moved, Settles, Users
<1>2. CASE Resolve(c)
  BY <1>2, ResolveStep DEF Settles, Users
<1>3. CASE PickPort(c) \/ OpenForward(c) \/ WaitForTunnel(c)
  BY <1>3, PickPortStep, OpenForwardStep, WaitStep DEF Moved, Stays, Users
<1>4. CASE Upload(c) \/ RunScript(c) \/ CleanRemote(c)
  BY <1>4, UploadStep, RunScriptStep, CleanStep DEF Stays, Users
<1> QED BY <1>1, <1>2, <1>3, <1>4 DEF Step

\* Whoever uses the session of another has been noted.
LEMMA BorrowingsStep ==
  ASSUME IInv, LInv, NEW c \in Commands, Step(c) \/ Killed(c), Effects(c)
  PROVE  Borrowings'
<1> SUFFICES ASSUME NEW d \in Commands, NEW s \in sessions', run'[d].pc \in Users,
                    s.id = run'[d].session, s.by # d
             PROVE  [kind |-> "session", who |-> d, at |-> run'[d].at, by |-> s.by] \in mixups'
  BY DEF Borrowings, Mixup
<1>1. mixups \subseteq mixups' /\ issued \in Nat
  BY DEF Effects, IInv, Types
<1>2. CASE run[d].pc \in Users /\ run'[d].session = run[d].session /\ run'[d].at = run[d].at
  <2>1. s.id <= issued
    BY <1>2 DEF IInv, SessionsOK
  <2>2. s \in sessions
    <3>1. CASE run[c].pc = "create" /\ sessions' = sessions \cup {NewSession(c)}
      <4>1. NewSession(c).id = issued + 1
        BY <3>1, NewSessionFacts
      <4> QED BY <2>1, <3>1, <4>1, <1>1
    <3> QED BY <3>1 DEF Effects, Grows
  <2>3. Mixup("session", d, s.by) \in mixups
    BY <1>2, <2>2 DEF LInv, Borrowings
  <2> QED BY <1>1, <1>2, <2>3 DEF Mixup
<1>3. CASE d = c /\ Stays(c) /\ sessions' = sessions /\ \E x \in sessions \cup {NoSession} : Takes(c, x)
  <2>1. PICK x \in sessions \cup {NoSession} : Takes(c, x)
    BY <1>3
  <2>2. x.id = s.id /\ s \in sessions /\ s.id # 0
    BY <1>1, <1>3, <2>1 DEF Takes, IInv, SessionsOK
  <2>3. x = s
    BY <2>2 DEF NoSession, IInv, SessionsOK
  <2>4. Mixup("session", c, s.by) \in mixups'
    BY <1>3, <2>1, <2>3 DEF Takes
  <2> QED BY <1>3, <2>4 DEF Mixup, Stays
<1>4. CASE d # c
  BY <1>2, <1>4 DEF Effects, Advances
<1> QED BY <1>2, <1>3, <1>4, UsersStep

\* Nothing is left behind before the first step.
LEMMA InitLeft == Init => LInv
<1> SUFFICES ASSUME Init PROVE LInv
  OBVIOUS
<1>1. now >= Began /\ ForwardsOwn /\ forwards = {} /\ uploads = {}
  BY DbExecAssumption DEF Init, Began, ForwardsOwn
<1>2. \A s \in sessions : s.by = Nobody
  BY DEF Init
<1>3. Born
  BY <1>2 DEF Born
<1>4. Borrowings
  BY InitRun DEF Borrowings, Users
<1>5. ASSUME NEW c \in Commands PROVE Left(c)
  <2>1. run[c].pc \in {"done", "reap"}
    BY InitRun
  <2>2. \A s \in sessions : s.by # c
    BY <1>2, TargetsFacts
  <2> QED BY <1>1, <2>1, <2>2 DEF Left, SessionsOwn, SessionAlive, ForwardAlive, UploadsOwn, Users
<1> QED BY <1>1, <1>3, <1>4, <1>5 DEF LInv

\* Time and the end of sessions: what they take makes Cut true.
LEMMA IdleLeft ==
  ASSUME IInv, LInv, NobodyMoves
  PROVE  LInv'
<1>1. /\ run' = run /\ faults' = faults /\ mixups' = mixups /\ uploads' = uploads
      /\ now' \in Nat /\ now' >= now
      /\ sessions' \subseteq sessions /\ forwards' \subseteq forwards
  BY AliveShrinks DEF NobodyMoves
<1>2. ASSUME NEW c \in Commands
      PROVE  /\ Cut(c) => Cut(c)'
             /\ Lost(c) => Lost(c)'
             /\ Intruded(c) => Intruded(c)'
             /\ Failed("remove") => Failed("remove")'
  BY <1>1, Forever
<1>3. now' >= Began /\ ForwardsOwn' /\ Born' /\ Borrowings'
  <2>1. now' >= Began
    BY <1>1, DbExecAssumption DEF LInv, IInv, Types, Began
  <2>2. ForwardsOwn' /\ Born'
    BY <1>1 DEF LInv, ForwardsOwn, Born, Began
  <2>3. Borrowings'
    BY <1>1 DEF LInv, Borrowings, Mixup
  <2> QED BY <2>1, <2>2, <2>3
<1>4. ASSUME NEW c \in Commands, ~Cut(c), NEW s \in sessions, s.by = c PROVE s \in sessions'
  <2>1. s.born \in Nat /\ now \in Nat /\ TTL \in Nat /\ Began \in Nat
    BY DbExecAssumption DEF IInv, Types, Session, Began
  <2>2. s.born >= Began
    BY <1>4, TargetsFacts DEF LInv, Born
  <2>3. ~(now - s.born > TTL)
    BY <2>1, <2>2, <1>4 DEF Cut
  <2> QED BY <2>3 DEF NobodyMoves
<1>5. ASSUME NEW f \in forwards, NEW s \in sessions', s.id = f.session PROVE f \in forwards'
  BY <1>5 DEF NobodyMoves, Alive
<1>6. ASSUME NEW c \in Commands PROVE Left(c)'
  <2>1. SessionsOwn(c) /\ SessionAlive(c) /\ ForwardAlive(c) /\ UploadsOwn(c)
    BY DEF LInv, Left
  <2>2. SessionsOwn(c)'
    BY <1>1, <1>2, <2>1 DEF SessionsOwn
  <2>3. SessionAlive(c)'
    BY <1>1, <1>2, <1>4, <2>1 DEF SessionAlive
  <2>4. ForwardAlive(c)'
    <3>1. CASE Cut(c) \/ Intruded(c)
      BY <3>1, <1>2 DEF ForwardAlive
    <3>2. CASE ~Cut(c) /\ ~Intruded(c) /\ run[c].pc \in {"wait", "script", "sqlplus", "clean"}
      <4>1. PICK s \in sessions : s.by = c /\ s.id = run[c].session
        BY <2>1, <3>2 DEF SessionAlive, Users
      <4>2. PICK f \in forwards : f.by = c /\ f.port = run[c].port /\ f.session = run[c].session
        BY <2>1, <3>2 DEF ForwardAlive
      <4>3. f \in forwards'
        BY <4>1, <4>2, <3>2, <1>4, <1>5
      <4> QED BY <4>2, <4>3, <1>1 DEF ForwardAlive
    <3> QED BY <3>1, <3>2, <1>1 DEF ForwardAlive
  <2>5. UploadsOwn(c)'
    <3>1. Sent(c)' = Sent(c)
      BY <1>1 DEF Sent, Scripts, Target
    <3> QED BY <3>1, <1>1, <1>2, <2>1 DEF UploadsOwn
  <2> QED BY <2>2, <2>3, <2>4, <2>5 DEF Left
<1> QED BY <1>3, <1>6 DEF LInv

\* A new session is no older than the model.
LEMMA BornStep ==
  ASSUME IInv, LInv, NEW c \in Commands, Effects(c)
  PROVE  now' >= Began /\ Born'
<1>1. now' = now /\ now >= Began
  BY DEF Effects, LInv
<1>2. CASE run[c].pc = "create" /\ sessions' = sessions \cup {NewSession(c)}
  <2>1. NewSession(c).born = now
    BY <1>2, NewSessionFacts
  <2> QED BY <1>1, <1>2, <2>1 DEF LInv, Born, Began
<1>3. CASE sessions' \subseteq sessions
  BY <1>1, <1>3 DEF LInv, Born, Began
<1> QED BY <1>2, <1>3 DEF Effects, Grows

\* Every step keeps the claims.
LEMMA NextLeft == IInv /\ PInv /\ LInv /\ [Next]_vars => LInv'
<1> SUFFICES ASSUME IInv, PInv, LInv, [Next]_vars PROVE LInv'
  OBVIOUS
<1>1. ASSUME NEW c \in Commands, Step(c) \/ Killed(c) PROVE LInv'
  <2>1. Effects(c)
    BY <1>1, ChosenStep
  <2>2. now' >= Began /\ Born'
    BY <2>1, BornStep
  <2>3. ForwardsOwn' /\ Borrowings'
    BY <1>1, <2>1, ForwardsStep, BorrowingsStep
  <2>4. ASSUME NEW d \in Commands PROVE Left(d)'
    <3>1. CASE d = c
      BY <3>1, <1>1, LeftStep
    <3>2. CASE d # c
      BY <3>2, <1>1, <2>1, LeftByOthers
    <3> QED BY <3>1, <3>2
  <2> QED BY <2>2, <2>3, <2>4 DEF LInv
<1>2. CASE Tick \/ Expire \/ UNCHANGED vars
  BY <1>2, IdleStep, IdleLeft
<1> QED BY <1>1, <1>2 DEF Next

\* What a command that has ended leaves on the Bastion, on the machine or on the host comes of
\* a call that failed, of a session that was cut, or of one of the two mix-ups: a session of
\* another command taken for its own, and a port taken by another (bastion_exec.py, "always
\* deleted in a finally block").
THEOREM DbExecLeftoversExplained == Spec => []LeftoversExplained
<1>1. IInv /\ LInv => LeftoversExplained
  <2> SUFFICES ASSUME IInv, LInv, NEW c \in Commands, run[c].pc = "done"
               PROVE  /\ \A s \in sessions : s.by = c => Lost(c)
                      /\ Own(c) = {}
                      /\ (\E u \in uploads : u.by = c) => Failed("remove") \/ Cut(c) \/ Intruded(c)
    BY DEF LeftoversExplained, Lost, Cut, Strayed, Entangled, Intruded
  <2>1. \A s \in sessions : s.by = c => Lost(c)
    BY DEF LInv, Left, SessionsOwn
  <2>2. Own(c) = {}
    BY DEF Own, LInv, ForwardsOwn, Held
  <2>3. (\E u \in uploads : u.by = c) => Failed("remove") \/ Cut(c) \/ Intruded(c)
    BY DEF LInv, Left, UploadsOwn
  <2> QED BY <2>1, <2>2, <2>3
<1> QED BY <1>1, InitLeft, NextLeft, PortsInvariant, PTL DEF Spec

-----------------------------------------------------------------------------
(* The commands that share a configuration file *)

\* What a process may have to do.
Items == {"dbmEndpoint", "opsiEndpoint", "secret", "confirm", "safeEndpoint", "safeTarget",
          "group", "entity", "terraform", "outputs", "database"}
\* What it looks for first.
Looks == {"dbmEndpoint", "opsiEndpoint", "confirm", "safeEndpoint", "safeTarget", "group",
          "entity", "database"}
\* What it may create.
Creatable == {"dbmEndpoint", "opsiEndpoint", "secret", "safeEndpoint", "safeTarget", "group",
              "entity"}
\* What it creates after it found none.
Looked == {"dbmEndpoint", "opsiEndpoint", "safeEndpoint"}

\* What a command keeps while it runs (the values of cmd[c]).
ProcessState ==
  [name : Names, mode : Modes, pc : Stages \cup {"done"}, file : Files, cfg : [Fields -> Nat],
   todo : Seq(Items), attempt : Nat, ids : [Fields -> Nat]]

\* Counts of what was made.
Counts == [Kinds -> Nat]

\* The next thing p has to do is one of items.
HeadIn(p, items) == p.todo # <<>> /\ Head(p.todo) \in items

\* What a process is about to do is the head of what it has left to do.
HasWork(p) ==
  /\ p.pc = "list" => HeadIn(p, Looks)
  /\ p.pc = "relist" => HeadIn(p, {"safeEndpoint"})
  /\ p.pc = "create" => HeadIn(p, Creatable)
  /\ p.pc = "terraform" => HeadIn(p, {"terraform"})
  /\ p.pc = "outputs" => HeadIn(p, {"outputs"})

\* Every id is the id of something that was made; those of the kinds D may be placeholders.
Known(ids, m, D) == \A f \in Fields : ids[f] <= m[f] \/ (f \in D /\ ids[f] = Placeholder)

\* The kinds a dry run of Log Analytics has placeholders for: in a process, in a file.
Dried == {"group", "entity"}
Unsure(p) == IF Stubs(p) THEN Dried ELSE {}
UnsureIn(f) == IF f \in past.stubbed THEN Dried ELSE {}

\* A process whose ids are ids of what was made.
Sound(p, m) == p \in ProcessState /\ Known(p.cfg, m, {}) /\ Known(p.ids, m, Unsure(p))

\* All the invariant says of one process.
Good(p, m) == Sound(p, m) /\ HasWork(p)

\* A process that creates something it has looked for.
CreatesLooked(p) == p.pc = "create" /\ Head(p.todo) \in Looked

\* A file holds ids of what was made, if anything.
FileOK(x, m, D) == x \in [text : Texts, cfg : [Fields -> Nat]] /\ Known(x.cfg, m, D)

\* Every variable has its type.
ConfigTypes ==
  /\ made \in Counts
  /\ DOMAIN file = Files /\ file = [f \in Files |-> file[f]]
  /\ cloud \in [Files -> [Kinds -> SUBSET Nat]]
  /\ DOMAIN cmd = Processes /\ cmd = [c \in Processes |-> cmd[c]]
  /\ past \in Past

\* No file, no resource and no process has an id that was not made.
Recorded ==
  /\ \A f \in Files : FileOK(file[f], made, UnsureIn(f))
  /\ \A f \in Files, k \in Kinds : \A id \in cloud[f][k] : id <= made[k]
  /\ \A c \in Processes : Good(cmd[c], made)

\* No file has two resources of kind k.
Once(k) == \A f \in Files : \A x, y \in cloud[f][k] : x = y

\* The resource p is about to create is not there, or its look was blurred.
NotThere(p) == cloud[p.file][Head(p.todo)] = {} \/ Head(p.todo) \in blurred

\* A resource is created where a look found none, so there is one of each kind.
LookedFirst ==
  /\ \A c \in Processes : CreatesLooked(cmd[c]) => NotThere(cmd[c])
  /\ \A k \in Looked : Once(k) \/ k \in blurred
  /\ "secret" \in Unique => Once("secret")

\* The inductive invariant of the recorded ids.
ConfigIInv == ConfigTypes /\ Recorded

-----------------------------------------------------------------------------
\* The kinds the lemmas name are kinds.
LEMMA InFields == Fields \subseteq Kinds /\ Looked \subseteq Kinds /\ Creatable \subseteq Kinds
BY DEF Fields, Kinds, Looked, Creatable

\* A process that is done claims nothing.
LEMMA GoodIdle == ASSUME NEW m \in Counts PROVE Good(Idle, m)
<1>1. Idle \in ProcessState
  BY ConfigAssumption DEF Idle, Nothing, ProcessState, Names, Modes, Stages, None
<1>2. Known(Idle.cfg, m, {}) /\ Known(Idle.ids, m, Unsure(Idle))
  BY InFields DEF Idle, Nothing, Known, None, Counts
<1>3. Idle.pc = "done" /\ Idle.name = "bind"
  BY DEF Idle
<1> QED BY <1>1, <1>2, <1>3 DEF Good, Sound, HasWork

\* Ids stay known while more is made.
LEMMA KnownMore ==
  ASSUME NEW m \in Counts, NEW n \in Counts, \A k \in Kinds : m[k] <= n[k],
         NEW ids \in [Fields -> Nat], NEW D, Known(ids, m, D)
  PROVE  Known(ids, n, D)
BY InFields DEF Known, Counts

\* A process stays good while more is made.
LEMMA GoodMore ==
  ASSUME NEW m \in Counts, NEW n \in Counts, \A k \in Kinds : m[k] <= n[k],
         NEW p, Good(p, m)
  PROVE  Good(p, n)
<1>1. p.cfg \in [Fields -> Nat] /\ p.ids \in [Fields -> Nat]
  BY DEF Good, Sound, ProcessState
<1> QED BY <1>1, KnownMore DEF Good, Sound

\* Setting the pc to what First says.
LEMMA SoundOn ==
  ASSUME NEW m \in Counts, NEW p, Sound(p, m), NEW todo \in Seq(Items)
  PROVE  /\ Good(On(p, todo), m)
         /\ ~CreatesLooked(On(p, todo))
<1> DEFINE q == [p EXCEPT !.todo = todo, !.pc = First(todo), !.attempt = 0]
<1>0. todo # <<>> => Head(todo) \in Items
  BY HeadTailProperties
<1>1. First(todo) \in Stages
  BY <1>0 DEF First, Stages, Items
<1>2. q \in ProcessState /\ q.cfg = p.cfg /\ q.ids = p.ids /\ q.name = p.name /\ q.mode = p.mode /\ q.pc = First(todo) /\ q.todo = todo
  BY <1>1 DEF Sound, ProcessState
<1>3. HasWork(q) /\ ~CreatesLooked(q)
  <2>1. CASE todo = <<>>
    BY <1>2, <2>1 DEF First, HasWork, CreatesLooked
  <2>2. CASE todo # <<>> /\ Head(todo) \in {"terraform", "outputs"}
    BY <1>2, <2>2 DEF First, HasWork, CreatesLooked, HeadIn
  <2>3. CASE todo # <<>> /\ Head(todo) = "secret"
    BY <1>2, <2>3 DEF First, HasWork, CreatesLooked, HeadIn, Creatable, Looked
  <2>4. CASE todo # <<>> /\ Head(todo) \in Looks
    BY <1>2, <2>4 DEF First, HasWork, CreatesLooked, HeadIn, Looks
  <2> QED BY <1>0, <2>1, <2>2, <2>3, <2>4 DEF Items, Looks
<1>4. Good(q, m)
  BY <1>2, <1>3 DEF Good, Sound, Unsure, Stubs
<1>5. ~CreatesLooked(Idle)
  BY DEF CreatesLooked, Idle
<1>6. On(p, todo) \in {q, Idle}
  BY DEF On, Went
<1> QED BY <1>3, <1>4, <1>5, <1>6, GoodIdle

\* A process goes on with what it has left to do.
LEMMA SoundNextItem ==
  ASSUME NEW m \in Counts, NEW p, Sound(p, m), p.todo # <<>>
  PROVE  Good(NextItem(p), m) /\ ~CreatesLooked(NextItem(p))
<1>1. p.todo \in Seq(Items)
  BY DEF Sound, ProcessState
<1>2. Tail(p.todo) \in Seq(Items)
  BY <1>1, HeadTailProperties
<1> QED BY <1>2, SoundOn DEF NextItem

\* A process whose call failed tries again, goes on or ends.
LEMMA GoodFailed ==
  ASSUME NEW m \in Counts, NEW p, Good(p, m), p.todo # <<>>, NEW stderr, NEW retry
  PROVE  /\ Good(CallFailed(p, stderr, retry), m)
         /\ CreatesLooked(CallFailed(p, stderr, retry)) =>
              CreatesLooked(p) /\ CallFailed(p, stderr, retry) = [p EXCEPT !.attempt = @ + 1]
<1> DEFINE q == [p EXCEPT !.attempt = @ + 1]
<1>0. p.attempt + 1 \in Nat
  BY DEF Good, Sound, ProcessState
<1>1. q \in ProcessState /\ q.cfg = p.cfg /\ q.ids = p.ids /\ q.name = p.name /\ q.mode = p.mode /\ q.pc = p.pc /\ q.todo = p.todo
  BY <1>0 DEF Good, Sound, ProcessState
<1>2. Good(q, m) /\ (CreatesLooked(q) => CreatesLooked(p))
  BY <1>1 DEF Good, Sound, Unsure, Stubs, HasWork, HeadIn, CreatesLooked
<1>3. Good(NextItem(p), m) /\ ~CreatesLooked(NextItem(p))
  BY SoundNextItem DEF Good
<1>4. Good(Idle, m) /\ ~CreatesLooked(Idle)
  BY GoodIdle DEF CreatesLooked, Idle
<1>5. \/ CallFailed(p, stderr, retry) = q
      \/ CallFailed(p, stderr, retry) = NextItem(p)
      \/ CallFailed(p, stderr, retry) = Idle
  BY DEF CallFailed
<1> QED BY <1>2, <1>3, <1>4, <1>5

\* An id a process learns is one of something made.
LEMMA SoundLearned ==
  ASSUME NEW m \in Counts, NEW p, Sound(p, m), NEW id \in Nat,
         Kind(p) \in Fields => id <= m[Kind(p)]
  PROVE  Sound(Learned(p, id), m) /\ Learned(p, id).todo = p.todo
<1>1. CASE Kind(p) \in Fields
  <2> DEFINE q == [p EXCEPT !.ids[Kind(p)] = id]
  <2>1. q \in ProcessState /\ q.cfg = p.cfg /\ q.todo = p.todo
        /\ q.name = p.name /\ q.mode = p.mode
        /\ q.ids = [p.ids EXCEPT ![Kind(p)] = id] /\ p.ids \in [Fields -> Nat]
    BY <1>1 DEF Sound, ProcessState
  <2>2. Known(q.ids, m, Unsure(p)) /\ Unsure(q) = Unsure(p)
    BY <2>1, <1>1 DEF Sound, Known, Unsure, Stubs
  <2>3. Learned(p, id) = q
    BY <1>1 DEF Learned
  <2> QED BY <2>1, <2>2, <2>3 DEF Sound
<1>2. CASE Kind(p) \notin Fields
  BY <1>2 DEF Learned
<1> QED BY <1>1, <1>2

\* An answer to a process leaves it good: it goes on, tries again or ends.
LEMMA GoodAnswered ==
  ASSUME NEW m \in Counts, NEW p, Good(p, m), p.pc \in {"list", "relist"},
         NEW seen \in SUBSET Nat, \A id \in seen : id <= m[Kind(p)]
  PROVE  /\ Good(Answered(p, seen), m)
         /\ CreatesLooked(Answered(p, seen)) =>
              seen = {} /\ Answered(p, seen) = [p EXCEPT !.pc = "create", !.attempt = 0]
<1>0. /\ p.todo # <<>> /\ Head(p.todo) \in Looks /\ Sound(p, m) /\ <<>> \in Seq(Items)
      /\ (p.pc = "relist" => Head(p.todo) = "safeEndpoint")
      /\ Good(NextItem(p), m) /\ ~CreatesLooked(NextItem(p))
      /\ Good(On(p, <<>>), m) /\ ~CreatesLooked(On(p, <<>>))
  <2>1. p.todo # <<>> /\ Head(p.todo) \in Looks /\ (p.pc = "relist" => Head(p.todo) = "safeEndpoint")
    BY DEF Good, HasWork, HeadIn, Looks
  <2>2. Sound(p, m) /\ <<>> \in Seq(Items)
    BY DEF Good
  <2> QED BY <2>1, <2>2, SoundNextItem, SoundOn
<1>1. CASE Head(p.todo) = "confirm"
  <2>1. CASE p.cfg["safeTarget"] \in seen
    <3> DEFINE q == Learned(p, p.cfg["safeTarget"])
    <3>1. Kind(p) = "safeTarget"
      BY <1>1 DEF Kind
    <3>2. Sound(q, m)
      <4>1. p.cfg["safeTarget"] \in Nat /\ p.cfg["safeTarget"] <= m[Kind(p)]
        BY <2>1
      <4> QED BY <1>0, <4>1, SoundLearned
    <3>3. Good(On(q, <<>>), m) /\ ~CreatesLooked(On(q, <<>>))
      <4> HIDE DEF q
      <4> QED BY <3>2, <1>0, SoundOn
    <3>4. Answered(p, seen) = On(q, <<>>)
      BY <1>1, <2>1 DEF Answered
    <3> QED BY <3>3, <3>4
  <2>2. CASE p.cfg["safeTarget"] \notin seen
    <3>1. Answered(p, seen) \in {On(p, <<>>), NextItem(p)}
      BY <1>1, <2>2 DEF Answered
    <3> QED BY <3>1, <1>0
  <2> QED BY <2>1, <2>2
<1>2. CASE Head(p.todo) # "confirm" /\ p.pc = "relist"
  <2>1. Answered(p, seen) \in {On(p, <<>>), NextItem(p)}
    BY <1>2 DEF Answered
  <2> QED BY <2>1, <1>0
<1>3. CASE Head(p.todo) # "confirm" /\ p.pc # "relist" /\ seen # {}
  <2> DEFINE q == Learned(p, CHOOSE id \in seen : TRUE)
  <2>1. (CHOOSE id \in seen : TRUE) \in seen
    BY <1>3
  <2>2. Sound(q, m) /\ q.todo = p.todo
    <3>1. (CHOOSE id \in seen : TRUE) \in Nat /\ (CHOOSE id \in seen : TRUE) <= m[Kind(p)]
      BY <2>1
    <3> QED BY <3>1, <1>0, SoundLearned
  <2>3. Good(NextItem(q), m) /\ ~CreatesLooked(NextItem(q))
    <3> HIDE DEF q
    <3> QED BY <2>2, <1>0, SoundNextItem
  <2>4. Answered(p, seen) = NextItem(q)
    BY <1>3 DEF Answered
  <2> QED BY <2>3, <2>4
<1>4. CASE Head(p.todo) = "database" /\ p.pc # "relist" /\ seen = {}
  <2>1. Answered(p, seen) = NextItem(p)
    BY <1>4 DEF Answered
  <2> QED BY <2>1, <1>0
<1>5. CASE Head(p.todo) \notin {"confirm", "database"} /\ p.pc # "relist" /\ seen = {}
  <2> DEFINE q == [p EXCEPT !.pc = "create", !.attempt = 0]
  <2>1. Answered(p, seen) = q
    BY <1>5 DEF Answered
  <2>2. q \in ProcessState /\ q.pc = "create" /\ q.todo = p.todo /\ q.cfg = p.cfg /\ q.ids = p.ids
        /\ q.name = p.name /\ q.mode = p.mode
    BY <1>0 DEF Sound, ProcessState, Stages
  <2>3. Head(p.todo) \in Creatable
    BY <1>0, <1>5 DEF Looks, Creatable
  <2>4. Good(q, m)
    BY <2>2, <2>3, <1>0 DEF Good, Sound, Unsure, Stubs, HasWork, HeadIn
  <2> QED BY <2>1, <2>4, <1>5
<1> QED BY <1>1, <1>2, <1>3, <1>4, <1>5

-----------------------------------------------------------------------------
(* The steps *)

\* A step that gives c the process p and makes nothing less.
LEMMA UpdateRecorded ==
  ASSUME ConfigTypes, Recorded, NEW c \in Processes, NEW p, Update(c, p),
         made' \in Counts, \A k \in Kinds : made[k] <= made'[k], Good(p, made')
  PROVE  /\ DOMAIN cmd' = Processes /\ cmd' = [d \in Processes |-> cmd'[d]]
         /\ \A d \in Processes : Good(cmd'[d], made')
<1>1. cmd' = [cmd EXCEPT ![c] = p] /\ DOMAIN cmd = Processes
  BY DEF Update, ConfigTypes
<1>2. DOMAIN cmd' = Processes /\ cmd' = [d \in Processes |-> cmd'[d]]
  BY <1>1
<1>3. ASSUME NEW d \in Processes PROVE Good(cmd'[d], made')
  <2>1. CASE d = c
    BY <2>1, <1>1
  <2>2. CASE d # c
    <3>1. cmd'[d] = cmd[d] /\ Good(cmd[d], made) /\ made \in Counts
      BY <2>2, <1>1 DEF Recorded, ConfigTypes
    <3> QED BY <3>1, GoodMore
  <2> QED BY <2>1, <2>2
<1> QED BY <1>2, <1>3

\* The same for a step that changes the processes alone.
LEMMA UpdateAlone ==
  ASSUME ConfigIInv, NEW c \in Processes, NEW p, Update(c, p), Good(p, made),
         UNCHANGED <<file, cloud, made>>, past' \in Past, past'.stubbed = past.stubbed
  PROVE  ConfigIInv'
<1>1. made \in Counts /\ made' = made /\ \A k \in Kinds : made[k] <= made'[k]
  BY DEF ConfigIInv, ConfigTypes, Counts
<1>2. /\ DOMAIN cmd' = Processes /\ cmd' = [d \in Processes |-> cmd'[d]]
      /\ \A d \in Processes : Good(cmd'[d], made')
  BY <1>1, UpdateRecorded DEF ConfigIInv
<1> QED BY <1>1, <1>2 DEF ConfigIInv, ConfigTypes, Recorded, UnsureIn

\* The invariant holds initially.
LEMMA InitIInv == ConfigInit => ConfigIInv /\ LookedFirst
<1> SUFFICES ASSUME ConfigInit PROVE ConfigIInv /\ LookedFirst
  OBVIOUS
<1> PICK there \in {{}, Managed} :
     /\ file = [f \in Files |-> [text |-> IF f = "base" THEN "whole" ELSE "absent",
                  cfg |-> [k \in Fields |-> IF f = "base" /\ k \in there THEN 1 ELSE None]]]
     /\ past = [filled |-> [f \in Files |-> IF f = "base" THEN there ELSE {}],
                outrun |-> {}, rewritten |-> {}, stubbed |-> {}]
     /\ cloud = [f \in Files |-> [k \in Kinds |->
                  IF k = "database" \/ (f = "base" /\ k \in there) THEN {1} ELSE {}]]
     /\ made = [k \in Kinds |-> IF k = "database" \/ k \in there THEN 1 ELSE 0]
  BY DEF ConfigInit
<1>0. cmd = [c \in Processes |-> Idle] /\ blurred = {}
  BY DEF ConfigInit
<1>1. made \in Counts
  BY DEF Counts
<1>2. \A f \in Files : FileOK(file[f], made, UnsureIn(f))
  BY InFields DEF FileOK, Texts, Known, None
<1> /\ past \in Past
  BY DEF Past, Managed, Fields
<1>3. \A f \in Files, k \in Kinds : \A id \in cloud[f][k] : id = 1 /\ made[k] = 1
  OBVIOUS
<1>4. cloud \in [Files -> [Kinds -> SUBSET Nat]]
  OBVIOUS
<1>5. \A c \in Processes : Good(cmd[c], made)
  BY <1>0, <1>1, GoodIdle
<1>6. ConfigIInv
  BY <1>0, <1>1, <1>2, <1>3, <1>4, <1>5 DEF ConfigIInv, ConfigTypes, Recorded
<1>7. \A c \in Processes : ~CreatesLooked(cmd[c])
  BY <1>0 DEF Idle, CreatesLooked
<1>8. \A k \in Kinds : Once(k)
  BY <1>3 DEF Once
<1> QED BY <1>6, <1>7, <1>8, InFields DEF LookedFirst, Creatable

\* Nothing that is looked for is made.
LEMMA LookedKept ==
  ASSUME ConfigTypes, LookedFirst, NEW c \in Processes, NEW p, Update(c, p),
         \A f \in Files, k \in Looked \cup {"secret"} : cloud'[f][k] \subseteq cloud[f][k],
         blurred \subseteq blurred', \A d \in Processes : cmd[d].file \in Files,
         CreatesLooked(p) =>
           \/ CreatesLooked(cmd[c]) /\ p.todo = cmd[c].todo /\ p.file = cmd[c].file
           \/ cloud'[p.file][Head(p.todo)] = {} \/ Head(p.todo) \in blurred'
  PROVE  LookedFirst'
<1>1. cmd' = [cmd EXCEPT ![c] = p] /\ DOMAIN cmd = Processes
  BY DEF Update, ConfigTypes
<1>2. ASSUME NEW d \in Processes, CreatesLooked(cmd[d]) PROVE NotThere(cmd[d])'
      \/ cmd'[d] # cmd[d]
  BY <1>2 DEF LookedFirst, NotThere, CreatesLooked
<1>3. ASSUME NEW d \in Processes, CreatesLooked(cmd'[d]) PROVE NotThere(cmd[d])'
  <2>1. CASE d # c
    <3>1. cmd'[d] = cmd[d]
      BY <1>1, <2>1
    <3> QED BY <3>1, <1>2, <1>3
  <2>2. CASE d = c
    <3>1. cmd'[c] = p /\ CreatesLooked(p)
      BY <1>1, <1>3, <2>2
    <3>2. CASE CreatesLooked(cmd[c]) /\ p.todo = cmd[c].todo /\ p.file = cmd[c].file
      <4>1. NotThere(cmd[c]) /\ Head(cmd[c].todo) \in Looked
        BY <3>2 DEF LookedFirst, CreatesLooked
      <4> QED BY <4>1, <3>1, <3>2, <2>2 DEF NotThere
    <3> QED BY <3>1, <3>2, <2>2 DEF NotThere
  <2> QED BY <2>1, <2>2
<1>4. \A k \in Looked \cup {"secret"} : Once(k) => Once(k)'
  BY DEF Once
<1> QED BY <1>3, <1>4 DEF LookedFirst

\* A command begins with nothing learned.
LEMMA StartStep ==
  ASSUME ConfigIInv, LookedFirst, NEW c \in Processes, Start(c)
  PROVE  ConfigIInv' /\ LookedFirst'
<1> PICK call \in Calls, f \in Files :
       \E s \in IF call[1] = "bind" THEN cloud[f]["secret"] ELSE {None} :
            cmd' = [cmd EXCEPT ![c] = [Idle EXCEPT !.name = call[1], !.mode = call[2], !.file = f,
                                         !.pc = "load", !.ids = [Idle.ids EXCEPT !["secret"] = s]]]
  BY DEF Start
<1> PICK s \in IF call[1] = "bind" THEN cloud[f]["secret"] ELSE {None} :
            cmd' = [cmd EXCEPT ![c] = [Idle EXCEPT !.name = call[1], !.mode = call[2], !.file = f,
                                         !.pc = "load", !.ids = [Idle.ids EXCEPT !["secret"] = s]]]
  OBVIOUS
<1> DEFINE p == [Idle EXCEPT !.name = call[1], !.mode = call[2], !.file = f,
                             !.pc = "load", !.ids = [Idle.ids EXCEPT !["secret"] = s]]
<1>1. UNCHANGED <<file, cloud, made, blurred>> /\ Update(c, p) /\ past' \in Past /\ past'.stubbed = past.stubbed
  BY DEF Start, Update, ConfigIInv, ConfigTypes
<1>2. call[1] \in Names /\ call[2] \in Modes /\ call = <<call[1], call[2]>>
  BY ConfigAssumption
<1>3. s \in Nat /\ s <= made["secret"] /\ "secret" \in Kinds /\ made \in Counts
  BY InFields DEF ConfigIInv, ConfigTypes, Recorded, None, Creatable, Counts
<1>4. Good(Idle, made) /\ Idle \in ProcessState
  BY <1>3, GoodIdle DEF Good, Sound
<1>5. p \in ProcessState /\ p.cfg = Idle.cfg /\ p.ids = [Idle.ids EXCEPT !["secret"] = s]
      /\ p.name = call[1] /\ p.mode = call[2] /\ p.pc = "load" /\ Idle.ids \in [Fields -> Nat]
  BY <1>2, <1>3, <1>4 DEF ProcessState, Stages
<1>6. \A k \in Fields : Idle.ids[k] <= made[k]
  BY <1>3, InFields DEF Idle, Nothing, None, Counts
<1>7. Known(p.ids, made, Unsure(p))
  BY <1>3, <1>5, <1>6 DEF Known
<1>8. Good(p, made) /\ ~CreatesLooked(p)
  BY <1>4, <1>5, <1>6, <1>7 DEF Good, Sound, HasWork, CreatesLooked
<1> HIDE DEF p
<1>9. ConfigIInv'
  BY <1>1, <1>8, UpdateAlone
<1>10. \A d \in Processes : cmd[d].file \in Files
  BY DEF ConfigIInv, Recorded, Good, Sound, ProcessState
<1>11. LookedFirst'
  BY <1>1, <1>8, <1>10, LookedKept DEF ConfigIInv
<1> QED BY <1>9, <1>11

\* What every step lemma needs of the process that takes it.
LEMMA InService ==
  ASSUME ConfigIInv, NEW c \in Processes
  PROVE  /\ made \in Counts /\ Good(cmd[c], made) /\ cmd[c].file \in Files
         /\ \A d \in Processes : cmd[d].file \in Files
BY DEF ConfigIInv, ConfigTypes, Recorded, Good, Sound, ProcessState

\* An id that is found is the id of something made.
LEMMA FoundMade ==
  ASSUME ConfigIInv, NEW f \in Files, NEW k \in Kinds
  PROVE  Found(f, k) \in Nat /\ Found(f, k) <= made[k]
<1>1. cloud[f][k] \subseteq Nat /\ made[k] \in Nat /\ \A id \in cloud[f][k] : id <= made[k]
  BY DEF ConfigIInv, ConfigTypes, Recorded, Counts
<1>2. CASE cloud[f][k] = {}
  BY <1>1, <1>2 DEF Found, None
<1>3. CASE cloud[f][k] # {}
  <2>1. Found(f, k) \in cloud[f][k]
    BY <1>3 DEF Found
  <2> QED BY <2>1, <1>1
<1> QED BY <1>2, <1>3

\* load_config: the ids of the file are ids of what was made, and what is left to do is for
\* the mode the command was given.
LEMMA LoadStep ==
  ASSUME ConfigIInv, LookedFirst, NEW c \in Processes, Load(c)
  PROVE  ConfigIInv' /\ LookedFirst'
<1> DEFINE p == cmd[c]
           origin == IF p.name = "init-region" THEN "base" ELSE p.file
           cfg == file[origin].cfg
           loaded == [p EXCEPT !.cfg = IF p.name = "init-region" THEN Regional(cfg) ELSE cfg]
           stub == [loaded EXCEPT !.ids = Stubbed(loaded), !.pc = "save"]
           q == IF ~Loadable(origin) THEN Idle
                ELSE IF Dry(p) /\ p.name # "import" THEN Went(stub)
                ELSE On(loaded, Work(p.name, cfg))
<1>1. UNCHANGED <<file, cloud, made, blurred>> /\ Update(c, q) /\ p.pc = "load"
  BY DEF Load
<1>11. past' \in Past /\ past'.stubbed = past.stubbed
  BY DEF Load, ConfigIInv, ConfigTypes, Past
<1>2. Good(p, made) /\ made \in Counts /\ origin \in Files /\ FileOK(file[origin], made, UnsureIn(origin))
  <2>1. Good(p, made) /\ made \in Counts
    BY DEF ConfigIInv, ConfigTypes, Recorded
  <2>2. p.file \in Files
    BY <2>1 DEF Good, Sound, ProcessState
  <2> QED BY <2>1, <2>2, ConfigAssumption DEF ConfigIInv, Recorded
<1>3. cfg \in [Fields -> Nat] /\ (Loadable(origin) => Known(cfg, made, {}))
  BY <1>2 DEF FileOK, Known, Loadable, Valid
<1>4. Regional(cfg) \in [Fields -> Nat] /\ (Loadable(origin) => Known(Regional(cfg), made, {}))
  <2>1. Regional(cfg) \in [Fields -> Nat]
    BY <1>3 DEF Regional, None
  <2>2. ASSUME NEW f \in Fields PROVE Regional(cfg)[f] \in {cfg[f], 0}
    BY DEF Regional, None
  <2>3. \A f \in Fields : made[f] \in Nat
    BY <1>2, InFields DEF Counts
  <2> QED BY <1>3, <2>1, <2>2, <2>3 DEF Known
<1> DEFINE first == IF p.name = "init-region" THEN Regional(cfg) ELSE cfg
<1>5. loaded \in ProcessState /\ loaded.cfg = first /\ loaded.ids = p.ids
      /\ loaded.name = p.name /\ loaded.mode = p.mode
  BY <1>2, <1>3, <1>4 DEF Good, Sound, ProcessState
<1>6. Loadable(origin) => Sound(loaded, made)
  BY <1>2, <1>3, <1>4, <1>5 DEF Good, Sound, Unsure, Stubs
<1>7. Work(p.name, cfg) \in Seq(Items)
  <2>1. /\ <<>> \in Seq(Items) /\ <<"dbmEndpoint", "opsiEndpoint">> \in Seq(Items)
        /\ <<"secret">> \in Seq(Items) /\ <<"confirm", "safeEndpoint", "safeTarget">> \in Seq(Items)
        /\ <<"group">> \in Seq(Items) /\ <<"entity">> \in Seq(Items)
        /\ <<"terraform">> \in Seq(Items) /\ <<"outputs">> \in Seq(Items)
    BY DEF Items
  <2>2. \A s, t \in Seq(Items) : s \o t \in Seq(Items)
    BY ConcatProperties
  <2>3. CASE p.name = "prepare"
    BY <2>1, <2>2, <2>3 DEF Work
  <2>4. CASE p.name \in {"log-analytics", "configure"}
    BY <2>1, <2>2, <2>4 DEF Work
  <2>5. CASE p.name \notin {"prepare", "log-analytics", "configure"}
    BY <2>1, <2>5 DEF Work
  <2> QED BY <2>3, <2>4, <2>5
<1>8. Loadable(origin) =>
        Good(On(loaded, Work(p.name, cfg)), made) /\ ~CreatesLooked(On(loaded, Work(p.name, cfg)))
  <2> HIDE DEF loaded, cfg
  <2> QED BY <1>2, <1>6, <1>7, SoundOn
<1>9. Good(Idle, made) /\ ~CreatesLooked(Idle)
  BY <1>2, GoodIdle DEF CreatesLooked, Idle
<1>10. Loadable(origin) /\ Dry(p) => Good(Went(stub), made) /\ ~CreatesLooked(Went(stub))
  <2> SUFFICES ASSUME Loadable(origin), Dry(p)
               PROVE  Good(Went(stub), made) /\ ~CreatesLooked(Went(stub))
    OBVIOUS
  <2>1. Stubbed(loaded) \in [Fields -> Nat]
    <3>1. loaded.ids \in [Fields -> Nat] /\ Placeholder \in Nat
      BY <1>5, ConfigAssumption DEF ProcessState, Placeholder
    <3> HIDE DEF loaded
    <3> QED BY <3>1 DEF Stubbed
  <2>2. stub \in ProcessState /\ stub.pc = "save" /\ stub.cfg = loaded.cfg
        /\ stub.ids = Stubbed(loaded) /\ stub.name = loaded.name /\ stub.mode = loaded.mode
    BY <1>5, <2>1 DEF ProcessState, Stages
  <2>3. Went(stub) \in {stub, Idle}
    BY DEF Went
  <2>4. CASE p.name \in {"log-analytics", "configure"} /\ p.mode = "plan"
    <3>1. Went(stub) = Idle
      <4>1. ~Saves(stub)
        BY <1>5, <2>2, <2>4 DEF Saves
      <4> QED BY <4>1, <2>2 DEF Went
    <3> QED BY <3>1, <1>9
  <2>5. CASE p.name \notin {"log-analytics", "configure"} \/ Stubs(p)
    <3>1. Known(loaded.ids, made, Unsure(loaded)) /\ Unsure(stub) = Unsure(loaded)
      BY <1>6, <2>2 DEF Sound, Unsure, Stubs
    <3>2. \A f \in Fields : \/ stub.ids[f] = loaded.ids[f]
                            \/ f \in Unsure(stub) /\ stub.ids[f] = Placeholder
      <4>1. loaded.name = p.name /\ stub.name = p.name /\ loaded.mode = p.mode /\ stub.mode = p.mode
            /\ stub.ids = Stubbed(loaded)
        BY <1>5, <2>2
      <4> HIDE DEF loaded, stub
      <4>2. CASE p.name \notin {"log-analytics", "configure"}
        BY <4>1, <4>2 DEF Stubbed
      <4>3. CASE Stubs(p)
        <5>1. Unsure(stub) = Dried
          BY <4>1, <4>3 DEF Unsure, Stubs
        <5> QED BY <5>1, <4>1 DEF Stubbed, Dried
      <4> QED BY <2>5, <4>2, <4>3
    <3>3. Known(stub.ids, made, Unsure(stub))
      BY <3>1, <3>2 DEF Known
    <3>4. Good(stub, made) /\ ~CreatesLooked(stub)
      BY <3>3, <2>2, <1>6 DEF Good, Sound, HasWork, CreatesLooked
    <3> QED BY <3>4, <2>3, <1>9
  <2> QED BY <2>4, <2>5 DEF Dry, Stubs
<1>12. Good(q, made) /\ ~CreatesLooked(q)
  BY <1>8, <1>9, <1>10
<1> HIDE DEF q
<1>13. ConfigIInv'
  BY <1>1, <1>11, <1>12, UpdateAlone
<1>14. \A d \in Processes : cmd[d].file \in Files
  BY DEF ConfigIInv, Recorded, Good, Sound, ProcessState
<1>15. LookedFirst'
  BY <1>1, <1>12, <1>14, LookedKept DEF ConfigIInv
<1> QED BY <1>13, <1>15

\* The wizard picks ids of what is there.
LEMMA WizardStep ==
  ASSUME ConfigIInv, LookedFirst, NEW c \in Processes, Wizard(c)
  PROVE  ConfigIInv' /\ LookedFirst'
<1> DEFINE p == cmd[c]
<1> PICK picked \in SUBSET {k \in {"network", "key", "database", "secret"} : cloud[p.file][k] # {}} :
      Update(c, [p EXCEPT !.pc = "save",
                   !.ids = [k \in Fields |-> IF k \in picked THEN Found(p.file, k) ELSE None]])
  BY DEF Wizard
<1> DEFINE ids == [k \in Fields |-> IF k \in picked THEN Found(p.file, k) ELSE None]
           q == [p EXCEPT !.pc = "save", !.ids = ids]
<1>1. UNCHANGED <<file, cloud, made, blurred>> /\ past' \in Past /\ past'.stubbed = past.stubbed
  BY DEF Wizard, ConfigIInv, ConfigTypes, Past
<1>2. /\ Good(p, made) /\ made \in Counts /\ p.file \in Files /\ p \in ProcessState
      /\ \A d \in Processes : cmd[d].file \in Files
  BY InService DEF Good, Sound
<1>3. \A k \in Fields : ids[k] \in Nat /\ ids[k] <= made[k]
  BY <1>2, FoundMade, InFields DEF None, Counts
<1>4. ids \in [Fields -> Nat] /\ Known(ids, made, Unsure(q))
  BY <1>3 DEF Known
<1> HIDE DEF ids
<1>5. /\ q \in ProcessState /\ q.pc = "save" /\ q.cfg = p.cfg /\ q.ids = ids
  BY <1>2, <1>4 DEF ProcessState, Stages
<1>6. Good(q, made) /\ ~CreatesLooked(q)
  BY <1>2, <1>4, <1>5 DEF Good, Sound, HasWork, CreatesLooked
<1>7. Update(c, q)
  BY DEF ids
<1> HIDE DEF q
<1>8. ConfigIInv'
  BY <1>1, <1>6, <1>7, UpdateAlone
<1>9. LookedFirst'
  BY <1>1, <1>2, <1>6, <1>7, LookedKept DEF ConfigIInv
<1> QED BY <1>8, <1>9

\* A step of c that leaves the resources alone: the process it becomes either creates
\* nothing that is looked for, or goes on creating what it was about to.
LEMMA QuietStep ==
  ASSUME ConfigIInv, LookedFirst, NEW c \in Processes, NEW p, Update(c, p), Good(p, made),
         UNCHANGED <<file, cloud, made, past>>, blurred \subseteq blurred',
         CreatesLooked(p) =>
           \/ CreatesLooked(cmd[c]) /\ p.todo = cmd[c].todo /\ p.file = cmd[c].file
           \/ cloud[p.file][Head(p.todo)] = {} \/ Head(p.todo) \in blurred'
  PROVE  ConfigIInv' /\ LookedFirst'
<1>1. ConfigIInv'
  BY UpdateAlone DEF ConfigIInv, ConfigTypes
<1>2. LookedFirst'
  BY InService, LookedKept DEF ConfigIInv
<1> QED BY <1>1, <1>2

\* A call that fails ends the command without a save.
LEMMA FailedStep ==
  ASSUME ConfigIInv, LookedFirst, NEW c \in Processes, NEW stderr, NEW retry \in BOOLEAN,
         cmd[c].pc \in {"list", "relist", "create", "terraform", "outputs"},
         Update(c, CallFailed(cmd[c], stderr, retry)),
         UNCHANGED <<file, cloud, made, past>>, blurred \subseteq blurred'
  PROVE  ConfigIInv' /\ LookedFirst'
<1> DEFINE p == cmd[c]
           q == CallFailed(p, stderr, retry)
<1>1. Good(p, made) /\ made \in Counts /\ p.todo # <<>> /\ p \in ProcessState
  BY InService DEF Good, Sound, HasWork, HeadIn
<1>2. /\ Good(q, made)
      /\ CreatesLooked(q) => CreatesLooked(p) /\ q = [p EXCEPT !.attempt = @ + 1]
  <2> HIDE DEF p
  <2> QED BY <1>1, GoodFailed
<1>3. CreatesLooked(q) => CreatesLooked(p) /\ q.todo = p.todo /\ q.file = p.file
  BY <1>1, <1>2 DEF ProcessState
<1> HIDE DEF q
<1> QED BY <1>2, <1>3, QuietStep DEF q

\* A look finds what is there, or is recorded as having missed it.
LEMMA ListStep ==
  ASSUME ConfigIInv, LookedFirst, NEW c \in Processes, List(c)
  PROVE  ConfigIInv' /\ LookedFirst'
<1> DEFINE p == cmd[c]
<1>1. /\ Good(p, made) /\ made \in Counts /\ p.file \in Files /\ p.todo # <<>> /\ p \in ProcessState
      /\ Kind(p) \in Kinds /\ p.pc \in {"list", "relist"}
  <2>1. Good(p, made) /\ made \in Counts /\ p.file \in Files /\ p \in ProcessState /\ p.pc \in {"list", "relist"}
    BY InService DEF List, Good, Sound
  <2>2. p.todo # <<>> /\ Head(p.todo) \in Looks
    BY <2>1 DEF Good, HasWork, HeadIn, Looks
  <2>3. Kind(p) \in Kinds
    BY <2>2 DEF Kind, Looks, Kinds, Fields
  <2> QED BY <2>1, <2>2, <2>3
<1>2. Here(p) \in SUBSET Nat /\ \A id \in Here(p) : id <= made[Kind(p)]
  BY <1>1 DEF ConfigIInv, ConfigTypes, Recorded, Here
<1>3. ASSUME NEW seen \in {{}, Here(p)}, Update(c, Answered(p, seen)),
             UNCHANGED <<file, cloud, made, past>>, blurred \subseteq blurred',
             seen = Here(p) \/ Kind(p) \in blurred'
      PROVE  ConfigIInv' /\ LookedFirst'
  <2> DEFINE q == Answered(p, seen)
  <2>1. seen \in SUBSET Nat /\ \A id \in seen : id <= made[Kind(p)]
    BY <1>2
  <2>2. /\ Good(q, made)
        /\ CreatesLooked(q) => seen = {} /\ q = [p EXCEPT !.pc = "create", !.attempt = 0]
    <3> HIDE DEF p
    <3> QED BY <1>1, <2>1, GoodAnswered
  <2>3. ASSUME CreatesLooked(q)
        PROVE  cloud[q.file][Head(q.todo)] = {} \/ Head(q.todo) \in blurred'
    <3>1. q.file = p.file /\ q.todo = p.todo /\ seen = {} /\ Head(q.todo) \in Looked
      BY <1>1, <2>2, <2>3 DEF ProcessState, CreatesLooked
    <3>2. Kind(p) = Head(p.todo)
      BY <3>1 DEF Kind, Looked
    <3> QED BY <3>1, <3>2, <1>3 DEF Here
  <2> HIDE DEF q
  <2> QED BY <1>3, <2>2, <2>3, QuietStep DEF q
<1>4. CASE Update(c, Answered(p, Here(p))) /\ UNCHANGED <<cloud, made, blurred, file, past>>
  BY <1>3, <1>4
<1>5. CASE Update(c, Answered(p, {})) /\ blurred' = blurred \cup {Kind(p)}
           /\ UNCHANGED <<cloud, made, file, past>>
  BY <1>3, <1>5
<1>6. ASSUME NEW stderr, Update(c, CallFailed(p, stderr, TRUE)), UNCHANGED <<cloud, made, blurred, file, past>>
      PROVE  ConfigIInv' /\ LookedFirst'
  <2>1. cmd[c].pc \in {"list", "relist", "create", "terraform", "outputs"} /\ blurred \subseteq blurred'
    BY <1>1, <1>6
  <2> QED BY <2>1, <1>6, FailedStep
<1> QED BY <1>4, <1>5, <1>6 DEF List, Throttled

\* The service makes something for a command that creates: the counts and what is there.
LEMMA MakesRecorded ==
  ASSUME ConfigIInv, NEW c \in Processes, NEW k \in Kinds, cmd[c].file \in Files, Makes(c, k)
  PROVE  /\ made' \in Counts /\ made'[k] = made[k] + 1 /\ (\A x \in Kinds : made[x] <= made'[x])
         /\ cloud' \in [Files -> [Kinds -> SUBSET Nat]]
         /\ \A f \in Files, x \in Kinds : \A id \in cloud'[f][x] : id <= made'[x]
         /\ \A f \in Files, x \in Kinds :
              cloud'[f][x] = IF f = cmd[c].file /\ x = k THEN cloud[f][x] \cup {made[k] + 1}
                             ELSE cloud[f][x]
         /\ blurred \subseteq blurred'
<1> DEFINE g == cmd[c].file
<1>1. /\ made \in Counts /\ cloud \in [Files -> [Kinds -> SUBSET Nat]] /\ g \in Files
      /\ \A f \in Files, x \in Kinds : \A id \in cloud[f][x] : id <= made[x]
  BY DEF ConfigIInv, ConfigTypes, Recorded
<1>2. /\ cloud' = [cloud EXCEPT ![g][k] = @ \cup {made[k] + 1}] /\ made' = [made EXCEPT ![k] = @ + 1]
      /\ blurred \subseteq blurred'
  BY DEF Makes
<1> HIDE DEF g
<1>3. made' \in Counts /\ made'[k] = made[k] + 1 /\ \A x \in Kinds : made[x] <= made'[x]
  BY <1>1, <1>2 DEF Counts
<1>4. \A f \in Files, x \in Kinds :
        cloud'[f][x] = IF f = g /\ x = k THEN cloud[f][x] \cup {made[k] + 1} ELSE cloud[f][x]
  BY <1>1, <1>2
<1>5. cloud' \in [Files -> [Kinds -> SUBSET Nat]]
  <2>1. made[k] + 1 \in Nat
    BY <1>1 DEF Counts
  <2> QED BY <2>1, <1>1, <1>2
<1>6. \A f \in Files, x \in Kinds : \A id \in cloud'[f][x] : id <= made'[x]
  <2> SUFFICES ASSUME NEW f \in Files, NEW x \in Kinds, NEW id \in cloud'[f][x] PROVE id <= made'[x]
    OBVIOUS
  <2>1. id \in Nat /\ made[x] \in Nat /\ made'[x] \in Nat /\ made[x] <= made'[x]
    BY <1>3, <1>1, <1>5 DEF Counts
  <2>2. CASE id \in cloud[f][x]
    <3>1. id <= made[x]
      BY <2>2, <1>1
    <3> QED BY <3>1, <2>1
  <2>3. CASE id \notin cloud[f][x]
    <3>1. x = k /\ id = made[k] + 1
      BY <2>3, <1>4
    <3> QED BY <3>1, <2>1, <1>3
  <2> QED BY <2>2, <2>3
<1> QED BY <1>2, <1>3, <1>4, <1>5, <1>6 DEF g

\* The first of a kind in a region.
LEMMA OnceMade ==
  ASSUME NEW k, NEW g \in Files, NEW id, Once(k), cloud'[g][k] = {id},
         \A f \in Files : f # g => cloud'[f][k] = cloud[f][k]
  PROVE  Once(k)'
BY DEF Once

\* What a command that creates goes on with, whatever comes of the answer.
LEMMA MadeStep ==
  ASSUME ConfigIInv, LookedFirst, NEW c \in Processes, cmd[c].pc = "create",
         Makes(c, Head(cmd[c].todo)), NEW q, Update(c, q), Good(q, made'),
         ~CreatesLooked(q), UNCHANGED <<file, past>>,
         ~(Head(cmd[c].todo) \in Unique /\ cloud[cmd[c].file][Head(cmd[c].todo)] # {})
  PROVE  ConfigIInv' /\ LookedFirst'
<1> DEFINE p == cmd[c]
           k == Head(cmd[c].todo)
<1>1. /\ Good(p, made) /\ made \in Counts /\ p.file \in Files /\ k \in Creatable
      /\ k \in Kinds /\ \A d \in Processes : cmd[d].file \in Files
  BY InService, InFields DEF Good, HasWork, HeadIn
<1>2. /\ made' \in Counts /\ (\A x \in Kinds : made[x] <= made'[x])
      /\ cloud' \in [Files -> [Kinds -> SUBSET Nat]]
      /\ \A f \in Files, x \in Kinds : \A id \in cloud'[f][x] : id <= made'[x]
      /\ \A f \in Files, x \in Kinds :
              cloud'[f][x] = IF f = p.file /\ x = k THEN cloud[f][x] \cup {made[k] + 1}
                             ELSE cloud[f][x]
      /\ blurred \subseteq blurred'
  BY <1>1, MakesRecorded
<1>3. /\ DOMAIN cmd' = Processes /\ cmd' = [d \in Processes |-> cmd'[d]]
      /\ \A d \in Processes : Good(cmd'[d], made')
  BY <1>2, UpdateRecorded DEF ConfigIInv
<1>4. \A f \in Files : FileOK(file[f], made', UnsureIn(f))
  <2> SUFFICES ASSUME NEW f \in Files PROVE FileOK(file[f], made', UnsureIn(f))
    OBVIOUS
  <2>1. FileOK(file[f], made, UnsureIn(f))
    BY DEF ConfigIInv, Recorded
  <2> QED BY <2>1, <1>1, <1>2, KnownMore DEF FileOK
<1>5. ConfigIInv'
  BY <1>2, <1>3, <1>4 DEF ConfigIInv, ConfigTypes, Recorded, UnsureIn
<1>9. ASSUME NEW x \in Kinds, x = k, Once(x), cloud[p.file][x] = {} PROVE Once(x)'
  <2> PICK g : g = p.file
    OBVIOUS
  <2> PICK id : id = made[k] + 1
    OBVIOUS
  <2>1. /\ g \in Files /\ cloud'[g][x] = {id}
        /\ \A f \in Files : f # g => cloud'[f][x] = cloud[f][x]
    BY <1>1, <1>2, <1>9
  <2> QED BY <2>1, <1>9, OnceMade
<1>6. ASSUME NEW d \in Processes, CreatesLooked(cmd'[d]) PROVE NotThere(cmd[d])'
  <2>1. d # c /\ cmd'[d] = cmd[d]
    BY <1>6 DEF Update, ConfigIInv, ConfigTypes
  <2>2. NotThere(cmd[d]) /\ Head(cmd[d].todo) \in Looked /\ cmd[d].pc = "create"
    BY <2>1, <1>6 DEF LookedFirst, CreatesLooked
  <2>3. CASE cmd[d].file = p.file /\ Head(cmd[d].todo) = k
    <3>1. k \in blurred'
      BY <2>1, <2>2, <2>3 DEF Makes
    <3> QED BY <3>1, <2>1, <2>3 DEF NotThere
  <2>4. CASE ~(cmd[d].file = p.file /\ Head(cmd[d].todo) = k)
    <3>1. cloud'[cmd[d].file][Head(cmd[d].todo)] = cloud[cmd[d].file][Head(cmd[d].todo)]
      BY <2>2, <2>4, <1>1, <1>2, InFields
    <3> QED BY <3>1, <2>1, <2>2, <1>2 DEF NotThere
  <2> QED BY <2>3, <2>4
<1>7. ASSUME NEW x \in Looked PROVE Once(x)' \/ x \in blurred'
  <2>1. CASE x # k
    <3>1. \A f \in Files : cloud'[f][x] = cloud[f][x]
      BY <2>1, <1>2, InFields
    <3> QED BY <3>1, <1>2 DEF LookedFirst, Once
  <2>2. CASE x = k
    <3>1. cloud[p.file][x] = {} \/ x \in blurred
      BY <2>2 DEF LookedFirst, CreatesLooked, NotThere
    <3>2. CASE Once(x) /\ cloud[p.file][x] = {}
      BY <3>2, <2>2, <1>9, InFields
    <3> QED BY <3>1, <3>2, <1>2 DEF LookedFirst
  <2> QED BY <2>1, <2>2
<1>8. "secret" \in Unique => Once("secret")'
  <2> SUFFICES ASSUME "secret" \in Unique PROVE Once("secret")'
    OBVIOUS
  <2>1. CASE "secret" # k
    <3>1. \A f \in Files : cloud'[f]["secret"] = cloud[f]["secret"]
      BY <2>1, <1>2, InFields DEF Creatable
    <3> QED BY <3>1, <1>2 DEF LookedFirst, Once
  <2>2. CASE "secret" = k
    <3>1. cloud[p.file][k] = {} /\ Once(k)
      BY <2>2 DEF LookedFirst
    <3> QED BY <3>1, <2>2, <1>9, InFields DEF Creatable
  <2> QED BY <2>1, <2>2
<1> QED BY <1>5, <1>6, <1>7, <1>8 DEF LookedFirst

\* A create makes one more; if its answer is lost and it was looked for first, the retry
\* is refused or the look is repeated (runner.py, prerequisites.py).
LEMMA CreateResourceStep ==
  ASSUME ConfigIInv, LookedFirst, NEW c \in Processes, CreateResource(c)
  PROVE  ConfigIInv' /\ LookedFirst'
<1> DEFINE p == cmd[c]
           k == Head(p.todo)
           json == k \in ThroughJson
           taken == k \in Unique /\ cloud[p.file][k] # {}
<1>1. /\ Good(p, made) /\ made \in Counts /\ p.file \in Files /\ p.todo # <<>> /\ k \in Kinds
      /\ k \in Creatable /\ p.pc = "create" /\ p \in ProcessState /\ json \in BOOLEAN
  <2>1. p.pc = "create" /\ json \in BOOLEAN
    BY DEF CreateResource
  <2>2. Good(p, made) /\ made \in Counts /\ p.file \in Files /\ p \in ProcessState
    BY InService DEF Good, Sound
  <2>3. p.todo # <<>> /\ k \in Creatable
    BY <2>1, <2>2 DEF Good, HasWork, HeadIn
  <2> QED BY <2>1, <2>2, <2>3, InFields
<1>2. ASSUME NEW stderr, NEW retry \in BOOLEAN, Update(c, CallFailed(p, stderr, retry)),
             UNCHANGED <<cloud, made, blurred, file, past>>
      PROVE  ConfigIInv' /\ LookedFirst'
  <2>1. cmd[c].pc \in {"list", "relist", "create", "terraform", "outputs"} /\ blurred \subseteq blurred'
    BY <1>1, <1>2
  <2> QED BY <2>1, <1>2, FailedStep
<1>3. ASSUME Makes(c, k), ~taken
      PROVE  made' \in Counts /\ made'[k] = made[k] + 1 /\ Good(p, made')
  BY <1>1, <1>3, MakesRecorded, GoodMore
<1>4. ASSUME ~taken, Makes(c, k), UNCHANGED <<file, past>>,
             Update(c, IF k = "safeEndpoint" THEN [p EXCEPT !.pc = "relist", !.attempt = 0]
                         ELSE NextItem(IF json THEN Learned(p, made[k] + 1) ELSE p))
      PROVE  ConfigIInv' /\ LookedFirst'
  <2> DEFINE q == IF k = "safeEndpoint" THEN [p EXCEPT !.pc = "relist", !.attempt = 0]
                         ELSE NextItem(IF json THEN Learned(p, made[k] + 1) ELSE p)
  <2>1. Good(q, made') /\ ~CreatesLooked(q)
    <3>1. CASE k = "safeEndpoint"
      <4> DEFINE r == [p EXCEPT !.pc = "relist", !.attempt = 0]
      <4>1. r \in ProcessState /\ r.pc = "relist" /\ r.todo = p.todo /\ r.cfg = p.cfg /\ r.ids = p.ids
            /\ r.name = p.name /\ r.mode = p.mode
        BY <1>1 DEF ProcessState, Stages
      <4>2. Good(r, made') /\ ~CreatesLooked(r)
        BY <4>1, <3>1, <1>1, <1>3, <1>4 DEF Good, Sound, Unsure, Stubs, HasWork, HeadIn, CreatesLooked
      <4>3. q = r
        BY <3>1
      <4> QED BY <4>2, <4>3
    <3>2. CASE k # "safeEndpoint" /\ json
      <4> DEFINE r == Learned(p, made[k] + 1)
      <4>1. Kind(p) = k /\ made[k] + 1 \in Nat
        BY <3>2, <1>1 DEF Kind, ThroughJson, Counts
      <4>2. Sound(r, made') /\ r.todo = p.todo
        <5>1. Sound(p, made') /\ made[k] + 1 <= made'[k]
          BY <1>3, <1>4, <4>1 DEF Good
        <5> QED BY <5>1, <4>1, <1>3, <1>4, SoundLearned
      <4>3. Good(NextItem(r), made') /\ ~CreatesLooked(NextItem(r))
        <5> HIDE DEF r
        <5> QED BY <4>2, <1>1, <1>3, <1>4, SoundNextItem
      <4>4. q = NextItem(r)
        BY <3>2
      <4> QED BY <4>3, <4>4
    <3>3. CASE k # "safeEndpoint" /\ ~json
      <4>1. q = NextItem(p)
        BY <3>3
      <4>2. Sound(p, made') /\ made' \in Counts
        BY <1>3, <1>4 DEF Good
      <4> QED BY <4>1, <4>2, <1>1, SoundNextItem
    <3> QED BY <3>1, <3>2, <3>3
  <2> HIDE DEF q
  <2> QED BY <2>1, <1>1, <1>4, MadeStep DEF q
<1>5. ASSUME ~taken, Makes(c, k), UNCHANGED <<file, past>>, Update(c, CallFailed(p, Timeout, json))
      PROVE  ConfigIInv' /\ LookedFirst'
  <2> DEFINE q == CallFailed(p, Timeout, json)
  <2>1. Good(q, made') /\ (CreatesLooked(q) => CreatesLooked(p) /\ q = [p EXCEPT !.attempt = @ + 1])
    <3> HIDE DEF p
    <3> QED BY <1>1, <1>3, <1>5, GoodFailed
  <2>2. ~CreatesLooked(q)
    <3> SUFFICES ASSUME CreatesLooked(q) PROVE FALSE
      OBVIOUS
    <3>1. CreatesLooked(p) /\ ~json
      BY <2>1 DEF CreatesLooked, Looked, ThroughJson
    <3>2. Classify(Timeout) = "OciTransient"
      BY DEF Classify, Timeout
    <3>3. ~ShouldRetry(Classify(Timeout), json, p.attempt)
      BY <3>1, <3>2 DEF ShouldRetry
    <3>4. q \in {NextItem(p), Idle}
      BY <3>3 DEF CallFailed
    <3>5. ~CreatesLooked(NextItem(p)) /\ ~CreatesLooked(Idle)
      BY <1>1, SoundNextItem DEF Good, CreatesLooked, Idle
    <3> QED BY <3>4, <3>5
  <2> HIDE DEF q
  <2> QED BY <2>1, <2>2, <1>1, <1>5, MadeStep DEF q
<1> QED BY <1>1, <1>2, <1>4, <1>5 DEF CreateResource, Throttled

\* A command that is over, or that goes on with other work than creating.
LEMMA EndStep ==
  ASSUME ConfigIInv, LookedFirst, NEW c \in Processes, Update(c, Idle),
         UNCHANGED <<file, cloud, made>>, past' \in Past, past'.stubbed = past.stubbed,
         blurred \subseteq blurred'
  PROVE  ConfigIInv' /\ LookedFirst'
<1>1. Good(Idle, made) /\ ~CreatesLooked(Idle)
  BY InService, GoodIdle DEF CreatesLooked, Idle
<1>2. ConfigIInv'
  BY <1>1, UpdateAlone
<1>3. LookedFirst'
  BY <1>1, InService, LookedKept DEF ConfigIInv
<1> QED BY <1>2, <1>3

\* terraform apply makes what its state does not have.
LEMMA TerraformStep ==
  ASSUME ConfigIInv, LookedFirst, NEW c \in Processes, Terraform(c)
  PROVE  ConfigIInv' /\ LookedFirst'
<1> DEFINE p == cmd[c]
<1> PICK S \in SUBSET Missing(p.file) :
           /\ cloud' = [cloud EXCEPT ![p.file] =
                          [k \in Kinds |-> IF k \in S THEN {made[k] + 1} ELSE @[k]]]
           /\ made' = [k \in Kinds |-> IF k \in S THEN made[k] + 1 ELSE made[k]]
           /\ Update(c, NextItem(p))
  BY DEF Terraform
<1>1. /\ Good(p, made) /\ made \in Counts /\ p.file \in Files /\ p.todo # <<>>
      /\ \A d \in Processes : cmd[d].file \in Files
      /\ UNCHANGED <<file, blurred, past>>
  BY InService DEF Terraform, Good, HasWork, HeadIn
<1>2. cloud \in [Files -> [Kinds -> SUBSET Nat]] /\ S \subseteq Kinds /\ S \subseteq Managed
  BY DEF ConfigIInv, ConfigTypes, Missing, Managed, Kinds, Fields
<1>3. made' \in Counts /\ \A k \in Kinds : made[k] <= made'[k]
  BY <1>1 DEF Counts
<1>4. cloud' \in [Files -> [Kinds -> SUBSET Nat]]
  <2>1. \A k \in Kinds : made[k] + 1 \in Nat
    BY <1>1 DEF Counts
  <2>2. [k \in Kinds |-> IF k \in S THEN {made[k] + 1} ELSE cloud[p.file][k]] \in [Kinds -> SUBSET Nat]
    BY <2>1, <1>1, <1>2
  <2> QED BY <2>2, <1>1, <1>2
<1>5. ASSUME NEW f \in Files, NEW k \in Kinds
      PROVE  cloud'[f][k] = cloud[f][k] \/ (k \in S /\ cloud'[f][k] = {made[k] + 1})
  BY <1>1, <1>2
<1>6. ASSUME NEW f \in Files, NEW k \in Kinds, NEW id \in cloud'[f][k] PROVE id <= made'[k]
  <2>1. made[k] \in Nat /\ made'[k] \in Nat /\ made[k] <= made'[k] /\ id \in Nat
    BY <1>1, <1>3, <1>4, <1>6 DEF Counts
  <2>2. CASE cloud'[f][k] = cloud[f][k]
    <3>1. id <= made[k]
      BY <2>2, <1>6 DEF ConfigIInv, Recorded
    <3> QED BY <3>1, <2>1
  <2>3. CASE k \in S /\ cloud'[f][k] = {made[k] + 1}
    <3>1. id = made[k] + 1 /\ made'[k] = made[k] + 1
      BY <2>3, <1>6
    <3> QED BY <3>1, <2>1
  <2> QED BY <2>2, <2>3, <1>5
<1>7. Good(NextItem(p), made') /\ ~CreatesLooked(NextItem(p))
  <2>1. Sound(p, made')
    BY <1>1, <1>3, GoodMore DEF Good
  <2> HIDE DEF p
  <2> QED BY <2>1, <1>1, <1>3, SoundNextItem
<1>8. /\ DOMAIN cmd' = Processes /\ cmd' = [d \in Processes |-> cmd'[d]]
      /\ \A d \in Processes : Good(cmd'[d], made')
  BY <1>3, <1>7, UpdateRecorded DEF ConfigIInv
<1>9. \A f \in Files : FileOK(file[f], made', UnsureIn(f))
  <2> SUFFICES ASSUME NEW f \in Files PROVE FileOK(file[f], made', UnsureIn(f))
    OBVIOUS
  <2>1. FileOK(file[f], made, UnsureIn(f))
    BY DEF ConfigIInv, Recorded
  <2> QED BY <2>1, <1>1, <1>3, KnownMore DEF FileOK
<1>10. ConfigIInv'
  BY <1>1, <1>3, <1>4, <1>6, <1>8, <1>9 DEF ConfigIInv, ConfigTypes, Recorded, UnsureIn
<1>11. \A f \in Files, k \in Looked \cup {"secret"} : cloud'[f][k] \subseteq cloud[f][k]
  BY <1>2, <1>5, InFields DEF Looked, Managed, Creatable
<1>12. LookedFirst'
  BY <1>1, <1>7, <1>11, LookedKept DEF ConfigIInv
<1> QED BY <1>10, <1>12

\* The outputs are the ids of what Terraform made.
LEMMA OutputsStep ==
  ASSUME ConfigIInv, LookedFirst, NEW c \in Processes, Outputs(c)
  PROVE  ConfigIInv' /\ LookedFirst'
<1> DEFINE p == cmd[c]
           got == [f \in Fields |-> IF f \in Managed THEN Found(p.file, f) ELSE p.ids[f]]
           read == [p EXCEPT !.ids = [f \in Fields |-> IF f \in Managed THEN Found(p.file, f) ELSE @[f]]]
           todo == IF p.cfg["database"] = None THEN <<"database">> ELSE <<>>
           q == On(read, todo)
<1>1. /\ Good(p, made) /\ made \in Counts /\ p.file \in Files /\ p.pc = "outputs"
      /\ p \in ProcessState /\ UNCHANGED <<file, past>>
  BY InService DEF Outputs, Good, Sound
<1>2. CASE Throttled(c, FALSE)
  <2>1. /\ cmd[c].pc \in {"list", "relist", "create", "terraform", "outputs"}
        /\ Update(c, CallFailed(cmd[c], Throttle, FALSE)) /\ UNCHANGED <<file, cloud, made, past>>
        /\ blurred \subseteq blurred' /\ FALSE \in BOOLEAN
    BY <1>1, <1>2 DEF Throttled
  <2> QED BY <2>1, FailedStep
<1>3. CASE Update(c, q) /\ UNCHANGED <<cloud, made, blurred>>
  <2>1. ASSUME NEW k \in Managed PROVE Found(p.file, k) \in Nat /\ Found(p.file, k) <= made[k]
    <3>1. k \in Kinds
      BY DEF Managed, Kinds, Fields
    <3> QED BY <3>1, <1>1, FoundMade
  <2>2. got \in [Fields -> Nat] /\ Known(got, made, Unsure(p))
    <3>1. p.ids \in [Fields -> Nat] /\ Known(p.ids, made, Unsure(p))
      BY <1>1 DEF Good, Sound, ProcessState
    <3> QED BY <3>1, <2>1 DEF Known
  <2>3. read = [p EXCEPT !.ids = got]
    OBVIOUS
  <2> HIDE DEF got
  <2>4. /\ read \in ProcessState /\ read.cfg = p.cfg /\ read.ids = got /\ read.name = p.name
        /\ read.mode = p.mode
    BY <2>2, <2>3, <1>1 DEF ProcessState
  <2>5. Sound(read, made)
    BY <2>2, <2>4, <1>1 DEF Good, Sound, Unsure, Stubs
  <2>6. todo \in Seq(Items)
    <3>1. <<"database">> \in Seq(Items) /\ <<>> \in Seq(Items)
      BY DEF Items
    <3> QED BY <3>1
  <2>7. Good(q, made) /\ ~CreatesLooked(q)
    <3> HIDE DEF read, todo
    <3> QED BY <2>5, <2>6, <1>1, SoundOn
  <2>8. blurred \subseteq blurred'
    BY <1>3
  <2> HIDE DEF q
  <2> QED BY <2>7, <2>8, <1>1, <1>3, QuietStep
<1> QED BY <1>2, <1>3 DEF Outputs

\* save_config opens the file: the text is gone, and with it the ids.
LEMMA TruncateStep ==
  ASSUME ConfigIInv, LookedFirst, NEW c \in Processes, Truncate(c)
  PROVE  ConfigIInv' /\ LookedFirst'
<1> DEFINE p == cmd[c]
           q == [cmd[c] EXCEPT !.pc = "write"]
           empty == [text |-> "empty", cfg |-> Nothing]
<1>1. /\ Good(p, made) /\ made \in Counts /\ p.file \in Files /\ p \in ProcessState
      /\ \A d \in Processes : cmd[d].file \in Files
  BY InService DEF Good, Sound
<1>2. /\ file' = [file EXCEPT ![p.file] = empty] /\ Update(c, q)
      /\ UNCHANGED <<cloud, made, blurred>>
  BY DEF Truncate
<1>3. past' \in Past /\ past'.stubbed = past.stubbed
  BY <1>1 DEF Truncate, ConfigIInv, ConfigTypes, Past
<1>4. /\ q \in ProcessState /\ q.pc = "write" /\ q.cfg = p.cfg /\ q.ids = p.ids /\ q.name = p.name
      /\ q.mode = p.mode
  BY <1>1 DEF ProcessState, Stages
<1>5. Good(q, made) /\ ~CreatesLooked(q)
  BY <1>1, <1>4 DEF Good, Sound, Unsure, Stubs, HasWork, CreatesLooked
<1> HIDE DEF q
<1>6. made' \in Counts /\ (\A k \in Kinds : made[k] <= made'[k]) /\ Good(q, made')
  BY <1>1, <1>2, <1>5 DEF Counts
<1>7. /\ DOMAIN cmd' = Processes /\ cmd' = [d \in Processes |-> cmd'[d]]
      /\ \A d \in Processes : Good(cmd'[d], made')
  BY <1>2, <1>6, UpdateRecorded DEF ConfigIInv
<1>8. DOMAIN file' = Files /\ file' = [f \in Files |-> file'[f]]
  BY <1>2 DEF ConfigIInv, ConfigTypes
<1>9. ASSUME NEW f \in Files PROVE FileOK(file'[f], made, UnsureIn(f))
  <2>1. FileOK(file[f], made, UnsureIn(f)) /\ DOMAIN file = Files
    BY DEF ConfigIInv, ConfigTypes, Recorded
  <2>2. file'[f] = file[f] \/ file'[f] = empty
    BY <1>2, <2>1
  <2>3. FileOK(empty, made, UnsureIn(f))
    BY <1>1, InFields DEF FileOK, Texts, Known, Nothing, None, Counts
  <2> QED BY <2>1, <2>2, <2>3
<1>10. ConfigIInv'
  BY <1>2, <1>3, <1>7, <1>8, <1>9 DEF ConfigIInv, ConfigTypes, Recorded, UnsureIn
<1>11. LookedFirst'
  BY <1>1, <1>2, <1>5, LookedKept DEF ConfigIInv
<1> QED BY <1>10, <1>11

\* save_config writes the ids the command has, and no others.
LEMMA WriteStep ==
  ASSUME ConfigIInv, LookedFirst, NEW c \in Processes, Write(c)
  PROVE  ConfigIInv' /\ LookedFirst'
<1> DEFINE p == cmd[c]
           saved == [text |-> "whole", cfg |-> Merged(p)]
           mixed == [text |-> "mixed", cfg |-> Nothing]
<1>1. /\ Good(p, made) /\ made \in Counts /\ p.file \in Files /\ p \in ProcessState
      /\ \A d \in Processes : cmd[d].file \in Files
  BY InService DEF Good, Sound
<1>2. /\ \E x \in {saved, mixed} : file' = [file EXCEPT ![p.file] = x]
      /\ Update(c, Idle) /\ UNCHANGED <<cloud, made, blurred>>
  BY DEF Write
<1>3. past' \in Past /\ past'.stubbed = past.stubbed \cup (IF Stubs(p) THEN {p.file} ELSE {})
  BY <1>1 DEF Write, ConfigIInv, ConfigTypes, Past, Has
<1>4. Good(Idle, made) /\ ~CreatesLooked(Idle)
  BY <1>1, GoodIdle DEF CreatesLooked, Idle
<1>5. made' \in Counts /\ (\A k \in Kinds : made[k] <= made'[k]) /\ Good(Idle, made')
  BY <1>1, <1>2, <1>4 DEF Counts
<1>6. /\ DOMAIN cmd' = Processes /\ cmd' = [d \in Processes |-> cmd'[d]]
      /\ \A d \in Processes : Good(cmd'[d], made')
  BY <1>2, <1>5, UpdateRecorded DEF ConfigIInv
<1>7. Merged(p) \in [Fields -> Nat] /\ Known(Merged(p), made, Unsure(p))
  <2>1. /\ p.cfg \in [Fields -> Nat] /\ p.ids \in [Fields -> Nat]
        /\ Known(p.cfg, made, {}) /\ Known(p.ids, made, Unsure(p))
    BY <1>1 DEF Good, Sound, ProcessState
  <2> HIDE DEF p
  <2>2. Merged(p) \in [Fields -> Nat]
    BY <2>1 DEF Merged
  <2>3. \A f \in Fields : Merged(p)[f] \in {p.cfg[f], p.ids[f]}
    BY DEF Merged
  <2> QED BY <2>1, <2>2, <2>3 DEF Known
<1>8. DOMAIN file' = Files /\ file' = [f \in Files |-> file'[f]]
  BY <1>2 DEF ConfigIInv, ConfigTypes
<1>9. ASSUME NEW f \in Files PROVE FileOK(file'[f], made, UnsureIn(f)')
  <2>1. FileOK(file[f], made, UnsureIn(f)) /\ DOMAIN file = Files
    BY DEF ConfigIInv, ConfigTypes, Recorded
  <2>2. UnsureIn(f) \subseteq UnsureIn(f)' /\ (f = p.file => Unsure(p) \subseteq UnsureIn(f)')
    BY <1>3 DEF UnsureIn, Unsure
  <2>3. CASE f # p.file
    <3>1. file'[f] = file[f]
      BY <1>2, <2>1, <2>3
    <3> QED BY <3>1, <2>1, <2>2 DEF FileOK, Known
  <2>4. CASE f = p.file
    <3>1. file'[f] \in {saved, mixed}
      BY <1>2, <2>1, <2>4
    <3>2. FileOK(saved, made, UnsureIn(f)')
      <4>1. saved.text \in Texts /\ saved.cfg = Merged(p)
        BY DEF Texts
      <4>2. Known(Merged(p), made, UnsureIn(f)')
        BY <1>7, <2>2, <2>4 DEF Known
      <4> HIDE DEF p
      <4> QED BY <1>7, <4>1, <4>2 DEF FileOK
    <3>3. FileOK(mixed, made, UnsureIn(f)')
      BY <1>1, InFields DEF FileOK, Texts, Known, Nothing, None, Counts
    <3> QED BY <3>1, <3>2, <3>3
  <2> QED BY <2>3, <2>4
<1>10. ConfigIInv'
  BY <1>2, <1>3, <1>6, <1>8, <1>9 DEF ConfigIInv, ConfigTypes, Recorded
<1>11. LookedFirst'
  BY <1>1, <1>2, <1>4, LookedKept DEF ConfigIInv
<1> QED BY <1>10, <1>11

\* A registration that ends elsewhere takes no id out of a file.
LEMMA DeregisterStep ==
  ASSUME ConfigIInv, LookedFirst, Deregister
  PROVE  ConfigIInv' /\ LookedFirst'
<1> PICK f \in Files : \E id \in cloud[f]["safeTarget"] :
       cloud' = [cloud EXCEPT ![f]["safeTarget"] = @ \ {id}]
  BY DEF Deregister
<1> PICK id \in cloud[f]["safeTarget"] :
       cloud' = [cloud EXCEPT ![f]["safeTarget"] = @ \ {id}]
  OBVIOUS
<1>1. UNCHANGED <<file, made, cmd, blurred, past>>
  BY DEF Deregister
<1>2. cloud \in [Files -> [Kinds -> SUBSET Nat]]
  BY DEF ConfigIInv, ConfigTypes
<1>3. cloud' \in [Files -> [Kinds -> SUBSET Nat]] /\ "safeTarget" \in Kinds
  <2>1. "safeTarget" \in Kinds
    BY DEF Kinds, Fields
  <2>2. cloud[f] \in [Kinds -> SUBSET Nat] /\ cloud[f]["safeTarget"] \ {id} \in SUBSET Nat
    BY <1>2, <2>1
  <2>3. [cloud[f] EXCEPT !["safeTarget"] = @ \ {id}] \in [Kinds -> SUBSET Nat]
    BY <2>1, <2>2
  <2> QED BY <1>2, <2>1, <2>3
<1>4. ASSUME NEW g \in Files, NEW k \in Kinds PROVE cloud'[g][k] \subseteq cloud[g][k]
  <2>1. cloud[f] \in [Kinds -> SUBSET Nat] /\ cloud[g] \in [Kinds -> SUBSET Nat]
    BY <1>2
  <2>2. CASE g = f
    <3>1. cloud'[g] = [cloud[f] EXCEPT !["safeTarget"] = @ \ {id}]
      BY <1>2, <2>2
    <3> QED BY <1>3, <2>1, <2>2, <3>1
  <2>3. CASE g # f
    <3>1. cloud'[g] = cloud[g]
      BY <1>2, <2>3
    <3> QED BY <3>1
  <2> QED BY <2>2, <2>3
<1>5. ConfigIInv'
  BY <1>1, <1>3, <1>4 DEF ConfigIInv, ConfigTypes, Recorded, UnsureIn
<1>6. ASSUME NEW c \in Processes, CreatesLooked(cmd[c]) PROVE NotThere(cmd[c])'
  <2>1. NotThere(cmd[c]) /\ Head(cmd[c].todo) \in Kinds /\ cmd[c].file \in Files
    BY <1>6, InService, InFields DEF LookedFirst, CreatesLooked
  <2> QED BY <2>1, <1>1, <1>4 DEF NotThere
<1>7. \A k \in Kinds : Once(k) => Once(k)'
  BY <1>4 DEF Once
<1> QED BY <1>1, <1>5, <1>6, <1>7, InFields DEF LookedFirst, Creatable

\* Every step keeps the invariant.
LEMMA NextIInv == ConfigIInv /\ LookedFirst /\ [ConfigNext]_configVars => ConfigIInv' /\ LookedFirst'
<1> SUFFICES ASSUME ConfigIInv, LookedFirst, [ConfigNext]_configVars PROVE ConfigIInv' /\ LookedFirst'
  OBVIOUS
<1>1. ASSUME NEW c \in Processes, ProcessKilled(c) PROVE ConfigIInv' /\ LookedFirst'
  <2>1. past' \in Past /\ past'.stubbed = past.stubbed
    <3>1. past \in Past /\ cmd[c].file \in Files
      BY InService DEF ConfigIInv, ConfigTypes
    <3>2. past' = past \/ past' = [past EXCEPT !.rewritten = @ \cup {cmd[c].file}]
      BY <1>1 DEF ProcessKilled
    <3> QED BY <3>1, <3>2 DEF Past
  <2> QED BY <1>1, <2>1, EndStep DEF ProcessKilled
<1>2. CASE UNCHANGED configVars
  BY <1>2 DEF configVars, ConfigIInv, ConfigTypes, Recorded, UnsureIn, LookedFirst, NotThere, Once
<1> QED
  BY <1>1, <1>2, StartStep, LoadStep, WizardStep, ListStep, CreateResourceStep, TerraformStep, OutputsStep,
     TruncateStep, WriteStep, DeregisterStep DEF ConfigNext, ProcessStep

\* The invariant holds in every reachable state, for any number of processes, files and failures.
THEOREM ConfigInvariant == ConfigSpec => [](ConfigIInv /\ LookedFirst)
BY InitIInv, NextIInv, PTL DEF ConfigSpec

\* What is listed first and created without a retry of lost answers exists once, unless a
\* look missed it or two commands looked at once; the service keeps the names of secrets
\* unique (prerequisites.py, create_data_safe_private_endpoint).
THEOREM ConfigPreparedOnce ==
  ASSUME "secret" \in Unique
  PROVE  ConfigSpec => []PreparedOnce
<1>1. ConfigIInv /\ LookedFirst => PreparedOnce
  <2> SUFFICES ASSUME ConfigIInv, LookedFirst, NEW f \in Files,
                      NEW k \in {"dbmEndpoint", "opsiEndpoint", "secret", "safeEndpoint"},
                      k \notin blurred
               PROVE  ~(Cardinality(cloud[f][k]) > 1)
    BY DEF PreparedOnce
  <2>1. \A x, y \in cloud[f][k] : x = y
    BY DEF LookedFirst, Looked, Once
  <2>2. CASE cloud[f][k] = {}
    BY <2>2, FS_EmptySet
  <2>3. CASE cloud[f][k] # {}
    <3> PICK x : x \in cloud[f][k]
      BY <2>3
    <3>1. cloud[f][k] = {x}
      BY <2>1
    <3>2. Cardinality({x}) = 1
      BY FS_Singleton
    <3> QED BY <3>1, <3>2
  <2> QED BY <2>2, <2>3
<1> QED BY <1>1, ConfigInvariant, PTL

\* Every id in a configuration file is the id of something that was made, whatever was lost,
\* refused or killed, except the placeholders that log-analytics --apply --dry-run put into
\* that file (cli.py:1509-1519, config.py:315-324).
THEOREM ConfigRecordedIdsWereMade == ConfigSpec => []RecordedIdsWereMade
<1>1. ConfigIInv => RecordedIdsWereMade
  BY DEF ConfigIInv, Recorded, FileOK, Known, UnsureIn, Dried, RecordedIdsWereMade
<1> QED BY <1>1, ConfigInvariant, PTL

-----------------------------------------------------------------------------
(* What a save keeps *)

\* c has a copy of its file, or what it found instead of one.
Loaded(c) == cmd[c].pc \notin {"done", "load"}

\* The save of c may lose ids, and is counted as one that does.
Outdated(c) == c \in past.outrun \/ cmd[c].name \in Anew

\* No save of the file is under way whose writer has not been counted as one that may lose ids.
KeptIn(f) ==
  \/ \E c \in Processes : cmd[c].file = f /\ cmd[c].pc = "write"
  \/ past.filled[f] \subseteq Has(file[f].cfg)

\* The copy of c has every id of its file, unless another command began to save after c loaded.
CopyKept(c) ==
  Loaded(c) /\ ~Outdated(c) => past.filled[cmd[c].file] \subseteq Has(cmd[c].cfg)

\* While c writes, the file is empty, and whoever has an older copy of it is known.
WriterAlone(c) ==
  cmd[c].pc = "write" =>
    /\ ~Outdated(c) /\ file[cmd[c].file].text = "empty"
    /\ \A d \in Processes \ {c} :
         cmd[d].file = cmd[c].file /\ Loaded(d) => Outdated(d)

\* The inductive invariant of what is kept, of each file that was not rewritten.
Kept ==
  /\ \A f \in Files \ past.rewritten : KeptIn(f)
  /\ \A c \in Processes : cmd[c].file \notin past.rewritten => CopyKept(c) /\ WriterAlone(c)

\* q is what p goes on as, with the copy it has, or is over.
Continues(p, q) ==
  q.pc = "done" \/ (q.pc \notin {"load", "write"} /\ q.cfg = p.cfg /\ q.file = p.file /\ q.name = p.name)

LEMMA ContinuesOn == ASSUME NEW p \in ProcessState, NEW todo PROVE Continues(p, On(p, todo))
<1> DEFINE q == [p EXCEPT !.todo = todo, !.pc = First(todo), !.attempt = 0]
<1>1. First(todo) \notin {"load", "write"}
  BY DEF First
<1>2. q.pc = First(todo) /\ q.cfg = p.cfg /\ q.file = p.file /\ q.name = p.name
  BY DEF ProcessState
<1>3. Idle.pc = "done"
  BY DEF Idle
<1> QED BY <1>1, <1>2, <1>3 DEF On, Went, Continues

LEMMA ContinuesFailed ==
  ASSUME NEW p \in ProcessState, p.pc \notin {"load", "write"}, NEW stderr, NEW retry
  PROVE  Continues(p, CallFailed(p, stderr, retry))
<1> DEFINE q == [p EXCEPT !.attempt = @ + 1]
<1>1. q.pc = p.pc /\ q.cfg = p.cfg /\ q.file = p.file /\ q.name = p.name
  BY DEF ProcessState
<1>2. Continues(p, NextItem(p))
  BY ContinuesOn DEF NextItem
<1>3. Idle.pc = "done"
  BY DEF Idle
<1> QED BY <1>1, <1>2, <1>3 DEF CallFailed, Continues

LEMMA ContinuesLearned ==
  ASSUME NEW p \in ProcessState, NEW id \in Nat
  PROVE  /\ Learned(p, id) \in ProcessState /\ Learned(p, id).cfg = p.cfg
         /\ Learned(p, id).file = p.file /\ Learned(p, id).name = p.name
BY DEF Learned, ProcessState

LEMMA ContinuesAnswered ==
  ASSUME NEW p \in ProcessState, NEW seen \in SUBSET Nat
  PROVE  Continues(p, Answered(p, seen))
<1>1. ASSUME NEW id \in Nat, NEW todo PROVE Continues(p, On(Learned(p, id), todo))
  <2> DEFINE q == Learned(p, id)
  <2>1. q \in ProcessState /\ q.cfg = p.cfg /\ q.file = p.file /\ q.name = p.name
    BY ContinuesLearned
  <2> HIDE DEF q
  <2>2. Continues(q, On(q, todo))
    BY <2>1, ContinuesOn
  <2> QED BY <2>1, <2>2 DEF Continues, q
<1>2. \A todo : Continues(p, On(p, todo))
  BY ContinuesOn
<1>3. Continues(p, [p EXCEPT !.pc = "create", !.attempt = 0])
  BY DEF Continues, ProcessState
<1>4. seen # {} => (CHOOSE id \in seen : TRUE) \in Nat
  OBVIOUS
<1>5. p.cfg["safeTarget"] \in seen => p.cfg["safeTarget"] \in Nat
  OBVIOUS
<1> QED BY <1>1, <1>2, <1>3, <1>4, <1>5 DEF Answered, NextItem

\* The save that no one else has begun cannot be outdated by a step of another.
LEMMA AloneStays ==
  ASSUME NEW d \in Processes, WriterAlone(d), cmd'[d] = cmd[d], file'[cmd[d].file] = file[cmd[d].file],
         Outdated(d)' => Outdated(d),
         \A e \in Processes \ {d} :
           cmd'[e].file = cmd[d].file /\ Loaded(e)' =>
             \/ cmd[e].file = cmd[d].file /\ Loaded(e) /\ (Outdated(e) => Outdated(e)')
             \/ Outdated(e)'
             \/ cmd[d].pc # "write"
  PROVE  WriterAlone(d)'
<1> SUFFICES ASSUME cmd[d].pc = "write" PROVE WriterAlone(d)'
  BY DEF WriterAlone
<1>1. /\ ~Outdated(d) /\ file[cmd[d].file].text = "empty"
      /\ \A e \in Processes \ {d} : cmd[e].file = cmd[d].file /\ Loaded(e) => Outdated(e)
  BY DEF WriterAlone
<1> QED BY <1>1 DEF WriterAlone

\* What is kept concerns the files, what became of them and the copies: a step that leaves
\* the first two alone and takes c from its copy onward keeps it.
LEMMA KeptContinues ==
  ASSUME ConfigIInv, Kept, NEW c \in Processes, NEW q, Update(c, q), UNCHANGED <<file, past>>,
         cmd[c].pc # "write", (Loaded(c) /\ Continues(cmd[c], q)) \/ q.pc \in {"done", "load"}
  PROVE  Kept'
<1>1. /\ cmd'[c] = q /\ \A d \in Processes : d # c => cmd'[d] = cmd[d]
      /\ \A d \in Processes : cmd[d].file \in Files
  BY InService DEF Update, ConfigIInv, ConfigTypes
<1>2. q.pc # "write"
  BY DEF Continues
<1>3. ASSUME NEW f \in Files \ past.rewritten PROVE KeptIn(f)'
  <2>1. KeptIn(f)
    BY DEF Kept
  <2> QED BY <2>1, <1>1 DEF KeptIn
<1>4. ASSUME NEW d \in Processes, d # c, cmd[d].file \notin past.rewritten
      PROVE  CopyKept(d)' /\ WriterAlone(d)'
  <2>1. CopyKept(d) /\ WriterAlone(d) /\ cmd'[d] = cmd[d] /\ (Outdated(d)' <=> Outdated(d))
    BY <1>1, <1>4 DEF Kept, Outdated
  <2>2. CopyKept(d)'
    BY <2>1 DEF CopyKept, Loaded
  <2>3. ASSUME NEW e \in Processes \ {d}, cmd'[e].file = cmd[d].file, Loaded(e)'
        PROVE  cmd[e].file = cmd[d].file /\ Loaded(e) /\ (Outdated(e) => Outdated(e)')
    <3>1. CASE e # c
      BY <3>1, <2>3, <1>1 DEF Loaded, Outdated
    <3>2. CASE e = c
      BY <3>2, <2>3, <1>1 DEF Loaded, Continues, Outdated
    <3> QED BY <3>1, <3>2
  <2>4. WriterAlone(d)'
    BY <2>1, <2>3, AloneStays
  <2> QED BY <2>2, <2>4
<1>5. ASSUME q.file \notin past.rewritten PROVE CopyKept(c)' /\ WriterAlone(c)'
  <2>1. WriterAlone(c)'
    BY <1>1, <1>2 DEF WriterAlone
  <2>2. CASE q.pc \in {"done", "load"}
    BY <2>2, <1>1, <2>1 DEF CopyKept, Loaded
  <2>3. CASE Loaded(c) /\ q.cfg = cmd[c].cfg /\ q.file = cmd[c].file /\ q.name = cmd[c].name
    <3>1. CopyKept(c)
      BY <2>3, <1>5 DEF Kept
    <3> QED BY <3>1, <2>3, <1>1, <2>1 DEF CopyKept, Loaded, Outdated
  <2> QED BY <2>2, <2>3 DEF Continues
<1>6. ASSUME NEW d \in Processes, cmd'[d].file \notin past.rewritten
      PROVE  CopyKept(d)' /\ WriterAlone(d)'
  BY <1>1, <1>4, <1>5, <1>6
<1> QED BY <1>3, <1>6 DEF Kept

\* A command that loads has a copy with every id of the file, and finds no file while
\* another writes it; the wizard and init-region do without.
LEMMA KeptLoad ==
  ASSUME ConfigIInv, Kept, NEW c \in Processes, NEW q, Update(c, q), UNCHANGED file, cmd[c].pc = "load",
         past' = [past EXCEPT !.outrun = @ \ {c}], q.pc # "write",
         \/ q.pc = "done"
         \/ q.name \in Anew
         \/ q.file = cmd[c].file /\ file[q.file].text = "whole" /\ q.cfg = file[q.file].cfg
  PROVE  Kept'
<1>1. /\ cmd'[c] = q /\ \A d \in Processes : d # c => cmd'[d] = cmd[d]
      /\ \A d \in Processes : cmd[d].file \in Files
  BY InService DEF Update, ConfigIInv, ConfigTypes
<1>2. past'.filled = past.filled /\ past'.rewritten = past.rewritten /\ past'.outrun = past.outrun \ {c}
  BY DEF ConfigIInv, ConfigTypes, Past
<1>3. ASSUME NEW f \in Files \ past.rewritten PROVE KeptIn(f)'
  <2>1. KeptIn(f)
    BY DEF Kept
  <2> QED BY <2>1, <1>1, <1>2 DEF KeptIn
<1>4. ASSUME NEW d \in Processes, d # c, cmd[d].file \notin past.rewritten
      PROVE  CopyKept(d)' /\ WriterAlone(d)'
  <2>1. CopyKept(d) /\ WriterAlone(d) /\ cmd'[d] = cmd[d] /\ (Outdated(d)' <=> Outdated(d))
    BY <1>1, <1>2, <1>4 DEF Kept, Outdated
  <2>2. CopyKept(d)'
    BY <2>1, <1>2 DEF CopyKept, Loaded
  <2>3. ASSUME NEW e \in Processes \ {d}, cmd'[e].file = cmd[d].file, Loaded(e)'
        PROVE  \/ cmd[e].file = cmd[d].file /\ Loaded(e) /\ (Outdated(e) => Outdated(e)')
               \/ Outdated(e)'
               \/ cmd[d].pc # "write"
    <3>1. CASE e # c
      BY <3>1, <2>3, <1>1, <1>2 DEF Loaded, Outdated
    <3>2. CASE e = c
      <4>1. CASE q.name \in Anew
        BY <4>1, <3>2, <1>1 DEF Outdated
      <4>2. CASE q.pc = "done"
        BY <4>2, <3>2, <2>3, <1>1 DEF Loaded
      <4>3. CASE q.file = cmd[c].file /\ file[q.file].text = "whole"
        BY <4>3, <3>2, <2>3, <2>1, <1>1 DEF WriterAlone
      <4> QED BY <4>1, <4>2, <4>3
    <3> QED BY <3>1, <3>2
  <2>4. WriterAlone(d)'
    BY <2>1, <2>3, AloneStays
  <2> QED BY <2>2, <2>4
<1>5. ASSUME q.file \notin past.rewritten PROVE CopyKept(c)' /\ WriterAlone(c)'
  <2>1. WriterAlone(c)'
    BY <1>1 DEF WriterAlone
  <2>2. CASE q.pc = "done"
    BY <2>2, <1>1, <2>1 DEF CopyKept, Loaded
  <2>3. CASE q.name \in Anew
    BY <2>3, <1>1, <2>1 DEF CopyKept, Outdated
  <2>4. CASE q.file = cmd[c].file /\ file[q.file].text = "whole" /\ q.cfg = file[q.file].cfg
    <3>1. q.file \in Files \ past.rewritten
      BY <2>4, <1>1, <1>5
    <3>2. KeptIn(q.file) /\ \A d \in Processes : cmd[d].file = q.file => WriterAlone(d)
      BY <3>1 DEF Kept
    <3>3. past.filled[q.file] \subseteq Has(q.cfg)
      BY <3>2, <2>4 DEF KeptIn, WriterAlone
    <3> QED BY <3>3, <1>1, <1>2, <2>1 DEF CopyKept
  <2> QED BY <2>2, <2>3, <2>4
<1>6. ASSUME NEW d \in Processes, cmd'[d].file \notin past'.rewritten
      PROVE  CopyKept(d)' /\ WriterAlone(d)'
  BY <1>1, <1>2, <1>4, <1>5, <1>6
<1> QED BY <1>2, <1>3, <1>6 DEF Kept

\* The file is emptied by a command that is the only one with a copy to write back, or it is
\* counted as rewritten.
LEMMA KeptTruncate ==
  ASSUME ConfigIInv, Kept, NEW c \in Processes, Truncate(c)
  PROVE  Kept'
<1> DEFINE f == cmd[c].file
           q == [cmd[c] EXCEPT !.pc = "write"]
           others == {d \in Processes \ {c} : cmd[d].file = f /\ Loaded(d)}
<1>1. /\ \A d \in Processes : cmd[d].file \in Files
      /\ cmd[c] \in ProcessState /\ Update(c, q) /\ cmd[c].pc = "save"
      /\ file' = [file EXCEPT ![f] = [text |-> "empty", cfg |-> Nothing]]
  BY InService DEF Truncate, Good, Sound
<1>2. /\ past'.filled = past.filled /\ past'.outrun = past.outrun \cup others
      /\ past'.rewritten = IF Outdated(c) THEN past.rewritten \cup {f} ELSE past.rewritten
  BY DEF Truncate, ConfigIInv, ConfigTypes, Past, Loaded, Outdated
<1>3. /\ q.pc = "write" /\ q.file = f /\ q.name = cmd[c].name /\ q.cfg = cmd[c].cfg
  BY <1>1 DEF ProcessState
<1> HIDE DEF q
<1>4. cmd'[c] = q /\ \A d \in Processes : d # c => cmd'[d] = cmd[d]
  BY <1>1 DEF Update, ConfigIInv, ConfigTypes
<1>5. /\ file'[f].text = "empty" /\ f \in Files
      /\ \A g \in Files : g # f => file'[g] = file[g]
  BY <1>1 DEF ConfigIInv, ConfigTypes
<1> HIDE DEF f
<1>6. ASSUME NEW g \in Files \ past'.rewritten PROVE KeptIn(g)'
  <2>1. KeptIn(g)
    BY <1>2, <1>6 DEF Kept
  <2>2. CASE g = f
    BY <2>2, <1>3, <1>4 DEF KeptIn
  <2>3. CASE g # f
    <3>1. CASE \E d \in Processes : cmd[d].file = g /\ cmd[d].pc = "write"
      BY <3>1, <1>1, <1>4 DEF KeptIn
    <3>2. CASE past.filled[g] \subseteq Has(file[g].cfg)
      BY <3>2, <2>3, <1>2, <1>5 DEF KeptIn
    <3> QED BY <2>1, <3>1, <3>2 DEF KeptIn
  <2> QED BY <2>2, <2>3
<1>7. ASSUME NEW d \in Processes, d # c, cmd[d].file \notin past'.rewritten
      PROVE  CopyKept(d)' /\ WriterAlone(d)'
  <2>1. /\ CopyKept(d) /\ WriterAlone(d) /\ cmd'[d] = cmd[d]
        /\ \A e \in Processes : Outdated(e) => Outdated(e)'
    BY <1>1, <1>2, <1>3, <1>4, <1>7 DEF Kept, Outdated
  <2>2. CopyKept(d)'
    BY <2>1, <1>2 DEF CopyKept, Loaded
  <2>3. CASE cmd[d].file = f
    \* c has a copy and would be outdated, and the file rewritten.
    <3>1. cmd[d].pc # "write"
      BY <2>3, <2>1, <1>1, <1>2, <1>7 DEF WriterAlone, Loaded, f
    <3> QED BY <3>1, <2>1, <2>2 DEF WriterAlone
  <2>4. CASE cmd[d].file # f
    <3>1. Outdated(d)' => Outdated(d)
      BY <2>1, <2>4, <1>2 DEF Outdated
    <3>2. ASSUME NEW e \in Processes \ {d}, cmd'[e].file = cmd[d].file, Loaded(e)'
          PROVE  cmd[e].file = cmd[d].file /\ Loaded(e)
      BY <3>2, <2>4, <1>3, <1>4 DEF Loaded
    <3>3. file'[cmd[d].file] = file[cmd[d].file]
      BY <2>4, <1>1, <1>5
    <3>4. WriterAlone(d)'
      BY <2>1, <3>1, <3>2, <3>3, AloneStays
    <3> QED BY <3>4, <2>2
  <2> QED BY <2>3, <2>4
<1>8. ASSUME f \notin past'.rewritten PROVE CopyKept(c)' /\ WriterAlone(c)'
  <2>1. ~Outdated(c) /\ f \notin past.rewritten
    BY <1>2, <1>8
  <2>2. CopyKept(c) /\ Loaded(c)
    BY <2>1, <1>1 DEF Kept, Loaded, f
  <2>3. past.filled[f] \subseteq Has(cmd[c].cfg)
    BY <2>1, <2>2 DEF CopyKept, f
  <2>4. CopyKept(c)'
    BY <2>3, <1>2, <1>3, <1>4 DEF CopyKept
  <2>5. ~Outdated(c)'
    BY <2>1, <1>2, <1>3, <1>4 DEF Outdated
  <2>6. ASSUME NEW d \in Processes \ {c}, cmd'[d].file = f, Loaded(d)' PROVE Outdated(d)'
    BY <2>6, <1>2, <1>4 DEF Loaded, Outdated
  <2>7. WriterAlone(c)'
    BY <2>5, <2>6, <1>3, <1>4, <1>5 DEF WriterAlone
  <2> QED BY <2>4, <2>7
<1>9. ASSUME NEW d \in Processes, cmd'[d].file \notin past'.rewritten
      PROVE  CopyKept(d)' /\ WriterAlone(d)'
  BY <1>3, <1>4, <1>7, <1>8, <1>9
<1> QED BY <1>6, <1>9 DEF Kept

\* A save keeps every id of the copy it is made from.
LEMMA MergedKeeps ==
  ASSUME NEW p \in ProcessState PROVE Has(p.cfg) \subseteq Has(Merged(p))
BY DEF ProcessState, Has, Merged

\* The one writer of an empty file leaves a whole one, with every id of its copy.
LEMMA KeptWrite ==
  ASSUME ConfigIInv, Kept, NEW c \in Processes, Write(c)
  PROVE  Kept'
<1> DEFINE f == cmd[c].file
           cfg == Merged(cmd[c])
<1>1. /\ \A d \in Processes : cmd[d].file \in Files
      /\ cmd[c] \in ProcessState /\ Update(c, Idle) /\ cmd[c].pc = "write"
      /\ \/ file' = [file EXCEPT ![f] = [text |-> "whole", cfg |-> cfg]]
         \/ file[f].text # "empty"
      /\ \A g \in Files : g # f => file'[g] = file[g]
  BY InService DEF Write, Good, Sound, ConfigIInv, ConfigTypes
<1>2. /\ past'.filled = [past.filled EXCEPT ![f] = @ \cup Has(cfg)] /\ past'.outrun = past.outrun
      /\ past'.rewritten = past.rewritten /\ past.filled \in [Files -> SUBSET Fields]
  BY DEF Write, ConfigIInv, ConfigTypes, Past
<1>3. Has(cmd[c].cfg) \subseteq Has(cfg)
  BY <1>1, MergedKeeps
<1> HIDE DEF cfg
<1>4. /\ cmd'[c] = Idle /\ Idle.pc = "done"
      /\ \A d \in Processes : d # c => cmd'[d] = cmd[d]
  BY <1>1 DEF Update, Idle, ConfigIInv, ConfigTypes
<1>5. /\ f \in Files /\ past'.filled[f] = past.filled[f] \cup Has(cfg)
      /\ \A g \in Files : g # f => past'.filled[g] = past.filled[g]
  BY <1>1, <1>2
<1>6. Loaded(c)
  BY <1>1 DEF Loaded
<1>7. ASSUME f \notin past.rewritten
      PROVE  /\ file'[f].cfg = cfg /\ past.filled[f] \subseteq Has(cfg)
             /\ \A d \in Processes \ {c} : cmd[d].file = f /\ Loaded(d) => Outdated(d)
  <2>1. CopyKept(c) /\ WriterAlone(c)
    BY <1>7 DEF Kept
  <2>2. /\ past.filled[f] \subseteq Has(cmd[c].cfg) /\ file[f].text = "empty"
        /\ \A d \in Processes \ {c} : cmd[d].file = f /\ Loaded(d) => Outdated(d)
    BY <2>1, <1>1, <1>6 DEF CopyKept, WriterAlone
  <2>3. file'[f].cfg = cfg
    BY <2>2, <1>1, <1>5 DEF ConfigIInv, ConfigTypes
  <2> QED BY <2>2, <2>3, <1>3
<1> HIDE DEF f
<1>8. ASSUME NEW g \in Files \ past'.rewritten PROVE KeptIn(g)'
  <2>1. KeptIn(g)
    BY <1>2, <1>8 DEF Kept
  <2>2. CASE g = f
    BY <2>2, <1>2, <1>5, <1>7, <1>8 DEF KeptIn
  <2>3. CASE g # f
    <3>1. CASE \E d \in Processes : cmd[d].file = g /\ cmd[d].pc = "write"
      <4> PICK d \in Processes : cmd[d].file = g /\ cmd[d].pc = "write"
        BY <3>1
      <4>1. cmd'[d] = cmd[d]
        BY <1>4, <2>3 DEF f
      <4> QED BY <4>1 DEF KeptIn
    <3>2. CASE past.filled[g] \subseteq Has(file[g].cfg)
      BY <3>2, <2>3, <1>1, <1>5 DEF KeptIn
    <3> QED BY <2>1, <3>1, <3>2 DEF KeptIn
  <2> QED BY <2>2, <2>3
<1>9. ASSUME NEW d \in Processes, d # c, cmd[d].file \notin past.rewritten
      PROVE  CopyKept(d)' /\ WriterAlone(d)'
  <2>1. /\ CopyKept(d) /\ WriterAlone(d) /\ cmd'[d] = cmd[d] /\ (Outdated(d)' <=> Outdated(d))
    BY <1>2, <1>4, <1>9 DEF Kept, Outdated
  <2>2. CASE cmd[d].file = f
    <3>1. Loaded(d) => Outdated(d)
      BY <2>2, <1>7, <1>9
    <3>2. cmd[d].pc # "write"
      BY <3>1, <2>1 DEF WriterAlone, Loaded
    <3> QED BY <2>1, <3>1, <3>2 DEF CopyKept, WriterAlone, Loaded
  <2>3. CASE cmd[d].file # f
    <3>1. CopyKept(d)'
      BY <2>1, <2>3, <1>1, <1>5 DEF CopyKept, Loaded
    <3>2. ASSUME NEW e \in Processes \ {d}, cmd'[e].file = cmd[d].file, Loaded(e)'
          PROVE  cmd[e].file = cmd[d].file /\ Loaded(e) /\ (Outdated(e) => Outdated(e)')
      BY <3>2, <1>2, <1>4 DEF Loaded, Outdated
    <3>3. file'[cmd[d].file] = file[cmd[d].file]
      BY <2>3, <1>1
    <3>4. WriterAlone(d)'
      BY <2>1, <3>2, <3>3, AloneStays
    <3> QED BY <3>1, <3>4
  <2> QED BY <2>2, <2>3
<1>10. ASSUME NEW d \in Processes, cmd'[d].file \notin past'.rewritten
       PROVE  CopyKept(d)' /\ WriterAlone(d)'
  <2>1. CASE d = c
    BY <2>1, <1>4 DEF CopyKept, WriterAlone, Loaded
  <2>2. CASE d # c
    BY <2>2, <1>2, <1>4, <1>9, <1>10
  <2> QED BY <2>1, <2>2
<1> QED BY <1>8, <1>10 DEF Kept

\* A command that is killed while it writes leaves a file that counts as rewritten.
LEMMA KeptKilled ==
  ASSUME ConfigIInv, Kept, NEW c \in Processes, ProcessKilled(c)
  PROVE  Kept'
<1>1. Idle.pc = "done" /\ Update(c, Idle) /\ UNCHANGED file
  BY DEF ProcessKilled, Idle
<1>2. CASE cmd[c].pc # "write"
  <2>1. UNCHANGED past
    BY <1>2 DEF ProcessKilled
  <2> QED BY <1>1, <1>2, <2>1, KeptContinues
<1>3. CASE cmd[c].pc = "write"
  <2> DEFINE f == cmd[c].file
  <2>1. /\ past'.filled = past.filled /\ past'.outrun = past.outrun
        /\ past'.rewritten = past.rewritten \cup {f}
    BY <1>3 DEF ProcessKilled, ConfigIInv, ConfigTypes, Past
  <2>2. /\ cmd'[c] = Idle /\ \A d \in Processes : d # c => cmd'[d] = cmd[d]
        /\ \A d \in Processes : cmd[d].file \in Files
    BY <1>1, InService DEF Update, ConfigIInv, ConfigTypes
  <2>3. ASSUME NEW g \in Files \ past'.rewritten PROVE KeptIn(g)'
    <3>1. KeptIn(g) /\ g # f
      BY <2>1, <2>3 DEF Kept
    <3>2. CASE \E d \in Processes : cmd[d].file = g /\ cmd[d].pc = "write"
      BY <3>1, <3>2, <2>2 DEF KeptIn
    <3>3. CASE past.filled[g] \subseteq Has(file[g].cfg)
      BY <3>3, <1>1, <2>1 DEF KeptIn
    <3> QED BY <3>1, <3>2, <3>3 DEF KeptIn
  <2>4. ASSUME NEW d \in Processes, cmd'[d].file \notin past'.rewritten
        PROVE  CopyKept(d)' /\ WriterAlone(d)'
    <3>1. CASE d = c
      BY <3>1, <1>1, <2>2 DEF CopyKept, WriterAlone, Loaded
    <3>2. CASE d # c
      <4>1. CopyKept(d) /\ WriterAlone(d) /\ cmd'[d] = cmd[d] /\ (Outdated(d)' <=> Outdated(d))
        BY <3>2, <2>1, <2>2, <2>4 DEF Kept, Outdated
      <4>2. CopyKept(d)'
        BY <4>1, <2>1 DEF CopyKept, Loaded
      <4>3. ASSUME NEW e \in Processes \ {d}, cmd'[e].file = cmd[d].file, Loaded(e)'
            PROVE  cmd[e].file = cmd[d].file /\ Loaded(e) /\ (Outdated(e) => Outdated(e)')
        BY <4>3, <1>1, <2>1, <2>2 DEF Loaded, Outdated
      <4>4. WriterAlone(d)'
        BY <1>1, <4>1, <4>3, AloneStays
      <4> QED BY <4>2, <4>4
    <3> QED BY <3>1, <3>2
  <2> QED BY <2>3, <2>4 DEF Kept
<1> QED BY <1>2, <1>3

\* In the beginning every file has what its saves have put there.
LEMMA InitKept == ConfigInit => Kept
<1> SUFFICES ASSUME ConfigInit PROVE Kept
  OBVIOUS
<1>1. \A c \in Processes : cmd[c].pc = "done"
  BY DEF ConfigInit, Idle
<1>2. \A f \in Files : past.filled[f] \subseteq Has(file[f].cfg)
  BY DEF ConfigInit, Has, None, Managed, Fields
<1> QED BY <1>1, <1>2 DEF Kept, KeptIn, CopyKept, WriterAlone, Loaded

\* A command that has no file open, or none to save, goes on with its copy.
LEMMA KeptStep ==
  ASSUME ConfigIInv, Kept, NEW c \in Processes,
         Start(c) \/ List(c) \/ CreateResource(c) \/ Terraform(c) \/ Outputs(c)
  PROVE  Kept'
<1> DEFINE p == cmd[c]
<1>0. p \in ProcessState /\ p.file \in Files /\ UNCHANGED <<file, past>>
      /\ cloud \in [Files -> [Kinds -> SUBSET Nat]] /\ made \in Counts /\ Good(p, made)
  BY InService DEF Start, List, CreateResource, Terraform, Outputs, Good, Sound, ConfigIInv, ConfigTypes
<1>1. CASE Start(c)
  <2>1. \E q : Update(c, q) /\ q.pc = "load"
    <3> PICK call \in Calls, f \in Files :
          \E s \in IF call[1] = "bind" THEN cloud[f]["secret"] ELSE {None} :
            cmd' = [cmd EXCEPT ![c] = [Idle EXCEPT !.name = call[1], !.mode = call[2], !.file = f,
                                         !.pc = "load", !.ids = [Idle.ids EXCEPT !["secret"] = s]]]
      BY <1>1 DEF Start
    <3> PICK s \in IF call[1] = "bind" THEN cloud[f]["secret"] ELSE {None} :
            cmd' = [cmd EXCEPT ![c] = [Idle EXCEPT !.name = call[1], !.mode = call[2], !.file = f,
                                         !.pc = "load", !.ids = [Idle.ids EXCEPT !["secret"] = s]]]
      OBVIOUS
    <3> DEFINE q == [Idle EXCEPT !.name = call[1], !.mode = call[2], !.file = f,
                                 !.pc = "load", !.ids = [Idle.ids EXCEPT !["secret"] = s]]
    <3>1. q.pc = "load"
      BY DEF Idle
    <3>2. Update(c, q)
      BY DEF Update
    <3> HIDE DEF q
    <3> QED BY <3>1, <3>2
  <2>2. p.pc # "write"
    BY <1>1 DEF Start
  <2> QED BY <2>1, <2>2, <1>0, KeptContinues
<1>2. CASE List(c)
  <2>1. p.pc \in {"list", "relist"} /\ Loaded(c)
    BY <1>2 DEF List, Loaded
  <2>2. Here(p) \in SUBSET Nat
    <3>1. Kind(p) \in Kinds
      BY <1>0, <2>1, InFields DEF Good, HasWork, HeadIn, Looks, Kind, Kinds, Fields
    <3> QED BY <3>1, <1>0 DEF Here
  <2>3. \E q : Update(c, q) /\ Continues(p, q)
    <3>1. Continues(p, Answered(p, Here(p))) /\ Continues(p, Answered(p, {}))
      BY <2>2, <1>0, ContinuesAnswered
    <3>2. \A stderr : Continues(p, CallFailed(p, stderr, TRUE))
      BY <2>1, <1>0, ContinuesFailed
    <3> QED BY <1>2, <3>1, <3>2 DEF List, Throttled
  <2> QED BY <2>1, <2>3, <1>0, KeptContinues
<1>3. CASE CreateResource(c)
  <2>1. p.pc = "create" /\ Loaded(c)
    BY <1>3 DEF CreateResource, Loaded
  <2>2. \A stderr, json : Continues(p, CallFailed(p, stderr, json))
    BY <2>1, <1>0, ContinuesFailed
  <2>3. Continues(p, [p EXCEPT !.pc = "relist", !.attempt = 0])
    BY <1>0 DEF Continues, ProcessState
  <2>4. Continues(p, NextItem(p))
    BY <1>0, ContinuesOn DEF NextItem
  <2>5. ASSUME NEW id \in Nat PROVE Continues(p, NextItem(Learned(p, id)))
    <3> DEFINE q == Learned(p, id)
    <3>1. q \in ProcessState /\ q.cfg = p.cfg /\ q.file = p.file /\ q.name = p.name
      BY <1>0, ContinuesLearned
    <3> HIDE DEF q
    <3>2. Continues(q, NextItem(q))
      BY <3>1, ContinuesOn DEF NextItem
    <3> QED BY <3>1, <3>2 DEF Continues, q
  <2>6. made[Head(p.todo)] + 1 \in Nat
    <3>1. Head(p.todo) \in Kinds
      BY <1>0, <2>1, InFields DEF Good, HasWork, HeadIn
    <3> QED BY <3>1, <1>0 DEF Counts
  <2>7. \E q : Update(c, q) /\ Continues(p, q)
    BY <1>3, <2>2, <2>3, <2>4, <2>5, <2>6 DEF CreateResource, Throttled
  <2> QED BY <2>1, <2>7, <1>0, KeptContinues
<1>4. CASE Terraform(c)
  <2>1. p.pc = "terraform" /\ Loaded(c) /\ Update(c, NextItem(p))
    BY <1>4 DEF Terraform, Loaded
  <2>2. Continues(p, NextItem(p))
    BY <1>0, ContinuesOn DEF NextItem
  <2> QED BY <2>1, <2>2, <1>0, KeptContinues
<1>5. CASE Outputs(c)
  <2> DEFINE got == [f \in Fields |-> IF f \in Managed THEN Found(p.file, f) ELSE p.ids[f]]
             read == [p EXCEPT !.ids = [f \in Fields |-> IF f \in Managed THEN Found(p.file, f) ELSE @[f]]]
             todo == IF p.cfg["database"] = None THEN <<"database">> ELSE <<>>
  <2>1. p.pc = "outputs" /\ Loaded(c)
    BY <1>5 DEF Outputs, Loaded
  <2>2. read \in ProcessState /\ read.cfg = p.cfg /\ read.file = p.file /\ read.name = p.name
    <3>1. \A k \in Managed : Found(p.file, k) \in Nat
      <4>1. Managed \subseteq Kinds
        BY DEF Managed, Kinds, Fields
      <4> QED BY <4>1, <1>0, FoundMade
    <3>2. got \in [Fields -> Nat]
      BY <3>1, <1>0 DEF ProcessState
    <3>3. read = [p EXCEPT !.ids = got]
      OBVIOUS
    <3> HIDE DEF got
    <3> QED BY <3>2, <3>3, <1>0 DEF ProcessState
  <2> HIDE DEF read, todo
  <2>3. Continues(read, On(read, todo))
    BY <2>2, ContinuesOn
  <2>4. Continues(p, On(read, todo))
    BY <2>2, <2>3 DEF Continues
  <2>5. Continues(p, CallFailed(p, Throttle, FALSE))
    BY <2>1, <1>0, ContinuesFailed
  <2>6. \E q : Update(c, q) /\ Continues(p, q)
    BY <1>5, <2>4, <2>5 DEF Outputs, Throttled, read, todo
  <2> QED BY <2>1, <2>6, <1>0, KeptContinues
<1> QED BY <1>1, <1>2, <1>3, <1>4, <1>5

\* A command begins with what the file has, or with nothing of it.
LEMMA KeptBegin ==
  ASSUME ConfigIInv, Kept, NEW c \in Processes, Load(c) \/ Wizard(c)
  PROVE  Kept'
<1> DEFINE p == cmd[c]
<1>0. /\ p \in ProcessState /\ p.pc = "load" /\ UNCHANGED file /\ Idle.pc = "done"
      /\ past' = [past EXCEPT !.outrun = @ \ {c}]
  BY InService DEF Load, Wizard, Good, Sound, Idle
<1>1. CASE Wizard(c)
  <2>1. \E q : Update(c, q) /\ q.pc = "save" /\ q.name = "plan"
    <3> PICK picked \in SUBSET {k \in {"network", "key", "database", "secret"} : cloud[p.file][k] # {}} :
          Update(c, [p EXCEPT !.pc = "save",
                       !.ids = [k \in Fields |-> IF k \in picked THEN Found(p.file, k) ELSE None]])
      BY <1>1 DEF Wizard
    <3> DEFINE q == [p EXCEPT !.pc = "save",
                       !.ids = [k \in Fields |-> IF k \in picked THEN Found(p.file, k) ELSE None]]
    <3>1. q.pc = "save" /\ q.name = p.name
      BY <1>0 DEF ProcessState
    <3>2. Update(c, q) /\ p.name = "plan"
      BY <1>1 DEF Wizard
    <3> HIDE DEF q
    <3> QED BY <3>1, <3>2
  <2> QED BY <2>1, <1>0, KeptLoad DEF Anew
<1>2. CASE Load(c)
  <2> DEFINE from == IF p.name = "init-region" THEN "base" ELSE p.file
             cfg == file[from].cfg
             loaded == [p EXCEPT !.cfg = IF p.name = "init-region" THEN Regional(cfg) ELSE cfg]
             dry == [loaded EXCEPT !.ids = Stubbed(loaded), !.pc = "save"]
  <2>1. PICK q \in {Idle, Went(dry), On(loaded, Work(p.name, cfg))} :
          Update(c, q) /\ (q # Idle => file[from].text = "whole")
    BY <1>2 DEF Load, Loadable
  <2>2. /\ loaded.name = p.name /\ loaded.file = p.file /\ loaded.pc = "load"
        /\ (p.name # "init-region" => loaded.cfg = cfg /\ from = p.file)
    BY <1>0 DEF ProcessState
  <2>3. q # Idle => /\ q.pc # "write" /\ q.name = p.name /\ q.file = p.file
                    /\ q.cfg = loaded.cfg
    <3>1. First(Work(p.name, cfg)) # "write"
      BY DEF First
    <3>2. /\ dry.pc = "save" /\ dry.name = p.name /\ dry.file = p.file /\ dry.cfg = loaded.cfg
      BY <1>0 DEF ProcessState
    <3> DEFINE on == [loaded EXCEPT !.todo = Work(p.name, cfg), !.pc = First(Work(p.name, cfg)), !.attempt = 0]
    <3>3. /\ on.pc # "write" /\ on.name = p.name /\ on.file = p.file /\ on.cfg = loaded.cfg
      BY <3>1, <1>0 DEF ProcessState
    <3>4. q \in {Idle, dry, on}
      BY <2>1 DEF On, Went
    <3> HIDE DEF dry, on
    <3> QED BY <3>2, <3>3, <3>4
  <2>4. q.pc # "write" /\ (q.pc = "done" \/ q.name \in Anew
          \/ (q.file = p.file /\ file[q.file].text = "whole" /\ q.cfg = file[q.file].cfg))
    BY <2>1, <2>2, <2>3, <1>0 DEF Anew
  <2> HIDE DEF loaded, dry
  <2> QED BY <2>1, <2>4, <1>0, KeptLoad
<1> QED BY <1>1, <1>2

\* Every step keeps what is kept.
LEMMA NextKept == ConfigIInv /\ Kept /\ [ConfigNext]_configVars => Kept'
<1> SUFFICES ASSUME ConfigIInv, Kept, [ConfigNext]_configVars PROVE Kept'
  OBVIOUS
<1>1. CASE UNCHANGED <<file, cmd, past>>
  BY <1>1 DEF Kept, KeptIn, CopyKept, WriterAlone, Loaded, Outdated
<1>2. Deregister \/ UNCHANGED configVars => UNCHANGED <<file, cmd, past>>
  BY DEF Deregister, configVars
<1> QED
  BY <1>1, <1>2, KeptStep, KeptBegin, KeptTruncate, KeptWrite, KeptKilled DEF ConfigNext, ProcessStep

\* Every id that a save has put into a configuration file is there from then on, for any
\* number of commands in turn, unless the file was saved from an outdated copy, written anew
\* or left by a command killed in its save (config.py:327-333).
THEOREM ConfigIdsKept == ConfigSpec => []IdsKept
<1>1. Kept => IdsKept
  BY DEF Kept, KeptIn, IdsKept
<1>2. ConfigSpec => [](ConfigIInv /\ LookedFirst)
  BY ConfigInvariant
<1> QED BY <1>1, <1>2, InitKept, NextKept, PTL DEF ConfigSpec
=============================================================================
