------------------------------- MODULE DbExec -------------------------------
(***************************************************************************)
(* db-exec --apply: the generated SQL scripts (db_scripts.py) are run on a *)
(* database host (db_exec.py) through an OCI Bastion session and a local   *)
(* SSH forward (bastion_exec.py); and what preflight concludes from the    *)
(* spooled output of the last script (db_check.py).                        *)
(*                                                                         *)
(* Several commands run at the same time on the operator's machine and on  *)
(* one Bastion.  A command may fail at every call, and may be killed.  A   *)
(* Bastion session ends by itself after its time to live; the forward and  *)
(* everything that goes through it end with it.                            *)
(***************************************************************************)
EXTENDS Naturals, Sequences, FiniteSets

CONSTANTS
  Commands,    \* the db-exec commands
  Targets(_),  \* the targets of a command's configuration, in order
  Host(_),     \* its --target-ip
  Production,  \* the commands with a production profile and without --force
  Misnamed,    \* those whose answers name a container that does not exist
  HasScripts,  \* the targets of a kind that has scripts
  WantsSafe,   \* those with the Data Safe service
  Label(_),    \* the display name of a target's sessions, made of the target's own name
  Hosts, Ports,
  Locked,      \* the hosts on which the user is there, but locked like DBSNMP
  Echo,          \* does the spool hold the text of the script?
  TTL, MaxTime, MaxSessions, MaxFaults

ASSUME DbExecAssumption ==
  /\ \A c \in Commands : Host(c) \in Hosts /\ Targets(c) \in Seq(STRING)
  /\ "nobody" \notin Commands \cup Hosts
  /\ Production \cup Misnamed \subseteq Commands /\ WantsSafe \subseteq HasScripts
  /\ Echo \in BOOLEAN /\ Ports \subseteq Nat \ {0}
  /\ {TTL, MaxTime, MaxSessions, MaxFaults} \subseteq Nat

VARIABLES
  now,
  sessions,  \* the active sessions of the Bastion
  issued,    \* how many there were so far
  forwards,  \* the local port forwards that listen
  uploads,   \* the scripts on the hosts: who copied which where
  db,        \* the monitoring user in each container of each host
  run,       \* the commands
  mixups,    \* where the commands got into each other's way (history; see below)
  faults     \* what has gone wrong so far

vars == <<now, sessions, issued, forwards, uploads, db, run, mixups, faults>>

Nobody == "nobody"
Began == TTL + 1
Containers == {"root", "pdb"}
Grants == {"create_session", "select_any_dictionary", "select_catalog_role",
           "performance_hub", "tuning_sets", "awr", "auditing"}
User == [exists : BOOLEAN, open : BOOLEAN, grants : SUBSET Grants]
Steps == {"reap", "create", "resolve", "port", "forward", "wait", "script", "sqlplus",
          "clean", "teardown"}
Final == {"done", "killed"}

Labels == {"colleague", "dbman-exec-old"} \cup {Label(t) : t \in HasScripts}
Session == [id : Nat, label : Labels, by : Commands \cup {Nobody}, born : Nat]
Forward == [port : Ports, by : Commands, session : Nat, to : Hosts]

\* A mix-up: the one who suffers it, at which target, and the one it is due to.
\* "session": who goes on with a session that is not its own, but of by.
\* "port": by opened its forward on the port who had drawn, before who met a host.
\* "file": by removed the script of who before it was run.
Mixup(kind, c, d) == [kind |-> kind, who |-> c, at |-> run[c].at, by |-> d]

\* at: the target; sent: how many scripts were copied, or tried to (remote_paths); script:
\* how many are through; met: the host whose key is in the command's own known_hosts.
NoRun == [pc |-> "done", at |-> 1, sent |-> 0, script |-> 0, session |-> 0, port |-> 0,
          met |-> Nobody, failed |-> FALSE, decisions |-> <<>>]

-----------------------------------------------------------------------------
(* The scripts *)

\* SCRIPT_RUN_ORDER; 04 validates and runs last.
SCRIPT_RUN_ORDER == <<1, 2, 3, 5, 6, 4>>

\* generate_db_scripts and ordered_scripts: what is there for a target, in that order;
\* 06 is written for Data Safe only.
OrderedScripts(t) ==
  IF t \notin HasScripts THEN <<>>
  ELSE IF t \in WantsSafe THEN SCRIPT_RUN_ORDER
  ELSE <<1, 2, 3, 5, 4>>

\* What the statements of a script do, one after the other: "account" creates the user
\* or resets and unlocks it.
Statements(k) ==
  CASE k = 1 -> <<"account">>
    [] k = 2 -> <<"create_session", "select_any_dictionary", "select_catalog_role">>
    [] k = 3 -> <<"performance_hub", "select_any_dictionary", "select_catalog_role", "tuning_sets">>
    [] k = 5 -> <<"awr">>
    [] k = 6 -> <<"account", "create_session", "select_catalog_role",
                  "select_any_dictionary", "auditing">>
    [] k = 4 -> <<>>

\* The first n statements of script k.  A grant to a user who is not there fails, and
\* "whenever sqlerror exit" ends the script.
Apply(u, k, n) ==
  LET done == {Statements(k)[i] : i \in 1 .. n}
  IN  [exists |-> u.exists \/ "account" \in done, open |-> u.open \/ "account" \in done,
       grants |-> u.grants \cup (done \ {"account"})]

\* _container_block: a container that is not found leaves the session in the root.
Container(c) == IF c \in Misnamed THEN "root" ELSE "pdb"

\* validation_sql, spooled: what the parser looks for.  With "set echo on" the text of
\* the queries, which names the privileges, is in it too.
Spool(u) ==
  [rows |-> u.exists, locked |-> u.exists /\ ~u.open,
   tokens |-> (IF u.exists THEN u.grants ELSE {})
                \cup (IF Echo THEN {"create_session", "select_any_dictionary", "select_catalog_role"}
                      ELSE {})]

\* parse_validation_output: the account is open, has a session and reads the dictionary.
ParseValidation(spool) ==
  /\ spool.rows /\ ~spool.locked
  /\ "create_session" \in spool.tokens
  /\ {"select_any_dictionary", "select_catalog_role"} \cap spool.tokens # {}

-----------------------------------------------------------------------------
(* The command *)

Target(c) == Targets(c)[run[c].at]
Scripts(c) == OrderedScripts(Target(c))

Goto(c, pc) == run' = [run EXCEPT ![c].pc = pc]

\* A kind of failure that has happened may happen again.
Fault(kind) ==
  faults' = faults \cup {kind} /\ (kind \in faults \/ Cardinality(faults) < MaxFaults)
Failed(kind) == kind \in faults

\* The decisions on the targets from i on that need no session, and where to go on.
Skipped(c, i) ==
  LET needs(j) == Targets(c)[j] \in HasScripts /\ c \notin Production
      next == CHOOSE j \in i .. Len(Targets(c)) + 1 :
                /\ j > Len(Targets(c)) \/ needs(j)
                /\ \A l \in i .. j - 1 : ~needs(l)
  IN  [next |-> next,
       decisions |-> [l \in 1 .. next - i |->
                        IF Targets(c)[i + l - 1] \in HasScripts THEN "handoff" ELSE "skipped"]]

\* The command after target i is decided.
Onward(c, i, decisions) ==
  LET s == Skipped(c, i)
  IN  [NoRun EXCEPT !.at = s.next, !.decisions = decisions \o s.decisions,
         !.pc = IF s.next > Len(Targets(c)) THEN "done" ELSE "reap"]

\* _cmd_db_exec has written the scripts again.  On the Bastion are a session of a
\* colleague and one that a killed command left behind long ago.
Init ==
  /\ now = Began
  /\ sessions = {[id |-> 1, label |-> "colleague", by |-> Nobody, born |-> now],
                 [id |-> 2, label |-> "dbman-exec-old", by |-> Nobody, born |-> 0]}
  /\ issued = 2
  /\ forwards = {} /\ uploads = {} /\ mixups = {} /\ faults = {}
  /\ db = [h \in Hosts |-> [n \in Containers |->
             [exists |-> h \in Locked, open |-> FALSE, grants |-> {}]]]
  /\ run = [c \in Commands |-> Onward(c, 1, <<>>)]

\* The call of the runner is over: a failure is that of this target alone.
Decide(c, failed) ==
  run' = [run EXCEPT ![c] = Onward(c, @.at + 1,
            Append(@.decisions, IF failed THEN "failed" ELSE "executed"))]

\* A forward is up as long as its session is.
Alive(held, open) == {f \in held : \E s \in open : s.id = f.session}

\* Mutant of Stale: the age does not matter.
StaleAtAnyAge(s) == s.label # "colleague"

\* _is_stale_dbman_session
Stale(s) == s.label # "colleague" /\ now - s.born > TTL

\* _reap_stale_sessions: the list may fail, and so may each delete.
Reap(c) ==
  LET stale == {s \in sessions : Stale(s)}
  IN  /\ run[c].pc = "reap" /\ Goto(c, "create")
      /\ \/ sessions' = sessions \ stale /\ UNCHANGED faults
         \/ stale # {} /\ Fault("reap") /\ \E some \in SUBSET stale : sessions' = sessions \ some
      /\ forwards' = Alive(forwards, sessions')
      /\ UNCHANGED <<now, issued, uploads, db, mixups>>

NewSession(c) == [id |-> issued + 1, label |-> Label(Target(c)), by |-> c, born |-> now]

\* The session is created; the wait for it may give up on one that comes.
Create(c) ==
  /\ run[c].pc = "create" /\ issued < MaxSessions
  /\ \/ sessions' = sessions \cup {NewSession(c)} /\ issued' = issued + 1
        /\ Goto(c, "resolve") /\ UNCHANGED faults
     \/ Fault("create") /\ Decide(c, TRUE)
        /\ \/ sessions' = sessions \cup {NewSession(c)} /\ issued' = issued + 1
           \/ UNCHANGED <<sessions, issued>>
  /\ UNCHANGED <<now, forwards, uploads, db, mixups>>

Named(c) == {s \in sessions : s.label = Label(Target(c))}
Newest(found) == CHOOSE s \in found : \A x \in found : x.id <= s.id

NoSession == [id |-> 0, by |-> Nobody]

\* The answer to the create names a work request, so the id is that of the newest
\* active session with the name, whoever created it.  When there is none, or the list
\* does not show it, the first active session is taken.  A list that fails ends the call.
Resolve(c) ==
  /\ run[c].pc = "resolve"
  /\ \/ \E s \in sessions \cup {NoSession} :
          /\ \/ Named(c) # {} /\ s = Newest(Named(c)) /\ UNCHANGED faults
             \/ Named(c) # {} /\ Fault("list")
             \/ Named(c) = {} /\ UNCHANGED faults
          /\ run' = [run EXCEPT ![c].pc = "port", ![c].session = s.id]
          /\ mixups' = mixups \cup {Mixup("session", c, d) : d \in {s.by} \ {c}}
     \/ Fault("resolve") /\ Decide(c, TRUE) /\ UNCHANGED mixups
  /\ UNCHANGED <<now, sessions, issued, forwards, uploads, db>>

-----------------------------------------------------------------------------
(* The tunnel *)

Listening(port) == {f \in forwards : f.port = port}

\* Mutant of FreePort: a fixed port.
FreePortFixed(port) == port = 1

\* _free_port: nobody listens on it now.  It is free again as soon as it is found.
FreePort(port) == Listening(port) = {}

PickPort(c) ==
  /\ run[c].pc = "port"
  /\ \E port \in Ports :
       /\ FreePort(port)
       /\ run' = [run EXCEPT ![c].pc = "forward", ![c].port = port]
  /\ UNCHANGED <<now, sessions, issued, forwards, uploads, db, mixups, faults>>

\* The forwards of a command.
Own(c) == {f \in forwards : f.by = c}

Tunnel(c) == [port |-> run[c].port, by |-> c, session |-> run[c].session, to |-> Host(c)]

\* Those who go by the same port and have not met their host.
Rivals(c) ==
  {d \in Commands \ {c} : /\ run[d].port = run[c].port /\ run[d].met = Nobody
                          /\ run[d].pc \in {"forward", "wait", "script", "clean"}}

\* ssh starts; without a session or with a port that is taken it exits.
OpenForward(c) ==
  LET up == Listening(run[c].port) = {} /\ \E s \in sessions : s.id = run[c].session
  IN  /\ run[c].pc = "forward" /\ Goto(c, "wait")
      /\ \/ up /\ forwards' = forwards \cup {Tunnel(c)}
            /\ mixups' = mixups \cup {Mixup("port", d, c) : d \in Rivals(c)}
         \/ ~up /\ UNCHANGED <<forwards, mixups>>
      /\ UNCHANGED <<now, sessions, issued, uploads, db, faults>>

Breaks(c) == run' = [run EXCEPT ![c].pc = "clean", ![c].failed = TRUE]

\* _wait_for_tunnel: whoever listens; else the forward has exited or the time is up.
WaitForTunnel(c) ==
  /\ run[c].pc = "wait"
  /\ \/ Listening(run[c].port) # {} /\ Goto(c, "script") /\ UNCHANGED faults
     \/ /\ (IF Listening(run[c].port) = {} THEN UNCHANGED faults ELSE Fault("tunnel"))
        /\ Breaks(c)
  /\ UNCHANGED <<now, sessions, issued, forwards, uploads, db, mixups>>

\* The host behind the port, whose key must be that of the first contact.
Reached(c) ==
  {f.to : f \in {g \in Listening(run[c].port) : run[c].met \in {Nobody, g.to}}}

\* The script the command is at, and its file: the remote name is the script's alone.
Current(c) == Scripts(c)[run[c].script + 1]
OnHost(h, k) == {u \in uploads : u.host = h /\ u.script = k}

\* scp of the next script, over whatever has its name; or there is no way to the host.
Upload(c) ==
  LET k == Current(c)
  IN  /\ run[c].pc = "script"
      /\ \/ \E h \in Reached(c) :
              /\ uploads' = (uploads \ OnHost(h, k)) \cup {[by |-> c, host |-> h, script |-> k]}
              /\ \/ run' = [run EXCEPT ![c].pc = "sqlplus", ![c].sent = @ + 1, ![c].met = h]
                    /\ UNCHANGED faults
                 \/ Fault("scp")
                    /\ run' = [run EXCEPT ![c].pc = "clean", ![c].sent = @ + 1, ![c].met = h,
                                         ![c].failed = TRUE]
         \/ /\ Reached(c) = {} /\ UNCHANGED <<uploads, faults>>
            /\ run' = [run EXCEPT ![c].pc = "clean", ![c].sent = @ + 1, ![c].failed = TRUE]
      /\ UNCHANGED <<now, sessions, issued, forwards, db, mixups>>

Through(c) ==
  run' = [run EXCEPT ![c].script = @ + 1,
            ![c].pc = IF run[c].script + 1 = Len(Scripts(c)) THEN "clean" ELSE "script"]

\* Mutant of RunScript: a statement that fails does not end the script with an error.
RunScriptOn(c) ==
  LET k == Current(c)
  IN  /\ run[c].pc = "sqlplus"
      /\ \E h \in Reached(c), n \in 0 .. Len(Statements(k)) :
           /\ db' = [db EXCEPT ![h][Container(c)] = Apply(@, k, n)]
           /\ (IF n = Len(Statements(k)) THEN UNCHANGED faults ELSE Fault("sql"))
           /\ Through(c)
      /\ UNCHANGED <<now, sessions, issued, forwards, uploads, mixups>>

\* sqlplus on the host: every statement, or those before the one that fails; a file that
\* is not there is reported, but sqlplus ends well; or there is no way to the host.
RunScript(c) ==
  LET k == Current(c)
  IN  /\ run[c].pc = "sqlplus"
      /\ \/ \E h \in Reached(c) :
              \/ /\ OnHost(h, k) # {} /\ Through(c) /\ UNCHANGED faults
                 /\ db' = [db EXCEPT ![h][Container(c)] = Apply(@, k, Len(Statements(k)))]
              \/ \E n \in 0 .. Len(Statements(k)) :
                   /\ OnHost(h, k) # {} /\ Breaks(c) /\ Fault("sql")
                   /\ db' = [db EXCEPT ![h][Container(c)] = Apply(@, k, n)]
              \/ OnHost(h, k) = {} /\ Through(c) /\ UNCHANGED <<db, faults>>
         \/ Reached(c) = {} /\ Breaks(c) /\ UNCHANGED <<db, faults>>
      /\ UNCHANGED <<now, sessions, issued, forwards, uploads, mixups>>

\* What the command has copied, or tried to.
Sent(c) == {Scripts(c)[j] : j \in 1 .. run[c].sent}

\* Those whose script is on the host and not run yet, under a name that is removed.
Robbed(c, h) ==
  {d \in Commands \ {c} : run[d].pc = "sqlplus" /\ run[d].met = h /\ Current(d) \in Sent(c)}

\* Mutant of CleanRemote: the files are removed after the forward is gone.
CleanRemoteLate(c) ==
  /\ run[c].pc = "clean" /\ Goto(c, "teardown")
  /\ forwards' = forwards \ Own(c)
  /\ UNCHANGED <<now, sessions, issued, uploads, db, mixups, faults>>

\* _cleanup_remote, best effort, and then the forward is ended.  The names are removed,
\* whoever copied the files.
CleanRemote(c) ==
  /\ run[c].pc = "clean"
  /\ forwards' = forwards \ Own(c)
  /\ \/ \E h \in Reached(c) :
          /\ Sent(c) # {}
          /\ uploads' = {u \in uploads : u.host # h \/ u.script \notin Sent(c)}
          /\ mixups' = mixups \cup {Mixup("file", d, c) : d \in Robbed(c, h)}
          /\ run' = [run EXCEPT ![c].pc = "teardown", ![c].met = h]
          /\ UNCHANGED faults
     \/ /\ Goto(c, "teardown") /\ UNCHANGED <<uploads, mixups>>
        /\ \/ (Reached(c) = {} \/ Sent(c) = {}) /\ UNCHANGED faults
           \/ Fault("remove")
  /\ UNCHANGED <<now, sessions, issued, db>>

\* _safe_teardown, best effort; the sessions' forwards go with them.
Teardown(c) ==
  /\ run[c].pc = "teardown" /\ Decide(c, run[c].failed)
  /\ \/ sessions' = {s \in sessions : s.id # run[c].session} /\ UNCHANGED faults
     \/ Fault("delete") /\ UNCHANGED sessions
  /\ forwards' = Alive(forwards, sessions')
  /\ UNCHANGED <<now, issued, uploads, db, mixups>>

\* SIGKILL: no finally, no atexit; the forward is a process of its own and stays.
Killed(c) ==
  /\ run[c].pc \notin Final /\ Fault("kill") /\ Goto(c, "killed")
  /\ UNCHANGED <<now, sessions, issued, forwards, uploads, db, mixups>>

-----------------------------------------------------------------------------

Tick ==
  /\ now < MaxTime /\ now' = now + 1
  /\ UNCHANGED <<sessions, issued, forwards, uploads, db, run, mixups, faults>>

\* The Bastion ends a session whose time is over.
Expire ==
  \E s \in sessions :
    /\ now - s.born > TTL /\ sessions' = sessions \ {s}
    /\ forwards' = Alive(forwards, sessions')
    /\ UNCHANGED <<now, issued, uploads, db, run, mixups, faults>>

Step(c) ==
  \/ Reap(c) \/ Create(c) \/ Resolve(c) \/ PickPort(c) \/ OpenForward(c)
  \/ WaitForTunnel(c) \/ Upload(c) \/ RunScript(c) \/ CleanRemote(c) \/ Teardown(c)

Next == (\E c \in Commands : Step(c) \/ Killed(c)) \/ Tick \/ Expire

Spec == Init /\ [][Next]_vars
-----------------------------------------------------------------------------
(* Properties *)

TypeOK ==
  /\ sessions \subseteq Session /\ forwards \subseteq Forward
  /\ \A h \in Hosts, n \in Containers : db[h][n] \in User
  /\ \A c \in Commands : run[c].pc \in Steps \cup Final
  /\ mixups \subseteq [kind : {"session", "port", "file"}, who : Commands, at : Nat,
                       by : Commands \cup {Nobody}]

Decided(c, i) == i <= Len(run[c].decisions)

\* The hosts that may be behind c's port at its target i: its own, and those of the
\* commands that took the port from it.
Behind(c, i) ==
  {Host(c)} \cup {Host(m.by) : m \in {x \in mixups : x.kind = "port" /\ x.who = c /\ x.at = i}}

\* "executed" means that the database on the host the scripts went to has its user, open and
\* with the privileges of all the scripts of that target, in the container they end up in,
\* however earlier and concurrent commands broke off (db_exec.py:139-151).  That is the
\* host of --target-ip, whatever the target, unless another command took the port between
\* _free_port and ssh; and a script whose file another command removed from the host was
\* not run, though nothing failed.
ExecutedMeansPrepared ==
  \A c \in Commands : \A i \in DOMAIN Targets(c) :
    Decided(c, i) /\ run[c].decisions[i] = "executed" =>
      \/ \E m \in mixups : m.kind = "file" /\ m.who = c /\ m.at = i
      \/ \E h \in Behind(c, i) :
           LET u == db[h][Container(c)]
           IN  u.exists /\ u.open
               /\ Grants \ (IF Targets(c)[i] \in WantsSafe THEN {} ELSE {"auditing"}) \subseteq u.grants

\* bastion_exec.py "a leaked forward from a prior run can never be silently reused": a
\* command talks to its own host, and not at all for production; to another only if its
\* command's forward took the port after the port was drawn and before the first contact.
\* A forward that was there before, and one that comes later, get nothing.
OwnHostOnly ==
  \A c \in Commands : run[c].met # Nobody =>
    c \notin Production /\ run[c].met \in Behind(c, run[c].at)

\* What a command that has ended leaves behind comes of a call that failed, of its session
\* being cut, or of one of two mix-ups: sessions of the same name, of which a command takes
\* the newest for its own (bastion_exec.py:143-145), and a port taken by another, with
\* whose forward the way to the files goes.  A script that fails leaves nothing.
LeftoversExplained ==
  \A c \in Commands : run[c].pc = "done" =>
    /\ \A s \in sessions : s.by = c =>
         \/ Failed("create") \/ Failed("resolve") \/ Failed("delete")
         \/ \E m \in mixups : m.kind = "session" /\ m.who = c
    /\ Own(c) = {}
    /\ (\E u \in uploads : u.by = c) =>
         \/ Failed("remove") \/ now > Began + TTL
         \/ \E m \in mixups :
              (m.kind = "session" /\ c \in {m.who, m.by}) \/ (m.kind = "port" /\ m.who = c)

\* A session that is not over is ended by its own command alone: neither the sweep of
\* stale sessions nor a teardown takes a colleague's or another target's, unless the
\* command's own for the target was over before it was looked for, or the list did not
\* show it (bastion_exec.py:142-146, 351-381).
SessionsSpared ==
  [][\A s \in sessions \ sessions' :
       \/ now - s.born > TTL
       \/ \E c \in Commands :
            /\ run[c].pc = "teardown" /\ run[c].session = s.id
            /\ \/ s.label = Label(Target(c)) \/ Failed("list")
               \/ \A x \in sessions : x.by = c => x.label # Label(Target(c))]_vars

\* A monitoring user that preflight accepts by the spool is open and has the privileges
\* of Basic monitoring, whatever a script that broke off has left of it.
CheckedUserIsReady ==
  \A h \in Hosts : LET u == db[h]["pdb"] IN
    ParseValidation(Spool(u)) =>
      /\ u.exists /\ u.open /\ "create_session" \in u.grants
      /\ {"select_any_dictionary", "select_catalog_role"} \cap u.grants # {}

=============================================================================
