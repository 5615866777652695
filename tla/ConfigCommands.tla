--------------------------- MODULE ConfigCommands ---------------------------
(***************************************************************************)
(* The expert commands that share a configuration file (cli.py): each      *)
(* loads it, calls OCI or Terraform through the command runner (runner.py) *)
(* and writes the ids it learned back, without a lock.                     *)
(*                                                                         *)
(*   plan              the wizard: the file anew, with what is picked      *)
(*   init-region       a second file, for another region                   *)
(*   provision         terraform apply                                     *)
(*   import-tf-outputs the ids of what Terraform made                      *)
(*   prepare-prereqs   private endpoints and password secrets              *)
(*   data-safe         a private endpoint and the registration             *)
(*   log-analytics     a log group and an entity                           *)
(*   configure         the same, --with-log-analytics                      *)
(*   bind-vault-secret, cross-region: the file alone                       *)
(*                                                                         *)
(* A call may be throttled, may lose its answer, may be refused; a listing *)
(* may be empty although something is there; a command may be killed, also *)
(* in the middle of its save.                                              *)
(***************************************************************************)
EXTENDS Naturals, Sequences, FiniteSets

CONSTANTS
  Processes,   \* the processes
  Calls,       \* the commands that are given: name and mode
  Files,       \* the configuration files, one for each region
  Unique,      \* the kinds whose names the service keeps unique
  MaxAttempts, \* max_attempts of the runner
  MaxStarts, MaxFailures, MaxMade

Names == {"plan", "init-region", "provision", "import", "prepare", "data-safe",
          "log-analytics", "configure", "bind", "cross-region"}
Modes == {"apply", "plan", "both"}

ASSUME ConfigAssumption ==
  /\ Calls \subseteq Names \X Modes /\ "base" \in Files
  /\ {MaxAttempts, MaxStarts, MaxFailures, MaxMade} \subseteq Nat
  /\ MaxAttempts > 0 /\ MaxMade > 0

VARIABLES
  file,    \* the files: whether there is a text, and the ids in it
  cloud,   \* the resources of each kind in each region
  made,    \* how many of a kind there were so far
  cmd,     \* the commands
  blurred, \* the kinds for which a look missed something, or two looked at once
  past,    \* what became of the files (read by the properties alone)
  starts, failures

configVars == <<file, cloud, made, cmd, blurred, past, starts, failures>>

-----------------------------------------------------------------------------
(* The configuration *)

None == 0
Placeholder == MaxMade + 1  \* "<LOG_ANALYTICS_LOG_GROUP_OCID>" and the like

\* The ids of a configuration that commands fill in, for one target.  create_vault and
\* create_test_network are set.
Fields == {"network", "key", "database", "secret", "safeTarget", "group", "entity"}
Config == [Fields -> 0 .. Placeholder]
Kinds == Fields \cup {"dbmEndpoint", "opsiEndpoint", "safeEndpoint"}
Nothing == [f \in Fields |-> None]
Has(cfg) == {f \in Fields : cfg[f] # None}

\* validate_config: what does not look like an OCID is a problem.
Valid(cfg) == \A f \in Fields : cfg[f] # Placeholder

\* load_config: neither an empty file nor one with the rest of a longer text behind its own
\* is the mapping of a configuration.
Texts == {"absent", "empty", "mixed", "whole"}
Loadable(f) == file[f].text = "whole" /\ Valid(file[f].cfg)

\* Of each file: the kinds a save has put into it, and whether it was rewritten: saved from
\* an older copy (outrun: another command began to save after this one had loaded), written
\* anew, or left by a writer that was killed; and whether a dry run was saved.
Past == [filled : [Files -> SUBSET Fields], outrun : SUBSET Processes,
         rewritten : SUBSET Files, stubbed : SUBSET Files]

-----------------------------------------------------------------------------
(* The runner *)

\* stderr, as the set of the markers in it.
Refusal == {"notauthorized", "notfound"}  \* NotAuthorizedOrNotFound
Throttle == {"429"}
Timeout == {"timeout"}
Conflict == {"already exists"}

\* _classify_oci_error
Classify(stderr) ==
  IF stderr \cap {"notauthenticated", "forbidden", "notauthorized"} # {} THEN "OciAuthError"
  ELSE IF "notfound" \in stderr THEN "OciNotFound"
  ELSE IF "429" \in stderr THEN "OciThrottled"
  ELSE IF "timeout" \in stderr THEN "OciTransient"
  ELSE "OciError"

\* Mutant of ShouldRetry: writes are retried like reads.
ShouldRetryAll(error, retryOnTransient, attempt) ==
  attempt < MaxAttempts - 1 /\ error \in {"OciThrottled", "OciTransient"}

\* _should_retry
ShouldRetry(error, retryOnTransient, attempt) ==
  /\ attempt < MaxAttempts - 1
  /\ error = "OciThrottled" \/ (error = "OciTransient" /\ retryOnTransient)

-----------------------------------------------------------------------------
(* The commands *)

Idle == [name |-> "bind", mode |-> "plan", pc |-> "done", file |-> "base",
         cfg |-> Nothing, todo |-> <<>>, attempt |-> 0, ids |-> Nothing]

Stages == {"load", "list", "create", "relist", "terraform", "outputs", "save", "write"}

\* The creates that go through run_json, which retries a lost answer.
ThroughJson == {"safeTarget", "group", "entity"}
\* _create_tolerant takes a conflict of names for success.
Tolerant == {"dbmEndpoint", "opsiEndpoint", "secret"}

\* What a command asks for, in order.  Data Safe begins with a look for the saved id.
Work(name, cfg) ==
  CASE name = "prepare" ->
         (IF cfg["network"] # None THEN <<"dbmEndpoint", "opsiEndpoint">> ELSE <<>>)
           \o (IF cfg["key"] # None /\ cfg["secret"] = None THEN <<"secret">> ELSE <<>>)
    [] name = "data-safe" -> <<"confirm", "safeEndpoint", "safeTarget">>
    [] name \in {"log-analytics", "configure"} ->
         (IF cfg["group"] = None THEN <<"group">> ELSE <<>>)
           \o (IF cfg["entity"] = None THEN <<"entity">> ELSE <<>>)
    [] name = "provision" -> <<"terraform">>
    [] name = "import" -> <<"outputs">>
    [] OTHER -> <<>>

\* Where the work on a kind begins; the secrets are created without a look.
First(todo) ==
  IF todo = <<>> THEN "save"
  ELSE CASE Head(todo) \in {"terraform", "outputs"} -> Head(todo)
         [] Head(todo) = "secret" -> "create"
         [] OTHER -> "list"

\* Mutant of Merged: what the command did not decide is cleared.
MergedBlindly(p) == [f \in Fields |-> p.ids[f]]

\* _persist_data_safe_targets keeps an id that is there, as does the import for a target;
\* _persist_log_analytics_entities keeps what was not decided.
Merged(p) ==
  [f \in Fields |->
     IF p.ids[f] = None \/ (f \in {"safeTarget", "database"} /\ p.cfg[f] # None)
     THEN p.cfg[f] ELSE p.ids[f]]

\* Mutant of Saves: a command saves in every mode.
SavesAlways(p) == p.name \notin {"provision", "prepare"}

\* The commands that write a file without the one that is there, and the one that saves a
\* dry run.
Anew == {"plan", "init-region"}
Stubs(p) == p.name = "log-analytics" /\ p.mode = "both"

\* Which commands write the file back.  Data Safe and Log Analytics do when they decided
\* something, the import when something changed.
Saves(p) ==
  CASE p.name \in {"provision", "prepare"} -> FALSE
    [] p.name \in {"data-safe", "log-analytics", "configure"} ->
         p.mode # "plan" /\ (p.name = "data-safe" => p.ids["safeTarget"] # None)
    [] p.name = "import" -> p.mode # "plan" /\ Merged(p) # p.cfg
    [] p.name = "bind" -> Merged(p) # p.cfg
    [] OTHER -> TRUE

\* The command before it ends, which it does without a save if there is nothing to save.
Went(p) == IF p.pc = "save" /\ ~Saves(p) THEN Idle ELSE p

\* On with todo.
On(p, todo) == Went([p EXCEPT !.todo = todo, !.pc = First(todo), !.attempt = 0])
NextItem(p) == On(p, Tail(p.todo))

\* Without --apply, and for log-analytics also with --dry-run, every call is answered {}:
\* nothing is found or made, and Log Analytics decides placeholders.
Dry(p) == p.mode = "plan" \/ (p.mode = "both" /\ p.name = "log-analytics")
Stubbed(p) ==
  IF p.name \notin {"log-analytics", "configure"} THEN p.ids
  ELSE [f \in Fields |-> IF f \in {"group", "entity"} /\ p.cfg[f] = None
                         THEN Placeholder ELSE p.ids[f]]

Start(c) ==
  /\ cmd[c].pc = "done" /\ starts < MaxStarts
  /\ \E call \in Calls, f \in Files :
       /\ call[1] = "init-region" => f # "base"
       /\ \E s \in IF call[1] = "bind" THEN cloud[f]["secret"] ELSE {None} :
            cmd' = [cmd EXCEPT ![c] = [Idle EXCEPT !.name = call[1], !.mode = call[2], !.file = f,
                                         !.pc = "load", !.ids = [Idle.ids EXCEPT !["secret"] = s]]]
  /\ starts' = starts + 1
  /\ UNCHANGED <<file, cloud, made, blurred, past, failures>>

Update(c, p) == cmd' = [cmd EXCEPT ![c] = p]

\* build_regional_provisioning_config: a new network and a new target; the vault and the
\* log group stay those of the base.
Regional(cfg) == [f \in Fields |-> IF f \in {"key", "group"} THEN cfg[f] ELSE None]

\* load_config, and the choice between dry run and calls.
Load(c) ==
  LET p == cmd[c]
      cfg == file[IF p.name = "init-region" THEN "base" ELSE p.file].cfg
      loaded == [p EXCEPT !.cfg = IF p.name = "init-region" THEN Regional(cfg) ELSE cfg]
  IN  /\ p.pc = "load" /\ p.name # "plan"
      /\ Update(c, IF ~Loadable(IF p.name = "init-region" THEN "base" ELSE p.file)
                   THEN Idle
                   ELSE IF Dry(p) /\ p.name # "import"
                   THEN Went([loaded EXCEPT !.ids = Stubbed(loaded), !.pc = "save"])
                   ELSE On(loaded, Work(p.name, cfg)))
      /\ past' = [past EXCEPT !.outrun = @ \ {c}]
      /\ UNCHANGED <<file, cloud, made, blurred, starts, failures>>

\* The id a list begins with.
Found(f, k) == IF cloud[f][k] = {} THEN None ELSE CHOOSE id \in cloud[f][k] : TRUE

\* run_wizard: no file is read; what is there is offered, and picked or left out.
Wizard(c) ==
  LET p == cmd[c]
  IN  /\ p.pc = "load" /\ p.name = "plan"
      /\ \E picked \in SUBSET {k \in {"network", "key", "database", "secret"} : cloud[p.file][k] # {}} :
           Update(c, [p EXCEPT !.pc = "save",
                        !.ids = [k \in Fields |-> IF k \in picked THEN Found(p.file, k) ELSE None]])
      /\ past' = [past EXCEPT !.outrun = @ \ {c}]
      /\ UNCHANGED <<file, cloud, made, blurred, starts, failures>>

-----------------------------------------------------------------------------
(* Calls *)

\* A call whose command exits with an error: again, on, or the end of the command.
CallFailed(p, stderr, retryOnTransient) ==
  IF ShouldRetry(Classify(stderr), retryOnTransient, p.attempt) THEN [p EXCEPT !.attempt = @ + 1]
  ELSE IF stderr = Conflict /\ Head(p.todo) \in Tolerant THEN NextItem(p)
  ELSE Idle

Kind(p) == IF Head(p.todo) = "confirm" THEN "safeTarget" ELSE Head(p.todo)
Here(p) == cloud[p.file][Kind(p)]
Learned(p, id) == IF Kind(p) \in Fields THEN [p EXCEPT !.ids[Kind(p)] = id] ELSE p

\* What a listing decides.  The look for the saved id ends the command when the id is
\* there, and when there is no network to make an endpoint in; a second listing finds
\* the endpoint that was made.  Without an endpoint the target is blocked.
Answered(p, seen) ==
  IF Head(p.todo) = "confirm"
  THEN IF p.cfg["safeTarget"] \in seen THEN On(Learned(p, p.cfg["safeTarget"]), <<>>)
       ELSE IF p.cfg["network"] = None THEN On(p, <<>>) ELSE NextItem(p)
  ELSE IF p.pc = "relist" THEN IF seen = {} THEN On(p, <<>>) ELSE NextItem(p)
  ELSE IF seen # {} THEN NextItem(Learned(p, CHOOSE id \in seen : TRUE))
  ELSE IF Head(p.todo) = "database" THEN NextItem(p)
  ELSE [p EXCEPT !.pc = "create", !.attempt = 0]

Throttled(c, retryOnTransient) ==
  Update(c, CallFailed(cmd[c], Throttle, retryOnTransient)) /\ UNCHANGED <<cloud, made, blurred, failures>>

\* list_* through run_json.
List(c) ==
  LET p == cmd[c]
  IN  /\ p.pc \in {"list", "relist"}
      /\ \/ Update(c, Answered(p, Here(p))) /\ UNCHANGED <<cloud, made, blurred, failures>>
         \/ Throttled(c, TRUE)
         \/ /\ failures < MaxFailures /\ failures' = failures + 1
            /\ \/ Update(c, Answered(p, {})) /\ Here(p) # {} /\ blurred' = blurred \cup {Kind(p)}
               \/ \E stderr \in {Timeout, Refusal} :
                    Update(c, CallFailed(p, stderr, TRUE)) /\ UNCHANGED blurred
            /\ UNCHANGED <<cloud, made>>
      /\ UNCHANGED <<file, past, starts>>

\* The service makes a resource.
Makes(c, k) ==
  /\ made[k] < MaxMade
  /\ cloud' = [cloud EXCEPT ![cmd[c].file][k] = @ \cup {made[k] + 1}]
  /\ made' = [made EXCEPT ![k] = @ + 1]
  /\ blurred' = IF \E d \in Processes \ {c} :
                     cmd[d].pc = "create" /\ Head(cmd[d].todo) = k /\ cmd[d].file = cmd[c].file
                THEN blurred \cup {k} ELSE blurred

\* The creates: create_data_safe_private_endpoint lists again, the others go on with the
\* id in the answer.  An answer may be lost after the work was done, or before.
CreateResource(c) ==
  LET p == cmd[c]
      k == Head(p.todo)
      json == k \in ThroughJson
      taken == k \in Unique /\ cloud[p.file][k] # {}
  IN  /\ p.pc = "create"
      /\ \/ /\ ~taken /\ Makes(c, k) /\ UNCHANGED failures
            /\ Update(c, IF k = "safeEndpoint" THEN [p EXCEPT !.pc = "relist", !.attempt = 0]
                         ELSE NextItem(IF json THEN Learned(p, made[k] + 1) ELSE p))
         \/ /\ taken
            /\ Update(c, CallFailed(p, Conflict, json)) /\ UNCHANGED <<cloud, made, blurred, failures>>
         \/ Throttled(c, json)
         \/ /\ failures < MaxFailures /\ failures' = failures + 1
            /\ \/ \E stderr \in {Timeout, Refusal} :
                    Update(c, CallFailed(p, stderr, json)) /\ UNCHANGED <<cloud, made, blurred>>
               \/ ~taken /\ Makes(c, k) /\ Update(c, CallFailed(p, Timeout, json))
      /\ UNCHANGED <<file, past, starts>>

-----------------------------------------------------------------------------
(* Terraform *)

Managed == {"network", "key"}
Missing(f) == {k \in Managed : cloud[f][k] = {}}

\* terraform apply makes what is missing, or stops on the way.  With the id of the key
\* in its variables the stack has no key of its own, and its output is refused.
Terraform(c) ==
  LET p == cmd[c]
  IN  /\ p.pc = "terraform"
      /\ \E S \in SUBSET Missing(p.file) :
           /\ \A k \in S : made[k] < MaxMade
           /\ p.cfg["key"] # None => S = {}
           /\ S # Missing(p.file) /\ p.cfg["key"] = None => failures < MaxFailures
           /\ failures' = IF S # Missing(p.file) /\ p.cfg["key"] = None THEN failures + 1 ELSE failures
           /\ cloud' = [cloud EXCEPT ![p.file] =
                          [k \in Kinds |-> IF k \in S THEN {made[k] + 1} ELSE @[k]]]
           /\ made' = [k \in Kinds |-> IF k \in S THEN made[k] + 1 ELSE made[k]]
           /\ Update(c, NextItem(p))
      /\ UNCHANGED <<file, blurred, past, starts>>

\* read_terraform_outputs and merge_outputs_into_config; then the database of the DB
\* system is looked up when its id is not there.
Outputs(c) ==
  LET p == cmd[c]
      read == [p EXCEPT !.ids = [f \in Fields |-> IF f \in Managed THEN Found(p.file, f) ELSE @[f]]]
  IN  /\ p.pc = "outputs"
      /\ \/ Throttled(c, FALSE)
         \/ /\ Update(c, On(read, IF p.cfg["database"] = None THEN <<"database">> ELSE <<>>))
            /\ UNCHANGED <<cloud, made, blurred, failures>>
      /\ UNCHANGED <<file, past, starts>>

-----------------------------------------------------------------------------
(* The file *)

\* save_config: write_text empties the file, then writes.
Truncate(c) ==
  LET f == cmd[c].file
  IN  /\ cmd[c].pc = "save"
      /\ file' = [file EXCEPT ![f] = [text |-> "empty", cfg |-> Nothing]]
      /\ Update(c, [cmd[c] EXCEPT !.pc = "write"])
      /\ past' = [past EXCEPT
            !.outrun = @ \cup {d \in Processes \ {c} : cmd[d].file = f /\ cmd[d].pc \notin {"done", "load"}},
            !.rewritten = IF c \in past.outrun \/ cmd[c].name \in Anew THEN @ \cup {f} ELSE @]
      /\ UNCHANGED <<cloud, made, blurred, starts, failures>>

\* Over the text of a second writer, the end of a longer one may stay behind.
Write(c) ==
  LET f == cmd[c].file
      cfg == Merged(cmd[c])
  IN  /\ cmd[c].pc = "write"
      /\ \/ file' = [file EXCEPT ![f] = [text |-> "whole", cfg |-> cfg]]
         \/ /\ file[f].text # "empty"
            /\ file' = [file EXCEPT ![f] = [text |-> "mixed", cfg |-> Nothing]]
      /\ Update(c, Idle)
      /\ past' = [past EXCEPT !.filled[f] = @ \cup Has(cfg),
                              !.stubbed = IF Stubs(cmd[c]) THEN @ \cup {f} ELSE @]
      /\ UNCHANGED <<cloud, made, blurred, starts, failures>>

ProcessKilled(c) ==
  /\ cmd[c].pc # "done" /\ failures < MaxFailures
  /\ failures' = failures + 1
  /\ Update(c, Idle)
  /\ past' = IF cmd[c].pc = "write" THEN [past EXCEPT !.rewritten = @ \cup {cmd[c].file}] ELSE past
  /\ UNCHANGED <<file, cloud, made, blurred, starts>>

\* Somebody deregisters the target.
Deregister ==
  /\ failures < MaxFailures
  /\ \E f \in Files : \E id \in cloud[f]["safeTarget"] :
       cloud' = [cloud EXCEPT ![f]["safeTarget"] = @ \ {id}]
  /\ failures' = failures + 1
  /\ UNCHANGED <<file, made, cmd, blurred, past, starts>>

ProcessStep(c) ==
  Load(c) \/ Wizard(c) \/ List(c) \/ CreateResource(c) \/ Terraform(c) \/ Outputs(c) \/ Truncate(c) \/ Write(c)

\* The file of the wizard, before anything is provisioned or after its import.
ConfigInit ==
  /\ \E there \in {{}, Managed} :
       /\ file = [f \in Files |-> [text |-> IF f = "base" THEN "whole" ELSE "absent",
                    cfg |-> [k \in Fields |-> IF f = "base" /\ k \in there THEN 1 ELSE None]]]
       /\ past = [filled |-> [f \in Files |-> IF f = "base" THEN there ELSE {}],
                  outrun |-> {}, rewritten |-> {}, stubbed |-> {}]
       /\ cloud = [f \in Files |-> [k \in Kinds |->
                    IF k = "database" \/ (f = "base" /\ k \in there) THEN {1} ELSE {}]]
       /\ made = [k \in Kinds |-> IF k = "database" \/ k \in there THEN 1 ELSE 0]
  /\ cmd = [c \in Processes |-> Idle]
  /\ blurred = {} /\ starts = 0 /\ failures = 0

ConfigNext == Deregister \/ \E c \in Processes : Start(c) \/ ProcessStep(c) \/ ProcessKilled(c)

ConfigSpec == ConfigInit /\ [][ConfigNext]_configVars

-----------------------------------------------------------------------------
(* Properties *)

\* What is listed first and created without a retry of lost answers (prerequisites.py,
\* create_data_safe_private_endpoint) exists once, whatever is killed, lost or repeated:
\* a second one needs a listing that missed the first, or two commands at once.
PreparedOnce ==
  \A f \in Files, k \in {"dbmEndpoint", "opsiEndpoint", "secret", "safeEndpoint"} :
    Cardinality(cloud[f][k]) > 1 => k \in blurred

\* README.md:875 ("transient errors retry for reads") for the other creates.
CreatedOnce ==
  \A f \in Files, k \in ThroughJson : Cardinality(cloud[f][k]) > 1 => k \in blurred

\* The ids in a file are ids of resources that were made, whatever was lost, refused or
\* killed; a placeholder of Log Analytics is in a file only if log-analytics --apply
\* --dry-run was run on that very file (cli.py:1509-1519), and none gets from there into
\* another file, since load_config refuses it.
RecordedIdsWereMade ==
  \A f \in Files : \A k \in Fields :
    \/ file[f].cfg[k] <= made[k]
    \/ file[f].cfg[k] = Placeholder /\ k \in {"group", "entity"} /\ f \in past.stubbed

\* An id that a save has put into a file is there from then on (until somebody writes it,
\* at that moment), after any number of commands in turn.  What loses one is what the file
\* has no lock for: a save from a copy that is older than another save, a command killed in
\* the middle of its save, or plan and init-region, which write the file anew
\* (config.py:327-333).
IdsKept ==
  \A f \in Files \ past.rewritten :
    \/ \E c \in Processes : cmd[c].file = f /\ cmd[c].pc = "write"
    \/ past.filled[f] \subseteq Has(file[f].cfg)

\* What data-safe has registered is what the file says afterwards
\* (_persist_data_safe_targets: "Write any newly-registered Data Safe target OCIDs back").
RegistrationRecorded ==
  [][\A c \in Processes :
       cmd[c].pc = "write" /\ cmd[c].name = "data-safe" /\ file' # file
         => file'[cmd[c].file].cfg["safeTarget"] = cmd[c].ids["safeTarget"]]_configVars

\* The stack can be applied again with the ids that were imported from it.
ProvisionAccepted ==
  \A c \in Processes : cmd[c].pc = "terraform" => cmd[c].cfg["key"] = None
=============================================================================
