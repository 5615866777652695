----------------------------- MODULE Preflight ------------------------------
(***************************************************************************)
(* The read-only checks before the expert workflow changes anything        *)
(* (preflight.py, checks.py): what each check answers to what it can read, *)
(* and which answers block.  Only definitions.                             *)
(*                                                                         *)
(* An object the checks look up is "unset" (the configuration does not     *)
(* name it), "unreadable" (both attempts of _safe failed), "bad" (read,    *)
(* but not active, or without what the check wants) or "good".  A check is *)
(* a record of its name and its status; the words of its detail and        *)
(* remediation are left out.                                               *)
(***************************************************************************)

Reading == {"unset", "unreadable", "bad", "good"}
CheckStatus == {"pass", "fail", "warn", "manual", "skip"}

\* What the checks can see: of the tenancy (policies is "bad" without any of the
\* required principals and "partial" with some), of the network, and of a target.
Tenancy == [policies : Reading \cup {"partial"}, subnet : Reading,
            gateway : Reading, route : Reading, ingress : Reading]
TargetFacts == [resource : Reading, endpoint : Reading, insightEndpoint : Reading,
                secret : Reading, agent : Reading \cup {"idle"},
                user : {"unchecked", "open", "locked", "ungranted"}]

CheckResult(name, status) == [name |-> name, status |-> status]

\* The names of the checks that block an enablement.
Blocking(checks) == {c.name : c \in {x \in checks : x.status = "fail"}}

\* Most lookups: a missing or unreadable object is only a warning.
Outcome(reading) ==
  CASE reading = "good" -> "pass" [] reading = "bad" -> "fail" [] OTHER -> "warn"

TenancyChecks(env) ==
  {CheckResult("iam.policies", Outcome(env.policies))}

\* Without a readable subnet none of the other network checks is made.
NetworkChecks(env) ==
  CASE env.subnet = "unset"      -> {CheckResult("network.subnet", "skip")}
    [] env.subnet = "unreadable" -> {CheckResult("network.subnet", "fail")}
    [] OTHER ->
         {CheckResult("network.subnet", Outcome(env.subnet)),
          CheckResult("network.service_gateway", Outcome(env.gateway)),
          CheckResult("network.route", Outcome(env.route)),
          CheckResult("network.security_list", IF env.ingress = "good" THEN "pass" ELSE "warn")}

\* parent is what a look at the parent CDB shows: "unset", "unreadable", "good"
\* when its Database Management is ENABLED or ENABLING, "bad" otherwise.
NativeChecks(kind, facts, parent) ==
  IF facts.resource \in {"unset", "unreadable"}
  THEN {CheckResult("target.resource", "fail")}
  ELSE {CheckResult("target.resource", Outcome(facts.resource)),
        CheckResult("target.dbm_status", "pass")}
       \cup (IF kind = "pdb" THEN {CheckResult("target.parent_cdb", Outcome(parent))} ELSE {})
       \cup (IF kind \in {"cdb", "pdb"}
             THEN {CheckResult("target.dbm_private_endpoint", Outcome(facts.endpoint)),
                   CheckResult("target.opsi_private_endpoint", Outcome(facts.insightEndpoint)),
                   CheckResult("target.host_firewall", "manual")}
             ELSE {})

\* Only a listing without a matching agent blocks; a named agent, or a listed one
\* that is down or lacks its plug-ins, is a warning.
AgentChecks(facts) ==
  {CheckResult("target.management_agent",
     CASE facts.agent = "good" -> "pass" [] facts.agent = "bad" -> "fail" [] OTHER -> "warn")}

VaultCheck(kind, facts) ==
  CheckResult("target.vault_secret", IF kind = "autonomous" THEN "skip" ELSE Outcome(facts.secret))

MonitoringUserCheck(kind, facts) ==
  CheckResult("target.monitoring_user",
    CASE kind = "autonomous"        -> "skip"
      [] facts.user = "unchecked"   -> "manual"
      [] facts.user = "open"        -> "pass"
      [] OTHER                      -> "fail")

\* None of the Log Analytics checks can fail: what is missing is created later or
\* left to the operator.
LogAnalyticsChecks(lacks) ==
  {CheckResult("logan.namespace", IF "namespace" \in lacks THEN "warn" ELSE "pass"),
   CheckResult("logan.log_group", IF "loggroup" \in lacks THEN "manual" ELSE "pass"),
   CheckResult("logan.entities", IF "entity" \in lacks THEN "manual" ELSE "pass"),
   CheckResult("logan.management_agent", IF "agent" \in lacks THEN "manual" ELSE "pass")}

TargetChecks(kind, facts, parent, services, lacks) ==
  (IF kind = "external" THEN AgentChecks(facts) ELSE NativeChecks(kind, facts, parent))
    \cup {VaultCheck(kind, facts), MonitoringUserCheck(kind, facts)}
    \cup (IF "logan" \in services THEN LogAnalyticsChecks(lacks) ELSE {})
=============================================================================
