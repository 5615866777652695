-------------------------- MODULE MCConfigCommands --------------------------
(* ConfigCommands for TLC: two processes on the file of one region or two. *)
EXTENDS ConfigCommands

Applied == {<<"provision", "apply">>, <<"import", "apply">>, <<"prepare", "apply">>,
            <<"data-safe", "apply">>, <<"log-analytics", "apply">>, <<"configure", "apply">>}
Planned == {<<"log-analytics", "plan">>, <<"data-safe", "plan">>, <<"import", "plan">>}
DryApplied == {<<"log-analytics", "both">>}
FileOnly == {<<"plan", "apply">>, <<"init-region", "apply">>, <<"bind", "apply">>,
             <<"cross-region", "apply">>}

AllCalls == Applied \cup Planned \cup DryApplied \cup FileOnly
=============================================================================
