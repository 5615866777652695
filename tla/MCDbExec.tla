------------------------------ MODULE MCDbExec ------------------------------
(* Two commands at the same time: "a" for the database t1 of host h1 and an autonomous
   database; "b" for the database t3 of h2.  Both databases are called the same, so the
   sessions are too.  "p" is a command with a production profile. *)
EXTENDS DbExec

CONSTANT MaxTrouble  \* how many things go wrong, of any kind, in one behaviour

MCTargets(c) == CASE c = "a" -> <<"t1", "adb">> [] c = "b" -> <<"t3">> [] c = "p" -> <<"t3", "adb">>
MCHost(c) == IF c = "a" THEN "h1" ELSE "h2"
MCLabel(t) == "dbman-exec-orders"

\* Nothing is explored beyond so many failures, mix-ups and ticks together.
Bounded == Cardinality(mixups) + Cardinality(faults) + (now - Began) <= MaxTrouble
=============================================================================
