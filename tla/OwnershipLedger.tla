--------------------------- MODULE OwnershipLedger --------------------------
(***************************************************************************)
(* What the lifecycle promises about the services it switches on and off   *)
(* (CleanupPlanner: "only owned, run-enabled resources").  An item is a    *)
(* service on a target.  The run may switch an item on, and earns a credit *)
(* for it; it claims, in its manifest, only what it has credit for; and it *)
(* switches off only what it has claimed.  Anybody else may switch items   *)
(* on, and an item may fail by itself.                                     *)
(***************************************************************************)
CONSTANT Items

VARIABLES
  on,       \* the items that are on
  credit,   \* those the run has switched on at some time
  claimed,  \* those its manifest says it owns
  removed   \* those the run has switched off

ledger == <<on, credit, claimed, removed>>

Init ==
  /\ on \subseteq Items
  /\ credit = {} /\ claimed = {} /\ removed = {}

TurnOn ==
  /\ on \subseteq on' /\ on' # on
  /\ credit' = credit \cup (on' \ on)
  /\ UNCHANGED <<claimed, removed>>

Claim ==
  /\ claimed \subseteq claimed' /\ claimed' \subseteq credit
  /\ UNCHANGED <<on, credit, removed>>

TurnOff ==
  /\ removed \subseteq removed' /\ removed' \subseteq claimed
  /\ on' = on \ removed'
  /\ UNCHANGED <<credit, claimed>>

\* Another actor switches something on, or something fails.
Elsewhere == on' \subseteq Items /\ UNCHANGED <<credit, claimed, removed>>

Next == TurnOn \/ Claim \/ TurnOff \/ Elsewhere

Spec == Init /\ [][Next]_ledger

\* The run switches off only what it has switched on itself.
RemovedIsOwnWork == removed \subseteq claimed /\ claimed \subseteq credit
=============================================================================
