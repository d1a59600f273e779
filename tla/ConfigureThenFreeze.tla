------------------------- MODULE ConfigureThenFreeze -------------------------
(***************************************************************************)
(* What the verifier promises about its trust anchors, with no word of how *)
(* it keeps the promise: requests are answered only while a set of CSCA    *)
(* anchors is in force, the set is exchanged only for another one, never   *)
(* withdrawn, and closing (a restart) forgets that the service was open    *)
(* but not what is in force.  AnchorLifecycle implements this.             *)
(***************************************************************************)
CONSTANTS AnchorSets,   \* the anchor sets a master list can yield
          None          \* no set

VARIABLES inForce,      \* the set Passive Authentication uses
          open          \* requests other than /configure are served

abstractVars == <<inForce, open>>

Init == inForce = None /\ open = FALSE

Exchange == \E a \in AnchorSets : inForce' = a /\ UNCHANGED open

Open == inForce # None /\ open' = TRUE /\ UNCHANGED inForce

Close == open' = FALSE /\ UNCHANGED inForce

Next == Exchange \/ Open \/ Close

Spec == Init /\ [][Next]_abstractVars
=============================================================================
