----------------------------- MODULE MCNetNodes -----------------------------
(* An instance of NetNodes for TLC: memory for one node, so that a new one   *)
(* takes the place of a deleted one, and two openers.                        *)
EXTENDS NetNodes, TLC

CONSTANTS n1, o1, o2, a1

MCKinds == (o1 :> {"name", "oneshot"}) @@ (o2 :> {"address"})
=============================================================================
