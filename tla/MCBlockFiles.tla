---------------------------- MODULE MCBlockFiles ----------------------------
(* Instances of BlockFiles for TLC: a fork of one block against two.       *)
EXTENDS BlockFiles, TLC

CONSTANTS g, a1, b1, b2

MCBlocks == {a1, b1, b2}
MCPrev == (a1 :> g) @@ (b1 :> g) @@ (b2 :> b1)
MCHeight == (g :> 0) @@ (a1 :> 1) @@ (b1 :> 1) @@ (b2 :> 2)
=============================================================================
