------------------------------- MODULE MCCoins -------------------------------
(* An instance of Coins for TLC: two branches, g-b1-b2 and g-b3.  Each       *)
(* block has its coinbase and, in any order, up to two (b3: up to one) of    *)
(* four transactions, of which t2 and t3 spend the same output, t3 spends    *)
(* both outputs of t1 and t4 spends the coinbase of b1.  t1 and t4 together  *)
(* spend all of the genesis coinbase.                                        *)
EXTENDS Coins, TLC

CONSTANTS g, b1, b2, b3, cg, c1, c2, c3, t1, t2, t3, t4

MCBlocks == {g, b1, b2, b3}
MCPrev == (b1 :> g) @@ (b2 :> b1) @@ (b3 :> g)
MCHeight == (g :> 0) @@ (b1 :> 1) @@ (b2 :> 2) @@ (b3 :> 1)

MCCoinBases == {cg, c1, c2, c3}
MCPayments == {t1, t2, t3, t4}
MCTxs == MCCoinBases \cup MCPayments

MCPrevouts ==
  [t \in MCCoinBases |-> <<>>] @@
  (t1 :> <<<<cg, 0>>>>) @@ (t2 :> <<<<t1, 0>>>>) @@
  (t3 :> <<<<t1, 0>>, <<t1, 1>>>>) @@ (t4 :> <<<<c1, 0>>, <<cg, 1>>>>)

MCOutputs ==
  (cg :> {0, 1}) @@ (c1 :> {0}) @@ (c2 :> {}) @@ (c3 :> {0}) @@
  (t1 :> {0, 1}) @@ (t2 :> {0}) @@ (t3 :> {}) @@ (t4 :> {0})

MCBodies == {<<>>} \cup {<<t>> : t \in MCPayments}
MCPairs == {<<t, u>> : t \in MCPayments, u \in MCPayments} \ {<<t, t>> : t \in MCPayments}

MCContents ==
  {(g :> <<cg>>) @@ (b1 :> <<c1>> \o x) @@ (b2 :> <<c2>> \o y) @@ (b3 :> <<c3>> \o z) :
     x, y \in MCBodies \cup MCPairs, z \in MCBodies}
=============================================================================
