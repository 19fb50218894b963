------------------------------ MODULE MCMempool ------------------------------
(* An instance of Mempool for TLC.  ta spends the genesis coinbase; tb, tc   *)
(* both spend its first output; td joins tb and ta's second output; te       *)
(* spends the coinbase c1.                                                   *)
EXTENDS Mempool, TLC

CONSTANTS cg, c1, c2, ta, tb, tc, td, te, p1, p2

MCCoinBases == {cg, c1, c2}
MCPaymentsMost == {ta, tb, tc, td, te}

MCPrevouts ==
  [t \in MCCoinBases |-> <<>>] @@
  (ta :> <<<<cg, 0>>>>) @@ (tb :> <<<<ta, 0>>>>) @@ (tc :> <<<<ta, 0>>>>) @@
  (td :> <<<<tb, 0>>, <<ta, 1>>>>) @@ (te :> <<<<c1, 0>>>>)

MCOutputs ==
  [t \in MCCoinBases |-> {0}] @@ (ta :> {0, 1}) @@ (tb :> {0}) @@ (tc :> {0}) @@
  (td :> {0}) @@ (te :> {0})

MCPolicy(n, m, i, f, l) ==
  [Nonstandard |-> n, NonstandardInputs |-> m, Invalid |-> i, Free |-> f, Large |-> l]
MCPolicies ==
  {MCPolicy({}, {}, {}, {tc}, {}), MCPolicy({tb}, {}, {tc}, {}, {}), MCPolicy({}, {tb}, {}, {}, {tc})}

MCPeers == {p1, p2}
MCSymmetry == Permutations(MCPeers)
=============================================================================
