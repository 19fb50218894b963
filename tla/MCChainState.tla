---------------------------- MODULE MCChainState ----------------------------
(* Instances of ChainState for TLC.  The shape of the block tree, the       *)
(* verdicts and the work of the blocks are chosen in Init.                  *)
EXTENDS ChainState, TLC

CONSTANTS g, b1, b2, b3, b4, b5

MCThree == {g, b1, b2, b3}
MCFour == {g, b1, b2, b3, b4}
MCFive == {g, b1, b2, b3, b4, b5}

MCSymmetry == Permutations({b1, b2, b3, b4, b5})
MCSymmetryFour == Permutations({b1, b2, b3, b4})
=============================================================================
