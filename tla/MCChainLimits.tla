--------------------------- MODULE MCChainLimits ---------------------------
(* An instance of ChainLimits for TLC: limits of 10, 11 and no more, since  *)
(* the next step exceeds the range of unsigned ints; periods of five blocks *)
(* are the shortest in which mean and median can disagree.                  *)
EXTENDS ChainLimits

MCSizes == {5, 10, 11}
=============================================================================
