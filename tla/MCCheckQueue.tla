---------------------------- MODULE MCCheckQueue ----------------------------
(* An instance of CheckQueue for TLC: script-check threads w1 and w2, a      *)
(* master and up to four checks per block, the last of which fails.  Four    *)
(* checks are the fewest from which BatchOf can cut a batch of two.          *)
EXTENDS CheckQueue

CONSTANTS w1, w2, m, c1, c2, c3, c4

MCWorkers == {w1, w2}
MCChecks == {c1, c2, c3, c4}
MCFailing == {c4}
=============================================================================
