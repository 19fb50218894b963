--------------------------- MODULE MCBlockDownload ---------------------------
(* Instances of BlockDownload for TLC.                                      *)
EXTENDS BlockDownload, TLC

CONSTANTS p1, p2, h1, h2

MCSymmetry == Permutations({p1, p2}) \cup Permutations({h1, h2})
=============================================================================
