------------------------------ MODULE BestChain ------------------------------
(***************************************************************************)
(* What the node promises about its active chain, without saying how: it   *)
(* learns blocks, and after each batch its best block is a valid one with  *)
(* the most work among those it knows.  It changes its mind only for more  *)
(* work, for more blocks with the same work, or between siblings.          *)
(* ChainState implements this specification.                               *)
(***************************************************************************)
EXTENDS Integers

CONSTANTS Blocks, Genesis

VARIABLES
  parent, work, good,  \* the network's blocks: never change
  known,               \* the blocks the node has accepted
  best                 \* the tip of its active chain

tree == <<parent, work, good>>
vars == <<tree, known, best>>

(* Total work, number of blocks and validity of the chain that ends in b.    *)
ChainWork(b) ==
  LET w[x \in Blocks] == IF x = Genesis THEN 1 ELSE w[parent[x]] + work[x] IN w[b]

Length(b) ==
  LET n[x \in Blocks] == IF x = Genesis THEN 0 ELSE n[parent[x]] + 1 IN n[b]

Valid(b) ==
  LET v[x \in Blocks] == x = Genesis \/ (good[x] /\ v[parent[x]]) IN v[b]

Init ==
  /\ known = {Genesis}
  /\ best = Genesis

Siblings(a, b) == a # Genesis /\ b # Genesis /\ parent[a] = parent[b]

(* b is a reason to leave a.                                                 *)
Preferred(b, a) ==
  \/ ChainWork(b) > ChainWork(a)
  \/ ChainWork(b) = ChainWork(a) /\ (Length(b) > Length(a) \/ Siblings(a, b))

Learn(S) ==
  /\ S \cap known = {}
  /\ known' = known \cup S
  /\ \A b \in S : parent[b] \in known'
  /\ best' \in known' /\ Valid(best')
  /\ \A b \in known' : Valid(b) => ChainWork(b) <= ChainWork(best')
  /\ best' = best \/ Preferred(best', best)
  /\ UNCHANGED tree

Next == \E S \in SUBSET (Blocks \ known) : S # {} /\ Learn(S)

Spec == Init /\ [][Next]_vars
=============================================================================
