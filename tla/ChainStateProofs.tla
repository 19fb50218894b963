-------------------------- MODULE ChainStateProofs --------------------------
(***************************************************************************)
(* Proofs about ChainState, for every set of blocks and every block tree:  *)
(* types, the active chain, failed marks, candidates and orphans; then the *)
(* best chain and the refinement of BestChain.                             *)
(*                                                                         *)
(* Path and Without are recursive functions.  What is needed of them is    *)
(* proved without induction: a solution of the recursive equation is given *)
(* (or shown to exist), and facts about every solution follow from the     *)
(* least counterexample, which IsTree gives for blocks and LeastNat for    *)
(* numbers.                                                                *)
(***************************************************************************)
EXTENDS ChainState, FiniteSetTheorems, TLAPS

-----------------------------------------------------------------------------
(* The comparator *)

(* The fields of a block that the comparator reads are numbers.              *)
Keys(b) ==
  /\ nChainWork[b] \in Nat /\ nHeight[b] \in Nat
  /\ nSequenceId[b] \in Nat /\ nMatureCoinsSpent[b] \in Int

(* The comparator is asymmetric.                                             *)
LEMMA LessAsymmetric ==
  ASSUME NEW a, NEW b, Keys(a), Keys(b)
  PROVE  ~ (Less(a, b) /\ Less(b, a))
<1>1. /\ Tie(a, b) <=> Tie(b, a)
      /\ Tie(a, b) => nMatureCoinsSpent[a] # nMatureCoinsSpent[b]
  BY Zenon DEF Tie
<1> QED BY <1>1 DEF Less, Keys

(* It decides between blocks with different sequence numbers.                *)
LEMMA LessTotal ==
  ASSUME NEW a, NEW b, Keys(a), Keys(b)
  PROVE  Less(a, b) \/ Less(b, a) \/ nSequenceId[a] = nSequenceId[b]
<1>1. /\ Tie(a, b) <=> Tie(b, a)
      /\ Tie(a, b) => nMatureCoinsSpent[a] # nMatureCoinsSpent[b]
  BY Zenon DEF Tie
<1> QED BY <1>1 DEF Less, Keys

(* It is transitive where the coins do not decide.                           *)
LEMMA LessTransitive ==
  ASSUME NEW a, NEW b, NEW c, Keys(a), Keys(b), Keys(c),
         ~Tie(a, b), ~Tie(b, c), ~Tie(a, c), Less(a, b), Less(b, c)
  PROVE  Less(a, c)
BY DEF Less, Keys

(* What makes the later of two blocks the better one.                        *)
LEMMA LessReason ==
  ASSUME NEW a, NEW b, Keys(a), Keys(b), Less(a, b), nSequenceId[a] < nSequenceId[b]
  PROVE  \/ nChainWork[b] > nChainWork[a]
         \/ nChainWork[b] = nChainWork[a] /\ nHeight[b] > nHeight[a]
         \/ /\ nChainWork[b] = nChainWork[a] /\ nHeight[b] = nHeight[a]
            /\ Tie(a, b) /\ nMatureCoinsSpent[b] > nMatureCoinsSpent[a]
BY DEF Less, Keys

-----------------------------------------------------------------------------
(* Paths *)

(* The recursive function in Path, for the parents f.                        *)
Paths(f) ==
  CHOOSE p : p = [x \in Blocks |-> IF x = Genesis THEN {x} ELSE {x} \cup p[f[x]]]

(* The blocks of every set that contains b and, with a block, its parent.    *)
Closure(f, b) ==
  {x \in Blocks : \A S \in SUBSET Blocks :
     (b \in S /\ \A y \in S \ {Genesis} : f[y] \in S) => x \in S}

(* Path is the recursive function.                                           *)
LEMMA PathIs == \A b \in Blocks : Path(b) = Paths(hashPrev)[b]
BY ChainAssumption DEF Path, Paths

(* NULL has no path.                                                         *)
LEMMA PathOfNoBlock == Path(NoBlock) = {}
BY DEF Path

(* Path satisfies its defining equation.                                     *)
LEMMA PathsEquation ==
  ASSUME NEW f \in [Others -> Blocks]
  PROVE  Paths(f) = [x \in Blocks |->
                       IF x = Genesis THEN {x} ELSE {x} \cup Paths(f)[f[x]]]
<1> DEFINE C == [x \in Blocks |-> Closure(f, x)]
<1>1. ASSUME NEW x \in Blocks
      PROVE  C[x] = IF x = Genesis THEN {x} ELSE {x} \cup C[f[x]]
  <2>1. CASE x = Genesis
    <3>1. Closure(f, x) \subseteq {Genesis}
      <4>1. \A y \in {Genesis} \ {Genesis} : f[y] \in {Genesis}
        OBVIOUS
      <4>2. {Genesis} \in SUBSET Blocks /\ x \in {Genesis}
        BY <2>1, ChainAssumption
      <4> QED BY Zenon, <4>1, <4>2 DEF Closure
    <3>2. Genesis \in Closure(f, x)
      BY <2>1, ChainAssumption DEF Closure
    <3> QED BY <2>1, <3>1, <3>2
  <2>2. CASE x # Genesis
    <3>0. x \in Others /\ f[x] \in Blocks
      BY <2>2 DEF Others
    <3>1. ASSUME NEW y \in Closure(f, x)
          PROVE  y \in {x} \cup Closure(f, f[x])
      <4> DEFINE T == {x} \cup Closure(f, f[x])
      <4>1. T \in SUBSET Blocks /\ x \in T
        BY DEF Closure
      <4>2. ASSUME NEW z \in T \ {Genesis} PROVE f[z] \in T
        <5>1. CASE z = x
          BY <5>1, <3>0 DEF Closure
        <5>2. CASE z \in Closure(f, f[x])
          <6>1. z \in Others /\ f[z] \in Blocks
            BY <4>1, <4>2 DEF Others
          <6> QED BY <5>2, <6>1, <4>2 DEF Closure
        <5> QED BY <5>1, <5>2, <4>2
      <4>3. y \in T
        BY Zenon, <3>1, <4>1, <4>2 DEF Closure
      <4> QED BY <4>3
    <3>2. x \in Closure(f, x)
      BY DEF Closure
    <3>3. ASSUME NEW y \in Closure(f, f[x])
          PROVE  y \in Closure(f, x)
      BY <2>2, <3>3 DEF Closure
    <3> QED BY <2>2, <3>0, <3>1, <3>2, <3>3
  <2> QED BY <2>1, <2>2
<1>2. C = [x \in Blocks |-> IF x = Genesis THEN {x} ELSE {x} \cup C[f[x]]]
  BY <1>1
<1>3. \E p : p = [x \in Blocks |-> IF x = Genesis THEN {x} ELSE {x} \cup p[f[x]]]
  BY Zenon, <1>2
<1> HIDE DEF C
<1> QED BY Zenon, <1>3 DEF Paths

(* What holds of Genesis, and of a block if it holds of its parent, holds of *)
(* all blocks.                                                               *)
LEMMA TreeInduction ==
  ASSUME NEW f \in [Others -> Blocks], IsTree(f),
         NEW Good \in SUBSET Blocks,
         Genesis \in Good,
         \A b \in Others : f[b] \in Good => b \in Good
  PROVE  \A b \in Blocks : b \in Good
<1> DEFINE Bad == Others \ Good
<1>1. SUFFICES ASSUME Bad # {} PROVE FALSE
  BY DEF Others
<1>2. PICK b \in Bad : f[b] \notin Bad
  BY Zenon, <1>1 DEF IsTree
<1>3. f[b] \in Blocks
  BY <1>2
<1>4. f[b] \in Good
  BY <1>2, <1>3 DEF Others
<1> QED BY <1>2, <1>4

(* The equation, block by block.                                             *)
LEMMA PathsOf ==
  ASSUME NEW f \in [Others -> Blocks]
  PROVE  /\ Paths(f)[Genesis] = {Genesis}
         /\ \A b \in Others : Paths(f)[b] = {b} \cup Paths(f)[f[b]]
<1> DEFINE p == Paths(f)
<1>1. p = [x \in Blocks |-> IF x = Genesis THEN {x} ELSE {x} \cup p[f[x]]]
  BY Zenon, PathsEquation
<1> HIDE DEF p
<1>2. \A x \in Blocks : p[x] = IF x = Genesis THEN {x} ELSE {x} \cup p[f[x]]
  BY Zenon, <1>1
<1>3. p[Genesis] = {Genesis}
  BY Zenon, <1>2, ChainAssumption
<1>4. \A b \in Others : p[b] = {b} \cup p[f[b]]
  BY Zenon, <1>2 DEF Others
<1> QED BY Zenon, <1>3, <1>4 DEF p

(* A path is a set of blocks, with the block itself and Genesis in it.       *)
LEMMA PathContains ==
  ASSUME NEW f \in [Others -> Blocks], IsTree(f)
  PROVE  \A b \in Blocks :
           b \in Paths(f)[b] /\ Genesis \in Paths(f)[b] /\ Paths(f)[b] \subseteq Blocks
<1> DEFINE Good == {b \in Blocks : b \in Paths(f)[b] /\ Genesis \in Paths(f)[b]
                                    /\ Paths(f)[b] \subseteq Blocks}
<1>1. Genesis \in Good
  BY PathsOf, ChainAssumption
<1>2. \A b \in Others : f[b] \in Good => b \in Good
  BY PathsOf DEF Others
<1>3. \A b \in Blocks : b \in Good
  <2> HIDE DEF Good
  <2> QED BY Zenon, <1>1, <1>2, TreeInduction DEF Good
<1> QED BY <1>3

(* The path to an ancestor is part of the path.                              *)
LEMMA PathTransitive ==
  ASSUME NEW f \in [Others -> Blocks], IsTree(f)
  PROVE  \A b \in Blocks : \A x \in Paths(f)[b] : Paths(f)[x] \subseteq Paths(f)[b]
<1> DEFINE Good == {b \in Blocks : \A x \in Paths(f)[b] : Paths(f)[x] \subseteq Paths(f)[b]}
<1>1. Genesis \in Good
  BY PathsOf, ChainAssumption
<1>2. \A b \in Others : f[b] \in Good => b \in Good
  BY PathsOf DEF Others
<1>3. \A b \in Blocks : b \in Good
  <2> HIDE DEF Good
  <2> QED BY Zenon, <1>1, <1>2, TreeInduction DEF Good
<1> QED BY <1>3

(* Of two blocks on a path, one is an ancestor of the other.                 *)
LEMMA PathLinear ==
  ASSUME NEW f \in [Others -> Blocks], IsTree(f)
  PROVE  \A b \in Blocks : \A x, y \in Paths(f)[b] :
           x \in Paths(f)[y] \/ y \in Paths(f)[x]
<1> DEFINE Good == {b \in Blocks : \A x, y \in Paths(f)[b] :
                      x \in Paths(f)[y] \/ y \in Paths(f)[x]}
<1>1. Genesis \in Good
  BY PathsOf, ChainAssumption
<1>2. ASSUME NEW b \in Others, f[b] \in Good PROVE b \in Good
  <2>1. Paths(f)[b] = {b} \cup Paths(f)[f[b]]
    BY PathsOf
  <2> QED BY <1>2, <2>1 DEF Others
<1>3. \A b \in Blocks : b \in Good
  <2> HIDE DEF Good
  <2> QED BY Zenon, <1>1, <1>2, TreeInduction DEF Good
<1> QED BY <1>3

(* An ancestor has a child on the path.                                      *)
LEMMA PathChild ==
  ASSUME NEW f \in [Others -> Blocks], IsTree(f)
  PROVE  \A b \in Blocks : \A x \in Paths(f)[b] :
           x # b => \E z \in Paths(f)[b] \cap Others : f[z] = x
<1> DEFINE Good == {b \in Blocks : \A x \in Paths(f)[b] :
                      x # b => \E z \in Paths(f)[b] \cap Others : f[z] = x}
<1>1. Genesis \in Good
  BY PathsOf, ChainAssumption
<1>2. ASSUME NEW b \in Others, f[b] \in Good PROVE b \in Good
  <2>1. Paths(f)[b] = {b} \cup Paths(f)[f[b]]
    BY PathsOf
  <2>2. ASSUME NEW x \in Paths(f)[b], x # b
        PROVE  \E z \in Paths(f)[b] \cap Others : f[z] = x
    <3>1. CASE x = f[b]
      BY <3>1, <2>1
    <3>2. CASE x # f[b]
      BY <3>2, <1>2, <2>1, <2>2
    <3> QED BY <3>1, <3>2
  <2> QED BY <2>2 DEF Others
<1>3. \A b \in Blocks : b \in Good
  <2> HIDE DEF Good
  <2> QED BY Zenon, <1>1, <1>2, TreeInduction DEF Good
<1> QED BY <1>3

(* The index holds the parents of its blocks.                                *)
Closed(f, M) == M \subseteq Blocks /\ Genesis \in M /\ \A b \in M \ {Genesis} : f[b] \in M

(* It holds whole paths; and what grows from parent to child grows along the *)
(* paths.                                                                    *)
LEMMA PathGrows ==
  ASSUME NEW f \in [Others -> Blocks], IsTree(f), NEW M, Closed(f, M),
         NEW v \in [Blocks -> Nat], \A b \in M \ {Genesis} : v[f[b]] < v[b]
  PROVE  \A b \in M : \A x \in Paths(f)[b] :
           x \in M /\ v[x] <= v[b] /\ (v[x] = v[b] => x = b)
<1> DEFINE Good == {b \in Blocks : b \in M => \A x \in Paths(f)[b] :
                      x \in M /\ v[x] <= v[b] /\ (v[x] = v[b] => x = b)}
<1>1. Genesis \in Good
  BY PathsOf, ChainAssumption
<1>2. ASSUME NEW b \in Others, f[b] \in Good PROVE b \in Good
  <2>1. Paths(f)[b] = {b} \cup Paths(f)[f[b]]
    BY PathsOf
  <2>2. ASSUME b \in M, NEW x \in Paths(f)[b]
        PROVE  x \in M /\ v[x] <= v[b] /\ (v[x] = v[b] => x = b)
    <3>1. f[b] \in M /\ v[f[b]] < v[b] /\ b \in Blocks /\ f[b] \in Blocks
      BY <2>2 DEF Closed, Others
    <3>2. CASE x = b
      BY <3>2, <2>2, <3>1
    <3>3. CASE x \in Paths(f)[f[b]]
      <4>1. x \in M /\ v[x] <= v[f[b]]
        BY <3>3, <3>1, <1>2
      <4>2. x \in Blocks
        BY <4>1 DEF Closed
      <4> QED BY <4>1, <4>2, <3>1
    <3> QED BY <3>2, <3>3, <2>1, <2>2
  <2> QED BY <2>2 DEF Others
<1>3. \A b \in Blocks : b \in Good
  <2> HIDE DEF Good
  <2> QED BY Zenon, <1>1, <1>2, TreeInduction DEF Good
<1> QED BY <1>3 DEF Closed

-----------------------------------------------------------------------------
(* Numbers *)

(* A set of numbers that is not empty has a least one.                       *)
LEMMA LeastNat ==
  \A S \in SUBSET Nat : S # {} => \E m \in S : \A k \in S : m <= k
<1> SUFFICES ASSUME NEW S \in SUBSET Nat, S # {}
             PROVE  \E m \in S : \A k \in S : m <= k
  OBVIOUS
<1>1. PICK m \in S : \A k \in S : ~ (<<k, m>> \in OpToRel(<, Nat))
  BY Zenon, NatLessThanWellFounded, WFMin
<1>2. \A k \in S : ~ (k < m)
  BY Zenon, <1>1 DEF OpToRel
<1> QED BY <1>2

-----------------------------------------------------------------------------
(* Sequences *)

(* One step of the recursive function in Without.                            *)
Keep(s, D, g, i) ==
  IF i = 0 THEN <<>>
  ELSE IF s[i] \in D THEN g[i - 1] ELSE Append(g[i - 1], s[i])

(* The recursive function in Without.                                        *)
Kept(s, D) == CHOOSE k : k = [i \in 0..Len(s) |-> Keep(s, D, k, i)]

(* Without is the last value of the recursive function.                      *)
LEMMA WithoutIs == \A s, D : Without(s, D) = Kept(s, D)[Len(s)]
BY DEF Without, Kept, Keep

(* Without satisfies its defining equation.                                  *)
LEMMA KeptEquation ==
  ASSUME NEW T, NEW s \in Seq(T), NEW D
  PROVE  Kept(s, D) = [i \in 0..Len(s) |-> Keep(s, D, Kept(s, D), i)]
<1> DEFINE N == Len(s)
           Solved(n) == \E g : g = [i \in 0..n |-> Keep(s, D, g, i)]
           Bad == {n \in 0..N : ~ Solved(n)}
<1>0. N \in Nat
  OBVIOUS
<1>1. Bad = {}
  <2> SUFFICES ASSUME Bad # {} PROVE FALSE
    OBVIOUS
  <2>0. Bad \in SUBSET Nat
    BY <1>0
  <2>1. PICK m \in Bad : \A k \in Bad : m <= k
    <3> HIDE DEF Bad
    <3> QED BY LeastNat, <2>0
  <2>2. m \in 0..N /\ ~ Solved(m)
    BY <2>1
  <2>3. CASE m = 0
    <3>1. [i \in 0..m |-> <<>>] = [i \in 0..m |-> Keep(s, D, [j \in 0..m |-> <<>>], i)]
      BY <2>3 DEF Keep
    <3> QED BY <3>1, <2>2
  <2>4. CASE m # 0
    <3>1. m - 1 \in 0..N /\ m - 1 \notin Bad
      <4>1. m \in 0..N
        BY <2>2
      <4> HIDE DEF Bad
      <4> QED BY <2>4, <4>1, <2>1, <1>0
    <3>2. PICK g : g = [i \in 0..(m - 1) |-> Keep(s, D, g, i)]
      BY <3>1
    <3> DEFINE h == [i \in 0..m |-> IF i = m THEN Keep(s, D, g, m) ELSE g[i]]
    <3>3. ASSUME NEW i \in 0..m PROVE h[i] = Keep(s, D, h, i)
      <4>1. i # 0 => i - 1 \in 0..m /\ i - 1 # m
        BY <2>2, <1>0
      <4>2. Keep(s, D, h, i) = Keep(s, D, g, i)
        BY <4>1 DEF Keep
      <4>3. i # m => g[i] = Keep(s, D, g, i)
        <5>1. SUFFICES ASSUME i # m PROVE g[i] = Keep(s, D, g, i)
          OBVIOUS
        <5>2. i \in 0..(m - 1)
          BY <5>1, <2>2, <1>0
        <5> HIDE DEF h
        <5> QED BY <3>2, <5>2
      <4> QED BY <4>2, <4>3
    <3>4. h = [i \in 0..m |-> Keep(s, D, h, i)]
      BY <3>3
    <3> HIDE DEF h
    <3> QED BY <3>4, <2>2
  <2> QED BY <2>3, <2>4
<1>2. Solved(N)
  BY <1>0, <1>1
<1> QED BY Zenon, <1>2 DEF Kept

(* What a sequence holds after Append.                                       *)
LEMMA AppendSet ==
  ASSUME NEW T, NEW s \in Seq(T), NEW e \in T
  PROVE  Append(s, e) \in Seq(T) /\ Range(Append(s, e)) = Range(s) \cup {e}
<1>1. /\ Append(s, e) \in Seq(T) /\ Len(Append(s, e)) = Len(s) + 1
      /\ DOMAIN Append(s, e) = 1..(Len(s) + 1) /\ DOMAIN s = 1..Len(s)
      /\ Append(s, e)[Len(s) + 1] = e
      /\ \A i \in 1..Len(s) : Append(s, e)[i] = s[i]
  OBVIOUS
<1>2. 1..(Len(s) + 1) = 1..Len(s) \cup {Len(s) + 1}
  OBVIOUS
<1> QED BY <1>1, <1>2 DEF Range

(* What is kept of the first n elements.                                     *)
KeptOf(s, D, n) == {s[j] : j \in 1..n} \ D

(* The recursive function keeps that.                                        *)
LEMMA KeptSet ==
  ASSUME NEW T, NEW s \in Seq(T), NEW D, NEW n \in 0..Len(s)
  PROVE  /\ Kept(s, D)[n] \in Seq(T)
         /\ Range(Kept(s, D)[n]) = KeptOf(s, D, n)
<1> DEFINE N == Len(s)
           k == Kept(s, D)
           Right(i) == k[i] \in Seq(T) /\ Range(k[i]) = {s[j] : j \in 1..i} \ D
           Bad == {i \in 0..N : ~ Right(i)}
<1>0. N \in Nat
  OBVIOUS
<1>1. \A i \in 0..N : k[i] = Keep(s, D, k, i)
  BY KeptEquation
<1> HIDE DEF k
<1>2. Bad = {}
  <2> SUFFICES ASSUME Bad # {} PROVE FALSE
    BY Zenon
  <2>0. Bad \in SUBSET Nat
    BY <1>0
  <2>1. PICK m \in Bad : \A j \in Bad : m <= j
    <3> HIDE DEF Bad
    <3> QED BY LeastNat, <2>0
  <2>2. m \in 0..N /\ ~ Right(m)
    BY <2>1
  <2>3. CASE m = 0
    <3>1. k[m] = <<>>
      BY <1>1, <2>2, <2>3 DEF Keep
    <3>2. k[m] \in Seq(T) /\ Range(k[m]) = {}
      BY <3>1 DEF Range
    <3>3. {s[j] : j \in 1..m} = {}
      BY <2>3
    <3> QED BY Zenon, <3>2, <3>3, <2>2
  <2>4. CASE m # 0
    <3>1. m - 1 \in 0..N /\ m - 1 \notin Bad
      <4>1. m \in 0..N
        BY <2>2
      <4> HIDE DEF Bad
      <4> QED BY <2>4, <4>1, <2>1, <1>0
    <3>2. Right(m - 1)
      BY <3>1
    <3>3. {s[j] : j \in 1..m} = {s[j] : j \in 1..(m - 1)} \cup {s[m]}
      <4>1. 1..m = 1..(m - 1) \cup {m}
        BY <2>2, <2>4, <1>0
      <4> QED BY Zenon, <4>1
    <3>4. s[m] \in T
      BY <2>2, <2>4, <1>0
    <3>5. CASE s[m] \in D
      <4>1. k[m] = k[m - 1]
        BY <3>5, <1>1, <2>2, <2>4 DEF Keep
      <4> QED BY <4>1, <3>2, <3>3, <3>5, <2>2
    <3>6. CASE s[m] \notin D
      <4>1. k[m] = Append(k[m - 1], s[m])
        BY Zenon, <3>6, <1>1, <2>2, <2>4 DEF Keep
      <4>2. Append(k[m - 1], s[m]) \in Seq(T)
            /\ Range(Append(k[m - 1], s[m])) = Range(k[m - 1]) \cup {s[m]}
        BY <3>2, <3>4, AppendSet
      <4> QED BY Zenon, <4>1, <4>2, <3>2, <3>3, <3>6, <2>2
    <3> QED BY <3>5, <3>6
  <2> QED BY <2>3, <2>4
<1>3. Right(n)
  <2> HIDE DEF Right
  <2> QED BY <1>2
<1> QED BY <1>3 DEF k, KeptOf

(* Without takes exactly the elements of D away.                             *)
LEMMA WithoutSet ==
  ASSUME NEW T, NEW s \in Seq(T), NEW D
  PROVE  Without(s, D) \in Seq(T) /\ Range(Without(s, D)) = Range(s) \ D
<1>1. Range(s) = {s[j] : j \in 1..Len(s)} /\ Len(s) \in 0..Len(s)
  BY DEF Range
<1> QED BY <1>1, KeptSet, WithoutIs DEF KeptOf

(* An erasure leaves a sequence of blocks.                                   *)
LEMMA ErasureSet ==
  ASSUME NEW T, NEW s \in Seq(T), NEW S, NEW t \in Erasures(s, S)
  PROVE  t \in Seq(T)
<1>1. PICK D : t = Without(s, D)
  BY DEF Erasures
<1> QED BY <1>1, WithoutSet

(* A sequence after another.                                                 *)
LEMMA Concatenation ==
  ASSUME NEW T, NEW m \in Seq(T), NEW r \in Seq(T)
  PROVE  m \o r \in Seq(T) /\ Len(m \o r) = Len(m) + Len(r)
OBVIOUS

(* The elements after an insertion.                                          *)
LEMMA InsertElements ==
  ASSUME NEW T, NEW s \in Seq(T), NEW i \in 1..Len(s) + 1, NEW e \in T
  PROVE  /\ Insert(s, i, e) \in Seq(T) /\ Len(Insert(s, i, e)) = Len(s) + 1
         /\ Insert(s, i, e)[i] = e
         /\ \A j \in 1..Len(s) : IF j < i THEN Insert(s, i, e)[j] = s[j]
                                 ELSE Insert(s, i, e)[j + 1] = s[j]
<1> DEFINE l == SubSeq(s, 1, i - 1)
           r == SubSeq(s, i, Len(s))
           m == l \o <<e>>
           t == m \o r
<1>1. l \in Seq(T) /\ Len(l) = i - 1 /\ \A j \in 1..(i - 1) : l[j] = s[j]
  OBVIOUS
<1>2. r \in Seq(T) /\ Len(r) = Len(s) - i + 1 /\ \A j \in 1..Len(r) : r[j] = s[i + j - 1]
  OBVIOUS
<1> HIDE DEF l, r
<1>3. /\ m \in Seq(T) /\ Len(m) = Len(l) + 1 /\ m[Len(l) + 1] = e
      /\ \A j \in 1..Len(l) : m[j] = l[j]
  BY <1>1
<1> HIDE DEF m
<1>4. /\ t \in Seq(T) /\ Len(t) = Len(m) + Len(r)
      /\ \A j \in 1..Len(m) : t[j] = m[j]
      /\ \A j \in 1..Len(r) : t[Len(m) + j] = r[j]
  <2>1. t \in Seq(T) /\ Len(t) = Len(m) + Len(r)
    BY Zenon, <1>2, <1>3, Concatenation
  <2>2. ASSUME NEW j \in 1..Len(m) PROVE t[j] = m[j]
    <3>1. j \in 1..(Len(m) + Len(r)) /\ j <= Len(m)
      BY <1>2, <1>3
    <3> QED BY <1>2, <1>3, <3>1
  <2>3. ASSUME NEW j \in 1..Len(r) PROVE t[Len(m) + j] = r[j]
    <3>1. Len(m) + j \in 1..(Len(m) + Len(r)) /\ ~ (Len(m) + j <= Len(m)) /\ Len(m) + j - Len(m) = j
      BY <1>2, <1>3
    <3> QED BY SMTT(30), <1>2, <1>3, <3>1
  <2> QED BY <2>1, <2>2, <2>3
<1> HIDE DEF t
<1>5. Len(t) = Len(s) + 1 /\ DOMAIN t = 1..(Len(s) + 1) /\ t[i] = e
  BY <1>1, <1>2, <1>3, <1>4
<1>6. ASSUME NEW j \in 1..Len(s) PROVE IF j < i THEN t[j] = s[j] ELSE t[j + 1] = s[j]
  <2>1. CASE j < i
    BY <2>1, <1>1, <1>3, <1>4
  <2>2. CASE ~ (j < i)
    <3> DEFINE k == j - i + 1
    <3>1. k \in 1..Len(r) /\ Len(m) + k = j + 1 /\ i + k - 1 = j
      BY <2>2, <1>1, <1>2, <1>3
    <3> HIDE DEF k
    <3>2. t[Len(m) + k] = r[k] /\ r[k] = s[i + k - 1]
      BY <3>1, <1>2, <1>4
    <3> QED BY <2>2, <3>1, <3>2
  <2> QED BY <2>1, <2>2
<1>7. Insert(s, i, e) = t
  BY DEF Insert, l, r, m, t
<1>8. t \in Seq(T) /\ Len(t) = Len(s) + 1 /\ t[i] = e
  BY <1>4, <1>5
<1> QED BY Zenon, <1>6, <1>7, <1>8

(* Where the elements after an insertion come from.                          *)
LEMMA InsertPlaces ==
  ASSUME NEW T, NEW s \in Seq(T), NEW i \in 1..Len(s) + 1, NEW e \in T,
         NEW j \in 1..Len(s) + 1
  PROVE  Insert(s, i, e)[j] = IF j < i THEN s[j] ELSE IF j = i THEN e ELSE s[j - 1]
<1> DEFINE t == Insert(s, i, e)
<1>1. t[i] = e /\ \A k \in 1..Len(s) : IF k < i THEN t[k] = s[k] ELSE t[k + 1] = s[k]
  BY SMTT(30), InsertElements
<1> HIDE DEF t
<1>2. CASE j < i
  <2>1. j \in 1..Len(s)
    BY <1>2
  <2> QED BY <1>1, <1>2, <2>1 DEF t
<1>3. CASE j = i
  BY <1>1, <1>3 DEF t
<1>4. CASE j > i
  <2>1. j - 1 \in 1..Len(s) /\ ~ (j - 1 < i) /\ (j - 1) + 1 = j
    BY <1>4
  <2>2. t[j] = s[j - 1]
    BY <1>1, <2>1
  <2> QED BY <1>4, <2>2 DEF t
<1> QED BY <1>2, <1>3, <1>4

(* An insertion adds the element and takes nothing away.                     *)
LEMMA InsertSet ==
  ASSUME NEW T, NEW s \in Seq(T), NEW i \in 1..Len(s) + 1, NEW e \in T
  PROVE  /\ Insert(s, i, e) \in Seq(T)
         /\ Range(Insert(s, i, e)) = Range(s) \cup {e}
<1> DEFINE t == Insert(s, i, e)
<1>1. /\ t \in Seq(T) /\ Len(t) = Len(s) + 1 /\ t[i] = e
      /\ \A k \in 1..Len(s) : IF k < i THEN t[k] = s[k] ELSE t[k + 1] = s[k]
  BY SMTT(30), InsertElements
<1>2. \A j \in 1..Len(s) + 1 : t[j] = IF j < i THEN s[j] ELSE IF j = i THEN e ELSE s[j - 1]
  BY InsertPlaces
<1> HIDE DEF t
<1>3. DOMAIN s = 1..Len(s) /\ DOMAIN t = 1..Len(s) + 1
  BY <1>1
<1>4. ASSUME NEW k \in 1..Len(s) PROVE s[k] \in Range(t)
  <2>1. k \in 1..Len(s) + 1 /\ k + 1 \in 1..Len(s) + 1
    OBVIOUS
  <2> QED BY Zenon, <1>1, <1>3, <2>1 DEF Range
<1>5. e \in Range(t)
  BY <1>1, <1>3 DEF Range
<1>6. ASSUME NEW j \in 1..Len(s) + 1 PROVE t[j] \in Range(s) \cup {e}
  <2>1. j < i => j \in 1..Len(s)
    OBVIOUS
  <2>2. j > i => j - 1 \in 1..Len(s)
    OBVIOUS
  <2>3. j < i \/ j = i \/ j > i
    OBVIOUS
  <2>4. (j > i => ~ (j < i) /\ j # i) /\ (j = i => ~ (j < i))
    OBVIOUS
  <2>5. (j < i => t[j] = s[j]) /\ (j = i => t[j] = e) /\ (j > i => t[j] = s[j - 1])
    BY Zenon, <1>2, <2>4
  <2>6. \A k \in 1..Len(s) : s[k] \in Range(s)
    BY Zenon, <1>3 DEF Range
  <2> QED BY Zenon, <2>1, <2>2, <2>3, <2>5, <2>6
<1>7. Range(t) = Range(s) \cup {e}
  BY <1>3, <1>4, <1>5, <1>6 DEF Range
<1> QED BY <1>1, <1>7 DEF t

(* The elements of s ascend in the order R.                                  *)
Sorted(s, R) == \A i, j \in 1..Len(s) : i < j => <<s[i], s[j]>> \in R

(* A greatest element keeps a sequence sorted.                               *)
LEMMA AppendSorted ==
  ASSUME NEW T, NEW R, NEW s \in Seq(T), NEW e \in T, Sorted(s, R),
         \A x \in Range(s) : <<x, e>> \in R
  PROVE  Sorted(Append(s, e), R)
<1> DEFINE t == Append(s, e)
<1>1. /\ Len(t) = Len(s) + 1 /\ t[Len(s) + 1] = e /\ \A i \in 1..Len(s) : t[i] = s[i]
      /\ DOMAIN s = 1..Len(s) /\ Len(s) \in Nat
  OBVIOUS
<1> HIDE DEF t
<1> SUFFICES ASSUME NEW i \in 1..Len(t), NEW j \in 1..Len(t), i < j
             PROVE  <<t[i], t[j]>> \in R
  BY Zenon DEF Sorted, t
<1>2. i \in 1..Len(s) /\ (j \in 1..Len(s) \/ j = Len(s) + 1)
  BY <1>1
<1>3. s[i] \in Range(s)
  BY Zenon, <1>1, <1>2 DEF Range
<1> QED BY Zenon, <1>1, <1>2, <1>3 DEF Sorted

(* What is left of a sorted sequence is sorted.                              *)
LEMMA WithoutSorted ==
  ASSUME NEW T, NEW R, NEW s \in Seq(T), NEW D, Sorted(s, R)
  PROVE  Sorted(Without(s, D), R)
<1> DEFINE N == Len(s)
           k == Kept(s, D)
           Bad == {i \in 0..N : ~ Sorted(k[i], R)}
<1>0. N \in Nat /\ N \in 0..N
  OBVIOUS
<1>1. \A i \in 0..N : k[i] = Keep(s, D, k, i)
  BY KeptEquation
<1>2. ASSUME NEW i \in 0..Len(s)
      PROVE  k[i] \in Seq(T) /\ Range(k[i]) = KeptOf(s, D, i)
  BY Zenon, KeptSet
<1> HIDE DEF k
<1>3. Bad = {}
  <2> SUFFICES ASSUME Bad # {} PROVE FALSE
    BY Zenon
  <2>1. PICK m \in Bad : \A j \in Bad : m <= j
    <3>1. Bad \in SUBSET Nat
      BY <1>0
    <3> HIDE DEF Bad
    <3> QED BY LeastNat, <3>1
  <2>2. m \in 0..N /\ ~ Sorted(k[m], R)
    BY <2>1
  <2>3. CASE m = 0
    <3>1. k[m] = <<>>
      BY <1>1, <2>2, <2>3 DEF Keep
    <3>2. Sorted(<<>>, R)
      BY DEF Sorted
    <3> QED BY Zenon, <2>2, <3>1, <3>2
  <2>4. CASE m # 0
    <3>1. m - 1 \in 0..N /\ ~ (m <= m - 1) /\ m \in 1..N
      BY <1>0, <2>2, <2>4
    <3>2. Sorted(k[m - 1], R)
      BY Zenon, <2>1, <3>1
    <3>3. CASE s[m] \in D
      <4>1. k[m] = k[m - 1]
        BY Zenon, <1>1, <2>2, <2>4, <3>3 DEF Keep
      <4> QED BY Zenon, <2>2, <3>2, <4>1
    <3>4. CASE s[m] \notin D
      <4>1. k[m] = Append(k[m - 1], s[m])
        BY Zenon, <1>1, <2>2, <2>4, <3>4 DEF Keep
      <4>2. \A x \in Range(k[m - 1]) : <<x, s[m]>> \in R
        <5>1. \A j \in 1..(m - 1) : j \in 1..N /\ j < m
          BY <1>0, <3>1
        <5>2. \A j \in 1..(m - 1) : <<s[j], s[m]>> \in R
          BY Zenon, <3>1, <5>1 DEF Sorted
        <5>3. Range(k[m - 1]) \subseteq {s[j] : j \in 1..(m - 1)}
          BY Zenon, <1>2, <3>1 DEF KeptOf
        <5> QED BY Zenon, <5>2, <5>3
      <4>3. s[m] \in T /\ k[m - 1] \in Seq(T)
        BY <1>2, <3>1
      <4> QED BY Zenon, <2>2, <3>2, <4>1, <4>2, <4>3, AppendSorted
    <3> QED BY Zenon, <3>3, <3>4
  <2> QED BY Zenon, <2>3, <2>4
<1>4. Sorted(k[N], R)
  BY Zenon, <1>0, <1>3
<1> QED BY Zenon, <1>4, WithoutIs DEF k

(* An insertion between neighbours that compare right keeps it sorted, if    *)
(* the order is transitive.                                                  *)
LEMMA InsertSorted ==
  ASSUME NEW T, NEW R, NEW s \in Seq(T), NEW i \in 1..Len(s) + 1, NEW e \in T, Sorted(s, R),
         \A x, y, z \in T : <<x, y>> \in R /\ <<y, z>> \in R => <<x, z>> \in R,
         i = 1 \/ <<s[i - 1], e>> \in R, i = Len(s) + 1 \/ <<e, s[i]>> \in R
  PROVE  Sorted(Insert(s, i, e), R)
<1> DEFINE t == Insert(s, i, e)
<1>1. Len(t) = Len(s) + 1 /\ Len(s) \in Nat
  BY InsertElements
<1>2. \A j \in 1..Len(s) + 1 : t[j] = IF j < i THEN s[j] ELSE IF j = i THEN e ELSE s[j - 1]
  BY InsertPlaces
<1> HIDE DEF t
<1>3. \A j \in 1..Len(s) : s[j] \in T
  OBVIOUS
<1>4. ASSUME NEW j \in 1..Len(s), j < i PROVE <<s[j], e>> \in R
  <2>1. i # 1 /\ i - 1 \in 1..Len(s) /\ (j = i - 1 \/ j < i - 1)
    BY <1>4
  <2>2. j < i - 1 => <<s[j], s[i - 1]>> \in R
    BY Zenon, <2>1 DEF Sorted
  <2> QED BY Zenon, <1>3, <2>1, <2>2
<1>5. ASSUME NEW j \in 1..Len(s), i <= j PROVE <<e, s[j]>> \in R
  <2>1. i # Len(s) + 1 /\ i \in 1..Len(s) /\ (j = i \/ i < j)
    BY <1>5
  <2>2. i < j => <<s[i], s[j]>> \in R
    BY Zenon, <2>1 DEF Sorted
  <2> QED BY Zenon, <1>3, <2>1, <2>2
<1> SUFFICES ASSUME NEW a \in 1..Len(s) + 1, NEW b \in 1..Len(s) + 1, a < b
             PROVE  <<t[a], t[b]>> \in R
  BY Zenon, <1>1 DEF Sorted, t
<1>6. CASE b < i
  <2>1. a \in 1..Len(s) /\ b \in 1..Len(s) /\ a < i
    BY <1>6
  <2>2. t[a] = s[a] /\ t[b] = s[b]
    BY Zenon, <1>2, <1>6, <2>1
  <2> QED BY Zenon, <2>1, <2>2 DEF Sorted
<1>7. CASE b = i
  <2>1. a \in 1..Len(s) /\ a < i /\ ~ (b < i)
    BY <1>7
  <2>2. t[a] = s[a] /\ t[b] = e
    BY Zenon, <1>2, <1>7, <2>1
  <2> QED BY Zenon, <1>4, <2>1, <2>2
<1>8. CASE b > i
  <2>1. b - 1 \in 1..Len(s) /\ i <= b - 1 /\ ~ (b < i) /\ b # i
    BY <1>8
  <2>2. t[b] = s[b - 1]
    BY Zenon, <1>2, <2>1
  <2>3. CASE a < i
    <3>1. a \in 1..Len(s) /\ a < b - 1
      BY <1>8, <2>3
    <3>2. t[a] = s[a]
      BY Zenon, <1>2, <2>3, <3>1
    <3> QED BY Zenon, <2>1, <2>2, <3>1, <3>2 DEF Sorted
  <2>4. CASE a = i
    <3>1. ~ (a < i)
      BY <2>4
    <3>2. t[a] = e
      BY Zenon, <1>2, <2>4, <3>1
    <3> QED BY Zenon, <1>5, <2>1, <2>2, <3>2
  <2>5. CASE a > i
    <3>1. a - 1 \in 1..Len(s) /\ a - 1 < b - 1 /\ ~ (a < i) /\ a # i
      BY <2>5
    <3>2. t[a] = s[a - 1]
      BY Zenon, <1>2, <3>1
    <3> QED BY Zenon, <2>1, <2>2, <3>1, <3>2 DEF Sorted
  <2> QED BY <2>3, <2>4, <2>5
<1> QED BY <1>6, <1>7, <1>8

(* A sequence that is sorted by an irreflexive order repeats nothing.        *)
LEMMA SortedLength ==
  ASSUME NEW T, NEW R, NEW s \in Seq(T), Sorted(s, R), \A x \in T : <<x, x>> \notin R
  PROVE  Cardinality(Range(s)) = Len(s)
<1>1. Len(s) \in Nat /\ DOMAIN s = 1..Len(s) /\ \A i \in 1..Len(s) : s[i] \in T
  OBVIOUS
<1>2. s \in [1..Len(s) -> Range(s)]
  BY <1>1 DEF Range
<1>3. ASSUME NEW i \in 1..Len(s), NEW j \in 1..Len(s), s[i] = s[j] PROVE i = j
  <2>1. i < j \/ j < i \/ i = j
    OBVIOUS
  <2> QED BY Zenon, <1>1, <1>3, <2>1 DEF Sorted
<1>4. s \in Bijection(1..Len(s), Range(s))
  <2>1. s \in Injection(1..Len(s), Range(s))
    BY <1>1, <1>2, <1>3 DEF Injection, IsInjective
  <2>2. s \in Surjection(1..Len(s), Range(s))
    BY <1>1, <1>2 DEF Surjection, Range
  <2> QED BY <2>1, <2>2 DEF Bijection
<1>5. ExistsBijection(1..Len(s), Range(s))
  BY Zenon, <1>4 DEF ExistsBijection
<1>6. IsFiniteSet(1..Len(s)) /\ Cardinality(1..Len(s)) = Len(s)
  BY <1>1, FS_Interval
<1> QED BY Zenon, <1>5, <1>6, FS_Bijection

(* The positions of a sequence.                                              *)
LEMMA SeqDomain == ASSUME NEW T, NEW s \in Seq(T) PROVE DOMAIN s = 1..Len(s)
OBVIOUS

(* A sequence over a set is one over a larger set.                           *)
LEMMA SeqLarger == ASSUME NEW T, NEW U, T \subseteq U, NEW s \in Seq(T) PROVE s \in Seq(U)
OBVIOUS

-----------------------------------------------------------------------------
(* The inductive invariant *)

Activating == {"pop", "candidate", "disconnect", "connect", "done"}

NetworkOK ==
  /\ hashPrev \in [Others -> Blocks] /\ IsTree(hashPrev)
  /\ verdict \in [Others -> AllVerdicts]
  /\ blockWork \in [Others -> Nat \ {0}]

(* The index is a tree, whose blocks passed the first checks and have more   *)
(* work and height than their parents.                                       *)
IndexOK ==
  /\ Closed(hashPrev, mapBlockIndex)
  /\ \A b \in mapBlockIndex \ {Genesis} :
       /\ verdict[b] \notin {"check", "accept"}
       /\ nHeight[b] = nHeight[hashPrev[b]] + 1
       /\ nChainWork[b] = nChainWork[hashPrev[b]] + blockWork[b]

(* What the handler's steps rely on at each point.                           *)
HandlerOK ==
  /\ orphans \cap mapBlockIndex \subseteq {cur}
  /\ \A o \in orphans : verdict[o] # "check"
  /\ cur # NoBlock => verdict[cur] # "check"
  /\ pc \in {"idle", "children"} => cur = NoBlock
  /\ pc = "idle" => vWorkQueue = <<>>
  /\ pc = "children" => vWorkQueue # <<>>
  /\ pc = "accept" => cur # NoBlock /\ cur \notin mapBlockIndex
  /\ pc \in Activating => cur \in mapBlockIndex
  /\ pc \in {"disconnect", "connect"} => mostWork # NoBlock
  /\ pc = "connect" => tip \in Paths(hashPrev)[mostWork]

Base == NetworkOK /\ TypeOK /\ IndexOK /\ HandlerOK

(* In the initial state only Genesis is known.                               *)
LEMMA BaseInit == Init => Base
<1> SUFFICES ASSUME Init PROVE Base
  OBVIOUS
<1> USE ChainAssumption
<1>1. NetworkOK
  BY DEF Init, NetworkOK
<1>2. TypeOK
  BY DEF Init, TypeOK, Others
<1>3. IndexOK
  BY DEF Init, IndexOK, Closed
<1>4. HandlerOK
  BY DEF Init, HandlerOK, Activating
<1> QED BY <1>1, <1>2, <1>3, <1>4 DEF Base

(* What Path is for the blocks of the index.                                 *)
LEMMA IndexPaths ==
  ASSUME Base
  PROVE  \A b \in mapBlockIndex : /\ Path(b) = Paths(hashPrev)[b] /\ Path(b) \subseteq mapBlockIndex
                                 /\ b \in Path(b) /\ Genesis \in Path(b)
<1>1. /\ hashPrev \in [Others -> Blocks] /\ IsTree(hashPrev) /\ nHeight \in [Blocks -> Nat]
      /\ Closed(hashPrev, mapBlockIndex) /\ mapBlockIndex \subseteq Blocks
  BY Zenon DEF Base, NetworkOK, TypeOK, IndexOK
<1>2. \A b \in mapBlockIndex : Path(b) = Paths(hashPrev)[b]
  BY <1>1, PathIs
<1>3. \A b \in mapBlockIndex : b \in Path(b) /\ Genesis \in Path(b)
  BY <1>1, <1>2, PathContains
<1>4. \A x \in mapBlockIndex \ {Genesis} : nHeight[hashPrev[x]] < nHeight[x]
  <2> SUFFICES ASSUME NEW x \in mapBlockIndex \ {Genesis}
               PROVE  nHeight[hashPrev[x]] < nHeight[x]
    OBVIOUS
  <2>1. hashPrev[x] \in Blocks
    BY <1>1 DEF Others
  <2>2. nHeight[hashPrev[x]] \in Nat
    BY <1>1, <2>1
  <2>3. nHeight[x] = nHeight[hashPrev[x]] + 1
    BY DEF Base, IndexOK
  <2> QED BY <2>2, <2>3
<1>5. \A b \in mapBlockIndex : \A x \in Paths(hashPrev)[b] : x \in mapBlockIndex
  BY <1>1, <1>4, PathGrows
<1> QED BY <1>2, <1>3, <1>5

(* Height and work grow along the paths of the index.                        *)
LEMMA IndexGrows ==
  ASSUME Base
  PROVE  \A b \in mapBlockIndex : \A x \in Path(b) :
           /\ nHeight[x] <= nHeight[b] /\ nChainWork[x] <= nChainWork[b]
           /\ nHeight[x] = nHeight[b] => x = b
<1>1. /\ hashPrev \in [Others -> Blocks] /\ IsTree(hashPrev) /\ blockWork \in [Others -> Nat \ {0}]
      /\ Closed(hashPrev, mapBlockIndex) /\ mapBlockIndex \subseteq Blocks
      /\ nHeight \in [Blocks -> Nat] /\ nChainWork \in [Blocks -> Nat]
  BY Zenon DEF Base, NetworkOK, TypeOK, IndexOK
<1>2. \A b \in mapBlockIndex : Path(b) = Paths(hashPrev)[b]
  BY IndexPaths
<1>3. ASSUME NEW x \in mapBlockIndex \ {Genesis}
      PROVE  /\ nHeight[hashPrev[x]] < nHeight[x]
             /\ nChainWork[hashPrev[x]] < nChainWork[x]
  <2>1. x \in Others /\ hashPrev[x] \in Blocks /\ blockWork[x] \in Nat \ {0}
    BY <1>1 DEF Others
  <2>2. nHeight[hashPrev[x]] \in Nat /\ nChainWork[hashPrev[x]] \in Nat
    BY <1>1, <2>1
  <2>3. /\ nHeight[x] = nHeight[hashPrev[x]] + 1
        /\ nChainWork[x] = nChainWork[hashPrev[x]] + blockWork[x]
    BY DEF Base, IndexOK
  <2> QED BY <2>1, <2>2, <2>3
<1>4. \A b \in mapBlockIndex : \A x \in Paths(hashPrev)[b] :
        nHeight[x] <= nHeight[b] /\ (nHeight[x] = nHeight[b] => x = b)
  BY <1>1, <1>3, PathGrows
<1>5. \A b \in mapBlockIndex : \A x \in Paths(hashPrev)[b] : nChainWork[x] <= nChainWork[b]
  BY <1>1, <1>3, PathGrows
<1> QED BY <1>2, <1>4, <1>5

(* The next block to connect is the child of the tip towards the best chain. *)
LEMMA PindexConnect ==
  ASSUME Base, Connecting
  PROVE  /\ pindexConnect \in mapBlockIndex \ {Genesis} /\ hashPrev[pindexConnect] = tip
         /\ pindexConnect \in Path(mostWork)
         /\ mostWork \in mapBlockIndex
<1>1. /\ hashPrev \in [Others -> Blocks] /\ IsTree(hashPrev)
      /\ tip \in mapBlockIndex /\ mostWork \in mapBlockIndex /\ mapBlockIndex \subseteq Blocks
      /\ tip \in Paths(hashPrev)[mostWork] /\ mostWork \notin Path(tip)
      /\ nHeight \in [Blocks -> Nat]
  BY SMTT(30) DEF Base, NetworkOK, TypeOK, HandlerOK, Connecting
<1>2. /\ Path(mostWork) = Paths(hashPrev)[mostWork] /\ tip # mostWork
      /\ Path(mostWork) \subseteq mapBlockIndex
  <2>1. /\ Path(mostWork) = Paths(hashPrev)[mostWork] /\ mostWork \in Path(mostWork)
        /\ Path(mostWork) \subseteq mapBlockIndex
    BY <1>1, IndexPaths
  <2> QED BY <1>1, <2>1
<1>3. PICK z \in Path(mostWork) \cap Others : hashPrev[z] = tip
  BY <1>1, <1>2, PathChild
<1>4. nHeight[z] = nHeight[tip] + 1 /\ z \in mapBlockIndex
  BY <1>2, <1>3 DEF Base, IndexOK, Others
<1>5. pindexConnect \in Path(mostWork) /\ nHeight[pindexConnect] = nHeight[tip] + 1
  BY <1>3, <1>4 DEF pindexConnect
<1>6. pindexConnect = z
  <2>1. pindexConnect \in mapBlockIndex
    BY <1>2, <1>5
  <2>2. pindexConnect \in Paths(hashPrev)[z] \/ z \in Paths(hashPrev)[pindexConnect]
    BY <1>1, <1>2, <1>3, <1>5, PathLinear
  <2>3. pindexConnect \in Path(z) \/ z \in Path(pindexConnect)
    BY <2>1, <2>2, <1>4, IndexPaths
  <2>4. nHeight[pindexConnect] = nHeight[z]
    BY <1>4, <1>5
  <2>5. \A x \in Path(z) : nHeight[x] = nHeight[z] => x = z
    BY <1>4, IndexGrows
  <2>6. \A x \in Path(pindexConnect) : nHeight[x] = nHeight[pindexConnect] => x = pindexConnect
    BY <2>1, IndexGrows
  <2> QED BY <2>3, <2>4, <2>5, <2>6
<1> QED BY <1>1, <1>2, <1>3, <1>4, <1>6 DEF Others

(* A step that leaves network and index alone.                               *)
LEMMA IndexKept == Base /\ UNCHANGED <<network, index>> => NetworkOK' /\ IndexOK'
BY DEF Base, NetworkOK, IndexOK, network, index, fields

(* The fields of the index and the block tree have their types.              *)
LEMMA FieldsKept ==
  ASSUME Base, UNCHANGED <<network, index>>
  PROVE  /\ mapBlockIndex' = mapBlockIndex /\ hashPrev' = hashPrev /\ verdict' = verdict
         /\ mapBlockIndex \subseteq Blocks
         /\ nChainWork' \in [Blocks -> Nat] /\ nHeight' \in [Blocks -> Nat]
         /\ nSequenceId' \in [Blocks -> Nat]
         /\ nMatureCoinsSpent' \in [Blocks -> 0..MaxMature] /\ timely' \in [Blocks -> BOOLEAN]
BY DEF Base, TypeOK, network, index, fields

(* AcceptBlock's return leaves the caller's state in order.                  *)
LEMMA ReturnKeeps ==
  ASSUME Base, NEW success \in BOOLEAN, AcceptReturns(success),
         success => cur \in mapBlockIndex
  PROVE  /\ orphans' \subseteq Others /\ orphans' \cap mapBlockIndex = {}
         /\ \A o \in orphans' : verdict[o] # "check"
         /\ cur' = NoBlock
         /\ vWorkQueue' \in Seq(mapBlockIndex)
         /\ pc' \in {"idle", "children"}
         /\ pc' = "idle" => vWorkQueue' = <<>>
         /\ pc' = "children" => vWorkQueue' # <<>>
<1>1. vWorkQueue' \in Seq(mapBlockIndex)
  BY AppendSet DEF AcceptReturns, Base, TypeOK
<1>2. orphans' = orphans \ {cur} /\ cur' = NoBlock
      /\ pc' = IF vWorkQueue' = <<>> THEN "idle" ELSE "children"
  BY DEF AcceptReturns
<1> QED BY Zenon, <1>1, <1>2 DEF Base, TypeOK, HandlerOK

(* The steps of ProcessBlock.                                                *)
LEMMA ProcessKeepsBase ==
  ASSUME Base,
         \/ \E b \in Others : ReceiveOrphan(b) \/ Receive(b)
         \/ NextChild \/ NoMoreChildren
  PROVE  Base'
<1>1. UNCHANGED <<network, index, marks, chains, failures>>
  BY DEF ReceiveOrphan, Receive, NextChild, NoMoreChildren
<1>2. NetworkOK' /\ IndexOK'
  BY <1>1, IndexKept
<1> USE DEF Base, marks, chains
<1>3. CASE \E b \in Others : ReceiveOrphan(b)
  <2>1. PICK b \in Others : ReceiveOrphan(b)
    BY <1>3
  <2>2. orphans' \subseteq orphans \cup {b} /\ b \notin mapBlockIndex /\ verdict[b] # "check"
    BY <2>1 DEF ReceiveOrphan, PrunedOrphans, RejectedOnArrival, Known
  <2>3. pc = "idle" /\ UNCHANGED <<vWorkQueue, cur, pc>>
    BY <2>1 DEF ReceiveOrphan
  <2>4. TypeOK'
    BY Zenon, <1>1, <2>2, <2>3, FieldsKept DEF TypeOK
  <2>5. HandlerOK'
    BY Zenon, <1>1, <2>2, <2>3, FieldsKept DEF HandlerOK, Activating
  <2> QED BY <1>2, <2>4, <2>5
<1>4. CASE \E b \in Others : Receive(b)
  <2>1. PICK b \in Others : Receive(b)
    BY SMTT(30), <1>4
  <2>2. b \notin mapBlockIndex /\ verdict[b] # "check" /\ b # NoBlock
    BY Zenon, <2>1, ChainAssumption DEF Receive, RejectedOnArrival, Known, Others
  <2>3. pc = "idle" /\ cur' = b /\ pc' = "accept" /\ UNCHANGED <<orphans, vWorkQueue>>
    BY <2>1 DEF Receive
  <2>4. TypeOK'
    BY Zenon, <1>1, <2>3, FieldsKept DEF TypeOK
  <2>5. HandlerOK'
    <3>1. orphans \cap mapBlockIndex = {}
      <4>1. orphans \cap mapBlockIndex \subseteq {NoBlock} /\ NoBlock \notin mapBlockIndex
        BY <2>3, ChainAssumption DEF HandlerOK, TypeOK
      <4> QED BY <4>1
    <3> QED BY <1>1, <2>2, <2>3, <3>1, FieldsKept DEF HandlerOK, Activating
  <2> QED BY <1>2, <2>4, <2>5
<1>5. CASE NextChild
  <2>1. cur' \in orphans /\ pc = "children" /\ pc' = "accept" /\ UNCHANGED <<orphans, vWorkQueue>>
    BY <1>5 DEF NextChild, Children
  <2>2. orphans \cap mapBlockIndex = {} /\ orphans \subseteq Others /\ NoBlock \notin Others
    <3>1. orphans \cap mapBlockIndex \subseteq {NoBlock} /\ NoBlock \notin mapBlockIndex
      BY <2>1, ChainAssumption DEF HandlerOK, TypeOK
    <3>2. orphans \subseteq Others
      BY DEF TypeOK
    <3>3. NoBlock \notin Others
      BY ChainAssumption DEF Others
    <3> QED BY SMTT(30), <3>1, <3>2, <3>3
  <2>3. TypeOK'
    BY Zenon, <1>1, <2>1, <2>2, FieldsKept DEF TypeOK
  <2>4. HandlerOK'
    BY <1>1, <2>1, <2>2, FieldsKept DEF HandlerOK, Activating
  <2> QED BY <1>2, <2>3, <2>4
<1>6. CASE NoMoreChildren
  <2>1. /\ pc = "children" /\ vWorkQueue' = Tail(vWorkQueue) /\ UNCHANGED <<orphans, cur>>
        /\ pc' = IF vWorkQueue' = <<>> THEN "idle" ELSE "children"
    BY <1>6 DEF NoMoreChildren
  <2>2. vWorkQueue' \in Seq(mapBlockIndex)
    BY <2>1 DEF TypeOK, HandlerOK
  <2>3. pc' \in {"idle", "children"} /\ (pc' = "idle" => vWorkQueue' = <<>>)
        /\ (pc' = "children" => vWorkQueue' # <<>>)
    BY <2>1
  <2>4. TypeOK'
    BY Zenon, <1>1, <2>1, <2>2, <2>3, FieldsKept DEF TypeOK
  <2>5. HandlerOK'
    BY <1>1, <2>1, <2>3, FieldsKept DEF HandlerOK, Activating
  <2> QED BY <1>2, <2>4, <2>5
<1> QED BY <1>3, <1>4, <1>5, <1>6

(* A handler that ends without touching the index.                           *)
LEMMA EndKeepsBase ==
  ASSUME Base, UNCHANGED <<network, index, marks>>, failures' \in 0..MaxFailures,
         tip' = tip, mostWork' = mostWork, viewBest' \in mapBlockIndex,
         NEW success \in BOOLEAN, AcceptReturns(success), success => cur \in mapBlockIndex
  PROVE  Base'
<1>1. NetworkOK' /\ IndexOK'
  BY IndexKept
<1>2. TypeOK'
  BY Zenon, ReturnKeeps, FieldsKept DEF Base, TypeOK, marks
<1>3. HandlerOK'
  BY ReturnKeeps, FieldsKept DEF HandlerOK, Activating
<1> QED BY <1>1, <1>2, <1>3 DEF Base

(* A failure is counted.                                                     *)
LEMMA FailsCounted == Base /\ Fails => failures' \in 0..MaxFailures
BY ChainAssumption DEF Fails, Base, TypeOK

(* The part of AddToBlockIndex that makes the new entry.                     *)
NewEntry == \E b \in {cur} : NewIndexEntry(b)

(* A new entry in the index.                                                 *)
LEMMA NewEntryKeepsIndex ==
  ASSUME Base, pc = "accept", ~AcceptRejects(cur), NewEntry
  PROVE  /\ NetworkOK' /\ IndexOK'
         /\ cur \in Others /\ mapBlockIndex' = mapBlockIndex \cup {cur}
         /\ mapBlockIndex' \subseteq Blocks
         /\ hashPrev' = hashPrev /\ verdict' = verdict
         /\ \A b \in mapBlockIndex : nHeight'[b] = nHeight[b] /\ nChainWork'[b] = nChainWork[b]
         /\ nChainWork' \in [Blocks -> Nat] /\ nHeight' \in [Blocks -> Nat]
         /\ nSequenceId' \in [Blocks -> Nat]
         /\ nMatureCoinsSpent' \in [Blocks -> 0..MaxMature] /\ timely' \in [Blocks -> BOOLEAN]
<1> USE DEF Base
<1>1. cur \in Others /\ cur \in Blocks /\ cur \notin mapBlockIndex /\ cur # Genesis
  BY DEF TypeOK, HandlerOK, Others
<1>2. hashPrev[cur] \in mapBlockIndex /\ verdict[cur] \notin {"check", "accept"}
  BY <1>1, ChainAssumption DEF AcceptRejects, HandlerOK, Others
<1>3. /\ mapBlockIndex \subseteq Blocks /\ hashPrev \in [Others -> Blocks]
      /\ blockWork \in [Others -> Nat \ {0}]
      /\ nChainWork \in [Blocks -> Nat] /\ nHeight \in [Blocks -> Nat]
      /\ nSequenceId \in [Blocks -> Nat]
      /\ nMatureCoinsSpent \in [Blocks -> 0..MaxMature] /\ timely \in [Blocks -> BOOLEAN]
  BY Zenon DEF TypeOK, NetworkOK
<1>4. /\ UNCHANGED network /\ mapBlockIndex' = mapBlockIndex \cup {cur}
      /\ nSequenceId' = [nSequenceId EXCEPT ![cur] = Cardinality(mapBlockIndex) + 1]
      /\ nHeight' = [nHeight EXCEPT ![cur] = nHeight[hashPrev[cur]] + 1]
      /\ nChainWork' = [nChainWork EXCEPT ![cur] = nChainWork[hashPrev[cur]] + blockWork[cur]]
  BY DEF NewEntry, NewIndexEntry
<1>5. hashPrev' = hashPrev /\ verdict' = verdict /\ blockWork' = blockWork
  BY <1>4 DEF network
<1>6. NetworkOK'
  BY <1>5 DEF NetworkOK
<1>7. nMatureCoinsSpent' \in [Blocks -> 0..MaxMature]
  BY <1>1, <1>3 DEF NewEntry, NewIndexEntry
<1>8. timely' \in [Blocks -> BOOLEAN]
  <2>1. PICK t \in Timeliness(nHeight[hashPrev[cur]] + 1) : timely' = [timely EXCEPT ![cur] = t]
    BY Zenon DEF NewEntry, NewIndexEntry
  <2>2. t \in BOOLEAN
    BY Zenon, <2>1 DEF Timeliness
  <2> QED BY SMTT(30), <1>1, <1>3, <2>1, <2>2
<1>9. Cardinality(mapBlockIndex) \in Nat
  BY <1>3, ChainAssumption, FS_Subset, FS_CardinalityType
<1>10. nSequenceId' \in [Blocks -> Nat]
  BY <1>1, <1>3, <1>4, <1>9
<1>11. nHeight' \in [Blocks -> Nat] /\ nHeight'[cur] = nHeight[hashPrev[cur]] + 1
       /\ \A b \in mapBlockIndex : nHeight'[b] = nHeight[b]
  BY SMTT(30), <1>1, <1>2, <1>3, <1>4
<1>12. /\ nChainWork' \in [Blocks -> Nat]
       /\ nChainWork'[cur] = nChainWork[hashPrev[cur]] + blockWork[cur]
       /\ \A b \in mapBlockIndex : nChainWork'[b] = nChainWork[b]
  <2>1. nChainWork[hashPrev[cur]] + blockWork[cur] \in Nat
    BY SMTT(30), <1>1, <1>2, <1>3
  <2> QED BY <1>1, <1>2, <1>3, <1>4, <2>1
<1>13. IndexOK'
  <2>1. Closed(hashPrev', mapBlockIndex')
    BY SMTT(30), <1>1, <1>2, <1>4, <1>5 DEF IndexOK, Closed
  <2>2. ASSUME NEW b \in mapBlockIndex' \ {Genesis}
        PROVE  /\ verdict'[b] \notin {"check", "accept"}
               /\ nHeight'[b] = nHeight'[hashPrev'[b]] + 1
               /\ nChainWork'[b] = nChainWork'[hashPrev'[b]] + blockWork'[b]
    <3>1. CASE b = cur
      BY <3>1, <1>2, <1>5, <1>11, <1>12
    <3>2. CASE b \in mapBlockIndex
      <4>1. hashPrev[b] \in mapBlockIndex
        BY <2>2, <3>2 DEF IndexOK, Closed
      <4> QED BY <2>2, <3>2, <4>1, <1>5, <1>11, <1>12 DEF IndexOK
    <3> QED BY <2>2, <3>1, <3>2, <1>4
  <2> QED BY <2>1, <2>2 DEF IndexOK
<1> QED BY SMTT(30), <1>1, <1>3, <1>4, <1>5, <1>6, <1>7, <1>8, <1>10, <1>11, <1>12, <1>13

(* The new entry is a candidate, and no candidate is lost.                   *)
LEMMA NewEntryIsCandidate ==
  ASSUME Base, pc = "accept", ~AcceptRejects(cur), NewEntry
  PROVE  /\ setBlockIndexValid' \in Seq(mapBlockIndex')
         /\ \A b \in Range(setBlockIndexValid) \cup {cur} : b \in Range(setBlockIndexValid')
<1>1. mapBlockIndex \subseteq mapBlockIndex' /\ cur \in mapBlockIndex'
  BY NewEntryKeepsIndex
<1>2. setBlockIndexValid \in Seq(mapBlockIndex')
  <2>1. setBlockIndexValid \in Seq(mapBlockIndex)
    BY SMTT(30) DEF Base, TypeOK
  <2> QED BY SMTT(30), <1>1, <2>1, SeqLarger
<1>3. PICK i \in 1..Len(setBlockIndexValid) + 1 :
        setBlockIndexValid' = Insert(setBlockIndexValid, i, cur)
  BY DEF NewEntry, NewIndexEntry, Places
<1> QED BY SMTT(30), <1>1, <1>2, <1>3, InsertSet

(* AddToBlockIndex, up to the call of ActivateBestChain.                     *)
LEMMA AddKeepsBase == ASSUME Base, AddToBlockIndex PROVE Base'
<1>1. pc = "accept" /\ ~AcceptRejects(cur) /\ NewEntry
      /\ UNCHANGED <<failed, bestInvalid, tip, mostWork, viewBest>>
  BY DEF AddToBlockIndex, NewEntry, chains
<1> DEFINE M == mapBlockIndex'
<1>2. /\ NetworkOK' /\ IndexOK' /\ cur \in Others /\ M = mapBlockIndex \cup {cur}
      /\ mapBlockIndex' \subseteq Blocks
      /\ hashPrev' = hashPrev /\ verdict' = verdict
      /\ nChainWork' \in [Blocks -> Nat] /\ nHeight' \in [Blocks -> Nat]
      /\ nSequenceId' \in [Blocks -> Nat]
      /\ nMatureCoinsSpent' \in [Blocks -> 0..MaxMature] /\ timely' \in [Blocks -> BOOLEAN]
  BY <1>1, NewEntryKeepsIndex
<1>3. setBlockIndexValid' \in Seq(mapBlockIndex')
  BY <1>1, NewEntryIsCandidate
<1>4. /\ failed' \subseteq M /\ tip' \in M /\ viewBest' \in M
      /\ mostWork' \in M \cup {NoBlock} /\ bestInvalid' \in M \cup {NoBlock}
  BY Zenon, <1>1, <1>2 DEF Base, TypeOK
<1>5. CASE pc' = "pop" /\ UNCHANGED <<caller, failures>>
  <2>1. vWorkQueue' \in Seq(M)
    <3>1. vWorkQueue \in Seq(mapBlockIndex) /\ mapBlockIndex \subseteq M
      BY <1>2 DEF Base, TypeOK
    <3> QED BY <1>5, <3>1, SeqLarger DEF caller
  <2>2. TypeOK'
    BY Zenon, <1>2, <1>3, <1>4, <1>5, <2>1 DEF Base, TypeOK, caller
  <2>3. HandlerOK'
    BY <1>1, <1>2, <1>5 DEF Base, HandlerOK, Activating, caller
  <2> QED BY <1>2, <2>2, <2>3 DEF Base
<1>6. CASE Fails /\ AcceptReturns(FALSE)
  <2>1. /\ orphans' \subseteq Others /\ orphans' = orphans \ {cur} /\ orphans' \cap M = {}
        /\ \A o \in orphans' : verdict[o] # "check"
        /\ cur' = NoBlock /\ vWorkQueue' \in Seq(mapBlockIndex)
        /\ pc' \in {"idle", "children"}
        /\ pc' = "idle" => vWorkQueue' = <<>>
        /\ pc' = "children" => vWorkQueue' # <<>>
    <3>1. orphans' = orphans \ {cur}
      BY <1>6 DEF AcceptReturns
    <3> QED BY Zenon, <1>2, <1>6, <3>1, ReturnKeeps
  <2>2. vWorkQueue' \in Seq(M)
    <3>1. mapBlockIndex \subseteq M
      BY <1>2
    <3> QED BY <2>1, <3>1, SeqLarger
  <2>3. TypeOK'
    BY Zenon, <1>2, <1>3, <1>4, <1>6, <2>1, <2>2, FailsCounted DEF TypeOK
  <2>4. HandlerOK'
    BY <1>2, <2>1 DEF HandlerOK, Activating
  <2> QED BY <1>2, <2>3, <2>4 DEF Base
<1> QED BY Zenon, <1>5, <1>6 DEF AddToBlockIndex

(* The candidate is a block of the index.                                    *)
LEMMA CandidateIndexed ==
  Base /\ setBlockIndexValid # <<>> => Candidate \in mapBlockIndex
<1> SUFFICES ASSUME Base, setBlockIndexValid # <<>> PROVE Candidate \in mapBlockIndex
  OBVIOUS
<1>1. setBlockIndexValid \in Seq(mapBlockIndex)
  BY DEF Base, TypeOK
<1> QED BY <1>1 DEF Candidate

(* The steps of FindMostWorkChain.                                           *)
LEMMA FindKeepsBase ==
  ASSUME Base, PopInvalid \/ PopDone \/ RejectCandidate \/ TakeCandidate
  PROVE  Base'
<1>1. UNCHANGED <<network, index, tip, viewBest, caller, failures>>
  BY DEF PopInvalid, PopDone, RejectCandidate, TakeCandidate, chains
<1>2. NetworkOK' /\ IndexOK'
  BY <1>1, IndexKept
<1>0. setBlockIndexValid \in Seq(mapBlockIndex) /\ mapBlockIndex \subseteq Blocks
  BY DEF Base, TypeOK
<1>3. CASE PopInvalid
  <2>1. setBlockIndexValid' \in Seq(mapBlockIndex)
    BY SMTT(30), <1>0, <1>3, ErasureSet DEF PopInvalid
  <2>2. mostWork' \in mapBlockIndex \cup {NoBlock}
    <3>1. /\ mostWork \in mapBlockIndex
          /\ \A b \in mapBlockIndex \ {Genesis} : hashPrev[b] \in mapBlockIndex
      BY Zenon, <1>3 DEF PopInvalid, Base, TypeOK, IndexOK, Closed
    <3> QED BY Zenon, <1>3, <3>1 DEF PopInvalid
  <2>3. pc = "pop" /\ UNCHANGED <<failed, bestInvalid, pc>>
    BY <1>3 DEF PopInvalid
  <2>4. TypeOK'
    BY Zenon, <1>1, <2>1, <2>2, <2>3, FieldsKept DEF Base, TypeOK, caller
  <2>5. HandlerOK'
    BY <1>1, <2>3, FieldsKept DEF Base, HandlerOK, Activating, caller
  <2> QED BY SMTT(30), <1>2, <2>4, <2>5 DEF Base
<1>4. CASE PopDone
  <2>1. pc = "pop" /\ pc' = "candidate" /\ UNCHANGED <<failed, bestInvalid, setBlockIndexValid, mostWork>>
    BY <1>4 DEF PopDone, marks, chains
  <2>2. TypeOK'
    BY Zenon, <1>1, <2>1, FieldsKept DEF Base, TypeOK, caller
  <2>3. HandlerOK'
    BY <1>1, <2>1, FieldsKept DEF Base, HandlerOK, Activating, caller
  <2> QED BY <1>2, <2>2, <2>3 DEF Base
<1>5. CASE RejectCandidate
  <2> DEFINE above == {x \in Path(Candidate) : \A y \in FailedAncestors : nHeight[x] > nHeight[y]}
  <2>1. /\ pc = "candidate" /\ UNCHANGED <<pc, mostWork>> /\ failed' = failed \cup above
        /\ setBlockIndexValid' \in Erasures(setBlockIndexValid, above)
        /\ bestInvalid' = WorstOf(bestInvalid, Candidate)
        /\ setBlockIndexValid # <<>>
    BY <1>5 DEF RejectCandidate, chains
  <2>2. Candidate \in mapBlockIndex /\ above \subseteq mapBlockIndex
    BY SMTT(30), <2>1, CandidateIndexed, IndexPaths
  <2> HIDE DEF above
  <2>3. setBlockIndexValid' \in Seq(mapBlockIndex)
    BY SMTT(30), <1>0, <2>1, ErasureSet
  <2>4. failed' \subseteq mapBlockIndex /\ bestInvalid' \in mapBlockIndex \cup {NoBlock}
    BY SMTT(30), <2>1, <2>2 DEF WorstOf, Base, TypeOK
  <2>5. TypeOK'
    BY Zenon, <1>1, <2>1, <2>3, <2>4, FieldsKept DEF Base, TypeOK, caller
  <2>6. HandlerOK'
    BY <1>1, <2>1, FieldsKept DEF Base, HandlerOK, Activating, caller
  <2> QED BY <1>2, <2>5, <2>6 DEF Base
<1>6. CASE TakeCandidate
  <2>1. /\ pc = "candidate" /\ UNCHANGED <<failed, bestInvalid, setBlockIndexValid>>
        /\ mostWork' \in {mostWork} \cup (IF setBlockIndexValid # <<>> THEN {Candidate} ELSE {})
        /\ pc' = IF mostWork' = NoBlock THEN "done" ELSE "disconnect"
    BY <1>6 DEF TakeCandidate, marks
  <2>2. mostWork' \in mapBlockIndex \cup {NoBlock}
    BY Zenon, <2>1, CandidateIndexed DEF Base, TypeOK
  <2>3. TypeOK'
    BY Zenon, <1>1, <2>1, <2>2, FieldsKept DEF Base, TypeOK, caller
  <2>4. HandlerOK'
    BY <1>1, <2>1, FieldsKept DEF Base, HandlerOK, Activating, caller
  <2> QED BY <1>2, <2>3, <2>4 DEF Base
<1> QED BY SMTT(30), <1>3, <1>4, <1>5, <1>6

(* DisconnectTip moves to a parent in the index.                             *)
LEMMA TipHasParent ==
  ASSUME Base, Disconnecting
  PROVE  tip \in mapBlockIndex \ {Genesis} /\ hashPrev[tip] \in mapBlockIndex
<1>1. mostWork \in mapBlockIndex /\ tip \in mapBlockIndex /\ tip \notin Path(mostWork)
  BY DEF Base, TypeOK, HandlerOK, Disconnecting
<1>2. tip # Genesis
  BY <1>1, IndexPaths
<1> QED BY <1>1, <1>2 DEF Base, IndexOK, Closed

(* The steps of ActivateBestChain.                                           *)
LEMMA ActivateKeepsBase ==
  ASSUME Base,
         \/ AcceptFails \/ DisconnectTip \/ DisconnectDone \/ ConnectTip \/ ConnectTipFails
         \/ ConnectTipAborts \/ ConnectTipInvalid \/ ConnectTipCorrupt \/ ActivateDone
  PROVE  Base'
<1>1. UNCHANGED <<network, index>>
  BY Zenon DEF AcceptFails, DisconnectTip, DisconnectDone, ConnectTip, ConnectTipFails,
         ConnectTipAborts, ConnectTipInvalid, ConnectTipCorrupt, ActivateDone
<1>2. NetworkOK' /\ IndexOK'
  BY <1>1, IndexKept
<1>0. /\ setBlockIndexValid \in Seq(mapBlockIndex) /\ mapBlockIndex \subseteq Blocks
      /\ tip \in mapBlockIndex /\ viewBest \in mapBlockIndex /\ failures \in 0..MaxFailures
  BY DEF Base, TypeOK
<1>3. CASE AcceptFails
  <2>1. /\ UNCHANGED <<network, index, marks, tip, mostWork, viewBest>> /\ AcceptReturns(FALSE)
        /\ failures' \in 0..MaxFailures
    BY Zenon, <1>0, <1>3, FailsCounted DEF AcceptFails, chains
  <2> QED BY Zenon, <1>0, <2>1, EndKeepsBase
<1>4. CASE DisconnectTip
  <2>1. CASE viewBest # tip
    <3>1. pc' = "aborted" /\ UNCHANGED <<marks, chains, caller, failures>>
      BY Zenon, <1>4, <2>1 DEF DisconnectTip
    <3>2. TypeOK'
      BY Zenon, <1>1, <3>1, FieldsKept DEF Base, TypeOK, marks, chains, caller
    <3>3. HandlerOK'
      BY <1>1, <3>1, FieldsKept DEF Base, HandlerOK, Activating, caller
    <3> QED BY SMTT(30), <1>2, <3>2, <3>3 DEF Base
  <2>2. CASE tip' = hashPrev[tip] /\ viewBest' = hashPrev[tip] /\ UNCHANGED <<mostWork, caller, pc, failures>>
    <3>1. pc = "disconnect" /\ hashPrev[tip] \in mapBlockIndex /\ UNCHANGED marks
      BY SMTT(30), <1>4, TipHasParent DEF DisconnectTip, Disconnecting
    <3>2. TypeOK'
      BY Zenon, <1>1, <2>2, <3>1, FieldsKept DEF Base, TypeOK, marks, caller
    <3>3. HandlerOK'
      BY <1>1, <2>2, <3>1, FieldsKept DEF Base, HandlerOK, Activating, caller
    <3> QED BY <1>2, <3>2, <3>3 DEF Base
  <2>3. CASE Fails /\ AcceptReturns(FALSE) /\ viewBest' \in {tip, hashPrev[tip]} /\ UNCHANGED <<tip, mostWork>>
    <3>1. hashPrev[tip] \in mapBlockIndex /\ UNCHANGED marks
      BY Zenon, <1>4, TipHasParent DEF DisconnectTip
    <3> QED BY Zenon, <1>0, <1>1, <2>3, <3>1, EndKeepsBase, FailsCounted
  <2> QED BY Zenon, <1>4, <2>1, <2>2, <2>3 DEF DisconnectTip
<1>5. CASE DisconnectDone
  <2>1. /\ pc = "disconnect" /\ pc' = "connect" /\ tip \in Path(mostWork)
        /\ UNCHANGED <<marks, chains, caller, failures>>
    BY <1>5 DEF DisconnectDone
  <2>2. mostWork \in mapBlockIndex
    BY <2>1 DEF Base, TypeOK, HandlerOK
  <2>3. tip \in Paths(hashPrev)[mostWork]
    BY SMTT(30), <2>1, <2>2, IndexPaths
  <2>4. TypeOK'
    BY Zenon, <1>1, <2>1, FieldsKept DEF Base, TypeOK, marks, chains, caller
  <2>5. HandlerOK'
    BY Zenon, <1>1, <2>1, <2>3, FieldsKept DEF Base, HandlerOK, Activating, chains, caller
  <2> QED BY <1>2, <2>4, <2>5 DEF Base
<1>6. CASE ConnectTip
  <2>1. /\ Connecting /\ tip' = pindexConnect /\ viewBest' = pindexConnect
        /\ UNCHANGED <<marks, mostWork, caller, pc, failures>>
    BY <1>6 DEF ConnectTip
  <2>2. /\ pindexConnect \in mapBlockIndex /\ pindexConnect \in Path(mostWork)
        /\ mostWork \in mapBlockIndex
    BY <2>1, PindexConnect
  <2>3. pindexConnect \in Paths(hashPrev)[mostWork]
    BY SMTT(30), <2>2, IndexPaths
  <2>4. TypeOK'
    BY Zenon, <1>1, <2>1, <2>2, FieldsKept DEF Base, TypeOK, marks, caller
  <2>5. HandlerOK'
    BY Zenon, <1>1, <2>1, <2>3, FieldsKept DEF Base, HandlerOK, Activating, caller
  <2> QED BY <1>2, <2>4, <2>5 DEF Base
<1>7. CASE ConnectTipFails
  <2>1. /\ Fails /\ AcceptReturns(FALSE) /\ viewBest' \in {tip, pindexConnect}
        /\ UNCHANGED <<marks, tip, mostWork>> /\ pindexConnect \in mapBlockIndex
    BY Zenon, <1>7, PindexConnect DEF ConnectTipFails
  <2> QED BY Zenon, <1>0, <1>1, <2>1, EndKeepsBase, FailsCounted
<1>8. CASE ConnectTipAborts \/ ConnectTipCorrupt
  <2>1. pc = "connect" /\ pc' \in {"aborted", "pop"} /\ UNCHANGED <<marks, chains, caller, failures>>
    BY <1>8 DEF ConnectTipAborts, ConnectTipCorrupt, Connecting
  <2>2. TypeOK'
    BY Zenon, <1>1, <2>1, FieldsKept DEF Base, TypeOK, marks, chains, caller
  <2>3. HandlerOK'
    BY <1>1, <2>1, FieldsKept DEF Base, HandlerOK, Activating, caller
  <2> QED BY <1>2, <2>2, <2>3 DEF Base
<1>9. CASE ConnectTipInvalid
  <2>1. /\ Connecting /\ pc' = "pop" /\ UNCHANGED <<chains, caller, failures>>
        /\ failed' = failed \cup {pindexConnect}
        /\ setBlockIndexValid' \in Erasures(setBlockIndexValid, {pindexConnect})
        /\ bestInvalid' = WorstOf(WorstOf(bestInvalid, pindexConnect), mostWork)
    BY <1>9 DEF ConnectTipInvalid
  <2>2. pindexConnect \in mapBlockIndex /\ mostWork \in mapBlockIndex
    BY <2>1, PindexConnect
  <2>3. setBlockIndexValid' \in Seq(mapBlockIndex)
    BY <1>0, <2>1, ErasureSet
  <2>4. failed' \subseteq mapBlockIndex /\ bestInvalid' \in mapBlockIndex \cup {NoBlock}
    BY SMTT(30), <2>1, <2>2 DEF WorstOf, Base, TypeOK
  <2>5. TypeOK'
    BY Zenon, <1>1, <2>1, <2>3, <2>4, FieldsKept DEF Base, TypeOK, chains, caller
  <2>6. HandlerOK'
    BY <1>1, <2>1, FieldsKept DEF Base, HandlerOK, Activating, Connecting, caller
  <2> QED BY <1>2, <2>5, <2>6 DEF Base
<1>10. CASE ActivateDone
  <2>1. /\ UNCHANGED <<marks, tip, mostWork, viewBest>> /\ failures' \in 0..MaxFailures
        /\ cur \in mapBlockIndex /\ \E success \in BOOLEAN : AcceptReturns(success)
    BY Zenon, <1>0, <1>10, FailsCounted DEF ActivateDone, chains, Base, HandlerOK, Activating
  <2> QED BY SMTT(30), <1>0, <1>1, <2>1, EndKeepsBase
<1> QED BY <1>3, <1>4, <1>5, <1>6, <1>7, <1>8, <1>9, <1>10

(* Every step keeps the basic invariant.                                     *)
LEMMA BaseStep == Base /\ [Next]_vars => Base'
<1> SUFFICES ASSUME Base, [Next]_vars PROVE Base'
  BY SMTT(30)
<1>1. CASE UNCHANGED vars
  BY Zenon, <1>1 DEF Base, NetworkOK, TypeOK, IndexOK, HandlerOK, vars, network, index, fields,
              marks, chains, caller
<1>2. CASE \E b \in Others : ReceiveRejected(b)
  BY <1>1, <1>2 DEF ReceiveRejected
<1>3. CASE Handler \/ \E b \in Others : ReceiveOrphan(b) \/ Receive(b)
  BY SMTT(30), <1>3, ProcessKeepsBase, AddKeepsBase, FindKeepsBase, ActivateKeepsBase DEF Handler
<1> QED BY <1>1, <1>2, <1>3 DEF Next

-----------------------------------------------------------------------------
(* Validity *)

(* FullyValid, as a function of the network.                                 *)
Valid(f, v, b) == \A x \in Paths(f)[b] \ {Genesis} : v[x] \in {"ok", "checkpoint"}

(* FullyValid depends on the network alone.                                  *)
LEMMA FullyValidIs == \A b \in Blocks : FullyValid(b) <=> Valid(hashPrev, verdict, b)
BY PathIs DEF FullyValid, Valid

(* The active chain is valid.                                                *)
TipInv == Valid(hashPrev, verdict, tip)

(* A failed block is invalid, and has no more work than pindexBestInvalid.   *)
FailedInv ==
  /\ \A b \in failed : ~Valid(hashPrev, verdict, b)
  /\ bestInvalid # NoBlock => ~Valid(hashPrev, verdict, bestInvalid)
  /\ \A b \in failed : bestInvalid # NoBlock /\ nChainWork[bestInvalid] >= nChainWork[b]

IndInv == Base /\ TipInv /\ FailedInv

(* A descendant of an invalid block is invalid.                              *)
LEMMA InvalidAbove ==
  ASSUME NEW f \in [Others -> Blocks], IsTree(f), NEW v,
         NEW b \in Blocks, NEW x \in Paths(f)[b], ~Valid(f, v, x)
  PROVE  ~Valid(f, v, b)
<1>1. Paths(f)[x] \subseteq Paths(f)[b]
  BY PathTransitive
<1> QED BY <1>1 DEF Valid

(* In the initial state the active chain is Genesis.                         *)
LEMMA IndInit == Init => IndInv
<1> SUFFICES ASSUME Init PROVE IndInv
  OBVIOUS
<1>1. Base
  BY BaseInit
<1>2. TipInv
  <2>1. hashPrev \in [Others -> Blocks] /\ tip = Genesis
    BY DEF Init
  <2> QED BY <2>1, PathsOf DEF TipInv, Valid
<1>3. FailedInv
  BY DEF Init, FailedInv
<1> QED BY <1>1, <1>2, <1>3 DEF IndInv

(* The tip moves to its parent, or to a block that passed ConnectBlock.      *)
LEMMA TipStep == ASSUME Base, TipInv, Next PROVE TipInv'
<1>1. /\ hashPrev \in [Others -> Blocks] /\ IsTree(hashPrev) /\ verdict \in [Others -> AllVerdicts]
      /\ mapBlockIndex \subseteq Blocks /\ tip \in mapBlockIndex
  BY Zenon DEF Base, NetworkOK, TypeOK
<1>2. hashPrev' = hashPrev /\ verdict' = verdict
  BY Zenon DEF Next, Handler, ReceiveRejected, ReceiveOrphan, Receive, NextChild, NoMoreChildren,
         AcceptFails, AddToBlockIndex, NewIndexEntry, PopInvalid, PopDone, RejectCandidate,
         TakeCandidate, DisconnectTip, DisconnectDone, ConnectTip, ConnectTipFails,
         ConnectTipAborts, ConnectTipInvalid, ConnectTipCorrupt, ActivateDone, network, vars
<1>3. CASE tip' = tip
  BY SMTT(30), <1>2, <1>3 DEF TipInv
<1>4. CASE DisconnectTip /\ tip' # tip
  <2>1. tip' = hashPrev[tip] /\ tip \in Others
    BY Zenon, <1>1, <1>4, TipHasParent DEF DisconnectTip, chains, Others
  <2>2. Paths(hashPrev)[tip] = {tip} \cup Paths(hashPrev)[hashPrev[tip]]
    BY <1>1, <2>1, PathsOf
  <2> QED BY <1>2, <2>1, <2>2 DEF TipInv, Valid
<1>5. CASE ConnectTip
  <2>1. /\ tip' = pindexConnect /\ verdict[pindexConnect] \notin {"connect", "corrupt"}
        /\ pindexConnect \in mapBlockIndex \ {Genesis} /\ hashPrev[pindexConnect] = tip
    BY SMTT(30), <1>5, PindexConnect DEF ConnectTip, ConnectBlock
  <2>2. verdict[pindexConnect] \notin {"check", "accept"} /\ pindexConnect \in Others
    BY <1>1, <2>1 DEF Base, IndexOK, Others
  <2>3. verdict[pindexConnect] \in {"ok", "checkpoint"}
    BY SMTT(30), <1>1, <2>1, <2>2 DEF AllVerdicts
  <2>4. Paths(hashPrev)[pindexConnect] = {pindexConnect} \cup Paths(hashPrev)[tip]
    BY SMTT(30), <1>1, <2>1, <2>2, PathsOf
  <2> QED BY SMTT(30), <1>2, <2>1, <2>3, <2>4 DEF TipInv, Valid
<1>6. tip' = tip \/ DisconnectTip \/ ConnectTip
  BY Zenon DEF Next, Handler, ReceiveRejected, ReceiveOrphan, Receive, NextChild, NoMoreChildren,
         AcceptFails, AddToBlockIndex, PopInvalid, PopDone, RejectCandidate,
         TakeCandidate, DisconnectDone, ConnectTipFails,
         ConnectTipAborts, ConnectTipInvalid, ConnectTipCorrupt, ActivateDone, chains, vars
<1> QED BY <1>3, <1>4, <1>5, <1>6

(* What the lemmas on marks use of the basic invariant.                      *)
LEMMA BaseTypes ==
  ASSUME Base
  PROVE  /\ hashPrev \in [Others -> Blocks] /\ IsTree(hashPrev)
         /\ mapBlockIndex \subseteq Blocks
         /\ nChainWork \in [Blocks -> Nat] /\ nHeight \in [Blocks -> Nat]
         /\ failed \subseteq mapBlockIndex /\ bestInvalid \in mapBlockIndex \cup {NoBlock}
         /\ setBlockIndexValid \in Seq(mapBlockIndex)
<1>1. NetworkOK /\ TypeOK
  BY DEF Base
<1>2. hashPrev \in [Others -> Blocks] /\ IsTree(hashPrev)
  BY <1>1 DEF NetworkOK
<1>3. mapBlockIndex \subseteq Blocks /\ failed \subseteq mapBlockIndex
  BY <1>1, Zenon DEF TypeOK
<1>4. nChainWork \in [Blocks -> Nat] /\ nHeight \in [Blocks -> Nat]
  BY <1>1, Zenon DEF TypeOK
<1>5. setBlockIndexValid \in Seq(mapBlockIndex)
  BY <1>1, Zenon DEF TypeOK
<1>6. bestInvalid \in mapBlockIndex \cup {NoBlock}
  BY <1>1, Zenon DEF TypeOK
<1> QED BY <1>2, <1>3, <1>4, <1>5, <1>6

(* Few steps touch the index, the marks or the candidates.                   *)
LEMMA QuietSteps ==
  ASSUME Next
  PROVE  \/ UNCHANGED <<network, index, marks>>
         \/ AddToBlockIndex \/ PopInvalid \/ RejectCandidate \/ ConnectTipInvalid
<1>1. CASE \E b \in Others : ReceiveRejected(b) \/ ReceiveOrphan(b) \/ Receive(b)
  BY <1>1 DEF ReceiveRejected, ReceiveOrphan, Receive, vars
<1>2. CASE NextChild
  BY <1>2 DEF NextChild
<1>3. CASE NoMoreChildren
  BY <1>3 DEF NoMoreChildren
<1>4. CASE AcceptFails
  BY <1>4 DEF AcceptFails
<1>5. CASE PopDone
  BY <1>5 DEF PopDone
<1>6. CASE TakeCandidate
  BY <1>6 DEF TakeCandidate
<1>7. CASE DisconnectTip
  BY <1>7 DEF DisconnectTip
<1>8. CASE DisconnectDone
  BY <1>8 DEF DisconnectDone
<1>9. CASE ConnectTip
  BY <1>9 DEF ConnectTip
<1>10. CASE ConnectTipFails
  BY <1>10 DEF ConnectTipFails
<1>11. CASE ConnectTipAborts
  BY <1>11 DEF ConnectTipAborts
<1>12. CASE ConnectTipCorrupt
  BY <1>12 DEF ConnectTipCorrupt
<1>13. CASE ActivateDone
  BY SMTT(30), <1>13 DEF ActivateDone
<1> QED BY SMTT(30), <1>1, <1>2, <1>3, <1>4, <1>5, <1>6, <1>7, <1>8, <1>9, <1>10, <1>11, <1>12, <1>13
       DEF Next, Handler

(* InvalidChainFound(b) keeps the chain with the most work.                  *)
LEMMA WorstOfWork ==
  ASSUME NEW c \in mapBlockIndex \cup {NoBlock}, NEW b \in mapBlockIndex,
         mapBlockIndex \subseteq Blocks, nChainWork \in [Blocks -> Nat]
  PROVE  /\ WorstOf(c, b) \in {c, b} \ {NoBlock}
         /\ nChainWork[WorstOf(c, b)] >= nChainWork[b]
         /\ c # NoBlock => nChainWork[WorstOf(c, b)] >= nChainWork[c]
<1>1. b \in Blocks /\ b # NoBlock /\ nChainWork[b] \in Nat
  BY ChainAssumption
<1>2. c # NoBlock => nChainWork[c] \in Nat
  OBVIOUS
<1>3. CASE c = NoBlock
  BY <1>1, <1>3 DEF WorstOf
<1>4. CASE c # NoBlock /\ nChainWork[b] > nChainWork[c]
  BY SMTT(30), <1>1, <1>2, <1>4 DEF WorstOf
<1>5. CASE c # NoBlock /\ ~(nChainWork[b] > nChainWork[c])
  BY <1>1, <1>2, <1>5 DEF WorstOf
<1> QED BY <1>3, <1>4, <1>5

(* The blocks RejectCandidate marks descend from a failed one.               *)
LEMMA AboveInvalid ==
  ASSUME Base, FailedInv, setBlockIndexValid # <<>>, FailedAncestors # {}
  PROVE  /\ \A x \in Path(Candidate) :
              (\A y \in FailedAncestors : nHeight[x] > nHeight[y]) =>
                ~Valid(hashPrev, verdict, x)
         /\ ~Valid(hashPrev, verdict, Candidate)
<1>1. /\ hashPrev \in [Others -> Blocks] /\ IsTree(hashPrev)
      /\ mapBlockIndex \subseteq Blocks /\ nHeight \in [Blocks -> Nat]
  BY BaseTypes
<1>2. /\ Candidate \in mapBlockIndex /\ Path(Candidate) = Paths(hashPrev)[Candidate]
      /\ Path(Candidate) \subseteq mapBlockIndex
  BY CandidateIndexed, IndexPaths
<1>3. PICK y \in FailedAncestors : TRUE
  OBVIOUS
<1>4. y \in Path(Candidate) /\ y \in failed
  BY <1>3 DEF FailedAncestors
<1>5. ~Valid(hashPrev, verdict, y)
  BY SMTT(30), <1>4 DEF FailedInv
<1>6. ~Valid(hashPrev, verdict, Candidate)
  BY SMTT(30), <1>1, <1>2, <1>4, <1>5, InvalidAbove
<1>7. ASSUME NEW x \in Path(Candidate), nHeight[x] > nHeight[y]
      PROVE  ~Valid(hashPrev, verdict, x)
  <2>1. x \in mapBlockIndex /\ y \in mapBlockIndex
    BY <1>2, <1>4
  <2>2. Path(x) = Paths(hashPrev)[x] /\ Path(y) = Paths(hashPrev)[y]
    BY SMTT(30), <2>1, IndexPaths
  <2>3. x \in Path(y) \/ y \in Path(x)
    BY <1>1, <1>2, <1>4, <2>2, PathLinear
  <2>4. \A z \in Path(y) : nHeight[z] <= nHeight[y]
    BY <2>1, IndexGrows
  <2>5. nHeight[x] \in Nat /\ nHeight[y] \in Nat
    BY SMTT(30), <1>1, <2>1
  <2>6. x \notin Path(y)
    BY <1>7, <2>4, <2>5
  <2>7. y \in Paths(hashPrev)[x]
    BY Zenon, <2>2, <2>3, <2>6
  <2> QED BY <1>1, <1>5, <2>1, <2>7, InvalidAbove
<1> QED BY <1>3, <1>6, <1>7

(* The marks change only where FindMostWorkChain and ConnectTip mark.        *)
LEMMA FailedStep == ASSUME Base, FailedInv, Next PROVE FailedInv'
<1>1. /\ hashPrev \in [Others -> Blocks] /\ IsTree(hashPrev)
      /\ mapBlockIndex \subseteq Blocks /\ nChainWork \in [Blocks -> Nat]
      /\ failed \subseteq mapBlockIndex /\ bestInvalid \in mapBlockIndex \cup {NoBlock}
  BY BaseTypes
<1>2. CASE UNCHANGED <<network, index, marks>>
  BY <1>2 DEF FailedInv, network, index, fields, marks
<1>6. CASE PopInvalid
  <2>1. UNCHANGED <<network, index, failed, bestInvalid>>
    BY <1>6 DEF PopInvalid
  <2> QED BY <2>1 DEF FailedInv, network, index, fields
<1>3. CASE AddToBlockIndex
  <2>1. UNCHANGED <<hashPrev, verdict, failed, bestInvalid>>
    BY <1>3 DEF AddToBlockIndex, NewIndexEntry, network
  <2>2. \A b \in mapBlockIndex : nChainWork'[b] = nChainWork[b]
    BY <1>3, NewEntryKeepsIndex DEF AddToBlockIndex, NewEntry
  <2> QED BY SMTT(30), <1>1, <2>1, <2>2 DEF FailedInv
<1>4. CASE RejectCandidate
  <2> DEFINE above == {x \in Path(Candidate) : \A y \in FailedAncestors : nHeight[x] > nHeight[y]}
  <2>1. /\ UNCHANGED <<hashPrev, verdict, nChainWork>> /\ failed' = failed \cup above
        /\ bestInvalid' = WorstOf(bestInvalid, Candidate)
        /\ setBlockIndexValid # <<>> /\ FailedAncestors # {}
    BY Zenon, <1>4 DEF RejectCandidate, network, index, fields
  <2>2. Candidate \in mapBlockIndex /\ Path(Candidate) \subseteq mapBlockIndex
    BY SMTT(30), <2>1, CandidateIndexed, IndexPaths
  <2>3. /\ \A x \in above : ~Valid(hashPrev, verdict, x)
        /\ ~Valid(hashPrev, verdict, Candidate)
    BY SMTT(30), <2>1, AboveInvalid
  <2>4. \A x \in above : x \in mapBlockIndex /\ nChainWork[x] <= nChainWork[Candidate]
    BY SMTT(30), <2>2, IndexGrows
  <2> HIDE DEF above
  <2>5. /\ bestInvalid' \in {bestInvalid, Candidate} \ {NoBlock}
        /\ nChainWork[bestInvalid'] >= nChainWork[Candidate]
        /\ bestInvalid # NoBlock => nChainWork[bestInvalid'] >= nChainWork[bestInvalid]
    BY SMTT(30), <1>1, <2>1, <2>2, WorstOfWork
  <2>6. ASSUME NEW b \in failed' PROVE nChainWork[bestInvalid'] >= nChainWork[b]
    <3>1. /\ nChainWork[bestInvalid'] \in Nat /\ nChainWork[Candidate] \in Nat
          /\ bestInvalid # NoBlock => nChainWork[bestInvalid] \in Nat
      BY <1>1, <2>2, <2>5
    <3>2. CASE b \in above
      <4>1. nChainWork[b] \in Nat /\ nChainWork[b] <= nChainWork[Candidate]
        BY <1>1, <2>4, <3>2
      <4> QED BY SMTT(30), <2>5, <3>1, <4>1
    <3>3. CASE b \in failed
      <4>1. nChainWork[b] \in Nat /\ bestInvalid # NoBlock /\ nChainWork[bestInvalid] >= nChainWork[b]
        BY SMTT(30), <1>1, <3>3 DEF FailedInv
      <4> QED BY <2>5, <3>1, <4>1
    <3> QED BY SMTT(30), <2>1, <2>6, <3>2, <3>3
  <2> QED BY SMTT(30), <2>1, <2>3, <2>5, <2>6 DEF FailedInv
<1>5. CASE ConnectTipInvalid
  <2> DEFINE c == WorstOf(bestInvalid, pindexConnect)
  <2>1. /\ UNCHANGED <<hashPrev, verdict, nChainWork>> /\ failed' = failed \cup {pindexConnect}
        /\ bestInvalid' = WorstOf(c, mostWork)
        /\ Connecting /\ verdict[pindexConnect] = "connect"
    BY <1>5 DEF ConnectTipInvalid, network, index, fields
  <2>2. /\ pindexConnect \in mapBlockIndex \ {Genesis} /\ mostWork \in mapBlockIndex
        /\ pindexConnect \in Path(mostWork)
    BY <2>1, PindexConnect
  <2>3. pindexConnect \in Paths(hashPrev)[pindexConnect] /\ pindexConnect \in Paths(hashPrev)[mostWork]
    BY SMTT(30), <2>2, IndexPaths
  <2>4. ~Valid(hashPrev, verdict, pindexConnect)
    BY SMTT(30), <2>1, <2>2, <2>3 DEF Valid
  <2>5. ~Valid(hashPrev, verdict, mostWork)
    BY <1>1, <2>2, <2>3, <2>4, InvalidAbove
  <2>6. /\ c \in {bestInvalid, pindexConnect} \ {NoBlock}
        /\ nChainWork[c] >= nChainWork[pindexConnect]
        /\ bestInvalid # NoBlock => nChainWork[c] >= nChainWork[bestInvalid]
    BY SMTT(30), <1>1, <2>2, WorstOfWork
  <2> HIDE DEF c
  <2>7. /\ bestInvalid' \in {c, mostWork} \ {NoBlock}
        /\ nChainWork[bestInvalid'] >= nChainWork[c]
    <3>1. c \in mapBlockIndex \cup {NoBlock} /\ c # NoBlock
      BY SMTT(30), <1>1, <2>2, <2>6
    <3> QED BY <1>1, <2>1, <2>2, <3>1, WorstOfWork
  <2>8. ASSUME NEW b \in failed' PROVE nChainWork[bestInvalid'] >= nChainWork[b]
    <3>1. c \in mapBlockIndex /\ bestInvalid' \in mapBlockIndex
      BY <1>1, <2>2, <2>6, <2>7
    <3>2. /\ nChainWork[bestInvalid'] \in Nat /\ nChainWork[c] \in Nat
          /\ bestInvalid # NoBlock => nChainWork[bestInvalid] \in Nat
      BY <1>1, <3>1
    <3>3. CASE b = pindexConnect
      <4>1. nChainWork[b] \in Nat
        BY SMTT(30), <1>1, <2>2, <3>3
      <4> QED BY <2>6, <2>7, <3>2, <3>3, <4>1
    <3>4. CASE b \in failed
      <4>1. nChainWork[b] \in Nat /\ bestInvalid # NoBlock /\ nChainWork[bestInvalid] >= nChainWork[b]
        BY <1>1, <3>4 DEF FailedInv
      <4> QED BY <2>6, <2>7, <3>2, <4>1
    <3> QED BY SMTT(30), <2>1, <2>8, <3>3, <3>4
  <2>9. ~Valid(hashPrev, verdict, bestInvalid')
    BY <2>4, <2>5, <2>6, <2>7 DEF FailedInv
  <2> QED BY <2>1, <2>4, <2>7, <2>8, <2>9 DEF FailedInv
<1> QED BY <1>2, <1>3, <1>4, <1>5, <1>6, QuietSteps

(* Every step keeps the inductive invariant.                                 *)
LEMMA IndStep == IndInv /\ [Next]_vars => IndInv'
<1> SUFFICES ASSUME IndInv, [Next]_vars PROVE IndInv'
  OBVIOUS
<1>1. Base'
  BY BaseStep DEF IndInv
<1>2. CASE Next
  BY <1>1, <1>2, TipStep, FailedStep DEF IndInv
<1>3. CASE UNCHANGED vars
  <2>1. TipInv'
    BY <1>3 DEF IndInv, TipInv, vars, network, chains
  <2>2. FailedInv'
    BY <1>3 DEF IndInv, FailedInv, vars, network, marks, index, fields
  <2> QED BY <1>1, <2>1, <2>2 DEF IndInv
<1> QED BY <1>2, <1>3

-----------------------------------------------------------------------------
(* The theorems *)

(* The inductive invariant holds in every reachable state: the index is a    *)
(* tree of blocks that passed AcceptBlock, the active chain and the failed   *)
(* marks agree with what ConnectBlock found.                                 *)
THEOREM InvariantHolds == Spec => []IndInv
BY IndInit, IndStep, PTL DEF Spec

(* The fields of the index, the candidates, the chains and the handler's     *)
(* state keep their types: in particular no chain tip, candidate or mark     *)
(* ever refers to a block that is not in mapBlockIndex, for every block tree *)
(* and every order of arrival.                                               *)
THEOREM TypeCorrect == Spec => []TypeOK
<1>1. IndInv => TypeOK
  BY SMTT(30) DEF IndInv, Base
<1> QED BY <1>1, InvariantHolds, PTL

(* The active chain never contains a block that ConnectBlock, AcceptBlock or *)
(* CheckBlock rejects, not even in the middle of a reorganisation or after a *)
(* disk error, for every block tree.                                         *)
THEOREM ActiveChainStaysValid == Spec => []ActiveChainValid
<1>1. IndInv => ActiveChainValid
  BY FullyValidIs DEF IndInv, Base, TypeOK, TipInv, ActiveChainValid
<1> QED BY <1>1, InvariantHolds, PTL

(* InvalidBlockFound, InvalidChainFound and FindMostWorkChain mark only      *)
(* blocks of invalid chains, and pindexBestInvalid is an invalid chain with  *)
(* at least the work of every marked block, for every block tree.            *)
THEOREM FailedMarksStayRight == Spec => []FailedMarksRight
<1>1. IndInv => FailedMarksRight
  <2> SUFFICES ASSUME IndInv PROVE FailedMarksRight
    OBVIOUS
  <2>1. /\ failed \subseteq mapBlockIndex /\ mapBlockIndex \subseteq Blocks
        /\ bestInvalid \in mapBlockIndex \cup {NoBlock}
    BY BaseTypes DEF IndInv
  <2>2. FailedInv
    BY DEF IndInv
  <2> QED BY <2>1, <2>2, FullyValidIs DEF FailedInv, FailedMarksRight
<1> QED BY <1>1, InvariantHolds, PTL

-----------------------------------------------------------------------------
(* Orphans *)

(* Until an error stops the work queue, an orphan whose parent is in the     *)
(* index has that parent in the queue, or in AcceptBlock.                    *)
OrphanInv ==
  /\ Cardinality(orphans) <= MaxOrphanBlocks + 1
  /\ failures = 0 =>
       \A o \in orphans :
         hashPrev[o] \in mapBlockIndex => hashPrev[o] \in Range(vWorkQueue) \cup {cur}

(* What these lemmas use of the basic invariant.                             *)
LEMMA CallerTypes ==
  ASSUME Base
  PROVE  /\ hashPrev \in [Others -> Blocks] /\ mapBlockIndex \subseteq Blocks
         /\ orphans \subseteq Others /\ vWorkQueue \in Seq(mapBlockIndex)
         /\ failures \in 0..MaxFailures /\ NoBlock \notin mapBlockIndex /\ IsFiniteSet(orphans)
         /\ pc \in {"idle", "children"} => cur = NoBlock
         /\ pc = "idle" => vWorkQueue = <<>>
         /\ pc = "accept" => cur \notin mapBlockIndex
<1>1. NetworkOK /\ TypeOK /\ HandlerOK
  BY DEF Base
<1>2. hashPrev \in [Others -> Blocks]
  BY Zenon, <1>1 DEF NetworkOK
<1>3. /\ mapBlockIndex \subseteq Blocks /\ orphans \subseteq Others
      /\ vWorkQueue \in Seq(mapBlockIndex) /\ failures \in 0..MaxFailures
  BY Zenon, <1>1 DEF TypeOK
<1>4. NoBlock \notin mapBlockIndex /\ IsFiniteSet(orphans)
  BY <1>3, ChainAssumption, FS_Subset DEF Others
<1> QED BY Zenon, <1>1, <1>2, <1>3, <1>4 DEF HandlerOK

(* Dropping an orphan.                                                       *)
LEMMA FewerOrphans ==
  ASSUME NEW S, IsFiniteSet(S), NEW x
  PROVE  /\ IsFiniteSet(S \ {x}) /\ Cardinality(S \ {x}) \in Nat /\ Cardinality(S) \in Nat
         /\ Cardinality(S \ {x}) <= Cardinality(S)
         /\ x \in S => Cardinality(S \ {x}) = Cardinality(S) - 1
<1>1. IsFiniteSet(S \ {x}) /\ Cardinality(S \ {x}) = IF x \in S THEN Cardinality(S) - 1 ELSE Cardinality(S)
  BY Zenon, FS_RemoveElement
<1>2. Cardinality(S) \in Nat /\ Cardinality(S \ {x}) \in Nat
  BY Zenon, <1>1, FS_CardinalityType
<1> QED BY <1>1, <1>2

(* PruneOrphanBlocks makes room for the new orphan.                          *)
LEMMA ReceiveOrphanStep ==
  ASSUME Base, OrphanInv, NEW b \in Others, ReceiveOrphan(b)
  PROVE  OrphanInv'
<1>1. /\ hashPrev[b] \notin mapBlockIndex
      /\ UNCHANGED <<hashPrev, mapBlockIndex, vWorkQueue, cur, failures>>
  BY Zenon DEF ReceiveOrphan, network, index
<1>2. PICK kept \in PrunedOrphans : orphans' = kept \cup {b}
  BY Zenon DEF ReceiveOrphan
<1>3. /\ IsFiniteSet(orphans) /\ Cardinality(orphans) \in Nat /\ MaxOrphanBlocks \in Nat
      /\ Cardinality(orphans) <= MaxOrphanBlocks + 1
  BY Zenon, CallerTypes, FS_CardinalityType, ChainAssumption DEF OrphanInv
<1>4. /\ kept \subseteq orphans /\ IsFiniteSet(kept) /\ Cardinality(kept) \in Nat
      /\ Cardinality(kept) <= MaxOrphanBlocks
  <2>1. CASE Cardinality(orphans) <= MaxOrphanBlocks
    BY <1>2, <1>3, <2>1 DEF PrunedOrphans
  <2>2. CASE ~(Cardinality(orphans) <= MaxOrphanBlocks)
    <3>1. PICK o \in orphans : kept = orphans \ {o}
      BY <1>2, <2>2 DEF PrunedOrphans
    <3>2. /\ IsFiniteSet(kept) /\ Cardinality(kept) \in Nat
          /\ Cardinality(kept) = Cardinality(orphans) - 1
      BY Zenon, <1>3, <3>1, FewerOrphans
    <3> QED BY <1>3, <3>1, <3>2
  <2> QED BY <2>1, <2>2
<1>5. Cardinality(orphans') <= MaxOrphanBlocks + 1
  <2>1. Cardinality(kept \cup {b}) = IF b \in kept THEN Cardinality(kept) ELSE Cardinality(kept) + 1
    BY Zenon, <1>4, FS_AddElement
  <2> QED BY <1>2, <1>3, <1>4, <2>1
<1> QED BY Zenon, <1>1, <1>2, <1>4, <1>5 DEF OrphanInv

(* AcceptBlock returns, to a queue that has the block if it was accepted.    *)
LEMMA ReturnOrphans ==
  ASSUME Base, OrphanInv, NEW success \in BOOLEAN, AcceptReturns(success),
         UNCHANGED <<hashPrev, mapBlockIndex>>, success => cur \in mapBlockIndex,
         failures' = 0 => failures = 0 /\ (success \/ cur \notin mapBlockIndex)
  PROVE  OrphanInv'
<1>1. /\ orphans' = orphans \ {cur}
      /\ vWorkQueue' = IF success THEN Append(vWorkQueue, cur) ELSE vWorkQueue
  BY Zenon DEF AcceptReturns
<1>2. Cardinality(orphans') <= MaxOrphanBlocks + 1
  <2>1. /\ Cardinality(orphans') \in Nat /\ Cardinality(orphans) \in Nat
        /\ Cardinality(orphans') <= Cardinality(orphans)
    BY Zenon, <1>1, CallerTypes, FewerOrphans
  <2>2. Cardinality(orphans) <= MaxOrphanBlocks + 1 /\ MaxOrphanBlocks \in Nat
    BY Zenon, ChainAssumption DEF OrphanInv
  <2> QED BY <2>1, <2>2
<1>3. success => Range(vWorkQueue') = Range(vWorkQueue) \cup {cur}
  <2>1. vWorkQueue \in Seq(mapBlockIndex)
    BY Zenon, CallerTypes
  <2> QED BY <1>1, <2>1, AppendSet
<1>4. ~success => vWorkQueue' = vWorkQueue
  BY Zenon, <1>1
<1>5. ASSUME failures' = 0, NEW o \in orphans', hashPrev[o] \in mapBlockIndex
      PROVE  hashPrev[o] \in Range(vWorkQueue')
  <2>1. hashPrev[o] \in Range(vWorkQueue) \cup {cur}
    BY Zenon, <1>1, <1>5 DEF OrphanInv
  <2> QED BY Zenon, <1>3, <1>4, <1>5, <2>1
<1>6. hashPrev' = hashPrev /\ mapBlockIndex' = mapBlockIndex
  OBVIOUS
<1> QED BY <1>2, <1>5, <1>6 DEF OrphanInv

(* An error is counted.                                                      *)
LEMMA FailsNotZero == Base /\ Fails => failures' # 0
BY CallerTypes DEF Fails

(* Every step keeps the orphans where they belong.                           *)
LEMMA OrphanStep == Base /\ OrphanInv /\ [Next]_vars => OrphanInv'
<1> SUFFICES ASSUME Base, OrphanInv, [Next]_vars PROVE OrphanInv'
  OBVIOUS
<1>1. CASE UNCHANGED <<hashPrev, mapBlockIndex, orphans, vWorkQueue, cur, failures>>
  BY Zenon, <1>1 DEF OrphanInv
<1>2. CASE \E b \in Others : ReceiveOrphan(b)
  BY Zenon, <1>2, ReceiveOrphanStep
<1>3. CASE (\E b \in Others : Receive(b)) \/ NextChild
  <2>1. /\ UNCHANGED <<hashPrev, mapBlockIndex, orphans, vWorkQueue, failures>>
        /\ pc \in {"idle", "children"}
    BY <1>3 DEF Receive, NextChild, network, index
  <2>2. cur = NoBlock /\ NoBlock \notin mapBlockIndex
    BY Zenon, <2>1, CallerTypes
  <2> QED BY Zenon, <2>1, <2>2 DEF OrphanInv
<1>4. CASE NoMoreChildren
  <2>1. /\ UNCHANGED <<hashPrev, mapBlockIndex, orphans, cur, failures>>
        /\ vWorkQueue' = Tail(vWorkQueue) /\ Children = {} /\ pc = "children"
    BY <1>4 DEF NoMoreChildren, network, index
  <2>2. Range(vWorkQueue) \subseteq {Head(vWorkQueue)} \cup Range(vWorkQueue')
    <3>1. vWorkQueue \in Seq(mapBlockIndex) /\ vWorkQueue # <<>>
      BY Zenon, <2>1, CallerTypes DEF Base, HandlerOK
    <3> SUFFICES ASSUME NEW i \in 1..Len(vWorkQueue)
                 PROVE  vWorkQueue[i] \in {Head(vWorkQueue)} \cup Range(Tail(vWorkQueue))
      BY <2>1, <3>1 DEF Range
    <3>2. CASE i = 1
      BY <3>1, <3>2
    <3>3. CASE i # 1
      <4>1. i - 1 \in 1..Len(Tail(vWorkQueue)) /\ Tail(vWorkQueue)[i - 1] = vWorkQueue[i]
        BY <3>1, <3>3
      <4>2. DOMAIN Tail(vWorkQueue) = 1..Len(Tail(vWorkQueue))
        BY <3>1
      <4> QED BY Zenon, <4>1, <4>2 DEF Range
    <3> QED BY <3>2, <3>3
  <2>3. \A o \in orphans : hashPrev[o] # Head(vWorkQueue)
    BY <2>1 DEF Children
  <2> QED BY <2>1, <2>2, <2>3 DEF OrphanInv
<1>5. CASE AcceptFails
  <2>1. /\ UNCHANGED <<hashPrev, mapBlockIndex>> /\ AcceptReturns(FALSE) /\ pc = "accept"
        /\ failures' = failures \/ Fails
    BY Zenon, <1>5 DEF AcceptFails, network, index
  <2> QED BY Zenon, <2>1, CallerTypes, ReturnOrphans, FailsNotZero
<1>6. CASE AddToBlockIndex
  <2>1. /\ hashPrev' = hashPrev /\ mapBlockIndex' = mapBlockIndex \cup {cur}
    BY Zenon, <1>6, NewEntryKeepsIndex DEF AddToBlockIndex, NewEntry
  <2>2. CASE UNCHANGED <<caller, failures>>
    BY <2>1, <2>2 DEF OrphanInv, caller
  <2>3. CASE Fails /\ AcceptReturns(FALSE)
    <3>1. orphans' = orphans \ {cur}
      BY Zenon, <2>3 DEF AcceptReturns
    <3>2. /\ Cardinality(orphans') \in Nat /\ Cardinality(orphans) \in Nat
          /\ Cardinality(orphans') <= Cardinality(orphans)
      BY Zenon, <3>1, CallerTypes, FewerOrphans
    <3>3. Cardinality(orphans) <= MaxOrphanBlocks + 1 /\ MaxOrphanBlocks \in Nat
      BY Zenon, ChainAssumption DEF OrphanInv
    <3>4. Cardinality(orphans') <= MaxOrphanBlocks + 1
      BY <3>2, <3>3
    <3> QED BY Zenon, <2>3, <3>4, FailsNotZero DEF OrphanInv
  <2> QED BY Zenon, <1>6, <2>2, <2>3 DEF AddToBlockIndex
<1>7. CASE /\ UNCHANGED <<hashPrev, mapBlockIndex>> /\ Fails /\ AcceptReturns(FALSE)
  BY Zenon, <1>7, ReturnOrphans, FailsNotZero
<1>8. CASE ActivateDone
  <2>1. /\ UNCHANGED <<hashPrev, mapBlockIndex>> /\ cur \in mapBlockIndex
        /\ (AcceptReturns(TRUE) /\ failures' = failures) \/ (AcceptReturns(FALSE) /\ Fails)
    BY Zenon, <1>8 DEF ActivateDone, network, index, Base, HandlerOK, Activating
  <2> QED BY Zenon, <2>1, ReturnOrphans, FailsNotZero
<1>9. CASE DisconnectTip
  <2>1. UNCHANGED <<hashPrev, mapBlockIndex>> /\ (UNCHANGED <<caller, failures>> \/ (Fails /\ AcceptReturns(FALSE)))
    BY Zenon, <1>9 DEF DisconnectTip, network, index
  <2> QED BY Zenon, <1>1, <1>7, <2>1 DEF caller
<1>10. CASE ConnectTipFails
  BY Zenon, <1>7, <1>10 DEF ConnectTipFails, network, index
<1>11. CASE \/ PopInvalid \/ PopDone \/ RejectCandidate \/ TakeCandidate \/ DisconnectDone
            \/ ConnectTip \/ ConnectTipAborts \/ ConnectTipInvalid \/ ConnectTipCorrupt
  <2>1. UNCHANGED <<network, index, caller, failures>>
    BY Zenon, <1>11 DEF PopInvalid, PopDone, RejectCandidate, TakeCandidate, DisconnectDone, ConnectTip,
                 ConnectTipAborts, ConnectTipInvalid, ConnectTipCorrupt
  <2> QED BY Zenon, <1>1, <2>1 DEF network, index, caller
<1>12. CASE UNCHANGED vars \/ \E b \in Others : ReceiveRejected(b)
  <2>1. UNCHANGED vars
    BY Zenon, <1>12 DEF ReceiveRejected
  <2> QED BY Zenon, <1>1, <2>1 DEF vars, network, index, caller
<1> QED BY Zenon, <1>2, <1>3, <1>4, <1>5, <1>6, <1>8, <1>9, <1>10, <1>11, <1>12 DEF Next, Handler

(* No orphan is left behind: when ProcessBlock's work queue is empty and no  *)
(* error came between, no orphan has its parent in the index, whatever the   *)
(* order of arrival; and there is never more than one orphan above           *)
(* -maxorphanblocks.                                                         *)
THEOREM OrphansStayDetached == Spec => []OrphansDetached
<1>1. Init => OrphanInv
  BY FS_EmptySet, ChainAssumption DEF Init, OrphanInv
<1>2. Base /\ OrphanInv => OrphansDetached
  <2> SUFFICES ASSUME Base, OrphanInv PROVE OrphansDetached
    OBVIOUS
  <2>1. Cardinality(orphans) <= MaxOrphanBlocks + 1
    BY DEF OrphanInv
  <2>2. ASSUME pc = "idle", failures = 0, NEW o \in orphans PROVE hashPrev[o] \notin mapBlockIndex
    <3>1. cur = NoBlock /\ vWorkQueue = <<>> /\ NoBlock \notin mapBlockIndex
      BY Zenon, <2>2, CallerTypes
    <3>2. Range(vWorkQueue) = {}
      BY <3>1 DEF Range
    <3> QED BY Zenon, <2>2, <3>1, <3>2 DEF OrphanInv
  <2> QED BY Zenon, <2>1, <2>2 DEF OrphansDetached
<1>3. IndInv => Base
  BY DEF IndInv
<1> QED BY <1>1, <1>2, <1>3, InvariantHolds, OrphanStep, PTL DEF Spec


-----------------------------------------------------------------------------
(* The best chain *)

(* The mature coins tie-breaker can make CBlockIndexWorkComparator           *)
(* intransitive, and then setBlockIndexValid is not sorted by it.  What      *)
(* follows is about behaviours in which it is transitive on the index.       *)
OrderTransitive ==
  \A a, b, c \in mapBlockIndex : Less(a, b) /\ Less(b, c) => Less(a, c)

(* The comparator, as a relation.                                            *)
Order == {p \in mapBlockIndex \X mapBlockIndex : Less(p[1], p[2])}

(* No block of M with a valid chain is better than b.                        *)
Best(b, M) == \A c \in M : Valid(hashPrev, verdict, c) => <<b, c>> \notin Order

(* Sequence ids count the blocks of the index.                               *)
SequenceInv ==
  /\ \A a \in mapBlockIndex : nSequenceId[a] <= Cardinality(mapBlockIndex)
  /\ \A a, b \in mapBlockIndex : nSequenceId[a] = nSequenceId[b] => a = b

(* The tip of the last rest was the best there was.                          *)
OldInv ==
  /\ oldIndex \subseteq mapBlockIndex /\ oldTip \in oldIndex /\ Valid(hashPrev, verdict, oldTip)
  /\ \A a \in oldIndex, b \in mapBlockIndex \ oldIndex : nSequenceId[a] < nSequenceId[b]
  /\ failures = 0 => Best(oldTip, oldIndex)

(* The candidates are sorted, and are the blocks that have not failed.       *)
CandInv ==
  /\ Sorted(setBlockIndexValid, Order)
  /\ UnfailedAreCandidates
  /\ \A b \in Range(setBlockIndexValid) : b \notin failed

(* The chain to be activated is the best, and so is the one that has been.   *)
Resting == {"idle", "children", "accept"}
BestInv ==
  /\ pc # "done"
  /\ pc \in {"disconnect", "connect"} => Best(mostWork, mapBlockIndex)
  /\ pc \in Resting /\ failures = 0 => Best(tip, mapBlockIndex)

OrdInv == SequenceInv /\ OldInv /\ CandInv /\ BestInv

(* The types of what is compared.                                            *)
LEMMA LessTypes ==
  ASSUME Base, NEW a \in mapBlockIndex
  PROVE  /\ a \in Blocks /\ nChainWork[a] \in Nat /\ nHeight[a] \in Nat
         /\ nSequenceId[a] \in Nat /\ nMatureCoinsSpent[a] \in Int
<1>1. /\ mapBlockIndex \subseteq Blocks
      /\ nChainWork \in [Blocks -> Nat] /\ nHeight \in [Blocks -> Nat]
      /\ nSequenceId \in [Blocks -> Nat] /\ nMatureCoinsSpent \in [Blocks -> 0..MaxMature]
  BY Zenon DEF Base, TypeOK
<1>2. nMatureCoinsSpent[a] \in 0..MaxMature
  BY <1>1
<1> QED BY <1>1, <1>2

(* The comparator is a strict order but for transitivity, and total.         *)
LEMMA OrderLinear ==
  ASSUME Base, SequenceInv, NEW a \in mapBlockIndex, NEW b \in mapBlockIndex
  PROVE  /\ <<a, b>> \in Order <=> Less(a, b)
         /\ ~ (Less(a, b) /\ Less(b, a))
         /\ Less(a, b) \/ Less(b, a) \/ a = b
<1>1. <<a, b>> \in Order <=> Less(a, b)
  BY DEF Order
<1>2. Keys(a) /\ Keys(b)
  BY Zenon, LessTypes DEF Keys
<1>3. nSequenceId[a] = nSequenceId[b] => a = b
  BY Zenon DEF SequenceInv
<1>4. ~ (Less(a, b) /\ Less(b, a))
  BY Zenon, <1>2, LessAsymmetric
<1>5. Less(a, b) \/ Less(b, a) \/ a = b
  BY Zenon, <1>2, <1>3, LessTotal
<1> QED BY Zenon, <1>1, <1>4, <1>5

(* The order, while the index stays as it is.                                *)
LEMMA OrderKept == UNCHANGED <<network, index>> => Order' = Order
<1> SUFFICES ASSUME UNCHANGED <<network, index>> PROVE Order' = Order
  OBVIOUS
<1>1. UNCHANGED <<hashPrev, mapBlockIndex, nChainWork, nHeight, nSequenceId, nMatureCoinsSpent, timely>>
  BY Zenon DEF network, index, fields
<1>2. ASSUME NEW a, NEW b PROVE Less(a, b)' <=> Less(a, b)
  BY Zenon, <1>1 DEF Less, Tie
<1> QED BY <1>1, <1>2 DEF Order

(* A new entry leaves the fields of the others alone.                        *)
LEMMA NewEntryOrder ==
  ASSUME Base, pc = "accept", ~AcceptRejects(cur), NewEntry
  PROVE  /\ nSequenceId'[cur] = Cardinality(mapBlockIndex) + 1
         /\ \A a \in mapBlockIndex : nSequenceId'[a] = nSequenceId[a]
         /\ \A a, b \in mapBlockIndex : <<a, b>> \in Order' <=> <<a, b>> \in Order
<1>1. /\ cur \notin mapBlockIndex /\ cur \in Blocks /\ mapBlockIndex \subseteq Blocks
      /\ hashPrev' = hashPrev /\ mapBlockIndex' = mapBlockIndex \cup {cur}
      /\ \A b \in mapBlockIndex : nHeight'[b] = nHeight[b] /\ nChainWork'[b] = nChainWork[b]
  <2>1. cur \in Others
    BY Zenon, NewEntryKeepsIndex
  <2>2. cur \in Blocks
    BY Zenon, <2>1 DEF Others
  <2> QED BY Zenon, <2>2, NewEntryKeepsIndex, CallerTypes
<1>2. /\ nSequenceId \in [Blocks -> Nat] /\ nMatureCoinsSpent \in [Blocks -> 0..MaxMature]
      /\ timely \in [Blocks -> BOOLEAN]
  BY Zenon DEF Base, TypeOK
<1>3. /\ nSequenceId'[cur] = Cardinality(mapBlockIndex) + 1
      /\ \A a \in mapBlockIndex : nSequenceId'[a] = nSequenceId[a]
  <2>1. nSequenceId' = [nSequenceId EXCEPT ![cur] = Cardinality(mapBlockIndex) + 1]
    BY Zenon DEF NewEntry, NewIndexEntry
  <2> QED BY <1>1, <1>2, <2>1
<1>4. \A a \in mapBlockIndex : nMatureCoinsSpent'[a] = nMatureCoinsSpent[a]
  <2>1. PICK n : nMatureCoinsSpent' = [nMatureCoinsSpent EXCEPT ![cur] = n]
    BY Zenon DEF NewEntry, NewIndexEntry
  <2> QED BY <1>1, <1>2, <2>1
<1>5. \A a \in mapBlockIndex : timely'[a] = timely[a]
  <2>1. PICK t : timely' = [timely EXCEPT ![cur] = t]
    BY Zenon DEF NewEntry, NewIndexEntry
  <2> QED BY <1>1, <1>2, <2>1
<1>6. ASSUME NEW a \in mapBlockIndex, NEW b \in mapBlockIndex
      PROVE  <<a, b>> \in Order' <=> <<a, b>> \in Order
  <2>1. Tie(a, b)' <=> Tie(a, b)
    BY Zenon, <1>1, <1>4, <1>5 DEF Tie
  <2>2. Less(a, b)' <=> Less(a, b)
    BY Zenon, <1>1, <1>3, <1>4, <2>1 DEF Less
  <2>3. a \in mapBlockIndex' /\ b \in mapBlockIndex'
    BY <1>1
  <2> QED BY <2>2, <2>3 DEF Order
<1> QED BY Zenon, <1>3, <1>6

(* Sequence ids stay distinct.                                               *)
LEMMA SequenceStep == ASSUME Base, SequenceInv, Next PROVE SequenceInv'
<1>1. CASE AddToBlockIndex
  <2>1. pc = "accept" /\ ~AcceptRejects(cur) /\ NewEntry
    BY Zenon, <1>1 DEF AddToBlockIndex, NewEntry
  <2>2. /\ nSequenceId'[cur] = Cardinality(mapBlockIndex) + 1
        /\ \A a \in mapBlockIndex : nSequenceId'[a] = nSequenceId[a]
        /\ mapBlockIndex' = mapBlockIndex \cup {cur} /\ cur \notin mapBlockIndex
    BY Zenon, <2>1, NewEntryOrder, NewEntryKeepsIndex, CallerTypes
  <2>3. /\ Cardinality(mapBlockIndex) \in Nat
        /\ Cardinality(mapBlockIndex') = Cardinality(mapBlockIndex) + 1
    <3>1. IsFiniteSet(mapBlockIndex)
      BY Zenon, CallerTypes, ChainAssumption, FS_Subset
    <3> QED BY Zenon, <2>2, <3>1, FS_AddElement, FS_CardinalityType
  <2>4. ASSUME NEW a \in mapBlockIndex
        PROVE  /\ nSequenceId'[a] <= Cardinality(mapBlockIndex)
               /\ nSequenceId'[a] # nSequenceId'[cur]
               /\ nSequenceId'[a] <= Cardinality(mapBlockIndex')
    <3>1. nSequenceId[a] \in Nat /\ nSequenceId[a] <= Cardinality(mapBlockIndex)
      BY Zenon, LessTypes DEF SequenceInv
    <3> QED BY <2>2, <2>3, <3>1
  <2>5. nSequenceId'[cur] <= Cardinality(mapBlockIndex')
    BY <2>2, <2>3
  <2>6. \A a \in mapBlockIndex' : nSequenceId'[a] <= Cardinality(mapBlockIndex')
    BY Zenon, <2>2, <2>4, <2>5
  <2>7. ASSUME NEW a \in mapBlockIndex', NEW b \in mapBlockIndex', nSequenceId'[a] = nSequenceId'[b]
        PROVE  a = b
    <3>1. a \in mapBlockIndex /\ b \in mapBlockIndex => a = b
      <4> SUFFICES ASSUME a \in mapBlockIndex, b \in mapBlockIndex PROVE a = b
        OBVIOUS
      <4>1. nSequenceId[a] = nSequenceId[b]
        BY Zenon, <2>2, <2>7
      <4> QED BY Zenon, <4>1 DEF SequenceInv
    <3>2. (a \in mapBlockIndex \/ a = cur) /\ (b \in mapBlockIndex \/ b = cur)
      BY <2>2
    <3> QED BY Zenon, <2>4, <2>7, <3>1, <3>2
  <2> QED BY Zenon, <2>6, <2>7 DEF SequenceInv
<1>2. CASE UNCHANGED <<network, index>>
  BY Zenon, <1>2 DEF SequenceInv, index, fields
<1>3. CASE PopInvalid \/ RejectCandidate \/ ConnectTipInvalid
  <2>1. UNCHANGED <<network, index>>
    BY <1>3 DEF PopInvalid, RejectCandidate, ConnectTipInvalid
  <2> QED BY Zenon, <1>2, <2>1
<1> QED BY Zenon, <1>1, <1>2, <1>3, QuietSteps

(* In a sorted set every element is found.                                   *)
LEMMA ErasureIs ==
  ASSUME Base, SequenceInv, NEW s \in Seq(mapBlockIndex), Sorted(s, Order), NEW S,
         NEW t \in Erasures(s, S)
  PROVE  Sorted(t, Order) /\ Range(t) = Range(s) \ S
<1>1. ASSUME NEW b, NEW i \in 1..Len(s), NEW j \in 1..Len(s), s[j] = b, i # j
      PROVE  Less(s[i], b) <=> i < j
  <2>1. s[i] \in mapBlockIndex /\ s[j] \in mapBlockIndex
    OBVIOUS
  <2>2. i < j \/ j < i
    BY <1>1
  <2>3. i < j => <<s[i], s[j]>> \in Order
    BY Zenon DEF Sorted
  <2>4. j < i => <<s[j], s[i]>> \in Order
    BY Zenon DEF Sorted
  <2>5. ~ (i < j /\ j < i)
    OBVIOUS
  <2> QED BY Zenon, <1>1, <2>1, <2>2, <2>3, <2>4, <2>5, OrderLinear
<1>2. \A b \in S : Findable(s, b)
  BY Zenon, <1>1 DEF Findable, Misplaced
<1>3. t = Without(s, S)
  <2>1. PICK D \in SUBSET (S \cup UNION {EqualRange(s, b) : b \in S}) :
          (\A b \in S : Findable(s, b) => b \in D) /\ t = Without(s, D)
    BY DEF Erasures
  <2>2. \A b \in S : EqualRange(s, b) = {}
    BY Zenon, <1>2 DEF EqualRange, Findable
  <2>3. D = S
    BY Zenon, <1>2, <2>1, <2>2
  <2> QED BY Zenon, <2>1, <2>3
<1>4. Range(t) = Range(s) \ S
  BY <1>3, WithoutSet
<1>5. Sorted(t, Order)
  BY Zenon, <1>3, WithoutSorted
<1> QED BY <1>4, <1>5

(* Where the new entry stands among the candidates.                          *)
LEMMA NewEntryPlace ==
  ASSUME NEW b, NEW s \in Seq(mapBlockIndex), s = setBlockIndexValid, NewIndexEntry(b),
         mapBlockIndex' = mapBlockIndex \cup {b}
  PROVE  \E i \in 1..Len(s) + 1 :
           /\ setBlockIndexValid' = Insert(s, i, b)
           /\ i = 1 \/ <<s[i - 1], b>> \in Order'
           /\ i = Len(s) + 1 \/ <<b, s[i]>> \in Order'
<1>1. PICK i \in Places(s, b)' : setBlockIndexValid' = Insert(s, i, b)
  BY DEF NewIndexEntry
<1>2. /\ i \in 1..Len(s) + 1
      /\ i = 1 \/ Less(s[i - 1], b)'
      /\ i = Len(s) + 1 \/ Less(b, s[i])'
  BY <1>1 DEF Places
<1>3. b \in mapBlockIndex' /\ \A j \in 1..Len(s) : s[j] \in mapBlockIndex'
  OBVIOUS
<1>4. i = 1 \/ <<s[i - 1], b>> \in Order'
  <2>1. CASE i # 1
    <3>1. i - 1 \in 1..Len(s)
      BY <1>2, <2>1
    <3> QED BY <1>2, <1>3, <2>1, <3>1 DEF Order
  <2> QED BY <2>1
<1>5. i = Len(s) + 1 \/ <<b, s[i]>> \in Order'
  <2>1. CASE i # Len(s) + 1
    <3>1. i \in 1..Len(s)
      BY <1>2, <2>1
    <3> QED BY <1>2, <1>3, <2>1, <3>1 DEF Order
  <2> QED BY <2>1
<1> QED BY Zenon, <1>1, <1>2, <1>4, <1>5

(* The candidates stay sorted.                                               *)
LEMMA CandStep ==
  ASSUME Base, SequenceInv, CandInv, OrderTransitive', Next PROVE CandInv'
<1>1. /\ setBlockIndexValid \in Seq(mapBlockIndex) /\ failed \subseteq mapBlockIndex
      /\ Sorted(setBlockIndexValid, Order) /\ UnfailedAreCandidates
      /\ \A b \in Range(setBlockIndexValid) : b \notin failed
  BY Zenon, BaseTypes DEF CandInv
<1>2. CASE UNCHANGED <<network, index, marks>>
  <2>1. /\ Order' = Order /\ setBlockIndexValid' = setBlockIndexValid /\ failed' = failed
        /\ mapBlockIndex' = mapBlockIndex
    BY Zenon, <1>2, OrderKept DEF marks, index
  <2> QED BY Zenon, <1>1, <2>1 DEF CandInv, Sorted, UnfailedAreCandidates
<1>3. ASSUME UNCHANGED <<network, index>>, NEW S, failed' = failed \cup S,
             setBlockIndexValid' \in Erasures(setBlockIndexValid, S)
      PROVE  CandInv'
  <2>1. Order' = Order
    BY Zenon, <1>3, OrderKept
  <2>2. /\ Sorted(setBlockIndexValid', Order)
        /\ Range(setBlockIndexValid') = Range(setBlockIndexValid) \ S
    BY Zenon, <1>1, <1>3, ErasureIs
  <2>3. \A b \in Range(setBlockIndexValid') : b \notin failed'
    BY <1>1, <1>3, <2>2
  <2>4. UnfailedAreCandidates'
    <3>1. mapBlockIndex' = mapBlockIndex
      BY Zenon, <1>3 DEF index
    <3> QED BY Zenon, <1>1, <1>3, <2>2, <3>1 DEF UnfailedAreCandidates
  <2> QED BY Zenon, <2>1, <2>2, <2>3, <2>4 DEF CandInv, Sorted
<1>4. CASE PopInvalid
  <2>1. /\ UNCHANGED <<network, index>> /\ failed' = failed \cup {mostWork}
        /\ setBlockIndexValid' \in Erasures(setBlockIndexValid, {mostWork})
    BY <1>4 DEF PopInvalid
  <2> QED BY Zenon, <1>3, <2>1
<1>5. CASE RejectCandidate
  <2> DEFINE above == {x \in Path(Candidate) : \A y \in FailedAncestors : nHeight[x] > nHeight[y]}
  <2>1. /\ UNCHANGED <<network, index>> /\ failed' = failed \cup above
        /\ setBlockIndexValid' \in Erasures(setBlockIndexValid, above)
    BY <1>5 DEF RejectCandidate
  <2> HIDE DEF above
  <2> QED BY Zenon, <1>3, <2>1
<1>6. CASE ConnectTipInvalid
  <2>1. /\ UNCHANGED <<network, index>> /\ failed' = failed \cup {pindexConnect}
        /\ setBlockIndexValid' \in Erasures(setBlockIndexValid, {pindexConnect})
    BY <1>6 DEF ConnectTipInvalid
  <2> QED BY Zenon, <1>3, <2>1
<1>7. CASE AddToBlockIndex
  <2>1. pc = "accept" /\ ~AcceptRejects(cur) /\ NewEntry /\ failed' = failed
    BY Zenon, <1>7 DEF AddToBlockIndex, NewEntry
  <2>2. /\ mapBlockIndex' = mapBlockIndex \cup {cur} /\ cur \notin mapBlockIndex
        /\ \A a, b \in mapBlockIndex : <<a, b>> \in Order' <=> <<a, b>> \in Order
    BY Zenon, <2>1, NewEntryOrder, NewEntryKeepsIndex, CallerTypes
  <2>3. PICK b \in {cur} : NewIndexEntry(b)
    BY Zenon, <2>1 DEF NewEntry
  <2>4. PICK s : s = setBlockIndexValid
    OBVIOUS
  <2>5. s \in Seq(mapBlockIndex) /\ s \in Seq(mapBlockIndex') /\ b \in mapBlockIndex' /\ b = cur
    BY <1>1, <2>2, <2>3, <2>4, SeqLarger
  <2>6. PICK i \in 1..Len(s) + 1 :
          /\ setBlockIndexValid' = Insert(s, i, b)
          /\ i = 1 \/ <<s[i - 1], b>> \in Order'
          /\ i = Len(s) + 1 \/ <<b, s[i]>> \in Order'
    <3>1. mapBlockIndex' = mapBlockIndex \cup {b}
      BY Zenon, <2>2, <2>5
    <3> QED BY Zenon, <2>3, <2>4, <2>5, <3>1, NewEntryPlace
  <2>7. Sorted(s, Order')
    <3>1. \A j \in 1..Len(s) : s[j] \in mapBlockIndex
      BY <2>5
    <3> QED BY Zenon, <1>1, <2>2, <2>4, <3>1 DEF Sorted
  <2>8. \A x, y, z \in mapBlockIndex' : <<x, y>> \in Order' /\ <<y, z>> \in Order' => <<x, z>> \in Order'
    <3>1. OrderTransitive' <=> \A x, y, z \in mapBlockIndex' : Less(x, y)' /\ Less(y, z)' => Less(x, z)'
      BY Zenon DEF OrderTransitive
    <3>2. \A x, y \in mapBlockIndex' : <<x, y>> \in Order' <=> Less(x, y)'
      BY DEF Order
    <3> QED BY Zenon, <3>1, <3>2
  <2>9. Sorted(setBlockIndexValid', Order')
    BY Zenon, <2>5, <2>6, <2>7, <2>8, InsertSorted
  <2>10. Range(setBlockIndexValid') = Range(s) \cup {cur}
    BY SMTT(30), <2>5, <2>6, InsertSet
  <2>11. UnfailedAreCandidates'
    BY Zenon, <1>1, <2>1, <2>2, <2>4, <2>10 DEF UnfailedAreCandidates
  <2> QED BY Zenon, <1>1, <2>1, <2>2, <2>4, <2>9, <2>10, <2>11 DEF CandInv, Sorted
<1>8. QED
  BY Zenon, <1>2, <1>4, <1>5, <1>6, <1>7, QuietSteps

(* An error is counted once and for all.                                     *)
LEMMA FailuresStep == ASSUME Base, Next PROVE failures' = failures \/ failures' # 0
<1>1. failures' = failures \/ Fails
  BY Zenon DEF Next, Handler, ReceiveRejected, ReceiveOrphan, Receive, NextChild, NoMoreChildren,
         AcceptFails, AddToBlockIndex, PopInvalid, PopDone, RejectCandidate, TakeCandidate,
         DisconnectTip, DisconnectDone, ConnectTip, ConnectTipFails, ConnectTipAborts,
         ConnectTipInvalid, ConnectTipCorrupt, ActivateDone, vars
<1> QED BY Zenon, <1>1, FailsNotZero

(* The history variables change when a block is received.                    *)
LEMMA RestKept == Next => UNCHANGED rest \/ \E b \in Others : Receive(b)
BY Zenon DEF Next, Handler, ReceiveRejected, ReceiveOrphan, NextChild, NoMoreChildren,
         AcceptFails, AddToBlockIndex, PopInvalid, PopDone, RejectCandidate, TakeCandidate,
         DisconnectTip, DisconnectDone, ConnectTip, ConnectTipFails, ConnectTipAborts,
         ConnectTipInvalid, ConnectTipCorrupt, ActivateDone, vars

(* What was best at the last rest stays the best of what was known then.     *)
LEMMA OldStep == ASSUME IndInv, SequenceInv, OldInv, BestInv, Next PROVE OldInv'
<1>0. Base
  BY Zenon DEF IndInv
<1>1. failures' = 0 => failures = 0
  BY Zenon, <1>0, FailuresStep
<1>2. CASE \E b \in Others : Receive(b)
  <2>1. /\ pc = "idle" /\ oldTip' = tip /\ oldIndex' = mapBlockIndex
        /\ UNCHANGED <<network, index>>
    BY Zenon, <1>2 DEF Receive
  <2>2. /\ mapBlockIndex' = mapBlockIndex /\ hashPrev' = hashPrev /\ verdict' = verdict
        /\ nSequenceId' = nSequenceId /\ Order' = Order
    BY Zenon, <2>1, OrderKept DEF network, index, fields
  <2>3. tip \in mapBlockIndex /\ Valid(hashPrev, verdict, tip)
    BY Zenon, <1>0 DEF IndInv, TipInv, Base, TypeOK
  <2>4. failures = 0 => Best(tip, mapBlockIndex)
    BY <2>1 DEF BestInv, Resting
  <2>5. (failures = 0 => Best(oldTip, oldIndex))'
    BY Zenon, <1>1, <2>1, <2>2, <2>4 DEF Best
  <2>6. Valid(hashPrev, verdict, oldTip)'
    BY Zenon, <2>1, <2>2, <2>3 DEF Valid
  <2> QED BY Zenon, <2>1, <2>2, <2>3, <2>5, <2>6 DEF OldInv
<1>3. CASE UNCHANGED rest /\ UNCHANGED <<network, index>>
  <2>1. /\ oldTip' = oldTip /\ oldIndex' = oldIndex /\ mapBlockIndex' = mapBlockIndex
        /\ hashPrev' = hashPrev /\ verdict' = verdict
        /\ nSequenceId' = nSequenceId /\ Order' = Order
    BY Zenon, <1>3, OrderKept DEF rest, network, index, fields
  <2> QED BY Zenon, <1>1, <2>1 DEF OldInv, Best, Valid
<1>4. CASE UNCHANGED rest /\ AddToBlockIndex
  <2>1. pc = "accept" /\ ~AcceptRejects(cur) /\ NewEntry
    BY Zenon, <1>4 DEF AddToBlockIndex, NewEntry
  <2>2. /\ mapBlockIndex' = mapBlockIndex \cup {cur} /\ cur \notin mapBlockIndex
        /\ hashPrev' = hashPrev /\ verdict' = verdict
        /\ nSequenceId'[cur] = Cardinality(mapBlockIndex) + 1
        /\ \A a \in mapBlockIndex : nSequenceId'[a] = nSequenceId[a]
        /\ \A a, b \in mapBlockIndex : <<a, b>> \in Order' <=> <<a, b>> \in Order
    BY Zenon, <1>0, <2>1, NewEntryOrder, NewEntryKeepsIndex, CallerTypes
  <2>3. oldTip' = oldTip /\ oldIndex' = oldIndex
    BY Zenon, <1>4 DEF rest
  <2>4. ASSUME NEW a \in oldIndex PROVE nSequenceId'[a] < nSequenceId'[cur]
    <3>1. a \in mapBlockIndex
      BY Zenon DEF OldInv
    <3>2. nSequenceId[a] \in Nat /\ nSequenceId[a] <= Cardinality(mapBlockIndex)
      BY Zenon, <1>0, <3>1, LessTypes DEF SequenceInv
    <3>3. Cardinality(mapBlockIndex) \in Nat
      BY Zenon, <1>0, CallerTypes, ChainAssumption, FS_Subset, FS_CardinalityType
    <3> QED BY <2>2, <3>1, <3>2, <3>3
  <2>5. \A a \in oldIndex, b \in mapBlockIndex' \ oldIndex : nSequenceId'[a] < nSequenceId'[b]
    BY Zenon, <2>2, <2>4 DEF OldInv
  <2>6. (failures = 0 => Best(oldTip, oldIndex))'
    <3>1. oldIndex \subseteq mapBlockIndex /\ oldTip \in oldIndex
      BY Zenon DEF OldInv
    <3>2. \A c \in oldIndex : <<oldTip, c>> \in Order' => <<oldTip, c>> \in Order
      BY Zenon, <2>2, <3>1
    <3> QED BY Zenon, <1>1, <2>2, <2>3, <3>2 DEF OldInv, Best
  <2> QED BY Zenon, <2>2, <2>3, <2>5, <2>6 DEF OldInv, Valid
<1>5. CASE UNCHANGED rest /\ (PopInvalid \/ RejectCandidate \/ ConnectTipInvalid)
  <2>1. UNCHANGED <<network, index>>
    BY <1>5 DEF PopInvalid, RejectCandidate, ConnectTipInvalid
  <2> QED BY Zenon, <1>3, <1>5, <2>1
<1> QED BY Zenon, <1>2, <1>3, <1>4, <1>5, RestKept, QuietSteps

(* The candidate is the best of the blocks with a valid chain.               *)
LEMMA CandidateGreatest ==
  ASSUME IndInv, SequenceInv, CandInv
  PROVE  /\ setBlockIndexValid # <<>> /\ Candidate \in mapBlockIndex
         /\ \A c \in mapBlockIndex :
              Valid(hashPrev, verdict, c) => c = Candidate \/ Less(c, Candidate)
<1>1. /\ Base /\ setBlockIndexValid \in Seq(mapBlockIndex)
      /\ Sorted(setBlockIndexValid, Order)
  BY Zenon, BaseTypes DEF IndInv, CandInv
<1>2. ASSUME NEW c \in mapBlockIndex, Valid(hashPrev, verdict, c)
      PROVE  \E j \in 1..Len(setBlockIndexValid) : c = setBlockIndexValid[j]
  <2>1. c \notin failed
    BY Zenon, <1>2 DEF IndInv, FailedInv
  <2>2. c \in Range(setBlockIndexValid)
    BY Zenon, <2>1 DEF CandInv, UnfailedAreCandidates
  <2>3. DOMAIN setBlockIndexValid = 1..Len(setBlockIndexValid)
    BY Zenon, <1>1, SeqDomain
  <2> QED BY Zenon, <2>2, <2>3 DEF Range
<1>3. Genesis \in mapBlockIndex /\ Valid(hashPrev, verdict, Genesis)
  <2>1. Genesis \in mapBlockIndex
    BY Zenon, <1>1 DEF Base, IndexOK, Closed
  <2>2. Paths(hashPrev)[Genesis] = {Genesis}
    BY Zenon, <1>1, BaseTypes, PathsOf
  <2> QED BY Zenon, <2>1, <2>2 DEF Valid
<1>4. setBlockIndexValid # <<>>
  <2>1. PICK j \in 1..Len(setBlockIndexValid) : Genesis = setBlockIndexValid[j]
    BY Zenon, <1>2, <1>3
  <2> QED BY <1>1, <2>1
<1>5. ASSUME NEW c \in mapBlockIndex, Valid(hashPrev, verdict, c)
      PROVE  c = Candidate \/ Less(c, Candidate)
  <2>1. PICK j \in 1..Len(setBlockIndexValid) : c = setBlockIndexValid[j]
    BY Zenon, <1>2, <1>5
  <2>2. /\ Len(setBlockIndexValid) \in 1..Len(setBlockIndexValid)
        /\ j = Len(setBlockIndexValid) \/ j < Len(setBlockIndexValid)
    BY <1>1, <2>1
  <2>3. c = Candidate \/ <<c, Candidate>> \in Order
    BY Zenon, <1>1, <2>1, <2>2 DEF Candidate, Sorted
  <2> QED BY Zenon, <1>1, <1>4, <2>3, CandidateIndexed, OrderLinear
<1> QED BY Zenon, <1>1, <1>4, <1>5, CandidateIndexed

(* FindMostWorkChain returns the best chain.                                 *)
LEMMA TakeBest ==
  ASSUME IndInv, SequenceInv, CandInv, OrderTransitive, TakeCandidate
  PROVE  pc' = "disconnect" /\ Best(mostWork, mapBlockIndex)'
<1>1. Base /\ mostWork \in mapBlockIndex \cup {NoBlock} /\ NoBlock \notin mapBlockIndex
  BY Zenon, CallerTypes DEF IndInv, Base, TypeOK
<1>2. /\ setBlockIndexValid # <<>> /\ Candidate \in mapBlockIndex
      /\ \A c \in mapBlockIndex :
           Valid(hashPrev, verdict, c) => c = Candidate \/ Less(c, Candidate)
  BY Zenon, CandidateGreatest
<1>3. /\ UNCHANGED <<network, index>>
      /\ \/ mostWork' = Candidate
         \/ mostWork' = mostWork /\ mostWork # NoBlock /\ ~Less(mostWork, Candidate)
      /\ pc' = IF mostWork' = NoBlock THEN "done" ELSE "disconnect"
  BY Zenon, <1>2 DEF TakeCandidate
<1>4. mostWork' \in mapBlockIndex
  BY <1>1, <1>2, <1>3
<1>5. pc' = "disconnect"
  BY Zenon, <1>1, <1>3, <1>4
<1>6. ASSUME NEW c \in mapBlockIndex, Valid(hashPrev, verdict, c) PROVE ~Less(mostWork', c)
  <2>1. c = Candidate \/ Less(c, Candidate)
    BY Zenon, <1>2, <1>6
  <2>2. CASE mostWork' = Candidate
    <3>1. ~Less(Candidate, c)
      BY Zenon, <1>1, <1>2, <2>1, OrderLinear
    <3> QED BY Zenon, <2>2, <3>1
  <2>3. CASE mostWork' = mostWork /\ mostWork # NoBlock /\ ~Less(mostWork, Candidate)
    <3>1. mostWork \in mapBlockIndex
      BY Zenon, <1>4, <2>3
    <3>2. ~Less(mostWork, c)
      BY Zenon, <1>2, <2>1, <2>3, <3>1 DEF OrderTransitive
    <3> QED BY Zenon, <2>3, <3>2
  <2> QED BY Zenon, <1>3, <2>2, <2>3
<1>7. \A c \in mapBlockIndex : Valid(hashPrev, verdict, c) => <<mostWork', c>> \notin Order
  BY Zenon, <1>1, <1>4, <1>6, OrderLinear
<1>8. UNCHANGED <<mapBlockIndex, hashPrev, verdict, Order>>
  BY Zenon, <1>3, OrderKept DEF network, index
<1> QED BY Zenon, <1>5, <1>7, <1>8 DEF Best

(* ActivateBestChain ends at the chain it was given.                         *)
LEMMA DoneAtMostWork ==
  ASSUME Base, pc = "connect", mostWork \in Path(tip) PROVE tip = mostWork
<1>1. tip \in mapBlockIndex /\ mostWork \in mapBlockIndex /\ tip \in Paths(hashPrev)[mostWork]
  BY Zenon DEF Base, TypeOK, HandlerOK
<1>2. tip \in Path(mostWork)
  BY Zenon, <1>1, IndexPaths
<1>3. /\ nHeight[mostWork] <= nHeight[tip] /\ nHeight[tip] <= nHeight[mostWork]
      /\ nHeight[tip] = nHeight[mostWork] => tip = mostWork
  BY Zenon, <1>1, <1>2, IndexGrows
<1>4. nHeight[tip] \in Nat /\ nHeight[mostWork] \in Nat
  BY Zenon, <1>1, LessTypes
<1> QED BY <1>3, <1>4

(* AcceptBlock returns to ProcessBlock.                                      *)
LEMMA ReturnsTo == ASSUME NEW success, AcceptReturns(success) PROVE pc' \in {"idle", "children"}
BY DEF AcceptReturns

(* The steps as far as the best chain is concerned: before it is known,      *)
(* after an error, at rest, on the way to it, when it is found and reached.  *)
LEMMA BestSteps ==
  ASSUME Base, Next
  PROVE  \/ pc' \in {"pop", "candidate", "aborted"}
         \/ pc' \in {"idle", "children"} /\ failures' # 0
         \/ /\ pc \in Resting /\ pc' \in Resting /\ tip' = tip
            /\ UNCHANGED <<network, index>>
         \/ /\ pc \in {"disconnect", "connect"} /\ pc' \in {"disconnect", "connect"}
            /\ mostWork' = mostWork /\ UNCHANGED <<network, index>>
         \/ TakeCandidate
         \/ ActivateDone /\ pc' \in {"idle", "children"}
<1>1. CASE \E b \in Others : ReceiveRejected(b) \/ ReceiveOrphan(b) \/ Receive(b)
  BY Zenon, <1>1 DEF ReceiveRejected, ReceiveOrphan, Receive, vars, chains, Resting
<1>2. CASE NextChild
  BY Zenon, <1>2 DEF NextChild, chains, Resting
<1>3. CASE NoMoreChildren
  <2>1. pc' \in {"idle", "children"}
    BY Zenon, <1>3 DEF NoMoreChildren
  <2> QED BY Zenon, <1>3, <2>1 DEF NoMoreChildren, chains, Resting
<1>4. CASE AcceptFails
  <2>1. pc' \in {"idle", "children"}
    BY Zenon, <1>4, ReturnsTo DEF AcceptFails
  <2> QED BY Zenon, <1>4, <2>1, FailsNotZero DEF AcceptFails, chains, Resting
<1>5. CASE AddToBlockIndex
  BY Zenon, <1>5, ReturnsTo, FailsNotZero DEF AddToBlockIndex
<1>6. CASE PopInvalid \/ PopDone \/ RejectCandidate
  BY Zenon, <1>6 DEF PopInvalid, PopDone, RejectCandidate
<1>7. CASE DisconnectTip
  BY Zenon, <1>7, ReturnsTo, FailsNotZero DEF DisconnectTip, Disconnecting
<1>8. CASE DisconnectDone \/ ConnectTip
  BY Zenon, <1>8 DEF DisconnectDone, ConnectTip, Connecting, chains
<1>9. CASE ConnectTipFails
  BY Zenon, <1>9, ReturnsTo, FailsNotZero DEF ConnectTipFails
<1>10. CASE ConnectTipAborts \/ ConnectTipInvalid \/ ConnectTipCorrupt
  BY Zenon, <1>10 DEF ConnectTipAborts, ConnectTipInvalid, ConnectTipCorrupt
<1>11. CASE ActivateDone
  BY Zenon, <1>11, ReturnsTo DEF ActivateDone
<1> QED BY Zenon, <1>1, <1>2, <1>3, <1>4, <1>5, <1>6, <1>7, <1>8, <1>9, <1>10, <1>11
       DEF Next, Handler

(* The best chain is found and reached.                                      *)
LEMMA BestStep ==
  ASSUME IndInv, SequenceInv, CandInv, BestInv, OrderTransitive, Next PROVE BestInv'
<1>0. Base
  BY Zenon DEF IndInv
<1>1. CASE pc' \in {"pop", "candidate", "aborted"}
  BY <1>1 DEF BestInv, Resting
<1>2. CASE pc' \in {"idle", "children"} /\ failures' # 0
  BY <1>2 DEF BestInv, Resting
<1>3. CASE /\ pc \in Resting /\ pc' \in Resting /\ tip' = tip
           /\ UNCHANGED <<network, index>>
  <2>1. UNCHANGED <<mapBlockIndex, hashPrev, verdict, Order>>
    BY Zenon, <1>3, OrderKept DEF network, index
  <2>2. failures' = 0 => Best(tip, mapBlockIndex)
    BY Zenon, <1>0, <1>3, FailuresStep DEF BestInv
  <2>3. (failures = 0 => Best(tip, mapBlockIndex))'
    BY Zenon, <1>3, <2>1, <2>2 DEF Best
  <2>4. pc' # "done" /\ pc' \notin {"disconnect", "connect"}
    BY <1>3 DEF Resting
  <2> QED BY Zenon, <2>3, <2>4 DEF BestInv
<1>4. CASE /\ pc \in {"disconnect", "connect"} /\ pc' \in {"disconnect", "connect"}
           /\ mostWork' = mostWork /\ UNCHANGED <<network, index>>
  <2>1. UNCHANGED <<mapBlockIndex, hashPrev, verdict, Order>>
    BY Zenon, <1>4, OrderKept DEF network, index
  <2>2. Best(mostWork, mapBlockIndex)'
    BY Zenon, <1>4, <2>1 DEF BestInv, Best
  <2>3. pc' # "done" /\ pc' \notin Resting
    BY <1>4 DEF Resting
  <2> QED BY Zenon, <2>2, <2>3 DEF BestInv
<1>5. CASE TakeCandidate
  <2>1. pc' = "disconnect" /\ Best(mostWork, mapBlockIndex)'
    BY Zenon, <1>5, TakeBest
  <2>2. pc' # "done" /\ pc' \notin Resting
    BY <2>1 DEF Resting
  <2> QED BY Zenon, <2>1, <2>2 DEF BestInv
<1>6. CASE ActivateDone /\ pc' \in {"idle", "children"}
  <2>1. /\ pc = "connect" /\ mostWork \in Path(tip)
        /\ UNCHANGED <<network, index>> /\ tip' = tip
    BY Zenon, <1>6 DEF ActivateDone, BestInv, chains
  <2>2. UNCHANGED <<mapBlockIndex, hashPrev, verdict, Order>>
    BY Zenon, <2>1, OrderKept DEF network, index
  <2>3. Best(tip, mapBlockIndex)
    BY Zenon, <1>0, <2>1, DoneAtMostWork DEF BestInv
  <2>4. Best(tip, mapBlockIndex)'
    BY Zenon, <2>1, <2>2, <2>3 DEF Best
  <2>5. pc' # "done" /\ pc' \notin {"disconnect", "connect"}
    BY <1>6
  <2> QED BY Zenon, <2>4, <2>5 DEF BestInv
<1> QED BY Zenon, <1>0, <1>1, <1>2, <1>3, <1>4, <1>5, <1>6, BestSteps

(* In the initial state Genesis is the only block.                           *)
LEMMA OrdInit == Init => OrdInv
<1> SUFFICES ASSUME Init PROVE OrdInv
  OBVIOUS
<1>1. /\ mapBlockIndex = {Genesis} /\ nSequenceId[Genesis] = 1
      /\ oldIndex = {Genesis} /\ oldTip = Genesis /\ tip = Genesis
      /\ setBlockIndexValid = <<Genesis>> /\ failed = {} /\ pc = "idle"
  BY ChainAssumption DEF Init
<1>2. Order = {}
  <2>1. ~Less(Genesis, Genesis)
    BY <1>1 DEF Less, Tie
  <2> QED BY <1>1, <2>1 DEF Order
<1>3. SequenceInv
  <2>1. Cardinality({Genesis}) = 1
    BY FS_Singleton
  <2> QED BY <1>1, <2>1 DEF SequenceInv
<1>4. \A b, M : Best(b, M)
  BY <1>2 DEF Best
<1>5. OldInv
  <2>1. Valid(hashPrev, verdict, oldTip)
    BY Zenon, <1>1, IndInit DEF IndInv, TipInv
  <2> QED BY Zenon, <1>1, <1>4, <2>1 DEF OldInv
<1>6. CandInv
  BY <1>1 DEF CandInv, Sorted, UnfailedAreCandidates, Range
<1>7. BestInv
  BY <1>1, <1>4 DEF BestInv
<1> QED BY Zenon, <1>3, <1>5, <1>6, <1>7 DEF OrdInv

(* Every step keeps it, while the comparator is transitive.                  *)
LEMMA OrdStep ==
  IndInv /\ OrdInv /\ OrderTransitive /\ OrderTransitive' /\ [Next]_vars => OrdInv'
<1> SUFFICES ASSUME IndInv, OrdInv, OrderTransitive, OrderTransitive', [Next]_vars PROVE OrdInv'
  OBVIOUS
<1>0. Base /\ SequenceInv /\ OldInv /\ CandInv /\ BestInv
  BY Zenon DEF IndInv, OrdInv
<1>1. CASE Next
  BY Zenon, <1>0, <1>1, SequenceStep, OldStep, CandStep, BestStep DEF OrdInv
<1>2. CASE UNCHANGED vars
  <2>1. /\ UNCHANGED <<mapBlockIndex, hashPrev, verdict, nSequenceId, setBlockIndexValid, failed>>
        /\ UNCHANGED <<tip, mostWork, pc, failures, oldTip, oldIndex>>
    BY Zenon, <1>2 DEF vars, network, index, fields, marks, chains, rest
  <2>2. Order' = Order
    BY Zenon, <1>2, OrderKept DEF vars
  <2>3. SequenceInv'
    BY Zenon, <1>0, <2>1 DEF SequenceInv
  <2>4. OldInv'
    BY Zenon, <1>0, <2>1, <2>2 DEF OldInv, Valid, Best
  <2>5. CandInv'
    BY Zenon, <1>0, <2>1, <2>2 DEF CandInv, Sorted, UnfailedAreCandidates
  <2>6. BestInv'
    BY Zenon, <1>0, <2>1, <2>2 DEF BestInv, Best
  <2> QED BY Zenon, <2>3, <2>4, <2>5, <2>6 DEF OrdInv
<1> QED BY Zenon, <1>1, <1>2

(* The inductive invariant about the best chain.                             *)
LEMMA OrdHolds == Spec /\ []OrderTransitive => []OrdInv
<1>1. IndInv /\ OrdInv /\ OrderTransitive /\ OrderTransitive' /\ [Next]_vars => OrdInv'
  BY OrdStep
<1> QED BY <1>1, OrdInit, InvariantHolds, PTL DEF Spec

(* The comparator is transitive when no two blocks can differ in the mature  *)
(* coins they spend, whatever their work, height and order of arrival.       *)
THEOREM TransitiveWithoutTies == MaxMature = 0 => (Spec => []OrderTransitive)
<1>1. ASSUME MaxMature = 0, IndInv PROVE OrderTransitive
  <2>0. Base /\ nMatureCoinsSpent \in [Blocks -> 0..0] /\ mapBlockIndex \subseteq Blocks
    BY Zenon, <1>1 DEF IndInv, Base, TypeOK
  <2>1. \A a \in mapBlockIndex : nMatureCoinsSpent[a] = 0
    BY <2>0
  <2>2. \A a, b \in mapBlockIndex : ~Tie(a, b)
    BY Zenon, <2>1 DEF Tie
  <2> SUFFICES ASSUME NEW a \in mapBlockIndex, NEW b \in mapBlockIndex, NEW c \in mapBlockIndex,
                      Less(a, b), Less(b, c)
               PROVE  Less(a, c)
    BY Zenon DEF OrderTransitive
  <2>3. Keys(a) /\ Keys(b) /\ Keys(c)
    BY Zenon, <2>0, LessTypes DEF Keys
  <2> QED BY Zenon, <2>2, <2>3, LessTransitive
<1>2. MaxMature = 0 => (IndInv => OrderTransitive)
  BY <1>1
<1> SUFFICES ASSUME MaxMature = 0 PROVE Spec => []OrderTransitive
  OBVIOUS
<1>3. IndInv => OrderTransitive
  BY <1>2
<1> QED BY <1>3, InvariantHolds, PTL

(* The promise of ActivateBestChain: after a handler without disk errors no  *)
(* block of the index whose whole chain is valid is better than the tip, for *)
(* every block tree, every order of arrival, and however many better looking *)
(* chains turned out to be invalid.                                          *)
THEOREM TipIsBestValid == Spec /\ []OrderTransitive => []BestValidTip
<1>1. IndInv /\ OrdInv => BestValidTip
  <2> SUFFICES ASSUME IndInv, OrdInv, pc = "idle", failures = 0, NEW b \in mapBlockIndex,
                      FullyValid(b)
               PROVE  ~Less(tip, b)
    BY Zenon DEF BestValidTip
  <2>1. Base /\ SequenceInv /\ tip \in mapBlockIndex /\ b \in Blocks
    BY Zenon, LessTypes DEF IndInv, OrdInv, Base, TypeOK
  <2>2. Best(tip, mapBlockIndex)
    BY DEF OrdInv, BestInv, Resting
  <2>3. Valid(hashPrev, verdict, b)
    BY Zenon, <2>1, FullyValidIs
  <2> QED BY Zenon, <2>1, <2>2, <2>3, OrderLinear DEF Best
<1> QED BY <1>1, InvariantHolds, OrdHolds, PTL

(* setBlockIndexValid holds exactly the blocks that are not marked failed,   *)
(* each once: the erasures of FindMostWorkChain and ConnectTip find what     *)
(* they look for, and leave no failed block behind to be picked again.       *)
THEOREM CandidatesStayRight == Spec /\ []OrderTransitive => []CandidatesRight
<1>1. IndInv /\ OrdInv => CandidatesRight
  <2> SUFFICES ASSUME IndInv, OrdInv PROVE CandidatesRight
    OBVIOUS
  <2>1. /\ Base /\ SequenceInv /\ setBlockIndexValid \in Seq(mapBlockIndex)
        /\ Sorted(setBlockIndexValid, Order)
    BY Zenon, BaseTypes DEF IndInv, OrdInv, CandInv
  <2>2. \A x \in mapBlockIndex : <<x, x>> \notin Order
    BY Zenon, <2>1, OrderLinear
  <2>3. Cardinality(Range(setBlockIndexValid)) = Len(setBlockIndexValid)
    BY Zenon, <2>1, <2>2, SortedLength
  <2> QED BY Zenon, <2>3 DEF CandidatesRight, IndInv, OrdInv, CandInv
<1> QED BY <1>1, InvariantHolds, OrdHolds, PTL

(* The tip moves only to a block that is new, and better.                    *)
LEMMA MovesToBetter ==
  ASSUME IndInv, OrdInv, pc = "idle", failures = 0, tip # oldTip
  PROVE  Less(oldTip, tip) /\ tip \notin oldIndex
<1>1. /\ Base /\ SequenceInv /\ tip \in mapBlockIndex /\ oldTip \in mapBlockIndex
      /\ oldTip \in oldIndex /\ Valid(hashPrev, verdict, oldTip)
      /\ Valid(hashPrev, verdict, tip) /\ Best(oldTip, oldIndex)
  BY Zenon DEF IndInv, OrdInv, Base, TypeOK, TipInv, OldInv
<1>2. Best(tip, mapBlockIndex)
  BY DEF OrdInv, BestInv, Resting
<1>3. Less(oldTip, tip)
  BY Zenon, <1>1, <1>2, OrderLinear DEF Best
<1>4. tip \notin oldIndex
  BY Zenon, <1>1, <1>3, OrderLinear DEF Best
<1> QED BY Zenon, <1>3, <1>4

(* A handler moves the tip only for more work, for more height with the same *)
(* work, or for more mature coins among timely siblings: never for a block   *)
(* that is merely equal, for every block tree.                               *)
THEOREM TipMovesOnlyForReason == Spec /\ []OrderTransitive => []TipMovesForReason
<1>1. IndInv /\ OrdInv => TipMovesForReason
  <2> SUFFICES ASSUME IndInv, OrdInv, pc = "idle", failures = 0, tip # oldTip
               PROVE  TipMovesForReason
    BY Zenon DEF TipMovesForReason
  <2>1. /\ Base /\ tip \in mapBlockIndex /\ oldTip \in mapBlockIndex /\ oldTip \in oldIndex
        /\ \A a \in oldIndex, b \in mapBlockIndex \ oldIndex : nSequenceId[a] < nSequenceId[b]
    BY Zenon DEF IndInv, OrdInv, Base, TypeOK, OldInv
  <2>2. Less(oldTip, tip) /\ tip \notin oldIndex
    BY Zenon, MovesToBetter
  <2>3. nSequenceId[oldTip] < nSequenceId[tip]
    BY Zenon, <2>1, <2>2
  <2>4. Keys(tip) /\ Keys(oldTip)
    BY Zenon, <2>1, LessTypes DEF Keys
  <2> QED BY Zenon, <2>2, <2>3, <2>4, LessReason DEF TipMovesForReason
<1> QED BY <1>1, InvariantHolds, OrdHolds, PTL
-----------------------------------------------------------------------------
(* Recursion along the block tree *)

(* The parent of a block is on its path.                                     *)
LEMMA ParentOnPath ==
  ASSUME NEW f \in [Others -> Blocks], IsTree(f), NEW x \in Others
  PROVE  f[x] \in Paths(f)[x]
<1>1. f[x] \in Blocks /\ Paths(f)[x] = {x} \cup Paths(f)[f[x]]
  BY PathsOf
<1>2. f[x] \in Paths(f)[f[x]]
  BY Zenon, <1>1, PathContains
<1> QED BY Zenon, <1>1, <1>2

(* A block is not its own ancestor.                                          *)
LEMMA PathAcyclic ==
  ASSUME NEW f \in [Others -> Blocks], IsTree(f), NEW b \in Others
  PROVE  b \notin Paths(f)[f[b]]
<1> SUFFICES ASSUME b \in Paths(f)[f[b]] PROVE FALSE
  OBVIOUS
<1> DEFINE S == {y \in Others : y \in Paths(f)[b] /\ b \in Paths(f)[y]}
<1>1. b \in Blocks /\ b \in Paths(f)[b]
  BY Zenon, PathContains DEF Others
<1>2. PICK y \in S : f[y] \notin S
  <2>1. S \in SUBSET Others /\ S # {}
    BY SMTT(30), <1>1
  <2> HIDE DEF S
  <2> QED BY Zenon, <2>1 DEF IsTree
<1>3. /\ y \in Others /\ y \in Blocks /\ f[y] \in Blocks
      /\ y \in Paths(f)[b] /\ b \in Paths(f)[y]
  BY <1>2 DEF Others
<1>4. Paths(f)[y] = {y} \cup Paths(f)[f[y]]
  BY Zenon, <1>3, PathsOf
<1>5. f[y] \in Paths(f)[b]
  <2>1. f[y] \in Paths(f)[y]
    BY Zenon, <1>3, ParentOnPath
  <2> QED BY Zenon, <1>1, <1>3, <2>1, PathTransitive
<1>6. b \in Paths(f)[f[y]]
  BY Zenon, <1>3, <1>4
<1>7. f[y] # Genesis
  <2>1. Paths(f)[Genesis] = {Genesis} /\ b # Genesis
    BY Zenon, PathsOf DEF Others
  <2> QED BY Zenon, <1>6, <2>1
<1>8. f[y] \in Others
  BY Zenon, <1>3, <1>7 DEF Others
<1> QED BY Zenon, <1>2, <1>5, <1>6, <1>8

(* w has the value a at Genesis, and at the blocks of P what h makes of the  *)
(* block and of the value at its parent.                                     *)
Follows(w, f, a, h, P) ==
  w[Genesis] = a /\ \A x \in P \cap Others : w[x] = h[<<x, w[f[x]]>>]

(* There are such functions for every path.                                  *)
LEMMA PathFunction ==
  ASSUME NEW f \in [Others -> Blocks], IsTree(f),
         NEW V, NEW a \in V, NEW h \in [Others \X V -> V]
  PROVE  \A b \in Blocks : \E w \in [Blocks -> V] : Follows(w, f, a, h, Paths(f)[b])
<1> DEFINE Good == {b \in Blocks : \E w \in [Blocks -> V] : Follows(w, f, a, h, Paths(f)[b])}
<1>1. Genesis \in Good
  <2>1. [x \in Blocks |-> a] \in [Blocks -> V] /\ [x \in Blocks |-> a][Genesis] = a
    BY SMTT(30), ChainAssumption
  <2>2. Paths(f)[Genesis] \cap Others = {}
    BY PathsOf DEF Others
  <2>3. Follows([x \in Blocks |-> a], f, a, h, Paths(f)[Genesis])
    BY Zenon, <2>1, <2>2 DEF Follows
  <2> QED BY Zenon, <2>1, <2>3, ChainAssumption
<1>2. ASSUME NEW b \in Others, f[b] \in Good PROVE b \in Good
  <2>1. PICK w \in [Blocks -> V] : Follows(w, f, a, h, Paths(f)[f[b]])
    BY Zenon, <1>2
  <2>2. b \in Blocks /\ b # Genesis /\ f[b] \in Blocks /\ Genesis \in Blocks
    BY ChainAssumption DEF Others
  <2> DEFINE u == [w EXCEPT ![b] = h[<<b, w[f[b]]>>]]
  <2>3. h[<<b, w[f[b]]>>] \in V
    BY SMTT(30), <2>1, <2>2
  <2>4. u \in [Blocks -> V] /\ u[b] = h[<<b, w[f[b]]>>] /\ \A x \in Blocks : x # b => u[x] = w[x]
    BY <2>1, <2>2, <2>3
  <2> HIDE DEF u
  <2>5. u[Genesis] = a
    BY Zenon, <2>1, <2>2, <2>4 DEF Follows
  <2>6. Paths(f)[b] = {b} \cup Paths(f)[f[b]] /\ b \notin Paths(f)[f[b]]
    BY Zenon, PathsOf, PathAcyclic
  <2>7. ASSUME NEW x \in Paths(f)[b] \cap Others PROVE u[x] = h[<<x, u[f[x]]>>]
    <3>1. x \in Blocks /\ f[x] \in Blocks
      BY DEF Others
    <3>2. CASE x = b
      <4>1. f[b] # b
        BY Zenon, <2>2, <2>6, PathContains
      <4> QED BY Zenon, <2>2, <2>4, <3>2, <4>1
    <3>3. CASE x # b
      <4>1. x \in Paths(f)[f[b]]
        BY Zenon, <2>6, <2>7, <3>3
      <4>2. f[x] \in Paths(f)[f[b]]
        <5>1. f[x] \in Paths(f)[x]
          BY Zenon, ParentOnPath
        <5> QED BY Zenon, <2>2, <4>1, <5>1, PathTransitive
      <4>3. w[x] = h[<<x, w[f[x]]>>]
        BY Zenon, <2>1, <4>1 DEF Follows
      <4>4. u[x] = w[x] /\ u[f[x]] = w[f[x]]
        BY Zenon, <2>4, <2>6, <3>1, <3>3, <4>2
      <4> QED BY Zenon, <4>3, <4>4
    <3> QED BY Zenon, <3>2, <3>3
  <2>8. Follows(u, f, a, h, Paths(f)[b])
    BY Zenon, <2>5, <2>7 DEF Follows
  <2> QED BY Zenon, <2>2, <2>4, <2>8
<1>3. \A b \in Blocks : b \in Good
  <2> HIDE DEF Good
  <2> QED BY Zenon, <1>1, <1>2, TreeInduction DEF Good
<1> QED BY Zenon, <1>3

(* There is one for all blocks: recursion along the block tree defines a     *)
(* function.                                                                 *)
LEMMA TreeFunction ==
  ASSUME NEW f \in [Others -> Blocks], IsTree(f),
         NEW V, NEW a \in V, NEW h \in [Others \X V -> V]
  PROVE  \E w \in [Blocks -> V] : Follows(w, f, a, h, Blocks)
(* Two of them agree where the paths meet.                                   *)
<1> DEFINE Agree(u, w, b, c) == \A x \in Blocks : x \in Paths(f)[b] /\ x \in Paths(f)[c] => u[x] = w[x]
<1>0. ASSUME NEW u, NEW w, NEW b, NEW c,
             Follows(u, f, a, h, Paths(f)[b]), Follows(w, f, a, h, Paths(f)[c]),
             b \in Blocks, c \in Blocks
      PROVE  Agree(u, w, b, c)
  <2> DEFINE Good == {x \in Blocks : x \in Paths(f)[b] /\ x \in Paths(f)[c] => u[x] = w[x]}
  <2>1. Genesis \in Good
    BY Zenon, <1>0, ChainAssumption DEF Follows
  <2>2. ASSUME NEW x \in Others, f[x] \in Good PROVE x \in Good
    <3>1. x \in Blocks /\ f[x] \in Blocks
      BY DEF Others
    <3>2. f[x] \in Paths(f)[x]
      BY Zenon, ParentOnPath
    <3>3. ASSUME x \in Paths(f)[b], x \in Paths(f)[c] PROVE u[x] = w[x]
      <4>1. f[x] \in Paths(f)[b] /\ f[x] \in Paths(f)[c]
        BY Zenon, <1>0, <3>2, <3>3, PathTransitive
      <4>2. u[f[x]] = w[f[x]]
        BY Zenon, <2>2, <4>1
      <4> QED BY Zenon, <1>0, <3>3, <4>2 DEF Follows
    <3> QED BY Zenon, <3>1, <3>3
  <2>3. \A x \in Blocks : x \in Good
    <3> HIDE DEF Good
    <3> QED BY Zenon, <2>1, <2>2, TreeInduction DEF Good
  <2> QED BY Zenon, <2>3
<1> DEFINE On(b) == CHOOSE w \in [Blocks -> V] : Follows(w, f, a, h, Paths(f)[b])
           W == [b \in Blocks |-> On(b)[b]]
<1>1. ASSUME NEW b \in Blocks
      PROVE  On(b) \in [Blocks -> V] /\ Follows(On(b), f, a, h, Paths(f)[b])
  <2>1. \E w \in [Blocks -> V] : Follows(w, f, a, h, Paths(f)[b])
    BY Zenon, PathFunction
  <2> QED BY Zenon, <2>1
<1> HIDE DEF On
<1>2. W \in [Blocks -> V] /\ \A b \in Blocks : W[b] = On(b)[b]
  BY <1>1
<1> HIDE DEF W
<1>3. W[Genesis] = a
  BY Zenon, <1>1, <1>2, ChainAssumption DEF Follows
<1>4. ASSUME NEW x \in Others PROVE W[x] = h[<<x, W[f[x]]>>]
  <2>1. x \in Blocks /\ f[x] \in Blocks
    BY DEF Others
  <2>2. f[x] \in Paths(f)[f[x]] /\ f[x] \in Paths(f)[x] /\ x \in Paths(f)[x]
    BY Zenon, <2>1, PathContains, ParentOnPath
  <2>3. On(x)[f[x]] = On(f[x])[f[x]]
    <3>1. Follows(On(x), f, a, h, Paths(f)[x]) /\ Follows(On(f[x]), f, a, h, Paths(f)[f[x]])
      BY Zenon, <1>1, <2>1
    <3>2. Agree(On(x), On(f[x]), x, f[x])
      <4> HIDE DEF Agree
      <4> QED BY Zenon, <1>0, <2>1, <3>1
    <3> QED BY Zenon, <2>1, <2>2, <3>2
  <2>4. On(x)[x] = h[<<x, On(x)[f[x]]>>]
    BY Zenon, <1>1, <2>1, <2>2 DEF Follows
  <2> QED BY Zenon, <1>2, <2>1, <2>3, <2>4
<1>5. Follows(W, f, a, h, Blocks)
  BY Zenon, <1>3, <1>4 DEF Follows
<1> QED BY Zenon, <1>2, <1>5

-----------------------------------------------------------------------------
(* The abstract specification *)

(* The recursive functions of BestChain, for the parents f.                  *)
Works(f, h) ==
  CHOOSE w : w = [x \in Blocks |-> IF x = Genesis THEN 1 ELSE w[f[x]] + h[x]]
Lengths(f) ==
  CHOOSE n : n = [x \in Blocks |-> IF x = Genesis THEN 0 ELSE n[f[x]] + 1]
Passes(f, g) ==
  CHOOSE v : v = [x \in Blocks |-> x = Genesis \/ (g[x] /\ v[f[x]])]

(* Which blocks are good, as a function of the verdicts.                     *)
Goods(v) == [b \in Others |-> v[b] \in {"ok", "checkpoint"}]

(* BestChain's operators under the refinement mapping.                       *)
LEMMA PromiseIs ==
  \A b : /\ Promise!ChainWork(b) = Works(hashPrev, blockWork)[b]
         /\ Promise!Length(b) = Lengths(hashPrev)[b]
         /\ Promise!Valid(b) = Passes(hashPrev, Goods(verdict))[b]
BY DEF Promise!ChainWork, Promise!Length, Promise!Valid, Works, Lengths, Passes, Goods

(* The work of a chain is that of its parent's and its own.                  *)
LEMMA WorksOf ==
  ASSUME NEW f \in [Others -> Blocks], IsTree(f), NEW h \in [Others -> Nat]
  PROVE  /\ Works(f, h)[Genesis] = 1
         /\ \A x \in Others : Works(f, h)[x] = Works(f, h)[f[x]] + h[x]
<1> DEFINE k == [p \in Others \X Nat |-> p[2] + h[p[1]]]
<1>1. k \in [Others \X Nat -> Nat] /\ 1 \in Nat
  OBVIOUS
<1>2. \A x \in Others, n \in Nat : k[<<x, n>>] = n + h[x]
  OBVIOUS
<1> HIDE DEF k
<1>3. PICK w \in [Blocks -> Nat] : Follows(w, f, 1, k, Blocks)
  BY Zenon, <1>1, TreeFunction
<1>4. ASSUME NEW x \in Others PROVE w[x] = w[f[x]] + h[x]
  <2>1. x \in Blocks \cap Others /\ w[f[x]] \in Nat
    BY <1>3 DEF Others
  <2> QED BY Zenon, <1>2, <1>3, <2>1 DEF Follows
<1>5. w[Genesis] = 1
  BY Zenon, <1>3 DEF Follows
<1>6. w = [x \in Blocks |-> IF x = Genesis THEN 1 ELSE w[f[x]] + h[x]]
  BY <1>3, <1>4, <1>5 DEF Others
<1> DEFINE q == Works(f, h)
<1>7. q = [x \in Blocks |-> IF x = Genesis THEN 1 ELSE q[f[x]] + h[x]]
  BY Zenon, <1>6 DEF Works
<1> HIDE DEF q
<1>8. \A x \in Blocks : q[x] = IF x = Genesis THEN 1 ELSE q[f[x]] + h[x]
  BY Zenon, <1>7
<1>9. q[Genesis] = 1 /\ \A x \in Others : q[x] = q[f[x]] + h[x]
  BY Zenon, <1>8, ChainAssumption DEF Others
<1> QED BY Zenon, <1>9 DEF q

(* A chain is one block longer than its parent's.                            *)
LEMMA LengthsOf ==
  ASSUME NEW f \in [Others -> Blocks], IsTree(f)
  PROVE  /\ Lengths(f)[Genesis] = 0
         /\ \A x \in Others : Lengths(f)[x] = Lengths(f)[f[x]] + 1
<1> DEFINE k == [p \in Others \X Nat |-> p[2] + 1]
<1>1. k \in [Others \X Nat -> Nat] /\ 0 \in Nat
  OBVIOUS
<1>2. \A x \in Others, n \in Nat : k[<<x, n>>] = n + 1
  OBVIOUS
<1> HIDE DEF k
<1>3. PICK w \in [Blocks -> Nat] : Follows(w, f, 0, k, Blocks)
  BY Zenon, <1>1, TreeFunction
<1>4. ASSUME NEW x \in Others PROVE w[x] = w[f[x]] + 1
  <2>1. x \in Blocks \cap Others /\ w[f[x]] \in Nat
    BY <1>3 DEF Others
  <2> QED BY Zenon, <1>2, <1>3, <2>1 DEF Follows
<1>5. w[Genesis] = 0
  BY Zenon, <1>3 DEF Follows
<1>6. w = [x \in Blocks |-> IF x = Genesis THEN 0 ELSE w[f[x]] + 1]
  BY <1>3, <1>4, <1>5 DEF Others
<1> DEFINE q == Lengths(f)
<1>7. q = [x \in Blocks |-> IF x = Genesis THEN 0 ELSE q[f[x]] + 1]
  BY Zenon, <1>6 DEF Lengths
<1> HIDE DEF q
<1>8. \A x \in Blocks : q[x] = IF x = Genesis THEN 0 ELSE q[f[x]] + 1
  BY Zenon, <1>7
<1>9. q[Genesis] = 0 /\ \A x \in Others : q[x] = q[f[x]] + 1
  BY Zenon, <1>8, ChainAssumption DEF Others
<1> QED BY Zenon, <1>9 DEF q

(* A chain passes if its last block is good and its parent's chain passes.   *)
LEMMA PassesOf ==
  ASSUME NEW f \in [Others -> Blocks], IsTree(f), NEW g \in [Others -> BOOLEAN]
  PROVE  /\ Passes(f, g)[Genesis]
         /\ \A x \in Others : Passes(f, g)[x] <=> (g[x] /\ Passes(f, g)[f[x]])
<1> DEFINE k == [p \in Others \X BOOLEAN |-> g[p[1]] /\ p[2]]
<1>1. k \in [Others \X BOOLEAN -> BOOLEAN] /\ TRUE \in BOOLEAN
  OBVIOUS
<1>2. \A x \in Others, n \in BOOLEAN : k[<<x, n>>] = (g[x] /\ n)
  OBVIOUS
<1> HIDE DEF k
<1>3. PICK w \in [Blocks -> BOOLEAN] : Follows(w, f, TRUE, k, Blocks)
  BY Zenon, <1>1, TreeFunction
<1>4. ASSUME NEW x \in Others PROVE w[x] = (g[x] /\ w[f[x]])
  <2>1. x \in Blocks \cap Others /\ w[f[x]] \in BOOLEAN
    BY <1>3 DEF Others
  <2> QED BY Zenon, <1>2, <1>3, <2>1 DEF Follows
<1>5. w[Genesis] = TRUE
  BY Zenon, <1>3 DEF Follows
<1>6. w = [x \in Blocks |-> x = Genesis \/ (g[x] /\ w[f[x]])]
  <2>1. ASSUME NEW x \in Blocks PROVE w[x] = (x = Genesis \/ (g[x] /\ w[f[x]]))
    <3>1. CASE x = Genesis
      BY Zenon, <1>5, <3>1
    <3>2. CASE x # Genesis
      <4>1. x \in Others
        BY <3>2 DEF Others
      <4> QED BY Zenon, <1>4, <3>2, <4>1
    <3> QED BY Zenon, <3>1, <3>2
  <2> QED BY Zenon, <1>3, <2>1
<1> DEFINE q == Passes(f, g)
<1>7. q = [x \in Blocks |-> x = Genesis \/ (g[x] /\ q[f[x]])]
  BY Zenon, <1>6 DEF Passes
<1> HIDE DEF q
<1>8. \A x \in Blocks : q[x] = (x = Genesis \/ (g[x] /\ q[f[x]]))
  BY Zenon, <1>7
<1>9. q[Genesis] /\ \A x \in Others : q[x] <=> (g[x] /\ q[f[x]])
  BY Zenon, <1>8, ChainAssumption DEF Others
<1> QED BY Zenon, <1>9 DEF q

(* Genesis is where InitBlockIndex put it.                                   *)
GenesisInv == nChainWork[Genesis] = 1 /\ nHeight[Genesis] = 0 /\ Genesis \in oldIndex

(* It stays there.                                                           *)
LEMMA GenesisStep == Base /\ GenesisInv /\ [Next]_vars => GenesisInv'
<1> SUFFICES ASSUME Base, GenesisInv, [Next]_vars PROVE GenesisInv'
  OBVIOUS
<1>0. Genesis \in mapBlockIndex
  BY Zenon DEF Base, IndexOK, Closed
<1>1. UNCHANGED index \/ (Next /\ AddToBlockIndex)
  <2>1. CASE Next
    BY Zenon, <2>1, QuietSteps DEF PopInvalid, RejectCandidate, ConnectTipInvalid
  <2> QED BY Zenon, <2>1 DEF vars
<1>2. nChainWork'[Genesis] = 1 /\ nHeight'[Genesis] = 0
  <2>1. CASE UNCHANGED index
    BY Zenon, <2>1 DEF GenesisInv, index, fields
  <2>2. CASE AddToBlockIndex
    BY Zenon, <1>0, <2>2, NewEntryKeepsIndex DEF AddToBlockIndex, NewEntry, GenesisInv
  <2> QED BY Zenon, <1>1, <2>1, <2>2
<1>3. oldIndex' = oldIndex \/ oldIndex' = mapBlockIndex
  BY Zenon, RestKept DEF rest, Receive, vars
<1> QED BY Zenon, <1>0, <1>2, <1>3 DEF GenesisInv

(* nChainWork and nHeight are the work and the length of the chain.          *)
LEMMA IndexCounts ==
  ASSUME Base, GenesisInv
  PROVE  \A b \in mapBlockIndex : /\ Works(hashPrev, blockWork)[b] = nChainWork[b]
                                 /\ Lengths(hashPrev)[b] = nHeight[b]
<1> DEFINE w == Works(hashPrev, blockWork)
           n == Lengths(hashPrev)
           Good == {b \in Blocks : b \in mapBlockIndex => w[b] = nChainWork[b] /\ n[b] = nHeight[b]}
<1>1. /\ hashPrev \in [Others -> Blocks] /\ IsTree(hashPrev) /\ blockWork \in [Others -> Nat \ {0}]
      /\ Closed(hashPrev, mapBlockIndex) /\ mapBlockIndex \subseteq Blocks
  BY Zenon DEF Base, NetworkOK, TypeOK, IndexOK
<1>2. blockWork \in [Others -> Nat]
  BY <1>1
<1>3. w[Genesis] = 1 /\ \A x \in Others : w[x] = w[hashPrev[x]] + blockWork[x]
  BY Zenon, <1>1, <1>2, WorksOf
<1>4. n[Genesis] = 0 /\ \A x \in Others : n[x] = n[hashPrev[x]] + 1
  BY Zenon, <1>1, LengthsOf
<1> HIDE DEF w, n
<1>5. Genesis \in Good
  BY Zenon, <1>3, <1>4, ChainAssumption DEF GenesisInv
<1>6. ASSUME NEW b \in Others, hashPrev[b] \in Good PROVE b \in Good
  <2>1. ASSUME b \in mapBlockIndex PROVE w[b] = nChainWork[b] /\ n[b] = nHeight[b]
    <3>1. b # Genesis /\ hashPrev[b] \in mapBlockIndex
      BY SMTT(30), <1>1, <2>1 DEF Closed, Others
    <3>2. /\ nHeight[b] = nHeight[hashPrev[b]] + 1
          /\ nChainWork[b] = nChainWork[hashPrev[b]] + blockWork[b]
      BY <2>1, <3>1 DEF Base, IndexOK
    <3>3. w[hashPrev[b]] = nChainWork[hashPrev[b]] /\ n[hashPrev[b]] = nHeight[hashPrev[b]]
      BY Zenon, <1>6, <3>1
    <3> QED BY Zenon, <1>3, <1>4, <3>2, <3>3
  <2>2. b \in Blocks
    BY DEF Others
  <2> QED BY Zenon, <2>1, <2>2
<1>7. \A b \in Blocks : b \in Good
  <2> HIDE DEF Good
  <2> QED BY Zenon, <1>1, <1>5, <1>6, TreeInduction DEF Good
<1> QED BY Zenon, <1>1, <1>7 DEF w, n

(* BestChain's validity is that of the chain.                                *)
LEMMA PassesIsValid ==
  ASSUME NEW f \in [Others -> Blocks], IsTree(f), NEW v
  PROVE  \A b \in Blocks : Passes(f, Goods(v))[b] <=> Valid(f, v, b)
<1> DEFINE g == Goods(v)
           q == Passes(f, g)
           Good == {b \in Blocks : q[b] <=> Valid(f, v, b)}
<1>1. g \in [Others -> BOOLEAN] /\ \A x \in Others : g[x] <=> v[x] \in {"ok", "checkpoint"}
  <2>1. \A x \in Others : (v[x] \in {"ok", "checkpoint"}) \in BOOLEAN
    OBVIOUS
  <2>2. g \in [Others -> BOOLEAN]
    BY Zenon, <2>1 DEF Goods
  <2>3. \A x \in Others : g[x] = (v[x] \in {"ok", "checkpoint"})
    BY Zenon DEF Goods
  <2> QED BY Zenon, <2>2, <2>3
<1> HIDE DEF g
<1>2. q[Genesis] /\ \A x \in Others : q[x] <=> (g[x] /\ q[f[x]])
  BY Zenon, <1>1, PassesOf
<1> HIDE DEF q
<1>3. Genesis \in Good
  <2>1. Paths(f)[Genesis] = {Genesis}
    BY Zenon, PathsOf
  <2>2. Valid(f, v, Genesis)
    BY Zenon, <2>1 DEF Valid
  <2> QED BY Zenon, <1>2, <2>2, ChainAssumption
<1>4. ASSUME NEW b \in Others, f[b] \in Good PROVE b \in Good
  <2>1. Paths(f)[b] = {b} \cup Paths(f)[f[b]] /\ b \in Blocks /\ b # Genesis
    BY Zenon, PathsOf DEF Others
  <2>2. Valid(f, v, b) <=> (v[b] \in {"ok", "checkpoint"} /\ Valid(f, v, f[b]))
    BY Zenon, <2>1 DEF Valid
  <2> QED BY Zenon, <1>1, <1>2, <1>4, <2>1, <2>2
<1>5. \A b \in Blocks : b \in Good
  <2> HIDE DEF Good
  <2> QED BY Zenon, <1>3, <1>4, TreeInduction DEF Good
<1> QED BY Zenon, <1>5 DEF q, g

(* What the node owes BestChain at rest.                                     *)
Preferring(b, a) ==
  \/ Works(hashPrev, blockWork)[b] > Works(hashPrev, blockWork)[a]
  \/ /\ Works(hashPrev, blockWork)[b] = Works(hashPrev, blockWork)[a]
     /\ \/ Lengths(hashPrev)[b] > Lengths(hashPrev)[a]
        \/ a # Genesis /\ b # Genesis /\ hashPrev[a] = hashPrev[b]

Promised ==
  pc = "idle" =>
    /\ oldIndex \subseteq mapBlockIndex /\ mapBlockIndex \subseteq Blocks
    /\ \A b \in mapBlockIndex \ oldIndex : hashPrev[b] \in mapBlockIndex
    /\ tip \in mapBlockIndex /\ Passes(hashPrev, Goods(verdict))[tip]
    /\ \A b \in mapBlockIndex :
         Passes(hashPrev, Goods(verdict))[b] =>
           Works(hashPrev, blockWork)[b] <= Works(hashPrev, blockWork)[tip]
    /\ tip \in oldIndex => tip = oldTip
    /\ tip = oldTip \/ Preferring(tip, oldTip)

(* The invariants give it.                                                   *)
LEMMA PromisedHolds ==
  ASSUME IndInv, OrdInv, GenesisInv, failures = 0 PROVE Promised
<1> SUFFICES ASSUME pc = "idle"
             PROVE  /\ oldIndex \subseteq mapBlockIndex /\ mapBlockIndex \subseteq Blocks
                    /\ \A b \in mapBlockIndex \ oldIndex : hashPrev[b] \in mapBlockIndex
                    /\ tip \in mapBlockIndex /\ Passes(hashPrev, Goods(verdict))[tip]
                    /\ \A b \in mapBlockIndex :
                         Passes(hashPrev, Goods(verdict))[b] =>
                           Works(hashPrev, blockWork)[b] <= Works(hashPrev, blockWork)[tip]
                    /\ tip \in oldIndex => tip = oldTip
                    /\ tip = oldTip \/ Preferring(tip, oldTip)
  BY Zenon DEF Promised
<1>1. /\ Base /\ SequenceInv /\ hashPrev \in [Others -> Blocks] /\ IsTree(hashPrev)
      /\ mapBlockIndex \subseteq Blocks /\ tip \in mapBlockIndex
      /\ oldIndex \subseteq mapBlockIndex /\ oldTip \in mapBlockIndex
      /\ Valid(hashPrev, verdict, tip)
  BY Zenon, BaseTypes DEF IndInv, OrdInv, Base, TypeOK, TipInv, OldInv
<1>2. \A b \in mapBlockIndex : /\ Works(hashPrev, blockWork)[b] = nChainWork[b]
                              /\ Lengths(hashPrev)[b] = nHeight[b]
  BY Zenon, <1>1, IndexCounts
<1>3. \A b \in Blocks : Passes(hashPrev, Goods(verdict))[b] <=> Valid(hashPrev, verdict, b)
  BY Zenon, <1>1, PassesIsValid
<1>4. \A b \in mapBlockIndex \ oldIndex : hashPrev[b] \in mapBlockIndex
  BY Zenon, <1>1 DEF GenesisInv, Base, IndexOK, Closed
<1>5. Passes(hashPrev, Goods(verdict))[tip]
  BY Zenon, <1>1, <1>3
<1>6. ASSUME NEW b \in mapBlockIndex, Passes(hashPrev, Goods(verdict))[b]
      PROVE  Works(hashPrev, blockWork)[b] <= Works(hashPrev, blockWork)[tip]
  <2>1. Best(tip, mapBlockIndex)
    BY DEF OrdInv, BestInv, Resting
  <2>2. ~Less(tip, b)
    BY Zenon, <1>1, <1>3, <1>6, <2>1, OrderLinear DEF Best
  <2>3. nChainWork[tip] \in Nat /\ nChainWork[b] \in Nat
    BY Zenon, <1>1, LessTypes
  <2>4. nChainWork[b] <= nChainWork[tip]
    BY <2>2, <2>3 DEF Less
  <2> QED BY Zenon, <1>1, <1>2, <2>4
<1>7. tip \in oldIndex => tip = oldTip
  BY Zenon, MovesToBetter
<1>8. tip # oldTip => Preferring(tip, oldTip)
  <2> SUFFICES ASSUME tip # oldTip PROVE Preferring(tip, oldTip)
    OBVIOUS
  <2>1. Less(oldTip, tip) /\ tip \notin oldIndex
    BY Zenon, MovesToBetter
  <2>2. nSequenceId[oldTip] < nSequenceId[tip]
    BY Zenon, <1>1, <2>1 DEF OrdInv, OldInv
  <2>3. Keys(tip) /\ Keys(oldTip)
    BY Zenon, <1>1, LessTypes DEF Keys
  <2>4. \/ nChainWork[tip] > nChainWork[oldTip]
        \/ /\ nChainWork[tip] = nChainWork[oldTip]
           /\ nHeight[tip] > nHeight[oldTip] \/ Tie(oldTip, tip)
    BY Zenon, <2>1, <2>2, <2>3, LessReason
  <2> QED BY Zenon, <1>1, <1>2, <2>4 DEF Preferring, Tie
<1> QED BY Zenon, <1>1, <1>4, <1>5, <1>6, <1>7, <1>8

(* The refinement mapping.                                                   *)
Learnt == IF pc = "idle" THEN mapBlockIndex ELSE oldIndex
Chosen == IF pc = "idle" THEN tip ELSE oldTip

(* At rest a block arrives; nothing else happens.                            *)
LEMMA RestingSteps ==
  ASSUME Next, pc = "idle"
  PROVE  \/ pc' = "idle" /\ tip' = tip /\ mapBlockIndex' = mapBlockIndex
         \/ pc' = "accept" /\ oldTip' = tip /\ oldIndex' = mapBlockIndex
<1>1. CASE \E b \in Others : ReceiveRejected(b) \/ ReceiveOrphan(b) \/ Receive(b)
  BY Zenon, <1>1 DEF ReceiveRejected, ReceiveOrphan, Receive, vars, chains, index
<1>2. ~Handler
  BY Zenon DEF Handler, NextChild, NoMoreChildren, AcceptFails, AddToBlockIndex, PopInvalid, PopDone,
         RejectCandidate, TakeCandidate, DisconnectTip, Disconnecting, DisconnectDone, ConnectTip,
         ConnectTipFails, ConnectTipAborts, ConnectTipInvalid, ConnectTipCorrupt, Connecting,
         ActivateDone
<1> QED BY Zenon, <1>1, <1>2 DEF Next

(* The network's blocks never change.                                        *)
LEMMA NetworkKept == [Next]_vars => UNCHANGED network
BY Zenon DEF Next, Handler, ReceiveRejected, ReceiveOrphan, Receive, NextChild, NoMoreChildren,
         AcceptFails, AddToBlockIndex, NewIndexEntry, PopInvalid, PopDone, RejectCandidate,
         TakeCandidate, DisconnectTip, DisconnectDone, ConnectTip, ConnectTipFails,
         ConnectTipAborts, ConnectTipInvalid, ConnectTipCorrupt, ActivateDone, vars

(* A step of the node is a step of BestChain, or none.                       *)
LEMMA PromiseStep == Base /\ Promised' /\ [Next]_vars => [Promise!Next]_(Promise!vars)
<1> SUFFICES ASSUME Base, Promised', [Next]_vars PROVE [Promise!Next]_(Promise!vars)
  OBVIOUS
<1>0. hashPrev' = hashPrev /\ verdict' = verdict /\ blockWork' = blockWork
  BY Zenon, NetworkKept DEF network
<1>1. UNCHANGED Promise!tree
  BY <1>0 DEF Promise!tree
<1>2. ASSUME Learnt' = Learnt, Chosen' = Chosen PROVE UNCHANGED Promise!vars
  BY <1>1, <1>2 DEF Promise!vars, Learnt, Chosen
<1>3. CASE UNCHANGED vars
  BY Zenon, <1>2, <1>3 DEF vars, index, chains, rest, Learnt, Chosen
<1>4. CASE Next /\ pc = "idle"
  <2>1. Learnt' = Learnt /\ Chosen' = Chosen
    BY Zenon, <1>4, RestingSteps DEF Learnt, Chosen
  <2> QED BY Zenon, <1>2, <2>1
<1>5. CASE Next /\ pc # "idle"
  <2>1. oldTip' = oldTip /\ oldIndex' = oldIndex
    BY Zenon, <1>5, RestKept DEF rest, Receive
  <2>2. Learnt = oldIndex /\ Chosen = oldTip
    BY Zenon, <1>5 DEF Learnt, Chosen
  <2>3. CASE pc' # "idle"
    BY Zenon, <1>2, <2>1, <2>2, <2>3 DEF Learnt, Chosen
  <2>4. CASE pc' = "idle"
    <3>1. Learnt' = mapBlockIndex' /\ Chosen' = tip'
      BY Zenon, <2>4 DEF Learnt, Chosen
    <3>2. /\ oldIndex \subseteq mapBlockIndex' /\ mapBlockIndex' \subseteq Blocks
          /\ \A b \in mapBlockIndex' \ oldIndex : hashPrev[b] \in mapBlockIndex'
          /\ tip' \in mapBlockIndex' /\ Passes(hashPrev, Goods(verdict))[tip']
          /\ \A b \in mapBlockIndex' :
               Passes(hashPrev, Goods(verdict))[b] =>
                 Works(hashPrev, blockWork)[b] <= Works(hashPrev, blockWork)[tip']
          /\ tip' \in oldIndex => tip' = oldTip
      BY Zenon, <1>0, <2>1, <2>4 DEF Promised
    <3>3. tip' = oldTip \/ Preferring(tip', oldTip)
      BY Zenon, <1>0, <2>1, <2>4 DEF Promised, Preferring
    <3>4. CASE mapBlockIndex' = oldIndex
      BY Zenon, <1>2, <2>2, <3>1, <3>2, <3>4
    <3>5. CASE mapBlockIndex' # oldIndex
      <4>1. PICK S : S = mapBlockIndex' \ oldIndex
        BY Zenon
      <4>2. /\ S # {} /\ S \cap Learnt = {} /\ Learnt' = Learnt \cup S /\ S \in SUBSET (Blocks \ Learnt)
            /\ \A b \in S : hashPrev[b] \in Learnt'
        BY Zenon, <2>2, <3>1, <3>2, <3>5, <4>1
      <4>3. Promise!Valid(Chosen')
        BY Zenon, <3>1, <3>2, PromiseIs
      <4>4. \A b \in Learnt' : Promise!Valid(b) => Promise!ChainWork(b) <= Promise!ChainWork(Chosen')
        BY Zenon, <3>1, <3>2, PromiseIs
      <4>5. Chosen' = Chosen \/ Promise!Preferred(Chosen', Chosen)
        BY Zenon, <2>2, <3>1, <3>3, PromiseIs DEF Promise!Preferred, Promise!Siblings, Preferring
      <4>6. Promise!Learn(S)
        BY Zenon, <1>1, <3>1, <3>2, <4>2, <4>3, <4>4, <4>5 DEF Promise!Learn, Learnt, Chosen
      <4>7. Promise!Next
        BY Zenon, <4>2, <4>6 DEF Promise!Next, Learnt
      <4> QED BY Zenon, <4>7
    <3> QED BY Zenon, <3>4, <3>5
  <2> QED BY Zenon, <2>3, <2>4
<1> QED BY Zenon, <1>3, <1>4, <1>5

(* The node keeps the promise of BestChain, for every block tree: seen only  *)
(* when no handler is running, it learns blocks and has a valid chain with   *)
(* the most work, and leaves its chain only for a better one or a sibling's. *)
(* No error of the disk or the database may come between, which would leave  *)
(* a chain half activated.                                                   *)
THEOREM PromiseKept == MaxFailures = 0 => (Spec /\ []OrderTransitive => KeepsPromise)
<1> SUFFICES ASSUME MaxFailures = 0 PROVE Spec /\ []OrderTransitive => KeepsPromise
  OBVIOUS
<1>1. Init => Promise!Init
  BY DEF Init, Promise!Init
<1>2. Init => GenesisInv
  BY ChainAssumption DEF Init, GenesisInv
<1>3. IndInv => Base
  BY DEF IndInv
<1>4. IndInv /\ OrdInv /\ GenesisInv => Promised
  <2> SUFFICES ASSUME IndInv, OrdInv, GenesisInv PROVE Promised
    OBVIOUS
  <2>1. failures \in 0..0
    BY Zenon, <1>3, CallerTypes
  <2>2. failures = 0
    BY <2>1
  <2> QED BY Zenon, <2>2, PromisedHolds
<1>5. Spec => []GenesisInv
  BY <1>2, <1>3, GenesisStep, InvariantHolds, PTL DEF Spec
<1>6. Spec /\ []OrderTransitive => []Promised
  BY <1>4, <1>5, InvariantHolds, OrdHolds, PTL
<1> QED BY <1>1, <1>3, <1>6, PromiseStep, InvariantHolds, PTL DEF Spec, KeepsPromise, Promise!Spec
=============================================================================
