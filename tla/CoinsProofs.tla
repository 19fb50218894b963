----------------------------- MODULE CoinsProofs -----------------------------
(***************************************************************************)
(* Proofs about Coins, for every tree of blocks with any transactions, any *)
(* sequence of connections and disconnections, and any number of crashes.  *)
(*                                                                         *)
(* The view, while a block is applied or undone input by input, agrees     *)
(* with a ledger cut off after some transaction and some of its inputs.    *)
(* What the parts of that ledger are is a matter of the contents of the    *)
(* blocks alone; the lemmas about it come first, then the invariant and    *)
(* its steps.                                                              *)
(***************************************************************************)
EXTENDS Coins, TLAPS

Others == Blocks \ {Genesis}

-----------------------------------------------------------------------------
(* Paths *)

(* The recursive function that Path applies.                                 *)
Paths == CHOOSE p : p = [x \in Blocks |-> IF x = Genesis THEN {x} ELSE {x} \cup p[hashPrev[x]]]

(* The least set with b and the parents of its blocks.                       *)
Ancestry(b) ==
  {x \in Blocks : \A S \in SUBSET Blocks :
     (b \in S /\ \A y \in S \ {Genesis} : hashPrev[y] \in S) => x \in S}

(* The paths satisfy the equation that defines them.                         *)
LEMMA PathEquation ==
  /\ Path(Genesis) = {Genesis}
  /\ \A b \in Others : Path(b) = {b} \cup Path(hashPrev[b])
<1> DEFINE Is(p) == p = [x \in Blocks |-> IF x = Genesis THEN {x} ELSE {x} \cup p[hashPrev[x]]]
           A == [x \in Blocks |-> Ancestry(x)]
<1>0. Genesis \in Blocks /\ \A b \in Others : b \in Blocks /\ hashPrev[b] \in Blocks
  BY CoinsAssumption DEF Others
<1>1. Ancestry(Genesis) = {Genesis}
  <2>1. {Genesis} \in SUBSET Blocks /\ \A y \in {Genesis} \ {Genesis} : hashPrev[y] \in {Genesis}
    BY <1>0
  <2>2. Ancestry(Genesis) \subseteq {Genesis}
    BY Zenon, <2>1 DEF Ancestry
  <2>3. Genesis \in Ancestry(Genesis)
    BY <1>0 DEF Ancestry
  <2> QED BY <2>2, <2>3
<1>2. ASSUME NEW b \in Others PROVE Ancestry(b) = {b} \cup Ancestry(hashPrev[b])
  <2> DEFINE T == {b} \cup Ancestry(hashPrev[b])
  <2>1. T \in SUBSET Blocks /\ b \in T
    BY <1>0 DEF Ancestry
  <2>2. ASSUME NEW z \in T \ {Genesis} PROVE hashPrev[z] \in T
    <3>1. CASE z = b
      BY <1>0, <3>1 DEF Ancestry
    <3>2. CASE z \in Ancestry(hashPrev[b])
      <4>1. z \in Others
        BY <2>1, <2>2 DEF Others
      <4> QED BY <1>0, <3>2, <4>1, <2>2 DEF Ancestry
    <3> QED BY <2>2, <3>1, <3>2
  <2>3. Ancestry(b) \subseteq T
    BY Zenon, <2>1, <2>2 DEF Ancestry
  <2>4. b \in Ancestry(b) /\ Ancestry(hashPrev[b]) \subseteq Ancestry(b)
    BY <1>0 DEF Ancestry, Others
  <2> QED BY <2>3, <2>4
<1>3. Is(A)
  <2>1. ASSUME NEW x \in Blocks
        PROVE  A[x] = IF x = Genesis THEN {x} ELSE {x} \cup A[hashPrev[x]]
    BY <1>0, <1>1, <1>2 DEF Others
  <2> QED BY Zenon, <2>1
<1>4. Is(Paths)
  <2> HIDE DEF A
  <2> QED BY Zenon, <1>3 DEF Paths
<1>5. \A x \in Blocks : Paths[x] = IF x = Genesis THEN {x} ELSE {x} \cup Paths[hashPrev[x]]
  BY Zenon, <1>4
<1>6. \A x : Path(x) = Paths[x]
  BY DEF Path, Paths
<1> QED BY <1>0, <1>5, <1>6 DEF Others

(* What holds of the genesis block, and of a block if it holds of its        *)
(* parent, holds of all blocks.                                              *)
LEMMA TreeInduction ==
  ASSUME NEW Good \in SUBSET Blocks, Genesis \in Good,
         \A b \in Others : hashPrev[b] \in Good => b \in Good
  PROVE  \A b \in Blocks : b \in Good
<1> DEFINE Bad == Blocks \ Good
<1>1. Bad \in SUBSET Others /\ \A b \in Bad : hashPrev[b] \in Bad
  BY CoinsAssumption DEF Others
<1> HIDE DEF Bad
<1>2. Bad = {}
  BY Zenon, <1>1, TreeAssumption DEF Others
<1> QED BY <1>2 DEF Bad

(* A path is a set of blocks, the block itself among them, and no other is   *)
(* as high.                                                                  *)
LEMMA PathBlocks ==
  \A b \in Blocks : /\ b \in Path(b) /\ Path(b) \subseteq Blocks
                    /\ \A x \in Path(b) : nHeight[x] <= nHeight[b]
<1> DEFINE Good == {b \in Blocks : /\ b \in Path(b) /\ Path(b) \subseteq Blocks
                                   /\ \A x \in Path(b) : nHeight[x] <= nHeight[b]}
<1>1. Genesis \in Good
  BY PathEquation, CoinsAssumption
<1>2. ASSUME NEW b \in Others, hashPrev[b] \in Good PROVE b \in Good
  <2>1. /\ Path(b) = {b} \cup Path(hashPrev[b]) /\ b \in Blocks /\ hashPrev[b] \in Blocks
        /\ nHeight[b] = nHeight[hashPrev[b]] + 1
    BY PathEquation, CoinsAssumption, TreeAssumption DEF Others
  <2>2. nHeight \in [Blocks -> Nat]
    BY CoinsAssumption
  <2> QED BY <1>2, <2>1, <2>2
<1>3. Good \in SUBSET Blocks
  OBVIOUS
<1> HIDE DEF Good
<1>4. \A b \in Blocks : b \in Good
  BY Zenon, <1>1, <1>2, <1>3, TreeInduction
<1> QED BY <1>4 DEF Good

(* A block and its parent.                                                   *)
LEMMA Parents ==
  \A b \in Others :
    /\ b \in Blocks /\ hashPrev[b] \in Blocks /\ Path(b) = {b} \cup Path(hashPrev[b])
    /\ nHeight[b] \in Nat \ {0} /\ \A x \in Path(hashPrev[b]) : x \in Blocks /\ nHeight[x] < nHeight[b]
<1> SUFFICES ASSUME NEW b \in Others
             PROVE  /\ b \in Blocks /\ hashPrev[b] \in Blocks /\ Path(b) = {b} \cup Path(hashPrev[b])
                    /\ nHeight[b] \in Nat \ {0}
                    /\ \A x \in Path(hashPrev[b]) : x \in Blocks /\ nHeight[x] < nHeight[b]
  OBVIOUS
<1>1. /\ b \in Blocks /\ hashPrev[b] \in Blocks /\ Path(b) = {b} \cup Path(hashPrev[b])
      /\ nHeight[b] = nHeight[hashPrev[b]] + 1 /\ nHeight \in [Blocks -> Nat]
  BY PathEquation, CoinsAssumption, TreeAssumption DEF Others
<1> QED BY <1>1, PathBlocks

-----------------------------------------------------------------------------
(* The ledger in the middle of a block *)

(* What is spent before block b, by its transactions before k, and by the    *)
(* first l inputs of transaction k.                                          *)
Spent(v, b, k, l) ==
  SpentBy(Earlier(v, b, k)) \cup {Prevouts[v[b][k]][m] : m \in 1..l}

(* The height at which t was made, seen from block b.                        *)
MadeAt(v, b, t) ==
  IF t \in TxsOf(v, Path(hashPrev[b])) THEN HeightOf(v, hashPrev[b], t) ELSE nHeight[b]

(* The coins of t if the transactions M are there and the outpoints S spent. *)
Entry(v, b, M, S, t) ==
  IF t \notin M THEN EmptyCoins
  ELSE Coins({n \in Outputs[t] : <<t, n>> \notin S}, MadeAt(v, b, t), t \in CoinBases)

(* Entries agree with that.                                                  *)
Shows(entries, v, b, M, S) ==
  \A t \in Txs :
    SameCoins(IF entries[t] = NoCoins THEN EmptyCoins ELSE entries[t], Entry(v, b, M, S, t))

(* The inputs of transaction k of block b are unspent outputs.               *)
Spendable(v, b, k) ==
  \A p \in Range(Prevouts[v[b][k]]) :
    /\ p[1] \in Earlier(v, b, k) /\ p[2] \in Outputs[p[1]]
    /\ p \notin SpentBy(Earlier(v, b, k))

(* Those of coinbases are mature.                                            *)
Mature(v, b, k) ==
  \A p \in Range(Prevouts[v[b][k]]) :
    p[1] \in CoinBases => nHeight[b] - MadeAt(v, b, p[1]) >= COINBASE_MATURITY

(* No transaction is in two blocks of the chain that ends in b.              *)
Distinct(v, b) == \A x, y \in Path(b) : Range(v[x]) \cap Range(v[y]) # {} => x = y

(* What is spent in the chain, up to any block of it, was made there.        *)
SpentWasMade(v, b) ==
  \A x \in Path(b) : \A p \in SpentBy(TxsOf(v, Path(x))) : p[1] \in TxsOf(v, Path(x))

(* What ConnectBlock has found of the chain that ends in b.                  *)
Chain(v, b) ==
  /\ Distinct(v, b) /\ SpentWasMade(v, b)
  /\ \A x \in Path(b) \ {Genesis} :
       /\ ValidBlock(v, x)
       /\ \A k \in DOMAIN v[x] : Spendable(v, x, k) /\ Mature(v, x, k)

(* The undo entry of input l of transaction k.                               *)
RightUndo(v, b, k, l) ==
  LET t == Prevouts[v[b][k]][l][1]
      M == Earlier(v, b, k)
  IN  UndoEntry(Entry(v, b, M, Spent(v, b, k, l - 1), t), Entry(v, b, M, Spent(v, b, k, l), t).vout)

(* The undo data of a block.                                                 *)
UndoOf(v, b, u) ==
  \A k \in DOMAIN v[b] : \A l \in DOMAIN Prevouts[v[b][k]] : u[k][l] = RightUndo(v, b, k, l)

(* The contents of a block.                                                  *)
LEMMA BlockTxs ==
  ASSUME NEW v \in Contents, NEW b \in Blocks
  PROVE  /\ v[b] \in Seq(Txs) /\ Len(v[b]) \in Nat /\ DOMAIN v[b] = 1..Len(v[b])
         /\ \A k \in 1..Len(v[b]) : v[b][k] \in Txs /\ v[b][k] \in Range(v[b])
         /\ \A t \in Range(v[b]) : t \in Txs /\ \E k \in 1..Len(v[b]) : t = v[b][k]
<1>1. v[b] \in Seq(Txs)
  BY CoinsAssumption
<1> QED BY <1>1 DEF Range

(* The inputs of a transaction.                                              *)
LEMMA TxInputs ==
  ASSUME NEW t \in Txs
  PROVE  /\ Prevouts[t] \in Seq(Txs \X Nat) /\ Len(Prevouts[t]) \in Nat
         /\ DOMAIN Prevouts[t] = 1..Len(Prevouts[t])
         /\ \A m \in 1..Len(Prevouts[t]) :
              Prevouts[t][m] \in Txs \X Nat /\ Prevouts[t][m] \in Range(Prevouts[t])
         /\ \A p \in Range(Prevouts[t]) : p \in Txs \X Nat /\ \E m \in 1..Len(Prevouts[t]) : p = Prevouts[t][m]
<1>1. Prevouts[t] \in Seq(Txs \X Nat)
  BY CoinsAssumption
<1> QED BY <1>1 DEF Range

(* The transactions before the first of a block, and before the next.        *)
LEMMA EarlierSteps ==
  ASSUME NEW v, NEW b
  PROVE  /\ Earlier(v, b, 1) = TxsOf(v, Path(hashPrev[b]))
         /\ \A k \in Nat \ {0} : Earlier(v, b, k + 1) = Earlier(v, b, k) \cup {v[b][k]}
         /\ \A k, l \in Nat : l <= k => Earlier(v, b, l) \subseteq Earlier(v, b, k)
<1>1. 1..1 - 1 = {}
  OBVIOUS
<1>2. \A k \in Nat \ {0} : 1..(k + 1) - 1 = 1..(k - 1) \cup {k}
  OBVIOUS
<1>3. \A k, l \in Nat : l <= k => 1..l - 1 \subseteq 1..k - 1
  OBVIOUS
<1>4. Earlier(v, b, 1) = TxsOf(v, Path(hashPrev[b]))
  BY <1>1 DEF Earlier
<1>5. ASSUME NEW k \in Nat \ {0} PROVE Earlier(v, b, k + 1) = Earlier(v, b, k) \cup {v[b][k]}
  <2>1. {v[b][l] : l \in 1..(k + 1) - 1} = {v[b][l] : l \in 1..k - 1} \cup {v[b][k]}
    BY <1>2
  <2> QED BY <2>1 DEF Earlier
<1>6. ASSUME NEW k \in Nat, NEW l \in Nat, l <= k PROVE Earlier(v, b, l) \subseteq Earlier(v, b, k)
  <2>1. 1..l - 1 \subseteq 1..k - 1
    BY <1>3, <1>6
  <2> QED BY Zenon, <2>1 DEF Earlier
<1> QED BY <1>4, <1>5, <1>6

(* After the last transaction of a block, all of the chain are there.        *)
LEMMA EarlierAll ==
  ASSUME NEW v \in Contents, NEW b \in Others
  PROVE  Earlier(v, b, Len(v[b]) + 1) = TxsOf(v, Path(b))
<1>1. Path(b) = {b} \cup Path(hashPrev[b]) /\ b \in Blocks
  BY Parents
<1>2. TxsOf(v, Path(b)) = TxsOf(v, Path(hashPrev[b])) \cup Range(v[b])
  BY <1>1 DEF TxsOf
<1>3. v[b] \in Seq(Txs) /\ Len(v[b]) \in Nat
  BY <1>1, BlockTxs
<1>4. {v[b][l] : l \in 1..(Len(v[b]) + 1) - 1} = Range(v[b])
  BY <1>3 DEF Range
<1> QED BY <1>2, <1>4 DEF Earlier

(* What is before a transaction of a block is in its chain.                  *)
LEMMA EarlierInChain ==
  ASSUME NEW v \in Contents, NEW b \in Others, NEW k \in 1..Len(v[b]) + 1
  PROVE  Earlier(v, b, k) \subseteq TxsOf(v, Path(b))
<1>1. Len(v[b]) \in Nat
  BY Zenon, Parents, BlockTxs
<1>2. k \in Nat /\ Len(v[b]) + 1 \in Nat /\ k <= Len(v[b]) + 1
  BY <1>1
<1>3. Earlier(v, b, k) \subseteq Earlier(v, b, Len(v[b]) + 1)
  BY Zenon, <1>2, EarlierSteps
<1> QED BY Zenon, <1>3, EarlierAll

(* Transactions before others are transactions.                              *)
LEMMA EarlierTxs ==
  ASSUME NEW v \in Contents, NEW b \in Others, NEW k \in 1..Len(v[b]) + 1
  PROVE  /\ Earlier(v, b, k) \subseteq Txs /\ TxsOf(v, Path(hashPrev[b])) \subseteq Earlier(v, b, k)
         /\ SpentBy(Earlier(v, b, k)) \subseteq Txs \X Nat
<1>1. b \in Blocks /\ \A x \in Path(hashPrev[b]) : x \in Blocks
  BY Parents
<1>2. TxsOf(v, Path(hashPrev[b])) \subseteq Txs
  <2>1. \A x \in Path(hashPrev[b]) : \A t \in Range(v[x]) : t \in Txs
    BY <1>1, BlockTxs
  <2> QED BY <2>1 DEF TxsOf
<1>3. Earlier(v, b, k) \subseteq Txs
  <2>1. Len(v[b]) \in Nat /\ \A l \in 1..Len(v[b]) : v[b][l] \in Txs
    BY Zenon, <1>1, BlockTxs
  <2>2. \A l \in 1..k - 1 : v[b][l] \in Txs
    BY <2>1
  <2> QED BY Zenon, <1>2, <2>2 DEF Earlier
<1>4. SpentBy(Earlier(v, b, k)) \subseteq Txs \X Nat
  <2>1. \A t \in Earlier(v, b, k) : \A p \in Range(Prevouts[t]) : p \in Txs \X Nat
    BY <1>3, TxInputs
  <2> QED BY Zenon, <2>1 DEF SpentBy
<1> QED BY Zenon, <1>3, <1>4 DEF Earlier

(* One more transaction spends its inputs.                                   *)
LEMMA SpentByMore ==
  ASSUME NEW T, NEW t PROVE SpentBy(T \cup {t}) = SpentBy(T) \cup Range(Prevouts[t])
BY DEF SpentBy

(* What is spent before the first input, with one more, and with the last.   *)
LEMMA SpentFirst ==
  ASSUME NEW v, NEW b, NEW k
  PROVE  Spent(v, b, k, 0) = SpentBy(Earlier(v, b, k))
<1>1. 1..0 = {}
  OBVIOUS
<1> QED BY <1>1 DEF Spent

(* One more input spends its outpoint.                                       *)
LEMMA SpentNext ==
  ASSUME NEW v, NEW b, NEW k, NEW l \in Nat \ {0}
  PROVE  Spent(v, b, k, l) = Spent(v, b, k, l - 1) \cup {Prevouts[v[b][k]][l]}
<1>1. 1..l = 1..(l - 1) \cup {l}
  OBVIOUS
<1> QED BY <1>1 DEF Spent

(* With its last input, all of a transaction is spent.                       *)
LEMMA SpentLast ==
  ASSUME NEW v \in Contents, NEW b \in Others, NEW k \in 1..Len(v[b])
  PROVE  Spent(v, b, k, Len(Prevouts[v[b][k]])) = SpentBy(Earlier(v, b, k + 1))
<1>0. b \in Blocks
  BY Parents
<1>1. v[b][k] \in Txs /\ Len(v[b]) \in Nat
  BY <1>0, BlockTxs
<1>2. {Prevouts[v[b][k]][m] : m \in 1..Len(Prevouts[v[b][k]])} = Range(Prevouts[v[b][k]])
  BY <1>1, TxInputs DEF Range
<1>3. k \in Nat \ {0}
  BY <1>1
<1>4. Earlier(v, b, k + 1) = Earlier(v, b, k) \cup {v[b][k]}
  BY Zenon, <1>3, EarlierSteps
<1>5. SpentBy(Earlier(v, b, k + 1)) = SpentBy(Earlier(v, b, k)) \cup Range(Prevouts[v[b][k]])
  BY Zenon, <1>4, SpentByMore
<1> QED BY Zenon, <1>2, <1>5 DEF Spent

(* A transaction whose inputs are unspent is not in the chain already: it    *)
(* would have spent them itself, and a coinbase names its height.            *)
LEMMA NotAgain ==
  ASSUME NEW v \in Contents, NEW b \in Others, NEW k \in 1..Len(v[b]), Spendable(v, b, k)
  PROVE  v[b][k] \notin Earlier(v, b, k)
<1> DEFINE t == v[b][k]
<1>0. b \in Blocks /\ \A x \in Path(hashPrev[b]) : x \in Blocks /\ nHeight[x] < nHeight[b]
  BY Zenon, Parents
<1>1. t \in Txs /\ t \in Range(v[b]) /\ DOMAIN v[b] = 1..Len(v[b])
  BY Zenon, <1>0, BlockTxs
<1>2. CASE t \in CoinBases
  <2>1. k = 1
    BY <1>0, <1>1, <1>2, CheckedAssumption
  <2>2. ASSUME NEW x \in Path(hashPrev[b]), t \in Range(v[x]) PROVE FALSE
    <3>1. nHeight[x] = nHeight[b]
      BY <1>0, <1>1, <1>2, <2>2, CheckedAssumption
    <3>2. nHeight[x] \in Nat /\ nHeight[x] < nHeight[b]
      BY <1>0, CoinsAssumption
    <3> QED BY <3>1, <3>2
  <2>3. t \notin TxsOf(v, Path(hashPrev[b]))
    BY Zenon, <2>2 DEF TxsOf
  <2>4. Earlier(v, b, 1) = TxsOf(v, Path(hashPrev[b]))
    BY Zenon, EarlierSteps
  <2> QED BY Zenon, <2>1, <2>3, <2>4
<1>3. CASE t \notin CoinBases
  <2>1. Prevouts[t] \in Seq(Txs \X Nat) /\ Prevouts[t] # <<>>
    BY <1>1, <1>3, TxInputs, CheckedAssumption
  <2>2. 1 \in 1..Len(Prevouts[t])
    BY <2>1
  <2>3. PICK p \in Range(Prevouts[t]) : TRUE
    BY Zenon, <1>1, <2>2, TxInputs
  <2>4. p \notin SpentBy(Earlier(v, b, k))
    BY Zenon, <2>3 DEF Spendable
  <2> QED BY Zenon, <2>3, <2>4 DEF SpentBy
<1> QED BY Zenon, <1>2, <1>3

(* What is spent before a transaction was made before it.                    *)
LEMMA SpentEarlier ==
  ASSUME NEW v \in Contents, NEW b \in Others, NEW k \in 1..Len(v[b]) + 1,
         SpentWasMade(v, hashPrev[b]), \A l \in 1..k - 1 : Spendable(v, b, l)
  PROVE  \A p \in SpentBy(Earlier(v, b, k)) : p[1] \in Earlier(v, b, k)
<1> SUFFICES ASSUME NEW p \in SpentBy(Earlier(v, b, k)) PROVE p[1] \in Earlier(v, b, k)
  OBVIOUS
<1>0. Len(v[b]) \in Nat
  BY Zenon, Parents, BlockTxs
<1>1. PICK t \in Earlier(v, b, k) : p \in Range(Prevouts[t])
  BY Zenon DEF SpentBy
<1>2. CASE t \in TxsOf(v, Path(hashPrev[b]))
  <2>1. hashPrev[b] \in Path(hashPrev[b])
    BY Zenon, Parents, PathBlocks
  <2>2. p \in SpentBy(TxsOf(v, Path(hashPrev[b])))
    BY Zenon, <1>1, <1>2 DEF SpentBy
  <2>3. p[1] \in TxsOf(v, Path(hashPrev[b]))
    BY Zenon, <2>1, <2>2 DEF SpentWasMade
  <2> QED BY Zenon, <2>3 DEF Earlier
<1>3. CASE \E l \in 1..k - 1 : t = v[b][l]
  <2>1. PICK l \in 1..k - 1 : t = v[b][l]
    BY <1>3
  <2>2. p[1] \in Earlier(v, b, l)
    BY Zenon, <1>1, <2>1 DEF Spendable
  <2>3. l \in Nat /\ k \in Nat /\ l <= k
    BY <1>0, <2>1
  <2> QED BY Zenon, <2>2, <2>3, EarlierSteps
<1> QED BY Zenon, <1>1, <1>2, <1>3 DEF Earlier

(* The height of a transaction of a chain is that of a block with it.        *)
LEMMA HeightOfTx ==
  ASSUME NEW v, NEW b \in Blocks, NEW t \in TxsOf(v, Path(b))
  PROVE  \E x \in Path(b) : t \in Range(v[x]) /\ HeightOf(v, b, t) = nHeight[x]
<1>1. \E x \in Path(b) : t \in Range(v[x])
  BY Zenon DEF TxsOf
<1> QED BY Zenon, <1>1 DEF HeightOf

(* In a chain without repetitions, it is that of any block with it.          *)
LEMMA HeightDistinct ==
  ASSUME NEW v, NEW b \in Blocks, Distinct(v, b), NEW x \in Path(b), NEW t \in Range(v[x])
  PROVE  HeightOf(v, b, t) = nHeight[x]
<1>1. t \in TxsOf(v, Path(b))
  BY Zenon DEF TxsOf
<1>2. PICK y \in Path(b) : t \in Range(v[y]) /\ HeightOf(v, b, t) = nHeight[y]
  BY Zenon, <1>1, HeightOfTx
<1>3. x = y
  BY <1>2 DEF Distinct
<1> QED BY <1>2, <1>3

(* A block repeats no transaction of its chain.                              *)
LEMMA DistinctGrows ==
  ASSUME NEW v \in Contents, NEW b \in Others, Distinct(v, hashPrev[b]),
         \A k \in 1..Len(v[b]) : Spendable(v, b, k)
  PROVE  /\ Distinct(v, b)
         /\ \A t \in Range(v[b]) : t \notin TxsOf(v, Path(hashPrev[b]))
<1>1. b \in Blocks /\ Path(b) = {b} \cup Path(hashPrev[b])
  BY Zenon, Parents
<1>2. ASSUME NEW t \in Range(v[b]) PROVE t \notin TxsOf(v, Path(hashPrev[b]))
  <2>1. PICK k \in 1..Len(v[b]) : t = v[b][k]
    BY Zenon, <1>1, BlockTxs
  <2>2. t \notin Earlier(v, b, k)
    BY Zenon, <2>1, NotAgain
  <2> QED BY Zenon, <2>2 DEF Earlier
<1>3. \A x \in Path(hashPrev[b]) : Range(v[b]) \cap Range(v[x]) = {}
  BY <1>2 DEF TxsOf
<1>4. Distinct(v, b)
  BY <1>1, <1>3 DEF Distinct
<1> QED BY <1>2, <1>4

(* The height at which a transaction was made: 0 only in the genesis block.  *)
LEMMA MadeAtHeight ==
  ASSUME NEW v \in Contents, NEW b \in Others, NEW t
  PROVE  MadeAt(v, b, t) \in Nat /\ (MadeAt(v, b, t) = 0 => t \in Range(v[Genesis]))
<1>1. /\ nHeight[b] \in Nat \ {0} /\ hashPrev[b] \in Blocks
      /\ \A x \in Path(hashPrev[b]) : x \in Blocks
  BY Zenon, Parents
<1>2. CASE t \in TxsOf(v, Path(hashPrev[b]))
  <2>1. PICK x \in Path(hashPrev[b]) : t \in Range(v[x]) /\ HeightOf(v, hashPrev[b], t) = nHeight[x]
    BY Zenon, <1>1, <1>2, HeightOfTx
  <2>2. nHeight[x] \in Nat /\ (nHeight[x] = 0 => x = Genesis)
    <3>1. x \in Blocks
      BY Zenon, <1>1
    <3>2. CASE x = Genesis
      BY <3>2, CoinsAssumption
    <3>3. CASE x \in Others
      BY <3>3, Parents
    <3> QED BY Zenon, <3>1, <3>2, <3>3 DEF Others
  <2> QED BY <1>2, <2>1, <2>2 DEF MadeAt
<1>3. CASE t \notin TxsOf(v, Path(hashPrev[b]))
  BY <1>1, <1>3 DEF MadeAt
<1> QED BY Zenon, <1>2, <1>3

(* Seen from a block in a chain without repetitions, it is the height in     *)
(* that chain.                                                               *)
LEMMA MadeAtDistinct ==
  ASSUME NEW v \in Contents, NEW b \in Others, Distinct(v, b), Distinct(v, hashPrev[b]),
         NEW t \in TxsOf(v, Path(b))
  PROVE  HeightOf(v, b, t) = MadeAt(v, b, t)
<1>1. b \in Blocks /\ hashPrev[b] \in Blocks /\ Path(b) = {b} \cup Path(hashPrev[b]) /\ b \in Path(b)
  BY Zenon, Parents, PathBlocks
<1>2. CASE t \in TxsOf(v, Path(hashPrev[b]))
  <2>1. PICK x \in Path(hashPrev[b]) : t \in Range(v[x]) /\ HeightOf(v, hashPrev[b], t) = nHeight[x]
    BY Zenon, <1>1, <1>2, HeightOfTx
  <2>2. HeightOf(v, b, t) = nHeight[x]
    BY <1>1, <2>1, HeightDistinct
  <2> QED BY Zenon, <1>2, <2>1, <2>2 DEF MadeAt
<1>3. CASE t \notin TxsOf(v, Path(hashPrev[b]))
  <2>1. t \in Range(v[b])
    BY <1>1, <1>3 DEF TxsOf
  <2>2. HeightOf(v, b, t) = nHeight[b]
    BY Zenon, <1>1, <2>1, HeightDistinct
  <2> QED BY Zenon, <1>3, <2>2 DEF MadeAt
<1> QED BY Zenon, <1>2, <1>3

(* Before the first transaction of a block, the ledger is its parent's.      *)
LEMMA EntryFirst ==
  ASSUME NEW v, NEW b, NEW t
  PROVE  Entry(v, b, Earlier(v, b, 1), SpentBy(Earlier(v, b, 1)), t) = Ledger(v, hashPrev[b], t)
<1>1. Earlier(v, b, 1) = TxsOf(v, Path(hashPrev[b]))
  BY Zenon, EarlierSteps
<1> QED BY Zenon, <1>1 DEF Entry, Ledger, MadeAt

(* After its last transaction, it is the block's own.                        *)
LEMMA EntryLast ==
  ASSUME NEW v \in Contents, NEW b \in Others, Distinct(v, b), Distinct(v, hashPrev[b]), NEW t
  PROVE  LET M == Earlier(v, b, Len(v[b]) + 1)
         IN  Entry(v, b, M, SpentBy(M), t) = Ledger(v, b, t)
<1>1. Earlier(v, b, Len(v[b]) + 1) = TxsOf(v, Path(b))
  BY Zenon, EarlierAll
<1>2. t \in TxsOf(v, Path(b)) => HeightOf(v, b, t) = MadeAt(v, b, t)
  BY Zenon, MadeAtDistinct
<1> QED BY Zenon, <1>1, <1>2 DEF Entry, Ledger

(* An entry has the type of coins.                                           *)
LEMMA EntryType ==
  ASSUME NEW v \in Contents, NEW b \in Others, NEW M, NEW S, NEW t \in Txs
  PROVE  /\ Entry(v, b, M, S, t) \in [vout : SUBSET Nat, nHeight : Nat, fCoinBase : BOOLEAN]
         /\ Entry(v, b, M, S, t).vout \subseteq Outputs[t]
<1>1. MadeAt(v, b, t) \in Nat /\ Outputs[t] \in SUBSET Nat
  BY MadeAtHeight, CoinsAssumption
<1> QED BY <1>1 DEF Entry, EmptyCoins, Coins

(* Spending an output changes the coins of no other transaction.             *)
LEMMA EntrySpendOther ==
  ASSUME NEW v, NEW b, NEW M, NEW S, NEW p \in Txs \X Nat, NEW t, t # p[1]
  PROVE  Entry(v, b, M, S \cup {p}, t) = Entry(v, b, M, S, t)
<1>1. \A n : <<t, n>> # p
  OBVIOUS
<1>2. {n \in Outputs[t] : <<t, n>> \notin S \cup {p}} = {n \in Outputs[t] : <<t, n>> \notin S}
  BY <1>1
<1> QED BY Zenon, <1>2 DEF Entry

(* Of its own, it takes the output away.                                     *)
TakesAway(v, b, M, S, p) ==
  LET c == Entry(v, b, M, S, p[1])
  IN  Entry(v, b, M, S \cup {p}, p[1]) = Coins(c.vout \ {p[2]}, c.nHeight, c.fCoinBase)

(* The coins after one of them is spent.                                     *)
LEMMA EntrySpend ==
  ASSUME NEW v, NEW b, NEW M, NEW S, NEW p \in Txs \X Nat, p[1] \in M
  PROVE  TakesAway(v, b, M, S, p)
<1>1. \A n : <<p[1], n>> = p <=> n = p[2]
  OBVIOUS
<1>2. {n \in Outputs[p[1]] : <<p[1], n>> \notin S \cup {p}}
        = {n \in Outputs[p[1]] : <<p[1], n>> \notin S} \ {p[2]}
  BY <1>1
<1> QED BY Zenon, <1>2 DEF Entry, Coins, TakesAway

(* A transaction that comes in has all its outputs, if nothing is spent that *)
(* was not made before.                                                      *)
ComesIn(v, b, M, S, t) ==
  /\ \A u : u # t => Entry(v, b, M \cup {t}, S, u) = Entry(v, b, M, S, u)
  /\ Entry(v, b, M \cup {t}, S, t) = NewCoins(t, nHeight[b])
  /\ Entry(v, b, M, S, t) = EmptyCoins

(* The coins before and after a transaction comes in.                        *)
LEMMA EntryAdd ==
  ASSUME NEW v, NEW b, NEW M, NEW S, NEW t, t \notin M,
         TxsOf(v, Path(hashPrev[b])) \subseteq M, \A p \in S : p[1] \in M
  PROVE  ComesIn(v, b, M, S, t)
<1>1. \A u : u # t => Entry(v, b, M \cup {t}, S, u) = Entry(v, b, M, S, u)
  BY DEF Entry
<1>2. {n \in Outputs[t] : <<t, n>> \notin S} = Outputs[t]
  <2>1. ASSUME NEW n PROVE <<t, n>> \notin S
    <3>1. <<t, n>>[1] = t
      OBVIOUS
    <3> QED BY <3>1
  <2> QED BY <2>1
<1>3. MadeAt(v, b, t) = nHeight[b]
  BY DEF MadeAt
<1> QED BY Zenon, <1>1, <1>2, <1>3 DEF Entry, NewCoins, ComesIn

(* The chain of the genesis block alone.                                     *)
LEMMA ChainGenesis ==
  ASSUME NEW v \in Contents
  PROVE  /\ Chain(v, Genesis)
         /\ \A t \in Txs : Ledger(v, Genesis, t) =
              IF t \in Range(v[Genesis]) THEN NewCoins(t, 0) ELSE EmptyCoins
<1>1. Path(Genesis) = {Genesis} /\ Genesis \in Blocks /\ nHeight[Genesis] = 0
  BY PathEquation, CoinsAssumption, TreeAssumption
<1>2. TxsOf(v, Path(Genesis)) = Range(v[Genesis])
  BY <1>1 DEF TxsOf
<1>3. SpentBy(Range(v[Genesis])) = {}
  <2>1. \A t \in Range(v[Genesis]) : Prevouts[t] = <<>>
    BY CheckedAssumption
  <2>2. Range(<< >>) = {}
    BY DEF Range
  <2> QED BY <2>1, <2>2 DEF SpentBy
<1>4. Distinct(v, Genesis)
  BY <1>1 DEF Distinct
<1>5. SpentWasMade(v, Genesis)
  BY <1>1, <1>2, <1>3 DEF SpentWasMade
<1>6. Chain(v, Genesis)
  BY <1>1, <1>4, <1>5 DEF Chain
<1>7. ASSUME NEW t \in Txs
      PROVE  Ledger(v, Genesis, t) = IF t \in Range(v[Genesis]) THEN NewCoins(t, 0) ELSE EmptyCoins
  <2>1. t \in Range(v[Genesis]) => HeightOf(v, Genesis, t) = 0
    BY <1>1, <1>4, HeightDistinct
  <2>2. {n \in Outputs[t] : <<t, n>> \notin {}} = Outputs[t]
    OBVIOUS
  <2> QED BY <1>2, <1>3, <2>1, <2>2 DEF Ledger, NewCoins
<1> QED BY <1>6, <1>7

(* The chain of the parent is part of the chain.                             *)
LEMMA ChainParent ==
  ASSUME NEW v, NEW b \in Others, Chain(v, b)
  PROVE  Chain(v, hashPrev[b])
<1>1. Path(hashPrev[b]) \subseteq Path(b)
  BY Parents
<1>2. Distinct(v, hashPrev[b])
  BY Zenon, <1>1 DEF Chain, Distinct
<1>3. SpentWasMade(v, hashPrev[b])
  BY Zenon, <1>1 DEF Chain, SpentWasMade
<1> QED BY Zenon, <1>1, <1>2, <1>3 DEF Chain

(* A block whose inputs are unspent and mature, and whose transactions have  *)
(* no unspent outputs, makes the chain longer.                               *)
LEMMA ChainGrows ==
  ASSUME NEW v \in Contents, NEW b \in Others, Chain(v, hashPrev[b]),
         \A k \in 1..Len(v[b]) : Spendable(v, b, k) /\ Mature(v, b, k),
         \A t \in Range(v[b]) : IsPruned(Ledger(v, hashPrev[b], t))
  PROVE  Chain(v, b)
<1>0. /\ b \in Blocks /\ Path(b) = {b} \cup Path(hashPrev[b])
      /\ DOMAIN v[b] = 1..Len(v[b]) /\ Len(v[b]) \in Nat
  BY Parents, BlockTxs
<1>1. Distinct(v, b)
  BY DistinctGrows DEF Chain
<1>2. SpentWasMade(v, b)
  <2>1. SpentWasMade(v, hashPrev[b])
    BY Zenon DEF Chain
  <2>2. Earlier(v, b, Len(v[b]) + 1) = TxsOf(v, Path(b))
    BY Zenon, EarlierAll
  <2>3. \A l \in 1..(Len(v[b]) + 1) - 1 : Spendable(v, b, l)
    BY <1>0
  <2>4. Len(v[b]) + 1 \in 1..Len(v[b]) + 1
    BY <1>0
  <2>5. \A p \in SpentBy(TxsOf(v, Path(b))) : p[1] \in TxsOf(v, Path(b))
    BY Zenon, <2>1, <2>2, <2>3, <2>4, SpentEarlier
  <2> QED BY <1>0, <2>1, <2>5 DEF SpentWasMade
<1>3. ValidBlock(v, b)
  <2>1. ASSUME NEW k \in 1..Len(v[b]), NEW p \in Range(Prevouts[v[b][k]]), p[1] \in CoinBases
        PROVE  nHeight[b] - HeightOf(v, b, p[1]) >= COINBASE_MATURITY
    <3>1. p[1] \in Earlier(v, b, k)
      BY Zenon, <2>1 DEF Spendable
    <3>2. p[1] \in TxsOf(v, Path(b))
      <4>1. k \in 1..Len(v[b]) + 1
        BY <1>0
      <4> QED BY Zenon, <3>1, <4>1, EarlierInChain
    <3>3. HeightOf(v, b, p[1]) = MadeAt(v, b, p[1])
      BY Zenon, <1>1, <3>2, MadeAtDistinct DEF Chain
    <3> QED BY Zenon, <2>1, <3>3 DEF Mature
  <2> QED BY Zenon, <2>1 DEF ValidBlock, Spendable
<1> QED BY Zenon, <1>0, <1>1, <1>2, <1>3 DEF Chain

(* The inputs of a valid block are unspent and mature.                       *)
LEMMA ValidInputs ==
  ASSUME NEW v \in Contents, NEW b \in Others, Chain(v, hashPrev[b]), ValidBlock(v, b)
  PROVE  \A k \in 1..Len(v[b]) : Spendable(v, b, k) /\ Mature(v, b, k)
<1>0. b \in Blocks /\ Len(v[b]) \in Nat
  BY Zenon, Parents, BlockTxs
<1>1. \A k \in 1..Len(v[b]) : Spendable(v, b, k)
  BY Zenon DEF ValidBlock, Spendable
<1>2. Distinct(v, b) /\ Distinct(v, hashPrev[b])
  BY Zenon, <1>1, DistinctGrows DEF Chain
<1>3. ASSUME NEW k \in 1..Len(v[b]), NEW p \in Range(Prevouts[v[b][k]]), p[1] \in CoinBases
      PROVE  nHeight[b] - MadeAt(v, b, p[1]) >= COINBASE_MATURITY
  <2>1. p[1] \in Earlier(v, b, k) /\ nHeight[b] - HeightOf(v, b, p[1]) >= COINBASE_MATURITY
    BY Zenon, <1>3 DEF ValidBlock
  <2>2. p[1] \in TxsOf(v, Path(b))
    <3>1. k \in 1..Len(v[b]) + 1
      BY <1>0
    <3> QED BY Zenon, <2>1, <3>1, EarlierInChain
  <2>3. HeightOf(v, b, p[1]) = MadeAt(v, b, p[1])
    BY Zenon, <1>2, <2>2, MadeAtDistinct
  <2> QED BY Zenon, <2>1, <2>3
<1> QED BY Zenon, <1>1, <1>3 DEF Mature

-----------------------------------------------------------------------------
(* The inductive invariant *)

CCoins == [vout : SUBSET Nat, nHeight : Nat, fCoinBase : BOOLEAN]
CTxInUndo == [nHeight : Nat, fCoinBase : BOOLEAN]

(* The entries of a cache or of the database.                                *)
Entries ==
  {e \in [Txs -> CCoins \cup {NoCoins}] : \A t \in Txs : e[t] # NoCoins => e[t].vout \subseteq Outputs[t]}

Types ==
  /\ vtx \in Contents /\ fInitialDownload \in BOOLEAN
  /\ db \in Entries /\ cache \in Entries /\ view \in Entries
  /\ undo \in [Blocks -> Seq(Seq(CTxInUndo))] /\ txundo \in Seq(Seq(CTxInUndo))
  /\ tip \in Blocks /\ best \in Blocks /\ dbBest \in Blocks /\ block \in Blocks
  /\ failed \subseteq Blocks
  /\ i \in Nat /\ j \in Nat /\ fClean \in BOOLEAN
  /\ pc \in {"rest", "connect", "remove", "restore", "write"}

(* The layers below the view hold ledgers of valid chains.                   *)
Layers ==
  /\ DatabaseIsLedger /\ Agrees(vtx, pcoinsTip, best)
  /\ Chain(vtx, dbBest) /\ Chain(vtx, best) /\ Chain(vtx, tip)
  /\ pc # "write" => tip = best
  /\ pc # "write" /\ ~fInitialDownload => cache = NoEntries
  /\ pc \in {"rest", "write"} => view = NoEntries

(* Undo data is right where there is some, and there is some for all         *)
(* connected blocks.                                                         *)
Undos ==
  /\ \A b \in Blocks : undo[b] # <<>> => UndoOf(vtx, b, undo[b])
  /\ \A b \in (Path(best) \cup Path(dbBest)) \ {Genesis} : UndoOf(vtx, b, undo[b])

(* The inputs of the current transaction that are spent.                     *)
Inputs == IF j = 0 THEN 0 ELSE j - 1

(* While a block is connected.                                               *)
Connecting ==
  /\ block \in Others /\ hashPrev[block] = best
  /\ i \in 1..Len(vtx[block]) + 1
  /\ j # 0 => i <= Len(vtx[block]) /\ j <= Len(Prevouts[tx]) + 1
  /\ \A k \in 1..i - 1 : Spendable(vtx, block, k) /\ Mature(vtx, block, k)
  /\ j # 0 => Spendable(vtx, block, i) /\ Mature(vtx, block, i)
  /\ Len(txundo) = (IF j = 0 THEN i - 1 ELSE i)
  /\ \A k \in 1..i - 1 : \A l \in DOMAIN Prevouts[vtx[block][k]] :
       txundo[k][l] = RightUndo(vtx, block, k, l)
  /\ j # 0 => Len(txundo[i]) = j - 1 /\ \A l \in 1..j - 1 : txundo[i][l] = RightUndo(vtx, block, i, l)
  /\ Shows(Over(view, pcoinsTip), vtx, block, Earlier(vtx, block, i), Spent(vtx, block, i, Inputs))
  /\ \A t \in Range(vtx[block]) : pcoinsTip[t] = NoCoins

(* While a block is disconnected.                                            *)
Disconnecting ==
  /\ block \in Others /\ block = best
  /\ i \in 0..Len(vtx[block])
  /\ pc = "restore" => i # 0 /\ j \in 0..Len(Prevouts[tx])
  /\ fClean =>
       IF pc = "restore"
       THEN Shows(Over(view, pcoinsTip), vtx, block, Earlier(vtx, block, i), Spent(vtx, block, i, j))
       ELSE Shows(Over(view, pcoinsTip), vtx, block, Earlier(vtx, block, i + 1),
                  SpentBy(Earlier(vtx, block, i + 1)))

IndInv ==
  /\ Types /\ Layers /\ Undos
  /\ IF pc = "connect" THEN Connecting ELSE txundo = <<>>
  /\ pc \in {"remove", "restore"} => Disconnecting
  /\ ~fInitialDownload => \A b \in failed : ~ValidBlock(vtx, b)

-----------------------------------------------------------------------------
(* The layers *)

(* An entry is not the absence of one.                                       *)
LEMMA NoEntryNoCoins == \A c \in CCoins : c # NoCoins
BY CoinsAssumption DEF CCoins

(* The coins of a new transaction.                                           *)
LEMMA NewCoinsType ==
  ASSUME NEW t \in Txs, NEW h \in Nat
  PROVE  NewCoins(t, h) \in CCoins /\ NewCoins(t, h).vout = Outputs[t]
BY CoinsAssumption DEF NewCoins, Coins, CCoins

(* Looking a key up in two layers.                                           *)
LEMMA OverEntries ==
  ASSUME NEW e \in Entries, NEW f \in Entries
  PROVE  /\ Over(e, f) \in Entries
         /\ \A t \in Txs : Over(e, f)[t] = IF e[t] # NoCoins THEN e[t] ELSE f[t]
<1>1. /\ e \in [Txs -> CCoins \cup {NoCoins}] /\ f \in [Txs -> CCoins \cup {NoCoins}]
      /\ \A t \in Txs : e[t] # NoCoins => e[t].vout \subseteq Outputs[t]
      /\ \A t \in Txs : f[t] # NoCoins => f[t].vout \subseteq Outputs[t]
  BY Zenon DEF Entries
<1>2. \A t \in Txs : Over(e, f)[t] = IF e[t] # NoCoins THEN e[t] ELSE f[t]
  BY DEF Over
<1>3. Over(e, f) \in [Txs -> CCoins \cup {NoCoins}]
  BY <1>1 DEF Over
<1>4. \A t \in Txs : Over(e, f)[t] # NoCoins => Over(e, f)[t].vout \subseteq Outputs[t]
  BY Zenon, <1>1, <1>2
<1> QED BY Zenon, <1>2, <1>3, <1>4 DEF Entries

(* An empty layer above changes nothing.                                     *)
LEMMA OverNothing ==
  /\ NoEntries \in Entries
  /\ \A e \in Entries : Over(NoEntries, e) = e
<1>1. NoEntries \in [Txs -> CCoins \cup {NoCoins}] /\ \A t \in Txs : NoEntries[t] = NoCoins
  BY DEF NoEntries
<1>2. NoEntries \in Entries
  BY Zenon, <1>1 DEF Entries
<1>3. ASSUME NEW e \in Entries PROVE Over(NoEntries, e) = e
  <2>1. e = [t \in Txs |-> e[t]]
    BY Zenon DEF Entries
  <2> QED BY Zenon, <1>1, <2>1 DEF Over
<1> QED BY Zenon, <1>2, <1>3

(* Three layers: it does not matter which two are merged first.              *)
LEMMA OverTwice ==
  \A e, f, g : Over(e, Over(f, g)) = Over(Over(e, f), g)
<1> TAKE e, f, g
<1>1. \A t \in Txs : Over(f, g)[t] = IF f[t] # NoCoins THEN f[t] ELSE g[t]
  BY DEF Over
<1>2. \A t \in Txs : Over(e, f)[t] = IF e[t] # NoCoins THEN e[t] ELSE f[t]
  BY DEF Over
<1> DEFINE l == Over(f, g)
           u == Over(e, f)
<1> HIDE DEF l, u
<1>3. Over(e, l) = Over(u, g)
  BY <1>1, <1>2 DEF Over, l, u
<1> QED BY <1>3 DEF l, u

(* Setting one entry.                                                        *)
LEMMA SetEntry ==
  ASSUME NEW e \in Entries, NEW t \in Txs, NEW c \in CCoins, c.vout \subseteq Outputs[t]
  PROVE  /\ [e EXCEPT ![t] = c] \in Entries
         /\ \A u \in Txs : [e EXCEPT ![t] = c][u] = IF u = t THEN c ELSE e[u]
<1>1. /\ e \in [Txs -> CCoins \cup {NoCoins}]
      /\ \A u \in Txs : e[u] # NoCoins => e[u].vout \subseteq Outputs[u]
  BY Zenon DEF Entries
<1> DEFINE d == [e EXCEPT ![t] = c]
<1>2. d \in [Txs -> CCoins \cup {NoCoins}] /\ \A u \in Txs : d[u] = IF u = t THEN c ELSE e[u]
  BY <1>1
<1> HIDE DEF d
<1>3. \A u \in Txs : d[u] # NoCoins => d[u].vout \subseteq Outputs[u]
  BY Zenon, <1>1, <1>2
<1>4. d \in Entries
  BY Zenon, <1>2, <1>3 DEF Entries
<1> QED BY Zenon, <1>2, <1>4 DEF d

(* The view after one entry is set.                                          *)
LEMMA ShowsSet ==
  ASSUME NEW e \in Entries, NEW f \in Entries, NEW t \in Txs, NEW c \in CCoins,
         c.vout \subseteq Outputs[t], NEW v, NEW b, NEW M, NEW S, NEW M2, NEW S2,
         Shows(Over(e, f), v, b, M, S), SameCoins(c, Entry(v, b, M2, S2, t)),
         \A u \in Txs : u # t => Entry(v, b, M2, S2, u) = Entry(v, b, M, S, u)
  PROVE  Shows(Over([e EXCEPT ![t] = c], f), v, b, M2, S2)
<1> DEFINE d == [e EXCEPT ![t] = c]
<1>1. d \in Entries /\ \A u \in Txs : d[u] = IF u = t THEN c ELSE e[u]
  BY SetEntry
<1> HIDE DEF d
<1>2. c # NoCoins
  BY Zenon, NoEntryNoCoins
<1>3. \A u \in Txs : Over(d, f)[u] = IF u = t THEN c ELSE Over(e, f)[u]
  <2>1. \A u \in Txs : Over(d, f)[u] = IF d[u] # NoCoins THEN d[u] ELSE f[u]
    BY Zenon, <1>1, OverEntries
  <2>2. \A u \in Txs : Over(e, f)[u] = IF e[u] # NoCoins THEN e[u] ELSE f[u]
    BY Zenon, OverEntries
  <2> QED BY <1>1, <1>2, <2>1, <2>2
<1> QED BY Zenon, <1>2, <1>3 DEF Shows, d

(* What the view answers.                                                    *)
LEMMA Answers ==
  ASSUME Types
  PROVE  /\ pcoinsTip \in Entries /\ Over(view, pcoinsTip) \in Entries
         /\ \A t \in Txs :
              /\ GetCoins(t) = Over(view, pcoinsTip)[t]
              /\ HaveCoins(t) => GetCoins(t) \in CCoins /\ GetCoins(t).vout \subseteq Outputs[t]
              /\ ~HaveCoins(t) => GetCoins(t) = NoCoins
<1>1. pcoinsTip \in Entries
  BY Zenon, OverEntries DEF Types, pcoinsTip
<1>2. Over(view, pcoinsTip) \in Entries
  BY Zenon, <1>1, OverEntries DEF Types
<1> QED BY Zenon, <1>1, <1>2 DEF GetCoins, HaveCoins, Entries

(* What it answers is what the ledger says.                                  *)
LEMMA Shown ==
  ASSUME Types, NEW v, NEW b, NEW M, NEW S, Shows(Over(view, pcoinsTip), v, b, M, S), NEW t \in Txs
  PROVE  /\ HaveCoins(t) => SameCoins(GetCoins(t), Entry(v, b, M, S, t))
         /\ ~HaveCoins(t) => SameCoins(EmptyCoins, Entry(v, b, M, S, t))
BY Zenon, Answers DEF Shows, HaveCoins

-----------------------------------------------------------------------------
(* The steps *)

(* While pcoinsTip and the database stay as they are, so does what is said   *)
(* of them.                                                                  *)
LEMMA Kept ==
  ASSUME UNCHANGED <<given, base>>
  PROVE  /\ vtx' = vtx /\ fInitialDownload' = fInitialDownload
         /\ db' = db /\ dbBest' = dbBest /\ cache' = cache /\ best' = best /\ tip' = tip
         /\ pcoinsTip' = pcoinsTip
         /\ DatabaseIsLedger' = DatabaseIsLedger
<1>1. /\ vtx' = vtx /\ fInitialDownload' = fInitialDownload
      /\ db' = db /\ dbBest' = dbBest /\ cache' = cache /\ best' = best /\ tip' = tip
  BY DEF given, base
<1> QED BY Zenon, <1>1 DEF pcoinsTip, DatabaseIsLedger

(* A step from rest or while a block is applied, after which one is.         *)
LEMMA Applying ==
  ASSUME Layers, Undos, ~fInitialDownload => \A b \in failed : ~ValidBlock(vtx, b),
         UNCHANGED <<given, base, undo, failed>>,
         pc # "write", pc' \in {"connect", "remove", "restore"}
  PROVE  /\ Layers' /\ Undos'
         /\ (~fInitialDownload => \A b \in failed : ~ValidBlock(vtx, b))'
<1>1. UNCHANGED <<given, base>> /\ undo' = undo /\ failed' = failed
  OBVIOUS
<1>2. pc' # "write" /\ pc' # "rest"
  OBVIOUS
<1>3. Layers'
  BY Zenon, <1>1, <1>2, Kept DEF Layers
<1>4. Undos'
  BY Zenon, <1>1, Kept DEF Undos
<1> QED BY Zenon, <1>1, <1>3, <1>4, Kept

(* A block is given up.                                                      *)
LEMMA Rejected ==
  ASSUME IndInv, pc # "write", NEW b \in Blocks, ~fInitialDownload => ~ValidBlock(vtx, b),
         Reject(b), UNCHANGED <<given, base, undo, block, i, fClean>>, j' \in Nat
  PROVE  IndInv'
<1>1. /\ UNCHANGED <<given, base>> /\ undo' = undo /\ block' = block /\ i' = i /\ fClean' = fClean
      /\ failed' = failed \cup {b} /\ view' = NoEntries /\ txundo' = <<>> /\ pc' = "rest"
  BY DEF Reject
<1>2. /\ vtx' = vtx /\ fInitialDownload' = fInitialDownload
      /\ db' = db /\ dbBest' = dbBest /\ cache' = cache /\ best' = best /\ tip' = tip
      /\ pcoinsTip' = pcoinsTip /\ DatabaseIsLedger' = DatabaseIsLedger
  BY Zenon, <1>1, Kept
<1>3. Types /\ Layers /\ Undos /\ (~fInitialDownload => \A x \in failed : ~ValidBlock(vtx, x))
  BY Zenon DEF IndInv
<1>4. Types'
  <2>1. txundo' \in Seq(Seq(CTxInUndo)) /\ failed' \subseteq Blocks
    BY <1>1, <1>3 DEF Types
  <2>2. view' \in Entries
    BY Zenon, <1>1, OverNothing
  <2>3. pc' \in {"rest", "connect", "remove", "restore", "write"}
    BY <1>1
  <2> QED BY Zenon, <1>1, <1>2, <1>3, <2>1, <2>2, <2>3 DEF Types
<1>5. pc' # "write" /\ pc' # "connect" /\ pc' # "remove" /\ pc' # "restore"
  BY <1>1
<1>6. Layers'
  BY Zenon, <1>1, <1>2, <1>3, <1>5 DEF Layers
<1>7. Undos'
  BY Zenon, <1>1, <1>2, <1>3 DEF Undos
<1>8. (~fInitialDownload => \A x \in failed : ~ValidBlock(vtx, x))'
  BY Zenon, <1>1, <1>2, <1>3
<1>9. pc' \notin {"remove", "restore"}
  BY <1>5
<1> QED BY Zenon, <1>1, <1>4, <1>5, <1>6, <1>7, <1>8, <1>9 DEF IndInv

(* The initial state.                                                        *)
LEMMA InitIndInv == Init => IndInv
<1> SUFFICES ASSUME Init PROVE IndInv
  OBVIOUS
<1>1. /\ vtx \in Contents /\ Genesis \in Blocks /\ pc = "rest" /\ i = 0 /\ j = 0 /\ fClean = TRUE
      /\ fInitialDownload \in BOOLEAN
      /\ dbBest = Genesis /\ best = Genesis /\ tip = Genesis /\ block = Genesis /\ failed = {}
      /\ cache = NoEntries /\ view = NoEntries /\ undo = [b \in Blocks |-> <<>>] /\ txundo = <<>>
  BY Zenon, CoinsAssumption DEF Init
<1>2. db \in Entries /\ \A t \in Txs : db[t] = IF t \in Range(vtx[Genesis]) THEN NewCoins(t, 0) ELSE NoCoins
  <2>1. \A t \in Txs : db[t] = IF t \in Range(vtx[Genesis]) THEN NewCoins(t, 0) ELSE NoCoins
    BY DEF Init
  <2>2. \A t \in Txs : NewCoins(t, 0) \in CCoins /\ NewCoins(t, 0).vout = Outputs[t]
    BY NewCoinsType
  <2>3. db \in [Txs -> CCoins \cup {NoCoins}]
    BY <2>2 DEF Init
  <2>4. \A t \in Txs : db[t] # NoCoins => db[t].vout \subseteq Outputs[t]
    BY <2>1, <2>2
  <2> QED BY Zenon, <2>1, <2>3, <2>4 DEF Entries
<1>3. Types
  <2>1. undo \in [Blocks -> Seq(Seq(CTxInUndo))] /\ txundo \in Seq(Seq(CTxInUndo)) /\ failed \subseteq Blocks
    BY <1>1
  <2>2. i \in Nat /\ j \in Nat /\ fClean \in BOOLEAN /\ pc \in {"rest", "connect", "remove", "restore", "write"}
    BY <1>1
  <2> QED BY Zenon, <1>1, <1>2, <2>1, <2>2, OverNothing DEF Types
<1>4. Agrees(vtx, db, Genesis) /\ Chain(vtx, Genesis)
  <2>1. /\ Chain(vtx, Genesis)
        /\ \A t \in Txs : Ledger(vtx, Genesis, t) = IF t \in Range(vtx[Genesis]) THEN NewCoins(t, 0) ELSE EmptyCoins
    BY Zenon, <1>1, ChainGenesis
  <2>2. \A t \in Txs : NewCoins(t, 0) # NoCoins
    BY NewCoinsType, NoEntryNoCoins
  <2>3. \A t \in Txs : (IF db[t] = NoCoins THEN EmptyCoins ELSE db[t]) = Ledger(vtx, Genesis, t)
    BY <1>2, <2>1, <2>2
  <2> QED BY Zenon, <2>1, <2>3 DEF Agrees, SameCoins
<1>5. \A t \in Txs : db[t] # NoCoins => ~IsPruned(db[t])
  <2>1. \A t \in Range(vtx[Genesis]) : Outputs[t] # {}
    BY Zenon, <1>1, CheckedAssumption
  <2>2. \A t \in Txs : NewCoins(t, 0).vout = Outputs[t]
    BY NewCoinsType
  <2> QED BY Zenon, <1>2, <2>1, <2>2 DEF IsPruned
<1>6. DatabaseIsLedger
  BY Zenon, <1>1, <1>4, <1>5 DEF DatabaseIsLedger
<1>7. pcoinsTip = db
  BY Zenon, <1>1, <1>2, OverNothing DEF pcoinsTip
<1>8. Layers
  BY Zenon, <1>1, <1>4, <1>6, <1>7 DEF Layers
<1>9. Undos
  <2>1. Path(Genesis) = {Genesis}
    BY Zenon, PathEquation
  <2>2. \A b \in Blocks : undo[b] = <<>>
    BY <1>1
  <2> QED BY <1>1, <2>1, <2>2 DEF Undos
<1>10. pc # "connect" /\ pc \notin {"remove", "restore"}
  BY <1>1
<1> QED BY Zenon, <1>1, <1>3, <1>8, <1>9, <1>10 DEF IndInv

(* A block is taken: the view shows the ledger of its parent.                *)
LEMMA ConnectTipStep ==
  ASSUME IndInv, NEW b \in Blocks, ConnectTip(b)
  PROVE  IndInv'
<1>0. /\ pc = "rest" /\ b \in Others /\ hashPrev[b] = tip /\ pc # "write" /\ pc # "connect"
      /\ UNCHANGED <<given, base>> /\ undo' = undo /\ fClean' = fClean
  BY DEF ConnectTip, Others
<1>1. Types /\ Layers /\ Undos /\ txundo = <<>> /\ (~fInitialDownload => \A x \in failed : ~ValidBlock(vtx, x))
  BY Zenon, <1>0 DEF IndInv
<1>2. /\ vtx \in Contents /\ db \in Entries /\ view = NoEntries /\ hashPrev[b] = best /\ Chain(vtx, best)
      /\ Agrees(vtx, pcoinsTip, best) /\ (~fInitialDownload => cache = NoEntries)
      /\ pc \in {"rest", "write"}
  BY Zenon, <1>0, <1>1 DEF Types, Layers
<1>3. pcoinsTip \in Entries /\ Over(view, pcoinsTip) = pcoinsTip
  BY Zenon, <1>1, <1>2, Answers, OverNothing
<1>4. \A t \in Range(vtx[b]) : t \in Txs
  BY Zenon, <1>2, BlockTxs
<1>5. CASE Overwrites(b)
  <2>1. Reject(b) /\ UNCHANGED <<block, i, j>>
    BY Zenon, <1>5 DEF ConnectTip
  <2>2. ASSUME ~fInitialDownload PROVE ~ValidBlock(vtx, b)
    <3>1. pcoinsTip = db
      BY Zenon, <1>2, <2>2, OverNothing DEF pcoinsTip
    <3>2. PICK t \in Range(vtx[b]) : db[t] # NoCoins
      BY Zenon, <1>3, <1>5, <3>1 DEF Overwrites, HaveCoins, GetCoins
    <3>3. ~IsPruned(db[t]) /\ SameCoins(db[t], Ledger(vtx, best, t))
      BY Zenon, <1>1, <1>2, <1>4, <3>1, <3>2 DEF Layers, DatabaseIsLedger, Agrees
    <3>4. ~IsPruned(Ledger(vtx, hashPrev[b], t))
      BY Zenon, <1>2, <3>3 DEF SameCoins
    <3> QED BY Zenon, <3>4 DEF ValidBlock
  <2>3. UNCHANGED <<given, base, undo, block, i, fClean>> /\ j' \in Nat
    BY <1>0, <1>1, <2>1 DEF Types
  <2> QED BY Zenon, <1>0, <2>1, <2>2, <2>3, Rejected
<1>6. CASE ~Overwrites(b)
  <2>1. /\ block' = b /\ i' = 1 /\ j' = 0 /\ pc' = "connect"
        /\ failed' = failed /\ view' = view /\ txundo' = txundo
    BY <1>6 DEF ConnectTip
  <2>2. /\ vtx' = vtx /\ pcoinsTip' = pcoinsTip /\ best' = best /\ fInitialDownload' = fInitialDownload
        /\ db' = db /\ dbBest' = dbBest /\ cache' = cache /\ tip' = tip
    BY Zenon, <1>0, Kept
  <2>3. /\ Layers' /\ Undos' /\ (~fInitialDownload => \A x \in failed : ~ValidBlock(vtx, x))'
    <3>1. pc' \in {"connect", "remove", "restore"} /\ UNCHANGED <<given, base, undo, failed>>
      BY <1>0, <2>1
    <3> QED BY Zenon, <1>0, <1>1, <3>1, Applying
  <2>4. Types'
    <3>1. i' \in Nat /\ j' \in Nat /\ pc' \in {"rest", "connect", "remove", "restore", "write"}
      BY <2>1
    <3> QED BY Zenon, <1>0, <1>1, <2>1, <2>2, <3>1 DEF Types
  <2>5. Connecting'
    <3>1. Len(vtx[b]) \in Nat
      BY Zenon, <1>2, BlockTxs
    <3>2. 1 \in 1..Len(vtx[b]) + 1 /\ 1..1 - 1 = {}
      BY <3>1
    <3>3. Spent(vtx, b, 1, 0) = SpentBy(Earlier(vtx, b, 1))
      BY Zenon, SpentFirst
    <3>4. Shows(pcoinsTip, vtx, b, Earlier(vtx, b, 1), Spent(vtx, b, 1, 0))
      BY Zenon, <1>2, <3>3, EntryFirst DEF Shows, Agrees
    <3>5. \A t \in Range(vtx[b]) : pcoinsTip[t] = NoCoins
      BY Zenon, <1>3, <1>6 DEF Overwrites, HaveCoins, GetCoins
    <3>6. Len(txundo) = 1 - 1
      BY <1>1
    <3>7. Inputs' = 0
      BY Zenon, <2>1 DEF Inputs
    <3> QED BY Zenon, <1>0, <1>2, <1>3, <2>1, <2>2, <3>2, <3>4, <3>5, <3>6, <3>7 DEF Connecting
  <2>6. pc' \notin {"remove", "restore"}
    BY <2>1
  <2> QED BY Zenon, <2>1, <2>3, <2>4, <2>5, <2>6 DEF IndInv
<1> QED BY Zenon, <1>5, <1>6

(* Outpoint p is unspent in an entry if it was made and is not spent.        *)
OutputShown(v, b, M, S, p) ==
  /\ p[2] \in Entry(v, b, M, S, p[1]).vout <=> p[1] \in M /\ p[2] \in Outputs[p[1]] /\ p \notin S
  /\ p[1] \in M => /\ Entry(v, b, M, S, p[1]).nHeight = MadeAt(v, b, p[1])
                   /\ Entry(v, b, M, S, p[1]).fCoinBase = (p[1] \in CoinBases)

(* The unspent outputs of an entry.                                          *)
LEMMA EntryOutputs ==
  ASSUME NEW v, NEW b, NEW M, NEW S, NEW p \in Txs \X Nat
  PROVE  OutputShown(v, b, M, S, p)
<1>1. p = <<p[1], p[2]>>
  OBVIOUS
<1>2. CASE p[1] \in M
  <2>1. Entry(v, b, M, S, p[1])
          = Coins({n \in Outputs[p[1]] : <<p[1], n>> \notin S}, MadeAt(v, b, p[1]), p[1] \in CoinBases)
    BY Zenon, <1>2 DEF Entry
  <2> QED BY <1>1, <1>2, <2>1 DEF Coins, OutputShown
<1>3. CASE p[1] \notin M
  <2>1. Entry(v, b, M, S, p[1]).vout = {}
    BY <1>3 DEF Entry, EmptyCoins, Coins
  <2> QED BY <1>3, <2>1 DEF OutputShown
<1> QED BY Zenon, <1>2, <1>3

(* An output is available if the ledger has it, and then the coins are the   *)
(* ledger's.                                                                 *)
AvailableIn(v, b, M, S, p) ==
  /\ IsAvailable(p) <=> p[1] \in M /\ p[2] \in Outputs[p[1]] /\ p \notin S
  /\ IsAvailable(p) => /\ GetCoins(p[1]) = Entry(v, b, M, S, p[1])
                       /\ GetCoins(p[1]).nHeight = MadeAt(v, b, p[1])
                       /\ GetCoins(p[1]).fCoinBase = (p[1] \in CoinBases)

(* So the view answers while it shows the ledger.                            *)
LEMMA Available ==
  ASSUME Types, NEW v, NEW b, NEW M, NEW S, Shows(Over(view, pcoinsTip), v, b, M, S),
         NEW p \in Txs \X Nat
  PROVE  AvailableIn(v, b, M, S, p)
<1>0. OutputShown(v, b, M, S, p)
  BY Zenon, EntryOutputs
<1> DEFINE e == Entry(v, b, M, S, p[1])
<1>1. p[1] \in Txs /\ EmptyCoins.vout = {}
  BY DEF EmptyCoins, Coins
<1>2. /\ HaveCoins(p[1]) => SameCoins(GetCoins(p[1]), e)
      /\ ~HaveCoins(p[1]) => SameCoins(EmptyCoins, e)
  BY Zenon, <1>1, Shown
<1>4. IsAvailable(p) => p[2] \in e.vout /\ GetCoins(p[1]) = e
  BY Zenon, <1>2 DEF IsAvailable, SameCoins, IsPruned
<1>5. p[2] \in e.vout => IsAvailable(p)
  BY Zenon, <1>1, <1>2 DEF IsAvailable, SameCoins, IsPruned
<1> QED BY Zenon, <1>0, <1>4, <1>5 DEF OutputShown, AvailableIn

(* CheckInputs is the ledger's rule.                                         *)
LEMMA CheckInputsIsRule ==
  ASSUME Types, block \in Others, i \in 1..Len(vtx[block]),
         LET M == Earlier(vtx, block, i)
         IN  Shows(Over(view, pcoinsTip), vtx, block, M, SpentBy(M))
  PROVE  CheckInputs(tx) <=> Spendable(vtx, block, i) /\ Mature(vtx, block, i)
<1> DEFINE M == Earlier(vtx, block, i)
<1>1. vtx \in Contents /\ block \in Blocks
  BY Zenon DEF Types
<1>2. vtx[block][i] \in Txs
  BY Zenon, <1>1, BlockTxs
<1>3. \A p \in Range(Prevouts[vtx[block][i]]) : p \in Txs \X Nat
  BY Zenon, <1>2, TxInputs
<1>4. ASSUME NEW p \in Range(Prevouts[vtx[block][i]])
      PROVE  AvailableIn(vtx, block, M, SpentBy(M), p)
  <2>1. p \in Txs \X Nat
    BY Zenon, <1>3
  <2>2. Shows(Over(view, pcoinsTip), vtx, block, M, SpentBy(M))
    OBVIOUS
  <2> HIDE DEF M
  <2> QED BY Zenon, <2>1, <2>2, Available
<1> QED BY Zenon, <1>4 DEF CheckInputs, tx, Spendable, Mature, AvailableIn

(* The inputs of a transaction are checked.                                  *)
LEMMA CheckTxStep ==
  ASSUME IndInv, CheckTx
  PROVE  IndInv'
<1>0. /\ pc = "connect" /\ i <= Len(vtx[block]) /\ j = 0 /\ pc # "write"
      /\ UNCHANGED <<given, base>> /\ undo' = undo /\ block' = block /\ i' = i /\ fClean' = fClean
  BY DEF CheckTx
<1>1. /\ Types /\ Layers /\ Undos /\ Connecting
      /\ (~fInitialDownload => \A x \in failed : ~ValidBlock(vtx, x))
  BY Zenon, <1>0 DEF IndInv
<1>2. /\ vtx \in Contents /\ block \in Blocks /\ block \in Others /\ hashPrev[block] = best
      /\ Chain(vtx, best) /\ i \in 1..Len(vtx[block]) + 1 /\ txundo \in Seq(Seq(CTxInUndo))
  BY Zenon, <1>1 DEF Types, Layers, Connecting
<1>3. Len(vtx[block]) \in Nat /\ i \in 1..Len(vtx[block]) /\ i \in Nat \ {0}
  <2>1. Len(vtx[block]) \in Nat
    BY Zenon, <1>2, BlockTxs
  <2> QED BY <1>0, <1>2, <2>1
<1>4. CheckInputs(tx) <=> Spendable(vtx, block, i) /\ Mature(vtx, block, i)
  <2>1. Shows(Over(view, pcoinsTip), vtx, block, Earlier(vtx, block, i), Spent(vtx, block, i, 0))
    BY Zenon, <1>0, <1>1 DEF Connecting, Inputs
  <2>2. Spent(vtx, block, i, 0) = SpentBy(Earlier(vtx, block, i))
    BY Zenon, SpentFirst
  <2> QED BY Zenon, <1>1, <1>2, <1>3, <2>1, <2>2, CheckInputsIsRule
<1>5. CASE ~CheckInputs(tx)
  <2>1. Reject(block) /\ j' = 0
    BY Zenon, <1>5 DEF CheckTx
  <2>2. ~ValidBlock(vtx, block)
    BY Zenon, <1>2, <1>3, <1>4, <1>5, ValidInputs
  <2>3. UNCHANGED <<given, base, undo, block, i, fClean>> /\ j' \in Nat
    BY <1>0, <2>1
  <2> QED BY Zenon, <1>0, <1>2, <2>1, <2>2, <2>3, Rejected
<1>6. CASE CheckInputs(tx)
  <2>1. /\ j' = 1 /\ txundo' = Append(txundo, <<>>)
        /\ failed' = failed /\ view' = view /\ pc' = pc
    BY <1>6 DEF CheckTx
  <2>2. /\ vtx' = vtx /\ pcoinsTip' = pcoinsTip /\ best' = best /\ fInitialDownload' = fInitialDownload
        /\ db' = db /\ dbBest' = dbBest /\ cache' = cache /\ tip' = tip
    BY Zenon, <1>0, Kept
  <2>3. /\ Layers' /\ Undos' /\ (~fInitialDownload => \A x \in failed : ~ValidBlock(vtx, x))'
    <3>1. pc' \in {"connect", "remove", "restore"} /\ UNCHANGED <<given, base, undo, failed>>
      BY <1>0, <2>1
    <3> QED BY Zenon, <1>0, <1>1, <3>1, Applying
  <2>4. Types'
    <3>1. j' \in Nat /\ txundo' \in Seq(Seq(CTxInUndo))
      BY <1>2, <2>1
    <3> QED BY Zenon, <1>0, <1>1, <2>1, <2>2, <3>1 DEF Types
  <2>5. Connecting'
    <3>1. Len(txundo) = i - 1
      BY Zenon, <1>0, <1>1 DEF Connecting
    <3>2. /\ Len(txundo') = i /\ txundo'[i] = <<>> /\ Len(txundo'[i]) = 1 - 1
          /\ \A k \in 1..i - 1 : txundo'[k] = txundo[k]
      BY <1>2, <1>3, <2>1, <3>1
    <3>3. 1 <= Len(Prevouts[vtx[block][i]]) + 1 /\ 1..1 - 1 = {}
      <4>1. Len(Prevouts[vtx[block][i]]) \in Nat
        BY Zenon, <1>2, <1>3, BlockTxs, TxInputs
      <4> QED BY <4>1
    <3>4. Inputs' = Inputs /\ j' # 0
      BY <1>0, <2>1 DEF Inputs
    <3>5. Spendable(vtx, block, i) /\ Mature(vtx, block, i)
      BY Zenon, <1>4, <1>6
    <3>6. \A k \in 1..i - 1 : \A l \in DOMAIN Prevouts[vtx[block][k]] :
            txundo'[k][l] = RightUndo(vtx, block, k, l)
      BY Zenon, <1>1, <3>2 DEF Connecting
    <3>7. tx' = vtx[block][i]
      BY Zenon, <1>0, <2>2 DEF tx
    <3> QED BY Zenon, <1>0, <1>1, <2>1, <2>2, <3>2, <3>3, <3>4, <3>5, <3>6, <3>7 DEF Connecting
  <2>6. pc' = "connect" /\ pc' \notin {"remove", "restore"}
    BY <1>0, <2>1
  <2> QED BY Zenon, <2>3, <2>4, <2>5, <2>6 DEF IndInv
<1> QED BY Zenon, <1>5, <1>6

(* Input l of transaction k of block b spends an output that is there, and   *)
(* changes the coins of that output's transaction only.                      *)
SpendsInput(v, b, k, l) ==
  LET p == Prevouts[v[b][k]][l]
      M == Earlier(v, b, k)
      e == Entry(v, b, M, Spent(v, b, k, l - 1), p[1])
      f == Entry(v, b, M, Spent(v, b, k, l), p[1])
  IN  /\ p \in Txs \X Nat /\ e \in CCoins /\ p[2] \in e.vout
      /\ p[1] \in M /\ p[2] \in Outputs[p[1]] /\ p \notin Spent(v, b, k, l - 1)
      /\ f = Coins(e.vout \ {p[2]}, e.nHeight, e.fCoinBase)
      /\ \A t \in Txs : t # p[1] =>
           Entry(v, b, M, Spent(v, b, k, l), t) = Entry(v, b, M, Spent(v, b, k, l - 1), t)
      /\ e.nHeight = MadeAt(v, b, p[1])
      /\ RightUndo(v, b, k, l) = UndoEntry(e, e.vout \ {p[2]})

(* What is unspent before a transaction is unspent until its own input, as   *)
(* no transaction spends an output twice.                                    *)
LEMMA SpendingInput ==
  ASSUME NEW v \in Contents, NEW b \in Others, NEW k \in 1..Len(v[b]), Spendable(v, b, k),
         NEW l \in 1..Len(Prevouts[v[b][k]])
  PROVE  SpendsInput(v, b, k, l)
<1> DEFINE t == v[b][k]
           p == Prevouts[t][l]
           M == Earlier(v, b, k)
           S == Spent(v, b, k, l - 1)
           e == Entry(v, b, M, S, p[1])
           f == Entry(v, b, M, Spent(v, b, k, l), p[1])
<1>0. b \in Blocks
  BY Zenon, Parents
<1>1. t \in Txs /\ Len(v[b]) \in Nat
  BY Zenon, <1>0, BlockTxs
<1>2. /\ p \in Txs \X Nat /\ p \in Range(Prevouts[t]) /\ Len(Prevouts[t]) \in Nat
      /\ DOMAIN Prevouts[t] = 1..Len(Prevouts[t])
  BY Zenon, <1>1, TxInputs
<1>3. p[1] \in M /\ p[2] \in Outputs[p[1]] /\ p \notin SpentBy(M)
  BY Zenon, <1>2 DEF Spendable
<1>4. l \in Nat \ {0} /\ k \in 1..Len(v[b]) + 1 /\ l \in DOMAIN Prevouts[t] /\ Prevouts[t] # <<>>
      /\ \A m \in 1..l - 1 : m \in DOMAIN Prevouts[t] /\ m # l
  BY <1>1, <1>2
<1>5. IsInjective(Prevouts[t])
  BY Zenon, <1>1, <1>4, CheckedAssumption
<1>6. \A m \in 1..l - 1 : Prevouts[t][m] # p
  BY Zenon, <1>4, <1>5 DEF IsInjective
<1>7. p \notin S
  BY Zenon, <1>3, <1>6 DEF Spent
<1>8. Spent(v, b, k, l) = S \cup {p}
  BY <1>4, SpentNext
<1> HIDE DEF p, M, S
<1>9. OutputShown(v, b, M, S, p)
  BY Zenon, <1>2, EntryOutputs
<1>10. p[2] \in e.vout /\ e.nHeight = MadeAt(v, b, p[1])
  BY Zenon, <1>3, <1>7, <1>9 DEF OutputShown
<1>11. p[1] \in Txs
  BY <1>2
<1>12. e \in CCoins
  BY Zenon, <1>11, EntryType DEF CCoins
<1>13. /\ f = Coins(e.vout \ {p[2]}, e.nHeight, e.fCoinBase)
       /\ \A u \in Txs : u # p[1] => Entry(v, b, M, Spent(v, b, k, l), u) = Entry(v, b, M, S, u)
  <2>1. Entry(v, b, M, S \cup {p}, p[1]) = Coins(e.vout \ {p[2]}, e.nHeight, e.fCoinBase)
    <3>1. TakesAway(v, b, M, S, p)
      BY Zenon, <1>2, <1>3, EntrySpend
    <3> QED BY Zenon, <3>1 DEF TakesAway
  <2>2. ASSUME NEW u \in Txs, u # p[1] PROVE Entry(v, b, M, S \cup {p}, u) = Entry(v, b, M, S, u)
    BY <1>2, <2>2, EntrySpendOther
  <2> QED BY Zenon, <1>8, <2>1, <2>2
<1>14. f.vout = e.vout \ {p[2]}
  BY <1>13 DEF Coins
<1>15. RightUndo(v, b, k, l) = UndoEntry(e, f.vout)
  BY DEF RightUndo, p, M, S
<1> QED BY Zenon, <1>2, <1>3, <1>7, <1>10, <1>12, <1>13, <1>14, <1>15 DEF SpendsInput, p, M, S

(* One input is spent.                                                       *)
LEMMA SpendInputStep ==
  ASSUME IndInv, SpendInput
  PROVE  IndInv'
<1> DEFINE p == Prevouts[vtx[block][i]][j]
           c == GetCoins(p[1])
           left == c.vout \ {p[2]}
           new == Coins(left, c.nHeight, c.fCoinBase)
           M == Earlier(vtx, block, i)
<1>0. /\ pc = "connect" /\ i <= Len(vtx[block]) /\ j \in DOMAIN Prevouts[vtx[block][i]] /\ pc # "write"
      /\ UNCHANGED <<given, base>> /\ undo' = undo /\ block' = block /\ i' = i /\ fClean' = fClean
      /\ failed' = failed /\ pc' = pc /\ j' = j + 1
      /\ view' = [view EXCEPT ![p[1]] = new]
      /\ txundo' = [txundo EXCEPT ![i] = Append(txundo[i], UndoEntry(c, left))]
  BY DEF SpendInput, tx
<1>1. /\ Types /\ Layers /\ Undos /\ Connecting
      /\ (~fInitialDownload => \A x \in failed : ~ValidBlock(vtx, x))
  BY Zenon, <1>0 DEF IndInv
<1>2. /\ vtx \in Contents /\ block \in Blocks /\ block \in Others /\ view \in Entries
      /\ i \in 1..Len(vtx[block]) + 1 /\ txundo \in Seq(Seq(CTxInUndo))
  BY Zenon, <1>1 DEF Types, Connecting
<1>3. Len(vtx[block]) \in Nat /\ i \in 1..Len(vtx[block]) /\ vtx[block][i] \in Txs
  <2>1. Len(vtx[block]) \in Nat
    BY Zenon, <1>2, BlockTxs
  <2>2. i <= Len(vtx[block]) /\ i \in 1..Len(vtx[block]) + 1
    BY Zenon, <1>0, <1>2
  <2>3. i \in 1..Len(vtx[block])
    BY SMTT(30), <2>1, <2>2
  <2> QED BY Zenon, <1>2, <2>1, <2>3, BlockTxs
<1>4. j \in 1..Len(Prevouts[vtx[block][i]]) /\ j \in Nat \ {0} /\ Len(Prevouts[vtx[block][i]]) \in Nat
  <2>1. Len(Prevouts[vtx[block][i]]) \in Nat /\ j \in 1..Len(Prevouts[vtx[block][i]])
    BY Zenon, <1>0, <1>3, TxInputs
  <2> QED BY <2>1
<1>5. /\ Len(txundo) = i /\ Len(txundo[i]) = j - 1 /\ Inputs = j - 1 /\ j # 0
      /\ Spendable(vtx, block, i) /\ Mature(vtx, block, i)
      /\ \A l \in 1..j - 1 : txundo[i][l] = RightUndo(vtx, block, i, l)
  <2>1. j # 0
    BY <1>4
  <2> QED BY Zenon, <1>1, <2>1 DEF Connecting, Inputs
<1>6. SpendsInput(vtx, block, i, j)
  BY Zenon, <1>2, <1>3, <1>4, <1>5, SpendingInput
<1> DEFINE e == Entry(vtx, block, M, Spent(vtx, block, i, j - 1), p[1])
<1>7. /\ p \in Txs \X Nat /\ e \in CCoins /\ p[2] \in e.vout
      /\ p[1] \in M /\ p[2] \in Outputs[p[1]] /\ p \notin Spent(vtx, block, i, j - 1)
      /\ Entry(vtx, block, M, Spent(vtx, block, i, j), p[1]) = Coins(e.vout \ {p[2]}, e.nHeight, e.fCoinBase)
      /\ \A t \in Txs : t # p[1] =>
           Entry(vtx, block, M, Spent(vtx, block, i, j), t) = Entry(vtx, block, M, Spent(vtx, block, i, j - 1), t)
      /\ RightUndo(vtx, block, i, j) = UndoEntry(e, e.vout \ {p[2]})
  BY Zenon, <1>6 DEF SpendsInput
<1> HIDE DEF p, M
<1>8. Shows(Over(view, pcoinsTip), vtx, block, M, Spent(vtx, block, i, j - 1))
  BY Zenon, <1>1, <1>5 DEF Connecting, M
<1>9. c = e
  <2>1. AvailableIn(vtx, block, M, Spent(vtx, block, i, j - 1), p)
    BY Zenon, <1>1, <1>7, <1>8, Available
  <2> QED BY Zenon, <1>7, <2>1 DEF AvailableIn
<1>10. /\ p[1] \in Txs /\ pcoinsTip \in Entries
       /\ e.vout \subseteq Outputs[p[1]]
  <2>1. p[1] \in Txs
    BY <1>7
  <2> QED BY Zenon, <1>1, <1>2, <2>1, Answers, EntryType
<1> HIDE DEF e
<1>11. /\ new \in CCoins /\ new.vout \subseteq Outputs[p[1]]
       /\ UndoEntry(c, left) \in CTxInUndo /\ UndoEntry(c, left) = RightUndo(vtx, block, i, j)
  BY <1>7, <1>9, <1>10 DEF Coins, CCoins, CTxInUndo, UndoEntry
<1> HIDE DEF c
<1>12. /\ vtx' = vtx /\ pcoinsTip' = pcoinsTip /\ best' = best /\ fInitialDownload' = fInitialDownload
       /\ db' = db /\ dbBest' = dbBest /\ cache' = cache /\ tip' = tip
  BY Zenon, <1>0, Kept
<1>13. Shows(Over(view', pcoinsTip), vtx, block, M, Spent(vtx, block, i, j))
  <2>1. new = Entry(vtx, block, M, Spent(vtx, block, i, j), p[1])
    BY Zenon, <1>7, <1>9
  <2>2. SameCoins(new, Entry(vtx, block, M, Spent(vtx, block, i, j), p[1]))
    BY Zenon, <2>1 DEF SameCoins
  <2> HIDE DEF new
  <2> QED BY Zenon, <1>0, <1>2, <1>7, <1>8, <1>10, <1>11, <2>2, ShowsSet
<1> HIDE DEF left, new
<1>14. /\ Layers' /\ Undos' /\ (~fInitialDownload => \A x \in failed : ~ValidBlock(vtx, x))'
  <2>1. pc' \in {"connect", "remove", "restore"} /\ UNCHANGED <<given, base, undo, failed>>
    BY <1>0
  <2> QED BY Zenon, <1>0, <1>1, <2>1, Applying
<1>15. /\ txundo' \in Seq(Seq(CTxInUndo)) /\ Len(txundo') = i
       /\ Len(txundo'[i]) = j /\ txundo'[i][j] = UndoEntry(c, left)
       /\ \A l \in 1..j - 1 : txundo'[i][l] = txundo[i][l]
       /\ \A k \in 1..i - 1 : txundo'[k] = txundo[k]
  <2> DEFINE u == UndoEntry(c, left)
  <2>1. u \in CTxInUndo
    BY <1>11
  <2>2. txundo' = [txundo EXCEPT ![i] = Append(txundo[i], u)]
    BY Zenon, <1>0
  <2> HIDE DEF u
  <2>3. i \in DOMAIN txundo /\ txundo[i] \in Seq(CTxInUndo) /\ i \in Nat
    BY <1>2, <1>3, <1>5
  <2>4. /\ Append(txundo[i], u) \in Seq(CTxInUndo) /\ Len(Append(txundo[i], u)) = j
        /\ Append(txundo[i], u)[j] = u /\ \A l \in 1..j - 1 : Append(txundo[i], u)[l] = txundo[i][l]
    BY <1>4, <1>5, <2>1, <2>3
  <2>5. /\ txundo' \in Seq(Seq(CTxInUndo)) /\ Len(txundo') = i /\ txundo'[i] = Append(txundo[i], u)
        /\ \A k \in 1..i - 1 : txundo'[k] = txundo[k]
    BY <1>2, <1>5, <2>2, <2>3, <2>4
  <2> QED BY Zenon, <2>4, <2>5 DEF u
<1>16. Types'
  <2>1. view' \in Entries
    BY Zenon, <1>0, <1>2, <1>10, <1>11, SetEntry
  <2>2. j' \in Nat
    BY <1>0, <1>4
  <2> QED BY Zenon, <1>0, <1>1, <1>12, <1>15, <2>1, <2>2 DEF Types
<1>17. Connecting'
  <2>1. j' # 0 /\ Inputs' = j /\ j' - 1 = j /\ j' <= Len(Prevouts[vtx[block][i]]) + 1
    BY <1>0, <1>4 DEF Inputs
  <2>2. \A l \in 1..j : txundo'[i][l] = RightUndo(vtx, block, i, l)
    <3>1. \A l \in 1..j : l \in 1..j - 1 \/ l = j
      BY <1>4
    <3> QED BY Zenon, <1>5, <1>11, <1>15, <3>1
  <2>3. \A k \in 1..i - 1 : \A l \in DOMAIN Prevouts[vtx[block][k]] :
          txundo'[k][l] = RightUndo(vtx, block, k, l)
    <3>1. \A k \in 1..i - 1 : \A l \in DOMAIN Prevouts[vtx[block][k]] :
            txundo[k][l] = RightUndo(vtx, block, k, l)
      BY Zenon, <1>1 DEF Connecting
    <3>2. \A k \in 1..i - 1 : txundo'[k] = txundo[k]
      BY Zenon, <1>15
    <3> QED BY Zenon, <3>1, <3>2
  <2>4. tx' = vtx[block][i]
    BY Zenon, <1>0, <1>12 DEF tx
  <2>5. (j # 0 => i <= Len(vtx[block]) /\ j <= Len(Prevouts[tx]) + 1)'
    BY Zenon, <1>0, <1>12, <2>1, <2>4
  <2>6. (j # 0 => Spendable(vtx, block, i) /\ Mature(vtx, block, i))'
    BY Zenon, <1>0, <1>5, <1>12
  <2>7. (Len(txundo) = (IF j = 0 THEN i - 1 ELSE i))'
    BY Zenon, <1>0, <1>15, <2>1
  <2>8. (j # 0 => Len(txundo[i]) = j - 1 /\ \A l \in 1..j - 1 : txundo[i][l] = RightUndo(vtx, block, i, l))'
    BY Zenon, <1>0, <1>12, <1>15, <2>1, <2>2
  <2>9. Shows(Over(view, pcoinsTip), vtx, block, Earlier(vtx, block, i), Spent(vtx, block, i, Inputs))'
    BY Zenon, <1>0, <1>12, <1>13, <2>1 DEF M
  <2>10. (block \in Others /\ hashPrev[block] = best /\ i \in 1..Len(vtx[block]) + 1)'
    BY Zenon, <1>0, <1>1, <1>12 DEF Connecting
  <2>11. (\A k \in 1..i - 1 : Spendable(vtx, block, k) /\ Mature(vtx, block, k))'
    BY Zenon, <1>0, <1>1, <1>12 DEF Connecting
  <2>12. (\A k \in 1..i - 1 : \A l \in DOMAIN Prevouts[vtx[block][k]] :
            txundo[k][l] = RightUndo(vtx, block, k, l))'
    BY Zenon, <1>0, <1>12, <2>3
  <2>13. (\A t \in Range(vtx[block]) : pcoinsTip[t] = NoCoins)'
    BY Zenon, <1>0, <1>1, <1>12 DEF Connecting
  <2> QED BY Zenon, <2>5, <2>6, <2>7, <2>8, <2>9, <2>10, <2>11, <2>12, <2>13 DEF Connecting
<1>18. pc' = "connect" /\ pc' \notin {"remove", "restore"}
  BY <1>0
<1> QED BY Zenon, <1>14, <1>16, <1>17, <1>18 DEF IndInv

(* Transaction k comes in new and with all its outputs.                      *)
TxAdded(v, b, k) ==
  LET t == v[b][k]
      M == Earlier(v, b, k)
      N == Earlier(v, b, k + 1)
      S == SpentBy(N)
  IN  /\ Spent(v, b, k, Len(Prevouts[t])) = S
      /\ \A u : u # t => Entry(v, b, N, S, u) = Entry(v, b, M, S, u)
      /\ Entry(v, b, N, S, t) = NewCoins(t, nHeight[b])
      /\ Entry(v, b, M, S, t) = EmptyCoins

(* That follows if its inputs and those before it were unspent.              *)
LEMMA AddingTx ==
  ASSUME NEW v \in Contents, NEW b \in Others, NEW k \in 1..Len(v[b]),
         SpentWasMade(v, hashPrev[b]), \A l \in 1..k : Spendable(v, b, l)
  PROVE  TxAdded(v, b, k)
<1> DEFINE t == v[b][k]
           M == Earlier(v, b, k)
           N == Earlier(v, b, k + 1)
           S == SpentBy(N)
<1>0. b \in Blocks
  BY Zenon, Parents
<1>1. Len(v[b]) \in Nat
  BY Zenon, <1>0, BlockTxs
<1>2. /\ k \in 1..k /\ k \in Nat \ {0} /\ k \in 1..Len(v[b]) + 1
      /\ \A l \in 1..k - 1 : l \in 1..k
  BY <1>1
<1>3. N = M \cup {t}
  BY Zenon, <1>2, EarlierSteps
<1>4. t \notin M
  BY Zenon, <1>2, NotAgain
<1>5. TxsOf(v, Path(hashPrev[b])) \subseteq M
  BY Zenon, <1>2, EarlierTxs
<1>6. \A p \in SpentBy(M) : p[1] \in M
  BY Zenon, <1>2, SpentEarlier
<1>7. S = SpentBy(M) \cup Range(Prevouts[t])
  BY Zenon, <1>3, SpentByMore
<1>8. \A p \in S : p[1] \in M
  BY Zenon, <1>2, <1>6, <1>7 DEF Spendable
<1>9. Spent(v, b, k, Len(Prevouts[t])) = S
  BY Zenon, SpentLast
<1> HIDE DEF t, M, N, S
<1>10. ComesIn(v, b, M, S, t)
  BY Zenon, <1>4, <1>5, <1>8, EntryAdd
<1> QED BY Zenon, <1>3, <1>9, <1>10 DEF TxAdded, ComesIn, t, M, N, S

(* The outputs are added.                                                    *)
LEMMA AddOutputsStep ==
  ASSUME IndInv, AddOutputs
  PROVE  IndInv'
<1> DEFINE t == vtx[block][i]
           M == Earlier(vtx, block, i)
           N == Earlier(vtx, block, i + 1)
           S == SpentBy(N)
<1>0. /\ pc = "connect" /\ i <= Len(vtx[block]) /\ j = Len(Prevouts[t]) + 1 /\ pc # "write"
      /\ UNCHANGED <<given, base>> /\ undo' = undo /\ block' = block /\ i' = i + 1 /\ fClean' = fClean
      /\ failed' = failed /\ pc' = pc /\ j' = 0 /\ txundo' = txundo
      /\ view' = [view EXCEPT ![t] = NewCoins(t, nHeight[block])]
  BY DEF AddOutputs, tx
<1>1. /\ Types /\ Layers /\ Undos /\ Connecting
      /\ (~fInitialDownload => \A x \in failed : ~ValidBlock(vtx, x))
  BY Zenon, <1>0 DEF IndInv
<1>2. /\ vtx \in Contents /\ block \in Blocks /\ block \in Others /\ view \in Entries
      /\ i \in 1..Len(vtx[block]) + 1 /\ hashPrev[block] = best /\ SpentWasMade(vtx, best)
  BY Zenon, <1>1 DEF Types, Layers, Connecting, Chain
<1>3. /\ Len(vtx[block]) \in Nat /\ i \in 1..Len(vtx[block]) /\ t \in Txs
      /\ Len(Prevouts[t]) \in Nat /\ nHeight[block] \in Nat /\ DOMAIN Prevouts[t] = 1..Len(Prevouts[t])
  <2>1. Len(vtx[block]) \in Nat
    BY Zenon, <1>2, BlockTxs
  <2>2. i \in 1..Len(vtx[block])
    BY <1>0, <1>2, <2>1
  <2>3. t \in Txs
    BY Zenon, <1>2, <2>2, BlockTxs
  <2>4. Len(Prevouts[t]) \in Nat /\ DOMAIN Prevouts[t] = 1..Len(Prevouts[t])
    BY Zenon, <2>3, TxInputs
  <2>5. nHeight[block] \in Nat
    BY <1>2, CoinsAssumption
  <2> QED BY Zenon, <2>1, <2>2, <2>3, <2>4, <2>5
<1>4. j # 0 /\ j - 1 = Len(Prevouts[t]) /\ \A k \in 1..i : k \in 1..i - 1 \/ k = i
  BY <1>0, <1>3
<1>5. /\ Len(txundo) = i /\ Inputs = Len(Prevouts[t])
      /\ \A l \in 1..Len(Prevouts[t]) : txundo[i][l] = RightUndo(vtx, block, i, l)
      /\ Spendable(vtx, block, i) /\ Mature(vtx, block, i)
  BY Zenon, <1>1, <1>4 DEF Connecting, Inputs
<1>6. \A k \in 1..i : Spendable(vtx, block, k) /\ Mature(vtx, block, k)
  BY Zenon, <1>1, <1>4, <1>5 DEF Connecting
<1>7. TxAdded(vtx, block, i)
  BY Zenon, <1>2, <1>3, <1>6, AddingTx
<1>8. /\ Spent(vtx, block, i, Len(Prevouts[t])) = S
      /\ \A u \in Txs : u # t => Entry(vtx, block, N, S, u) = Entry(vtx, block, M, S, u)
      /\ Entry(vtx, block, N, S, t) = NewCoins(t, nHeight[block])
  BY Zenon, <1>7 DEF TxAdded
<1>9. Shows(Over(view, pcoinsTip), vtx, block, M, S)
  BY Zenon, <1>1, <1>5, <1>8 DEF Connecting
<1>10. pcoinsTip \in Entries
  BY Zenon, <1>1, Answers
<1>11. NewCoins(t, nHeight[block]) \in CCoins /\ NewCoins(t, nHeight[block]).vout \subseteq Outputs[t]
  BY Zenon, <1>3, NewCoinsType
<1> HIDE DEF t, M, N, S
<1>12. Shows(Over(view', pcoinsTip), vtx, block, N, S)
  <2> DEFINE c == NewCoins(t, nHeight[block])
  <2>1. SameCoins(c, Entry(vtx, block, N, S, t)) /\ c \in CCoins /\ c.vout \subseteq Outputs[t]
    BY Zenon, <1>8, <1>11 DEF SameCoins
  <2>2. view' = [view EXCEPT ![t] = c]
    BY Zenon, <1>0
  <2> HIDE DEF c
  <2>3. Shows(Over([view EXCEPT ![t] = c], pcoinsTip), vtx, block, N, S)
    <3>1. view \in Entries /\ t \in Txs
      BY Zenon, <1>2, <1>3
    <3>2. \A u \in Txs : u # t => Entry(vtx, block, N, S, u) = Entry(vtx, block, M, S, u)
      BY Zenon, <1>8
    <3> QED BY Zenon, <1>9, <1>10, <2>1, <3>1, <3>2, ShowsSet
  <2> QED BY Zenon, <2>2, <2>3
<1>13. /\ vtx' = vtx /\ pcoinsTip' = pcoinsTip /\ best' = best /\ fInitialDownload' = fInitialDownload
       /\ db' = db /\ dbBest' = dbBest /\ cache' = cache /\ tip' = tip
  BY Zenon, <1>0, Kept
<1>14. /\ Layers' /\ Undos' /\ (~fInitialDownload => \A x \in failed : ~ValidBlock(vtx, x))'
  <2>1. pc' \in {"connect", "remove", "restore"} /\ UNCHANGED <<given, base, undo, failed>>
    BY <1>0
  <2> QED BY Zenon, <1>0, <1>1, <2>1, Applying
<1>15. Types'
  <2>1. view' \in Entries
    BY Zenon, <1>0, <1>2, <1>3, <1>11, SetEntry
  <2>2. i' \in Nat /\ j' \in Nat
    BY <1>0, <1>3
  <2> QED BY Zenon, <1>0, <1>1, <1>13, <2>1, <2>2 DEF Types
<1>16. Connecting'
  <2>1. i' - 1 = i /\ i' \in 1..Len(vtx[block]) + 1
    BY <1>0, <1>3
  <2>2. (\A k \in 1..i - 1 : Spendable(vtx, block, k) /\ Mature(vtx, block, k))'
    BY Zenon, <1>0, <1>6, <1>13, <2>1
  <2>3. Inputs' = 0 /\ Spent(vtx, block, i + 1, 0) = S
    BY Zenon, <1>0, SpentFirst DEF Inputs, S, N
  <2>4. (Len(txundo) = (IF j = 0 THEN i - 1 ELSE i))'
    BY Zenon, <1>0, <1>5, <2>1
  <2>5. Shows(Over(view, pcoinsTip), vtx, block, Earlier(vtx, block, i), Spent(vtx, block, i, Inputs))'
    BY Zenon, <1>0, <1>12, <1>13, <2>3 DEF N
  <2>6. \A k \in 1..i : \A l \in DOMAIN Prevouts[vtx[block][k]] :
          txundo[k][l] = RightUndo(vtx, block, k, l)
    BY Zenon, <1>1, <1>3, <1>4, <1>5 DEF Connecting, t
  <2>7. (\A k \in 1..i - 1 : \A l \in DOMAIN Prevouts[vtx[block][k]] :
            txundo[k][l] = RightUndo(vtx, block, k, l))'
    BY Zenon, <1>0, <1>13, <2>1, <2>6
  <2>8. (block \in Others /\ hashPrev[block] = best /\ i \in 1..Len(vtx[block]) + 1)'
    BY Zenon, <1>0, <1>2, <1>13, <2>1
  <2>9. (\A u \in Range(vtx[block]) : pcoinsTip[u] = NoCoins)'
    BY Zenon, <1>0, <1>1, <1>13 DEF Connecting
  <2> QED BY Zenon, <1>0, <2>2, <2>4, <2>5, <2>7, <2>8, <2>9 DEF Connecting
<1>17. pc' = "connect" /\ pc' \notin {"remove", "restore"}
  BY <1>0
<1> QED BY Zenon, <1>14, <1>15, <1>16, <1>17 DEF IndInv

(* The view is flushed into pcoinsTip.                                       *)
LEMMA FlushedView ==
  ASSUME Types, cache' = Over(view, cache), db' = db
  PROVE  pcoinsTip' = Over(view, pcoinsTip) /\ cache' \in Entries
<1>1. Over(view, Over(cache, db)) = Over(Over(view, cache), db)
  BY OverTwice
<1>2. cache' \in Entries
  BY Zenon, OverEntries DEF Types
<1> QED BY Zenon, <1>1, <1>2 DEF pcoinsTip

(* The block is connected.                                                   *)
LEMMA ConnectDoneStep ==
  ASSUME IndInv, ConnectDone
  PROVE  IndInv'
<1>0. /\ pc = "connect" /\ i > Len(vtx[block]) /\ pc # "write"
      /\ undo' = IF undo[block] = <<>> THEN [undo EXCEPT ![block] = txundo] ELSE undo
      /\ txundo' = <<>> /\ cache' = Over(view, cache) /\ view' = NoEntries /\ best' = block
      /\ pc' = "write" /\ vtx' = vtx /\ fInitialDownload' = fInitialDownload
      /\ db' = db /\ dbBest' = dbBest /\ tip' = tip /\ failed' = failed /\ block' = block
      /\ i' = i /\ j' = j /\ fClean' = fClean
  BY DEF ConnectDone, given
<1>1. /\ Types /\ Layers /\ Undos /\ Connecting
      /\ (~fInitialDownload => \A x \in failed : ~ValidBlock(vtx, x))
  BY Zenon, <1>0 DEF IndInv
<1>2. /\ vtx \in Contents /\ block \in Blocks /\ block \in Others /\ hashPrev[block] = best
      /\ i \in 1..Len(vtx[block]) + 1 /\ Chain(vtx, best) /\ Agrees(vtx, pcoinsTip, best)
      /\ \A t \in Range(vtx[block]) : pcoinsTip[t] = NoCoins
      /\ undo \in [Blocks -> Seq(Seq(CTxInUndo))] /\ txundo \in Seq(Seq(CTxInUndo))
  BY Zenon, <1>1 DEF Types, Layers, Connecting
<1>3. Len(vtx[block]) \in Nat /\ DOMAIN vtx[block] = 1..Len(vtx[block]) /\ \A t \in Range(vtx[block]) : t \in Txs
  BY Zenon, <1>2, BlockTxs
<1>4. i = Len(vtx[block]) + 1 /\ i - 1 = Len(vtx[block]) /\ ~(i <= Len(vtx[block]))
  BY <1>0, <1>2, <1>3
<1>5. /\ j = 0 /\ Inputs = 0
      /\ \A k \in 1..Len(vtx[block]) : Spendable(vtx, block, k) /\ Mature(vtx, block, k)
      /\ \A k \in 1..Len(vtx[block]) : \A l \in DOMAIN Prevouts[vtx[block][k]] :
           txundo[k][l] = RightUndo(vtx, block, k, l)
  BY Zenon, <1>1, <1>4 DEF Connecting, Inputs
<1>6. \A t \in Range(vtx[block]) : IsPruned(Ledger(vtx, hashPrev[block], t))
  <2>1. EmptyCoins.vout = {}
    BY DEF EmptyCoins, Coins
  <2>2. \A t \in Range(vtx[block]) : SameCoins(EmptyCoins, Ledger(vtx, hashPrev[block], t))
    BY Zenon, <1>2, <1>3 DEF Agrees
  <2> QED BY Zenon, <2>1, <2>2 DEF SameCoins, IsPruned
<1>7. Chain(vtx, block)
  BY Zenon, <1>2, <1>5, <1>6, ChainGrows
<1>8. pcoinsTip' = Over(view, pcoinsTip) /\ cache' \in Entries
  BY Zenon, <1>0, <1>1, FlushedView
<1>9. Agrees(vtx, pcoinsTip', block)
  <2> DEFINE M == Earlier(vtx, block, Len(vtx[block]) + 1)
  <2>1. Shows(pcoinsTip', vtx, block, M, SpentBy(M))
    BY Zenon, <1>1, <1>4, <1>5, <1>8, SpentFirst DEF Connecting
  <2>2. ASSUME NEW t PROVE Entry(vtx, block, M, SpentBy(M), t) = Ledger(vtx, block, t)
    BY Zenon, <1>2, <1>7, EntryLast DEF Chain
  <2> HIDE DEF M
  <2> QED BY Zenon, <2>1, <2>2 DEF Shows, Agrees
<1>10. /\ undo' \in [Blocks -> Seq(Seq(CTxInUndo))]
       /\ \A b \in Blocks : b # block => undo'[b] = undo[b]
       /\ undo'[block] = IF undo[block] = <<>> THEN txundo ELSE undo[block]
  BY <1>0, <1>2
<1>11. UndoOf(vtx, block, undo'[block])
  <2>1. UndoOf(vtx, block, txundo)
    BY Zenon, <1>3, <1>5 DEF UndoOf
  <2>2. undo[block] # <<>> => UndoOf(vtx, block, undo[block])
    BY Zenon, <1>1, <1>2 DEF Undos
  <2> QED BY Zenon, <1>10, <2>1, <2>2
<1>12. Undos'
  <2>1. Path(block) = {block} \cup Path(best) /\ Path(best) \cup Path(dbBest) \subseteq Blocks
    BY Zenon, <1>1, <1>2, Parents, PathBlocks DEF Types
  <2>2. \A b \in Blocks : undo'[b] # <<>> => UndoOf(vtx, b, undo'[b])
    BY Zenon, <1>1, <1>10, <1>11 DEF Undos
  <2>3. \A b \in (Path(block) \cup Path(dbBest)) \ {Genesis} : UndoOf(vtx, b, undo'[b])
    BY Zenon, <1>1, <1>10, <1>11, <2>1 DEF Undos
  <2> QED BY Zenon, <1>0, <2>2, <2>3 DEF Undos
<1>13. Types'
  <2>1. txundo' \in Seq(Seq(CTxInUndo)) /\ pc' \in {"rest", "connect", "remove", "restore", "write"}
    BY <1>0
  <2> QED BY Zenon, <1>0, <1>1, <1>2, <1>8, <1>10, <2>1, OverNothing DEF Types
<1>14. Layers'
  <2>1. DatabaseIsLedger'
    BY Zenon, <1>0, <1>1 DEF Layers, DatabaseIsLedger
  <2> QED BY Zenon, <1>0, <1>1, <1>7, <1>9, <2>1 DEF Layers
<1>15. pc' # "connect" /\ pc' \notin {"remove", "restore"}
  BY <1>0
<1> QED BY Zenon, <1>0, <1>1, <1>12, <1>13, <1>14, <1>15 DEF IndInv

(* The tip is taken to be disconnected: the view shows its ledger.           *)
LEMMA DisconnectTipStep ==
  ASSUME IndInv, DisconnectTip
  PROVE  IndInv'
<1>0. /\ pc = "rest" /\ tip # Genesis /\ pc # "write" /\ pc # "connect"
      /\ UNCHANGED <<given, base>> /\ undo' = undo /\ block' = tip /\ i' = Len(vtx[tip]) /\ fClean' = TRUE
      /\ failed' = failed /\ pc' = "remove" /\ j' = 0 /\ txundo' = txundo /\ view' = view
  BY DEF DisconnectTip
<1>1. /\ Types /\ Layers /\ Undos /\ txundo = <<>>
      /\ (~fInitialDownload => \A x \in failed : ~ValidBlock(vtx, x))
  BY Zenon, <1>0 DEF IndInv
<1>2. /\ vtx \in Contents /\ tip \in Blocks /\ tip \in Others /\ tip = best /\ view = NoEntries
      /\ Chain(vtx, best) /\ Agrees(vtx, pcoinsTip, best)
  <2>1. pc \in {"rest", "write"}
    BY <1>0
  <2> QED BY Zenon, <1>0, <1>1, <2>1 DEF Types, Layers, Others
<1>3. /\ vtx' = vtx /\ pcoinsTip' = pcoinsTip /\ best' = best /\ fInitialDownload' = fInitialDownload
      /\ db' = db /\ dbBest' = dbBest /\ cache' = cache /\ tip' = tip
  BY Zenon, <1>0, Kept
<1>4. Len(vtx[tip]) \in Nat
  BY Zenon, <1>2, BlockTxs
<1>5. /\ Layers' /\ Undos' /\ (~fInitialDownload => \A x \in failed : ~ValidBlock(vtx, x))'
  <2>1. pc' \in {"connect", "remove", "restore"} /\ UNCHANGED <<given, base, undo, failed>>
    BY <1>0
  <2> QED BY Zenon, <1>0, <1>1, <2>1, Applying
<1>6. Types'
  <2>1. /\ i' \in Nat /\ j' \in Nat /\ fClean' \in BOOLEAN
        /\ pc' \in {"rest", "connect", "remove", "restore", "write"}
    BY <1>0, <1>4
  <2> QED BY Zenon, <1>0, <1>1, <1>3, <2>1 DEF Types
<1>7. Shows(Over(view', pcoinsTip), vtx, tip, Earlier(vtx, tip, Len(vtx[tip]) + 1),
            SpentBy(Earlier(vtx, tip, Len(vtx[tip]) + 1)))
  <2> DEFINE M == Earlier(vtx, tip, Len(vtx[tip]) + 1)
  <2>1. Chain(vtx, hashPrev[tip])
    BY Zenon, <1>2, ChainParent
  <2>2. ASSUME NEW t PROVE Entry(vtx, tip, M, SpentBy(M), t) = Ledger(vtx, tip, t)
    BY Zenon, <1>2, <2>1, EntryLast DEF Chain
  <2> HIDE DEF M
  <2>3. Over(view', pcoinsTip) = pcoinsTip
    BY Zenon, <1>0, <1>1, <1>2, Answers, OverNothing
  <2>4. Shows(pcoinsTip, vtx, tip, M, SpentBy(M))
    BY Zenon, <1>2, <2>2 DEF Shows, Agrees
  <2> QED BY Zenon, <2>3, <2>4 DEF M
<1>8. Disconnecting'
  <2>1. i' \in 0..Len(vtx[tip]) /\ pc' # "restore"
    BY <1>0, <1>4
  <2> QED BY Zenon, <1>0, <1>2, <1>3, <1>7, <2>1 DEF Disconnecting
<1>9. pc' # "connect"
  BY <1>0
<1> QED BY Zenon, <1>0, <1>1, <1>5, <1>6, <1>8, <1>9 DEF IndInv

(* What is known while a block is disconnected.                              *)
LEMMA Undoing ==
  ASSUME IndInv, pc \in {"remove", "restore"}
  PROVE  /\ Types /\ Layers /\ Undos /\ Disconnecting /\ txundo = <<>>
         /\ (~fInitialDownload => \A x \in failed : ~ValidBlock(vtx, x))
         /\ vtx \in Contents /\ block \in Blocks /\ block \in Others /\ block = best
         /\ view \in Entries /\ pcoinsTip \in Entries /\ SpentWasMade(vtx, hashPrev[block])
         /\ Len(vtx[block]) \in Nat /\ i \in 0..Len(vtx[block])
         /\ \A k \in 1..Len(vtx[block]) : Spendable(vtx, block, k)
         /\ UndoOf(vtx, block, undo[block])
         /\ pc # "write" /\ pc # "connect"
<1>1. pc # "write" /\ pc # "connect"
  OBVIOUS
<1>2. /\ Types /\ Layers /\ Undos /\ Disconnecting /\ txundo = <<>>
      /\ (~fInitialDownload => \A x \in failed : ~ValidBlock(vtx, x))
  BY Zenon, <1>1 DEF IndInv
<1>3. /\ vtx \in Contents /\ block \in Blocks /\ block \in Others /\ block = best
      /\ view \in Entries /\ Chain(vtx, block) /\ i \in 0..Len(vtx[block])
  BY Zenon, <1>2 DEF Types, Layers, Disconnecting
<1>4. SpentWasMade(vtx, hashPrev[block])
  BY Zenon, <1>3, ChainParent DEF Chain
<1>5. Len(vtx[block]) \in Nat /\ DOMAIN vtx[block] = 1..Len(vtx[block])
  BY Zenon, <1>3, BlockTxs
<1>6. block \in Path(best) \ {Genesis}
  BY Zenon, <1>3, PathBlocks DEF Others
<1>7. \A k \in 1..Len(vtx[block]) : Spendable(vtx, block, k)
  BY Zenon, <1>3, <1>5, <1>6 DEF Chain
<1>8. UndoOf(vtx, block, undo[block])
  BY Zenon, <1>2, <1>6 DEF Undos
<1>9. pcoinsTip \in Entries
  BY Zenon, <1>2, Answers
<1> QED BY Zenon, <1>1, <1>2, <1>3, <1>4, <1>5, <1>7, <1>8, <1>9

(* The outputs of a transaction are removed.                                 *)
LEMMA RemoveOutputsStep ==
  ASSUME IndInv, RemoveOutputs
  PROVE  IndInv' /\ fClean' = fClean
<1> DEFINE t == vtx[block][i]
           M == Earlier(vtx, block, i)
           N == Earlier(vtx, block, i + 1)
           S == SpentBy(N)
<1>0. /\ pc = "remove" /\ i > 0 /\ pc \in {"remove", "restore"} /\ pc # "restore"
      /\ fClean' = (fClean /\ SameCoins(IF HaveCoins(t) THEN GetCoins(t) ELSE EmptyCoins, NewCoins(t, nHeight[block])))
      /\ view' = IF HaveCoins(t) THEN [view EXCEPT ![t] = EmptyCoins] ELSE view
      /\ j' = Len(Prevouts[t]) /\ pc' = "restore"
      /\ UNCHANGED <<given, base>> /\ undo' = undo /\ txundo' = txundo /\ failed' = failed
      /\ block' = block /\ i' = i
  BY DEF RemoveOutputs, tx
<1>1. /\ Types /\ Layers /\ Undos /\ Disconnecting /\ txundo = <<>>
      /\ (~fInitialDownload => \A x \in failed : ~ValidBlock(vtx, x))
      /\ vtx \in Contents /\ block \in Blocks /\ block \in Others /\ block = best
      /\ view \in Entries /\ pcoinsTip \in Entries /\ SpentWasMade(vtx, hashPrev[block])
      /\ Len(vtx[block]) \in Nat /\ i \in 0..Len(vtx[block])
      /\ \A k \in 1..Len(vtx[block]) : Spendable(vtx, block, k)
      /\ pc # "write"
  BY Zenon, <1>0, Undoing
<1>2. i \in 1..Len(vtx[block]) /\ i \in Nat /\ i # 0 /\ \A k \in 1..i : k \in 1..Len(vtx[block])
  <2>1. i > 0 /\ Len(vtx[block]) \in Nat /\ i \in 0..Len(vtx[block])
    BY Zenon, <1>0, <1>1
  <2> QED BY SMTT(30), <2>1
<1>3. t \in Txs
  BY Zenon, <1>1, <1>2, BlockTxs
<1>4. Len(Prevouts[t]) \in Nat
  BY Zenon, <1>3, TxInputs
<1>5. TxAdded(vtx, block, i)
  BY Zenon, <1>1, <1>2, AddingTx
<1>6. /\ Spent(vtx, block, i, Len(Prevouts[t])) = S
      /\ \A u \in Txs : u # t => Entry(vtx, block, M, S, u) = Entry(vtx, block, N, S, u)
      /\ Entry(vtx, block, N, S, t) = NewCoins(t, nHeight[block])
      /\ Entry(vtx, block, M, S, t) = EmptyCoins
  BY Zenon, <1>5 DEF TxAdded
<1>7. fClean => Shows(Over(view, pcoinsTip), vtx, block, N, S)
  BY Zenon, <1>0, <1>1 DEF Disconnecting
<1> HIDE DEF t, M, N, S
<1>8. EmptyCoins \in CCoins /\ EmptyCoins.vout \subseteq Outputs[t] /\ SameCoins(EmptyCoins, EmptyCoins)
  BY DEF EmptyCoins, Coins, CCoins, SameCoins
<1>9. fClean' = fClean
  <2>1. ASSUME fClean
        PROVE  SameCoins(IF HaveCoins(t) THEN GetCoins(t) ELSE EmptyCoins, NewCoins(t, nHeight[block]))
    BY Zenon, <1>1, <1>3, <1>6, <1>7, <2>1, Shown
  <2>2. fClean \in BOOLEAN
    BY Zenon, <1>1 DEF Types
  <2> QED BY Zenon, <1>0, <2>1, <2>2
<1>10. fClean => Shows(Over(view', pcoinsTip), vtx, block, M, S)
  <2> SUFFICES ASSUME fClean PROVE Shows(Over(view', pcoinsTip), vtx, block, M, S)
    OBVIOUS
  <2>1. CASE HaveCoins(t)
    <3> DEFINE c == EmptyCoins
    <3>1. /\ c \in CCoins /\ c.vout \subseteq Outputs[t] /\ SameCoins(c, Entry(vtx, block, M, S, t))
          /\ view' = [view EXCEPT ![t] = c]
      BY Zenon, <1>0, <1>6, <1>8, <2>1
    <3> HIDE DEF c
    <3>2. Shows(Over([view EXCEPT ![t] = c], pcoinsTip), vtx, block, M, S)
      <4>1. view \in Entries /\ pcoinsTip \in Entries /\ Shows(Over(view, pcoinsTip), vtx, block, N, S)
        BY Zenon, <1>1, <1>7
      <4>2. \A u \in Txs : u # t => Entry(vtx, block, M, S, u) = Entry(vtx, block, N, S, u)
        BY Zenon, <1>6
      <4> QED BY Zenon, <1>3, <3>1, <4>1, <4>2, ShowsSet
    <3> QED BY Zenon, <3>1, <3>2
  <2>2. CASE ~HaveCoins(t)
    <3>1. Over(view, pcoinsTip)[t] = NoCoins
      BY Zenon, <2>2 DEF HaveCoins, GetCoins
    <3>2. Shows(Over(view, pcoinsTip), vtx, block, M, S)
      BY Zenon, <1>6, <1>7, <1>8, <3>1 DEF Shows
    <3> QED BY Zenon, <1>0, <2>2, <3>2
  <2> QED BY Zenon, <2>1, <2>2
<1>11. /\ vtx' = vtx /\ pcoinsTip' = pcoinsTip /\ best' = best /\ fInitialDownload' = fInitialDownload
       /\ db' = db /\ dbBest' = dbBest /\ cache' = cache /\ tip' = tip
  BY Zenon, <1>0, Kept
<1>12. /\ Layers' /\ Undos' /\ (~fInitialDownload => \A x \in failed : ~ValidBlock(vtx, x))'
  <2>1. pc' \in {"connect", "remove", "restore"} /\ UNCHANGED <<given, base, undo, failed>>
    BY <1>0
  <2> QED BY Zenon, <1>1, <2>1, Applying
<1>13. Types'
  <2>1. view' \in Entries
    BY Zenon, <1>0, <1>1, <1>3, <1>8, SetEntry
  <2>2. pc' \in {"rest", "connect", "remove", "restore", "write"}
    BY <1>0
  <2> QED BY Zenon, <1>0, <1>1, <1>4, <1>9, <1>11, <2>1, <2>2 DEF Types
<1>14. Disconnecting'
  <2>1. Len(Prevouts[t]) \in 0..Len(Prevouts[t]) /\ tx' = t
    BY <1>0, <1>4, <1>11 DEF tx, t
  <2> QED BY Zenon, <1>0, <1>1, <1>2, <1>6, <1>9, <1>10, <1>11, <2>1 DEF Disconnecting, M
<1>15. pc' # "connect"
  BY <1>0
<1> QED BY Zenon, <1>0, <1>1, <1>9, <1>12, <1>13, <1>14, <1>15 DEF IndInv

(* What an undo entry puts back into coins from which output n was spent:    *)
(* what was there, unless the entry is that of the last output and its       *)
(* height is zero.                                                           *)
PutsBack(e, n, c, u, r) ==
  /\ e.nHeight # 0 \/ ~IsPruned(c) => (u.nHeight # 0 <=> IsPruned(c)) /\ n \notin r.vout
  /\ (u.nHeight # 0 <=> IsPruned(c)) => [r EXCEPT !.vout = @ \cup {n}] = e

(* Undo entries put back what was spent.                                     *)
LEMMA Restoring ==
  ASSUME NEW e \in CCoins, NEW n \in e.vout, NEW c \in CCoins, NEW u, NEW r,
         SameCoins(c, Coins(e.vout \ {n}, e.nHeight, e.fCoinBase)),
         u = UndoEntry(e, e.vout \ {n}), r = RestoredCoins(c, u)
  PROVE  PutsBack(e, n, c, u, r)
<1>1. CASE e.vout \ {n} = {}
  <2>1. c.vout = {} /\ e.vout = {n}
    BY <1>1 DEF SameCoins, IsPruned, Coins
  <2>2. u.nHeight = e.nHeight /\ u.fCoinBase = e.fCoinBase
    BY <1>1 DEF UndoEntry
  <2>3. e.nHeight # 0 => r = Coins({}, e.nHeight, e.fCoinBase)
    BY <2>2 DEF RestoredCoins
  <2>4. e.nHeight # 0 => r.vout = {} /\ [r EXCEPT !.vout = @ \cup {n}] = e
    BY <2>1, <2>3 DEF Coins, CCoins
  <2> QED BY Zenon, <2>1, <2>2, <2>4 DEF IsPruned, PutsBack
<1>2. CASE e.vout \ {n} # {}
  <2>1. c = Coins(e.vout \ {n}, e.nHeight, e.fCoinBase) /\ c.vout # {} /\ n \notin c.vout
    BY <1>2 DEF SameCoins, IsPruned, Coins
  <2>2. u.nHeight = 0
    BY <1>2 DEF UndoEntry
  <2>3. r = c
    BY <2>2 DEF RestoredCoins
  <2>4. [r EXCEPT !.vout = @ \cup {n}] = e
    <3>1. (e.vout \ {n}) \cup {n} = e.vout
      OBVIOUS
    <3>2. e = [vout |-> e.vout, nHeight |-> e.nHeight, fCoinBase |-> e.fCoinBase]
      BY DEF CCoins
    <3>3. [r EXCEPT !.vout = @ \cup {n}]
            = [vout |-> (e.vout \ {n}) \cup {n}, nHeight |-> e.nHeight, fCoinBase |-> e.fCoinBase]
      <4> DEFINE X == e.vout \ {n}
      <4>1. r = [vout |-> X, nHeight |-> e.nHeight, fCoinBase |-> e.fCoinBase]
        BY Zenon, <2>1, <2>3 DEF Coins
      <4> HIDE DEF X
      <4>2. [r EXCEPT !.vout = @ \cup {n}]
              = [vout |-> X \cup {n}, nHeight |-> e.nHeight, fCoinBase |-> e.fCoinBase]
        BY SMTT(20), <4>1
      <4> QED BY Zenon, <4>2 DEF X
    <3> QED BY Zenon, <3>1, <3>2, <3>3
  <2> QED BY Zenon, <2>1, <2>2, <2>3, <2>4 DEF IsPruned, PutsBack
<1> QED BY Zenon, <1>1, <1>2

(* One input is restored.                                                    *)
LEMMA RestoreInputStep ==
  ASSUME IndInv, RestoreInput
  PROVE  IndInv' /\ (RestoresSpentGenesis \/ fClean' = fClean)
<1> DEFINE p == Prevouts[vtx[block][i]][j]
           u == undo[block][i][j]
           c == IF HaveCoins(p[1]) THEN GetCoins(p[1]) ELSE EmptyCoins
           r == RestoredCoins(c, u)
           new == [r EXCEPT !.vout = @ \cup {p[2]}]
           M == Earlier(vtx, block, i)
           e == Entry(vtx, block, M, Spent(vtx, block, i, j - 1), p[1])
<1>0. /\ pc = "restore" /\ j > 0 /\ pc \in {"remove", "restore"}
      /\ j' = j - 1 /\ pc' = pc
      /\ UNCHANGED <<given, base>> /\ undo' = undo /\ txundo' = txundo /\ failed' = failed
      /\ block' = block /\ i' = i
  BY DEF RestoreInput
<1>00. /\ fClean' = (fClean /\ (u.nHeight # 0 <=> IsPruned(c)) /\ p[2] \notin r.vout)
       /\ view' = [view EXCEPT ![p[1]] = new]
  BY Zenon DEF RestoreInput, tx
<1>1. /\ Types /\ Layers /\ Undos /\ Disconnecting /\ txundo = <<>>
      /\ (~fInitialDownload => \A x \in failed : ~ValidBlock(vtx, x))
      /\ vtx \in Contents /\ block \in Blocks /\ block \in Others /\ block = best
      /\ view \in Entries /\ pcoinsTip \in Entries
      /\ Len(vtx[block]) \in Nat /\ i \in 0..Len(vtx[block])
      /\ \A k \in 1..Len(vtx[block]) : Spendable(vtx, block, k)
      /\ UndoOf(vtx, block, undo[block])
      /\ pc # "write"
  BY Zenon, <1>0, Undoing
<1>2. i # 0 /\ j \in 0..Len(Prevouts[vtx[block][i]])
  BY Zenon, <1>0, <1>1 DEF Disconnecting, tx
<1>3. i \in 1..Len(vtx[block])
  BY <1>1, <1>2
<1>4. vtx[block][i] \in Txs /\ DOMAIN vtx[block] = 1..Len(vtx[block])
  BY Zenon, <1>1, <1>3, BlockTxs
<1>5. /\ Len(Prevouts[vtx[block][i]]) \in Nat
      /\ DOMAIN Prevouts[vtx[block][i]] = 1..Len(Prevouts[vtx[block][i]])
  BY Zenon, <1>4, TxInputs
<1>6. /\ j \in 1..Len(Prevouts[vtx[block][i]]) /\ j - 1 \in Nat
      /\ j - 1 \in 0..Len(Prevouts[vtx[block][i]])
  BY <1>0, <1>2, <1>5
<1>7. SpendsInput(vtx, block, i, j)
  BY Zenon, <1>1, <1>3, <1>6, SpendingInput
<1>8. u = RightUndo(vtx, block, i, j)
  BY Zenon, <1>1, <1>3, <1>4, <1>5, <1>6 DEF UndoOf
<1>9. /\ p \in Txs \X Nat /\ e \in CCoins /\ p[2] \in e.vout
      /\ p[1] \in M /\ p[2] \in Outputs[p[1]] /\ p \notin Spent(vtx, block, i, j - 1)
      /\ Entry(vtx, block, M, Spent(vtx, block, i, j), p[1]) = Coins(e.vout \ {p[2]}, e.nHeight, e.fCoinBase)
      /\ \A t \in Txs : t # p[1] =>
           Entry(vtx, block, M, Spent(vtx, block, i, j - 1), t) = Entry(vtx, block, M, Spent(vtx, block, i, j), t)
      /\ e.nHeight = MadeAt(vtx, block, p[1])
      /\ u = UndoEntry(e, e.vout \ {p[2]})
  BY Zenon, <1>7, <1>8 DEF SpendsInput
<1>10. p[1] \in Txs
  BY Zenon, <1>9
<1>11. fClean => Shows(Over(view, pcoinsTip), vtx, block, M, Spent(vtx, block, i, j))
  BY Zenon, <1>0, <1>1 DEF Disconnecting
<1> HIDE DEF p, u, M, e
<1>12. c \in CCoins /\ c.vout \subseteq Outputs[p[1]] /\ Outputs[p[1]] \subseteq Nat
  <2>1. EmptyCoins \in CCoins /\ EmptyCoins.vout = {}
    BY DEF EmptyCoins, Coins, CCoins
  <2>2. HaveCoins(p[1]) => GetCoins(p[1]) \in CCoins /\ GetCoins(p[1]).vout \subseteq Outputs[p[1]]
    BY Zenon, <1>1, <1>10, Answers
  <2>3. Outputs[p[1]] \subseteq Nat
    BY <1>10, CoinsAssumption
  <2>4. CASE HaveCoins(p[1])
    BY Zenon, <2>2, <2>3, <2>4
  <2>5. CASE ~HaveCoins(p[1])
    <3>1. c = EmptyCoins
      BY Zenon, <2>5
    <3> QED BY <2>1, <2>3, <3>1
  <2> QED BY Zenon, <2>4, <2>5
<1>13. fClean => SameCoins(c, Coins(e.vout \ {p[2]}, e.nHeight, e.fCoinBase))
  <2> DEFINE S == Spent(vtx, block, i, j)
             f == Entry(vtx, block, M, S, p[1])
  <2>1. f = Coins(e.vout \ {p[2]}, e.nHeight, e.fCoinBase)
    BY Zenon, <1>9
  <2>2. fClean => Shows(Over(view, pcoinsTip), vtx, block, M, S)
    BY Zenon, <1>11
  <2> HIDE DEF S
  <2>3. fClean => /\ HaveCoins(p[1]) => SameCoins(GetCoins(p[1]), f)
                  /\ ~HaveCoins(p[1]) => SameCoins(EmptyCoins, f)
    BY Zenon, <1>1, <1>10, <2>2, Shown
  <2> HIDE DEF f
  <2>4. fClean => SameCoins(c, f)
    BY Zenon, <2>3
  <2> QED BY Zenon, <2>1, <2>4
<1>14. IsPruned(c) => e.nHeight # 0 \/ RestoresSpentGenesis
  <2>1. MadeAt(vtx, block, p[1]) = 0 => p[1] \in Range(vtx[Genesis])
    BY Zenon, <1>1, MadeAtHeight
  <2>2. IsPruned(c) => (HaveCoins(p[1]) => IsPruned(GetCoins(p[1])))
    BY Zenon
  <2>3. p = Prevouts[tx][j]
    BY Zenon DEF p, tx
  <2> QED BY Zenon, <1>0, <1>9, <2>1, <2>2, <2>3 DEF RestoresSpentGenesis
<1> HIDE DEF c
<1>15. r \in CCoins /\ r.vout \subseteq Outputs[p[1]]
  BY Zenon, <1>9, <1>12 DEF RestoredCoins, UndoEntry, CCoins, Coins
<1>16. fClean =>
         /\ e.nHeight # 0 \/ ~IsPruned(c) => (u.nHeight # 0 <=> IsPruned(c)) /\ p[2] \notin r.vout
         /\ (u.nHeight # 0 <=> IsPruned(c)) => new = e
  <2> SUFFICES ASSUME fClean
               PROVE  /\ e.nHeight # 0 \/ ~IsPruned(c) =>
                           (u.nHeight # 0 <=> IsPruned(c)) /\ p[2] \notin r.vout
                      /\ (u.nHeight # 0 <=> IsPruned(c)) => new = e
    OBVIOUS
  <2>1. r = RestoredCoins(c, u)
    OBVIOUS
  <2> HIDE DEF r
  <2>2. e \in CCoins /\ p[2] \in e.vout /\ u = UndoEntry(e, e.vout \ {p[2]}) /\ c \in CCoins
    BY Zenon, <1>9, <1>12
  <2>3. SameCoins(c, Coins(e.vout \ {p[2]}, e.nHeight, e.fCoinBase))
    BY Zenon, <1>13
  <2>4. PutsBack(e, p[2], c, u, r)
    BY Zenon, <2>1, <2>2, <2>3, Restoring
  <2> QED BY Zenon, <2>4 DEF PutsBack
<1> HIDE DEF r
<1>17. new \in CCoins /\ new.vout \subseteq Outputs[p[1]]
  BY <1>9, <1>12, <1>15 DEF CCoins
<1> HIDE DEF new
<1>18. RestoresSpentGenesis \/ fClean' = fClean
  BY Zenon, <1>00, <1>1, <1>14, <1>16 DEF Types
<1>19. fClean' => Shows(Over(view', pcoinsTip), vtx, block, M, Spent(vtx, block, i, j - 1))
  <2> SUFFICES ASSUME fClean' PROVE Shows(Over(view', pcoinsTip), vtx, block, M, Spent(vtx, block, i, j - 1))
    OBVIOUS
  <2>1. fClean /\ new = e
    BY Zenon, <1>00, <1>16
  <2>2. SameCoins(new, Entry(vtx, block, M, Spent(vtx, block, i, j - 1), p[1]))
    BY Zenon, <2>1 DEF SameCoins, e
  <2>3. view \in Entries /\ pcoinsTip \in Entries /\ Shows(Over(view, pcoinsTip), vtx, block, M, Spent(vtx, block, i, j))
    BY Zenon, <1>1, <1>11, <2>1
  <2>4. \A t \in Txs : t # p[1] =>
          Entry(vtx, block, M, Spent(vtx, block, i, j - 1), t) = Entry(vtx, block, M, Spent(vtx, block, i, j), t)
    BY Zenon, <1>9
  <2>5. Shows(Over([view EXCEPT ![p[1]] = new], pcoinsTip), vtx, block, M, Spent(vtx, block, i, j - 1))
    BY Zenon, <1>10, <1>17, <2>2, <2>3, <2>4, ShowsSet
  <2> QED BY Zenon, <1>00, <2>5
<1>20. /\ vtx' = vtx /\ pcoinsTip' = pcoinsTip /\ best' = best /\ fInitialDownload' = fInitialDownload
       /\ db' = db /\ dbBest' = dbBest /\ cache' = cache /\ tip' = tip
  BY Zenon, <1>0, Kept
<1>21. /\ Layers' /\ Undos' /\ (~fInitialDownload => \A x \in failed : ~ValidBlock(vtx, x))'
  <2>1. pc' \in {"connect", "remove", "restore"} /\ UNCHANGED <<given, base, undo, failed>>
    BY <1>0
  <2> QED BY Zenon, <1>1, <2>1, Applying
<1>22. Types'
  <2>1. view' \in Entries
    BY Zenon, <1>00, <1>1, <1>10, <1>17, SetEntry
  <2>2. fClean' \in BOOLEAN
    BY Zenon, <1>00
  <2> QED BY Zenon, <1>0, <1>1, <1>6, <1>20, <2>1, <2>2 DEF Types
<1>23. Disconnecting'
  <2>1. tx' = vtx[block][i]
    BY Zenon, <1>0, <1>20 DEF tx
  <2> QED BY Zenon, <1>0, <1>1, <1>2, <1>6, <1>19, <1>20, <2>1 DEF Disconnecting, M
<1>24. pc' # "connect" /\ pc' \in {"remove", "restore"}
  BY <1>0
<1> QED BY Zenon, <1>0, <1>1, <1>18, <1>21, <1>22, <1>23, <1>24 DEF IndInv

(* All inputs of a transaction are restored.                                 *)
LEMMA TxUndoneStep ==
  ASSUME IndInv, TxUndone
  PROVE  IndInv' /\ fClean' = fClean
<1>0. /\ pc = "restore" /\ j = 0 /\ pc \in {"remove", "restore"} /\ i' = i - 1 /\ pc' = "remove"
      /\ UNCHANGED <<given, base>> /\ undo' = undo /\ txundo' = txundo /\ failed' = failed
      /\ block' = block /\ j' = j /\ view' = view /\ fClean' = fClean
  BY DEF TxUndone
<1>1. /\ Types /\ Layers /\ Undos /\ Disconnecting /\ txundo = <<>>
      /\ (~fInitialDownload => \A x \in failed : ~ValidBlock(vtx, x))
      /\ block \in Others /\ block = best /\ Len(vtx[block]) \in Nat /\ i \in 0..Len(vtx[block])
      /\ pc # "write"
  BY Zenon, <1>0, Undoing
<1>2. i # 0
  BY Zenon, <1>0, <1>1 DEF Disconnecting
<1>3. i' \in 0..Len(vtx[block]) /\ i' \in Nat /\ i' + 1 = i /\ pc' # "restore"
  BY <1>0, <1>1, <1>2
<1>4. fClean => Shows(Over(view, pcoinsTip), vtx, block, Earlier(vtx, block, i), SpentBy(Earlier(vtx, block, i)))
  BY Zenon, <1>0, <1>1, SpentFirst DEF Disconnecting
<1>5. /\ vtx' = vtx /\ pcoinsTip' = pcoinsTip /\ best' = best /\ fInitialDownload' = fInitialDownload
      /\ db' = db /\ dbBest' = dbBest /\ cache' = cache /\ tip' = tip
  BY Zenon, <1>0, Kept
<1>6. /\ Layers' /\ Undos' /\ (~fInitialDownload => \A x \in failed : ~ValidBlock(vtx, x))'
  <2>1. pc' \in {"connect", "remove", "restore"} /\ UNCHANGED <<given, base, undo, failed>>
    BY <1>0
  <2> QED BY Zenon, <1>1, <2>1, Applying
<1>7. Types'
  <2>1. pc' \in {"rest", "connect", "remove", "restore", "write"}
    BY <1>0
  <2> QED BY Zenon, <1>0, <1>1, <1>3, <1>5, <2>1 DEF Types
<1>8. Disconnecting'
  BY Zenon, <1>0, <1>1, <1>3, <1>4, <1>5 DEF Disconnecting
<1>9. pc' # "connect"
  BY <1>0
<1> QED BY Zenon, <1>0, <1>1, <1>6, <1>7, <1>8, <1>9 DEF IndInv

(* The block is undone.                                                      *)
LEMMA DisconnectDoneStep ==
  ASSUME IndInv, DisconnectDone
  PROVE  IndInv' /\ fClean' = fClean
<1>0. /\ pc = "remove" /\ i = 0 /\ pc \in {"remove", "restore"} /\ pc # "restore" /\ view' = NoEntries
      /\ vtx' = vtx /\ fInitialDownload' = fInitialDownload /\ db' = db /\ dbBest' = dbBest /\ tip' = tip
      /\ undo' = undo /\ txundo' = txundo /\ failed' = failed
      /\ block' = block /\ i' = i /\ j' = j /\ fClean' = fClean
  BY DEF DisconnectDone, given
<1>1. /\ Types /\ Layers /\ Undos /\ Disconnecting /\ txundo = <<>>
      /\ (~fInitialDownload => \A x \in failed : ~ValidBlock(vtx, x))
      /\ block \in Others /\ block = best /\ pc # "write" /\ pc # "connect"
  BY Zenon, <1>0, Undoing
<1>2. /\ (~fInitialDownload => \A x \in failed : ~ValidBlock(vtx, x))'
      /\ DatabaseIsLedger' = DatabaseIsLedger
  BY Zenon, <1>0, <1>1 DEF DatabaseIsLedger
<1>3. CASE fClean
  <2>1. cache' = Over(view, cache) /\ best' = hashPrev[block] /\ pc' = "write"
    BY Zenon, <1>3 DEF DisconnectDone
  <2>2. pcoinsTip' = Over(view, pcoinsTip) /\ cache' \in Entries
    BY Zenon, <1>0, <1>1, <2>1, FlushedView
  <2>3. Shows(pcoinsTip', vtx, block, Earlier(vtx, block, 1), SpentBy(Earlier(vtx, block, 1)))
    <3>1. i + 1 = 1
      BY <1>0
    <3> QED BY Zenon, <1>0, <1>1, <1>3, <2>2, <3>1 DEF Disconnecting
  <2>4. Agrees(vtx, pcoinsTip', hashPrev[block])
    BY Zenon, <2>3, EntryFirst DEF Shows, Agrees
  <2>5. Chain(vtx, block) /\ Chain(vtx, dbBest) /\ Chain(vtx, tip)
    BY Zenon, <1>1 DEF Layers
  <2>6. Chain(vtx, hashPrev[block])
    BY Zenon, <1>1, <2>5, ChainParent
  <2>7. hashPrev[block] \in Blocks /\ Path(hashPrev[block]) \subseteq Path(best)
    BY Zenon, <1>1, Parents
  <2>8. Undos'
    BY Zenon, <1>0, <1>1, <2>1, <2>7 DEF Undos
  <2>9. Types'
    <3>1. pc' \in {"rest", "connect", "remove", "restore", "write"}
      BY <2>1
    <3> QED BY Zenon, <1>0, <1>1, <2>1, <2>2, <2>7, <3>1, OverNothing DEF Types
  <2>10. Layers'
    BY Zenon, <1>0, <1>1, <1>2, <2>1, <2>4, <2>5, <2>6 DEF Layers
  <2>11. pc' # "connect" /\ pc' \notin {"remove", "restore"}
    BY <2>1
  <2> QED BY Zenon, <1>0, <1>1, <1>2, <2>8, <2>9, <2>10, <2>11 DEF IndInv
<1>4. CASE ~fClean
  <2>1. cache' = cache /\ best' = best /\ pc' = "rest"
    BY <1>4 DEF DisconnectDone
  <2>2. pcoinsTip' = pcoinsTip
    BY Zenon, <1>0, <2>1 DEF pcoinsTip
  <2>3. Undos'
    BY Zenon, <1>0, <1>1, <2>1 DEF Undos
  <2>4. Types'
    <3>1. pc' \in {"rest", "connect", "remove", "restore", "write"}
      BY <2>1
    <3> QED BY Zenon, <1>0, <1>1, <2>1, <3>1, OverNothing DEF Types
  <2>5. Layers'
    BY Zenon, <1>0, <1>1, <1>2, <2>1, <2>2 DEF Layers
  <2>6. pc' # "connect" /\ pc' \notin {"remove", "restore"}
    BY <2>1
  <2> QED BY Zenon, <1>0, <1>1, <1>2, <2>3, <2>4, <2>5, <2>6 DEF IndInv
<1> QED BY Zenon, <1>0, <1>3, <1>4

(* The coins stay in the cache.                                              *)
LEMMA KeepInCacheStep ==
  ASSUME IndInv, KeepInCache
  PROVE  IndInv' /\ fClean' = fClean
<1>0. /\ pc = "write" /\ pc # "connect" /\ pc \in {"rest", "write"} /\ fInitialDownload
      /\ tip' = best /\ pc' = "rest"
      /\ vtx' = vtx /\ fInitialDownload' = fInitialDownload /\ db' = db /\ dbBest' = dbBest
      /\ cache' = cache /\ best' = best /\ view' = view /\ undo' = undo /\ txundo' = txundo
      /\ failed' = failed /\ block' = block /\ i' = i /\ j' = j /\ fClean' = fClean
  BY DEF KeepInCache, given
<1>1. Types /\ Layers /\ Undos /\ txundo = <<>> /\ (~fInitialDownload => \A x \in failed : ~ValidBlock(vtx, x))
  BY Zenon, <1>0 DEF IndInv
<1>2. DatabaseIsLedger' = DatabaseIsLedger /\ pcoinsTip' = pcoinsTip
  BY Zenon, <1>0 DEF DatabaseIsLedger, pcoinsTip
<1>3. Types'
  <2>1. pc' \in {"rest", "connect", "remove", "restore", "write"}
    BY <1>0
  <2> QED BY Zenon, <1>0, <1>1, <2>1 DEF Types
<1>4. Layers'
  BY Zenon, <1>0, <1>1, <1>2 DEF Layers
<1>5. Undos'
  BY Zenon, <1>0, <1>1 DEF Undos
<1>6. pc' # "connect" /\ pc' \notin {"remove", "restore"}
  BY <1>0
<1> QED BY Zenon, <1>0, <1>1, <1>3, <1>4, <1>5, <1>6 DEF IndInv

(* A batch for the database: it answers as the cache over it did, and has no *)
(* pruned coins.                                                             *)
LEMMA Written ==
  ASSUME Types, NEW v, NEW b, Agrees(v, pcoinsTip, b), \A t \in Txs : db[t] # NoCoins => ~IsPruned(db[t])
  PROVE  /\ BatchWrite(cache) \in Entries /\ Agrees(v, BatchWrite(cache), b)
         /\ \A t \in Txs : BatchWrite(cache)[t] # NoCoins => ~IsPruned(BatchWrite(cache)[t])
<1> DEFINE d == BatchWrite(cache)
<1>1. db \in Entries /\ cache \in Entries
  BY Zenon DEF Types
<1>2. /\ db \in [Txs -> CCoins \cup {NoCoins}] /\ cache \in [Txs -> CCoins \cup {NoCoins}]
      /\ \A t \in Txs : db[t] # NoCoins => db[t].vout \subseteq Outputs[t]
      /\ \A t \in Txs : cache[t] # NoCoins => cache[t].vout \subseteq Outputs[t]
  BY Zenon, <1>1 DEF Entries
<1>3. \A t \in Txs : d[t] = IF cache[t] = NoCoins THEN db[t]
                           ELSE IF IsPruned(cache[t]) THEN NoCoins ELSE cache[t]
  BY DEF BatchWrite
<1>4. d \in [Txs -> CCoins \cup {NoCoins}]
  BY <1>2 DEF BatchWrite
<1>5. \A t \in Txs : pcoinsTip[t] = IF cache[t] # NoCoins THEN cache[t] ELSE db[t]
  BY Zenon, <1>1, OverEntries DEF pcoinsTip
<1> HIDE DEF d
<1>6. \A t \in Txs : d[t] # NoCoins => d[t].vout \subseteq Outputs[t]
  BY Zenon, <1>2, <1>3
<1>7. d \in Entries
  BY Zenon, <1>4, <1>6 DEF Entries
<1>8. \A t \in Txs : d[t] # NoCoins => ~IsPruned(d[t])
  BY Zenon, <1>3
<1>9. Agrees(v, d, b)
  <2>1. IsPruned(EmptyCoins)
    BY DEF IsPruned, EmptyCoins, Coins
  <2>2. ASSUME NEW t \in Txs PROVE SameCoins(IF d[t] = NoCoins THEN EmptyCoins ELSE d[t], Ledger(v, b, t))
    <3>1. SameCoins(IF pcoinsTip[t] = NoCoins THEN EmptyCoins ELSE pcoinsTip[t], Ledger(v, b, t))
      BY Zenon DEF Agrees
    <3>2. CASE cache[t] # NoCoins /\ IsPruned(cache[t])
      <4>1. d[t] = NoCoins /\ pcoinsTip[t] = cache[t]
        BY Zenon, <1>3, <1>5, <3>2
      <4>2. IsPruned(Ledger(v, b, t))
        BY Zenon, <3>1, <3>2, <4>1 DEF SameCoins
      <4> QED BY Zenon, <2>1, <4>1, <4>2 DEF SameCoins
    <3>3. CASE ~(cache[t] # NoCoins /\ IsPruned(cache[t]))
      <4>1. d[t] = pcoinsTip[t]
        BY Zenon, <1>3, <1>5, <3>3
      <4> QED BY Zenon, <3>1, <4>1
    <3> QED BY Zenon, <3>2, <3>3
  <2> QED BY Zenon, <2>2 DEF Agrees
<1> QED BY Zenon, <1>7, <1>8, <1>9 DEF d

(* The coins and the best block are written.                                 *)
LEMMA FlushCoinsStep ==
  ASSUME IndInv, FlushCoins
  PROVE  IndInv' /\ fClean' = fClean
<1>0. /\ pc = "write" /\ pc # "connect" /\ pc \in {"rest", "write"}
      /\ db' = BatchWrite(cache) /\ dbBest' = best /\ cache' = NoEntries /\ tip' = best /\ pc' = "rest"
      /\ vtx' = vtx /\ fInitialDownload' = fInitialDownload
      /\ best' = best /\ view' = view /\ undo' = undo /\ txundo' = txundo
      /\ failed' = failed /\ block' = block /\ i' = i /\ j' = j /\ fClean' = fClean
  BY DEF FlushCoins, given
<1>1. Types /\ Layers /\ Undos /\ txundo = <<>> /\ (~fInitialDownload => \A x \in failed : ~ValidBlock(vtx, x))
  BY Zenon, <1>0 DEF IndInv
<1>2. /\ Agrees(vtx, pcoinsTip, best) /\ \A t \in Txs : db[t] # NoCoins => ~IsPruned(db[t])
      /\ Chain(vtx, best) /\ view = NoEntries /\ best \in Blocks
  BY Zenon, <1>0, <1>1 DEF Types, Layers, DatabaseIsLedger
<1>3. /\ db' \in Entries /\ Agrees(vtx, db', best)
      /\ \A t \in Txs : db'[t] # NoCoins => ~IsPruned(db'[t])
  BY Zenon, <1>0, <1>1, <1>2, Written
<1>4. pcoinsTip' = db'
  BY Zenon, <1>0, <1>3, OverNothing DEF pcoinsTip
<1>5. DatabaseIsLedger'
  BY Zenon, <1>0, <1>3 DEF DatabaseIsLedger
<1>6. Types'
  <2>1. pc' \in {"rest", "connect", "remove", "restore", "write"}
    BY <1>0
  <2> QED BY Zenon, <1>0, <1>1, <1>2, <1>3, <2>1, OverNothing DEF Types
<1>7. Layers'
  BY Zenon, <1>0, <1>2, <1>3, <1>4, <1>5 DEF Layers
<1>8. Undos'
  BY Zenon, <1>0, <1>1 DEF Undos
<1>9. pc' # "connect" /\ pc' \notin {"remove", "restore"}
  BY <1>0
<1> QED BY Zenon, <1>0, <1>1, <1>6, <1>7, <1>8, <1>9 DEF IndInv

(* The process dies; the database is what is left.                           *)
LEMMA CrashStep ==
  ASSUME IndInv, Crash
  PROVE  IndInv' /\ fClean'
<1>0. /\ cache' = NoEntries /\ view' = NoEntries /\ best' = dbBest /\ tip' = dbBest
      /\ failed' \in SUBSET failed /\ txundo' = <<>> /\ fClean' = TRUE /\ pc' = "rest"
      /\ vtx' = vtx /\ fInitialDownload' = fInitialDownload /\ db' = db /\ dbBest' = dbBest
      /\ undo' = undo /\ block' = block /\ i' = i /\ j' = j
  BY DEF Crash, given
<1>1. Types /\ Layers /\ Undos /\ (~fInitialDownload => \A x \in failed : ~ValidBlock(vtx, x))
  BY Zenon DEF IndInv
<1>2. /\ DatabaseIsLedger /\ Agrees(vtx, db, dbBest) /\ Chain(vtx, dbBest) /\ db \in Entries /\ dbBest \in Blocks
  BY Zenon, <1>1 DEF Types, Layers, DatabaseIsLedger
<1>3. pcoinsTip' = db
  BY Zenon, <1>0, <1>2, OverNothing DEF pcoinsTip
<1>4. DatabaseIsLedger'
  BY Zenon, <1>0, <1>2 DEF DatabaseIsLedger
<1>5. Types'
  <2>1. /\ pc' \in {"rest", "connect", "remove", "restore", "write"} /\ fClean' \in BOOLEAN
        /\ txundo' \in Seq(Seq(CTxInUndo))
    BY <1>0
  <2>2. failed' \subseteq Blocks
    BY Zenon, <1>0, <1>1 DEF Types
  <2> QED BY Zenon, <1>0, <1>1, <1>2, <2>1, <2>2, OverNothing DEF Types
<1>6. Layers'
  BY Zenon, <1>0, <1>2, <1>3, <1>4 DEF Layers
<1>7. Undos'
  BY Zenon, <1>0, <1>1 DEF Undos
<1>8. (~fInitialDownload => \A x \in failed : ~ValidBlock(vtx, x))'
  BY Zenon, <1>0, <1>1
<1>9. pc' # "connect" /\ pc' \notin {"remove", "restore"}
  BY <1>0
<1> QED BY Zenon, <1>0, <1>4, <1>5, <1>6, <1>7, <1>8, <1>9 DEF IndInv

-----------------------------------------------------------------------------
(* The results *)

(* Every step keeps the invariant, and finds the undo data right unless it   *)
(* restores the last output of a genesis transaction.                        *)
LEMMA IndInvStep ==
  IndInv /\ [Next]_vars => IndInv' /\ (fClean /\ ~fClean' => RestoresSpentGenesis)
<1> SUFFICES ASSUME IndInv, [Next]_vars
             PROVE  IndInv' /\ (fClean /\ ~fClean' => RestoresSpentGenesis)
  OBVIOUS
<1>1. CASE UNCHANGED vars
  <2>1. /\ vtx' = vtx /\ fInitialDownload' = fInitialDownload /\ db' = db /\ dbBest' = dbBest
        /\ cache' = cache /\ best' = best /\ tip' = tip /\ view' = view /\ undo' = undo
        /\ txundo' = txundo /\ failed' = failed /\ block' = block /\ i' = i /\ j' = j
        /\ fClean' = fClean /\ pc' = pc
    BY <1>1 DEF vars, given, base
  <2>2. pcoinsTip' = pcoinsTip /\ DatabaseIsLedger' = DatabaseIsLedger /\ tx' = tx /\ Inputs' = Inputs
    BY Zenon, <2>1 DEF pcoinsTip, DatabaseIsLedger, tx, Inputs
  <2>3. Types' = Types
    BY Zenon, <2>1 DEF Types
  <2>4. Layers' = Layers
    BY Zenon, <2>1, <2>2 DEF Layers
  <2>5. Undos' = Undos
    BY Zenon, <2>1 DEF Undos
  <2>6. Connecting' = Connecting
    BY Zenon, <2>1, <2>2 DEF Connecting
  <2>7. Disconnecting' = Disconnecting
    BY Zenon, <2>1, <2>2 DEF Disconnecting
  <2> QED BY Zenon, <2>1, <2>3, <2>4, <2>5, <2>6, <2>7 DEF IndInv
<1>2. ASSUME NEW b \in Blocks, ConnectTip(b) PROVE IndInv' /\ fClean' = fClean
  <2>1. fClean' = fClean
    BY <1>2 DEF ConnectTip
  <2> QED BY Zenon, <1>2, <2>1, ConnectTipStep
<1>3. CASE CheckTx \/ SpendInput \/ AddOutputs \/ ConnectDone
  <2>1. fClean' = fClean
    BY <1>3 DEF CheckTx, SpendInput, AddOutputs, ConnectDone
  <2> QED BY Zenon, <1>3, <2>1, CheckTxStep, SpendInputStep, AddOutputsStep, ConnectDoneStep
<1>4. CASE DisconnectTip
  <2>1. fClean' = TRUE
    BY <1>4 DEF DisconnectTip
  <2> QED BY Zenon, <1>4, <2>1, DisconnectTipStep
<1>5. CASE RemoveOutputs \/ RestoreInput \/ TxUndone \/ DisconnectDone
  <2>1. RemoveOutputs \/ TxUndone \/ DisconnectDone => IndInv' /\ fClean' = fClean
    BY Zenon, RemoveOutputsStep, TxUndoneStep, DisconnectDoneStep
  <2>2. RestoreInput => IndInv' /\ (RestoresSpentGenesis \/ fClean' = fClean)
    BY Zenon, RestoreInputStep
  <2> QED BY <1>5, <2>1, <2>2
<1>6. CASE KeepInCache \/ FlushCoins \/ Crash
  <2>1. KeepInCache \/ FlushCoins => IndInv' /\ fClean' = fClean
    BY Zenon, KeepInCacheStep, FlushCoinsStep
  <2>2. Crash => IndInv' /\ fClean'
    BY Zenon, CrashStep
  <2> QED BY <1>6, <2>1, <2>2
<1>7. Idle => UNCHANGED vars
  BY Zenon DEF Idle
<1> QED BY Zenon, <1>1, <1>2, <1>3, <1>4, <1>5, <1>6, <1>7 DEF Next

(* The invariant holds in every state.                                       *)
LEMMA InvariantHolds == Spec => []IndInv
<1>1. IndInv /\ [Next]_vars => IndInv'
  BY Zenon, IndInvStep
<1> QED BY InitIndInv, <1>1, PTL DEF Spec

(* Every variable stays in its range: no layer ever holds an output that its *)
(* transaction does not have.                                                *)
THEOREM TypesHold == Spec => []TypeOK
<1>1. IndInv => TypeOK
  <2> SUFFICES ASSUME IndInv PROVE TypeOK
    OBVIOUS
  <2>1. Types
    BY Zenon DEF IndInv
  <2>2. ASSUME NEW e \in Entries, NEW t \in Txs, e[t] # NoCoins
        PROVE  e[t].vout \subseteq Outputs[t] /\ e[t].nHeight \in Nat /\ e[t].fCoinBase \in BOOLEAN
    <3>1. e[t] \in CCoins /\ e[t].vout \subseteq Outputs[t]
      BY <2>2 DEF Entries
    <3> QED BY <3>1 DEF CCoins
  <2>3. \A t \in Txs : \A c \in {db[t], cache[t], view[t]} :
          c = NoCoins \/ (c.vout \subseteq Outputs[t] /\ c.nHeight \in Nat /\ c.fCoinBase \in BOOLEAN)
    <3> DEFINE Fits(c, t) ==
                 c = NoCoins \/ (c.vout \subseteq Outputs[t] /\ c.nHeight \in Nat /\ c.fCoinBase \in BOOLEAN)
    <3>1. \A e \in Entries : \A t \in Txs : Fits(e[t], t)
      BY Zenon, <2>2
    <3> HIDE DEF Fits
    <3>2. \A t \in Txs : Fits(db[t], t) /\ Fits(cache[t], t) /\ Fits(view[t], t)
      BY Zenon, <2>1, <3>1 DEF Types
    <3>3. \A t \in Txs : \A c \in {db[t], cache[t], view[t]} : Fits(c, t)
      BY Zenon, <3>2
    <3> QED BY Zenon, <3>3 DEF Fits
  <2>4. {tip, best, dbBest, block} \subseteq Blocks
    BY Zenon, <2>1 DEF Types
  <2> QED BY Zenon, <2>1, <2>3, <2>4 DEF Types, TypeOK
<1> QED BY <1>1, InvariantHolds, PTL

(* What pcoinsTip answers is the ledger of the chain it says it is at, after *)
(* any connections, reorganisations and crashes: DisconnectBlock undoes what *)
(* ConnectBlock did, also when a view was dropped half-way.                  *)
THEOREM CoinsStayLedger == Spec => []CoinsAreLedger
<1>1. IndInv => CoinsAreLedger
  BY Zenon DEF IndInv, Layers, CoinsAreLedger
<1> QED BY <1>1, InvariantHolds, PTL

(* The database alone is always the ledger of its own best block, and has no *)
(* pruned coins: BatchWrite erases them and writes the best block with the   *)
(* coins, so a crash at any point leaves a state the node can start from.    *)
THEOREM DatabaseStaysLedger == Spec => []DatabaseIsLedger
<1>1. IndInv => DatabaseIsLedger
  BY Zenon DEF IndInv, Layers
<1> QED BY <1>1, InvariantHolds, PTL

(* ConnectBlock connects only blocks that follow the ledger's rules, and     *)
(* outside the initial download rejects only blocks that do not.             *)
THEOREM RulesAreEnforced == Spec => []RulesEnforced
<1>1. IndInv => RulesEnforced
  BY Zenon DEF IndInv, Layers, Chain, RulesEnforced
<1> QED BY <1>1, InvariantHolds, PTL

(* DisconnectBlock of a connected block finds the undo data right, except    *)
(* where it restores the last output of a genesis transaction: that entry's  *)
(* height is 0, which looks like an entry without metadata.                  *)
THEOREM UndoStaysComplete == Spec => UndoComplete
<1>1. IndInv /\ [Next]_vars => [fClean /\ ~fClean' => RestoresSpentGenesis]_vars
  BY Zenon, IndInvStep
<1> QED BY <1>1, InvariantHolds, PTL DEF Spec, UndoComplete
=============================================================================
