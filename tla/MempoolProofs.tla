---------------------------- MODULE MempoolProofs ----------------------------
(***************************************************************************)
(* Proofs about Mempool, for any transactions, peers and limits: the two   *)
(* maps of orphan transactions agree; the pool's two maps agree; the pool  *)
(* suits the chain through every block that comes or goes; a block that    *)
(* goes gives its payments back; and nothing leaves the pool but for one.  *)
(***************************************************************************)
EXTENDS Mempool, FiniteSetTheorems, WellFoundedInduction, TLAPS

(* The orphans D are indexed by the map m, entry by entry.                   *)
Indexes(m, D) ==
  /\ \A h \in DOMAIN m : m[h] # {} /\ m[h] = {o \in D : h \in PrevHashes(o)}
  /\ \A o \in D : PrevHashes(o) \subseteq DOMAIN m

OrphanInv ==
  LET D == DOMAIN mapOrphanTransactions IN
  /\ IsFiniteSet(D) /\ Cardinality(D) <= MaxOrphanTx
  /\ Indexes(mapOrphanTransactionsByPrev, D)

(* What the invariant says of the look-ups in the "tx" handler.              *)
LEMMA IndexMeans == OrphanInv => OrphansIndexed
<1> SUFFICES ASSUME OrphanInv PROVE OrphansIndexed
  OBVIOUS
<1>1. ASSUME NEW h \in Txs
      PROVE  OrphansOf(h) = {o \in DOMAIN mapOrphanTransactions : h \in PrevHashes(o)}
  <2>1. CASE h \in DOMAIN mapOrphanTransactionsByPrev
    BY <2>1 DEF OrphanInv, Indexes, OrphansOf
  <2>2. CASE h \notin DOMAIN mapOrphanTransactionsByPrev
    BY <2>2 DEF OrphanInv, Indexes, OrphansOf
  <2> QED
    BY <2>1, <2>2
<1> QED
  BY <1>1 DEF OrphanInv, Indexes, OrphansIndexed

LEMMA OrphanInit == Init => OrphanInv
<1> SUFFICES ASSUME Init PROVE OrphanInv
  OBVIOUS
<1>1. DOMAIN mapOrphanTransactions = {} /\ DOMAIN mapOrphanTransactionsByPrev = {}
  BY DEF Init
<1>2. IsFiniteSet({}) /\ Cardinality({}) = 0
  BY FS_EmptySet
<1> QED
  BY <1>1, <1>2, MempoolAssumption DEF OrphanInv, Indexes

(* EraseOrphanTx keeps the maps in step, whichever orphans are erased.       *)
LEMMA EraseKeeps ==
  ASSUME NEW orphans, NEW byPrev, NEW S, Indexes(byPrev, DOMAIN orphans),
         EraseOrphanTxs(orphans, byPrev, S)
  PROVE  /\ DOMAIN mapOrphanTransactions' = DOMAIN orphans \ S
         /\ Indexes(mapOrphanTransactionsByPrev', DOMAIN orphans \ S)
<1> DEFINE D == DOMAIN orphans
           gone == S \cap D
           Left(h) == byPrev[h] \ {o \in gone : h \in PrevHashes(o)}
           m == mapOrphanTransactionsByPrev'
<1>1. mapOrphanTransactions' = [o \in D \ gone |-> orphans[o]]
  BY DEF EraseOrphanTxs
<1>2. m = [h \in {h \in DOMAIN byPrev : Left(h) # {}} |-> Left(h)]
  BY Zenon DEF EraseOrphanTxs
<1>3. DOMAIN mapOrphanTransactions' = D \ S
  BY <1>1
<1>4. \A h \in DOMAIN byPrev : Left(h) = {o \in D \ S : h \in PrevHashes(o)}
  BY DEF Indexes
<1>5. DOMAIN m = {h \in DOMAIN byPrev : Left(h) # {}} /\ \A h \in DOMAIN m : m[h] = Left(h)
  BY <1>2
<1>6. \A h \in DOMAIN m : m[h] # {} /\ m[h] = {o \in D \ S : h \in PrevHashes(o)}
  BY <1>4, <1>5
<1>7. ASSUME NEW o \in D \ S, NEW h \in PrevHashes(o) PROVE h \in DOMAIN m
  <2>1. h \in DOMAIN byPrev
    BY DEF Indexes
  <2>2. o \in Left(h)
    BY <1>4, <2>1
  <2> QED
    BY <1>5, <2>1, <2>2
<1> QED
  BY <1>3, <1>6, <1>7 DEF Indexes

(* AddOrphanTx adds to both maps.                                            *)
LEMMA AddKeeps ==
  ASSUME OrphanInv, NEW t \in Payments, NEW peer \in Peers, AddOrphanTx(t, peer)
  PROVE  OrphanInv'
<1> DEFINE D == DOMAIN mapOrphanTransactions
           old == mapOrphanTransactionsByPrev
           ignored == t \in D \cup policy.Large
           more == IF ignored THEN {} ELSE {t}
           orphans == [o \in D \cup more |->
                         IF o \in D THEN mapOrphanTransactions[o] ELSE peer]
           byPrev == [h \in DOMAIN old \cup PrevHashes(t) |->
                        (IF h \in DOMAIN old THEN old[h] ELSE {}) \cup
                        (IF h \in PrevHashes(t) THEN {t} ELSE {})]
           new == IF ignored THEN old ELSE byPrev
<1>1. PICK S \in SUBSET DOMAIN orphans :
        /\ Cardinality(DOMAIN orphans \ S) = LimitOrphanTxSize(Cardinality(DOMAIN orphans))
        /\ EraseOrphanTxs(orphans, new, S)
  BY Zenon DEF AddOrphanTx
<1>2. DOMAIN orphans = D \cup more
  OBVIOUS
<1>3. Indexes(new, D \cup more)
  <2>1. CASE ignored
    BY <2>1 DEF OrphanInv, Indexes
  <2>2. CASE ~ignored
    <3>1. \A h \in DOMAIN byPrev : byPrev[h] = {o \in D \cup {t} : h \in PrevHashes(o)}
      BY DEF OrphanInv, Indexes
    <3>2. \A h \in DOMAIN byPrev : byPrev[h] # {}
      BY DEF OrphanInv, Indexes
    <3>3. \A o \in D \cup {t} : PrevHashes(o) \subseteq DOMAIN byPrev
      BY DEF OrphanInv, Indexes
    <3> QED
      BY Zenon, <2>2, <3>1, <3>2, <3>3 DEF Indexes
  <2> QED
    BY <2>1, <2>2
<1>a. IsFiniteSet(D \cup more)
  <2>1. IsFiniteSet(D) /\ IsFiniteSet(D \cup {t})
    BY FS_AddElement DEF OrphanInv
  <2>2. D \cup more = D \/ D \cup more = D \cup {t}
    OBVIOUS
  <2> QED BY Zenon, <2>1, <2>2
<1> HIDE DEF orphans, new, more
<1>4. /\ DOMAIN mapOrphanTransactions' = DOMAIN orphans \ S
      /\ Indexes(mapOrphanTransactionsByPrev', DOMAIN orphans \ S)
  BY <1>1, <1>2, <1>3, EraseKeeps
<1>5. IsFiniteSet(DOMAIN orphans) /\ Cardinality(DOMAIN orphans) \in Nat
  BY <1>2, <1>a, FS_CardinalityType
<1>6. IsFiniteSet(DOMAIN orphans \ S)
  BY Zenon, <1>5, FS_Difference
<1>7. Cardinality(DOMAIN orphans \ S) <= MaxOrphanTx
  BY <1>1, <1>5, MempoolAssumption DEF LimitOrphanTxSize
<1> QED
  BY <1>4, <1>6, <1>7 DEF OrphanInv

(* Erasing alone.                                                            *)
LEMMA EraseOnly ==
  ASSUME OrphanInv, NEW S,
         EraseOrphanTxs(mapOrphanTransactions, mapOrphanTransactionsByPrev, S)
  PROVE  OrphanInv'
<1> DEFINE D == DOMAIN mapOrphanTransactions
<1>1. /\ DOMAIN mapOrphanTransactions' = D \ S
      /\ Indexes(mapOrphanTransactionsByPrev', D \ S)
  BY EraseKeeps DEF OrphanInv
<1>2. IsFiniteSet(D) /\ Cardinality(D) <= MaxOrphanTx /\ Cardinality(D) \in Nat
  BY FS_CardinalityType DEF OrphanInv
<1>3. D \ S \in SUBSET D
  OBVIOUS
<1>4. IsFiniteSet(D \ S) /\ Cardinality(D \ S) <= Cardinality(D)
  BY <1>2, <1>3, FS_Subset
<1>5. Cardinality(D \ S) \in Nat
  BY <1>4, FS_CardinalityType
<1>6. Cardinality(D \ S) <= MaxOrphanTx
  BY <1>2, <1>4, <1>5, MempoolAssumption
<1> QED
  BY <1>1, <1>4, <1>6 DEF OrphanInv

LEMMA OrphanStep == OrphanInv /\ [Next]_vars => OrphanInv'
<1> SUFFICES ASSUME OrphanInv, [Next]_vars PROVE OrphanInv'
  OBVIOUS
<1>1. CASE UNCHANGED orphanVars
  BY <1>1 DEF OrphanInv, orphanVars
<1>2. ASSUME NEW t \in Payments, NEW peer \in Peers, TxMissingInputs(t, peer) PROVE OrphanInv'
  BY <1>2, AddKeeps DEF TxMissingInputs
<1>3. ASSUME NEW peer \in Peers, EraseOrphansFor(peer) PROVE OrphanInv'
  BY <1>3, EraseOnly DEF EraseOrphansFor
<1>4. CASE NextWork
  BY <1>1, <1>4, EraseOnly DEF NextWork
<1>5. ASSUME NEW t \in Payments, TxAccepted(t) \/ TryOrphan(t) \/ LocalTx(t)
      PROVE  UNCHANGED orphanVars
  BY Zenon, <1>5 DEF TxAccepted, TryOrphan, LocalTx
<1>6. CASE ConnectTip \/ DisconnectTip \/ UNCHANGED vars
  BY Zenon, <1>1, <1>6 DEF ConnectTip, DisconnectTip, vars
<1> QED
  BY <1>1, <1>2, <1>3, <1>4, <1>5, <1>6 DEF Next

(* AddOrphanTx, EraseOrphanTx and LimitOrphanTxSize keep the index by        *)
(* previous transaction exact and the number of orphans within the limit,    *)
(* whatever transactions arrive in whatever order.                           *)
THEOREM OrphansStayIndexed == Spec => []OrphansIndexed
BY OrphanInit, OrphanStep, IndexMeans, PTL DEF Spec

-----------------------------------------------------------------------------
(* Recursion over a block *)

(* A set of numbers that is not empty has a least one.                       *)
LEMMA LeastNat ==
  \A S \in SUBSET Nat : S # {} => \E m \in S : \A k \in S : m <= k
<1> SUFFICES ASSUME NEW S \in SUBSET Nat, S # {}
             PROVE  \E m \in S : \A k \in S : m <= k
  OBVIOUS
<1>1. PICK m \in S : \A k \in S : ~ (<<k, m>> \in OpToRel(<, Nat))
  BY Zenon, NatLessThanWellFounded, WFMin
<1>2. \A k \in S : ~ (k < m)
  BY Zenon, <1>1 DEF OpToRel
<1> QED BY <1>2

(* A set with 0 that is closed under successor up to n has all of 0 .. n.    *)
LEMMA Interval ==
  ASSUME NEW n \in Nat, NEW S, 0 \in S, \A i \in 0 .. n - 1 : i \in S => i + 1 \in S
  PROVE  \A i \in 0 .. n : i \in S
<1> DEFINE Bad == {i \in 0 .. n : i \notin S}
<1> SUFFICES ASSUME Bad # {} PROVE FALSE
  OBVIOUS
<1>1. Bad \in SUBSET Nat
  OBVIOUS
<1>2. PICK m \in Bad : \A k \in Bad : m <= k
  <2> HIDE DEF Bad
  <2> QED BY <1>1, LeastNat
<1>3. m # 0 /\ m - 1 \in 0 .. n - 1 /\ m - 1 \notin Bad
  BY <1>2
<1> QED BY <1>2, <1>3

(* The step i of a recursion over 1 .. n makes a value from the one before.  *)
Steps(step, n, T) == step \in [1 .. n -> [T -> T]]

Iterates(g, n, T, base, step) ==
  g \in [0 .. n -> T] /\ g[0] = base /\ \A i \in 1 .. n : g[i] = step[i][g[i - 1]]

(* A function on an interval may be given by its first value and its steps.  *)
LEMMA Primitive ==
  ASSUME NEW n \in Nat, NEW T, NEW base \in T, NEW step, Steps(step, n, T)
  PROVE  \E g : Iterates(g, n, T, base, step)
<1> DEFINE S == {k \in 0 .. n : \E g : Iterates(g, k, T, base, step)}
<1>1. 0 \in S
  <2> DEFINE g == [i \in 0 .. 0 |-> base]
  <2>1. Iterates(g, 0, T, base, step)
    BY DEF Iterates
  <2> HIDE DEF g
  <2> QED BY <2>1
<1>2. ASSUME NEW k \in 0 .. n - 1, k \in S PROVE k + 1 \in S
  <2>1. PICK g : Iterates(g, k, T, base, step)
    BY <1>2
  <2>2. g \in [0 .. k -> T] /\ g[0] = base /\ \A i \in 1 .. k : g[i] = step[i][g[i - 1]]
    BY <2>1 DEF Iterates
  <2> DEFINE h == [i \in 0 .. k + 1 |-> IF i = k + 1 THEN step[i][g[k]] ELSE g[i]]
  <2>3. h \in [0 .. k + 1 -> T]
    <3>1. k + 1 \in 1 .. n /\ g[k] \in T
      BY <2>2
    <3> QED BY <2>2, <3>1 DEF Steps
  <2>4. h[0] = base
    BY <2>2
  <2>5. ASSUME NEW i \in 1 .. k + 1 PROVE h[i] = step[i][h[i - 1]]
    <3>1. h[i - 1] = g[i - 1]
      OBVIOUS
    <3>2. CASE i = k + 1
      BY <3>1, <3>2
    <3>3. CASE i # k + 1
      BY <2>2, <3>1, <3>3
    <3> QED BY <3>2, <3>3
  <2> HIDE DEF h
  <2>6. Iterates(h, k + 1, T, base, step)
    BY Zenon, <2>3, <2>4, <2>5 DEF Iterates
  <2> QED BY <2>6
<1> HIDE DEF S
<1>3. n \in S
  <2>1. n \in 0 .. n
    OBVIOUS
  <2> QED BY Zenon, <1>1, <1>2, <2>1, Interval
<1> QED BY Zenon, <1>3 DEF S

-----------------------------------------------------------------------------
(* The pool and its index *)

Maps == UNION {[D -> Payments] : D \in SUBSET (Txs \X Nat)}

Pools == [mapTx : SUBSET Payments, mapNextTx : Maps]

(* SpendsIndexed, of a pool on its way through a block.                      *)
Indexed(x) ==
  /\ \A t \in x.mapTx : \A p \in Range(Prevouts[t]) :
       p \in DOMAIN x.mapNextTx /\ x.mapNextTx[p] = t
  /\ \A p \in DOMAIN x.mapNextTx :
       x.mapNextTx[p] \in x.mapTx /\ p \in Range(Prevouts[x.mapNextTx[p]])

(* A coinbase has no input and a payment has one.                            *)
LEMMA Inputs ==
  /\ \A t \in Txs : Range(Prevouts[t]) \subseteq Txs \X Nat
  /\ \A t \in CoinBases : Range(Prevouts[t]) = {}
  /\ \A t \in Payments : Range(Prevouts[t]) # {}
<1>1. ASSUME NEW t \in Txs PROVE Range(Prevouts[t]) \subseteq Txs \X Nat
  <2>1. Prevouts[t] \in Seq(Txs \X Nat)
    BY MempoolAssumption
  <2> QED BY <2>1 DEF Range
<1>2. ASSUME NEW t \in CoinBases PROVE Range(Prevouts[t]) = {}
  <2>1. Prevouts[t] = <<>>
    BY MempoolAssumption
  <2> QED BY <2>1 DEF Range
<1>3. ASSUME NEW t \in Payments PROVE Range(Prevouts[t]) # {}
  <2>1. Prevouts[t] \in Seq(Txs \X Nat) /\ Prevouts[t] # <<>>
    BY MempoolAssumption DEF Txs
  <2>2. 1 \in DOMAIN Prevouts[t]
    BY <2>1
  <2> QED BY <2>2 DEF Range
<1> QED BY <1>1, <1>2, <1>3

LEMMA MapType == \A D \in SUBSET (Txs \X Nat) : \A f \in [D -> Payments] : f \in Maps
BY Zenon DEF Maps

LEMMA PoolType ==
  \A x \in Pools : /\ x.mapTx \subseteq Payments
                   /\ DOMAIN x.mapNextTx \in SUBSET (Txs \X Nat)
                   /\ x.mapNextTx \in [DOMAIN x.mapNextTx -> Payments]
<1> SUFFICES ASSUME NEW x \in Pools
             PROVE  /\ x.mapTx \subseteq Payments
                    /\ DOMAIN x.mapNextTx \in SUBSET (Txs \X Nat)
                    /\ x.mapNextTx \in [DOMAIN x.mapNextTx -> Payments]
  OBVIOUS
<1>1. x.mapTx \subseteq Payments /\ x.mapNextTx \in Maps
  BY DEF Pools
<1>2. PICK D \in SUBSET (Txs \X Nat) : x.mapNextTx \in [D -> Payments]
  BY Zenon, <1>1 DEF Maps
<1> QED BY <1>1, <1>2

(* Removing transactions takes their inputs out of the index, and no others. *)
LEMMA RemoveAll ==
  ASSUME NEW x \in Pools, NEW S
  PROVE  /\ removeAll(x, S) \in Pools
         /\ removeAll(x, S).mapTx = x.mapTx \ S
         /\ Indexed(x) => Indexed(removeAll(x, S))
<1> DEFINE gone == S \cap x.mapTx
           erased == UNION {Range(Prevouts[t]) : t \in gone}
           y == removeAll(x, S)
           D == DOMAIN x.mapNextTx \ erased
           f == [p \in D |-> x.mapNextTx[p]]
<1>1. y = [mapTx |-> x.mapTx \ gone, mapNextTx |-> f]
  BY Zenon DEF removeAll
<1>2. y.mapTx = x.mapTx \ S
  BY <1>1
<1>3. y.mapNextTx = f
  BY <1>1
<1>4. D \in SUBSET (Txs \X Nat) /\ f \in [D -> Payments]
  BY PoolType
<1>5. y \in Pools
  <2>1. f \in Maps
    BY Zenon, <1>4, MapType
  <2>2. x.mapTx \ gone \in SUBSET Payments
    BY PoolType
  <2> HIDE DEF f, gone
  <2> QED BY <1>1, <2>1, <2>2 DEF Pools
<1>6. ASSUME Indexed(x) PROVE Indexed(y)
  <2>1. ASSUME NEW t \in y.mapTx, NEW p \in Range(Prevouts[t])
        PROVE  p \in DOMAIN y.mapNextTx /\ y.mapNextTx[p] = t
    <3>1. t \in x.mapTx /\ t \notin S
      BY <1>2
    <3>2. p \in DOMAIN x.mapNextTx /\ x.mapNextTx[p] = t
      BY <1>6, <3>1 DEF Indexed
    <3>3. p \notin erased
      BY <1>6, <3>1, <3>2 DEF Indexed
    <3> QED BY <1>3, <3>2, <3>3
  <2>2. ASSUME NEW p \in DOMAIN y.mapNextTx
        PROVE  y.mapNextTx[p] \in y.mapTx /\ p \in Range(Prevouts[y.mapNextTx[p]])
    <3>1. p \in DOMAIN x.mapNextTx /\ p \notin erased /\ y.mapNextTx[p] = x.mapNextTx[p]
      BY <1>3
    <3>2. x.mapNextTx[p] \in x.mapTx /\ p \in Range(Prevouts[x.mapNextTx[p]])
      BY <1>6, <3>1 DEF Indexed
    <3>3. x.mapNextTx[p] \notin S
      BY <3>1, <3>2
    <3> QED BY <1>2, <3>1, <3>2, <3>3
  <2> HIDE DEF y
  <2> QED BY Zenon, <2>1, <2>2 DEF Indexed
<1> QED BY <1>2, <1>5, <1>6

(* What remove(tx, removed, true) takes has all that spends it.              *)
LEMMA Closed ==
  ASSUME NEW x \in Pools, Indexed(x), NEW t
  PROVE  /\ t \in Descendants(x, t)
         /\ \A u \in x.mapTx : \A p \in Range(Prevouts[u]) :
              p[1] \in Descendants(x, t) => u \in Descendants(x, t)
<1> DEFINE Within == SUBSET (x.mapTx \cup {t})
           Holds(S) == t \in S /\ Spenders(x, S) \subseteq S
<1>1. t \in Descendants(x, t)
  BY Zenon DEF Descendants
<1>2. ASSUME NEW u \in x.mapTx, NEW p \in Range(Prevouts[u]), p[1] \in Descendants(x, t)
      PROVE  u \in Descendants(x, t)
  <2>1. p \in DOMAIN x.mapNextTx /\ x.mapNextTx[p] = u
    BY Zenon DEF Indexed
  <2>2. ASSUME NEW S \in Within, Holds(S) PROVE u \in S
    <3>1. p[1] \in S
      BY Zenon, <1>2, <2>2 DEF Descendants
    <3>2. u \in Spenders(x, S)
      BY <2>1, <3>1 DEF Spenders
    <3> QED BY <2>2, <3>2
  <2> QED BY Zenon, <2>2 DEF Descendants
<1> QED BY <1>1, <1>2

(* What is added overwrites no entry, since AcceptToMemoryPool refuses what  *)
(* conflicts.                                                                *)
LEMMA AddIndexed ==
  ASSUME NEW x \in Pools, NEW t \in Payments
  PROVE  /\ addUnchecked(x, t) \in Pools
         /\ addUnchecked(x, t).mapTx = x.mapTx \cup {t}
         /\ Indexed(x) /\ ~Conflicts(x, t) => Indexed(addUnchecked(x, t))
<1> DEFINE I == Range(Prevouts[t])
           D == DOMAIN x.mapNextTx \cup I
           f == [p \in D |-> IF p \in I THEN t ELSE x.mapNextTx[p]]
           y == addUnchecked(x, t)
<1>1. y = [mapTx |-> x.mapTx \cup {t}, mapNextTx |-> f]
  BY Zenon DEF addUnchecked
<1>2. y.mapTx = x.mapTx \cup {t} /\ y.mapNextTx = f
  BY <1>1
<1>3. I \subseteq Txs \X Nat
  BY Inputs DEF Txs
<1>4. D \in SUBSET (Txs \X Nat) /\ f \in [D -> Payments]
  BY <1>3, PoolType
<1>5. y \in Pools
  <2>1. f \in Maps
    BY Zenon, <1>4, MapType
  <2>2. x.mapTx \cup {t} \in SUBSET Payments
    BY PoolType
  <2> HIDE DEF f
  <2> QED BY <1>1, <2>1, <2>2 DEF Pools
<1>6. ASSUME Indexed(x), ~Conflicts(x, t) PROVE Indexed(y)
  <2>0. \A p \in I : p \notin DOMAIN x.mapNextTx
    BY Zenon, <1>6 DEF Conflicts
  <2>1. ASSUME NEW u \in y.mapTx, NEW p \in Range(Prevouts[u])
        PROVE  p \in DOMAIN y.mapNextTx /\ y.mapNextTx[p] = u
    <3>1. CASE u = t
      BY <1>2, <3>1
    <3>2. CASE u # t
      <4>1. p \in DOMAIN x.mapNextTx /\ x.mapNextTx[p] = u
        BY <1>2, <1>6, <3>2 DEF Indexed
      <4> QED BY <1>2, <2>0, <4>1
    <3> QED BY <3>1, <3>2
  <2>2. ASSUME NEW p \in DOMAIN y.mapNextTx
        PROVE  y.mapNextTx[p] \in y.mapTx /\ p \in Range(Prevouts[y.mapNextTx[p]])
    <3>1. CASE p \in I
      BY <1>2, <3>1
    <3>2. CASE p \notin I
      <4>1. p \in DOMAIN x.mapNextTx /\ y.mapNextTx[p] = x.mapNextTx[p]
        BY <1>2, <3>2
      <4> QED BY <1>2, <1>6, <4>1 DEF Indexed
    <3> QED BY <3>1, <3>2
  <2> HIDE DEF y
  <2> QED BY Zenon, <2>1, <2>2 DEF Indexed
<1> QED BY <1>2, <1>5, <1>6
(* What a block confirms and contradicts leaves the pool.                    *)
LEMMA ConfirmedType == \A x \in Pools, t \in Txs : Confirmed(x, t) \in Pools
<1> SUFFICES ASSUME NEW x \in Pools, NEW t \in Txs PROVE Confirmed(x, t) \in Pools
  OBVIOUS
<1>1. remove(x, t) \in Pools
  BY Zenon, RemoveAll DEF remove
<1> QED BY Zenon, <1>1, RemoveAll DEF Confirmed, removeConflicts

LEMMA ResurrectType == \A c : \A x \in Pools, t \in Txs : Resurrect(c, x, t) \in Pools
<1> SUFFICES ASSUME NEW c, NEW x \in Pools, NEW t \in Txs PROVE Resurrect(c, x, t) \in Pools
  OBVIOUS
<1>1. CASE t \in CoinBases
  BY Zenon, <1>1 DEF Resurrect
<1>2. CASE t \notin CoinBases /\ "accepted" \in AcceptToMemoryPool(c, x, t, FALSE)
  <2>1. t \in Payments
    BY <1>2 DEF Txs
  <2>2. addUnchecked(x, t) \in Pools
    BY Zenon, <2>1, AddIndexed
  <2> QED BY Zenon, <1>2, <2>2 DEF Resurrect
<1>3. CASE t \notin CoinBases /\ "accepted" \notin AcceptToMemoryPool(c, x, t, FALSE)
  <2>1. removeRecursive(x, t) \in Pools
    BY Zenon, RemoveAll DEF removeRecursive
  <2> QED BY Zenon, <1>3, <2>1 DEF Resurrect
<1> QED BY Zenon, <1>1, <1>2, <1>3

(* The pool g[i] after the first i transactions of a block.                  *)
LEMMA ConfirmedStages ==
  ASSUME NEW x \in Pools, NEW block \in Seq(Txs)
  PROVE  \E g \in [0 .. Len(block) -> Pools] :
           /\ g[0] = x /\ ConfirmedAll(x, block) = g[Len(block)]
           /\ \A i \in 1 .. Len(block) : g[i] = Confirmed(g[i - 1], block[i])
<1> DEFINE L == Len(block)
           Step == [i \in 1 .. L |-> [y \in Pools |-> Confirmed(y, block[i])]]
           Is(f) == f = [i \in 0 .. L |-> IF i = 0 THEN x ELSE Confirmed(f[i - 1], block[i])]
           z == CHOOSE f : Is(f)
<1>0. L \in Nat /\ \A i \in 1 .. L : block[i] \in Txs
  OBVIOUS
<1>1. Steps(Step, L, Pools)
  BY <1>0, ConfirmedType DEF Steps
<1>2. PICK g : Iterates(g, L, Pools, x, Step)
  <2> HIDE DEF Step, L
  <2> QED BY Zenon, <1>0, <1>1, Primitive
<1>3. /\ g \in [0 .. L -> Pools] /\ g[0] = x
      /\ \A i \in 1 .. L : g[i - 1] \in Pools /\ g[i] = Confirmed(g[i - 1], block[i])
  <2>1. /\ g \in [0 .. L -> Pools] /\ g[0] = x
        /\ \A i \in 1 .. L : g[i] = Step[i][g[i - 1]]
    BY Zenon, <1>2 DEF Iterates
  <2> HIDE DEF L
  <2>2. ASSUME NEW i \in 1 .. L PROVE g[i - 1] \in Pools /\ g[i] = Confirmed(g[i - 1], block[i])
    <3>1. i - 1 \in 0 .. L
      BY <1>0
    <3>2. g[i - 1] \in Pools
      BY <2>1, <3>1
    <3>3. Step[i][g[i - 1]] = Confirmed(g[i - 1], block[i])
      BY <3>2
    <3> QED BY Zenon, <2>1, <3>2, <3>3
  <2> QED BY Zenon, <2>1, <2>2
<1> HIDE DEF L
<1>4. Is(g)
  <2>1. ASSUME NEW i \in 0 .. L
        PROVE  g[i] = IF i = 0 THEN x ELSE Confirmed(g[i - 1], block[i])
    BY <1>0, <1>3
  <2> QED BY <1>3, <2>1
<1>5. Is(z)
  <2> HIDE DEF Is
  <2> QED BY Zenon, <1>4
<1>6. ConfirmedAll(x, block) = z[L]
  BY Zenon DEF ConfirmedAll, L
<1> HIDE DEF z
<1>7. DOMAIN z = 0 .. L /\ z[0] = x /\ \A i \in 1 .. L : z[i] = Confirmed(z[i - 1], block[i])
  <2>1. \A i \in 0 .. L : z[i] = IF i = 0 THEN x ELSE Confirmed(z[i - 1], block[i])
    BY Zenon, <1>5
  <2>2. 0 \in 0 .. L /\ \A i \in 1 .. L : i \in 0 .. L /\ i # 0
    BY <1>0
  <2>3. DOMAIN z = 0 .. L
    BY Zenon, <1>5
  <2> QED BY Zenon, <2>1, <2>2, <2>3
<1> DEFINE S == {i \in 0 .. L : z[i] \in Pools}
<1>8. 0 \in S
  BY <1>0, <1>7
<1>9. ASSUME NEW i \in 0 .. L - 1, i \in S PROVE i + 1 \in S
  <2>1. i + 1 \in 1 .. L /\ i + 1 \in 0 .. L /\ (i + 1) - 1 = i /\ z[i] \in Pools
    BY <1>0, <1>9
  <2>2. z[i + 1] = Confirmed(z[i], block[i + 1])
    BY <1>7, <2>1
  <2>3. z[i + 1] \in Pools
    BY Zenon, <1>0, <2>1, <2>2, ConfirmedType
  <2> QED BY <2>1, <2>3
<1>10. \A i \in 0 .. L : i \in S
  <2> HIDE DEF S
  <2> QED BY Zenon, <1>0, <1>8, <1>9, Interval
<1>11. z \in [0 .. L -> Pools]
  <2>1. \A i \in 0 .. L : z[i] \in Pools
    BY Zenon, <1>10
  <2>2. z = [i \in 0 .. L |-> z[i]]
    BY Zenon, <1>5
  <2> QED BY Zenon, <2>1, <2>2
<1> QED BY Zenon, <1>6, <1>7, <1>11 DEF L

(* The same when the block is taken off the chain c.                         *)
Staged(c, x, block) ==
  \E g \in [0 .. Len(block) -> Pools] :
    /\ g[0] = x /\ ResurrectAll(c, x, block) = g[Len(block)]
    /\ \A i \in 1 .. Len(block) : g[i] = Resurrect(c, g[i - 1], block[i])

LEMMA ResurrectStages ==
  ASSUME NEW c, NEW x \in Pools, NEW block \in Seq(Txs) PROVE Staged(c, x, block)
<1> DEFINE L == Len(block)
           Step == [i \in 1 .. L |-> [y \in Pools |-> Resurrect(c, y, block[i])]]
           Is(f) == f = [i \in 0 .. L |-> IF i = 0 THEN x ELSE Resurrect(c, f[i - 1], block[i])]
           z == CHOOSE f : Is(f)
<1>0. L \in Nat /\ \A i \in 1 .. L : block[i] \in Txs
  OBVIOUS
<1>1. Steps(Step, L, Pools)
  BY <1>0, ResurrectType DEF Steps
<1>2. PICK g : Iterates(g, L, Pools, x, Step)
  <2> HIDE DEF Step, L
  <2> QED BY Zenon, <1>0, <1>1, Primitive
<1>3. /\ g \in [0 .. L -> Pools] /\ g[0] = x
      /\ \A i \in 1 .. L : g[i - 1] \in Pools /\ g[i] = Resurrect(c, g[i - 1], block[i])
  <2>1. /\ g \in [0 .. L -> Pools] /\ g[0] = x
        /\ \A i \in 1 .. L : g[i] = Step[i][g[i - 1]]
    BY Zenon, <1>2 DEF Iterates
  <2> HIDE DEF L
  <2>2. ASSUME NEW i \in 1 .. L PROVE g[i - 1] \in Pools /\ g[i] = Resurrect(c, g[i - 1], block[i])
    <3>1. i - 1 \in 0 .. L
      BY <1>0
    <3>2. g[i - 1] \in Pools
      BY <2>1, <3>1
    <3>3. Step[i][g[i - 1]] = Resurrect(c, g[i - 1], block[i])
      BY <3>2
    <3> QED BY Zenon, <2>1, <3>2, <3>3
  <2> QED BY Zenon, <2>1, <2>2
<1> HIDE DEF L
<1>4. Is(g)
  <2>1. ASSUME NEW i \in 0 .. L
        PROVE  g[i] = IF i = 0 THEN x ELSE Resurrect(c, g[i - 1], block[i])
    BY <1>0, <1>3
  <2> QED BY <1>3, <2>1
<1>5. Is(z)
  <2> HIDE DEF Is
  <2> QED BY Zenon, <1>4
<1>6. ResurrectAll(c, x, block) = z[L]
  BY Zenon DEF ResurrectAll, L
<1> HIDE DEF z
<1>7. DOMAIN z = 0 .. L /\ z[0] = x /\ \A i \in 1 .. L : z[i] = Resurrect(c, z[i - 1], block[i])
  <2>1. \A i \in 0 .. L : z[i] = IF i = 0 THEN x ELSE Resurrect(c, z[i - 1], block[i])
    BY Zenon, <1>5
  <2>2. 0 \in 0 .. L /\ \A i \in 1 .. L : i \in 0 .. L /\ i # 0
    BY <1>0
  <2>3. DOMAIN z = 0 .. L
    BY Zenon, <1>5
  <2> QED BY Zenon, <2>1, <2>2, <2>3
<1> DEFINE S == {i \in 0 .. L : z[i] \in Pools}
<1>8. 0 \in S
  BY <1>0, <1>7
<1>9. ASSUME NEW i \in 0 .. L - 1, i \in S PROVE i + 1 \in S
  <2>1. i + 1 \in 1 .. L /\ i + 1 \in 0 .. L /\ (i + 1) - 1 = i /\ z[i] \in Pools
    BY <1>0, <1>9
  <2>2. z[i + 1] = Resurrect(c, z[i], block[i + 1])
    BY <1>7, <2>1
  <2>3. z[i + 1] \in Pools
    BY Zenon, <1>0, <2>1, <2>2, ResurrectType
  <2> QED BY <2>1, <2>3
<1>10. \A i \in 0 .. L : i \in S
  <2> HIDE DEF S
  <2> QED BY Zenon, <1>0, <1>8, <1>9, Interval
<1>11. z \in [0 .. L -> Pools]
  <2>1. \A i \in 0 .. L : z[i] \in Pools
    BY Zenon, <1>10
  <2>2. z = [i \in 0 .. L |-> z[i]]
    BY Zenon, <1>5
  <2> QED BY Zenon, <2>1, <2>2
<1> QED BY Zenon, <1>6, <1>7, <1>11 DEF L, Staged

-----------------------------------------------------------------------------
(* The chain and its coins *)

Chains == Seq(Seq(Txs))

(* Every transaction of the chain spends outputs of the chain up to its      *)
(* block, as ConnectBlock demands.                                           *)
Grounded(c) ==
  \A i \in DOMAIN c : \A t \in Range(c[i]) : \A p \in Range(Prevouts[t]) :
    \E j \in 1 .. i : p[1] \in Range(c[j])

(* The coins of a chain are its outputs that it does not spend.              *)
LEMMA ChainCoins ==
  ASSUME NEW c \in Chains
  PROVE  /\ TxsIn(c) \subseteq Txs
         /\ \A p : p \in SpentIn(c) <=> \E t \in TxsIn(c) : p \in Range(Prevouts[t])
         /\ \A p \in Txs \X Nat :
              p \in Unspent(c) <=>
                p[1] \in TxsIn(c) /\ p[2] \in Outputs[p[1]] /\ p \notin SpentIn(c)
         /\ Grounded(c) => \A p \in SpentIn(c) : p[1] \in TxsIn(c)
<1>1. \A t : t \in TxsIn(c) <=> \E i \in DOMAIN c : t \in Range(c[i])
  BY Zenon DEF TxsIn
<1>2. TxsIn(c) \subseteq Txs
  <2>1. ASSUME NEW i \in DOMAIN c, NEW t \in Range(c[i]) PROVE t \in Txs
    <3>1. c[i] \in Seq(Txs)
      BY DEF Chains
    <3> QED BY <3>1 DEF Range
  <2> QED BY <1>1, <2>1
<1>3. \A p : p \in SpentIn(c) <=> \E t \in TxsIn(c) : p \in Range(Prevouts[t])
  BY Zenon DEF SpentIn
<1>4. ASSUME NEW p \in Txs \X Nat
      PROVE  p \in Unspent(c) <=>
               p[1] \in TxsIn(c) /\ p[2] \in Outputs[p[1]] /\ p \notin SpentIn(c)
  BY DEF Unspent
<1>5. ASSUME Grounded(c), NEW p \in SpentIn(c) PROVE p[1] \in TxsIn(c)
  <2>1. PICK t \in TxsIn(c) : p \in Range(Prevouts[t])
    BY <1>3
  <2>2. PICK i \in DOMAIN c : t \in Range(c[i])
    BY <1>1
  <2>3. PICK j \in 1 .. i : p[1] \in Range(c[j])
    BY <1>5, <2>1, <2>2 DEF Grounded
  <2>4. j \in DOMAIN c
    BY DEF Chains
  <2> QED BY <1>1, <2>3, <2>4
<1> QED BY <1>2, <1>3, <1>4, <1>5

(* A chain with a block more has its transactions more.                      *)
LEMMA ChainAppend ==
  ASSUME NEW c \in Chains, NEW b \in Seq(Txs)
  PROVE  /\ Append(c, b) \in Chains /\ Append(c, b) # <<>>
         /\ TxsIn(Append(c, b)) = TxsIn(c) \cup Range(b)
<1> DEFINE d == Append(c, b)
<1>0. c \in Seq(Seq(Txs)) /\ Len(c) \in Nat /\ Len(d) = Len(c) + 1
  BY DEF Chains
<1>1. d \in Chains /\ d # <<>>
  <2>1. d \in Seq(Seq(Txs))
    BY <1>0
  <2> HIDE DEF d
  <2> QED BY <1>0, <2>1 DEF Chains
<1>2. /\ DOMAIN d = DOMAIN c \cup {Len(c) + 1} /\ d[Len(c) + 1] = b
      /\ \A i \in DOMAIN c : d[i] = c[i]
  <2>1. Len(c) \in Nat /\ DOMAIN c = 1 .. Len(c) /\ DOMAIN d = 1 .. Len(c) + 1
    BY DEF Chains
  <2>2. d[Len(c) + 1] = b
    BY DEF Chains
  <2>3. \A i \in 1 .. Len(c) : d[i] = c[i]
    BY DEF Chains
  <2> HIDE DEF d
  <2> QED BY <2>1, <2>2, <2>3
<1> HIDE DEF d
<1>3. \A t : t \in TxsIn(d) <=> t \in TxsIn(c) \cup Range(b)
  <2>1. \A t : t \in TxsIn(d) <=> \E i \in DOMAIN d : t \in Range(d[i])
    BY Zenon DEF TxsIn
  <2>2. \A t : t \in TxsIn(c) <=> \E i \in DOMAIN c : t \in Range(c[i])
    BY Zenon DEF TxsIn
  <2> QED BY <1>2, <2>1, <2>2
<1> QED BY <1>1, <1>3 DEF d

(* A chain without its tip.                                                  *)
LEMMA ChainFront ==
  ASSUME NEW c \in Chains, Len(c) > 1
  PROVE  /\ Below(c) \in Chains /\ Below(c) # <<>> /\ Tip(c) \in Seq(Txs)
         /\ TxsIn(c) = TxsIn(Below(c)) \cup Range(Tip(c))
         /\ Grounded(c) => Grounded(Below(c))
<1> DEFINE f == Below(c)
           b == Tip(c)
<1>0. c \in Seq(Seq(Txs)) /\ Len(c) \in Nat /\ DOMAIN c = 1 .. Len(c)
  BY DEF Chains
<1>1. f \in Chains /\ f # <<>> /\ b \in Seq(Txs)
  <2>1. f \in Seq(Seq(Txs)) /\ Len(f) = Len(c) - 1
    BY <1>0 DEF Below
  <2>2. b \in Seq(Txs)
    BY <1>0 DEF Tip
  <2> HIDE DEF f, b
  <2> QED BY <1>0, <2>1, <2>2 DEF Chains
<1>2. DOMAIN f \subseteq DOMAIN c /\ DOMAIN f = 1 .. Len(f) /\ \A i \in DOMAIN f : f[i] = c[i]
  BY DEF Chains, Below
<1>3. DOMAIN c = DOMAIN f \cup {Len(c)} /\ c[Len(c)] = b
  <2>1. DOMAIN f = 1 .. Len(c) - 1
    BY <1>0 DEF Below
  <2>2. \A n \in Nat \ {0} : 1 .. n = (1 .. n - 1) \cup {n}
    OBVIOUS
  <2> HIDE DEF f
  <2> QED BY <1>0, <2>1, <2>2 DEF Tip
<1> HIDE DEF f, b
<1>4. TxsIn(c) = TxsIn(f) \cup Range(b)
  <2>1. \A t : t \in TxsIn(f) <=> \E i \in DOMAIN f : t \in Range(f[i])
    BY Zenon DEF TxsIn
  <2>2. \A t : t \in TxsIn(c) <=> \E i \in DOMAIN c : t \in Range(c[i])
    BY Zenon DEF TxsIn
  <2> QED BY Zenon, <1>2, <1>3, <2>1, <2>2
<1>5. ASSUME Grounded(c) PROVE Grounded(f)
  <2>1. ASSUME NEW i \in DOMAIN f, NEW t \in Range(f[i]), NEW p \in Range(Prevouts[t])
        PROVE  \E j \in 1 .. i : p[1] \in Range(f[j])
    <3>1. PICK j \in 1 .. i : p[1] \in Range(c[j])
      BY <1>2, <1>5 DEF Grounded
    <3>2. j \in DOMAIN f
      BY <1>1, <1>2 DEF Chains
    <3> QED BY <1>2, <3>1, <3>2
  <2> QED BY Zenon, <2>1 DEF Grounded
<1> QED BY <1>1, <1>4, <1>5 DEF f, b

-----------------------------------------------------------------------------
(* The pool and the chain *)

(* The pool x suits the chain c, when the transactions R have left the chain *)
(* and may still come back to the pool.                                      *)
PoolOf(c, x, R) ==
  /\ x \in Pools /\ Indexed(x) /\ x.mapTx \cap TxsIn(c) = {}
  /\ \A t \in x.mapTx : \A p \in Range(Prevouts[t]) :
       /\ p[2] \in Outputs[p[1]]
       /\ p[1] \in x.mapTx \/ p \in Unspent(c) \/ p[1] \in (CoinBases \cup R) \ TxsIn(c)

PoolInv ==
  /\ chain \in Chains /\ chain # <<>> /\ Grounded(chain)
  /\ PoolOf(chain, mempool, {})

(* What AcceptToMemoryPool accepts is not in the chain, conflicts with       *)
(* nothing in the pool and has its inputs.                                   *)
LEMMA AcceptMeans ==
  ASSUME NEW c \in Chains, Grounded(c), NEW x \in Pools, x.mapTx \cap TxsIn(c) = {},
         NEW t \in Payments, NEW fLimitFree \in BOOLEAN,
         "accepted" \in AcceptToMemoryPool(c, x, t, fLimitFree)
  PROVE  /\ t \notin TxsIn(c) /\ ~Conflicts(x, t)
         /\ \A p \in Range(Prevouts[t]) :
              p[2] \in Outputs[p[1]] /\ (p[1] \in x.mapTx \/ p \in Unspent(c))
<1>0. t \notin CoinBases /\ t \in Txs
  BY MempoolAssumption DEF Txs
<1>1. ~Conflicts(x, t) /\ HaveInputs(c, x, t)
  BY <1>0 DEF AcceptToMemoryPool
<1>2. ASSUME NEW p \in Range(Prevouts[t])
      PROVE  p[2] \in Outputs[p[1]] /\ (p[1] \in x.mapTx \/ p \in Unspent(c))
  <2>1. p \in Txs \X Nat
    BY <1>0, Inputs
  <2>2. HaveOutput(c, x, p)
    BY Zenon, <1>1 DEF HaveInputs
  <2>3. CASE p \in Unspent(c)
    BY <2>1, <2>3, ChainCoins
  <2>4. CASE p[1] \in x.mapTx /\ p[2] \in Outputs[p[1]]
    BY <2>4
  <2> QED BY Zenon, <2>2, <2>3, <2>4 DEF HaveOutput
<1>3. t \notin TxsIn(c)
  <2>1. PICK p \in Range(Prevouts[t]) : TRUE
    BY Inputs
  <2>2. p \in Txs \X Nat
    BY <1>0, Inputs
  <2> SUFFICES ASSUME t \in TxsIn(c) PROVE FALSE
    OBVIOUS
  <2>3. p \in SpentIn(c)
    BY ChainCoins
  <2>4. p[1] \in TxsIn(c) /\ p \notin Unspent(c)
    BY <2>2, <2>3, ChainCoins
  <2> QED BY <1>2, <2>4
<1> QED BY <1>1, <1>2, <1>3

(* So the pool suits the chain with it.                                      *)
LEMMA AcceptKeeps ==
  ASSUME NEW c \in Chains, Grounded(c), NEW x, NEW R, PoolOf(c, x, R),
         NEW t \in Payments, NEW fLimitFree \in BOOLEAN,
         "accepted" \in AcceptToMemoryPool(c, x, t, fLimitFree)
  PROVE  PoolOf(c, addUnchecked(x, t), R \ {t})
<1> DEFINE y == addUnchecked(x, t)
<1>0. /\ x \in Pools /\ Indexed(x) /\ x.mapTx \cap TxsIn(c) = {}
      /\ \A u \in x.mapTx : \A p \in Range(Prevouts[u]) :
           /\ p[2] \in Outputs[p[1]]
           /\ p[1] \in x.mapTx \/ p \in Unspent(c) \/ p[1] \in (CoinBases \cup R) \ TxsIn(c)
  BY Zenon DEF PoolOf
<1>1. /\ t \notin TxsIn(c) /\ ~Conflicts(x, t)
      /\ \A p \in Range(Prevouts[t]) :
           p[2] \in Outputs[p[1]] /\ (p[1] \in x.mapTx \/ p \in Unspent(c))
  BY <1>0, AcceptMeans
<1>2. y \in Pools /\ y.mapTx = x.mapTx \cup {t} /\ Indexed(y)
  BY <1>0, <1>1, AddIndexed
<1> HIDE DEF y
<1>3. y.mapTx \cap TxsIn(c) = {}
  BY <1>0, <1>1, <1>2
<1>4. ASSUME NEW u \in y.mapTx, NEW p \in Range(Prevouts[u])
      PROVE  /\ p[2] \in Outputs[p[1]]
             /\ \/ p[1] \in y.mapTx \/ p \in Unspent(c)
                \/ p[1] \in (CoinBases \cup (R \ {t})) \ TxsIn(c)
  BY <1>0, <1>1, <1>2
<1> QED BY Zenon, <1>2, <1>3, <1>4 DEF PoolOf, y

(* And it suits the chain without what spends a transaction that is refused. *)
LEMMA RefuseKeeps ==
  ASSUME NEW c, NEW x, NEW R, PoolOf(c, x, R), NEW t
  PROVE  PoolOf(c, removeRecursive(x, t), R \ {t})
<1> DEFINE y == removeRecursive(x, t)
           D == Descendants(x, t)
<1>0. /\ x \in Pools /\ Indexed(x) /\ x.mapTx \cap TxsIn(c) = {}
      /\ \A u \in x.mapTx : \A p \in Range(Prevouts[u]) :
           /\ p[2] \in Outputs[p[1]]
           /\ p[1] \in x.mapTx \/ p \in Unspent(c) \/ p[1] \in (CoinBases \cup R) \ TxsIn(c)
  BY Zenon DEF PoolOf
<1>1. /\ t \in D
      /\ \A u \in x.mapTx : \A p \in Range(Prevouts[u]) : p[1] \in D => u \in D
  BY Zenon, <1>0, Closed
<1> HIDE DEF D
<1>2. y \in Pools /\ y.mapTx = x.mapTx \ D /\ Indexed(y)
  BY Zenon, <1>0, RemoveAll DEF removeRecursive, D
<1> HIDE DEF y
<1>3. y.mapTx \cap TxsIn(c) = {}
  BY <1>0, <1>2
<1>4. ASSUME NEW u \in y.mapTx, NEW p \in Range(Prevouts[u])
      PROVE  /\ p[2] \in Outputs[p[1]]
             /\ \/ p[1] \in y.mapTx \/ p \in Unspent(c)
                \/ p[1] \in (CoinBases \cup (R \ {t})) \ TxsIn(c)
  <2>1. u \in x.mapTx /\ u \notin D /\ p[1] \notin D /\ p[1] # t
    BY <1>1, <1>2
  <2> QED BY <1>0, <1>2, <2>1
<1> QED BY Zenon, <1>2, <1>3, <1>4 DEF PoolOf, y

(* One transaction of a block that leaves the chain.                         *)
LEMMA ResurrectKeeps ==
  ASSUME NEW c \in Chains, Grounded(c), NEW x, NEW R, PoolOf(c, x, R), NEW t \in Txs
  PROVE  PoolOf(c, Resurrect(c, x, t), R \ {t})
<1>1. CASE t \in CoinBases
  <2>1. (CoinBases \cup R) = CoinBases \cup (R \ {t})
    BY <1>1
  <2>2. PoolOf(c, x, R \ {t})
    BY Zenon, <2>1 DEF PoolOf
  <2> QED BY Zenon, <1>1, <2>2 DEF Resurrect
<1>2. CASE t \notin CoinBases /\ "accepted" \in AcceptToMemoryPool(c, x, t, FALSE)
  <2>1. t \in Payments /\ FALSE \in BOOLEAN
    BY <1>2 DEF Txs
  <2>2. PoolOf(c, addUnchecked(x, t), R \ {t})
    BY Zenon, <1>2, <2>1, AcceptKeeps
  <2> QED BY Zenon, <1>2, <2>2 DEF Resurrect
<1>3. CASE t \notin CoinBases /\ "accepted" \notin AcceptToMemoryPool(c, x, t, FALSE)
  <2>1. PoolOf(c, removeRecursive(x, t), R \ {t})
    BY Zenon, RefuseKeeps
  <2> QED BY Zenon, <1>3, <2>1 DEF Resurrect
<1> QED BY Zenon, <1>1, <1>2, <1>3

(* A whole block leaves the chain.                                           *)
LEMMA DisconnectKeeps ==
  ASSUME NEW c \in Chains, Grounded(c), NEW block \in Seq(Txs), NEW x,
         PoolOf(c, x, Range(block))
  PROVE  PoolOf(c, ResurrectAll(c, x, block), {})
<1> DEFINE L == Len(block)
           R(k) == {block[j] : j \in k + 1 .. L}
<1>0. L \in Nat /\ (\A i \in 1 .. L : block[i] \in Txs) /\ x \in Pools
  BY DEF PoolOf
<1>1. PICK g \in [0 .. L -> Pools] :
        /\ g[0] = x /\ ResurrectAll(c, x, block) = g[L]
        /\ \A i \in 1 .. L : g[i] = Resurrect(c, g[i - 1], block[i])
  <2>1. x \in Pools
    BY Zenon, <1>0
  <2>2. Staged(c, x, block)
    BY Zenon, <2>1, ResurrectStages
  <2> QED BY Zenon, <2>2 DEF Staged
<1> DEFINE S == {k \in 0 .. L : PoolOf(c, g[k], R(k))}
<1>2. 0 \in S
  <2>1. R(0) = Range(block)
    BY DEF Range
  <2>2. 0 \in 0 .. L
    BY <1>0
  <2> QED BY Zenon, <1>1, <2>1, <2>2
<1> HIDE DEF L
<1>3. ASSUME NEW k \in 0 .. L - 1, k \in S PROVE k + 1 \in S
  <2>1. k + 1 \in 1 .. L /\ k + 1 \in 0 .. L /\ (k + 1) - 1 = k
    BY <1>0
  <2>2. g[k + 1] = Resurrect(c, g[k], block[k + 1])
    BY <1>1, <2>1
  <2>3. PoolOf(c, g[k + 1], R(k) \ {block[k + 1]})
    <3>1. PoolOf(c, g[k], R(k)) /\ block[k + 1] \in Txs
      BY Zenon, <1>0, <1>3, <2>1
    <3> HIDE DEF R
    <3>2. PoolOf(c, Resurrect(c, g[k], block[k + 1]), R(k) \ {block[k + 1]})
      BY Zenon, <3>1, ResurrectKeeps
    <3> QED BY Zenon, <2>2, <3>2
  <2>4. R(k) \ {block[k + 1]} \subseteq R((k + 1))
    BY <1>0
  <2>5. PoolOf(c, g[k + 1], R((k + 1)))
    <3> HIDE DEF R
    <3> QED BY <2>3, <2>4 DEF PoolOf
  <2> QED BY Zenon, <2>1, <2>5
<1>4. L \in S
  <2>1. L \in 0 .. L
    BY <1>0
  <2> HIDE DEF S
  <2> QED BY Zenon, <1>0, <1>2, <1>3, <2>1, Interval
<1>5. R(L) = {}
  BY <1>0
<1> QED BY Zenon, <1>1, <1>4, <1>5

(* The pool x, once it was x0, has been through the transactions B of a new  *)
(* block: it has none of them, nothing that contradicts them, and what it    *)
(* spent of the pool is still there, or in the block.                        *)
Cleared(x0, x, B) ==
  /\ x \in Pools /\ Indexed(x) /\ x.mapTx \subseteq x0.mapTx \ B
  /\ \A u \in x.mapTx : \A p \in Range(Prevouts[u]) :
       /\ \A b \in B : p \notin Range(Prevouts[b])
       /\ p[1] \in x0.mapTx => p[1] \in x.mapTx \cup B

(* One transaction of the block.                                             *)
LEMMA ConfirmedClears ==
  ASSUME NEW x0, NEW x, NEW B, Cleared(x0, x, B), NEW t \in Txs
  PROVE  Cleared(x0, Confirmed(x, t), B \cup {t})
<1> DEFINE y == remove(x, t)
           K == {y.mapNextTx[p] : p \in Range(Prevouts[t]) \cap DOMAIN y.mapNextTx} \ {t}
           G == UNION {Descendants(y, u) : u \in K}
           z == Confirmed(x, t)
<1>0. /\ x \in Pools /\ Indexed(x) /\ x.mapTx \subseteq x0.mapTx \ B
      /\ \A u \in x.mapTx : \A p \in Range(Prevouts[u]) :
           /\ \A b \in B : p \notin Range(Prevouts[b])
           /\ p[1] \in x0.mapTx => p[1] \in x.mapTx \cup B
  BY Zenon DEF Cleared
<1>1. y \in Pools /\ y.mapTx = x.mapTx \ {t} /\ Indexed(y)
  BY Zenon, <1>0, RemoveAll DEF remove
<1>2. z = removeAll(y, G)
  BY Zenon DEF Confirmed, removeConflicts
<1> HIDE DEF y
<1>3. ASSUME NEW u \in y.mapTx, NEW p \in Range(Prevouts[u]), p[1] \in G PROVE u \in G
  <2>1. PICK v \in K : p[1] \in Descendants(y, v)
    BY Zenon, <1>3
  <2> HIDE DEF K
  <2>2. u \in Descendants(y, v)
    BY Zenon, <1>1, <2>1, Closed
  <2> QED BY Zenon, <2>2
<1>4. ASSUME NEW u \in y.mapTx, NEW p \in Range(Prevouts[u]), p \in Range(Prevouts[t])
      PROVE  u \in G
  <2>1. p \in DOMAIN y.mapNextTx /\ y.mapNextTx[p] = u
    BY Zenon, <1>1 DEF Indexed
  <2>2. u # t
    BY <1>1
  <2>3. u \in K
    BY <1>4, <2>1, <2>2
  <2>4. u \in Descendants(y, u)
    BY Zenon, <1>1, Closed
  <2> HIDE DEF K
  <2> QED BY Zenon, <2>3, <2>4
<1> HIDE DEF G
<1>5. z \in Pools /\ z.mapTx = y.mapTx \ G /\ Indexed(z)
  <2>1. /\ removeAll(y, G) \in Pools /\ removeAll(y, G).mapTx = y.mapTx \ G
        /\ Indexed(removeAll(y, G))
    BY Zenon, <1>1, RemoveAll
  <2> QED BY Zenon, <1>2, <2>1
<1> HIDE DEF z
<1>6. z.mapTx \subseteq x0.mapTx \ (B \cup {t})
  BY <1>0, <1>1, <1>5
<1>7. ASSUME NEW u \in z.mapTx, NEW p \in Range(Prevouts[u])
      PROVE  /\ \A b \in B \cup {t} : p \notin Range(Prevouts[b])
             /\ p[1] \in x0.mapTx => p[1] \in z.mapTx \cup (B \cup {t})
  <2>1. u \in x.mapTx /\ u \in y.mapTx /\ u \notin G
    BY <1>1, <1>5
  <2>2. \A b \in B \cup {t} : p \notin Range(Prevouts[b])
    BY <1>0, <1>4, <2>1
  <2>3. ASSUME p[1] \in x0.mapTx PROVE p[1] \in z.mapTx \cup (B \cup {t})
    <3>1. p[1] \in x.mapTx \cup B /\ p[1] \notin G
      BY <1>0, <1>3, <2>1, <2>3
    <3> QED BY <1>1, <1>5, <3>1
  <2> QED BY <2>2, <2>3
<1> QED BY Zenon, <1>5, <1>6, <1>7 DEF Cleared, z

(* The whole block.                                                          *)
LEMMA BlockClears ==
  ASSUME NEW x \in Pools, Indexed(x), NEW block \in Seq(Txs)
  PROVE  Cleared(x, ConfirmedAll(x, block), Range(block))
<1> DEFINE L == Len(block)
           B(k) == {block[j] : j \in 1 .. k}
<1>0. L \in Nat /\ (\A i \in 1 .. L : block[i] \in Txs)
  OBVIOUS
<1>1. PICK g \in [0 .. L -> Pools] :
        /\ g[0] = x /\ ConfirmedAll(x, block) = g[L]
        /\ \A i \in 1 .. L : g[i] = Confirmed(g[i - 1], block[i])
  BY Zenon, ConfirmedStages
<1>5. B(L) = Range(block)
  BY DEF Range
<1> HIDE DEF L
<1> DEFINE S == {k \in 0 .. L : Cleared(x, g[k], B(k))}
<1>2. 0 \in S
  <2>1. B(0) = {}
    OBVIOUS
  <2>2. 0 \in 0 .. L
    BY <1>0
  <2>3. Cleared(x, x, {})
    BY DEF Cleared
  <2> QED BY Zenon, <1>1, <2>1, <2>2, <2>3
<1>3. ASSUME NEW k \in 0 .. L - 1, k \in S PROVE k + 1 \in S
  <2>1. k + 1 \in 1 .. L /\ k + 1 \in 0 .. L /\ (k + 1) - 1 = k
    BY <1>0
  <2>2. g[k + 1] = Confirmed(g[k], block[k + 1])
    BY <1>1, <2>1
  <2>3. Cleared(x, g[k + 1], B(k) \cup {block[k + 1]})
    <3>1. Cleared(x, g[k], B(k)) /\ block[k + 1] \in Txs
      BY Zenon, <1>0, <1>3, <2>1
    <3> HIDE DEF B
    <3>2. Cleared(x, Confirmed(g[k], block[k + 1]), B(k) \cup {block[k + 1]})
      BY Zenon, <3>1, ConfirmedClears
    <3> QED BY Zenon, <2>2, <3>2
  <2>4. B(k) \cup {block[k + 1]} = B((k + 1))
    BY <1>0
  <2> QED BY Zenon, <2>1, <2>3, <2>4
<1>4. L \in S
  <2>1. L \in 0 .. L
    BY <1>0
  <2> HIDE DEF S
  <2> QED BY Zenon, <1>0, <1>2, <1>3, <2>1, Interval
<1> QED BY Zenon, <1>1, <1>4, <1>5

(* A candidate is a coinbase and payments.                                   *)
LEMMA CandidateType ==
  ASSUME NEW block \in Candidates
  PROVE  block \in Seq(Txs) /\ Len(block) >= 1 /\ block[1] \in CoinBases
<1>1. PICK cb \in CoinBases, s \in Seq(Payments) : block = <<cb>> \o s
  <2>1. PICK cb \in CoinBases \ TxsIn(chain), s \in PaymentLists : block = <<cb>> \o s
    BY Zenon DEF Candidates
  <2>2. PICK n \in 0 .. MaxBlockTxs : s \in [1 .. n -> Payments]
    BY Zenon DEF PaymentLists
  <2>3. s \in Seq(Payments)
    BY <2>2
  <2> QED BY Zenon, <2>1, <2>3
<1>2. s \in Seq(Txs) /\ <<cb>> \in Seq(Txs)
  BY DEF Txs
<1> QED BY <1>1, <1>2

(* ConnectBlock keeps the chain grounded.                                    *)
LEMMA ConnectGrounds ==
  ASSUME chain \in Chains, Grounded(chain), NEW block \in Candidates, Connectable(block)
  PROVE  Grounded(Append(chain, block))
<1> DEFINE d == Append(chain, block)
           n == Len(chain)
<1>1. block \in Seq(Txs) /\ Len(block) >= 1 /\ block[1] \in CoinBases
  BY Zenon, CandidateType
<1>2. n \in Nat /\ DOMAIN chain = 1 .. n /\ DOMAIN d = 1 .. n + 1
  BY DEF Chains
<1>3. d[n + 1] = block /\ \A i \in 1 .. n : d[i] = chain[i]
  BY DEF Chains
<1> HIDE DEF d, n
<1>4. ASSUME NEW i \in DOMAIN d, NEW t \in Range(d[i]), NEW p \in Range(Prevouts[t])
      PROVE  \E j \in 1 .. i : p[1] \in Range(d[j])
  <2>1. CASE i \in 1 .. n
    <3>1. PICK j \in 1 .. i : p[1] \in Range(chain[j])
      BY <1>2, <1>3, <2>1 DEF Grounded
    <3>2. j \in 1 .. n
      BY <1>2, <2>1
    <3> QED BY <1>3, <3>1, <3>2
  <2>2. CASE i = n + 1
    <3>1. PICK k \in 1 .. Len(block) : t = block[k]
      BY <1>1, <1>3, <2>2 DEF Range
    <3>2. k # 1
      BY <1>1, <3>1, Inputs
    <3> DEFINE b == SubSeq(block, 1, k - 1)
               c == Append(chain, b)
    <3>3. k \in 2 .. Len(block)
      BY <1>1, <3>2
    <3>4. b \in Seq(Txs) /\ Range(b) \subseteq Range(block)
      BY <1>1, <3>3 DEF Range
    <3>5. p \in Unspent(c)
      BY Zenon, <3>1, <3>3 DEF Connectable
    <3> HIDE DEF b
    <3>6. c \in Chains /\ TxsIn(c) = TxsIn(chain) \cup Range(b)
      BY Zenon, <3>4, ChainAppend
    <3> HIDE DEF c
    <3>7. p \in Txs \X Nat
      BY <1>1, <3>1, Inputs
    <3>8. p[1] \in TxsIn(chain) \cup Range(block)
      BY <3>4, <3>5, <3>6, <3>7, ChainCoins
    <3>9. CASE p[1] \in Range(block)
      BY <1>2, <1>3, <2>2, <3>9
    <3>10. CASE p[1] \in TxsIn(chain)
      <4>1. PICK j \in DOMAIN chain : p[1] \in Range(chain[j])
        BY Zenon, <3>10 DEF TxsIn
      <4>2. j \in 1 .. i /\ d[j] = chain[j]
        BY <1>2, <1>3, <2>2
      <4> QED BY <4>1, <4>2
    <3> QED BY <3>8, <3>9, <3>10
  <2> QED BY <1>2, <2>1, <2>2
<1> QED BY Zenon, <1>4 DEF Grounded, d

LEMMA PoolInit == Init => PoolInv
<1> SUFFICES ASSUME Init PROVE PoolInv
  OBVIOUS
<1>1. GenesisCoinBase \in CoinBases /\ GenesisCoinBase \in Txs
  BY MempoolAssumption DEF Txs
<1>2. chain = <<<<GenesisCoinBase>>>> /\ mempool = [mapTx |-> {}, mapNextTx |-> <<>>]
  BY Zenon DEF Init
<1>3. chain \in Chains /\ chain # <<>>
  BY <1>1, <1>2 DEF Chains
<1>4. Grounded(chain)
  <2>1. ASSUME NEW i \in DOMAIN chain, NEW t \in Range(chain[i]) PROVE t = GenesisCoinBase
    BY <1>2 DEF Range
  <2> QED BY <1>1, <2>1, Inputs DEF Grounded
<1>5. PoolOf(chain, mempool, {})
  <2>1. DOMAIN <<>> = {} /\ <<>> \in [{} -> Payments]
    OBVIOUS
  <2>2. <<>> \in Maps
    BY Zenon, <2>1 DEF Maps
  <2>3. mempool \in Pools /\ mempool.mapTx = {} /\ DOMAIN mempool.mapNextTx = {}
    BY <1>2, <2>2 DEF Pools
  <2> QED BY <2>3 DEF PoolOf, Indexed
<1> QED BY Zenon, <1>3, <1>4, <1>5 DEF PoolInv

(* A block joins the chain.                                                  *)
LEMMA ConnectKeeps == PoolInv /\ ConnectTip => PoolInv'
<1> SUFFICES ASSUME PoolInv, ConnectTip PROVE PoolInv'
  OBVIOUS
<1>1. PICK block \in Candidates :
        /\ Connectable(block) /\ chain' = Append(chain, block)
        /\ mempool' = ConfirmedAll(mempool, block)
  BY Zenon DEF ConnectTip
<1>2. block \in Seq(Txs)
  BY Zenon, CandidateType
<1>3. /\ chain \in Chains /\ Grounded(chain) /\ mempool \in Pools /\ Indexed(mempool)
      /\ mempool.mapTx \cap TxsIn(chain) = {}
      /\ \A t \in mempool.mapTx : \A p \in Range(Prevouts[t]) :
           /\ p[2] \in Outputs[p[1]]
           /\ \/ p[1] \in mempool.mapTx \/ p \in Unspent(chain)
              \/ p[1] \in (CoinBases \cup {}) \ TxsIn(chain)
  BY Zenon DEF PoolInv, PoolOf
<1> DEFINE d == Append(chain, block)
           x == ConfirmedAll(mempool, block)
           B == Range(block)
<1>4. Grounded(d)
  BY Zenon, <1>1, <1>3, ConnectGrounds
<1>5. d \in Chains /\ d # <<>> /\ TxsIn(d) = TxsIn(chain) \cup B
  BY Zenon, <1>2, <1>3, ChainAppend
<1>6. Cleared(mempool, x, B)
  BY Zenon, <1>2, <1>3, BlockClears
<1>7. /\ x \in Pools /\ Indexed(x) /\ x.mapTx \subseteq mempool.mapTx \ B
      /\ \A u \in x.mapTx : \A p \in Range(Prevouts[u]) :
           /\ \A b \in B : p \notin Range(Prevouts[b])
           /\ p[1] \in mempool.mapTx => p[1] \in x.mapTx \cup B
  BY Zenon, <1>6 DEF Cleared
<1> HIDE DEF d, x, B
<1>8. x.mapTx \cap TxsIn(d) = {}
  BY <1>3, <1>5, <1>7
<1>9. ASSUME NEW t \in x.mapTx, NEW p \in Range(Prevouts[t])
      PROVE  /\ p[2] \in Outputs[p[1]]
             /\ p[1] \in x.mapTx \/ p \in Unspent(d) \/ p[1] \in (CoinBases \cup {}) \ TxsIn(d)
  <2>1. t \in mempool.mapTx /\ t \in Txs
    BY <1>3, <1>7, PoolType DEF Txs
  <2>2. p \in Txs \X Nat /\ p[2] \in Outputs[p[1]]
    BY <1>3, <2>1, Inputs
  <2>3. ASSUME p \notin SpentIn(chain), p[1] \in TxsIn(d) PROVE p \in Unspent(d)
    <3>1. p \notin SpentIn(d)
      BY <1>3, <1>5, <1>7, <2>3, ChainCoins
    <3> QED BY <1>5, <2>2, <2>3, <3>1, ChainCoins
  <2>4. ASSUME p[1] \notin TxsIn(chain) PROVE p \notin SpentIn(chain)
    BY <1>3, <2>4, ChainCoins
  <2>5. CASE p[1] \in mempool.mapTx
    <3>1. p[1] \notin TxsIn(chain) /\ p[1] \in x.mapTx \cup B
      BY <1>3, <1>7, <2>5
    <3> QED BY <1>5, <2>2, <2>3, <2>4, <3>1
  <2>6. CASE p \in Unspent(chain)
    <3>1. p[1] \in TxsIn(chain) /\ p \notin SpentIn(chain)
      BY <1>3, <2>2, <2>6, ChainCoins
    <3> QED BY <1>5, <2>2, <2>3, <3>1
  <2>7. CASE p[1] \in (CoinBases \cup {}) \ TxsIn(chain)
    BY <2>2, <2>3, <2>4, <2>7
  <2> QED BY <1>3, <2>1, <2>5, <2>6, <2>7
<1>10. PoolOf(d, x, {})
  BY Zenon, <1>7, <1>8, <1>9 DEF PoolOf
<1>11. chain' = d /\ mempool' = x
  BY Zenon, <1>1 DEF d, x
<1>12. chain' \in Chains /\ chain' # <<>> /\ Grounded(chain') /\ PoolOf(chain', mempool', {})
  BY Zenon, <1>4, <1>5, <1>10, <1>11
<1> QED BY Zenon, <1>12 DEF PoolInv, Grounded, PoolOf, Unspent, SpentIn, TxsIn, Indexed, Chains

(* A block leaves the chain.                                                 *)
LEMMA DisconnectTipKeeps == PoolInv /\ DisconnectTip => PoolInv'
<1> SUFFICES ASSUME PoolInv, DisconnectTip PROVE PoolInv'
  OBVIOUS
<1> DEFINE c == Below(chain)
           block == Tip(chain)
           x == ResurrectAll(c, mempool, block)
<1>1. Len(chain) > 1 /\ chain' = c /\ mempool' = x
  BY Zenon DEF DisconnectTip
<1>2. /\ chain \in Chains /\ Grounded(chain) /\ mempool \in Pools /\ Indexed(mempool)
      /\ mempool.mapTx \cap TxsIn(chain) = {}
      /\ \A t \in mempool.mapTx : \A p \in Range(Prevouts[t]) :
           /\ p[2] \in Outputs[p[1]]
           /\ \/ p[1] \in mempool.mapTx \/ p \in Unspent(chain)
              \/ p[1] \in (CoinBases \cup {}) \ TxsIn(chain)
  BY Zenon DEF PoolInv, PoolOf
<1>3. /\ c \in Chains /\ c # <<>> /\ block \in Seq(Txs)
      /\ TxsIn(chain) = TxsIn(c) \cup Range(block) /\ Grounded(c)
  BY Zenon, <1>1, <1>2, ChainFront
<1> HIDE DEF c, block
<1>4. mempool.mapTx \cap TxsIn(c) = {}
  BY <1>2, <1>3
<1>5. ASSUME NEW t \in mempool.mapTx, NEW p \in Range(Prevouts[t])
      PROVE  /\ p[2] \in Outputs[p[1]]
             /\ \/ p[1] \in mempool.mapTx \/ p \in Unspent(c)
                \/ p[1] \in (CoinBases \cup Range(block)) \ TxsIn(c)
  <2>1. t \in Txs
    BY <1>2, PoolType DEF Txs
  <2>2. p \in Txs \X Nat /\ p[2] \in Outputs[p[1]]
    BY <1>2, <2>1, Inputs
  <2>3. CASE p \in Unspent(chain)
    <3>1. p[1] \in TxsIn(c) \cup Range(block) /\ p \notin SpentIn(chain)
      BY <1>2, <1>3, <2>2, <2>3, ChainCoins
    <3>2. p \notin SpentIn(c)
      BY <1>2, <1>3, <3>1, ChainCoins
    <3>3. p[1] \in TxsIn(c) => p \in Unspent(c)
      BY <1>3, <2>2, <3>2, ChainCoins
    <3> QED BY <2>2, <3>1, <3>3
  <2>4. CASE p[1] \in mempool.mapTx
    BY <2>2, <2>4
  <2>5. CASE p[1] \in (CoinBases \cup {}) \ TxsIn(chain)
    BY <1>3, <2>2, <2>5
  <2> QED BY Zenon, <1>2, <2>3, <2>4, <2>5
<1>6. PoolOf(c, mempool, Range(block))
  BY Zenon, <1>2, <1>4, <1>5 DEF PoolOf
<1>7. PoolOf(c, x, {})
  BY Zenon, <1>3, <1>6, DisconnectKeeps
<1> HIDE DEF x
<1>8. chain' \in Chains /\ chain' # <<>> /\ Grounded(chain') /\ PoolOf(chain', mempool', {})
  BY Zenon, <1>1, <1>3, <1>7
<1> QED BY Zenon, <1>8 DEF PoolInv, Grounded, PoolOf, Unspent, SpentIn, TxsIn, Indexed, Chains

(* A transaction joins the pool.                                             *)
LEMMA AddKeepsPool ==
  ASSUME PoolInv, NEW t \in Payments, NEW fLimitFree \in BOOLEAN,
         "accepted" \in AcceptToMemoryPool(chain, mempool, t, fLimitFree),
         chain' = chain, mempool' = addUnchecked(mempool, t)
  PROVE  PoolInv'
<1> DEFINE x == addUnchecked(mempool, t)
<1>1. /\ chain \in Chains /\ chain # <<>> /\ Grounded(chain)
      /\ PoolOf(chain, mempool, {})
  BY Zenon DEF PoolInv
<1>2. PoolOf(chain, x, {} \ {t})
  BY Zenon, <1>1, AcceptKeeps
<1>3. {} \ {t} = {}
  OBVIOUS
<1> HIDE DEF x
<1>4. PoolOf(chain, x, {})
  BY Zenon, <1>2, <1>3
<1>5. mempool' = x
  BY DEF x
<1>6. chain' \in Chains /\ chain' # <<>> /\ Grounded(chain') /\ PoolOf(chain', mempool', {})
  BY Zenon, <1>1, <1>4, <1>5
<1> QED BY Zenon, <1>6 DEF PoolInv, Grounded, PoolOf, Unspent, SpentIn, TxsIn, Indexed, Chains

LEMMA PoolStep == PoolInv /\ [Next]_vars => PoolInv'
<1> SUFFICES ASSUME PoolInv, [Next]_vars PROVE PoolInv'
  OBVIOUS
<1>1. CASE UNCHANGED <<chain, mempool>>
  <2>1. chain' = chain /\ mempool' = mempool
    BY <1>1
  <2>2. chain' \in Chains /\ chain' # <<>> /\ Grounded(chain') /\ PoolOf(chain', mempool', {})
    BY Zenon, <2>1 DEF PoolInv
  <2> QED BY Zenon, <2>2 DEF PoolInv, Grounded, PoolOf, Unspent, SpentIn, TxsIn, Indexed, Chains
<1>2. ASSUME NEW t \in Payments, TxAccepted(t) PROVE PoolInv'
  <2>1. TRUE \in BOOLEAN
    OBVIOUS
  <2> QED BY Zenon, <1>2, <2>1, AddKeepsPool DEF TxAccepted
<1>3. ASSUME NEW t \in Payments, LocalTx(t) PROVE PoolInv'
  <2>1. FALSE \in BOOLEAN
    OBVIOUS
  <2> QED BY Zenon, <1>3, <2>1, AddKeepsPool DEF LocalTx
<1>4. ASSUME NEW t \in Payments, TryOrphan(t) PROVE PoolInv'
  <2>0. TRUE \in BOOLEAN
    OBVIOUS
  <2>1. \/ UNCHANGED <<chain, mempool>>
        \/ /\ "accepted" \in AcceptToMemoryPool(chain, mempool, t, TRUE)
           /\ chain' = chain /\ mempool' = addUnchecked(mempool, t)
    BY Zenon, <1>4 DEF TryOrphan
  <2> QED BY Zenon, <1>1, <2>0, <2>1, AddKeepsPool
<1>5. CASE ConnectTip
  BY Zenon, <1>5, ConnectKeeps
<1>6. CASE DisconnectTip
  BY Zenon, <1>6, DisconnectTipKeeps
<1>7. CASE NextWork
  BY Zenon, <1>1, <1>7 DEF NextWork
<1>8. ASSUME NEW t \in Payments, NEW peer \in Peers, TxMissingInputs(t, peer) PROVE PoolInv'
  BY Zenon, <1>1, <1>8 DEF TxMissingInputs
<1>9. ASSUME NEW peer \in Peers, EraseOrphansFor(peer) PROVE PoolInv'
  BY Zenon, <1>1, <1>9 DEF EraseOrphansFor
<1>10. CASE UNCHANGED vars
  BY Zenon, <1>1, <1>10 DEF vars
<1> QED
  BY Zenon, <1>2, <1>3, <1>4, <1>5, <1>6, <1>7, <1>8, <1>9, <1>10 DEF Next

(* What the invariant says of the pool, its index and the chain.             *)
LEMMA PoolMeans == PoolInv => SpendsIndexed /\ InputsAvailable /\ NoneConfirmed
<1> SUFFICES ASSUME PoolInv PROVE SpendsIndexed /\ InputsAvailable /\ NoneConfirmed
  OBVIOUS
<1>1. /\ mempool \in Pools /\ Indexed(mempool) /\ mempool.mapTx \cap TxsIn(chain) = {}
      /\ \A t \in mempool.mapTx : \A p \in Range(Prevouts[t]) :
           /\ p[2] \in Outputs[p[1]]
           /\ \/ p[1] \in mempool.mapTx \/ p \in Unspent(chain)
              \/ p[1] \in (CoinBases \cup {}) \ TxsIn(chain)
  BY Zenon DEF PoolInv, PoolOf
<1>2. SpendsIndexed
  BY Zenon, <1>1 DEF SpendsIndexed, Indexed
<1>3. NoneConfirmed
  BY Zenon, <1>1 DEF NoneConfirmed
<1>4. ASSUME NEW t \in mempool.mapTx, NEW p \in Range(Prevouts[t])
      PROVE  Refers(p) \/ p[1] \in CoinBases \ TxsIn(chain)
  BY <1>1 DEF Refers
<1> QED BY Zenon, <1>2, <1>3, <1>4 DEF InputsAvailable

(* CTxMemPool's two maps stay in step through addUnchecked, remove and       *)
(* removeConflicts, whatever blocks come and go: mapNextTx is the inputs of  *)
(* the pool, so no two of its transactions spend the same output.            *)
THEOREM SpendsStayIndexed == Spec => []SpendsIndexed
BY PoolInit, PoolStep, PoolMeans, PTL DEF Spec

(* Through ConnectTip and DisconnectTip, what the pool spends is in the pool *)
(* or unspent in the chain, but for coinbases that a reorganisation took.    *)
THEOREM InputsStayAvailable == Spec => []InputsAvailable
BY PoolInit, PoolStep, PoolMeans, PTL DEF Spec

(* Nothing in the pool is in the chain: ConnectTip removes what it confirms, *)
(* and AcceptToMemoryPool never takes back what the chain has, even when it  *)
(* is fully spent and its coins are gone.                                    *)
THEOREM NeverConfirmed == Spec => []NoneConfirmed
BY PoolInit, PoolStep, PoolMeans, PTL DEF Spec

-----------------------------------------------------------------------------
(* What leaves the pool with a block *)

(* A set with t and with all of the pool that spends a member has all that   *)
(* remove(t, removed, true) takes.                                           *)
LEMMA DescendantsWithin ==
  ASSUME NEW y \in Pools, Indexed(y), NEW t, NEW D, t \in D,
         \A u \in y.mapTx : \A p \in Range(Prevouts[u]) : p[1] \in D => u \in D
  PROVE  Descendants(y, t) \subseteq D
<1> DEFINE S == D \cap (y.mapTx \cup {t})
<1>1. S \in SUBSET (y.mapTx \cup {t}) /\ t \in S /\ S \subseteq D
  OBVIOUS
<1>2. ASSUME NEW u \in Spenders(y, S) PROVE u \in S
  <2>1. PICK p \in DOMAIN y.mapNextTx : p[1] \in S /\ u = y.mapNextTx[p]
    BY DEF Spenders
  <2>2. u \in y.mapTx /\ p \in Range(Prevouts[u])
    BY Zenon, <2>1 DEF Indexed
  <2> QED BY <2>1, <2>2
<1> HIDE DEF S
<1>3. ASSUME NEW u \in Descendants(y, t) PROVE u \in S
  BY Zenon, <1>1, <1>2 DEF Descendants
<1> QED BY <1>1, <1>3

(* So a pool with less removes less.                                         *)
LEMMA FewerDescendants ==
  ASSUME NEW x \in Pools, Indexed(x), NEW y \in Pools, Indexed(y),
         y.mapTx \subseteq x.mapTx, NEW t
  PROVE  Descendants(y, t) \subseteq Descendants(x, t)
<1> DEFINE D == Descendants(x, t)
<1>1. t \in D /\ \A u \in x.mapTx : \A p \in Range(Prevouts[u]) : p[1] \in D => u \in D
  BY Zenon, Closed
<1> HIDE DEF D
<1>2. Descendants(y, t) \subseteq D
  BY Zenon, <1>1, DescendantsWithin
<1> QED BY Zenon, <1>2 DEF D

(* What has left the pool x0 on the way to x is one of the block's           *)
(* transactions B, or spends one of the pool that contradicts one of B.      *)
Explained(x0, x, B) ==
  \A t \in x0.mapTx \ x.mapTx :
    \/ t \in B
    \/ \E u \in x0.mapTx, b \in B :
         /\ u # b /\ t \in Descendants(x0, u)
         /\ \E p \in Range(Prevouts[u]) : p \in Range(Prevouts[b])

(* One transaction of the block.                                             *)
LEMMA ConfirmedExplains ==
  ASSUME NEW x0 \in Pools, Indexed(x0), NEW x, NEW B, Cleared(x0, x, B),
         Explained(x0, x, B), NEW t \in Txs
  PROVE  Explained(x0, Confirmed(x, t), B \cup {t})
<1> DEFINE y == remove(x, t)
           K == {y.mapNextTx[p] : p \in Range(Prevouts[t]) \cap DOMAIN y.mapNextTx} \ {t}
           G == UNION {Descendants(y, u) : u \in K}
           z == Confirmed(x, t)
<1>0. x \in Pools /\ Indexed(x) /\ x.mapTx \subseteq x0.mapTx
  BY DEF Cleared
<1>1. y \in Pools /\ y.mapTx = x.mapTx \ {t} /\ Indexed(y)
  BY Zenon, <1>0, RemoveAll DEF remove
<1>2. z = removeAll(y, G)
  BY Zenon DEF Confirmed, removeConflicts
<1> HIDE DEF y
<1>3. z.mapTx = y.mapTx \ G
  <2> HIDE DEF G
  <2>1. removeAll(y, G).mapTx = y.mapTx \ G
    BY Zenon, <1>1, RemoveAll
  <2> QED BY Zenon, <1>2, <2>1
<1>4. ASSUME NEW v \in G
      PROVE  \E u \in x0.mapTx, b \in B \cup {t} :
               /\ u # b /\ v \in Descendants(x0, u)
               /\ \E p \in Range(Prevouts[u]) : p \in Range(Prevouts[b])
  <2>1. PICK u \in K : v \in Descendants(y, u)
    BY Zenon
  <2>2. PICK p \in Range(Prevouts[t]) \cap DOMAIN y.mapNextTx : u = y.mapNextTx[p] /\ u # t
    OBVIOUS
  <2> HIDE DEF K
  <2>3. u \in y.mapTx /\ p \in Range(Prevouts[u])
    BY Zenon, <1>1, <2>2 DEF Indexed
  <2>4. y.mapTx \subseteq x0.mapTx
    BY <1>0, <1>1
  <2>5. Descendants(y, u) \subseteq Descendants(x0, u)
    BY Zenon, <1>1, <2>4, FewerDescendants
  <2>6. u \in x0.mapTx /\ v \in Descendants(x0, u) /\ p \in Range(Prevouts[t]) /\ t \in B \cup {t}
    BY Zenon, <2>1, <2>2, <2>3, <2>4, <2>5
  <2> QED BY Zenon, <2>2, <2>3, <2>6
<1> HIDE DEF G, z
<1>5. ASSUME NEW v \in x0.mapTx \ z.mapTx
      PROVE  \/ v \in B \cup {t}
             \/ \E u \in x0.mapTx, b \in B \cup {t} :
                  /\ u # b /\ v \in Descendants(x0, u)
                  /\ \E p \in Range(Prevouts[u]) : p \in Range(Prevouts[b])
  <2>1. CASE v \notin x.mapTx
    <3>1. CASE v \in B
      BY <3>1
    <3>2. CASE v \notin B
      <4>1. v \in x0.mapTx \ x.mapTx
        BY <2>1
      <4>2. PICK u \in x0.mapTx, b \in B :
              /\ u # b /\ v \in Descendants(x0, u)
              /\ \E p \in Range(Prevouts[u]) : p \in Range(Prevouts[b])
        BY Zenon, <3>2, <4>1 DEF Explained
      <4>3. b \in B \cup {t}
        OBVIOUS
      <4> QED BY Zenon, <4>2, <4>3
    <3> QED BY Zenon, <3>1, <3>2
  <2>2. CASE v = t
    BY <2>2
  <2>3. CASE v \in G
    BY Zenon, <1>4, <2>3
  <2>4. v \notin x.mapTx \/ v = t \/ v \in G
    BY Zenon, <1>1, <1>3
  <2> QED BY Zenon, <2>1, <2>2, <2>3, <2>4
<1> QED BY Zenon, <1>5 DEF Explained, z

(* The whole block.                                                          *)
LEMMA BlockExplains ==
  ASSUME NEW x \in Pools, Indexed(x), NEW block \in Seq(Txs)
  PROVE  Explained(x, ConfirmedAll(x, block), Range(block))
<1> DEFINE L == Len(block)
           B(k) == {block[j] : j \in 1 .. k}
<1>0. L \in Nat /\ (\A i \in 1 .. L : block[i] \in Txs)
  OBVIOUS
<1>1. PICK g \in [0 .. L -> Pools] :
        /\ g[0] = x /\ ConfirmedAll(x, block) = g[L]
        /\ \A i \in 1 .. L : g[i] = Confirmed(g[i - 1], block[i])
  BY Zenon, ConfirmedStages
<1>5. B(L) = Range(block)
  BY DEF Range
<1> HIDE DEF L
<1> DEFINE S == {k \in 0 .. L : Cleared(x, g[k], B(k)) /\ Explained(x, g[k], B(k))}
<1>2. 0 \in S
  <2>1. B(0) = {}
    OBVIOUS
  <2>2. 0 \in 0 .. L
    BY <1>0
  <2>3. Cleared(x, x, {}) /\ Explained(x, x, {})
    BY DEF Cleared, Explained
  <2> QED BY Zenon, <1>1, <2>1, <2>2, <2>3
<1>3. ASSUME NEW k \in 0 .. L - 1, k \in S PROVE k + 1 \in S
  <2>1. k + 1 \in 1 .. L /\ k + 1 \in 0 .. L /\ (k + 1) - 1 = k
    BY <1>0
  <2>2. g[k + 1] = Confirmed(g[k], block[k + 1])
    BY <1>1, <2>1
  <2>3. /\ Cleared(x, g[k + 1], B(k) \cup {block[k + 1]})
        /\ Explained(x, g[k + 1], B(k) \cup {block[k + 1]})
    <3>1. Cleared(x, g[k], B(k)) /\ Explained(x, g[k], B(k)) /\ block[k + 1] \in Txs
      BY Zenon, <1>0, <1>3, <2>1
    <3> HIDE DEF B
    <3>2. Cleared(x, Confirmed(g[k], block[k + 1]), B(k) \cup {block[k + 1]})
      BY Zenon, <3>1, ConfirmedClears
    <3>3. Explained(x, Confirmed(g[k], block[k + 1]), B(k) \cup {block[k + 1]})
      BY Zenon, <3>1, ConfirmedExplains
    <3> QED BY Zenon, <2>2, <3>2, <3>3
  <2>4. B(k) \cup {block[k + 1]} = B((k + 1))
    BY <1>0
  <2> QED BY Zenon, <2>1, <2>3, <2>4
<1>4. L \in S
  <2>1. L \in 0 .. L
    BY <1>0
  <2> HIDE DEF S
  <2> QED BY Zenon, <1>0, <1>2, <1>3, <2>1, Interval
<1> QED BY Zenon, <1>1, <1>4, <1>5
-----------------------------------------------------------------------------
(* What returns to the pool *)

(* What ConnectBlock found when the block came on top of the chain c, where  *)
(* bad are the transactions that fail its script checks.                     *)
Fits(bad, c, block) ==
  /\ block \in Seq(Txs) /\ Len(block) >= 1 /\ block[1] \in CoinBases \ TxsIn(c)
  /\ \A i \in 2 .. Len(block) :
       /\ block[i] \in Payments /\ block[i] \notin bad
       /\ \A p \in Range(Prevouts[block[i]]) :
            p \in Unspent(Append(c, SubSeq(block, 1, i - 1))) /\ Mature(c, p[1])

(* The transactions of the block are new, differ, and spend different        *)
(* outputs, each of the chain or of a payment before it in the block.        *)
InOrder(c, block) ==
  /\ \A i \in 1 .. Len(block) : block[i] \notin TxsIn(c)
  /\ \A i \in 1 .. Len(block) : \A j \in 1 .. i - 1 :
       block[i] # block[j] /\ \A p \in Range(Prevouts[block[i]]) : p \notin Range(Prevouts[block[j]])
  /\ \A i \in 1 .. Len(block) : \A p \in Range(Prevouts[block[i]]) :
       /\ p[2] \in Outputs[p[1]] /\ p \notin SpentIn(c)
       /\ p[1] \in TxsIn(c) \/ \E l \in 2 .. i - 1 : p[1] = block[l]

(* A block that fits is in order.                                            *)
LEMMA FitsInOrder ==
  ASSUME NEW bad, NEW c \in Chains, NEW block, Fits(bad, c, block) PROVE InOrder(c, block)
<1> DEFINE L == Len(block)
<1>0. /\ block \in Seq(Txs) /\ L \in Nat /\ L >= 1 /\ block[1] \in CoinBases /\ block[1] \notin TxsIn(c)
      /\ \A i \in 1 .. L : block[i] \in Txs
  BY DEF Fits
<1>1. \A i \in 1 .. L : i = 1 \/ i \in 2 .. L
  BY <1>0
<1>2. Range(Prevouts[block[1]]) = {}
  BY Zenon, <1>0, Inputs
<1>3. ASSUME NEW i \in 2 .. L, NEW p \in Range(Prevouts[block[i]])
      PROVE  /\ p[2] \in Outputs[p[1]] /\ p \notin SpentIn(c)
             /\ p[1] \in TxsIn(c) \/ \E l \in 2 .. i - 1 : p[1] = block[l]
             /\ \A j \in 1 .. i - 1 : p \notin Range(Prevouts[block[j]])
  <2> DEFINE b == SubSeq(block, 1, i - 1)
             d == Append(c, b)
  <2>1. p \in Unspent(d) /\ Mature(c, p[1])
    BY Zenon DEF Fits
  <2>2. b \in Seq(Txs) /\ Range(b) = {block[j] : j \in 1 .. i - 1}
    <3>1. i - 1 \in 0 .. L
      BY <1>0
    <3>2. b \in Seq(Txs) /\ DOMAIN b = 1 .. i - 1 /\ \A j \in 1 .. i - 1 : b[j] = block[j]
      BY <1>0, <3>1
    <3> HIDE DEF b
    <3> QED BY <3>2 DEF Range
  <2> HIDE DEF b
  <2>3. d \in Chains /\ TxsIn(d) = TxsIn(c) \cup Range(b)
    BY Zenon, <2>2, ChainAppend
  <2> HIDE DEF d
  <2>4. p \in Txs \X Nat
    <3>1. i \in 1 .. L
      BY <1>0
    <3>2. Range(Prevouts[block[i]]) \subseteq Txs \X Nat
      BY Zenon, <1>0, <3>1, Inputs
    <3> QED BY Zenon, <3>2
  <2>5. p[1] \in TxsIn(d) /\ p[2] \in Outputs[p[1]] /\ p \notin SpentIn(d)
    BY Zenon, <2>1, <2>3, <2>4, ChainCoins
  <2>6. \A t \in TxsIn(d) : p \notin Range(Prevouts[t])
    BY Zenon, <2>3, <2>5, ChainCoins
  <2>7. p \notin SpentIn(c)
    <3>1. \A t \in TxsIn(c) : p \notin Range(Prevouts[t])
      BY Zenon, <2>3, <2>6
    <3> QED BY Zenon, <3>1, ChainCoins
  <2>8. \A j \in 1 .. i - 1 : block[j] \in TxsIn(d)
    BY Zenon, <2>2, <2>3
  <2>9. p[1] \in TxsIn(c) \/ \E l \in 2 .. i - 1 : p[1] = block[l]
    <3>1. CASE p[1] \in TxsIn(c)
      BY <3>1
    <3>2. CASE p[1] \notin TxsIn(c)
      <4>1. PICK l \in 1 .. i - 1 : p[1] = block[l]
        BY Zenon, <2>2, <2>3, <2>5, <3>2
      <4>2. l # 1
        BY Zenon, <1>0, <2>1, <3>2, <4>1 DEF Mature
      <4>3. l \in 2 .. i - 1
        BY <1>0, <4>2
      <4> QED BY Zenon, <4>1, <4>3
    <3> QED BY Zenon, <3>1, <3>2
  <2> QED BY Zenon, <2>5, <2>6, <2>7, <2>8, <2>9
<1>4. ASSUME NEW i \in 2 .. L PROVE \E p \in Range(Prevouts[block[i]]) : TRUE
  <2>1. block[i] \in Payments
    BY Zenon DEF Fits
  <2>2. Range(Prevouts[block[i]]) # {}
    BY Zenon, <2>1, Inputs
  <2> QED BY <2>2
<1>5. ASSUME NEW i \in 1 .. L PROVE block[i] \notin TxsIn(c)
  <2>1. CASE i = 1
    BY Zenon, <1>0, <2>1
  <2>2. CASE i \in 2 .. L
    <3>1. PICK p \in Range(Prevouts[block[i]]) : TRUE
      BY Zenon, <1>4, <2>2
    <3>2. p \notin SpentIn(c)
      BY Zenon, <1>3, <2>2
    <3> QED BY Zenon, <3>2, ChainCoins
  <2> QED BY Zenon, <1>1, <2>1, <2>2
<1>6. ASSUME NEW i \in 1 .. L, NEW j \in 1 .. i - 1
      PROVE  block[i] # block[j] /\ \A p \in Range(Prevouts[block[i]]) : p \notin Range(Prevouts[block[j]])
  <2>1. i \in 2 .. L
    BY <1>0
  <2>2. PICK p \in Range(Prevouts[block[i]]) : TRUE
    BY Zenon, <1>4, <2>1
  <2> QED BY Zenon, <1>3, <2>1, <2>2
<1>7. ASSUME NEW i \in 1 .. L, NEW p \in Range(Prevouts[block[i]])
      PROVE  /\ p[2] \in Outputs[p[1]] /\ p \notin SpentIn(c)
             /\ p[1] \in TxsIn(c) \/ \E l \in 2 .. i - 1 : p[1] = block[l]
  <2>1. i \in 2 .. L
    BY Zenon, <1>1, <1>2
  <2> QED BY Zenon, <1>3, <2>1
<1> QED BY Zenon, <1>5, <1>6, <1>7 DEF InOrder

(* The block is about to leave the chain, of which c remains: the pool x has *)
(* nothing of the chain and spends nothing that the block spends.            *)
Before(c, x, block) ==
  /\ c \in Chains /\ Fits(policy.Invalid, c, block) /\ InOrder(c, block)
  /\ x \in Pools /\ Indexed(x)
  /\ \A u \in x.mapTx : u \notin TxsIn(c)
  /\ \A u \in x.mapTx : \A i \in 1 .. Len(block) :
       u # block[i] /\ \A p \in Range(Prevouts[u]) : p \notin Range(Prevouts[block[i]])

(* After k transactions of the block the pool x0 has become x: those without *)
(* a nonstandard ancestor have come back, and what has left spends one with. *)
Returned(x0, x, block, k) ==
  /\ x \in Pools /\ Indexed(x)
  /\ \A u \in x.mapTx : u \in x0.mapTx \/ \E j \in 1 .. k : u = block[j]
  /\ \A j \in 1 .. k : block[j] \in Payments /\ ~HasNonstandardAncestor(block[j]) => block[j] \in x.mapTx
  /\ \A t \in x0.mapTx \ x.mapTx : \E j \in 1 .. k :
       /\ block[j] \in Payments /\ HasNonstandardAncestor(block[j])
       /\ t \in Descendants(x0, block[j])

(* What is removed with a transaction that cannot come back was in the pool  *)
(* before the block left: nothing that came back spends it.                  *)
LEMMA RefusedTakes ==
  ASSUME NEW c, NEW x0, NEW x, NEW block, NEW k \in Nat, k + 1 \in 1 .. Len(block),
         Before(c, x0, block), Returned(x0, x, block, k)
  PROVE  Descendants(x, block[k + 1]) \subseteq Descendants(x0, block[k + 1])
<1> DEFINE t == block[k + 1]
           D == Descendants(x0, t)
<1>0. x0 \in Pools /\ Indexed(x0) /\ x \in Pools /\ Indexed(x) /\ InOrder(c, block)
  BY Zenon DEF Before, Returned
<1>1. t \in D /\ \A u \in x0.mapTx : \A p \in Range(Prevouts[u]) : p[1] \in D => u \in D
  BY Zenon, <1>0, Closed
<1>2. D \subseteq x0.mapTx \cup {t}
  BY Zenon DEF Descendants
<1>3. Len(block) \in Nat /\ \A j \in 1 .. k : j \in 1 .. Len(block) /\ j \in 1 .. (k + 1) - 1
  <2>1. block \in Seq(Txs)
    BY Zenon DEF Before, Fits
  <2>2. Len(block) \in Nat
    BY <2>1
  <2> QED BY <2>2
<1> HIDE DEF D
<1>4. ASSUME NEW u \in x.mapTx, NEW p \in Range(Prevouts[u]), p[1] \in D PROVE u \in D
  <2>1. CASE u \in x0.mapTx
    BY Zenon, <1>1, <1>4, <2>1
  <2>2. ASSUME NEW j \in 1 .. k, u = block[j] PROVE FALSE
    <3>0. j \in 1 .. Len(block)
      BY Zenon, <1>3
    <3>1. p[1] \in TxsIn(c) \/ \E l \in 2 .. j - 1 : p[1] = block[l]
      BY Zenon, <1>0, <2>2, <3>0 DEF InOrder
    <3>2. \A l \in 2 .. j - 1 : l \in 1 .. k /\ l \in 1 .. Len(block)
      BY <1>3
    <3>3. p[1] \notin x0.mapTx
      BY Zenon, <3>1, <3>2 DEF Before
    <3>4. p[1] = t
      BY Zenon, <1>2, <1>4, <3>3
    <3>5. t \notin TxsIn(c) /\ \A l \in 1 .. k : t # block[l]
      BY Zenon, <1>0, <1>3 DEF InOrder
    <3> QED BY Zenon, <3>1, <3>2, <3>4, <3>5
  <2> QED BY Zenon, <2>1, <2>2 DEF Returned
<1>5. t \in D /\ \A u \in x.mapTx : \A p \in Range(Prevouts[u]) : p[1] \in D => u \in D
  BY Zenon, <1>1, <1>4
<1> HIDE DEF t
<1>6. Descendants(x, t) \subseteq D
  BY Zenon, <1>0, <1>5, DescendantsWithin
<1> QED BY Zenon, <1>6 DEF D, t

(* A parent's nonstandard ancestor is one.                                   *)
LEMMA AncestorOfParent ==
  ASSUME NEW t, NEW u \in PrevHashes(t), HasNonstandardAncestor(u)
  PROVE  HasNonstandardAncestor(t)
<1>1. PICK w \in policy.Nonstandard \cup policy.NonstandardInputs : \A S \in SUBSET Txs :
        u \in S /\ (\A v \in S : PrevHashes(v) \subseteq S) => w \in S
  BY Zenon DEF HasNonstandardAncestor
<1>2. ASSUME NEW S \in SUBSET Txs, t \in S, \A v \in S : PrevHashes(v) \subseteq S PROVE w \in S
  <2>1. u \in S
    BY <1>2
  <2> QED BY Zenon, <1>1, <1>2, <2>1
<1> QED BY Zenon, <1>2 DEF HasNonstandardAncestor

(* Only a transaction of the chain has coins in it.                          *)
LEMMA HaveCoinsIn ==
  ASSUME NEW c \in Chains, NEW t, HaveCoins(c, t) PROVE t \in TxsIn(c)
BY DEF HaveCoins, Unspent

(* AcceptToMemoryPool takes a transaction of the block back unless it has a  *)
(* nonstandard ancestor.                                                     *)
LEMMA AcceptedAgain ==
  ASSUME NEW c, NEW x0, NEW x, NEW block, NEW k \in Nat, k + 1 \in 1 .. Len(block),
         Before(c, x0, block), Returned(x0, x, block, k),
         block[k + 1] \in Payments, ~HasNonstandardAncestor(block[k + 1])
  PROVE  "accepted" \in AcceptToMemoryPool(c, x, block[k + 1], FALSE)
<1> DEFINE t == block[k + 1]
<1>0. /\ c \in Chains /\ Fits(policy.Invalid, c, block) /\ InOrder(c, block)
      /\ x \in Pools /\ Indexed(x)
  BY Zenon DEF Before, Returned
<1>1. /\ Len(block) \in Nat /\ \A j \in 1 .. k : j \in 1 .. Len(block) /\ j \in 1 .. (k + 1) - 1
      /\ (k + 1) - 1 = k
  BY DEF Before, Fits
<1>a. t \notin CoinBases
  BY MempoolAssumption
<1>b. Len(block) \in Nat
  BY Zenon, <1>1
<1>2. k + 1 \in 2 .. Len(block)
  <2>1. k + 1 # 1
    BY Zenon, <1>0, <1>a DEF Fits
  <2> QED BY <2>1, <1>1
<1>3. t \notin policy.Invalid /\ \A p \in Range(Prevouts[t]) : Mature(c, p[1])
  BY Zenon, <1>0, <1>2 DEF Fits
<1>4. t \notin policy.Nonstandard \cup policy.NonstandardInputs
  BY Zenon DEF HasNonstandardAncestor
<1>5. /\ t \notin TxsIn(c)
      /\ \A j \in 1 .. k : t # block[j] /\ \A p \in Range(Prevouts[t]) : p \notin Range(Prevouts[block[j]])
  BY Zenon, <1>0, <1>1 DEF InOrder
<1>6. ASSUME NEW p \in Range(Prevouts[t])
      PROVE  /\ p \in Txs \X Nat /\ p[2] \in Outputs[p[1]] /\ p \notin SpentIn(c)
             /\ p[1] \in TxsIn(c) \/ p[1] \in x.mapTx
  <2>1. /\ p[2] \in Outputs[p[1]] /\ p \notin SpentIn(c)
        /\ p[1] \in TxsIn(c) \/ \E l \in 2 .. k : p[1] = block[l]
    BY Zenon, <1>0, <1>1 DEF InOrder
  <2>2. ASSUME NEW l \in 2 .. k, p[1] = block[l] PROVE p[1] \in x.mapTx
    <3>1. l \in 1 .. k /\ l \in 2 .. Len(block)
      BY SMTT(30), <1>b
    <3>2. block[l] \in Payments
      BY Zenon, <1>0, <3>1 DEF Fits
    <3>3. block[l] \in PrevHashes(t)
      BY Zenon, <2>2 DEF PrevHashes
    <3>4. ~HasNonstandardAncestor(block[l])
      BY Zenon, <3>3, AncestorOfParent
    <3> QED BY Zenon, <2>2, <3>1, <3>2, <3>4 DEF Returned
  <2>3. t \in Txs
    BY DEF Txs
  <2>4. p \in Txs \X Nat
    BY Zenon, <2>3, Inputs
  <2> QED BY Zenon, <2>1, <2>2, <2>4
<1>7. ~Conflicts(x, t)
  <2> SUFFICES ASSUME NEW p \in Range(Prevouts[t]), p \in DOMAIN x.mapNextTx PROVE FALSE
    BY Zenon DEF Conflicts
  <2>1. x.mapNextTx[p] \in x.mapTx /\ p \in Range(Prevouts[x.mapNextTx[p]])
    BY Zenon, <1>0 DEF Indexed
  <2>2. x.mapNextTx[p] \in x0.mapTx \/ \E j \in 1 .. k : x.mapNextTx[p] = block[j]
    BY Zenon, <2>1 DEF Returned
  <2> QED BY Zenon, <1>5, <2>1, <2>2 DEF Before
<1>8. ~KnownCoins(c, x, t)
  <2>1. t \notin x.mapTx
    BY Zenon, <1>5 DEF Before, Returned
  <2>2. ~HaveCoins(c, t)
    BY Zenon, <1>5, HaveCoinsIn, <1>0
  <2> QED BY Zenon, <2>1, <2>2 DEF KnownCoins
<1>9. ASSUME NEW p \in Range(Prevouts[t]) PROVE KnownCoins(c, x, p[1]) /\ HaveOutput(c, x, p)
  <2>1. CASE p[1] \in TxsIn(c)
    <3>1. p \in Unspent(c)
      BY Zenon, <1>0, <1>6, <2>1, ChainCoins
    <3>2. HaveCoins(c, p[1])
      BY Zenon, <3>1 DEF HaveCoins
    <3> QED BY Zenon, <3>1, <3>2 DEF KnownCoins, HaveOutput
  <2>2. CASE p[1] \notin TxsIn(c)
    <3>1. ~HaveCoins(c, p[1])
      BY Zenon, <1>0, <2>2, HaveCoinsIn
    <3> QED BY Zenon, <1>6, <2>2, <3>1 DEF KnownCoins, HaveOutput
  <2> QED BY Zenon, <2>1, <2>2
<1>10. HaveInputs(c, x, t) /\ CheckInputs(c, t)
  BY Zenon, <1>3, <1>9 DEF HaveInputs, CheckInputs
<1> HIDE DEF t
<1>11. "accepted" \in AcceptToMemoryPool(c, x, t, FALSE)
  BY ZenonT(30), <1>a, <1>4, <1>7, <1>8, <1>9, <1>10 DEF AcceptToMemoryPool
<1> QED BY Zenon, <1>11 DEF t

(* One transaction of the block.                                             *)
LEMMA ResurrectReturns ==
  ASSUME NEW c, NEW x0, NEW x, NEW block, NEW k \in Nat, k + 1 \in 1 .. Len(block),
         Before(c, x0, block), Returned(x0, x, block, k)
  PROVE  Returned(x0, Resurrect(c, x, block[k + 1]), block, k + 1)
<1> DEFINE t == block[k + 1]
           y == Resurrect(c, x, t)
<1>0. /\ x \in Pools /\ Indexed(x) /\ x0 \in Pools /\ InOrder(c, block) /\ t \in Txs
      /\ \A u \in x.mapTx : u \in x0.mapTx \/ \E j \in 1 .. k : u = block[j]
  <2>1. block \in Seq(Txs)
    BY Zenon DEF Before, Fits
  <2>2. t \in Txs
    BY <2>1
  <2> QED BY Zenon, <2>2 DEF Before, Returned
<1>1. \A j \in 1 .. k + 1 : j \in 1 .. k \/ j = k + 1
  OBVIOUS
<1>2. (\A j \in 1 .. k : j \in 1 .. k + 1) /\ k + 1 \in 1 .. k + 1
  OBVIOUS
<1>3. CASE t \in CoinBases
  <2>1. y = x /\ t \notin Payments
    BY Zenon, <1>3, MempoolAssumption DEF Resurrect
  <2> QED BY Zenon, <1>1, <1>2, <2>1 DEF Returned
<1>4. CASE t \notin CoinBases /\ "accepted" \in AcceptToMemoryPool(c, x, t, FALSE)
  <2>1. y = addUnchecked(x, t) /\ t \in Payments
    BY Zenon, <1>0, <1>4 DEF Resurrect, Txs
  <2>2. ~Conflicts(x, t)
    BY <1>4 DEF AcceptToMemoryPool
  <2> HIDE DEF t
  <2>a. /\ addUnchecked(x, t) \in Pools /\ addUnchecked(x, t).mapTx = x.mapTx \cup {t}
        /\ Indexed(addUnchecked(x, t))
    BY Zenon, <1>0, <2>1, <2>2, AddIndexed
  <2> USE DEF t
  <2>3. y \in Pools /\ y.mapTx = x.mapTx \cup {t} /\ Indexed(y)
    BY Zenon, <2>1, <2>a
  <2> HIDE DEF y
  <2>4. ASSUME NEW u \in y.mapTx PROVE u \in x0.mapTx \/ \E j \in 1 .. k + 1 : u = block[j]
    BY Zenon, <1>0, <1>2, <2>3
  <2>5. ASSUME NEW j \in 1 .. k + 1, block[j] \in Payments, ~HasNonstandardAncestor(block[j])
        PROVE  block[j] \in y.mapTx
    BY Zenon, <1>1, <2>3, <2>5 DEF Returned
  <2>6. ASSUME NEW u \in x0.mapTx \ y.mapTx
        PROVE  \E j \in 1 .. k + 1 : /\ block[j] \in Payments /\ HasNonstandardAncestor(block[j])
                                     /\ u \in Descendants(x0, block[j])
    <3>1. u \in x0.mapTx \ x.mapTx
      BY Zenon, <2>3
    <3> QED BY Zenon, <1>2, <3>1 DEF Returned
  <2> QED BY Zenon, <2>3, <2>4, <2>5, <2>6 DEF Returned, y
<1>5. CASE t \notin CoinBases /\ "accepted" \notin AcceptToMemoryPool(c, x, t, FALSE)
  <2> DEFINE D == Descendants(x, t)
  <2>1. y = removeAll(x, D) /\ t \in Payments
    BY Zenon, <1>0, <1>5 DEF Resurrect, Txs, removeRecursive
  <2>2. HasNonstandardAncestor(t)
    BY Zenon, <1>5, <2>1, AcceptedAgain
  <2>3. D \subseteq Descendants(x0, t)
    BY Zenon, RefusedTakes
  <2>a. Descendants(x0, t) \subseteq x0.mapTx \cup {t}
    BY Zenon DEF Descendants
  <2> HIDE DEF D, y
  <2>4. y \in Pools /\ y.mapTx = x.mapTx \ D /\ Indexed(y)
    BY Zenon, <1>0, <2>1, RemoveAll
  <2>5. ASSUME NEW u \in y.mapTx PROVE u \in x0.mapTx \/ \E j \in 1 .. k + 1 : u = block[j]
    BY Zenon, <1>0, <1>2, <2>4
  <2>6. ASSUME NEW j \in 1 .. k + 1, block[j] \in Payments, ~HasNonstandardAncestor(block[j])
        PROVE  block[j] \in y.mapTx
    <3>1. j \in 1 .. k
      BY Zenon, <1>1, <2>2, <2>6
    <3>2. block[j] \in x.mapTx
      BY Zenon, <2>6, <3>1 DEF Returned
    <3>3. block[j] \notin x0.mapTx /\ block[j] # t
      <4>1. j \in 1 .. Len(block) /\ j \in 1 .. (k + 1) - 1
        <5>1. block \in Seq(Txs)
          BY Zenon DEF Before, Fits
        <5> QED BY <3>1, <5>1
      <4>2. block[j] \notin x0.mapTx
        BY Zenon, <4>1 DEF Before
      <4>3. t # block[j]
        BY Zenon, <1>0, <4>1 DEF InOrder
      <4> QED BY Zenon, <4>2, <4>3
    <3> QED BY Zenon, <2>3, <2>a, <2>4, <3>2, <3>3
  <2>7. ASSUME NEW u \in x0.mapTx \ y.mapTx
        PROVE  \E j \in 1 .. k + 1 : /\ block[j] \in Payments /\ HasNonstandardAncestor(block[j])
                                     /\ u \in Descendants(x0, block[j])
    <3>1. CASE u \notin x.mapTx
      <4>1. u \in x0.mapTx \ x.mapTx
        BY Zenon, <3>1
      <4> QED BY Zenon, <1>2, <4>1 DEF Returned
    <3>2. CASE u \in x.mapTx
      <4>1. u \in Descendants(x0, t)
        BY Zenon, <2>3, <2>4, <3>2
      <4> QED BY Zenon, <1>2, <2>1, <2>2, <4>1
    <3> QED BY Zenon, <3>1, <3>2
  <2> QED BY Zenon, <2>4, <2>5, <2>6, <2>7 DEF Returned, y
<1> QED BY Zenon, <1>3, <1>4, <1>5

(* The whole block.                                                          *)
LEMMA BlockReturns ==
  ASSUME NEW c, NEW x, NEW block, Before(c, x, block)
  PROVE  Returned(x, ResurrectAll(c, x, block), block, Len(block))
<1> DEFINE L == Len(block)
<1>0. L \in Nat /\ block \in Seq(Txs) /\ x \in Pools /\ Indexed(x)
  BY SMTT(30) DEF Before, Fits
<1>1. PICK g \in [0 .. L -> Pools] :
        /\ g[0] = x /\ ResurrectAll(c, x, block) = g[L]
        /\ \A i \in 1 .. L : g[i] = Resurrect(c, g[i - 1], block[i])
  <2>1. Staged(c, x, block)
    BY Zenon, <1>0, ResurrectStages
  <2> QED BY Zenon, <2>1 DEF Staged
<1> DEFINE S == {k \in 0 .. L : Returned(x, g[k], block, k)}
<1>2. 0 \in S
  <2>1. Returned(x, x, block, 0)
    BY <1>0 DEF Returned
  <2>2. 0 \in 0 .. L
    BY <1>0
  <2> QED BY Zenon, <1>1, <2>1, <2>2
<1>3. ASSUME NEW k \in 0 .. L - 1, k \in S PROVE k + 1 \in S
  <2>1. k \in Nat /\ k + 1 \in 1 .. Len(block) /\ k + 1 \in 0 .. L /\ (k + 1) - 1 = k
    BY <1>0
  <2>2. g[k + 1] = Resurrect(c, g[k], block[k + 1])
    BY <1>1, <2>1
  <2>3. Returned(x, g[k], block, k)
    BY Zenon, <1>3
  <2>4. Returned(x, Resurrect(c, g[k], block[k + 1]), block, k + 1)
    BY Zenon, <2>1, <2>3, ResurrectReturns
  <2> QED BY Zenon, <2>1, <2>2, <2>4
<1>4. L \in S
  <2>1. L \in 0 .. L
    BY <1>0
  <2> HIDE DEF S
  <2> QED BY Zenon, <1>0, <1>2, <1>3, <2>1, Interval
<1> QED BY Zenon, <1>1, <1>4

-----------------------------------------------------------------------------
(* Every step *)

(* Every block of the chain fits on those before it.                         *)
Fitting(bad, c) == \A k \in 2 .. Len(c) : Fits(bad, SubSeq(c, 1, k - 1), c[k])

FitInv == Fitting(policy.Invalid, chain)

(* Connecting a block that fits keeps every block fitting.                   *)
LEMMA FittingAppend ==
  ASSUME NEW bad, NEW c \in Chains, NEW block \in Seq(Txs), Fitting(bad, c), Fits(bad, c, block)
  PROVE  Fitting(bad, Append(c, block))
<1> DEFINE d == Append(c, block)
           n == Len(c)
<1>1. c \in Seq(Seq(Txs)) /\ n \in Nat /\ Len(d) = n + 1
  BY DEF Chains
<1>2. d[n + 1] = block /\ SubSeq(d, 1, n) = c
  <2>1. d[n + 1] = block
    BY <1>1
  <2>2. SubSeq(d, 1, n) = [i \in 1 .. n |-> d[i]]
    BY <1>1
  <2>3. \A i \in 1 .. n : d[i] = c[i]
    BY <1>1
  <2>4. c = [i \in 1 .. n |-> c[i]]
    BY <1>1
  <2> HIDE DEF d, n
  <2> QED BY SMTT(30), <2>1, <2>2, <2>3, <2>4
<1>3. ASSUME NEW k \in 2 .. n PROVE d[k] = c[k] /\ SubSeq(d, 1, k - 1) = SubSeq(c, 1, k - 1)
  <2>1. SubSeq(d, 1, k - 1) = [i \in 1 .. k - 1 |-> d[i]]
    BY <1>1
  <2>2. SubSeq(c, 1, k - 1) = [i \in 1 .. k - 1 |-> c[i]]
    BY <1>1
  <2>3. d[k] = c[k] /\ \A i \in 1 .. k - 1 : d[i] = c[i]
    BY <1>1
  <2> HIDE DEF d, n
  <2> QED BY SMTT(30), <2>1, <2>2, <2>3
<1> HIDE DEF d
<1>4. ASSUME NEW k \in 2 .. Len(d) PROVE Fits(bad, SubSeq(d, 1, k - 1), d[k])
  <2>1. CASE k \in 2 .. n
    BY Zenon, <1>3, <2>1 DEF Fitting
  <2>2. CASE k = n + 1
    <3>1. k - 1 = n
      BY <1>1, <2>2
    <3> QED BY Zenon, <1>2, <2>2, <3>1
  <2>3. k \in 2 .. n \/ k = n + 1
    BY <1>1
  <2> QED BY Zenon, <2>1, <2>2, <2>3
<1> QED BY Zenon, <1>4 DEF Fitting, d

(* The blocks below the tip still fit without it, and the tip fits on them.  *)
LEMMA FittingFront ==
  ASSUME NEW bad, NEW c \in Chains, Len(c) > 1, Fitting(bad, c)
  PROVE  Fitting(bad, Below(c)) /\ Fits(bad, Below(c), Tip(c))
<1> DEFINE f == Below(c)
           n == Len(c)
<1>1. c \in Seq(Seq(Txs)) /\ n \in Nat /\ n > 1 /\ n \in 2 .. n
  BY DEF Chains
<1>2. Len(f) = n - 1 /\ \A i \in 1 .. n - 1 : f[i] = c[i]
  BY <1>1 DEF Below
<1>3. Fits(bad, f, Tip(c))
  BY Zenon, <1>1 DEF Fitting, Below, Tip
<1>4. ASSUME NEW k \in 2 .. Len(f)
      PROVE  k \in 2 .. n /\ f[k] = c[k] /\ SubSeq(f, 1, k - 1) = SubSeq(c, 1, k - 1)
  <2>0. f \in Seq(Seq(Txs))
    BY <1>1 DEF Below
  <2> HIDE DEF f, n
  <2>1. SubSeq(f, 1, k - 1) = [i \in 1 .. k - 1 |-> f[i]]
    BY SMTT(30), <1>1, <1>2, <2>0
  <2>2. SubSeq(c, 1, k - 1) = [i \in 1 .. k - 1 |-> c[i]]
    BY <1>1, <1>2 DEF n
  <2>3. k \in 2 .. n /\ f[k] = c[k] /\ \A i \in 1 .. k - 1 : f[i] = c[i]
    BY <1>1, <1>2
  <2> QED BY SMTT(30), <2>1, <2>2, <2>3
<1> HIDE DEF f
<1>5. ASSUME NEW k \in 2 .. Len(f) PROVE Fits(bad, SubSeq(f, 1, k - 1), f[k])
  BY Zenon, <1>4 DEF Fitting
<1> QED BY Zenon, <1>3, <1>5 DEF Fitting, f

(* A block that ConnectTip takes fits.                                       *)
LEMMA ConnectableFits ==
  ASSUME NEW block \in Candidates, Connectable(block)
  PROVE  Fits(policy.Invalid, chain, block)
<1>1. PICK cb \in CoinBases \ TxsIn(chain), s \in PaymentLists : block = <<cb>> \o s
  BY Zenon DEF Candidates
<1>2. PICK n \in 0 .. MaxBlockTxs : s \in [1 .. n -> Payments]
  BY Zenon DEF PaymentLists
<1>3. s \in Seq(Payments)
  BY <1>2
<1>4. block[1] = cb /\ \A i \in 2 .. Len(block) : block[i] \in Payments
  BY <1>1, <1>3
<1>5. block \in Seq(Txs) /\ Len(block) >= 1
  BY Zenon, CandidateType
<1>6. \A i \in 2 .. Len(block) :
        /\ block[i] \notin policy.Invalid
        /\ \A p \in Range(Prevouts[block[i]]) :
             p \in Unspent(Append(chain, SubSeq(block, 1, i - 1))) /\ Mature(chain, p[1])
  BY Zenon DEF Connectable
<1> QED BY Zenon, <1>4, <1>5, <1>6 DEF Fits

(* The genesis block has nothing to fit on.                                  *)
LEMMA FitInit == Init => FitInv
<1> SUFFICES ASSUME Init PROVE FitInv
  OBVIOUS
<1>1. Len(chain) = 1
  BY DEF Init
<1>2. 2 .. Len(chain) = {}
  BY <1>1
<1> QED BY Zenon, <1>2 DEF FitInv, Fitting

(* Every step keeps the blocks fitting: ConnectTip checks it, policy stays.  *)
LEMMA FitStep == PoolInv /\ FitInv /\ [Next]_vars => FitInv'
<1> SUFFICES ASSUME PoolInv, FitInv, [Next]_vars PROVE FitInv'
  OBVIOUS
<1>0. policy' = policy
  BY Zenon DEF Next, vars, TxAccepted, TryOrphan, LocalTx, TxMissingInputs, EraseOrphansFor,
    NextWork, ConnectTip, DisconnectTip
<1>1. chain \in Chains /\ Fitting(policy.Invalid, chain)
  BY Zenon DEF PoolInv, FitInv
<1>p. Fitting(policy'.Invalid, chain') => FitInv'
  BY Zenon DEF FitInv
<1>2. CASE ConnectTip
  <2>1. PICK block \in Candidates : Connectable(block) /\ chain' = Append(chain, block)
    BY Zenon, <1>2 DEF ConnectTip
  <2>2. block \in Seq(Txs) /\ Fits(policy.Invalid, chain, block)
    BY Zenon, <2>1, CandidateType, ConnectableFits
  <2>3. Fitting(policy.Invalid, Append(chain, block))
    BY Zenon, <1>1, <2>2, FittingAppend
  <2> QED BY Zenon, <1>0, <1>p, <2>1, <2>3
<1>3. CASE DisconnectTip
  <2>1. Len(chain) > 1 /\ chain' = Below(chain)
    BY Zenon, <1>3 DEF DisconnectTip
  <2>2. Fitting(policy.Invalid, Below(chain))
    BY Zenon, <1>1, <2>1, FittingFront
  <2> QED BY Zenon, <1>0, <1>p, <2>1, <2>2
<1>4. CASE chain' = chain
  BY Zenon, <1>0, <1>1, <1>4, <1>p
<1>5. ConnectTip \/ DisconnectTip \/ chain' = chain
  BY Zenon DEF Next, vars, TxAccepted, TryOrphan, LocalTx, TxMissingInputs, EraseOrphansFor, NextWork
<1> QED BY Zenon, <1>2, <1>3, <1>4, <1>5

(* The pool as the tip is disconnected.                                      *)
LEMMA BeforeDisconnect ==
  ASSUME PoolInv, FitInv, Len(chain) > 1
  PROVE  Before(Below(chain), mempool, Tip(chain))
<1> DEFINE c == Below(chain)
           block == Tip(chain)
<1>1. /\ chain \in Chains /\ Grounded(chain) /\ mempool \in Pools /\ Indexed(mempool)
      /\ mempool.mapTx \cap TxsIn(chain) = {}
      /\ \A t \in mempool.mapTx : \A p \in Range(Prevouts[t]) :
           \/ p[1] \in mempool.mapTx \/ p \in Unspent(chain)
           \/ p[1] \in (CoinBases \cup {}) \ TxsIn(chain)
  BY Zenon DEF PoolInv, PoolOf
<1>2. c \in Chains /\ block \in Seq(Txs) /\ TxsIn(chain) = TxsIn(c) \cup Range(block)
  BY Zenon, <1>1, ChainFront
<1>3. Fits(policy.Invalid, c, block)
  BY Zenon, <1>1, FittingFront DEF FitInv
<1> HIDE DEF c, block
<1>4. InOrder(c, block)
  BY Zenon, <1>2, <1>3, FitsInOrder
<1>5. \A i \in 1 .. Len(block) : block[i] \in TxsIn(chain)
  <2>1. \A i \in 1 .. Len(block) : block[i] \in Range(block)
    BY <1>2 DEF Range
  <2> QED BY <1>2, <2>1
<1>6. \A u \in mempool.mapTx : u \notin TxsIn(c)
  BY <1>1, <1>2
<1>7. ASSUME NEW u \in mempool.mapTx, NEW i \in 1 .. Len(block)
      PROVE  u # block[i] /\ \A p \in Range(Prevouts[u]) : p \notin Range(Prevouts[block[i]])
  <2>1. u # block[i]
    BY <1>1, <1>5
  <2>2. ASSUME NEW p \in Range(Prevouts[u]), p \in Range(Prevouts[block[i]]) PROVE FALSE
    <3>1. p \in SpentIn(chain)
      BY Zenon, <1>1, <1>5, <2>2, ChainCoins
    <3>2. p[1] \in TxsIn(chain)
      BY Zenon, <1>1, <3>1, ChainCoins
    <3>3. p \notin Unspent(chain)
      BY Zenon, <3>1 DEF Unspent
    <3> QED BY SMTT(30), <1>1, <3>2, <3>3
  <2> QED BY <2>1, <2>2
<1>8. Before(c, mempool, block)
  BY Zenon, <1>1, <1>2, <1>3, <1>4, <1>6, <1>7 DEF Before
<1> QED BY Zenon, <1>8 DEF c, block

(* Every other step leaves the chain, and what is in the pool, where it was. *)
LEMMA OtherSteps ==
  ASSUME PoolInv, [Next]_vars
  PROVE  ConnectTip \/ DisconnectTip \/ (chain' = chain /\ mempool.mapTx \subseteq mempool.mapTx')
<1>0. mempool \in Pools
  BY Zenon DEF PoolInv, PoolOf
<1>1. ASSUME NEW t, mempool' = addUnchecked(mempool, t) PROVE mempool.mapTx \subseteq mempool.mapTx'
  BY SMTT(30), <1>0, <1>1 DEF addUnchecked, Pools
<1>2. ASSUME mempool' = mempool PROVE mempool.mapTx \subseteq mempool.mapTx'
  BY <1>2
<1>3. \/ ConnectTip \/ DisconnectTip
      \/ chain' = chain /\ (mempool' = mempool \/ \E t \in Payments : mempool' = addUnchecked(mempool, t))
  BY Zenon DEF Next, vars, TxAccepted, TryOrphan, LocalTx, TxMissingInputs, EraseOrphansFor, NextWork
<1> QED BY Zenon, <1>1, <1>2, <1>3

(* What NothingLost says of a step.                                          *)
LEMMA LosesNothing ==
  ASSUME PoolInv, FitInv, [Next]_vars, NEW t \in Payments,
         t \in TxsIn(chain), t \notin TxsIn(chain'), ~HasNonstandardAncestor(t)
  PROVE  t \in mempool.mapTx'
<1>1. CASE ConnectTip
  <2>1. PICK block \in Candidates : chain' = Append(chain, block)
    BY Zenon, <1>1 DEF ConnectTip
  <2>2. chain \in Chains /\ block \in Seq(Txs)
    BY Zenon, CandidateType DEF PoolInv
  <2>3. TxsIn(Append(chain, block)) = TxsIn(chain) \cup Range(block)
    BY Zenon, <2>2, ChainAppend
  <2> QED BY SMTT(30), <2>1, <2>3
<1>2. CASE DisconnectTip
  <2> DEFINE c == Below(chain)
             block == Tip(chain)
  <2>1. Len(chain) > 1 /\ chain' = c /\ mempool' = ResurrectAll(c, mempool, block)
    BY Zenon, <1>2 DEF DisconnectTip
  <2>2. block \in Seq(Txs) /\ TxsIn(chain) = TxsIn(c) \cup Range(block)
    BY Zenon, <2>1, ChainFront DEF PoolInv
  <2>3. Before(c, mempool, block)
    BY Zenon, <2>1, BeforeDisconnect
  <2> HIDE DEF c, block
  <2>4. Returned(mempool, mempool', block, Len(block))
    BY Zenon, <2>1, <2>3, BlockReturns
  <2>5. t \in Range(block)
    BY SMTT(30), <2>1, <2>2
  <2>6. PICK j \in 1 .. Len(block) : t = block[j]
    BY SMTT(30), <2>2, <2>5 DEF Range
  <2> QED BY Zenon, <2>4, <2>6 DEF Returned
<1>3. CASE chain' = chain
  BY Zenon, <1>3
<1> QED BY Zenon, <1>1, <1>2, <1>3, OtherSteps

(* What LeavesForBlock says of a step.                                       *)
LEMMA LeavesForReason ==
  ASSUME PoolInv, FitInv, [Next]_vars, NEW t \in mempool.mapTx \ mempool.mapTx'
  PROVE  \/ t \in TxsIn(chain')
         \/ \E u \in Payments :
              /\ t \in Descendants(mempool, u)
              /\ \/ (Range(Prevouts[u]) \cap SpentIn(chain')) # {} /\ u \notin TxsIn(chain')
                 \/ u \in TxsIn(chain) /\ HasNonstandardAncestor(u)
<1>0. chain \in Chains /\ mempool \in Pools /\ Indexed(mempool) /\ mempool.mapTx \cap TxsIn(chain) = {}
  BY Zenon DEF PoolInv, PoolOf
<1>1. CASE ConnectTip
  <2>1. PICK block \in Candidates : /\ Connectable(block) /\ chain' = Append(chain, block)
                                    /\ mempool' = ConfirmedAll(mempool, block)
    BY Zenon, <1>1 DEF ConnectTip
  <2>2. block \in Seq(Txs) /\ Fits(policy.Invalid, chain, block)
    BY Zenon, <2>1, CandidateType, ConnectableFits
  <2>3. /\ Append(chain, block) \in Chains
        /\ TxsIn(Append(chain, block)) = TxsIn(chain) \cup Range(block)
    BY Zenon, <1>0, <2>2, ChainAppend
  <2>4. chain' \in Chains /\ TxsIn(chain') = TxsIn(chain) \cup Range(block)
    BY Zenon, <2>1, <2>3
  <2>5. InOrder(chain, block)
    BY Zenon, <1>0, <2>2, FitsInOrder
  <2>6. Explained(mempool, mempool', Range(block))
    BY Zenon, <1>0, <2>1, <2>2, BlockExplains
  <2>7. CASE t \in Range(block)
    BY SMTT(30), <2>4, <2>7
  <2>8. ASSUME NEW u \in mempool.mapTx, NEW b \in Range(block), u # b, t \in Descendants(mempool, u),
               NEW p \in Range(Prevouts[u]), p \in Range(Prevouts[b])
        PROVE  \E v \in Payments :
                 /\ t \in Descendants(mempool, v)
                 /\ (Range(Prevouts[v]) \cap SpentIn(chain')) # {} /\ v \notin TxsIn(chain')
    <3>1. u \in Payments
      BY SMTT(30), <1>0, PoolType
    <3>2. b \in TxsIn(chain')
      BY <2>4
    <3>3. p \in SpentIn(chain')
      BY Zenon, <2>4, <2>8, <3>2, ChainCoins
    <3>4. u \notin Range(block)
      <4>1. SUFFICES ASSUME u \in Range(block) PROVE FALSE
        OBVIOUS
      <4>2. PICK i \in 1 .. Len(block) : u = block[i]
        BY SMTT(30), <2>2, <4>1 DEF Range
      <4>3. PICK j \in 1 .. Len(block) : b = block[j]
        BY <2>2, <2>8 DEF Range
      <4>4. Len(block) \in Nat
        BY <2>2
      <4>5. i = j \/ j \in 1 .. i - 1 \/ i \in 1 .. j - 1
        BY <4>4
      <4>6. p \in Range(Prevouts[block[i]]) /\ p \in Range(Prevouts[block[j]]) /\ i # j
        BY Zenon, <2>8, <4>2, <4>3
      <4> QED BY Zenon, <2>5, <4>5, <4>6 DEF InOrder
    <3>5. u \notin TxsIn(chain')
      BY SMTT(30), <1>0, <2>4, <3>4
    <3>6. (Range(Prevouts[u]) \cap SpentIn(chain')) # {}
      BY Zenon, <2>8, <3>3
    <3> QED BY Zenon, <2>8, <3>1, <3>5, <3>6
  <2> QED BY Zenon, <2>6, <2>7, <2>8 DEF Explained
<1>2. CASE DisconnectTip
  <2> DEFINE c == Below(chain)
             block == Tip(chain)
  <2>1. Len(chain) > 1 /\ mempool' = ResurrectAll(c, mempool, block)
    BY Zenon, <1>2 DEF DisconnectTip
  <2>2. block \in Seq(Txs) /\ TxsIn(chain) = TxsIn(c) \cup Range(block)
    BY Zenon, <1>0, <2>1, ChainFront
  <2>3. Before(c, mempool, block)
    BY Zenon, <2>1, BeforeDisconnect
  <2> HIDE DEF c, block
  <2>4. Returned(mempool, mempool', block, Len(block))
    BY Zenon, <2>1, <2>3, BlockReturns
  <2>5. PICK j \in 1 .. Len(block) : /\ block[j] \in Payments /\ HasNonstandardAncestor(block[j])
                                     /\ t \in Descendants(mempool, block[j])
    BY Zenon, <2>4 DEF Returned
  <2>6. block[j] \in TxsIn(chain)
    BY <2>2 DEF Range
  <2> QED BY Zenon, <2>5, <2>6
<1>3. CASE mempool.mapTx \subseteq mempool.mapTx'
  BY <1>3
<1> QED BY Zenon, <1>1, <1>2, <1>3, OtherSteps

(* Spec => NothingLost: what a disconnected block held is in the pool again, *)
(* unless a nonstandard transaction is among what it spends.                 *)
THEOREM NothingIsLost == Spec => NothingLost
<1>1. PoolInv /\ FitInv /\ [Next]_vars =>
        [\A t \in Payments :
           t \in TxsIn(chain) /\ t \notin TxsIn(chain') /\ ~HasNonstandardAncestor(t)
             => t \in mempool.mapTx']_vars
  BY Zenon, LosesNothing
<1> QED BY <1>1, PoolInit, PoolStep, FitInit, FitStep, PTL DEF Spec, NothingLost

(* Spec => LeavesForBlock: nothing leaves the pool but for a block that      *)
(* confirms it, that spends what it or an ancestor spends, or that had an    *)
(* ancestor of it and left the chain.                                        *)
THEOREM LeavesOnlyForBlock == Spec => LeavesForBlock
<1>1. PoolInv /\ FitInv /\ [Next]_vars =>
        [\A t \in mempool.mapTx \ mempool.mapTx' :
           \/ t \in TxsIn(chain')
           \/ \E u \in Payments :
                /\ t \in Descendants(mempool, u)
                /\ \/ (Range(Prevouts[u]) \cap SpentIn(chain')) # {} /\ u \notin TxsIn(chain')
                   \/ u \in TxsIn(chain) /\ HasNonstandardAncestor(u)]_vars
  BY Zenon, LeavesForReason
<1> QED BY <1>1, PoolInit, PoolStep, FitInit, FitStep, PTL DEF Spec, LeavesForBlock
=============================================================================
