------------------------------- MODULE Mempool -------------------------------
(***************************************************************************)
(* The memory pool (txmempool.cpp), the orphan transactions (main.cpp      *)
(* 545-625) and what the "tx" message, a locally made transaction and a    *)
(* change of the active chain do to them.  cs_main is held across each     *)
(* handler, so a step is a handler; resolving the orphans of an accepted   *)
(* transaction is split into one step per orphan, where the code runs its  *)
(* own consistency check.                                                  *)
(*                                                                         *)
(* The coins view is the unspent outputs of the active chain (Coins shows  *)
(* that it is); every write has reached the database, so that a fully      *)
(* spent transaction is not found.  What the pool asks of a transaction    *)
(* besides its inputs never changes: Nonstandard ones are refused, and so, *)
(* once their inputs are known, those of NonstandardInputs; Invalid ones   *)
(* fail their scripts, Free ones are at the mercy of the rate limiter,     *)
(* Large ones are not kept as orphans.                                     *)
(***************************************************************************)
EXTENDS Integers, FiniteSets, Sequences, Functions

CONSTANTS
  CoinBases, Payments,  \* the transactions
  Prevouts,             \* [tx -> sequence of <<tx, n>>]
  Outputs,              \* [tx -> set of output numbers]
  Policies,             \* how transactions may be: a record of sets
  Peers,
  GenesisCoinBase,
  COINBASE_MATURITY,
  MaxOrphanTx,          \* -maxorphantx
  MaxHeight,            \* bound: blocks above the genesis block
  MaxBlockTxs           \* bound: payments of a block

Txs == CoinBases \cup Payments

ASSUME MempoolAssumption ==
  /\ CoinBases \cap Payments = {} /\ GenesisCoinBase \in CoinBases
  /\ Policies \subseteq
       [{"Nonstandard", "NonstandardInputs", "Invalid", "Free", "Large"} -> SUBSET Payments]
  /\ Prevouts \in [Txs -> Seq(Txs \X Nat)] /\ Outputs \in [Txs -> SUBSET Nat]
  /\ \A t \in CoinBases : Prevouts[t] = <<>>
  /\ \A t \in Payments : Prevouts[t] # <<>>
  /\ COINBASE_MATURITY \in Nat \ {0} /\ MaxOrphanTx \in Nat

VARIABLES
  policy,       \* never changes
  chain,        \* the blocks of the active chain, each a sequence of transactions
  fReorg,       \* ActivateBestChain has disconnected blocks and connected none yet
  mempool,      \* [mapTx, mapNextTx]
  mapOrphanTransactions,        \* [orphan -> the peer it came from]
  mapOrphanTransactionsByPrev,  \* [transaction -> orphans that spend it]
  vWorkQueue, vEraseQueue, setMisbehaving,  \* locals of the "tx" handler
  tried                         \* orphans of vWorkQueue's head visited so far

orphanVars == <<mapOrphanTransactions, mapOrphanTransactionsByPrev>>
localVars == <<vWorkQueue, vEraseQueue, setMisbehaving, tried>>
vars == <<policy, chain, fReorg, mempool, orphanVars, localVars>>

-----------------------------------------------------------------------------
(* The last block of a chain, and the chain without it.                      *)
Tip(c) == c[Len(c)]

Below(c) == SubSeq(c, 1, Len(c) - 1)

(* The coins of a chain.                                                     *)
TxsIn(c) == UNION {Range(c[i]) : i \in DOMAIN c}

SpentIn(c) == UNION {Range(Prevouts[t]) : t \in TxsIn(c)}

Unspent(c) == {p \in UNION {{t} \X Outputs[t] : t \in TxsIn(c)} : p \notin SpentIn(c)}

HaveCoins(c, t) == \E p \in Unspent(c) : p[1] = t

(* A coinbase is spendable in a block at this height or above.               *)
MatureAt(c, t) ==
  (CHOOSE i \in DOMAIN c : t \in Range(c[i])) - 1 + COINBASE_MATURITY

Mature(c, t) == t \in CoinBases => t \in TxsIn(c) /\ Len(c) >= MatureAt(c, t)

-----------------------------------------------------------------------------
(* CCoinsViewMemPool: the chain's coins first, then the pool's outputs.      *)
KnownCoins(c, mp, t) == t \in mp.mapTx \/ HaveCoins(c, t)

HaveOutput(c, mp, p) ==
  IF HaveCoins(c, p[1]) THEN p \in Unspent(c)
  ELSE p[1] \in mp.mapTx /\ p[2] \in Outputs[p[1]]

HaveInputs(c, mp, t) == \A p \in Range(Prevouts[t]) : HaveOutput(c, mp, p)

Conflicts(mp, t) == \E p \in Range(Prevouts[t]) : p \in DOMAIN mp.mapNextTx

CheckInputs(c, t) ==
  /\ \A p \in Range(Prevouts[t]) : HaveCoins(c, p[1]) => Mature(c, p[1])
  /\ t \notin policy.Invalid

(* The answers AcceptToMemoryPool may give.  "missing" sets pfMissingInputs; *)
(* "invalid" is a refusal that costs the sender.                             *)
AcceptToMemoryPool(c, mp, t, fLimitFree) ==
  IF t \in CoinBases THEN {"invalid"}
  ELSE IF t \in policy.Nonstandard \/ Conflicts(mp, t) \/ KnownCoins(c, mp, t) THEN {"refused"}
  ELSE IF \E p \in Range(Prevouts[t]) : ~KnownCoins(c, mp, p[1]) THEN {"missing"}
  ELSE IF ~HaveInputs(c, mp, t) \/ t \in policy.NonstandardInputs THEN {"refused"}
  ELSE (IF fLimitFree /\ t \in policy.Free THEN {"refused"} ELSE {}) \cup
       (IF CheckInputs(c, t) THEN {"accepted"}
        ELSE IF t \in policy.Invalid THEN {"invalid"} ELSE {"refused"})

addUnchecked(mp, t) ==
  [mapTx |-> mp.mapTx \cup {t},
   mapNextTx |-> [p \in DOMAIN mp.mapNextTx \cup Range(Prevouts[t]) |->
                    IF p \in Range(Prevouts[t]) THEN t ELSE mp.mapNextTx[p]]]

(* CTxMemPool::remove, of t alone or with all that spends it.                *)
Spenders(mp, S) == {mp.mapNextTx[p] : p \in {q \in DOMAIN mp.mapNextTx : q[1] \in S}}

(* The least set with t and with all that spends a member.                   *)
Descendants(mp, t) ==
  {u \in mp.mapTx \cup {t} :
     \A S \in SUBSET (mp.mapTx \cup {t}) : t \in S /\ Spenders(mp, S) \subseteq S => u \in S}

(* Fault: the inputs of what is removed stay in mapNextTx.                   *)
removeAllKeepsInputs(mp, S) == [mp EXCEPT !.mapTx = @ \ S]

removeAll(mp, S) ==
  LET gone == S \cap mp.mapTx
      erased == UNION {Range(Prevouts[t]) : t \in gone}
  IN  [mapTx |-> mp.mapTx \ gone,
       mapNextTx |-> [p \in DOMAIN mp.mapNextTx \ erased |-> mp.mapNextTx[p]]]

remove(mp, t) == removeAll(mp, {t})

removeRecursive(mp, t) == removeAll(mp, Descendants(mp, t))

(* Whoever else spends an input of t, with all that depends on them.         *)
removeConflicts(mp, t) ==
  LET conflicts == {mp.mapNextTx[p] : p \in Range(Prevouts[t]) \cap DOMAIN mp.mapNextTx} \ {t}
  IN  removeAll(mp, UNION {Descendants(mp, u) : u \in conflicts})

-----------------------------------------------------------------------------
Init ==
  /\ policy \in Policies
  /\ chain = <<<<GenesisCoinBase>>>>
  /\ fReorg = FALSE
  /\ mempool = [mapTx |-> {}, mapNextTx |-> <<>>]
  /\ mapOrphanTransactions = <<>>
  /\ mapOrphanTransactionsByPrev = <<>>
  /\ vWorkQueue = <<>> /\ vEraseQueue = {} /\ setMisbehaving = {} /\ tried = {}

AtRest == vWorkQueue = <<>> /\ ~fReorg

PrevHashes(t) == {p[1] : p \in Range(Prevouts[t])}

(* Fault: only the entry of the first input is erased.                       *)
EraseOrphanTxsFirstInput(orphans, byPrev, S) ==
  LET gone == S \cap DOMAIN orphans
      Left(h) == byPrev[h] \ {o \in gone : h = Prevouts[o][1][1]}
  IN  /\ mapOrphanTransactions' = [o \in DOMAIN orphans \ gone |-> orphans[o]]
      /\ mapOrphanTransactionsByPrev' =
           [h \in {h \in DOMAIN byPrev : Left(h) # {}} |-> Left(h)]

(* How many orphans LimitOrphanTxSize leaves of n.                           *)
LimitOrphanTxSize(n) == IF n <= MaxOrphanTx THEN n ELSE MaxOrphanTx

(* EraseOrphanTx of every transaction of S.                                  *)
EraseOrphanTxs(orphans, byPrev, S) ==
  LET gone == S \cap DOMAIN orphans
      Left(h) == byPrev[h] \ {o \in gone : h \in PrevHashes(o)}
  IN  /\ mapOrphanTransactions' = [o \in DOMAIN orphans \ gone |-> orphans[o]]
      /\ mapOrphanTransactionsByPrev' =
           [h \in {h \in DOMAIN byPrev : Left(h) # {}} |-> Left(h)]

(* AddOrphanTx (one already stored keeps its peer, a large one is ignored),  *)
(* then LimitOrphanTxSize evicts orphans at random down to the limit.        *)
AddOrphanTx(t, peer) ==
  LET ignored == t \in DOMAIN mapOrphanTransactions \cup policy.Large
      orphans == [o \in DOMAIN mapOrphanTransactions \cup (IF ignored THEN {} ELSE {t}) |->
                    IF o \in DOMAIN mapOrphanTransactions THEN mapOrphanTransactions[o] ELSE peer]
      byPrev == [h \in DOMAIN mapOrphanTransactionsByPrev \cup PrevHashes(t) |->
                   (IF h \in DOMAIN mapOrphanTransactionsByPrev
                    THEN mapOrphanTransactionsByPrev[h] ELSE {}) \cup
                   (IF h \in PrevHashes(t) THEN {t} ELSE {})]
  IN  \E S \in SUBSET DOMAIN orphans :
        /\ Cardinality(DOMAIN orphans \ S) = LimitOrphanTxSize(Cardinality(DOMAIN orphans))
        /\ EraseOrphanTxs(orphans, IF ignored THEN mapOrphanTransactionsByPrev ELSE byPrev, S)

(* ProcessMessage "tx".                                                      *)
TxAccepted(t) ==
  /\ AtRest
  /\ "accepted" \in AcceptToMemoryPool(chain, mempool, t, TRUE)
  /\ mempool' = addUnchecked(mempool, t)
  /\ vWorkQueue' = <<t>> /\ vEraseQueue' = {t}
  /\ setMisbehaving' = {} /\ tried' = {}
  /\ UNCHANGED <<policy, chain, fReorg, orphanVars>>

TxMissingInputs(t, peer) ==
  /\ AtRest
  /\ "missing" \in AcceptToMemoryPool(chain, mempool, t, TRUE)
  /\ AddOrphanTx(t, peer)
  /\ UNCHANGED <<policy, chain, fReorg, mempool, localVars>>

OrphansOf(h) ==
  IF h \in DOMAIN mapOrphanTransactionsByPrev THEN mapOrphanTransactionsByPrev[h] ELSE {}

(* One pass of the inner loop.  The set is visited in the order of the       *)
(* hashes: any order.                                                        *)
TryOrphan(o) ==
  /\ vWorkQueue # <<>>
  /\ o \in OrphansOf(Head(vWorkQueue)) \ tried
  /\ tried' = tried \cup {o}
  /\ vEraseQueue' = vEraseQueue \cup {o}
  /\ \/ /\ mapOrphanTransactions[o] \in setMisbehaving
        /\ UNCHANGED <<mempool, vWorkQueue, setMisbehaving>>
     \/ /\ mapOrphanTransactions[o] \notin setMisbehaving
        /\ \E r \in AcceptToMemoryPool(chain, mempool, o, TRUE) :
             /\ mempool' = IF r = "accepted" THEN addUnchecked(mempool, o) ELSE mempool
             /\ vWorkQueue' = IF r = "accepted" THEN Append(vWorkQueue, o) ELSE vWorkQueue
             /\ setMisbehaving' = setMisbehaving \cup
                  (IF r = "invalid" THEN {mapOrphanTransactions[o]} ELSE {})
  /\ UNCHANGED <<policy, chain, fReorg, orphanVars>>

NextWork ==
  /\ vWorkQueue # <<>>
  /\ OrphansOf(Head(vWorkQueue)) \subseteq tried
  /\ vWorkQueue' = Tail(vWorkQueue)
  /\ tried' = {}
  /\ \/ /\ Len(vWorkQueue) > 1
        /\ UNCHANGED <<orphanVars, vEraseQueue, setMisbehaving>>
     \/ /\ Len(vWorkQueue) = 1
        /\ EraseOrphanTxs(mapOrphanTransactions, mapOrphanTransactionsByPrev, vEraseQueue)
        /\ vEraseQueue' = {} /\ setMisbehaving' = {}
  /\ UNCHANGED <<policy, chain, fReorg, mempool>>

(* CWallet::CommitTransaction, ResendWalletTransactions, sendrawtransaction. *)
LocalTx(t) ==
  /\ AtRest
  /\ "accepted" \in AcceptToMemoryPool(chain, mempool, t, FALSE)
  /\ mempool' = addUnchecked(mempool, t)
  /\ UNCHANGED <<policy, chain, fReorg, orphanVars, localVars>>

(* FinalizeNode.                                                             *)
EraseOrphansFor(peer) ==
  /\ AtRest
  /\ \E o \in DOMAIN mapOrphanTransactions : mapOrphanTransactions[o] = peer
  /\ EraseOrphanTxs(mapOrphanTransactions, mapOrphanTransactionsByPrev,
                    {o \in DOMAIN mapOrphanTransactions : mapOrphanTransactions[o] = peer})
  /\ UNCHANGED <<policy, chain, fReorg, mempool, localVars>>

-----------------------------------------------------------------------------
(* Blocks that ConnectBlock accepts on top of the active chain: each payment *)
(* spends what the chain and the earlier payments left.                      *)
Connectable(block) ==
  \A i \in 2 .. Len(block) :
    LET c == Append(chain, SubSeq(block, 1, i - 1)) IN
    /\ ~HaveCoins(c, block[i]) /\ block[i] \notin policy.Invalid
    /\ \A p \in Range(Prevouts[block[i]]) : p \in Unspent(c) /\ Mature(chain, p[1])

PaymentLists ==
  {s \in UNION {[1 .. n -> Payments] : n \in 0 .. MaxBlockTxs} : Cardinality(Range(s)) = Len(s)}

Candidates == UNION {{<<cb>> \o s : s \in PaymentLists} : cb \in CoinBases \ TxsIn(chain)}

(* Fault: what is confirmed stays in the pool.                               *)
ConfirmedStays(mp, t) == removeConflicts(mp, t)

(* Fault: what spends the confirmed transaction leaves with it.              *)
ConfirmedRecursive(mp, t) == removeConflicts(removeRecursive(mp, t), t)

(* ConnectTip from line 2266 on: what the block confirms leaves the pool,    *)
(* and so does what it contradicts.                                          *)
Confirmed(mp, t) == removeConflicts(remove(mp, t), t)

(* The pool after the block's transactions, one after the other.             *)
ConfirmedAll(mp, block) ==
  LET m[i \in 0 .. Len(block)] == IF i = 0 THEN mp ELSE Confirmed(m[i - 1], block[i])
  IN  m[Len(block)]

ConnectTip ==
  /\ vWorkQueue = <<>>
  /\ Len(chain) <= MaxHeight
  /\ \E block \in Candidates :
       /\ Connectable(block)
       /\ chain' = Append(chain, block)
       /\ mempool' = ConfirmedAll(mempool, block)
  /\ fReorg' = FALSE
  /\ UNCHANGED <<policy, orphanVars, localVars>>

(* Fault: what depends on a transaction that cannot return stays.            *)
ResurrectKeepsDependants(c, mp, t) ==
  IF "accepted" \in AcceptToMemoryPool(c, mp, t, FALSE) THEN addUnchecked(mp, t) ELSE mp

(* DisconnectTip from line 2222 on: the block's payments go back to the      *)
(* pool, or what depends on them leaves it.                                  *)
Resurrect(c, mp, t) ==
  IF t \in CoinBases THEN mp
  ELSE IF "accepted" \in AcceptToMemoryPool(c, mp, t, FALSE) THEN addUnchecked(mp, t)
  ELSE removeRecursive(mp, t)

(* Fault: children return before their parents.                              *)
ResurrectAllBackwards(c, mp, block) ==
  LET m[i \in 0 .. Len(block)] ==
        IF i = 0 THEN mp ELSE Resurrect(c, m[i - 1], block[Len(block) + 1 - i])
  IN  m[Len(block)]

(* The pool after the block's transactions, one after the other.             *)
ResurrectAll(c, mp, block) ==
  LET m[i \in 0 .. Len(block)] == IF i = 0 THEN mp ELSE Resurrect(c, m[i - 1], block[i])
  IN  m[Len(block)]

DisconnectTip ==
  /\ vWorkQueue = <<>>
  /\ Len(chain) > 1
  /\ chain' = Below(chain)
  /\ mempool' = ResurrectAll(Below(chain), mempool, Tip(chain))
  /\ fReorg' = TRUE
  /\ UNCHANGED <<policy, orphanVars, localVars>>

Next ==
  \/ \E t \in Payments : TxAccepted(t) \/ TryOrphan(t) \/ LocalTx(t)
  \/ \E t \in Payments, peer \in Peers : TxMissingInputs(t, peer)
  \/ \E peer \in Peers : EraseOrphansFor(peer)
  \/ NextWork \/ ConnectTip \/ DisconnectTip

Spec == Init /\ [][Next]_vars

-----------------------------------------------------------------------------
(* mapNextTx is exactly the inputs of the pool: no entry is left behind by a *)
(* removal, none is overwritten, so no two transactions of the pool spend    *)
(* the same output (CTxMemPool::check, txmempool.cpp 160-176).               *)
SpendsIndexed ==
  /\ \A t \in mempool.mapTx, p \in UNION {Range(Prevouts[t]) : t \in Payments} :
       p \in Range(Prevouts[t]) =>
         p \in DOMAIN mempool.mapNextTx /\ mempool.mapNextTx[p] = t
  /\ \A p \in DOMAIN mempool.mapNextTx :
       /\ mempool.mapNextTx[p] \in mempool.mapTx
       /\ p \in Range(Prevouts[mempool.mapNextTx[p]])

Refers(p) == IF p[1] \in mempool.mapTx THEN p[2] \in Outputs[p[1]] ELSE p \in Unspent(chain)

(* Whatever blocks come and go, a transaction of the pool spends outputs of  *)
(* the pool or unspent ones of the active chain, coinbases that a reorganis- *)
(* ation took away apart.  CTxMemPool::check asserts it without exception    *)
(* (txmempool.cpp 151-158).                                                  *)
InputsAvailable ==
  \A t \in mempool.mapTx : \A p \in Range(Prevouts[t]) :
    Refers(p) \/ p[1] \in CoinBases \ TxsIn(chain)

(* No transaction is both confirmed and waiting.                             *)
NoneConfirmed == mempool.mapTx \cap TxsIn(chain) = {}

(* The index by previous transaction lists exactly the stored orphans, with  *)
(* no empty entry, after every insertion, eviction and erasure: the "tx"     *)
(* handler looks up mapOrphanTransactions[orphanHash] without checking.      *)
(* "Keep at most <n> unconnectable transactions in memory" (init.cpp 211).   *)
OrphansIndexed ==
  /\ Cardinality(DOMAIN mapOrphanTransactions) <= MaxOrphanTx
  /\ \A h \in DOMAIN mapOrphanTransactionsByPrev : mapOrphanTransactionsByPrev[h] # {}
  /\ \A h \in Txs :
       OrphansOf(h) = {o \in DOMAIN mapOrphanTransactions : h \in PrevHashes(o)}

(* t is, or spends at whatever distance, a nonstandard transaction: one that *)
(* is in every set that has t and, with a transaction, all that it spends.   *)
HasNonstandardAncestor(t) ==
  \E u \in policy.Nonstandard \cup policy.NonstandardInputs : \A S \in SUBSET Txs :
    t \in S /\ (\A v \in S : PrevHashes(v) \subseteq S) => u \in S

(* A payment that a reorganisation takes out of the chain goes back to the   *)
(* pool, unless it or an ancestor in the pool's eyes is nonstandard.         *)
NothingLost ==
  [][\A t \in Payments :
       t \in TxsIn(chain) /\ t \notin TxsIn(chain') /\ ~HasNonstandardAncestor(t)
         => t \in mempool.mapTx']_vars

(* A transaction leaves the pool only for a block: confirmed, or because it  *)
(* or an ancestor spends what the chain now spends, or because an ancestor   *)
(* that a reorganisation put back is nonstandard.                            *)
LeavesForBlock ==
  [][\A t \in mempool.mapTx \ mempool.mapTx' :
       \/ t \in TxsIn(chain')
       \/ \E u \in Payments :
            /\ t \in Descendants(mempool, u)
            /\ \/ (Range(Prevouts[u]) \cap SpentIn(chain')) # {} /\ u \notin TxsIn(chain')
               \/ u \in TxsIn(chain) /\ HasNonstandardAncestor(u)]_vars

=============================================================================
