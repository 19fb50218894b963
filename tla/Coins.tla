-------------------------------- MODULE Coins --------------------------------
(***************************************************************************)
(* The unspent transaction outputs: the coin database, the cache pcoinsTip *)
(* above it, and the temporary view in which ConnectTip and DisconnectTip  *)
(* apply or undo one block (src/src/coins.cpp, coins.h, txdb.cpp, and      *)
(* UpdateCoins, ConnectBlock, DisconnectBlock, WriteChainState and their   *)
(* callers in main.cpp).                                                   *)
(*                                                                         *)
(* Which block is connected or disconnected next is left open: any child   *)
(* of the tip, or the tip.  A block is applied input by input.  At any     *)
(* point the process may crash: the database keeps its last batch, caches  *)
(* are lost.  Undo data is taken to survive a crash.                       *)
(*                                                                         *)
(* Data abstracted: a transaction has a list of prevouts and a set of      *)
(* spendable outputs, without amounts and scripts.  A cache that only      *)
(* remembers what it read below is not distinguished from one that reads   *)
(* again.  Definitions marked "Fault:" are not part of the specification:  *)
(* each has a bug that a property has to detect.                           *)
(***************************************************************************)
EXTENDS Integers, Sequences, Functions

CONSTANTS
  Txs, CoinBases,    \* transaction ids; those of coinbases
  Prevouts,          \* tx.vin: the outpoints <<tx, n>> a transaction spends
  Outputs,           \* the indices of its spendable outputs
  Blocks, Genesis, hashPrev, nHeight,
  Contents,          \* the functions that may give each block its vtx
  NoCoins,           \* no entry under a key
  COINBASE_MATURITY,
  MaxCrashes

ASSUME CoinsAssumption ==
  /\ CoinBases \subseteq Txs /\ Genesis \in Blocks
  /\ Prevouts \in [Txs -> Seq(Txs \X Nat)] /\ Outputs \in [Txs -> SUBSET Nat]
  /\ hashPrev \in [Blocks \ {Genesis} -> Blocks] /\ nHeight \in [Blocks -> Nat]
  /\ Contents \subseteq [Blocks -> Seq(Txs)]
  /\ NoCoins \notin [vout : SUBSET Nat, nHeight : Nat, fCoinBase : BOOLEAN]
  /\ COINBASE_MATURITY \in Nat /\ MaxCrashes \in Nat

(* The blocks are a tree: every non-empty set has a block whose parent is    *)
(* outside it.  A block is one higher than its parent.                       *)
ASSUME TreeAssumption ==
  /\ \A S \in SUBSET (Blocks \ {Genesis}) : S # {} => \E b \in S : hashPrev[b] \notin S
  /\ nHeight[Genesis] = 0
  /\ \A b \in Blocks \ {Genesis} : nHeight[b] = nHeight[hashPrev[b]] + 1

(* CheckTransaction: a coinbase spends nothing, any other transaction        *)
(* something and nothing twice.  CheckBlock: no transaction after the first  *)
(* is a coinbase.  AcceptBlock: a coinbase names the height of its block.    *)
(* The genesis block (chainparams.cpp 181-200) has a coinbase only, with     *)
(* outputs.                                                                  *)
ASSUME CheckedAssumption ==
  /\ \A t \in CoinBases : Prevouts[t] = <<>>
  /\ \A t \in Txs \ CoinBases : Prevouts[t] # <<>> /\ IsInjective(Prevouts[t])
  /\ \A v \in Contents :
       /\ Range(v[Genesis]) \subseteq CoinBases /\ \A t \in Range(v[Genesis]) : Outputs[t] # {}
       /\ \A b \in Blocks : \A k \in DOMAIN v[b] : v[b][k] \in CoinBases => k = 1
       /\ \A b, c \in Blocks :
            Range(v[b]) \cap Range(v[c]) \cap CoinBases # {} => nHeight[b] = nHeight[c]

VARIABLES
  vtx,          \* the transactions of each block; never changes
  db, dbBest,   \* the database: coins and best block
  cache,        \* pcoinsTip->cacheCoins
  view,         \* the temporary view's cacheCoins
  best,         \* pcoinsTip's best block
  tip,          \* chainActive.Tip()
  undo,         \* the undo data of the blocks that were connected
  txundo,       \* the undo data being collected
  failed,       \* blocks that ConnectBlock rejected
  block, i, j,  \* the block being applied, its transaction, its input
  fClean,       \* DisconnectBlock's result
  fInitialDownload,   \* IsInitialBlockDownload(): WriteChainState may skip
  pc, crashes

given == <<vtx, fInitialDownload>>
base == <<db, dbBest, cache, best, tip>>
vars == <<given, base, view, undo, txundo, failed, block, i, j, fClean, pc, crashes>>

-----------------------------------------------------------------------------
(* CCoins *)

Coins(vout, height, coinbase) == [vout |-> vout, nHeight |-> height, fCoinBase |-> coinbase]

EmptyCoins == Coins({}, 0, FALSE)

(* Fault: outputs are numbered from one. *)
NewCoinsFromOne(t, height) == Coins({n + 1 : n \in Outputs[t]}, height, t \in CoinBases)

NewCoins(t, height) == Coins(Outputs[t], height, t \in CoinBases)

IsPruned(c) == c.vout = {}

(* operator==: all pruned coins are equal.                                   *)
SameCoins(a, b) == (IsPruned(a) /\ IsPruned(b)) \/ a = b

-----------------------------------------------------------------------------
(* The layers: a key is looked up in the view, in pcoinsTip, in the database *)

NoEntries == [t \in Txs |-> NoCoins]

(* BatchWrite into a cache.                                                  *)
Over(upper, lower) == [t \in Txs |-> IF upper[t] # NoCoins THEN upper[t] ELSE lower[t]]

(* BatchWrite into the database erases pruned coins.                         *)
BatchWrite(entries) ==
  [t \in Txs |-> IF entries[t] = NoCoins THEN db[t]
                 ELSE IF IsPruned(entries[t]) THEN NoCoins ELSE entries[t]]

pcoinsTip == Over(cache, db)
GetCoins(t) == Over(view, pcoinsTip)[t]

(* A pruned entry that is still in a cache counts as present.                *)
HaveCoins(t) == GetCoins(t) # NoCoins

IsAvailable(p) == HaveCoins(p[1]) /\ p[2] \in GetCoins(p[1]).vout

-----------------------------------------------------------------------------
Init ==
  /\ vtx \in Contents
  /\ db = [t \in Txs |-> IF t \in Range(vtx[Genesis]) THEN NewCoins(t, 0) ELSE NoCoins]
  /\ dbBest = Genesis /\ best = Genesis /\ tip = Genesis
  /\ cache = NoEntries /\ view = NoEntries
  /\ undo = [b \in Blocks |-> <<>>] /\ txundo = <<>>
  /\ failed = {} /\ block = Genesis /\ i = 0 /\ j = 0 /\ fClean = TRUE
  /\ fInitialDownload \in BOOLEAN
  /\ pc = "rest" /\ crashes = 0

tx == vtx[block][i]

(* The block is given up and the view dropped.                               *)
Reject(b) ==
  /\ failed' = failed \cup {b}
  /\ view' = NoEntries /\ txundo' = <<>>
  /\ pc' = "rest"

-----------------------------------------------------------------------------
(* ConnectTip and ConnectBlock *)

(* The block at the top of ConnectBlock: "Make sure that no two transactions *)
(* with the same TxId can exist".                                            *)
Overwrites(b) == \E t \in Range(vtx[b]) : HaveCoins(t)

ConnectTip(b) ==
  /\ pc = "rest" /\ b \notin failed \cup {Genesis} /\ hashPrev[b] = tip
  /\ IF Overwrites(b)
     THEN Reject(b) /\ UNCHANGED <<block, i, j>>
     ELSE /\ block' = b /\ i' = 1 /\ j' = 0
          /\ pc' = "connect"
          /\ UNCHANGED <<failed, view, txundo>>
  /\ UNCHANGED <<given, base, undo, fClean, crashes>>

(* Fault: a coinbase may be spent at any depth. *)
CheckInputsNoMaturity(t) == \A p \in Range(Prevouts[t]) : IsAvailable(p)

(* HaveInputs, and what CheckInputs asks of coinbases.                       *)
CheckInputs(t) ==
  \A p \in Range(Prevouts[t]) :
    /\ IsAvailable(p)
    /\ GetCoins(p[1]).fCoinBase =>
         nHeight[block] - GetCoins(p[1]).nHeight >= COINBASE_MATURITY

CheckTx ==
  /\ pc = "connect" /\ i <= Len(vtx[block]) /\ j = 0
  /\ IF CheckInputs(tx)
     THEN /\ j' = 1 /\ txundo' = Append(txundo, <<>>)
          /\ UNCHANGED <<failed, view, pc>>
     ELSE Reject(block) /\ j' = 0
  /\ UNCHANGED <<given, base, undo, block, i, fClean, crashes>>

(* Fault: the height is recorded for every output. *)
UndoAlwaysHeight(c, left) == [nHeight |-> c.nHeight, fCoinBase |-> c.fCoinBase]

(* CCoins::Spend: the undo entry has the metadata only of the last output.   *)
UndoEntry(c, left) ==
  IF left = {} THEN [nHeight |-> c.nHeight, fCoinBase |-> c.fCoinBase]
  ELSE [nHeight |-> 0, fCoinBase |-> FALSE]

(* UpdateCoins: one input is spent in the view.                              *)
SpendInput ==
  /\ pc = "connect" /\ i <= Len(vtx[block]) /\ j \in DOMAIN Prevouts[tx]
  /\ LET p == Prevouts[tx][j]
         c == GetCoins(p[1])
         left == c.vout \ {p[2]}
     IN  /\ view' = [view EXCEPT ![p[1]] = Coins(left, c.nHeight, c.fCoinBase)]
         /\ txundo' = [txundo EXCEPT ![i] = Append(@, UndoEntry(c, left))]
  /\ j' = j + 1
  /\ UNCHANGED <<given, base, undo, failed, block, i, fClean, pc, crashes>>

(* UpdateCoins: the outputs are added once all inputs are spent.             *)
AddOutputs ==
  /\ pc = "connect" /\ i <= Len(vtx[block]) /\ j = Len(Prevouts[tx]) + 1
  /\ view' = [view EXCEPT ![tx] = NewCoins(tx, nHeight[block])]
  /\ i' = i + 1 /\ j' = 0
  /\ UNCHANGED <<given, base, undo, txundo, failed, block, fClean, pc, crashes>>

(* The block is connected: undo data is written unless it was before, and    *)
(* the view is flushed into pcoinsTip.                                       *)
ConnectDone ==
  /\ pc = "connect" /\ i > Len(vtx[block])
  /\ undo' = IF undo[block] = <<>> THEN [undo EXCEPT ![block] = txundo] ELSE undo
  /\ txundo' = <<>>
  /\ cache' = Over(view, cache) /\ view' = NoEntries
  /\ best' = block
  /\ pc' = "write"
  /\ UNCHANGED <<given, db, dbBest, tip, failed, block, i, j, fClean, crashes>>

-----------------------------------------------------------------------------
(* DisconnectTip and DisconnectBlock *)

DisconnectTip ==
  /\ pc = "rest" /\ tip # Genesis
  /\ block' = tip /\ i' = Len(vtx[tip]) /\ j' = 0
  /\ fClean' = TRUE
  /\ pc' = "remove"
  /\ UNCHANGED <<given, base, view, undo, txundo, failed, crashes>>

(* The outputs must be those of the block; they are removed.                 *)
RemoveOutputs ==
  /\ pc = "remove" /\ i > 0
  /\ LET outs == IF HaveCoins(tx) THEN GetCoins(tx) ELSE EmptyCoins
     IN  fClean' = (fClean /\ SameCoins(outs, NewCoins(tx, nHeight[block])))
  /\ view' = IF HaveCoins(tx) THEN [view EXCEPT ![tx] = EmptyCoins] ELSE view
  /\ j' = Len(Prevouts[tx])
  /\ pc' = "restore"
  /\ UNCHANGED <<given, base, undo, txundo, failed, block, i, crashes>>

(* Fault: the metadata of a fully spent transaction is not restored. *)
RestoredCoinsNoMetadata(c, u) == c

(* The coins an output is put back into: an undo entry with a height starts  *)
(* a new CCoins.                                                             *)
RestoredCoins(c, u) == IF u.nHeight # 0 THEN Coins({}, u.nHeight, u.fCoinBase) ELSE c

(* One input is restored, the last one first.                                *)
RestoreInput ==
  /\ pc = "restore" /\ j > 0
  /\ LET p == Prevouts[tx][j]
         u == undo[block][i][j]
         c == IF HaveCoins(p[1]) THEN GetCoins(p[1]) ELSE EmptyCoins
         r == RestoredCoins(c, u)
     IN  /\ fClean' = (fClean /\ (u.nHeight # 0 <=> IsPruned(c)) /\ p[2] \notin r.vout)
         /\ view' = [view EXCEPT ![p[1]] = [r EXCEPT !.vout = @ \cup {p[2]}]]
  /\ j' = j - 1
  /\ UNCHANGED <<given, base, undo, txundo, failed, block, i, pc, crashes>>

TxUndone ==
  /\ pc = "restore" /\ j = 0
  /\ i' = i - 1
  /\ pc' = "remove"
  /\ UNCHANGED <<given, base, view, undo, txundo, failed, block, j, fClean, crashes>>

(* An unclean undo makes DisconnectTip fail and drops the view.              *)
DisconnectDone ==
  /\ pc = "remove" /\ i = 0
  /\ IF fClean
     THEN /\ cache' = Over(view, cache)
          /\ best' = hashPrev[block]
          /\ pc' = "write"
     ELSE pc' = "rest" /\ UNCHANGED <<cache, best>>
  /\ view' = NoEntries
  /\ UNCHANGED <<given, db, dbBest, tip, undo, txundo, failed, block, i, j, fClean, crashes>>

-----------------------------------------------------------------------------
(* WriteChainState, then UpdateTip *)

(* During the initial download the coins may stay in the cache.              *)
KeepInCache ==
  /\ pc = "write" /\ fInitialDownload
  /\ tip' = best
  /\ pc' = "rest"
  /\ UNCHANGED <<given, db, dbBest, cache, best, view, undo, txundo, failed, block, i, j,
                 fClean, crashes>>

(* Fault: the batch has no best block. *)
FlushWithoutBest ==
  /\ pc = "write"
  /\ db' = BatchWrite(cache) /\ dbBest' = dbBest
  /\ cache' = NoEntries
  /\ tip' = best
  /\ pc' = "rest"
  /\ UNCHANGED <<given, best, view, undo, txundo, failed, block, i, j, fClean, crashes>>

(* pcoinsTip->Flush(): coins and best block are one batch.                   *)
FlushCoins ==
  /\ pc = "write"
  /\ db' = BatchWrite(cache) /\ dbBest' = best
  /\ cache' = NoEntries
  /\ tip' = best
  /\ pc' = "rest"
  /\ UNCHANGED <<given, best, view, undo, txundo, failed, block, i, j, fClean, crashes>>

(* The process dies and LoadBlockIndexDB takes the tip from the database.    *)
(* Marks of failed blocks may not have reached the disk.                     *)
Crash ==
  /\ crashes < MaxCrashes /\ crashes' = crashes + 1
  /\ cache' = NoEntries /\ view' = NoEntries
  /\ best' = dbBest /\ tip' = dbBest
  /\ failed' \in SUBSET failed
  /\ txundo' = <<>> /\ fClean' = TRUE
  /\ pc' = "rest"
  /\ UNCHANGED <<given, db, dbBest, undo, block, i, j>>

(* Nothing to connect or disconnect.                                         *)
Idle == pc = "rest" /\ UNCHANGED vars

Next ==
  \/ Idle
  \/ \E b \in Blocks : ConnectTip(b)
  \/ CheckTx \/ SpendInput \/ AddOutputs \/ ConnectDone
  \/ DisconnectTip \/ RemoveOutputs \/ RestoreInput \/ TxUndone \/ DisconnectDone
  \/ KeepInCache \/ FlushCoins
  \/ Crash

Spec == Init /\ [][Next]_vars

-----------------------------------------------------------------------------
(* The ledger: what the coins of a chain are, by the chain alone *)

Path(b) ==
  LET path[x \in Blocks] == IF x = Genesis THEN {x} ELSE {x} \cup path[hashPrev[x]]
  IN  path[b]

(* The transactions of a set of blocks, for the contents v.                  *)
TxsOf(v, B) == UNION {Range(v[x]) : x \in B}

SpentBy(T) == UNION {Range(Prevouts[t]) : t \in T}

(* The height of the block with t in the chain that ends in b.               *)
HeightOf(v, b, t) == nHeight[CHOOSE x \in Path(b) : t \in Range(v[x])]

(* The coins of t after the chain that ends in b.                            *)
Ledger(v, b, t) ==
  IF t \notin TxsOf(v, Path(b)) THEN EmptyCoins
  ELSE Coins({n \in Outputs[t] : <<t, n>> \notin SpentBy(TxsOf(v, Path(b)))},
             HeightOf(v, b, t), t \in CoinBases)

(* Entries agree with the ledger of the chain that ends in b.                *)
Agrees(v, entries, b) ==
  \A t \in Txs :
    SameCoins(IF entries[t] = NoCoins THEN EmptyCoins ELSE entries[t], Ledger(v, b, t))

(* The transactions in the chain before transaction k of block b.            *)
Earlier(v, b, k) == TxsOf(v, Path(hashPrev[b])) \cup {v[b][l] : l \in 1..k - 1}

(* Block b may follow its parent: each prevout is an output, made earlier in *)
(* the chain or in the block, not yet spent, and mature if it is a           *)
(* coinbase's; and no transaction of b has outputs unspent already.          *)
ValidBlock(v, b) ==
  /\ \A k \in 1..Len(v[b]) : \A p \in Range(Prevouts[v[b][k]]) :
       /\ p[1] \in Earlier(v, b, k) /\ p[2] \in Outputs[p[1]]
       /\ p \notin SpentBy(Earlier(v, b, k))
       /\ p[1] \in CoinBases => nHeight[b] - HeightOf(v, b, p[1]) >= COINBASE_MATURITY
  /\ \A t \in Range(v[b]) : IsPruned(Ledger(v, hashPrev[b], t))

-----------------------------------------------------------------------------
(* Properties *)

(* Every variable stays in its range.                                        *)
TypeOK ==
  /\ \A t \in Txs : \A c \in {db[t], cache[t], view[t]} :
       c = NoCoins \/ (c.vout \subseteq Outputs[t] /\ c.nHeight \in Nat /\ c.fCoinBase \in BOOLEAN)
  /\ {tip, best, dbBest, block} \subseteq Blocks /\ failed \subseteq Blocks
  /\ i \in Nat /\ j \in Nat /\ fClean \in BOOLEAN
  /\ pc \in {"rest", "connect", "remove", "restore", "write"}

(* The coins pcoinsTip answers with are those of the chain it says it is     *)
(* at, after any sequence of connections, reorganisations and crashes:       *)
(* DisconnectBlock undoes exactly what ConnectBlock did.                     *)
CoinsAreLedger == pc \in {"rest", "write"} => Agrees(vtx, pcoinsTip, best)

(* The database alone is always the ledger of its own best block, so a crash *)
(* at any point leaves a state the node can start from; and it never holds a *)
(* pruned entry (CCoins::Serialize asserts that there is none).              *)
DatabaseIsLedger ==
  /\ Agrees(vtx, db, dbBest)
  /\ \A t \in Txs : db[t] # NoCoins => ~IsPruned(db[t])

(* ConnectBlock connects no block that breaks the ledger's rules, and        *)
(* rejects, which is a permanent mark, no other.  The second needs the cache *)
(* to be flushed after every block: in the initial download HaveCoins also   *)
(* finds entries that a disconnect emptied, and a block that comes back is   *)
(* rejected for "overwriting" them (main.cpp 1995-2017).                     *)
RulesEnforced ==
  /\ \A b \in Path(tip) \ {Genesis} : ValidBlock(vtx, b)
  /\ ~fInitialDownload => \A b \in failed : ~ValidBlock(vtx, b)

(* The input to be restored is of a genesis transaction all of whose outputs *)
(* are spent.                                                                *)
RestoresSpentGenesis ==
  /\ pc = "restore" /\ j > 0
  /\ LET t == Prevouts[tx][j][1]
     IN  t \in Range(vtx[Genesis]) /\ (HaveCoins(t) => IsPruned(GetCoins(t)))

(* Undo data restores what was there: DisconnectBlock of a connected block   *)
(* finds an inconsistency in one case only.  An undo entry with height 0 is  *)
(* read as that of an output that was not the last (main.cpp:1858-1867), and *)
(* the last output of a genesis transaction has such an entry.               *)
UndoComplete == [][fClean /\ ~fClean' => RestoresSpentGenesis]_vars
=============================================================================
