# ziftrCOIN: TLA+ specifications and proofs

Specifications of the node in `src/src` (C++, descended from Bitcoin Core 0.9),
the TLC models that check them, and proofs that TLAPS checks. File and line
references in `PROJECT.json` (`map`) lead from every definition to the code it
stands for.

## 1. The system

One process. Everything about blocks and transactions happens under the lock
`cs_main`; connections are shared under `cs_vNodes`; signature checks run in a
pool of threads.

| Part | State | Operations | Talks to |
|---|---|---|---|
| Block index and active chain (`main.cpp`) | `mapBlockIndex`, `setBlockIndexValid`, `chainActive`, `chainMostWork`, `mapOrphanBlocks` | `ProcessBlock`, `AcceptBlock`, `AddToBlockIndex`, `FindMostWorkChain`, `ActivateBestChain`, `ConnectTip`, `DisconnectTip` | peers, coins, pool, wallet |
| Coins (`coins.*`, `txdb.cpp`, `main.cpp`) | coin database, cache `pcoinsTip`, undo data | `ConnectBlock`, `DisconnectBlock`, `WriteChainState`, start-up | block index, script checks |
| Script check queue (`checkqueue.h`) | `queue`, `nTodo`, `nIdle`, `fAllOk` | `Add`, `Wait`, `Loop` | `ConnectBlock` |
| Memory pool and orphan transactions (`txmempool.*`, `main.cpp`) | `mapTx`, `mapNextTx`, orphan maps | `AcceptToMemoryPool`, `remove`, `removeConflicts`, the "tx" message | peers, chain, wallet, miner |
| Connections (`net.*`) | `vNodes`, `vNodesDisconnected`, reference counts, `semOutbound`, `pnodeSync` | socket, message and opener threads | everything peers do |
| Block download (`main.cpp`, `net.cpp`) | in-flight and to-download maps, per-peer queues | "inv", "block", `SendMessages`, `FinalizeNode` | connections, index |
| Block and undo files (`main.cpp`, `init.cpp`, `txdb.cpp`) | `blk*.dat`, `rev*.dat`, file info, index database | `FindBlockPos`, `FindUndoPos`, `FlushBlockFile`, `WriteChainState`, start, `-reindex` | coins, index |
| Block size limit (`main.cpp`, `main.h`) | `mapBlockSizeLimits` | `CChain::SetTip` | active chain |
| Address manager (`addrman.*`) | new and tried tables | `Add`, `Good`, `Attempt`, `Select` | openers |
| Wallet (`wallet.*`, `walletdb.*`, `db.*`, `crypter.*`, `keystore.*`) | transactions, key pool, locks, DB use counts | create, commit, sync, encrypt, lock, flush | pool, chain |
| Miner (`miner.cpp`), difficulty and subsidy (`main.cpp`) | block template; pure arithmetic | `CreateNewBlock`, `GetNextWorkRequired`, `GetBlockValue` | pool, chain |
| Script interpreter, merkle trees, bloom filters, alerts, checkpoints, RPC, Qt, LevelDB | | | |

What is hard in it: reorganisations that meet invalid blocks half way; children
before parents, of blocks and of transactions; disk errors and crashes between
two writes that belong together; an order on chains that depends on siblings
(the mature-coin tie-breaker of this chain); a cache whose empty entries count;
threads that use a node while another thread deletes it; queues of downloads
kept twice, in global maps and in lists of peers that come and go; files and
databases that reach the disk at different times; a pool of threads that must
not miss a wake-up. `PROJECT.json` lists these as `hazards`, each at its
line, with the properties that would catch it going wrong.

## 2. Modules

| Module | Models | Abstracts |
|---|---|---|
| `CheckQueue` | `CCheckQueue`, `CCheckQueueControl`: one step per critical section, condition variables with spurious wake-ups, interruption | a check is a value that fails or not |
| `BestChain` | the promise: a node learns blocks and stays on the best valid chain | everything between two rests |
| `ChainState` | `ProcessBlock` to `ActivateBestChain`, loop by loop | a block is its verdict (first stage that rejects it), its work and its parent |
| `ChainLimits` | `CChain::SetTip`'s block size limits over a chain that moves | a block is its size |
| `Coins` | view, cache and database under connects, disconnects, flushes and crashes, input by input | no amounts or scripts |
| `BlockFiles` | block and undo files, index database, coins' best block; crashes, starts, `-reindex` | a record has size 1; every block is valid |
| `Mempool` | pool and orphan transactions against a chain that moves | fees, standardness and sizes are constant sets |
| `NetNodes` | the life of a `CNode` under three kinds of threads | bytes and messages: whether they end in a disconnection |
| `BlockDownload` | which block is asked of which peer | which blocks the node has or finds invalid is a choice |
| `*Proofs` | proofs about the module of the same name; `BlockFilesProofs` rests on `BlockFilesSteps`, and `ConnectBlockProofs` is about `CheckQueue` and `ChainLimits` | |

The `MC*` modules give the constants values. Each component module holds, right
before a definition, the faulty forms of it ("Fault:") that its properties must
detect; they are not part of the specification.

### CheckQueue

`pc[t]` says where a thread is: outside, before the lock, inside `Loop`,
waiting, woken, or running a batch. A step is what happens under the mutex from
one wait or unlock to the next. `TodoCounts`, `QueueFinished` and `WaitAnswer`
say that `nTodo` is exact, that the master returns only when nothing is left,
and that its answer is the conjunction of the checks of *this* block.
`IdleBetweenBlocks` says where the threads are when the master is out, and
`WaitReturns` that no notification is lost.

### ChainState and BestChain

`pc` is the point a handler has reached. `setBlockIndexValid` is a sequence,
the iteration order of the `std::set`. Its comparator is not a strict weak
order, so an insertion may go to any place between neighbours that compare
right (`Places`), and `erase` is sure to find an element only if it compares
right with all others (`Findable`). Otherwise it may miss the element, and may
take others with it: `erase` removes the `equal_range` of its key, which can hold
all that lies between two elements that compare wrong (`EqualRange`).
`CountMatureCoins` and the clock of the
tie-breaker are choices. A failure of the disk or the database may happen
wherever the code reports one (`Fails`), `MaxFailures` times.

The refinement (`KeepsPromise`) hides everything while a handler runs: with the
index and tip of the last rest, every handler is one `Learn` step of
`BestChain`, or none.

### ChainLimits

A chain is the sequence of its blocks' sizes, `mapBlockSizeLimits` a function on
the heights that have an entry. Numbers are unsigned ints of a range that is a
constant, so that the multiplication in `SetTip` can wrap. `LimitsOfChain` says
that the limits depend on the active chain alone and not on what was connected
and disconnected before, `GrowthJustified` that the limit never falls and rises
only as the rule says, wrapped or not.

### Coins

Three layers, `view` over `cache` over `db`, with `Over` as the look-up.
Connecting goes through `CheckTx`, `SpendInput` and `AddOutputs` for each
transaction, disconnecting through `RemoveOutputs` and `RestoreInput` in reverse.
`Ledger(v, b, t)` is the reference: what is unspent of `t` after the path to `b`,
computed from the contents `v` of the blocks. `CoinsAreLedger` compares the view at rest,
`DatabaseIsLedger` the database at every moment, crashes included.
`RulesEnforced` compares what is connected and what is rejected with the
ledger's rules. `UndoComplete` says that a disconnection finds the undo data right,
but for the last output of a genesis transaction. Outputs are taken to have a value: the code lets outputs of
value 0 be spent before maturity, which is not modelled.

### BlockFiles

A step of a handler ends at each write that a crash may keep or lose. What was
written and not yet forced to disk is kept apart: `loose` records, the contents
`dbOld` the index database had since its last `Sync`, the best blocks `coinsOld`
the coin database has named since it was opened (it is never synced). A crash
picks one of each; the death of the process alone is the crash that loses
nothing. Disk space may run out in `FindBlockPos`, `FindUndoPos` and
`WriteChainState`. `LoadBlockIndexDB` is the next start with `VerifyDB` and the
`ActivateBestChain` of the start; `StartReindex`, `ReindexBlock` and `EndReindex`
rebuild the index from the block files. `StartsAgain` says that the start finds
what it needs and that no handler meets a record it cannot read;
`IndexedRecords` that every record is where the index says.

`excused` records the two things the code does not survive: a power failure that
takes records written in initial block download, and an index rebuilt from a
file with a gap. The properties hold without them; section 5 says what they do.

### Mempool

The pool is `[mapTx, mapNextTx]`; the functions on it are pure and the actions
compose them as the code does. A reorganisation disconnects blocks with
`fReorg` set and ends with a connected block. `InputsAvailable` has the exception
the code has (coinbases that went away). What a transaction is to the pool's
policy is chosen once (`policy`): nonstandard itself or in its inputs (which are
looked at after they were found), invalid, free, or too large to be kept as an
orphan.

### NetNodes

A node is the memory it lies in, so that a new node may take the place of a
deleted one. Steps are what a thread does under `cs_vNodes` and single accesses
outside it; the increment of a reference outside the lock is a read and a write.
`CSemaphoreGrant::MoveTo` is one step. `adopted` is a history variable: the nodes
an opener found with `FindNode` and references without the lock. What the
properties say of other nodes does not hold of these. An opener by address gives
up before it calls `ConnectNode` if the address is its own, banned or connected;
an opener by name looks for the name, which may not be the name its node is
connected under. The `TRY_LOCK`s before a deletion cannot fail: the buffers of a
node are locked only by who holds a reference or `cs_vNodes`.

### BlockDownload

`dl` holds the two global maps and the lists, counters and times of the peers;
the operators on it are the functions of `main.cpp`. The message thread takes
its copy of `vNodes`, processes at most one message of each node and sends, as
`ThreadMessageHandler` does. Bytes and messages are kept apart: the socket thread
notes bytes (`quiet`) and complete messages (`vRecvMsg`), and only a message that
passes `ProcessMessages`' tests counts for `nLastBlockProcess`. Times are stamps (age, and whether the time lies
before `nLastBlockProcess` by more than its limit), so that the clock needs no
bound. `QueuesExact` is what `MarkBlockAsReceived` and `SendMessages` rely on
without checking; `OverdueNoticed` says that the stall test, which looks at the
front of a list only, finds a peer exactly if one of its requests is overdue;
`StallEnds` that a peer that
delivers nothing does not keep its blocks, if it keeps talking or falls silent.

## 3. Runs

| Run | Instance | States | Shows |
|---|---|---|---|
| `checkqueue` | two workers, up to four checks, the last failing, one interruption | 435,244 | the answer of `Wait`, the counters; every `Wait` returns |
| `chainstate` | four blocks besides genesis, all trees; valid, invalid in `ConnectBlock`, possibly corrupt; one failure | 3,421,790 | seven invariants of chain, marks, candidates and orphans |
| `chainstate_live` | three blocks, all six verdicts; no failure | | handlers end if no block is possibly corrupt; refinement of `BestChain` |
| `chainstate_tie` | five blocks | | *violated*: the tie-breaker |
| `coins` | branches of two and of one block, bodies of up to two of four transactions, one of which spends the rest of genesis; one crash | 715,483 | view and database are ledgers; the rules are enforced; undo data fits |
| `mempool` | five payments (a conflict, a chain, a join, a coinbase spend), two peers, three policies | 17,272 | pool consistent with the chain; nothing lost without reason |
| `netnodes` | memory for one node, two openers (by name or one-shot; by address) | 415,388 | lifetime, references, grants; deletion |
| `blockdownload` | two peers, two blocks, two requests per peer | 1,184,511 | maps, lists and counters agree; no overdue request is overlooked |
| `blockdownload_live` | one peer, two blocks | 6,130 | a stalling peer loses its blocks |
| `blockfiles` | a fork of one block against two, three files of two records, two crashes or failures, one `-reindex` | 2,435,577 | the next start succeeds; records stay in place |
| `blockfiles_reindex` | the same with one fault | | *violated*: files are appended to |
| `chainlimits` | two periods of five blocks, sizes around the thresholds, a range in which the second growth wraps | | limits are a function of the chain |

The bounds are small where more adds only repetition. Four blocks make every
relation that the chain code tells apart (extension, fork, fork of a fork,
orphan of an orphan); a fifth is needed for the set's order to go wrong. Four
checks are the fewest of which a batch of two is cut. Two workers are enough for
one to take the last batch while the other sleeps. One piece of memory is what
makes a new node lie where a deleted one lay at once; the proofs cover any
number. Two peers are enough for a block to be asked of one and delivered by the
other. With files of two records the undo data of a block may go to a file that
is no longer the last, and two faults are enough for a crash after a position was
lost. In `blockdownload` every time limit is 0, so that a request is overdue after
one tick of the clock and requests of both ages stand in a list; in
`blockdownload_live` the timeout is 1, so that the two limits of the stall test
differ. Five blocks are the shortest period in which mean and median disagree.

Deadlock is checked but in `chainstate`, `blockfiles` and `blockfiles_reindex`,
where an assertion that fails after a disk failure stops the process, or a failed
start waits for the user.

Fairness, each as the code's scheduling justifies it; nothing is assumed of
blocks or connections that may come, or of failures:

- `checkqueue`: strong fairness for each thread (`Runs(t)`): a thread that waits
  for the mutex gets it although others take it in between.
- `chainstate_live`: a handler that runs goes on. `HandlerEnds` is stated for
  blocks none of which is possibly corrupt, because `ActivateBestChain` tries
  such a block again without end.
- `netnodes`: the loops of the socket and the message thread have no exit but
  shutdown; openers need not run.
- `blockdownload_live`: both loops go on and the clock moves; the `TRY_LOCK`s in
  `SendMessages` and before a deletion do not fail for ever (strong fairness).
  Nothing is assumed of the peer; `StallEnds` is stated for one whose messages keep
  being processed and for one that from some time on sends nothing. Two kinds of
  peers are outside of it, because the code lets them stay: one that keeps
  delivering *some* requested block, and one that sends bytes for ever of which no
  message is processed. Such bytes count for `nLastRecv` (`net.cpp:974`), so the
  socket thread finds no silence, but not for `nLastBlockProcess`
  (`main.cpp:3675`), which the stall test compares with.

## 4. Proofs

All theorems hold for every value of the constants that satisfies the modules'
`ASSUME`s: any numbers of workers, blocks, transactions, peers, nodes and
openers, any limits.

- `ConnectBlockProofs`, for `CheckQueue`: `QueueTypes`, `TodoCounts`, `QueueFinished`,
  `WaitAnswer` and `IdleBetweenBlocks`. `QueueInv` adds `Phases` (which variables are idle in which
  phase of a block), `NoFailureLost` (a failing check that was added is still to
  be run, or its failure is recorded in some thread or in `fAllOk`) and
  `NoFailureInvented` (a recorded failure has a failing check of this block
  behind it). Once `nTodo` is 0 nothing is left to run, so that a failure can
  only be in `fAllOk`. For `IdleBetweenBlocks`, `BusyCounted` says that `nTotal`
  exceeds `nIdle` by the number of busy threads.
- `ChainStateProofs`: `TypeOK`, `ActiveChainValid`, `FailedMarksRight` and
  `OrphansDetached`, for any order of the set. `IndInv` adds what the index and
  the handler's locals mean at each `pc` (`IndexOK`, `HandlerOK`), that the tip's
  chain passed all checks (`TipInv`), and that every mark has a rejected block on
  its path (`FailedInv`). For the orphans, `OrphanInv` says in the middle of
  `ProcessBlock`'s loop which indexed blocks may still have orphans for children:
  the one being accepted and those in the work queue. `Path` and `Without` are
  recursive; since induction over data is out of reach, the lemmas exhibit a
  solution of the defining equation, and find a least counterexample in the order
  that `IsTree` gives (for `Without`, in the naturals).
- `ChainStateProofs` also has `BestValidTip`, `CandidatesRight`, `TipMovesForReason`
  and `KeepsPromise`, the refinement of `BestChain`. Their hypothesis is
  `[]OrderTransitive`: `CBlockIndexWorkComparator` is transitive on the index.
  It is needed, because the mature-coin tie-breaker compares siblings only and
  can make the comparator intransitive; then the set is not sorted by it, an
  `erase` may miss its element or take others with it, and `chainstate_tie` shows
  what becomes of the tip. `TransitiveWithoutTies` proves
  the hypothesis for chains that spend no mature coins (`MaxMature = 0`). The
  invariant `OrdInv` says that the sequence is sorted and holds every indexed block
  without a failed mark (`CandInv`), that sequence
  numbers tell blocks apart (`SequenceInv`), what the handler remembers of its
  start (`OldInv`), and that from `FindMostWorkChain` on the blocks better than
  the target are invalid (`BestInv`). TLC has checked it, and
  `OrderTransitive`, in every state of the instance `chainstate`.
  `BestChain` defines work, height and validity by recursion along the tree. The
  lemma `TreeFunction` shows that such a recursion has a solution, path by path,
  and `PathFunctionsAgree` that it has one only; so the abstract functions are
  what the index holds (`IndexCounts`, `PassesIsValid`), and each step that ends
  a handler is a `Learn` step or a stutter (`PromiseStep`). The theorem is about a
  disk that does not fail (`MaxFailures = 0`): after a failure the code gives up
  before it has reached the best chain, and the run makes the same assumption.
- `CoinsProofs`: `TypeOK`, `CoinsAreLedger`, `DatabaseIsLedger`, `RulesEnforced`
  and `UndoComplete`, for any block tree and any transactions. The
  assumptions are what is checked before a block gets here: the blocks form a tree
  with the heights it gives (`TreeAssumption`); a coinbase spends nothing, is first
  in its block and names the block's height, every other transaction spends
  something and nothing twice, and genesis has a coinbase with outputs only
  (`CheckedAssumption`). Between two blocks each layer is the ledger of the block
  it names (`Layers`), but inside a handler a block is applied in part, so `IndInv`
  needs a ledger for every point of it. `Entry(v, b, M, S, t)` is what is left of
  `t` when the transactions `M` are in the chain and the prevouts `S` are spent;
  `Connecting` says that after `j` inputs of transaction `i` the view over
  the cache shows `Entry` of the transactions before `i` and of the prevouts spent
  so far, that these transactions obey the rules, and that the undo data written
  so far is what the ledger had; `Disconnecting` says the same on the way back.
  `Undos` says that the undo data of every connected block is right, wherever the
  chain has moved since. One lemma for each step shows how `Entry` moves
  (`SpendingInput`, `AddingTx`, and their reverse), and at the last input `Entry` is
  `Ledger` of the next block. A disconnection whose undo data does not fit
  (`fClean` false) fails in the code and its view is dropped, so the first four
  theorems need nothing of it. `UndoComplete` says that this happens in one case
  only: `CTxInUndo` stores a height only with the last output of a transaction, and
  reads height 0 as "not stored", so that a genesis transaction spent completely is
  not brought back. Everywhere else `Entry` gives the height the undo data must
  have, and no other transaction has height 0. TLC has checked `IndInv` in every
  state of the instance `coins`, in which the exception happens.
- `MempoolProofs`: `OrphansIndexed`, `SpendsIndexed`, `InputsAvailable`,
  `NoneConfirmed`, `NothingLost` and `LeavesForBlock`. For the orphans the proof is about `AddOrphanTx`,
  `EraseOrphanTx`, `EraseOrphanTxs` and `LimitOrphanTxSize`; all else leaves the
  two maps alone. For the pool, `PoolInv` adds that the chain's transactions spend
  outputs of transactions before them (`Grounded`). A block is connected or
  disconnected transaction by transaction; `PoolOf` says what holds of the pool
  between two of them, with the set of those that have left the chain and may
  still return, and the proof takes the first index at which it would fail.
  The last two are action properties, and compare the pool before and after a
  whole block. `Explained` and `Returned`
  say what has become of it after each transaction of a connected or of a
  disconnected block. For the latter, `AcceptToMemoryPool` must
  find again what `ConnectBlock` found, so the invariant `FitInv` remembers of every
  block that it fits on the chain below it (`Fits`): its payments are valid, and
  their inputs mature and unspent, in the chain or earlier in the block. TLC has
  checked `FitInv` in every state of the instance `mempool`.
- `NetNodesProofs`: `TypeOK`, `NoUseAfterFree`, `RefsCounted` and
  `GrantsConserved`. `IndInv` says for each program counter which references and
  grants a thread holds; a node is deletable only when its count is 0, and the
  count is at least the number of copies it is in.
- `BlockDownloadProofs`: `TypeOK`, `QueuesExact` and `OverdueNoticed`. Each operator
  on the queues has a lemma that it keeps maps, lists and counters in step;
  removing an element keeps a list free of duplicates and in the order of the
  requests (`Ordered`), so that the front is late if any request is.
- `BlockFilesProofs`: `TypeOK`, `StartsAgain` and `IndexedRecords`.
  `BlockFilesSteps` has the invariant and the lemmas about the operators; the
  assumption on the constants includes that the blocks form a tree. A crash brings
  back any of several contents of each database, so `IndInv` speaks of all of
  them: whichever of `dbOld` it is, the records of its blocks are in the files and
  below the sizes it knows (`Records`), so that nothing is written over them; and
  whichever of `coinsOld` it is, that block is indexed and its chain has undo data
  down to genesis (`Chains`). `Sizes` counts the blocks that still wait for their
  undo data, so that a file never outgrows its slots; `Rebuilding` is about the
  index while it is rebuilt.
- `ConnectBlockProofs`, for `ChainLimits`: `LimitsOfChain` and `GrowthJustified`. The invariant says
  that the entries are the right ones for every period that has ended and the one
  after, and that a limit can be doubled without wrapping. `SetTip` is a recursion
  over periods: what it keeps is right for the shorter of two chains of which one
  begins the other, and each entry it adds is right if those before are. For
  `GrowthJustified` the sum of a period is the difference of two `nChainSize`, and
  the middle element of the sorted array bounds the number of large blocks.

Model-checked only: liveness (`WaitReturns`, `HandlerEnds`, `InboundDeleted`,
`StallEnds`), which is out of the prover's reach.

## 5. Known disagreements

Two runs are violated; `findings` in `PROJECT.json` quotes the line and says what
happens: the tie-breaker (`chainstate_tie`), and appending after `-reindex`
(`blockfiles_reindex`). In five more places the code does not do what a comment
beside it says. There the passing properties carry the exception, and the
`hazards` quote the line:

- `main.cpp:2017` counts a fully spent entry of the cache as existing, so that in
  initial block download a block that comes back may be rejected; the comment at
  `main.cpp:1996` says "unless those are already completely spent"
  (`RulesEnforced` is stated for a cache that is flushed).
- `DisconnectTip` leaves spenders of a coinbase that went away in the pool; the
  comment and assertion at `txmempool.cpp:151` allow none (`InputsAvailable`).
- A node disconnected before its opener moved the grant into it keeps the grant;
  the comment at `net.cpp:759` says "release outbound grant (if any)"
  (`GrantsConserved` counts the grant as the node's).
- Records are not committed in initial block download, and `FlushBlockFile`
  commits the last file only; the comments at `main.cpp:1260` and `main.h:384` say
  "Flush stdio buffers and commit to disk before returning" (`StartsAgain`). A
  power failure that takes such records is excused whole, so that `StartsAgain`
  tests the order of `WriteChainState` (the index is synced before the coins are
  written) and not what `FlushBlockFile` itself commits.
- The stall test disconnects a peer as soon as its oldest request is overdue, also
  if another was made a moment ago; the comment at `main.cpp:4651` asks "that all
  blocks are in flight for over two minutes" (`OverdueNoticed` says that one
  overdue request is enough). A test of the newest request would do what the
  comment says.

A sixth exception has no comment against it: an undo entry of height 0 is read as
one without metadata (`main.cpp:1858`), and the genesis coinbase, which this chain
adds to the coins, has height 0. Once all its outputs are spent, a disconnection
of the block that spent the last one is reported as inconsistent (`UndoComplete`).

The comment at `main.cpp:2794`, "Process with max allowable block size first", is
not true of a block of a longer branch with a higher limit than the tip's: such
a block is refused until the tip is there. `ChainLimits` tests both limits on a
block that extends the tip, where they are the same.

## 6. Not modelled

- Script interpreter, cryptography, serialisation: functions of byte strings,
  abstracted to verdicts and identities.
- `GetNextWorkRequired`, `GetBlockValue`, merkle trees, bloom filters: pure
  functions of wide numbers and hashes, with no state or interleaving.
- `nTotalCoinsCreated` (`main.cpp:407`): a statistic whose comment disclaims
  exactness and which one RPC reports.
- Address manager: its tables are addressed by keyed hashes and evicted at
  random. Wallet, key store and `CDBEnv`: a system of its own on which nothing
  here depends. Miner, alerts, RPC, Qt: callers of what is modelled.
- In `BlockFiles`: faults while the index is being rebuilt; a power failure right
  after a clean shutdown, before the operating system has written what was
  flushed; a crash during the very first start.
- In `NetNodes`: buffers, bans, address relay, DNS seeds. In `ChainState`: the
  warnings about large forks.
- The 71 files `qt/locale/*.ts` are translated texts: data without behaviour.

`components` in `PROJECT.json` gives the state of every part.
