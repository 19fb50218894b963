----------------------------- MODULE BlockFiles -----------------------------
(***************************************************************************)
(* How blocks and undo data get to disk, what a crash leaves of them, and  *)
(* what the next start makes of it: FindBlockPos, FindUndoPos,             *)
(* FlushBlockFile, WriteChainState, LoadBlockIndexDB, VerifyDB and the     *)
(* rebuilding of the index from the block files (-reindex).                *)
(*                                                                         *)
(* A block and its undo data are one record each, of size 1.  Every block  *)
(* is valid.  A step ends at a write that a crash may keep or lose.  What  *)
(* was written but not yet forced to disk is kept apart:                   *)
(*   loose     records written to blk or rev files and not yet committed;  *)
(*   dbOld     the contents the index database had since its last Sync;    *)
(*   coinsOld  the best blocks the coin database named since it was        *)
(*             opened, for it is never synced.                             *)
(* The death of the process alone is the crash that loses nothing written. *)
(***************************************************************************)
EXTENDS Integers

CONSTANTS
  Blocks,         \* without the genesis block
  Genesis,
  hashPrev,       \* the parent of each block
  nHeight,        \* the height of each block, of the genesis block too
  None,           \* no block, no record, no index entry, no position
  MaxFile,        \* files are numbered 0 .. MaxFile
  MAX_BLOCKFILE_SIZE,
  MaxFaults,      \* crashes and failures together
  MaxReindex      \* how often the index may be rebuilt

ASSUME FilesAssumption ==
  /\ Genesis \notin Blocks
  /\ None \notin Blocks \cup {Genesis}
  /\ hashPrev \in [Blocks -> Blocks \cup {Genesis}]
  /\ nHeight \in [Blocks \cup {Genesis} -> Nat]
  /\ \A b \in Blocks : nHeight[b] = nHeight[hashPrev[b]] + 1
  /\ \A S \in SUBSET Blocks : S # {} => \E b \in S : hashPrev[b] \notin S  \* a tree
  /\ {MaxFile, MaxFaults, MaxReindex} \subseteq Nat
  /\ MAX_BLOCKFILE_SIZE \in Nat \ {0, 1}

AllBlocks == Blocks \cup {Genesis}
Files == 0 .. MaxFile
Slots == 0 .. MAX_BLOCKFILE_SIZE + MaxFaults
Kinds == {"blk", "rev"}
Places == [kind : Kinds, file : Files, pos : Slots]

VARIABLES
  mem,        \* nLastBlockFile, infoLastBlockFile, mapBlockIndex,
              \* chainActive.Tip(), pcoinsTip; has WriteChainState written yet?
  db,         \* the index database: file infos, last file, block entries
  dbOld,
  coinsdb,    \* the best block the coin database names
  coinsOld,
  data,       \* what the files hold
  loose,
  pc,         \* where the handler is
  cur,        \* the block that is being stored or connected
  at,         \* the place found for its record
  target,     \* chainMostWork.Tip()
  fReindex,
  scan,       \* reindexing: the block records not yet read
  excused,    \* what went wrong that the code is known not to survive
  nFaults,
  nReindex

disk == <<db, dbOld, coinsdb, coinsOld, data, loose>>
vars == <<mem, disk, pc, cur, at, target, fReindex, scan, excused, nFaults,
          nReindex>>

-----------------------------------------------------------------------------
(* Files and databases                                                     *)

CBlockFileInfo == [nSize : Nat, nUndoSize : Nat]
NullInfo == [nSize |-> 0, nUndoSize |-> 0]
CDiskBlockIndex == [file : Files, pos : 0 .. MAX_BLOCKFILE_SIZE - 1, undo : Slots \cup {None}]
Index == [AllBlocks -> CDiskBlockIndex \cup {None}]

ASSUME NoneAssumption == None \notin Slots /\ None \notin CDiskBlockIndex

Place(k, f, s) == [kind |-> k, file |-> f, pos |-> s]

\* Block b and its ancestors.
Path[b \in AllBlocks \cup {None}] ==
  IF b \in {None, Genesis} THEN {b} \ {None} ELSE {b} \cup Path[hashPrev[b]]

Parent(b) == IF b = Genesis THEN None ELSE hashPrev[b]

Indexed(index) == {b \in AllBlocks : index[b] # None}

\* ReadBlockFromDisk: the record at the block's place is that block.
ReadBlockFromDisk(index, d, b) ==
  d[Place("blk", index[b].file, index[b].pos)] = b

\* CBlockUndo::ReadFromDisk: the checksum covers the block's parent and the
\* undo data, so that a record of another block is refused.
ReadUndo(index, d, b) ==
  /\ index[b].undo # None
  /\ d[Place("rev", index[b].file, index[b].undo)] = b

\* A write to the index database, which a power failure may still lose.
Write(d) == /\ db' = d
            /\ dbOld' = dbOld \cup {d}

\* Fault: records are never committed one by one.
CommittedAtWriteNever(fInitialDownload) == FALSE

\* Does writing a record also commit its file?
CommittedAtWrite(fInitialDownload) == ~fInitialDownload

\* A record is written and, outside of initial block download, its file is
\* committed.
WriteRecord(p, b, fInitialDownload) ==
  /\ data' = [data EXCEPT ![p] = b]
  /\ loose' = IF CommittedAtWrite(fInitialDownload)
              THEN {l \in loose : l.place.kind # p.kind \/ l.place.file # p.file}
              ELSE loose \cup {[place |-> p, initial |-> fInitialDownload]}

\* FlushBlockFile(fFinalize) for the files fs with their infos: both files are
\* committed and, if final, cut to their used size.
Committed(fs) == {l \in loose : l.place.file \notin fs}
Truncated(d, fs, info) ==
  [p \in Places |->
     IF p.file \in fs
        /\ p.pos >= (IF p.kind = "blk" THEN info[p.file].nSize
                                       ELSE info[p.file].nUndoSize)
     THEN None ELSE d[p]]

\* IsInitialBlockDownload depends on the clock, on checkpoints and on
\* fReindex: a choice, but while reindexing.
IsInitialBlockDownload == IF fReindex THEN {TRUE} ELSE BOOLEAN

-----------------------------------------------------------------------------
(* Storing a block                                                         *)

\* Fault: the size of the new block is left out.
RoomInTooMuch(info) == info.nSize <= MAX_BLOCKFILE_SIZE

\* The files that could take the next block: the last one and those after it,
\* if they are not full.  The first of them does.
RoomIn(info) == info.nSize + 1 < MAX_BLOCKFILE_SIZE
InfoOf(f) == IF f = mem.last THEN mem.info ELSE db.f[f]
FileFor == {f \in Files : f >= mem.last /\ RoomIn(InfoOf(f))}

\* FindBlockPos up to WriteBlockFileInfo.  A failure (no disk space) leaves the
\* position taken in memory.
FindBlockPos(b, fFails) ==
  \E n \in FileFor :
    LET left == mem.last .. n - 1
        info == [InfoOf(n) EXCEPT !.nSize = @ + 1]
    IN
    /\ \A f \in FileFor : n <= f
    /\ mem' = [mem EXCEPT !.last = n, !.info = info]
    /\ data' = Truncated(data, left, [f \in Files |-> InfoOf(f)])
    /\ loose' = Committed(left)
    /\ IF fFails
       THEN pc' = "idle" /\ UNCHANGED <<db, dbOld, cur, at>>
       ELSE /\ Write([db EXCEPT !.f[n] = info])
            /\ cur' = b
            /\ at' = Place("blk", n, InfoOf(n).nSize)
            /\ pc' = IF n = mem.last THEN "write" ELSE "last"

\* AcceptBlock for a block whose parent is known, up to the first write.
StoreBlock(b, fFails) ==
  /\ pc = "idle"
  /\ ~fReindex
  /\ mem.index[b] = None
  /\ Parent(b) = None \/ mem.index[Parent(b)] # None
  /\ fFails => nFaults < MaxFaults
  /\ FindBlockPos(b, fFails)
  /\ nFaults' = IF fFails THEN nFaults + 1 ELSE nFaults
  /\ UNCHANGED <<coinsdb, coinsOld, target, fReindex, scan, excused, nReindex>>

\* FindBlockPos, the end: WriteLastBlockFile.
WriteLastBlockFile ==
  /\ pc = "last"
  /\ Write([db EXCEPT !.l = mem.last])
  /\ pc' = IF fReindex THEN "index" ELSE "write"
  /\ UNCHANGED <<mem, coinsdb, coinsOld, data, loose, cur, at, target, fReindex,
                 scan, excused, nFaults, nReindex>>

WriteBlockToDisk ==
  /\ pc = "write"
  /\ \E fInitialDownload \in IsInitialBlockDownload :
       WriteRecord(at, cur, fInitialDownload)
  /\ pc' = "index"
  /\ UNCHANGED <<mem, db, dbOld, coinsdb, coinsOld, cur, at, target, fReindex,
                 scan, excused, nFaults, nReindex>>

\* FindMostWorkChain: a block of the index with the most work, one of them if
\* there are several.
FindMostWorkChain(index) ==
  {b \in Indexed(index) : \A o \in Indexed(index) : nHeight[o] <= nHeight[b]}

AddToBlockIndex ==
  /\ pc = "index"
  /\ LET entry == [file |-> at.file, pos |-> at.pos, undo |-> None] IN
     /\ mem' = [mem EXCEPT !.index[cur] = entry]
     /\ Write([db EXCEPT !.b[cur] = entry])
  /\ target' \in FindMostWorkChain(mem'.index)
  /\ pc' = "activate"
  /\ UNCHANGED <<coinsdb, coinsOld, data, loose, cur, at, fReindex, scan,
                 excused, nFaults, nReindex>>

-----------------------------------------------------------------------------
(* ActivateBestChain                                                       *)

Activated ==
  /\ pc = "activate"
  /\ mem.tip = target
  /\ pc' = "idle"
  /\ cur' = None
  /\ at' = None
  /\ target' = None
  /\ UNCHANGED <<mem, disk, fReindex, scan, excused, nFaults, nReindex>>

\* The block that is connected next, if the tip is on the way to the target.
NextToConnect == {b \in Path[target] : Parent(b) = mem.tip}

\* The assertion that the coins stand at the tip, which a failed
\* WriteChainState leaves untrue: the process stops.
AssertionFails ==
  /\ pc = "activate"
  /\ mem.tip # target
  /\ mem.coins # mem.tip
  /\ pc' = "down"
  /\ UNCHANGED <<mem, disk, cur, at, target, fReindex, scan, excused, nFaults,
                 nReindex>>

\* DisconnectTip up to the flush of its view to pcoinsTip.  A record that
\* cannot be read ends the node.
DisconnectTip ==
  /\ pc = "activate"
  /\ mem.tip # None /\ mem.tip \notin Path[target]
  /\ mem.coins = mem.tip
  /\ IF ReadBlockFromDisk(mem.index, data, mem.tip)
        /\ ReadUndo(mem.index, data, mem.tip)
     THEN /\ mem' = [mem EXCEPT !.coins = Parent(mem.tip)]
          /\ pc' = "state"
     ELSE /\ pc' = "failed"
          /\ UNCHANGED mem
  /\ UNCHANGED <<disk, cur, at, target, fReindex, scan, excused, nFaults,
                 nReindex>>

\* FindUndoPos takes a position in the undo file of the block's own block file;
\* it may then fail for lack of disk space.
FindUndoPos(b, fFails) ==
  LET f == mem.index[b].file
      info == [InfoOf(f) EXCEPT !.nUndoSize = @ + 1]
  IN
  /\ mem' = IF f = mem.last THEN [mem EXCEPT !.info = info] ELSE mem
  /\ Write([db EXCEPT !.f[f] = info])
  /\ IF fFails
     THEN pc' = "idle" /\ cur' = None /\ at' = None
     ELSE /\ pc' = "undo"
          /\ cur' = b
          /\ at' = Place("rev", f, InfoOf(f).nUndoSize)

\* ConnectTip and ConnectBlock up to the writing of undo data.
ConnectTip(fFails) ==
  /\ pc = "activate"
  /\ fFails => nFaults < MaxFaults /\ ~fReindex
  /\ mem.coins = mem.tip
  /\ \E b \in NextToConnect :
       IF ~ReadBlockFromDisk(mem.index, data, b)
       THEN /\ ~fFails
            /\ pc' = "failed"
            /\ UNCHANGED <<mem, db, dbOld, cur, at>>
       ELSE IF mem.index[b].undo # None \/ b = Genesis
       THEN /\ ~fFails
            /\ mem' = [mem EXCEPT !.coins = b]
            /\ pc' = "state"
            /\ UNCHANGED <<db, dbOld, cur, at>>
       ELSE FindUndoPos(b, fFails)
  /\ nFaults' = IF fFails THEN nFaults + 1 ELSE nFaults
  /\ UNCHANGED <<coinsdb, coinsOld, data, loose, target, fReindex, scan,
                 excused, nReindex>>

WriteUndo ==
  /\ pc = "undo"
  /\ \E fInitialDownload \in IsInitialBlockDownload :
       WriteRecord(at, cur, fInitialDownload)
  /\ pc' = "undoindex"
  /\ UNCHANGED <<mem, db, dbOld, coinsdb, coinsOld, cur, at, target, fReindex,
                 scan, excused, nFaults, nReindex>>

\* The index entry learns of the undo data; the view goes to pcoinsTip.
WriteUndoIndex ==
  /\ pc = "undoindex"
  /\ LET entry == [mem.index[cur] EXCEPT !.undo = at.pos] IN
     /\ mem' = [mem EXCEPT !.index[cur] = entry, !.coins = cur]
     /\ Write([db EXCEPT !.b[cur] = entry])
  /\ pc' = "state"
  /\ UNCHANGED <<coinsdb, coinsOld, data, loose, cur, at, target, fReindex,
                 scan, excused, nFaults, nReindex>>

\* Fault: the coins are written, and nothing is synced before.
FlushStateCoinsFirst ==
  /\ coinsdb' = mem.coins
  /\ coinsOld' = coinsOld \cup {mem.coins}
  /\ UNCHANGED <<dbOld, loose>>

\* WriteChainState, the part before the coins: FlushBlockFile and Sync.
FlushState ==
  /\ loose' = Committed({mem.last})
  /\ dbOld' = {db}
  /\ UNCHANGED <<coinsdb, coinsOld>>

\* WriteChainState: it writes unless in initial block download, where it does so
\* the first time and then only now and then.  Without disk space it fails, and
\* the tip is not moved.
WriteChainState ==
  /\ pc = "state"
  /\ \/ /\ FlushState
        /\ pc' = "coins"
        /\ UNCHANGED <<mem, nFaults>>
     \/ /\ TRUE \in IsInitialBlockDownload
        /\ mem.written
        /\ mem' = [mem EXCEPT !.tip = mem.coins]
        /\ pc' = "activate"
        /\ UNCHANGED <<coinsdb, coinsOld, dbOld, loose, nFaults>>
     \/ /\ nFaults < MaxFaults /\ ~fReindex
        /\ nFaults' = nFaults + 1
        /\ pc' = "idle"
        /\ UNCHANGED <<mem, coinsdb, coinsOld, dbOld, loose>>
  /\ cur' = None
  /\ at' = None
  /\ UNCHANGED <<db, data, target, fReindex, scan, excused, nReindex>>

\* WriteChainState, the end: pcoinsTip->Flush(), and then UpdateTip.
WriteCoins ==
  /\ pc = "coins"
  /\ coinsdb' = mem.coins
  /\ coinsOld' = coinsOld \cup {mem.coins}
  /\ mem' = [mem EXCEPT !.tip = mem.coins, !.written = TRUE]
  /\ pc' = "activate"
  /\ UNCHANGED <<db, dbOld, data, loose, cur, at, target, fReindex, scan,
                 excused, nFaults, nReindex>>

-----------------------------------------------------------------------------
(* Shutdown, crashes and starts                                            *)

NoIndex == [b \in AllBlocks |-> None]
NoMemory == [last |-> 0, info |-> NullInfo, index |-> NoIndex, tip |-> None,
             coins |-> None, written |-> FALSE]
Down == /\ pc' = "down"
        /\ mem' = NoMemory
        /\ cur' = None
        /\ at' = None
        /\ target' = None

\* Shutdown: the coins are flushed.  What was written reaches the disk before
\* the next start.
Shutdown ==
  /\ pc = "idle"
  /\ ~fReindex
  /\ Down
  /\ coinsdb' = mem.coins
  /\ coinsOld' = {mem.coins}
  /\ dbOld' = {db}
  /\ loose' = {}
  /\ UNCHANGED <<db, data, fReindex, scan, excused, nFaults, nReindex>>

\* The process dies, or the power fails: each database is what it was after
\* one of the writes since it was synced, and any loose records are gone.
Crash ==
  /\ pc \notin {"down", "failed"}
  /\ ~fReindex
  /\ nFaults < MaxFaults
  /\ \E lost \in SUBSET loose, d \in dbOld, c \in coinsOld :
       /\ data' = [p \in Places |->
                    IF \E l \in lost : l.place = p THEN None ELSE data[p]]
       /\ db' = d
       /\ dbOld' = {d}
       /\ coinsdb' = c
       /\ coinsOld' = {c}
       /\ excused' = excused \cup
                       (IF \E l \in lost : l.initial THEN {"power"} ELSE {})
  /\ loose' = {}
  /\ Down
  /\ nFaults' = nFaults + 1
  /\ UNCHANGED <<fReindex, scan, nReindex>>

\* VerifyDB at its default level: the blocks of the chain can be read, and so
\* can the data to undo them.
VerifyDB(index, d, tip) ==
  \A b \in Path[tip] \ {Genesis} :
    ReadBlockFromDisk(index, d, b) /\ ReadUndo(index, d, b)

\* LoadBlockIndexDB, VerifyDB and the ActivateBestChain of the start.  Without
\* the coins' best block in the index there is no tip, and the start ends with an
\* error; if verification fails, it ends with the proposal to rebuild the index.
LoadBlockIndexDB ==
  /\ pc = "down"
  /\ mem' = [last |-> db.l, info |-> db.f[db.l], index |-> db.b,
             tip |-> coinsdb, coins |-> coinsdb, written |-> FALSE]
  /\ IF coinsdb # None /\ db.b[coinsdb] # None /\ VerifyDB(db.b, data, coinsdb)
     THEN /\ pc' = "activate"
          /\ target' \in FindMostWorkChain(db.b)
     ELSE pc' = "failed" /\ UNCHANGED target
  /\ UNCHANGED <<disk, cur, at, fReindex, scan, excused, nFaults, nReindex>>

\* -reindex: both databases are wiped, and the block files are read again.
EmptyDb == [f |-> [n \in Files |-> NullInfo], l |-> 0, b |-> NoIndex]

StartReindex ==
  /\ pc \in {"down", "failed"}
  /\ nReindex < MaxReindex
  /\ mem' = NoMemory
  /\ db' = EmptyDb
  /\ dbOld' = {EmptyDb}
  /\ coinsdb' = None
  /\ coinsOld' = {None}
  /\ fReindex' = TRUE
  /\ scan' = {p \in Places : p.kind = "blk" /\ data[p] # None}
  /\ nReindex' = nReindex + 1
  /\ pc' = "idle"
  /\ target' = None
  /\ UNCHANGED <<data, loose, cur, at, excused, nFaults>>

\* FindBlockPos(fKnown): how much of the file is used is the sum of the blocks
\* found in it, wherever they lie.
FindKnownPos(p) ==
  LET old == IF mem.last = p.file THEN mem.info ELSE db.f[p.file]
      info == [old EXCEPT !.nSize = @ + 1]
  IN
  /\ mem' = [mem EXCEPT !.last = p.file, !.info = info]
  /\ Write([db EXCEPT !.f[p.file] = info])
  /\ pc' = IF mem.last = p.file THEN "index" ELSE "last"
  /\ excused' = excused \cup (IF p.pos > old.nSize THEN {"reindex"} ELSE {})

\* LoadExternalBlockFile: the next record.  A block that is known already is a
\* duplicate, and one without a parent is dropped.
ReindexBlock ==
  /\ pc = "idle"
  /\ fReindex
  /\ \E p \in scan :
       /\ \A q \in scan : p.file < q.file \/ (p.file = q.file /\ p.pos <= q.pos)
       /\ scan' = scan \ {p}
       /\ LET b == data[p] IN
          IF mem.index[b] = None
             /\ (Parent(b) = None \/ mem.index[Parent(b)] # None)
          THEN /\ FindKnownPos(p)
               /\ cur' = b
               /\ at' = p
          ELSE UNCHANGED <<mem, db, dbOld, cur, at, pc, excused>>
  /\ UNCHANGED <<coinsdb, coinsOld, data, loose, target, fReindex, nFaults,
                 nReindex>>

\* The rebuilding is over.  Faults are not modelled before what it wrote has
\* reached the disk.
EndReindex ==
  /\ pc = "idle"
  /\ fReindex
  /\ scan = {}
  /\ fReindex' = FALSE
  /\ dbOld' = {db}
  /\ coinsOld' = {coinsdb}
  /\ loose' = {}
  /\ UNCHANGED <<mem, db, coinsdb, data, pc, cur, at, target, scan, excused, nFaults,
                 nReindex>>

-----------------------------------------------------------------------------
(* The first start is over: the genesis block is stored and connected.     *)

GenesisInfo == [nSize |-> 1, nUndoSize |-> 0]
GenesisDb ==
  [f |-> [n \in Files |-> IF n = 0 THEN GenesisInfo ELSE NullInfo], l |-> 0,
   b |-> [b \in AllBlocks |->
            IF b = Genesis THEN [file |-> 0, pos |-> 0, undo |-> None] ELSE None]]

Init ==
  /\ db = GenesisDb
  /\ dbOld = {GenesisDb}
  /\ coinsdb = Genesis
  /\ coinsOld = {Genesis}
  /\ data = [p \in Places |-> IF p = Place("blk", 0, 0) THEN Genesis ELSE None]
  /\ loose = {}
  /\ mem = [last |-> 0, info |-> GenesisInfo, index |-> GenesisDb.b,
            tip |-> Genesis, coins |-> Genesis, written |-> TRUE]
  /\ pc = "idle"
  /\ cur = None
  /\ at = None
  /\ target = None
  /\ fReindex = FALSE
  /\ scan = {}
  /\ excused = {}
  /\ nFaults = 0
  /\ nReindex = 0

Next ==
  \/ \E b \in Blocks, fFails \in BOOLEAN : StoreBlock(b, fFails)
  \/ WriteLastBlockFile
  \/ WriteBlockToDisk
  \/ AddToBlockIndex
  \/ Activated
  \/ AssertionFails
  \/ DisconnectTip
  \/ \E fFails \in BOOLEAN : ConnectTip(fFails)
  \/ WriteUndo
  \/ WriteUndoIndex
  \/ WriteChainState
  \/ WriteCoins
  \/ Shutdown
  \/ Crash
  \/ LoadBlockIndexDB
  \/ StartReindex
  \/ ReindexBlock
  \/ EndReindex

Spec == Init /\ [][Next]_vars

-----------------------------------------------------------------------------
(* Properties                                                              *)

Db == [f : [Files -> CBlockFileInfo], l : Files, b : Index]

\* Every variable has its type: positions stay within the files, and an index
\* entry is a place for the block and, once it was connected, for its undo data.
TypeOK ==
  /\ mem \in [last : Files, info : CBlockFileInfo, index : Index,
              tip : AllBlocks \cup {None}, coins : AllBlocks \cup {None},
              written : BOOLEAN]
  /\ db \in Db
  /\ dbOld \subseteq Db
  /\ coinsdb \in AllBlocks \cup {None}
  /\ coinsOld \subseteq AllBlocks \cup {None}
  /\ data \in [Places -> AllBlocks \cup {None}]
  /\ loose \subseteq [place : Places, initial : BOOLEAN]
  /\ pc \in {"idle", "last", "write", "index", "activate", "undo", "undoindex",
             "state", "coins", "down", "failed"}
  /\ cur \in AllBlocks \cup {None}
  /\ at \in Places \cup {None}
  /\ target \in AllBlocks \cup {None}
  /\ fReindex \in BOOLEAN
  /\ scan \subseteq Places
  /\ excused \subseteq {"power", "reindex"}
  /\ nFaults \in 0 .. MaxFaults
  /\ nReindex \in 0 .. MaxReindex

\* Whatever a crash at whatever moment leaves, the next start finds the block
\* the coins stand at in the index, reads every block of that chain and all the
\* data to undo it, and no handler ever meets a record it cannot read.  The
\* exceptions are two.  The power fails and takes records written in initial
\* block download, which are not committed one by one.  Or the index was rebuilt
\* from files with gaps (IndexedRecords says what happens then).
StartsAgain == excused = {} => pc # "failed"

\* Of every block in the index the record is where the index says, and so are
\* the undo data of every block that was connected: no later block was written
\* over them, and no file was cut before them.  The exceptions are those of
\* StartsAgain.
IndexedRecords ==
  excused = {} =>
    \A b \in Indexed(mem.index) :
      /\ ReadBlockFromDisk(mem.index, data, b)
      /\ mem.index[b].undo # None => ReadUndo(mem.index, data, b)

\* The block file is only appended to: without a power failure, the record of
\* an indexed block stays what it is.  This is what the comment in
\* WriteBlockToDisk says; rebuilding the index from a file with a gap makes it
\* untrue, because the used size is then less than the end of the last record.
AppendsOnly ==
  "power" \notin excused =>
    \A b \in Indexed(mem.index) : ReadBlockFromDisk(mem.index, data, b)

=============================================================================
