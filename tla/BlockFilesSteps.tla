--------------------------- MODULE BlockFilesSteps ---------------------------
(***************************************************************************)
(* The inductive invariant of BlockFiles, and that the steps which take no *)
(* new place in a file keep it: writing what has its place, the index, the *)
(* chain state, crashes, starts.  BlockFilesProofs has the other steps and *)
(* the theorems.                                                           *)
(***************************************************************************)
EXTENDS BlockFiles, TLAPS

-----------------------------------------------------------------------------
(* The inductive invariant *)

(* The node has its index in memory.                                         *)
Up == pc # "down"

Storing == pc \in {"last", "write", "index"}
Undoing == pc \in {"undo", "undoindex"}
Activating == pc \in {"activate", "undo", "undoindex", "state", "coins"}

(* Of an indexed block the parent is indexed.                                *)
Closed(index) == \A b \in Indexed(index) : b # Genesis => hashPrev[b] \in Indexed(index)

(* What every handler finds: where it stands, and what the parts of memory   *)
(* have to do with each other and with the index database.                   *)
Shape ==
  /\ db \in dbOld /\ coinsdb \in coinsOld
  /\ \A d \in dbOld : Closed(d.b)
  /\ \A l \in loose : l.initial
  /\ Up => mem.index = db.b
  /\ ~Up => mem.index \in {db.b, NoIndex}
  /\ pc \notin {"down", "failed"} =>
       {mem.tip, mem.coins} \subseteq Indexed(mem.index) \cup {None}
  /\ Storing =>
       /\ at \in Places /\ at.kind = "blk" /\ at.pos < MAX_BLOCKFILE_SIZE - 1
       /\ cur \in AllBlocks /\ mem.index[cur] = None
       /\ cur # Genesis => mem.index[hashPrev[cur]] # None
  /\ Undoing =>
       /\ at \in Places /\ at.kind = "rev"
       /\ cur \in Indexed(mem.index) \ {Genesis} /\ mem.index[cur].undo = None
       /\ mem.index[cur].file = at.file /\ hashPrev[cur] = mem.tip
  /\ Activating => target \in Indexed(mem.index)
  /\ fReindex => /\ Up /\ pc # "write"
                 /\ pc \notin {"state", "coins", "failed"} => mem.coins = mem.tip

(* Blocks with their record, and no undo data yet, in file f.                *)
Awaiting(index, f) ==
  {b \in Indexed(index) : index[b].file = f /\ index[b].undo = None}

(* There are at most n blocks in S.                                          *)
Rooms == {r \in (SUBSET AllBlocks) \X Nat :
            \E h \in [r[1] -> 1 .. r[2]] : \A x, y \in r[1] : h[x] = h[y] => x = y}
Room(S, n) == <<S, n>> \in Rooms

(* How many undo records the file may still take, if no more space is taken  *)
(* in vain than what slack allows.                                           *)
Left(d, f, slack) == d.f[f].nSize + slack - d.f[f].nUndoSize

(* The used sizes of a file leave room for the undo data it awaits.          *)
Counted(d, slack) ==
  \A f \in Files : /\ d.f[f].nSize < MAX_BLOCKFILE_SIZE
                   /\ Room(Awaiting(d.b, f), Left(d, f, slack))

(* Files do not grow beyond their slots.                                     *)
Sizes ==
  /\ \A d \in dbOld : Counted(d, nFaults + 1)
  /\ ~Undoing => Counted(db, nFaults)
  /\ Undoing => \A f \in Files \ {at.file} : Room(Awaiting(db.b, f), Left(db, f, nFaults))
  /\ Up => /\ mem.info.nUndoSize = db.f[mem.last].nUndoSize
           /\ db.f[mem.last].nSize <= mem.info.nSize
           /\ mem.info.nSize < MAX_BLOCKFILE_SIZE
  /\ Storing => Room(Awaiting(db.b, at.file), Left(db, at.file, nFaults - 1))
  /\ \A p \in Places :
       p.kind = "blk" /\ data[p] # None => p.pos < MAX_BLOCKFILE_SIZE - 1
  /\ fReindex => \A p \in scan :
                   p.kind = "blk" /\ data[p] # None /\ InfoOf(p.file).nSize <= p.pos

(* The records of the blocks of d are there, below the sizes d knows.        *)
Sound(d) ==
  \A b \in Indexed(d.b) :
    LET e == d.b[b] IN
    /\ e.pos < d.f[e.file].nSize /\ data[Place("blk", e.file, e.pos)] = b
    /\ e.undo # None =>
         e.undo < d.f[e.file].nUndoSize /\ data[Place("rev", e.file, e.undo)] = b

(* No database that a crash may bring back has a record at the place.        *)
Free(p) ==
  \A d \in dbOld : \A b \in Indexed(d.b) :
    /\ p # Place("blk", d.b[b].file, d.b[b].pos)
    /\ d.b[b].undo # None => p # Place("rev", d.b[b].file, d.b[b].undo)

(* Whichever database a crash brings back, its records are there.            *)
Records ==
  /\ \A d \in dbOld : Sound(d)
  /\ \A d \in dbOld, f \in Files :
       d.f[f].nSize <= db.f[f].nSize /\ d.f[f].nUndoSize <= db.f[f].nUndoSize
  /\ Storing => at.pos < db.f[at.file].nSize
  /\ Undoing => at.pos < db.f[at.file].nUndoSize
  /\ pc \in {"last", "write"} /\ ~fReindex => Free(at)
  /\ pc = "undo" => Free(at)
  /\ pc = "index" \/ (pc = "last" /\ fReindex) \/ pc = "undoindex" => data[at] = cur

(* The chain that ends in c can be undone with what the index d knows.       *)
Undoable(index, c) ==
  /\ c \in Indexed(index)
  /\ \A b \in Path[c] \ {Genesis} : index[b] # None /\ index[b].undo # None

(* The genesis block is the first record of the first file.                  *)
Origin == Place("blk", 0, 0)
AtOrigin(index) ==
  Genesis \in Indexed(index) /\ index[Genesis].file = 0 /\ index[Genesis].pos = 0

(* Rebuilding the index: the genesis block is the first that is found, and   *)
(* its coins are written.                                                    *)
Rebuilding ==
  /\ data[Origin] = Genesis
  /\ Genesis \in Indexed(db.b) => AtOrigin(db.b)
  /\ Origin \in scan => pc = "idle" /\ mem.index = NoIndex
  /\ coinsdb = None =>
       /\ ~mem.written /\ mem.tip = None
       /\ Origin \notin scan =>
            \/ pc \in {"last", "index"} /\ cur = Genesis /\ at = Origin
            \/ pc = "activate" /\ target = Genesis
            \/ pc \in {"state", "coins"} /\ mem.coins = Genesis
  /\ coinsdb # None => mem.tip # None /\ mem.coins # None

(* Whichever databases a crash brings back, the coins stand at a block whose *)
(* chain can be read and undone.                                             *)
Chains ==
  /\ pc # "failed"
  /\ ~fReindex => /\ \A d \in dbOld, c \in coinsOld : Undoable(d.b, c)
                  /\ \A d \in dbOld : AtOrigin(d.b)
                  /\ Up => mem.tip # None /\ mem.coins # None
  /\ fReindex => /\ Undoable(db.b, coinsdb) \/ coinsdb = None
                 /\ Rebuilding
  /\ Up => /\ Undoable(db.b, mem.tip) \/ mem.tip = None
           /\ Undoable(db.b, mem.coins) \/ mem.coins = None
  /\ pc = "coins" => dbOld = {db}

IndInv == TypeOK /\ Shape /\ Sizes /\ (excused = {} => Records /\ Chains)

(* What most steps use of it.                                                *)
LEMMA Basics ==
  ASSUME IndInv
  PROVE  /\ db \in Db /\ db \in dbOld /\ dbOld \subseteq Db /\ nFaults \in 0 .. MaxFaults
         /\ nFaults \in Nat /\ MAX_BLOCKFILE_SIZE \in Nat
         /\ mem.coins \in AllBlocks \cup {None} /\ mem.tip \in AllBlocks \cup {None}
         /\ Up => mem.index = db.b
         /\ ~Undoing => Counted(db, nFaults)
         /\ Shape /\ TypeOK /\ Sizes
<1>1. TypeOK /\ Shape /\ Sizes
  BY DEF IndInv
<1>2. db \in Db /\ dbOld \subseteq Db /\ nFaults \in 0 .. MaxFaults
  BY Zenon, <1>1 DEF TypeOK
<1>3. nFaults \in Nat /\ MAX_BLOCKFILE_SIZE \in Nat
  BY <1>2, FilesAssumption
<1>4. mem.coins \in AllBlocks \cup {None} /\ mem.tip \in AllBlocks \cup {None}
  BY <1>1 DEF TypeOK
<1>5. db \in dbOld /\ (Up => mem.index = db.b)
  BY Zenon, <1>1 DEF Shape
<1>6. ~Undoing => Counted(db, nFaults)
  BY Zenon, <1>1 DEF Sizes
<1> QED BY <1>1, <1>2, <1>3, <1>4, <1>5, <1>6

-----------------------------------------------------------------------------
(* Paths *)

(* The blocks of every set that contains b and, with a block, its parent.    *)
Ancestors(b) ==
  {x \in AllBlocks : \A S \in SUBSET AllBlocks :
     (b \in S /\ \A y \in S \ {Genesis} : hashPrev[y] \in S) => x \in S}

(* Path satisfies its defining equation.                                     *)
LEMMA PathEquation ==
  /\ Path[None] = {} /\ Path[Genesis] = {Genesis}
  /\ \A b \in Blocks : Path[b] = {b} \cup Path[hashPrev[b]]
<1> DEFINE D == AllBlocks \cup {None}
           Is(p) == p = [b \in D |-> IF b \in {None, Genesis} THEN {b} \ {None}
                                     ELSE {b} \cup p[hashPrev[b]]]
           C == [b \in D |-> IF b = None THEN {} ELSE Ancestors(b)]
<1>0. /\ None \notin AllBlocks /\ Genesis \notin Blocks /\ AllBlocks = Blocks \cup {Genesis}
      /\ \A b \in Blocks : hashPrev[b] \in AllBlocks
  BY FilesAssumption DEF AllBlocks
<1>1. Ancestors(Genesis) = {Genesis}
  <2>1. Ancestors(Genesis) \subseteq {Genesis}
    <3>1. \A y \in {Genesis} \ {Genesis} : hashPrev[y] \in {Genesis}
      OBVIOUS
    <3>2. {Genesis} \in SUBSET AllBlocks
      BY <1>0
    <3> QED BY Zenon, <3>1, <3>2 DEF Ancestors
  <2>2. Genesis \in Ancestors(Genesis)
    BY <1>0 DEF Ancestors
  <2> QED BY <2>1, <2>2
<1>2. ASSUME NEW x \in Blocks PROVE Ancestors(x) = {x} \cup Ancestors(hashPrev[x])
  <2>0. x \in AllBlocks /\ hashPrev[x] \in AllBlocks /\ x # Genesis
    BY <1>0
  <2>1. ASSUME NEW y \in Ancestors(x) PROVE y \in {x} \cup Ancestors(hashPrev[x])
    <3> DEFINE T == {x} \cup Ancestors(hashPrev[x])
    <3>1. T \in SUBSET AllBlocks /\ x \in T
      BY <2>0 DEF Ancestors
    <3>2. ASSUME NEW z \in T \ {Genesis} PROVE hashPrev[z] \in T
      <4>1. CASE z = x
        BY <2>0, <4>1 DEF Ancestors
      <4>2. CASE z \in Ancestors(hashPrev[x])
        <5>1. z \in Blocks /\ hashPrev[z] \in AllBlocks
          BY <1>0, <3>1, <3>2
        <5> QED BY <3>2, <4>2, <5>1 DEF Ancestors
      <4> QED BY <3>2, <4>1, <4>2
    <3> QED BY Zenon, <2>1, <3>1, <3>2 DEF Ancestors
  <2>2. x \in Ancestors(x)
    BY <2>0 DEF Ancestors
  <2>3. ASSUME NEW y \in Ancestors(hashPrev[x]) PROVE y \in Ancestors(x)
    BY <2>0, <2>3 DEF Ancestors
  <2> QED BY <2>1, <2>2, <2>3
<1>3. Is(C)
  <2>1. ASSUME NEW b \in D
        PROVE  C[b] = IF b \in {None, Genesis} THEN {b} \ {None} ELSE {b} \cup C[hashPrev[b]]
    <3>1. CASE b = None
      BY <3>1
    <3>2. CASE b = Genesis
      BY <1>0, <1>1, <3>2
    <3>3. CASE b \in Blocks
      <4>1. b \notin {None, Genesis} /\ hashPrev[b] \in D /\ hashPrev[b] # None
        BY <1>0, <3>3
      <4> QED BY <1>2, <3>3, <4>1
    <3> QED BY <1>0, <3>1, <3>2, <3>3
  <2> QED BY Zenon, <2>1
<1>4. Path = CHOOSE p : Is(p)
  BY DEF Path
<1>5. Is(Path)
  <2> HIDE DEF Is, C
  <2> QED BY Zenon, <1>3, <1>4
<1>6. \A b \in D : Path[b] = IF b \in {None, Genesis} THEN {b} \ {None}
                            ELSE {b} \cup Path[hashPrev[b]]
  BY Zenon, <1>5
<1> QED BY Zenon, <1>0, <1>6

(* What holds of the genesis block, and of a block if it holds of its        *)
(* parent, holds of all blocks.                                              *)
LEMMA BlockInduction ==
  ASSUME NEW Good \in SUBSET AllBlocks, Genesis \in Good,
         \A b \in Blocks : hashPrev[b] \in Good => b \in Good
  PROVE  \A b \in AllBlocks : b \in Good
<1> DEFINE Bad == AllBlocks \ Good
<1>1. /\ Bad \in SUBSET Blocks
      /\ \A b \in Bad : hashPrev[b] \in Bad
  BY FilesAssumption DEF AllBlocks
<1> HIDE DEF Bad
<1>2. Bad = {}
  BY Zenon, <1>1, FilesAssumption
<1> QED BY <1>2 DEF Bad

(* A path is a set of blocks, with the block itself and the genesis block.   *)
LEMMA PathContains ==
  \A b \in AllBlocks : b \in Path[b] /\ Genesis \in Path[b] /\ Path[b] \subseteq AllBlocks
<1> DEFINE Good == {b \in AllBlocks : b \in Path[b] /\ Genesis \in Path[b]
                                       /\ Path[b] \subseteq AllBlocks}
<1>1. Genesis \in Good
  BY PathEquation DEF AllBlocks
<1>2. \A b \in Blocks : hashPrev[b] \in Good => b \in Good
  BY PathEquation DEF AllBlocks
<1>3. Good \in SUBSET AllBlocks
  OBVIOUS
<1> HIDE DEF Good
<1>4. \A b \in AllBlocks : b \in Good
  BY Zenon, <1>1, <1>2, <1>3, BlockInduction
<1> QED BY Zenon, <1>4 DEF Good

(* The ancestors of an indexed block are indexed.                            *)
LEMMA PathIndexed ==
  ASSUME NEW index, Closed(index)
  PROVE  \A b \in Indexed(index) : Path[b] \subseteq Indexed(index)
<1> DEFINE Good == {b \in AllBlocks : b \in Indexed(index) => Path[b] \subseteq Indexed(index)}
<1>1. Genesis \in Good
  BY PathEquation DEF AllBlocks
<1>2. ASSUME NEW b \in Blocks, hashPrev[b] \in Good PROVE b \in Good
  <2>1. b \in AllBlocks /\ b # Genesis /\ Path[b] = {b} \cup Path[hashPrev[b]]
    BY FilesAssumption, PathEquation DEF AllBlocks
  <2> QED BY <1>2, <2>1 DEF Closed
<1>3. Good \in SUBSET AllBlocks
  OBVIOUS
<1> HIDE DEF Good
<1>4. \A b \in AllBlocks : b \in Good
  BY Zenon, <1>1, <1>2, <1>3, BlockInduction
<1> QED BY Zenon, <1>4 DEF Good, Indexed

-----------------------------------------------------------------------------
(* Steps that write nothing *)

(* What the steps of this section leave alone.                               *)
Still == UNCHANGED <<disk, fReindex, scan, excused, nFaults, nReindex>>

(* The sizes are right if no record is being stored.                         *)
LEMMA StillSizes ==
  ASSUME Sizes, Still, ~Storing', ~Undoing, ~Undoing', Up' => Up,
         UNCHANGED <<mem.last, mem.info>>
  PROVE  Sizes'
BY Zenon DEF Sizes, Still, disk, Counted, Awaiting, Left, Room, Indexed, InfoOf, Up

(* The records stay where they are if none is being stored.                  *)
LEMMA StillRecords ==
  ASSUME Records, Still, ~Storing', ~Undoing'
  PROVE  Records'
BY DEF Records, Still, disk, Sound, Indexed, Storing, Undoing

(* The chain ends where it should: nothing on disk changes.                  *)
LEMMA ActivatedStep == IndInv /\ Activated => IndInv'
<1> SUFFICES ASSUME IndInv, Activated PROVE IndInv'
  OBVIOUS
<1>1. Still /\ mem' = mem /\ ~Storing' /\ ~Undoing /\ ~Undoing' /\ Up /\ Up'
  BY DEF Activated, Still, disk, Storing, Undoing, Up
<1>2. TypeOK'
  BY DEF IndInv, TypeOK, Activated, disk
<1>3. Shape'
  BY DEF IndInv, Shape, Activated, disk, Storing, Undoing, Activating, Up, Indexed, Closed
<1>4. Sizes'
  BY <1>1, StillSizes DEF IndInv
<1>5. ASSUME excused' = {} PROVE Records' /\ Chains'
  <2>1. Records /\ Chains
    BY <1>1, <1>5 DEF IndInv, Still
  <2>2. Records'
    BY <1>1, <2>1, StillRecords
  <2>3. Chains'
    <3>1. Genesis # None
      BY FilesAssumption
    <3> QED BY <1>1, <2>1, <3>1 DEF Chains, Activated, disk, Undoable, Rebuilding, Indexed, AtOrigin, Up
  <2> QED BY <2>2, <2>3
<1> QED BY <1>2, <1>3, <1>4, <1>5 DEF IndInv

(* The process that stops leaves what a start can load.                      *)
LEMMA AssertionStep == IndInv /\ AssertionFails => IndInv'
<1> SUFFICES ASSUME IndInv, AssertionFails PROVE IndInv'
  OBVIOUS
<1>1. Still /\ mem' = mem /\ ~Storing' /\ ~Undoing /\ ~Undoing' /\ Up /\ ~Up'
  BY DEF AssertionFails, Still, disk, Storing, Undoing, Up
<1>2. TypeOK'
  BY DEF IndInv, TypeOK, AssertionFails, disk
<1>3. ~fReindex
  BY DEF IndInv, Shape, AssertionFails
<1>4. Shape'
  BY <1>3 DEF IndInv, Shape, AssertionFails, disk, Storing, Undoing, Activating, Up, Indexed, Closed
<1>5. Sizes'
  BY <1>1, StillSizes DEF IndInv
<1>6. ASSUME excused' = {} PROVE Records' /\ Chains'
  <2>1. Records /\ Chains
    BY <1>1, <1>6 DEF IndInv, Still
  <2>2. Records'
    BY <1>1, <2>1, StillRecords
  <2>3. Chains'
    BY <1>1, <1>3, <2>1 DEF Chains, AssertionFails, disk, Undoable, Indexed, AtOrigin, Up
  <2> QED BY <2>2, <2>3
<1> QED BY <1>2, <1>4, <1>5, <1>6 DEF IndInv

(* A chain that can be undone can be undone from the parent of its tip on.   *)
LEMMA UndoableParent ==
  ASSUME NEW index, Closed(index), NEW c, Undoable(index, c), c # Genesis
  PROVE  c \in Blocks /\ Undoable(index, hashPrev[c])
<1>1. c \in Blocks /\ c \in Indexed(index)
  BY DEF Undoable, Indexed, AllBlocks
<1>2. hashPrev[c] \in Indexed(index)
  BY <1>1 DEF Closed
<1>3. Path[c] = {c} \cup Path[hashPrev[c]]
  BY <1>1, PathEquation
<1> QED BY <1>1, <1>2, <1>3 DEF Undoable

(* A chain that can be undone can be, with a block of undo data more.        *)
LEMMA UndoableChild ==
  ASSUME NEW index, NEW b \in Indexed(index),
         b # Genesis => Undoable(index, hashPrev[b]) /\ index[b].undo # None
  PROVE  Undoable(index, b)
<1>1. CASE b = Genesis
  BY <1>1, PathEquation DEF Undoable
<1>2. CASE b # Genesis
  <2>1. b \in Blocks
    BY <1>2 DEF Indexed, AllBlocks
  <2>2. Path[b] = {b} \cup Path[hashPrev[b]]
    BY <2>1, PathEquation
  <2> QED BY <1>2, <2>2 DEF Undoable, Indexed
<1> QED BY <1>1, <1>2

(* The tip has its record and undo data, so that it can be disconnected.     *)
LEMMA DisconnectStep == IndInv /\ DisconnectTip => IndInv'
<1> SUFFICES ASSUME IndInv, DisconnectTip PROVE IndInv'
  OBVIOUS
<1> DEFINE tip == mem.tip
           found == ReadBlockFromDisk(mem.index, data, tip) /\ ReadUndo(mem.index, data, tip)
<1>1. /\ Still /\ ~Storing' /\ ~Undoing /\ ~Undoing' /\ Up /\ Up' /\ pc = "activate"
      /\ UNCHANGED <<mem.last, mem.info, mem.index, mem.tip, mem.written, cur, at, target>>
      /\ tip # None /\ tip \notin Path[target] /\ mem.coins = tip
      /\ found => pc' = "state" /\ mem' = [mem EXCEPT !.coins = Parent(tip)]
      /\ found => mem'.coins = Parent(tip)
      /\ ~found => pc' = "failed" /\ mem' = mem
  BY DEF IndInv, TypeOK, DisconnectTip, Still, disk, Storing, Undoing, Up
<1> HIDE DEF found
<1>2. target \in Indexed(mem.index) /\ tip \in Indexed(mem.index) /\ mem.index = db.b
  BY <1>1 DEF IndInv, Shape, Activating, Up
<1>3. tip \in Blocks /\ hashPrev[tip] \in Indexed(mem.index)
  <2>1. Genesis \in Path[target]
    BY <1>2, PathContains DEF Indexed
  <2>2. Closed(mem.index)
    BY <1>2 DEF IndInv, Shape
  <2> QED BY <1>1, <1>2, <2>1, <2>2 DEF Indexed, AllBlocks, Closed
<1>4. Parent(tip) = hashPrev[tip] /\ hashPrev[tip] \in AllBlocks
  BY <1>3, FilesAssumption DEF Parent, AllBlocks
<1>5. TypeOK'
  <2>1. mem' \in [last : Files, info : CBlockFileInfo, index : Index,
                  tip : AllBlocks \cup {None}, coins : AllBlocks \cup {None},
                  written : BOOLEAN]
    BY <1>1, <1>4 DEF IndInv, TypeOK
  <2>2. pc' \in {"state", "failed"}
    BY <1>1
  <2> QED BY <1>1, <2>1, <2>2 DEF IndInv, TypeOK, Still, disk
<1>6. Shape'
  BY <1>1, <1>2, <1>3, <1>4 DEF IndInv, Shape, Still, disk, Storing, Undoing, Activating, Up, Indexed, Closed
<1>7. Sizes'
  BY <1>1, StillSizes DEF IndInv
<1>8. ASSUME excused' = {} PROVE Records' /\ Chains'
  <2>1. Records /\ Chains
    BY <1>1, <1>8 DEF IndInv, Still
  <2>2. Records'
    BY <1>1, <2>1, StillRecords
  <2>3. Undoable(db.b, tip)
    BY <1>1, <2>1 DEF Chains
  <2>4. found
    <3>1. db \in dbOld /\ Sound(db)
      BY <2>1 DEF Records, IndInv, Shape
    <3>2. db.b[tip].undo # None
      BY <1>2, <1>3, <2>3, PathContains, FilesAssumption DEF Undoable, AllBlocks, Indexed
    <3> QED BY <1>2, <3>1, <3>2 DEF Sound, ReadBlockFromDisk, ReadUndo, found
  <2>5. Undoable(db.b, hashPrev[tip]) /\ hashPrev[tip] # None
    <3>1. Closed(db.b)
      BY DEF IndInv, Shape
    <3>2. tip # Genesis /\ hashPrev[tip] # None
      BY <1>3, FilesAssumption
    <3> QED BY <2>3, <3>1, <3>2, UndoableParent
  <2>6. pc' = "state" /\ mem'.coins = hashPrev[tip]
    BY <1>1, <1>4, <2>4
  <2>7. Undoable(db.b, tip)' /\ Undoable(db.b, mem.coins)'
    BY <1>1, <2>3, <2>5, <2>6 DEF Undoable, Still, disk, Indexed
  <2>8. Rebuilding => Rebuilding'
    BY <1>1, <2>5, <2>6 DEF Rebuilding, Still, disk, AtOrigin, Indexed
  <2>9. Chains'
    BY <1>1, <2>1, <2>5, <2>6, <2>7, <2>8 DEF Chains, Still, disk, Undoable, Indexed, AtOrigin, Up
  <2> QED BY <2>2, <2>9
<1> QED BY <1>5, <1>6, <1>7, <1>8 DEF IndInv

(* The start finds the coins' best block indexed, and verifies its chain.    *)
LEMMA LoadStep == IndInv /\ LoadBlockIndexDB => IndInv'
<1> SUFFICES ASSUME IndInv, LoadBlockIndexDB PROVE IndInv'
  OBVIOUS
<1> DEFINE found == /\ coinsdb # None /\ db.b[coinsdb] # None
                    /\ VerifyDB(db.b, data, coinsdb)
<1>1. /\ Still /\ pc = "down" /\ Up' /\ ~Storing' /\ ~Undoing /\ ~Undoing' /\ UNCHANGED <<cur, at>>
      /\ mem' = [last |-> db.l, info |-> db.f[db.l], index |-> db.b,
                 tip |-> coinsdb, coins |-> coinsdb, written |-> FALSE]
      /\ found => pc' = "activate" /\ target' \in Indexed(db.b)
      /\ ~found => pc' = "failed" /\ target' = target
  BY DEF LoadBlockIndexDB, FindMostWorkChain, Still, disk, Storing, Undoing, Up
<1>2. /\ mem'.last = db.l /\ mem'.info = db.f[db.l] /\ mem'.index = db.b
      /\ mem'.tip = coinsdb /\ mem'.coins = coinsdb
  BY <1>1
<1>3. ~fReindex /\ db \in Db /\ coinsdb \in AllBlocks \cup {None}
  BY <1>1 DEF IndInv, Shape, Up, TypeOK
<1>4. found => coinsdb \in Indexed(db.b)
  BY <1>3 DEF Indexed
<1> HIDE DEF found
<1>5. TypeOK'
  <2>1. mem' \in [last : Files, info : CBlockFileInfo, index : Index,
                  tip : AllBlocks \cup {None}, coins : AllBlocks \cup {None},
                  written : BOOLEAN]
    BY <1>1, <1>3 DEF Db
  <2>2. pc' \in {"activate", "failed"} /\ target' \in AllBlocks \cup {None}
    BY <1>1 DEF IndInv, TypeOK, Indexed
  <2> QED BY <1>1, <2>1, <2>2 DEF IndInv, TypeOK, Still, disk
<1>6. Shape'
  BY <1>1, <1>2, <1>3, <1>4 DEF IndInv, Shape, Still, disk, Storing, Undoing, Activating, Up, Indexed, Closed
<1>7. Sizes'
  <2>1. db.l \in Files /\ db.f[db.l].nSize \in Nat
    BY <1>3 DEF Db, CBlockFileInfo
  <2>2. Counted(db, nFaults)
    BY <1>1 DEF IndInv, Sizes
  <2>3. db.f[db.l].nSize < MAX_BLOCKFILE_SIZE
    BY <2>1, <2>2 DEF Counted
  <2>4. (Up => /\ mem.info.nUndoSize = db.f[mem.last].nUndoSize
               /\ db.f[mem.last].nSize <= mem.info.nSize
               /\ mem.info.nSize < MAX_BLOCKFILE_SIZE)'
    BY <1>1, <1>2, <2>1, <2>3 DEF Still, disk
  <2>5. (\A d \in dbOld : Counted(d, nFaults + 1))' /\ Counted(db, nFaults)'
    BY Zenon, <1>1, <2>2 DEF IndInv, Sizes, Still, disk, Counted, Awaiting, Left, Room, Indexed
  <2> QED BY Zenon, <1>1, <1>3, <2>4, <2>5 DEF IndInv, Sizes, Still, disk
<1>8. ASSUME excused' = {} PROVE Records' /\ Chains'
  <2>1. Records /\ Chains
    BY <1>1, <1>8 DEF IndInv, Still
  <2>2. Records'
    BY <1>1, <2>1, StillRecords
  <2>3. db \in dbOld /\ coinsdb \in coinsOld /\ Closed(db.b)
    BY DEF IndInv, Shape
  <2>4. Undoable(db.b, coinsdb)
    BY <1>3, <2>1, <2>3 DEF Chains
  <2>5. found
    <3>1. Sound(db)
      BY <2>1, <2>3 DEF Records
    <3>2. coinsdb # None /\ db.b[coinsdb] # None
      BY <2>4, FilesAssumption DEF Undoable, Indexed, AllBlocks
    <3>3. ASSUME NEW b \in Path[coinsdb] \ {Genesis}
          PROVE  ReadBlockFromDisk(db.b, data, b) /\ ReadUndo(db.b, data, b)
      <4>1. db.b[b] # None /\ db.b[b].undo # None
        BY <2>4 DEF Undoable
      <4>2. b \in Indexed(db.b)
        BY <2>3, <2>4, PathIndexed DEF Undoable
      <4> QED BY <3>1, <4>1, <4>2 DEF Sound, ReadBlockFromDisk, ReadUndo
    <3> QED BY <3>2, <3>3 DEF VerifyDB, found
  <2>6. Undoable(db.b, mem.tip)' /\ Undoable(db.b, mem.coins)' /\ coinsdb # None
    BY <1>1, <1>2, <2>4, FilesAssumption DEF Undoable, Still, disk, Indexed, AllBlocks
  <2>7. Chains'
    BY <1>1, <1>2, <1>3, <2>1, <2>5, <2>6 DEF Chains, Still, disk, Undoable, Indexed, AtOrigin, Up
  <2> QED BY <2>2, <2>7
<1> QED BY <1>5, <1>6, <1>7, <1>8 DEF IndInv

-----------------------------------------------------------------------------
(* Steps that end the connection of a block *)

(* What room means.                                                          *)
LEMMA RoomHas ==
  ASSUME NEW S \in SUBSET AllBlocks, NEW n \in Int
  PROVE  Room(S, n) <=> n \in Nat /\ \E h \in [S -> 1 .. n] : \A x, y \in S : h[x] = h[y] => x = y
BY DEF Room, Rooms

(* What there is room for in n there is room for in more.                    *)
LEMMA RoomMore ==
  ASSUME NEW S, NEW m \in Int, NEW n \in Int, m <= n, Room(S, m)
  PROVE  Room(S, n)
<1>0. S \in SUBSET AllBlocks
  BY DEF Room, Rooms
<1>1. PICK h \in [S -> 1 .. m] : \A x, y \in S : h[x] = h[y] => x = y
  BY Zenon, <1>0, RoomHas
<1>2. h \in [S -> 1 .. n] /\ n \in Nat
  BY <1>0, RoomHas
<1> QED BY <1>0, <1>1, <1>2, RoomHas

(* Nothing takes no room.                                                    *)
LEMMA RoomNone ==
  ASSUME NEW n \in Nat
  PROVE  Room({}, n)
<1>1. [x \in {} |-> 1] \in [{} -> 1 .. n]
  OBVIOUS
<1>2. \E h \in [{} -> 1 .. n] : \A x, y \in {} : h[x] = h[y] => x = y
  BY Zenon, <1>1
<1>3. {} \in SUBSET AllBlocks /\ n \in Int
  OBVIOUS
<1> QED BY Zenon, <1>2, <1>3, RoomHas

(* One more block needs one more place.                                      *)
LEMMA RoomAdd ==
  ASSUME NEW S, NEW n \in Int, Room(S, n), NEW b \in AllBlocks
  PROVE  Room(S \cup {b}, n + 1)
<1>0. S \in SUBSET AllBlocks
  BY DEF Room, Rooms
<1>1. PICK h \in [S -> 1 .. n] : \A x, y \in S : h[x] = h[y] => x = y
  BY Zenon, <1>0, RoomHas
<1>2. n \in Nat
  BY <1>0, RoomHas
<1> DEFINE g == [x \in S \cup {b} |-> IF x \in S THEN h[x] ELSE n + 1]
<1>3. g \in [S \cup {b} -> 1 .. n + 1]
  BY <1>2
<1>4. \A x, y \in S \cup {b} : g[x] = g[y] => x = y
  BY <1>1, <1>2
<1> HIDE DEF g
<1> QED BY <1>0, <1>2, <1>3, <1>4, RoomHas

(* One block less frees a place: the block in the last one moves to it.      *)
LEMMA RoomLess ==
  ASSUME NEW S, NEW n \in Int, Room(S, n), NEW b \in S
  PROVE  Room(S \ {b}, n - 1)
<1>0. S \in SUBSET AllBlocks
  BY DEF Room, Rooms
<1>1. PICK h \in [S -> 1 .. n] : \A x, y \in S : h[x] = h[y] => x = y
  BY Zenon, <1>0, RoomHas
<1> DEFINE g == [x \in S \ {b} |-> IF h[x] = n THEN h[b] ELSE h[x]]
<1>2. g \in [S \ {b} -> 1 .. n - 1] /\ n - 1 \in Nat
  BY <1>1
<1>3. \A x, y \in S \ {b} : g[x] = g[y] => x = y
  BY <1>1
<1> HIDE DEF g
<1> QED BY <1>0, <1>2, <1>3, RoomHas

(* What is left of a file is a number.                                       *)
LEMMA LeftType ==
  ASSUME NEW d \in Db, NEW f \in Files, NEW m \in Int
  PROVE  /\ d.f[f].nSize \in Nat /\ d.f[f].nUndoSize \in Nat /\ Left(d, f, m) \in Int
         /\ Left(d, f, m + 1) = Left(d, f, m) + 1 /\ Left(d, f, m - 1) = Left(d, f, m) - 1
BY DEF Db, CBlockFileInfo, Left

(* More may be wasted.                                                       *)
LEMMA CountedMore ==
  ASSUME NEW d \in Db, NEW m \in Nat, NEW n \in Nat, m <= n, Counted(d, m)
  PROVE  Counted(d, n)
<1> SUFFICES ASSUME NEW f \in Files PROVE Room(Awaiting(d.b, f), Left(d, f, n))
  BY DEF Counted
<1>1. Left(d, f, m) \in Int /\ Left(d, f, n) \in Int /\ Left(d, f, m) <= Left(d, f, n)
  BY DEF Db, CBlockFileInfo, Left
<1> QED BY <1>1, RoomMore DEF Counted

(* A file that takes a block has room for its undo data.                     *)
LEMMA GrownCounted ==
  ASSUME NEW d \in Db, NEW e \in Db, NEW n \in Files, NEW m \in Nat, Counted(d, m), e.b = d.b,
         e.f[n].nUndoSize = d.f[n].nUndoSize, d.f[n].nSize < e.f[n].nSize,
         e.f[n].nSize < MAX_BLOCKFILE_SIZE, \A f \in Files \ {n} : e.f[f] = d.f[f]
  PROVE  Counted(e, m) /\ Room(Awaiting(e.b, n), Left(e, n, m - 1))
<1>1. Room(Awaiting(e.b, n), Left(e, n, m - 1)) /\ Room(Awaiting(e.b, n), Left(e, n, m))
  <2>1. /\ Left(d, n, m) \in Int /\ Left(e, n, m - 1) \in Int /\ Left(e, n, m) \in Int
        /\ Left(d, n, m) <= Left(e, n, m - 1) /\ Left(d, n, m) <= Left(e, n, m)
    BY DEF Db, CBlockFileInfo, Left
  <2>2. Room(Awaiting(e.b, n), Left(d, n, m))
    BY DEF Counted
  <2> QED BY <2>1, <2>2, RoomMore
<1>2. ASSUME NEW f \in Files \ {n} PROVE Left(e, f, m) = Left(d, f, m)
  BY DEF Left
<1> QED BY Zenon, <1>1, <1>2 DEF Counted

(* The sizes stay right when files and database do not change.               *)
LEMMA SizesKept ==
  ASSUME IndInv, UNCHANGED <<db, data, scan, fReindex, mem.last, mem.info>>, dbOld' \subseteq dbOld,
         nFaults' \in Nat, nFaults <= nFaults', ~Undoing, ~Undoing', ~Storing', Up' => Up
  PROVE  Sizes'
<1>1. nFaults \in Nat
  BY DEF IndInv, TypeOK
<1>2. ASSUME NEW d \in dbOld' PROVE Counted(d, nFaults' + 1)
  <2>1. d \in Db /\ Counted(d, nFaults + 1)
    BY Zenon DEF IndInv, Sizes, TypeOK
  <2>2. nFaults + 1 <= nFaults' + 1 /\ nFaults + 1 \in Nat /\ nFaults' + 1 \in Nat
    <3>1. \A m, n \in Nat : m <= n => m + 1 <= n + 1 /\ m + 1 \in Nat /\ n + 1 \in Nat
      OBVIOUS
    <3> QED BY Zenon, <1>1, <3>1
  <2> QED BY <2>1, <2>2, CountedMore
<1>3. Counted(db, nFaults')
  <2>1. db \in Db /\ Counted(db, nFaults)
    BY DEF IndInv, Sizes, TypeOK
  <2> QED BY <1>1, <2>1, CountedMore
<1>4. (\A d \in dbOld : Counted(d, nFaults + 1))'
  BY Zenon, <1>2 DEF Counted, Awaiting, Left, Room, Indexed
<1>5. Counted(db, nFaults)'
  BY Zenon, <1>3 DEF Counted, Awaiting, Left, Room, Indexed
<1> QED BY Zenon, <1>4, <1>5 DEF IndInv, Sizes, InfoOf

(* The sizes a database knows are numbers.                                   *)
LEMMA SizesReflexive ==
  ASSUME NEW d \in Db, NEW f \in Files
  PROVE  d.f[f].nSize <= d.f[f].nSize /\ d.f[f].nUndoSize <= d.f[f].nUndoSize
<1>1. d.f[f] \in CBlockFileInfo
  BY DEF Db
<1>2. \A i \in CBlockFileInfo : i.nSize <= i.nSize /\ i.nUndoSize <= i.nUndoSize
  BY DEF CBlockFileInfo
<1> QED BY Zenon, <1>1, <1>2

(* The records stay where they are when files and database do not change.    *)
LEMMA RecordsKept ==
  ASSUME Records, UNCHANGED <<db, data>>, dbOld' \subseteq dbOld, ~Storing', ~Undoing'
  PROVE  Records'
BY DEF Records, Sound, Indexed, Storing, Undoing

(* Before the coins are written, only the current index database is left.    *)
LEMMA ChainStateStep == IndInv /\ WriteChainState => IndInv'
<1> SUFFICES ASSUME IndInv, WriteChainState PROVE IndInv'
  OBVIOUS
<1>0. /\ db \in dbOld /\ mem.index = db.b /\ pc = "state" /\ cur' = None /\ at' = None
      /\ UNCHANGED <<db, data, target, fReindex, scan, excused, nReindex>>
      /\ nFaults \in 0 .. MaxFaults /\ MaxFaults \in Nat /\ nFaults \in Nat
      /\ mem \in [last : Files, info : CBlockFileInfo, index : Index,
                  tip : AllBlocks \cup {None}, coins : AllBlocks \cup {None},
                  written : BOOLEAN]
  BY FilesAssumption DEF IndInv, TypeOK, Shape, WriteChainState, Up
<1> DEFINE ToCoins == FlushState /\ pc' = "coins" /\ UNCHANGED <<mem, nFaults>>
           Skips == /\ mem.written /\ mem' = [mem EXCEPT !.tip = mem.coins] /\ pc' = "activate"
                    /\ UNCHANGED <<coinsdb, coinsOld, dbOld, loose, nFaults>>
           Fails == /\ nFaults < MaxFaults /\ ~fReindex /\ nFaults' = nFaults + 1 /\ pc' = "idle"
                    /\ UNCHANGED <<mem, coinsdb, coinsOld, dbOld, loose>>
<1>1. ToCoins \/ Skips \/ Fails
  BY Zenon DEF WriteChainState
<1>2. /\ pc' \in {"coins", "activate", "idle"} /\ UNCHANGED <<coinsdb, coinsOld>>
      /\ dbOld' \subseteq dbOld /\ db \in dbOld' /\ loose' \subseteq loose
      /\ nFaults' \in 0 .. MaxFaults /\ nFaults' \in Nat /\ nFaults <= nFaults'
      /\ pc' = "coins" => dbOld' = {db}
      /\ pc' = "activate" => mem.written
      /\ pc' = "idle" => ~fReindex
  <2>1. CASE ToCoins
    BY <1>0, <2>1 DEF FlushState, Committed
  <2>2. CASE Skips
    BY <1>0, <2>2
  <2>3. CASE Fails
    BY <1>0, <2>3
  <2> QED BY <1>1, <2>1, <2>2, <2>3
<1>3. /\ mem' \in [last : Files, info : CBlockFileInfo, index : Index,
                  tip : AllBlocks \cup {None}, coins : AllBlocks \cup {None},
                  written : BOOLEAN]
      /\ UNCHANGED <<mem.last, mem.info, mem.index, mem.coins, mem.written>>
      /\ mem'.tip = IF pc' = "activate" THEN mem.coins ELSE mem.tip
  <2>1. CASE ToCoins
    BY <1>0, <2>1
  <2>2. CASE Skips
    BY Zenon, <1>0, <2>2
  <2>3. CASE Fails
    BY <1>0, <2>3
  <2> QED BY <1>1, <2>1, <2>2, <2>3
<1> HIDE DEF ToCoins, Skips, Fails
<1>4. ~Storing /\ ~Storing' /\ ~Undoing /\ ~Undoing' /\ Up /\ Up'
  BY <1>0, <1>2 DEF Storing, Undoing, Up
<1>5. TypeOK'
  BY <1>0, <1>2, <1>3 DEF IndInv, TypeOK
<1>6. Shape'
  BY <1>0, <1>2, <1>3, <1>4 DEF IndInv, Shape, Activating, Up, Indexed, Closed
<1>7. Sizes'
  BY <1>0, <1>2, <1>3, <1>4, SizesKept
<1>8. ASSUME excused' = {} PROVE Records' /\ Chains'
  <2>1. Records /\ Chains
    BY <1>0, <1>8 DEF IndInv
  <2>2. Records'
    BY SMTT(30), <1>0, <1>2, <1>4, <2>1, RecordsKept
  <2>3. fReindex => Rebuilding'
    BY <1>0, <1>2, <1>3, <2>1 DEF Chains, Rebuilding, AtOrigin, Indexed
  <2>4. (~fReindex => /\ \A d \in dbOld, c \in coinsOld : Undoable(d.b, c)
                      /\ \A d \in dbOld : AtOrigin(d.b))'
    BY Zenon, <1>0, <1>2, <2>1 DEF Chains, Undoable, AtOrigin, Indexed
  <2>5. Chains'
    BY Zenon, <1>0, <1>2, <1>3, <1>4, <2>1, <2>3, <2>4 DEF Chains, Undoable, Indexed
  <2> QED BY <2>2, <2>5
<1> QED BY <1>5, <1>6, <1>7, <1>8 DEF IndInv

(* The coins are written for a block that the synced index can undo.         *)
LEMMA CoinsStep == IndInv /\ WriteCoins => IndInv'
<1> SUFFICES ASSUME IndInv, WriteCoins PROVE IndInv'
  OBVIOUS
<1>1. /\ pc = "coins" /\ pc' = "activate" /\ coinsdb' = mem.coins
      /\ coinsOld' = coinsOld \cup {mem.coins}
      /\ UNCHANGED <<db, dbOld, data, loose, cur, at, target, fReindex, scan, excused, nFaults,
                     nReindex>>
      /\ nFaults \in Nat
      /\ mem' = [mem EXCEPT !.tip = mem.coins, !.written = TRUE]
      /\ mem \in [last : Files, info : CBlockFileInfo, index : Index,
                  tip : AllBlocks \cup {None}, coins : AllBlocks \cup {None},
                  written : BOOLEAN]
  BY DEF IndInv, TypeOK, WriteCoins
<1>2. /\ mem' \in [last : Files, info : CBlockFileInfo, index : Index,
                  tip : AllBlocks \cup {None}, coins : AllBlocks \cup {None},
                  written : BOOLEAN]
      /\ UNCHANGED <<mem.last, mem.info, mem.index, mem.coins>>
      /\ mem'.tip = mem.coins /\ mem'.written
  BY Zenon, <1>1
<1>3. ~Storing /\ ~Storing' /\ ~Undoing /\ ~Undoing' /\ Up /\ Up'
  BY <1>1 DEF Storing, Undoing, Up
<1>4. TypeOK'
  BY <1>1, <1>2 DEF IndInv, TypeOK
<1>5. Shape'
  BY <1>1, <1>2, <1>3 DEF IndInv, Shape, Activating, Up, Indexed, Closed
<1>6. Sizes'
  BY <1>1, <1>2, <1>3, SizesKept
<1>7. ASSUME excused' = {} PROVE Records' /\ Chains'
  <2>1. Records /\ Chains
    BY <1>1, <1>7 DEF IndInv
  <2>2. Records'
    BY <1>1, <1>3, <2>1, RecordsKept
  <2>3. mem.coins # None /\ Undoable(db.b, mem.coins)
    BY <1>1, <1>3, <2>1, FilesAssumption DEF Chains, Rebuilding
  <2>4. fReindex => Rebuilding'
    BY <1>1, <1>2, <2>1, <2>3 DEF Chains, Rebuilding, AtOrigin, Indexed
  <2>5. (~fReindex => \A d \in dbOld, c \in coinsOld : Undoable(d.b, c))'
    <3>1. ASSUME ~fReindex, NEW d \in dbOld, NEW c \in coinsOld' PROVE Undoable(d.b, c)
      BY <1>1, <2>1, <2>3, <3>1 DEF Chains
    <3> QED BY Zenon, <1>1, <3>1 DEF Undoable, Indexed
  <2>6. (~fReindex => \A d \in dbOld : AtOrigin(d.b))'
    BY Zenon, <1>1, <2>1 DEF Chains, AtOrigin, Indexed
  <2>7. Chains'
    BY <1>1, <1>2, <1>3, <2>1, <2>3, <2>4, <2>5, <2>6 DEF Chains, Undoable, Indexed
  <2> QED BY <2>2, <2>7
<1> QED BY <1>4, <1>5, <1>6, <1>7 DEF IndInv

-----------------------------------------------------------------------------
(* Shutdown and crashes *)

(* A shutdown leaves one index database and one set of coins.                *)
LEMMA ShutdownStep == IndInv /\ Shutdown => IndInv'
<1> SUFFICES ASSUME IndInv, Shutdown PROVE IndInv'
  OBVIOUS
<1>1. /\ pc = "idle" /\ ~fReindex /\ pc' = "down" /\ mem' = NoMemory
      /\ cur' = None /\ at' = None /\ target' = None
      /\ coinsdb' = mem.coins /\ coinsOld' = {mem.coins} /\ dbOld' = {db} /\ loose' = {}
      /\ UNCHANGED <<db, data, fReindex, scan, excused, nFaults, nReindex>>
  BY SMTT(30) DEF Shutdown, Down
<1>2. /\ mem.coins \in AllBlocks \cup {None} /\ db \in Db /\ db \in dbOld /\ nFaults \in Nat
      /\ Counted(db, nFaults)
  BY <1>1, Basics DEF Undoing
<1>3. NoMemory \in [last : Files, info : CBlockFileInfo, index : Index,
                    tip : AllBlocks \cup {None}, coins : AllBlocks \cup {None},
                    written : BOOLEAN]
      /\ NoMemory.index = NoIndex
  BY FilesAssumption DEF NoMemory, Files, CBlockFileInfo, NullInfo, Index, NoIndex
<1>4. ~Storing' /\ ~Undoing /\ ~Undoing' /\ Up /\ ~Up' /\ ~Activating'
  BY <1>1 DEF Storing, Undoing, Up, Activating
<1>5. TypeOK'
  BY <1>1, <1>2, <1>3 DEF IndInv, TypeOK
<1>6. Shape'
  BY <1>1, <1>2, <1>3, <1>4 DEF IndInv, Shape, Up, Indexed, Closed
<1>7. Sizes'
  <2>1. Counted(db, nFaults + 1)
    BY <1>2, CountedMore
  <2>2. (\A d \in dbOld : Counted(d, nFaults + 1))' /\ Counted(db, nFaults)'
    BY Zenon, <1>1, <1>2, <2>1 DEF Counted, Awaiting, Left, Room, Indexed
  <2> QED BY Zenon, <1>1, <1>4, <2>2 DEF IndInv, Sizes
<1>8. ASSUME excused' = {} PROVE Records' /\ Chains'
  <2>1. Records /\ Chains
    BY <1>1, <1>8 DEF IndInv
  <2>2. Records'
    BY <1>1, <1>2, <1>4, <2>1, RecordsKept
  <2>3. Undoable(db.b, mem.coins) /\ AtOrigin(db.b)
    BY SMTT(30), <1>1, <1>2, <1>4, <2>1 DEF Chains
  <2>4. Chains'
    BY Zenon, <1>1, <1>4, <2>3 DEF Chains, Undoable, AtOrigin, Indexed
  <2> QED BY <2>2, <2>4
<1> QED BY <1>5, <1>6, <1>7, <1>8 DEF IndInv

(* A crash leaves one of the databases, each of which has its records.       *)
LEMMA CrashStep == IndInv /\ Crash => IndInv'
<1> SUFFICES ASSUME IndInv, Crash PROVE IndInv'
  OBVIOUS
<1>1. PICK lost \in SUBSET loose, d \in dbOld, c \in coinsOld :
        /\ data' = [p \in Places |-> IF \E l \in lost : l.place = p THEN None ELSE data[p]]
        /\ db' = d /\ dbOld' = {d} /\ coinsdb' = c /\ coinsOld' = {c}
        /\ excused' = excused \cup (IF \E l \in lost : l.initial THEN {"power"} ELSE {})
  BY Zenon DEF Crash
<1>2. /\ ~fReindex /\ nFaults < MaxFaults /\ pc' = "down" /\ mem' = NoMemory
      /\ cur' = None /\ at' = None /\ target' = None /\ loose' = {} /\ nFaults' = nFaults + 1
      /\ UNCHANGED <<fReindex, scan, nReindex>> /\ pc # "down"
  BY DEF Crash, Down
<1>3. /\ c \in AllBlocks \cup {None} /\ d \in Db /\ nFaults \in 0 .. MaxFaults
      /\ data \in [Places -> AllBlocks \cup {None}] /\ excused \subseteq {"power", "reindex"}
  BY DEF IndInv, TypeOK
<1>4. NoMemory \in [last : Files, info : CBlockFileInfo, index : Index,
                    tip : AllBlocks \cup {None}, coins : AllBlocks \cup {None},
                    written : BOOLEAN]
      /\ NoMemory.index = NoIndex
  BY FilesAssumption DEF NoMemory, Files, CBlockFileInfo, NullInfo, Index, NoIndex
<1>5. ~Storing' /\ ~Undoing' /\ Up /\ ~Up' /\ ~Activating'
  BY <1>2 DEF Storing, Undoing, Up, Activating
<1>6. TypeOK'
  <2>1. nFaults' \in 0 .. MaxFaults
    BY <1>2, <1>3, FilesAssumption
  <2>2. data' \in [Places -> AllBlocks \cup {None}] /\ excused' \subseteq {"power", "reindex"}
    BY SMTT(30), <1>1, <1>3
  <2> QED BY <1>1, <1>2, <1>3, <1>4, <2>1, <2>2 DEF IndInv, TypeOK
<1>7. Shape'
  BY Zenon, <1>1, <1>2, <1>4, <1>5 DEF IndInv, Shape, Up, Indexed, Closed
<1>8. Sizes'
  <2>1. nFaults' \in Nat /\ nFaults' + 1 \in Nat /\ nFaults' <= nFaults' + 1
    BY <1>2, <1>3
  <2>2. Counted(d, nFaults')
    BY Zenon, <1>2 DEF IndInv, Sizes
  <2>3. Counted(d, nFaults' + 1)
    BY Zenon, <1>3, <2>1, <2>2, CountedMore
  <2>4. (\A e \in dbOld : Counted(e, nFaults + 1))' /\ Counted(db, nFaults)'
    BY Zenon, <1>1, <2>2, <2>3 DEF Counted, Awaiting, Left, Room, Indexed
  <2>5. \A p \in Places : data'[p] # None => data'[p] = data[p]
    BY Zenon, <1>1
  <2> QED BY Zenon, <1>2, <1>5, <2>4, <2>5 DEF IndInv, Sizes
<1>9. ASSUME excused' = {} PROVE Records' /\ Chains'
  <2>1. lost = {} /\ Records /\ Chains
    BY <1>1, <1>9 DEF IndInv, Shape
  <2>2. data' = data
    BY <1>1, <1>3, <2>1
  <2>3. Sound(d)
    BY SMTT(30), <2>1 DEF Records
  <2>4. Records'
    <3>1. (\A e \in dbOld : Sound(e))'
      BY Zenon, <1>1, <2>2, <2>3 DEF Sound, Indexed
    <3>2. (\A e \in dbOld, f \in Files :
             e.f[f].nSize <= db.f[f].nSize /\ e.f[f].nUndoSize <= db.f[f].nUndoSize)'
      BY Zenon, <1>1, <1>3, SizesReflexive
    <3>3. pc' \notin {"last", "write", "undo", "index", "undoindex"}
      BY <1>2
    <3> QED BY Zenon, <1>5, <3>1, <3>2, <3>3 DEF Records
  <2>5. Undoable(d.b, c) /\ AtOrigin(d.b)
    BY <1>2, <2>1 DEF Chains
  <2>6. Chains'
    BY <1>1, <1>2, <1>5, <2>5 DEF Chains, Undoable, AtOrigin, Indexed
  <2> QED BY <2>4, <2>6
<1> QED BY <1>6, <1>7, <1>8, <1>9 DEF IndInv

-----------------------------------------------------------------------------
(* Rebuilding the index *)

(* Memory before the start has its type and no block.                        *)
LEMMA EmptyMemory ==
  /\ NoMemory \in [last : Files, info : CBlockFileInfo, index : Index,
                   tip : AllBlocks \cup {None}, coins : AllBlocks \cup {None},
                   written : BOOLEAN]
  /\ NoMemory.index = NoIndex /\ NoMemory.last = 0 /\ NoMemory.info = NullInfo
  /\ NoMemory.tip = None /\ NoMemory.coins = None /\ NoMemory.written = FALSE
  /\ Indexed(NoIndex) = {}
BY FilesAssumption DEF NoMemory, Files, CBlockFileInfo, NullInfo, Index, NoIndex, Indexed

(* The wiped index database has no block and no used space.                  *)
LEMMA EmptyDatabase ==
  /\ EmptyDb \in Db /\ EmptyDb.b = NoIndex
  /\ \A f \in Files : EmptyDb.f[f].nSize = 0 /\ EmptyDb.f[f].nUndoSize = 0
  /\ \A n \in Nat : Counted(EmptyDb, n)
<1>1. EmptyDb \in Db
  BY FilesAssumption DEF EmptyDb, Db, Files, CBlockFileInfo, NullInfo, Index, NoIndex
<1>2. EmptyDb.b = NoIndex /\ \A f \in Files : EmptyDb.f[f].nSize = 0 /\ EmptyDb.f[f].nUndoSize = 0
  BY DEF EmptyDb, NullInfo
<1>3. ASSUME NEW n \in Nat PROVE Counted(EmptyDb, n)
  <2>1. Indexed(NoIndex) = {}
    BY DEF NoIndex, Indexed
  <2>2. \A f : Awaiting(NoIndex, f) = {}
    BY <2>1 DEF Awaiting
  <2>3. \A f \in Files : Left(EmptyDb, f, n) = n
    BY <1>2 DEF Left
  <2>4. Room({}, n) /\ 0 < MAX_BLOCKFILE_SIZE
    BY RoomNone, FilesAssumption
  <2> QED BY Zenon, <1>2, <2>2, <2>3, <2>4 DEF Counted
<1> QED BY <1>1, <1>2, <1>3

(* A rebuild starts from files whose first record is the genesis block.      *)
LEMMA StartReindexStep == IndInv /\ StartReindex => IndInv'
<1> SUFFICES ASSUME IndInv, StartReindex PROVE IndInv'
  OBVIOUS
<1>1. /\ pc \in {"down", "failed"} /\ nReindex < MaxReindex /\ mem' = NoMemory
      /\ db' = EmptyDb /\ dbOld' = {EmptyDb} /\ coinsdb' = None /\ coinsOld' = {None}
      /\ fReindex' = TRUE /\ scan' = {p \in Places : p.kind = "blk" /\ data[p] # None}
      /\ nReindex' = nReindex + 1 /\ pc' = "idle" /\ target' = None
      /\ UNCHANGED <<data, loose, cur, at, excused, nFaults>>
  BY DEF StartReindex
<1>2. ~Storing' /\ ~Undoing' /\ Up' /\ ~Activating'
  BY <1>1 DEF Storing, Undoing, Up, Activating
<1>3. /\ mem'.index = NoIndex /\ mem'.last = 0 /\ mem'.info = NullInfo
      /\ mem'.tip = None /\ mem'.coins = None /\ mem'.written = FALSE
  BY SMTT(30), <1>1, EmptyMemory
<1>4. TypeOK'
  <2>1. nReindex' \in 0 .. MaxReindex
    BY SMTT(30), <1>1, FilesAssumption DEF IndInv, TypeOK
  <2> QED BY <1>1, <2>1, EmptyMemory, EmptyDatabase DEF IndInv, TypeOK
<1>5. Shape'
  BY Zenon, <1>1, <1>2, <1>3, EmptyMemory, EmptyDatabase DEF IndInv, Shape, Closed
<1>6. Sizes'
  <2>1. nFaults \in Nat /\ nFaults + 1 \in Nat
    BY DEF IndInv, TypeOK
  <2>2. (\A d \in dbOld : Counted(d, nFaults + 1))' /\ Counted(db, nFaults)'
    BY ZenonT(30), <1>1, <2>1, EmptyDatabase DEF Counted, Awaiting, Left, Room, Indexed
  <2>3. 0 \in Files /\ 0 < MAX_BLOCKFILE_SIZE /\ NullInfo.nSize = 0 /\ NullInfo.nUndoSize = 0
    BY FilesAssumption DEF Files, NullInfo
  <2>4. (Up => /\ mem.info.nUndoSize = db.f[mem.last].nUndoSize
               /\ db.f[mem.last].nSize <= mem.info.nSize
               /\ mem.info.nSize < MAX_BLOCKFILE_SIZE)'
    BY <1>1, <1>3, <2>3, EmptyDatabase
  <2>5. \A p \in scan' : InfoOf(p.file)'.nSize <= p.pos
    BY <1>1, <1>3, <2>3, EmptyDatabase DEF InfoOf, Places, Slots
  <2>6. (fReindex => \A p \in scan :
                       p.kind = "blk" /\ data[p] # None /\ InfoOf(p.file).nSize <= p.pos)'
    BY <1>1, <2>5
  <2>7. (\A p \in Places : p.kind = "blk" /\ data[p] # None => p.pos < MAX_BLOCKFILE_SIZE - 1)'
    BY Zenon, <1>1 DEF IndInv, Sizes
  <2> QED BY Zenon, <1>2, <2>2, <2>4, <2>6, <2>7 DEF Sizes
<1>7. ASSUME excused' = {} PROVE Records' /\ Chains'
  <2>1. Records /\ Chains
    BY SMTT(30), <1>1, <1>7 DEF IndInv
  <2>2. Records'
    <3>1. Indexed(EmptyDb.b) = {}
      BY Zenon, EmptyDatabase, EmptyMemory
    <3>2. (\A d \in dbOld : Sound(d))'
      BY Zenon, <1>1, <3>1 DEF Sound
    <3>3. (\A d \in dbOld, f \in Files :
             d.f[f].nSize <= db.f[f].nSize /\ d.f[f].nUndoSize <= db.f[f].nUndoSize)'
      <4>1. \A f \in Files : EmptyDb.f[f].nSize <= EmptyDb.f[f].nSize
                             /\ EmptyDb.f[f].nUndoSize <= EmptyDb.f[f].nUndoSize
        BY EmptyDatabase
      <4> QED BY Zenon, <1>1, <4>1
    <3>4. pc' \notin {"last", "write", "undo", "index", "undoindex"}
      <4>1. pc' = "idle"
        BY Zenon, <1>1
      <4> QED BY <4>1
    <3> QED BY Zenon, <1>2, <3>2, <3>3, <3>4 DEF Records
  <2>3. pc = "down" /\ ~fReindex /\ db \in dbOld
    BY <1>1, <2>1 DEF Chains, IndInv, Shape, Up
  <2>4. data[Origin] = Genesis
    BY ZenonT(30), <2>1, <2>3 DEF Chains, Records, Sound, AtOrigin, Origin
  <2>5. Origin \in scan'
    <3>1. Origin \in Places /\ Origin.kind = "blk"
      BY FilesAssumption DEF Origin, Place, Places, Files, Slots, Kinds
    <3>2. Genesis # None
      BY FilesAssumption
    <3> QED BY Zenon, <1>1, <2>4, <3>1, <3>2
  <2>6. Rebuilding'
    BY <1>1, <1>3, <2>4, <2>5, EmptyDatabase, EmptyMemory DEF Rebuilding
  <2>7. Chains'
    BY Zenon, <1>1, <1>2, <1>3, <2>6 DEF Chains
  <2> QED BY <2>2, <2>7
<1> QED BY <1>4, <1>5, <1>6, <1>7 DEF IndInv

(* A rebuild that is over has connected the genesis block.                   *)
LEMMA EndReindexStep == IndInv /\ EndReindex => IndInv'
<1> SUFFICES ASSUME IndInv, EndReindex PROVE IndInv'
  OBVIOUS
<1>1. /\ pc = "idle" /\ fReindex /\ scan = {} /\ fReindex' = FALSE
      /\ dbOld' = {db} /\ coinsOld' = {coinsdb} /\ loose' = {}
      /\ UNCHANGED <<mem, db, coinsdb, data, pc, cur, at, target, scan, excused, nFaults, nReindex>>
  BY DEF EndReindex
<1>2. ~Storing' /\ ~Undoing /\ ~Undoing' /\ Up /\ Up' /\ ~Activating'
  BY Zenon, <1>1 DEF Storing, Undoing, Up, Activating
<1>3. db \in dbOld /\ db \in Db /\ coinsdb \in AllBlocks \cup {None} /\ nFaults \in Nat
  <2>1. db \in dbOld
    BY Zenon DEF IndInv, Shape
  <2>2. db \in Db /\ coinsdb \in AllBlocks \cup {None}
    BY Zenon DEF IndInv, TypeOK
  <2>3. nFaults \in Nat
    BY DEF IndInv, TypeOK
  <2> QED BY Zenon, <2>1, <2>2, <2>3
<1>4. TypeOK'
  BY Zenon, <1>1, <1>3 DEF IndInv, TypeOK
<1>5. Shape'
  BY Zenon, <1>1, <1>2, <1>3 DEF IndInv, Shape, Closed, Indexed, Up
<1>6. Sizes'
  <2>1. Counted(db, nFaults) /\ Counted(db, nFaults + 1)
    BY Zenon, <1>2, <1>3 DEF IndInv, Sizes
  <2>2. (\A d \in dbOld : Counted(d, nFaults + 1))' /\ Counted(db, nFaults)'
    BY Zenon, <1>1, <2>1 DEF Counted, Awaiting, Left, Room, Indexed
  <2> QED BY Zenon, <1>1, <1>2, <2>2 DEF IndInv, Sizes
<1>7. ASSUME excused' = {} PROVE Records' /\ Chains'
  <2>1. Records /\ Chains
    BY <1>1, <1>7 DEF IndInv
  <2>2. Records'
    BY SMTT(30), <1>1, <1>2, <1>3, <2>1, RecordsKept
  <2>3. coinsdb # None
    BY ZenonT(30), <1>1, <2>1 DEF Chains, Rebuilding
  <2>4. Undoable(db.b, coinsdb) /\ mem.tip # None /\ mem.coins # None
    BY ZenonT(30), <1>1, <2>1, <2>3 DEF Chains, Rebuilding
  <2>5. AtOrigin(db.b)
    <3>1. Closed(db.b)
      BY <1>3 DEF IndInv, Shape
    <3>2. Genesis \in Indexed(db.b)
      BY SMTT(30), <2>4, <3>1, PathIndexed, PathContains DEF Undoable, Indexed
    <3> QED BY <1>1, <2>1, <3>2 DEF Chains, Rebuilding
  <2>6. Chains'
    BY ZenonT(30), <1>1, <1>2, <2>1, <2>4, <2>5 DEF Chains, Undoable, AtOrigin, Indexed
  <2> QED BY <2>2, <2>6
<1> QED BY <1>4, <1>5, <1>6, <1>7 DEF IndInv

-----------------------------------------------------------------------------
(* Writing records *)

(* The entries of a database name places.                                    *)
LEMMA EntryPlaces ==
  ASSUME NEW d \in Db, NEW b \in Indexed(d.b)
  PROVE  /\ d.b[b] \in CDiskBlockIndex
         /\ Place("blk", d.b[b].file, d.b[b].pos) \in Places
         /\ d.b[b].undo # None => Place("rev", d.b[b].file, d.b[b].undo) \in Places
<1>1. d.b[b] \in CDiskBlockIndex
  BY SMTT(30) DEF Db, Index, Indexed
<1>2. d.b[b].file \in Files /\ d.b[b].pos \in Slots /\ (d.b[b].undo # None => d.b[b].undo \in Slots)
  <2>1. 0 .. MAX_BLOCKFILE_SIZE - 1 \subseteq Slots
    BY FilesAssumption DEF Slots
  <2> QED BY <1>1, <2>1 DEF CDiskBlockIndex
<1> QED BY Zenon, <1>1, <1>2 DEF Place, Places, Kinds

(* A record at a free place leaves all others as they are.                   *)
LEMMA WriteKeeps ==
  ASSUME dbOld \subseteq Db, data \in [Places -> AllBlocks \cup {None}], at \in Places,
         data' = [data EXCEPT ![at] = cur], dbOld' = dbOld, Free(at), \A d \in dbOld : Sound(d)
  PROVE  (\A d \in dbOld : Sound(d))'
<1>1. ASSUME NEW d \in dbOld PROVE Sound(d)'
  <2>1. ASSUME NEW b \in Indexed(d.b)
        PROVE  LET e == d.b[b] IN
               /\ e.pos < d.f[e.file].nSize /\ data'[Place("blk", e.file, e.pos)] = b
               /\ e.undo # None =>
                    e.undo < d.f[e.file].nUndoSize /\ data'[Place("rev", e.file, e.undo)] = b
    <3>1. /\ Place("blk", d.b[b].file, d.b[b].pos) \in Places
          /\ d.b[b].undo # None => Place("rev", d.b[b].file, d.b[b].undo) \in Places
      BY EntryPlaces
    <3>2. /\ at # Place("blk", d.b[b].file, d.b[b].pos)
          /\ d.b[b].undo # None => at # Place("rev", d.b[b].file, d.b[b].undo)
      BY DEF Free
    <3>3. Sound(d)
      OBVIOUS
    <3> QED BY Zenon, <3>1, <3>2, <3>3 DEF Sound
  <2> QED BY Zenon, <2>1 DEF Sound, Indexed
<1> QED BY Zenon, <1>1

(* Only records written in initial block download stay uncommitted.          *)
LEMMA LooseWritten ==
  ASSUME NEW p \in Places, NEW b, NEW fInitialDownload \in BOOLEAN,
         WriteRecord(p, b, fInitialDownload)
  PROVE  loose' \subseteq loose \cup [place : Places, initial : {TRUE}]
<1>1. CASE fInitialDownload = TRUE
  <2>1. loose' = loose \cup {[place |-> p, initial |-> TRUE]}
    BY Zenon, <1>1 DEF WriteRecord, CommittedAtWrite
  <2>2. [place |-> p, initial |-> TRUE] \in [place : Places, initial : {TRUE}]
    BY Zenon
  <2> QED BY Zenon, <2>1, <2>2
<1>2. CASE fInitialDownload = FALSE
  <2>1. loose' \subseteq loose
    BY Zenon, <1>2 DEF WriteRecord, CommittedAtWrite
  <2> QED BY Zenon, <2>1
<1> QED BY Zenon, <1>1, <1>2

(* Storing the record of a block leaves the places of memory and of the      *)
(* index database alone.                                                     *)
LEMMA WriteBlockStep == IndInv /\ WriteBlockToDisk => IndInv'
<1> SUFFICES ASSUME IndInv, WriteBlockToDisk PROVE IndInv'
  OBVIOUS
<1>1. /\ pc = "write" /\ pc' = "index" /\ data' = [data EXCEPT ![at] = cur]
      /\ UNCHANGED <<mem, db, dbOld, coinsdb, coinsOld, cur, at, target, fReindex,
                     scan, excused, nFaults, nReindex>>
      /\ \E fInitialDownload \in IsInitialBlockDownload : WriteRecord(at, cur, fInitialDownload)
  BY Zenon DEF WriteBlockToDisk, WriteRecord
<1>2. /\ Storing /\ Storing' /\ ~Undoing /\ ~Undoing' /\ Up /\ Up' /\ ~Activating'
  BY Zenon, <1>1 DEF Storing, Undoing, Up, Activating
<1>3. /\ at \in Places /\ at.kind = "blk" /\ at.pos < MAX_BLOCKFILE_SIZE - 1
      /\ cur \in AllBlocks /\ ~fReindex
  BY Zenon, <1>1, <1>2 DEF IndInv, Shape
<1>4. loose' \subseteq loose \cup [place : Places, initial : {TRUE}]
  <2>1. PICK fInitialDownload \in BOOLEAN : WriteRecord(at, cur, fInitialDownload)
    BY Zenon, <1>1 DEF IsInitialBlockDownload
  <2> QED BY Zenon, <1>3, <2>1, LooseWritten
<1>5. data' \in [Places -> AllBlocks \cup {None}]
  BY <1>1, <1>3 DEF IndInv, TypeOK
<1>6. TypeOK'
  <2>1. loose' \subseteq [place : Places, initial : BOOLEAN]
    BY Zenon, <1>4 DEF IndInv, TypeOK
  <2> QED BY <1>1, <1>5, <2>1 DEF IndInv, TypeOK
<1>7. Shape'
  BY Zenon, <1>1, <1>2, <1>3, <1>4 DEF IndInv, Shape, Closed, Indexed
<1>8. Sizes'
  <2>1. ASSUME NEW p \in Places, p.kind = "blk", data'[p] # None PROVE p.pos < MAX_BLOCKFILE_SIZE - 1
    BY Zenon, <1>1, <1>3, <2>1 DEF IndInv, Sizes, TypeOK
  <2> QED BY Zenon, <1>1, <1>2, <1>3, <2>1 DEF IndInv, Sizes, Counted, Awaiting, Left, Room, Indexed
<1>9. ASSUME excused' = {} PROVE Records' /\ Chains'
  <2>1. Records /\ Chains
    BY SMTT(30), <1>1, <1>9 DEF IndInv
  <2>2. (\A d \in dbOld : Sound(d))'
    BY Zenon, <1>1, <1>3, <2>1, WriteKeeps DEF IndInv, TypeOK, Records
  <2>3. data'[at] = cur
    BY SMTT(30), <1>1, <1>3 DEF IndInv, TypeOK
  <2>4. Records'
    BY ZenonT(30), <1>1, <1>2, <1>3, <2>1, <2>2, <2>3 DEF Records
  <2>5. Chains'
    BY Zenon, <1>1, <1>2, <1>3, <2>1 DEF Chains, Undoable, Indexed, AtOrigin
  <2> QED BY <2>4, <2>5
<1> QED BY <1>6, <1>7, <1>8, <1>9 DEF IndInv

(* So does writing undo data, even while the index is rebuilt.               *)
LEMMA WriteUndoStep == IndInv /\ WriteUndo => IndInv'
<1> SUFFICES ASSUME IndInv, WriteUndo PROVE IndInv'
  OBVIOUS
<1>1. /\ pc = "undo" /\ pc' = "undoindex" /\ data' = [data EXCEPT ![at] = cur]
      /\ UNCHANGED <<mem, db, dbOld, coinsdb, coinsOld, cur, at, target, fReindex,
                     scan, excused, nFaults, nReindex>>
      /\ \E fInitialDownload \in IsInitialBlockDownload : WriteRecord(at, cur, fInitialDownload)
  BY Zenon DEF WriteUndo, WriteRecord
<1>2. /\ ~Storing /\ ~Storing' /\ Undoing /\ Undoing' /\ Up /\ Up' /\ Activating /\ Activating'
  BY Zenon, <1>1 DEF Storing, Undoing, Up, Activating
<1>3. /\ at \in Places /\ at.kind = "rev" /\ cur \in AllBlocks
  BY Zenon, <1>1, <1>2 DEF IndInv, Shape, Indexed
<1>4. loose' \subseteq loose \cup [place : Places, initial : {TRUE}]
  <2>1. PICK fInitialDownload \in BOOLEAN : WriteRecord(at, cur, fInitialDownload)
    BY Zenon, <1>1 DEF IsInitialBlockDownload
  <2> QED BY Zenon, <1>3, <2>1, LooseWritten
<1>5. data' \in [Places -> AllBlocks \cup {None}]
  BY <1>1, <1>3 DEF IndInv, TypeOK
<1>6. TypeOK'
  <2>1. loose' \subseteq [place : Places, initial : BOOLEAN]
    BY Zenon, <1>4 DEF IndInv, TypeOK
  <2> QED BY <1>1, <1>5, <2>1 DEF IndInv, TypeOK
<1>7. Shape'
  BY Zenon, <1>1, <1>2, <1>3, <1>4 DEF IndInv, Shape, Closed, Indexed
<1>8. \A p \in Places : p.kind = "blk" => data'[p] = data[p]
  BY <1>1, <1>3 DEF IndInv, TypeOK
<1>9. Sizes'
  <2>1. (\A p \in Places : p.kind = "blk" /\ data[p] # None => p.pos < MAX_BLOCKFILE_SIZE - 1)'
    BY Zenon, <1>8 DEF IndInv, Sizes
  <2>2. (fReindex => \A p \in scan :
                       p.kind = "blk" /\ data[p] # None /\ InfoOf(p.file).nSize <= p.pos)'
    <3>1. scan \subseteq Places
      BY DEF IndInv, TypeOK
    <3> QED BY Zenon, <1>1, <1>8, <3>1 DEF IndInv, Sizes, InfoOf
  <2> QED BY Zenon, <1>1, <1>2, <2>1, <2>2 DEF IndInv, Sizes, Counted, Awaiting, Left, Room, Indexed
<1>10. ASSUME excused' = {} PROVE Records' /\ Chains'
  <2>1. Records /\ Chains
    BY SMTT(30), <1>1, <1>10 DEF IndInv
  <2>2. (\A d \in dbOld : Sound(d))'
    BY ZenonT(30), <1>1, <1>3, <2>1, WriteKeeps DEF IndInv, TypeOK, Records
  <2>3. data'[at] = cur
    BY SMTT(30), <1>1, <1>3 DEF IndInv, TypeOK
  <2>4. Records'
    BY ZenonT(30), <1>1, <1>2, <1>3, <2>1, <2>2, <2>3 DEF Records
  <2>5. fReindex => Rebuilding'
    <3>1. Origin \in Places /\ Origin.kind = "blk"
      BY SMTT(30), FilesAssumption DEF Origin, Place, Places, Files, Slots, Kinds
    <3> QED BY Zenon, <1>1, <1>8, <2>1, <3>1 DEF Chains, Rebuilding, AtOrigin, Indexed
  <2>6. Chains'
    BY Zenon, <1>1, <1>2, <1>3, <2>1, <2>5 DEF Chains, Undoable, Indexed, AtOrigin
  <2> QED BY <2>4, <2>6
<1> QED BY <1>6, <1>7, <1>9, <1>10 DEF IndInv

-----------------------------------------------------------------------------
(* Writing to the index database *)

(* What has its records, and is counted, under one database is and has so    *)
(* under another with the same infos and entries.                            *)
LEMMA SameTables ==
  ASSUME NEW d, NEW e, d.b = e.b, d.f = e.f
  PROVE  /\ \A n : Counted(e, n) => Counted(d, n)
         /\ Sound(e) => Sound(d)
BY Zenon DEF Counted, Sound, Left

(* Which file is the last does not bear on any record.                       *)
LEMMA LastFileStep == IndInv /\ WriteLastBlockFile => IndInv'
<1> SUFFICES ASSUME IndInv, WriteLastBlockFile PROVE IndInv'
  OBVIOUS
<1>1. /\ pc = "last" /\ dbOld' = dbOld \cup {db'}
      /\ pc' = (IF fReindex THEN "index" ELSE "write")
      /\ UNCHANGED <<mem, coinsdb, coinsOld, data, loose, cur, at, target, fReindex,
                     scan, excused, nFaults, nReindex>>
  BY DEF WriteLastBlockFile, Write
<1>2. Storing /\ Storing' /\ ~Undoing /\ ~Undoing' /\ Up /\ Up' /\ ~Activating' /\ pc' \in {"index", "write"}
  BY <1>1 DEF Storing, Undoing, Up, Activating
<1>3. db' \in Db /\ db'.b = db.b /\ db'.f = db.f /\ db \in Db /\ db \in dbOld /\ dbOld \subseteq Db
  <2>1. db' = [db EXCEPT !.l = mem.last]
    BY DEF WriteLastBlockFile, Write
  <2> QED BY <2>1 DEF IndInv, TypeOK, Shape, Db
<1>4. TypeOK'
  BY SMTT(30), <1>1, <1>2, <1>3 DEF IndInv, TypeOK
<1>5. Shape'
  BY ZenonT(30), <1>1, <1>2, <1>3 DEF IndInv, Shape, Closed, Indexed
<1>6. Sizes'
  <2>1. Counted(db', nFaults) /\ Counted(db', nFaults + 1)
    <3>1. Counted(db, nFaults) /\ Counted(db, nFaults + 1)
      BY Zenon, <1>2, <1>3 DEF IndInv, Sizes
    <3> QED BY Zenon, <1>3, <3>1, SameTables
  <2>2. (\A d \in dbOld : Counted(d, nFaults + 1))' /\ Counted(db, nFaults)'
    <3>1. \A d \in dbOld' : Counted(d, nFaults' + 1)
      BY Zenon, <1>1, <2>1 DEF IndInv, Sizes
    <3>2. Counted(db', nFaults')
      BY Zenon, <1>1, <2>1
    <3> QED BY Zenon, <3>1, <3>2 DEF Counted, Awaiting, Left, Room, Indexed
  <2> QED BY Zenon, <1>1, <1>2, <1>3, <2>2 DEF IndInv, Sizes, InfoOf, Awaiting, Left, Room, Indexed
<1>7. ASSUME excused' = {} PROVE Records' /\ Chains'
  <2>1. Records /\ Chains
    BY <1>1, <1>7 DEF IndInv
  <2>2. \A d \in dbOld' : Sound(d)
    BY Zenon, <1>1, <1>3, <2>1, SameTables DEF Records
  <2>3. (\A d \in dbOld : Sound(d))'
    BY Zenon, <1>1, <2>2 DEF Sound, Indexed
  <2>4. Free(at) => Free(at)'
    BY Zenon, <1>1, <1>3 DEF Free, Indexed
  <2>5. (\A d \in dbOld, f \in Files :
           d.f[f].nSize <= db.f[f].nSize /\ d.f[f].nUndoSize <= db.f[f].nUndoSize)'
    BY ZenonT(30), <1>1, <1>3, <2>1 DEF Records
  <2>6. Records'
    BY ZenonT(30), <1>1, <1>2, <1>3, <2>1, <2>3, <2>4, <2>5 DEF Records
  <2>7. fReindex => Rebuilding'
    BY ZenonT(30), <1>1, <1>2, <1>3, <2>1 DEF Chains, Rebuilding, AtOrigin, Indexed
  <2>8. Chains'
    BY ZenonT(30), <1>1, <1>2, <1>3, <2>1, <2>7 DEF Chains, Undoable, Indexed, AtOrigin
  <2> QED BY <2>6, <2>8
<1> QED BY <1>4, <1>5, <1>6, <1>7 DEF IndInv

(* An index that knows more can undo as much.                                *)
LEMMA UndoableMore ==
  ASSUME NEW index, NEW index2,
         \A b \in Indexed(index) :
           index2[b] # None /\ (index[b].undo # None => index2[b].undo # None)
  PROVE  \A c : Undoable(index, c) => Undoable(index2, c)
<1> SUFFICES ASSUME NEW c, Undoable(index, c) PROVE Undoable(index2, c)
  OBVIOUS
<1>1. c \in AllBlocks /\ c \in Indexed(index) /\ Path[c] \subseteq AllBlocks
  BY PathContains DEF Undoable, Indexed
<1> QED BY <1>1 DEF Undoable, Indexed

(* A block that enters the index takes the place its record is at.           *)
LEMMA AddToIndexStep == IndInv /\ AddToBlockIndex => IndInv'
<1> SUFFICES ASSUME IndInv, AddToBlockIndex PROVE IndInv'
  OBVIOUS
<1> DEFINE entry == [file |-> at.file, pos |-> at.pos, undo |-> None]
<1>1. /\ pc = "index" /\ dbOld' = dbOld \cup {db'} /\ pc' = "activate"
      /\ UNCHANGED <<coinsdb, coinsOld, data, loose, cur, at, fReindex, scan,
                     excused, nFaults, nReindex>>
  BY DEF AddToBlockIndex, Write
<1>2. Storing /\ ~Storing' /\ ~Undoing /\ ~Undoing' /\ Up /\ Up' /\ Activating'
  BY Zenon, <1>1 DEF Storing, Undoing, Up, Activating
<1>3. /\ at \in Places /\ at.kind = "blk" /\ at.pos < MAX_BLOCKFILE_SIZE - 1
      /\ cur \in AllBlocks /\ mem.index[cur] = None /\ mem.index = db.b
      /\ cur # Genesis => mem.index[hashPrev[cur]] # None
      /\ db \in dbOld /\ db \in Db /\ dbOld \subseteq Db /\ nFaults \in Nat
  <2>1. /\ at \in Places /\ at.kind = "blk" /\ at.pos < MAX_BLOCKFILE_SIZE - 1
        /\ cur \in AllBlocks /\ mem.index[cur] = None
        /\ cur # Genesis => mem.index[hashPrev[cur]] # None
    BY Zenon, <1>2 DEF IndInv, Shape
  <2> QED BY Zenon, <1>2, <2>1, Basics
<1>4. entry \in CDiskBlockIndex /\ entry # None
  BY <1>3, FilesAssumption, NoneAssumption DEF CDiskBlockIndex, Places, Slots
<1>5. /\ db' \in Db /\ db'.f = db.f /\ db'.b[cur] = entry
      /\ \A b \in AllBlocks \ {cur} : db'.b[b] = db.b[b]
  <2>1. db' = [db EXCEPT !.b[cur] = entry]
    BY DEF AddToBlockIndex, Write
  <2> HIDE DEF entry
  <2> QED BY <1>3, <1>4, <2>1 DEF Db, Index
<1>6. /\ mem' \in [last : Files, info : CBlockFileInfo, index : Index,
                  tip : AllBlocks \cup {None}, coins : AllBlocks \cup {None},
                  written : BOOLEAN]
      /\ mem'.index = db'.b /\ UNCHANGED <<mem.last, mem.info, mem.tip, mem.coins, mem.written>>
  <2>1. db' = [db EXCEPT !.b[cur] = entry] /\ mem' = [mem EXCEPT !.index[cur] = entry]
    BY DEF AddToBlockIndex, Write
  <2>2. mem \in [last : Files, info : CBlockFileInfo, index : Index,
                 tip : AllBlocks \cup {None}, coins : AllBlocks \cup {None},
                 written : BOOLEAN]
    BY DEF IndInv, TypeOK
  <2> HIDE DEF entry
  <2> QED BY <1>3, <1>4, <2>1, <2>2 DEF Db, Index
<1>7. Indexed(db'.b) = Indexed(db.b) \cup {cur} /\ cur \notin Indexed(db.b)
  BY <1>3, <1>4, <1>5 DEF Indexed
<1>8. target' \in Indexed(db'.b) /\ (cur = Genesis => target' = cur)
  <2>1. target' \in Indexed(db'.b)
    BY Zenon, <1>6 DEF AddToBlockIndex, FindMostWorkChain
  <2>2. ASSUME cur = Genesis PROVE Indexed(db.b) = {}
    <3>1. Indexed(db.b) \subseteq Blocks
      BY <1>7, <2>2 DEF Indexed, AllBlocks
    <3>2. Closed(db.b)
      BY ZenonT(30), <1>3 DEF IndInv, Shape
    <3>3. \A b \in Indexed(db.b) : hashPrev[b] \in Indexed(db.b)
      BY <1>7, <2>2, <3>2 DEF Closed
    <3> QED BY Zenon, <3>1, <3>3, FilesAssumption
  <2> QED BY <1>7, <2>1, <2>2
<1>9. target' \in Indexed(db'.b) /\ {mem.tip, mem.coins} \subseteq Indexed(db'.b) \cup {None}
  BY <1>1, <1>3, <1>7, <1>8 DEF IndInv, Shape
<1>10. entry.file = at.file /\ entry.pos = at.pos /\ entry.undo = None
  BY SMTT(30)
<1> HIDE DEF entry
<1>11. TypeOK'
  <2>1. target' \in AllBlocks
    BY SMTT(30), <1>9 DEF Indexed
  <2> QED BY Zenon, <1>1, <1>3, <1>5, <1>6, <2>1 DEF IndInv, TypeOK
<1>12. Shape'
  <2>1. Closed(db'.b)
    <3>1. Closed(db.b)
      BY ZenonT(30), <1>3 DEF IndInv, Shape
    <3>2. cur # Genesis => hashPrev[cur] \in Indexed(db.b)
      BY <1>3, FilesAssumption DEF Indexed, AllBlocks
    <3> QED BY SMTT(30), <1>7, <3>1, <3>2 DEF Closed
  <2>2. (\A d \in dbOld : Closed(d.b))'
    BY Zenon, <1>1, <2>1 DEF IndInv, Shape, Closed, Indexed
  <2>3. (Activating => target \in Indexed(mem.index))' /\ ({mem.tip, mem.coins} \subseteq Indexed(mem.index) \cup {None})'
    BY SMTT(30), <1>6, <1>9 DEF Indexed
  <2>4. fReindex => mem.coins = mem.tip
    BY <1>1 DEF IndInv, Shape
  <2> QED BY Zenon, <1>1, <1>2, <1>6, <2>2, <2>3, <2>4 DEF IndInv, Shape
<1>13. Sizes'
  <2>1. Counted(db, nFaults) /\ Room(Awaiting(db.b, at.file), Left(db, at.file, nFaults - 1))
    BY <1>2 DEF IndInv, Sizes
  <2>2. Counted(db', nFaults)
    <3> SUFFICES ASSUME NEW f \in Files PROVE Room(Awaiting(db'.b, f), Left(db, f, nFaults))
      BY Zenon, <1>5, <2>1 DEF Counted, Left
    <3>1. CASE f = at.file
      <4>1. Awaiting(db'.b, f) = Awaiting(db.b, f) \cup {cur}
        <5>1. \A c \in Indexed(db.b) : c # cur /\ db'.b[c] = db.b[c]
          BY <1>5, <1>7 DEF Indexed
        <5> QED BY <1>5, <1>7, <1>10, <3>1, <5>1 DEF Awaiting
      <4>2. /\ Left(db, f, nFaults - 1) \in Int
            /\ Left(db, f, nFaults - 1) + 1 = Left(db, f, nFaults)
        BY SMTT(30), <1>3, LeftType
      <4>3. Room(Awaiting(db.b, f) \cup {cur}, Left(db, f, nFaults - 1) + 1)
        BY SMTT(30), <1>3, <2>1, <3>1, <4>2, RoomAdd
      <4> QED BY Zenon, <4>1, <4>2, <4>3
    <3>2. CASE f # at.file
      <4>1. Awaiting(db'.b, f) = Awaiting(db.b, f)
        <5>1. \A c \in Indexed(db.b) : c # cur /\ db'.b[c] = db.b[c]
          BY <1>5, <1>7 DEF Indexed
        <5> QED BY <1>5, <1>7, <1>10, <3>2, <5>1 DEF Awaiting
      <4> QED BY <2>1, <4>1 DEF Counted
    <3> QED BY <3>1, <3>2
  <2>3. Counted(db', nFaults + 1)
    BY <1>3, <1>5, <2>2, CountedMore
  <2>4. (\A d \in dbOld : Counted(d, nFaults + 1))' /\ Counted(db, nFaults)'
    <3>1. \A d \in dbOld' : Counted(d, nFaults' + 1)
      BY Zenon, <1>1, <2>3 DEF IndInv, Sizes
    <3>2. Counted(db', nFaults')
      BY Zenon, <1>1, <2>2
    <3> QED BY Zenon, <3>1, <3>2 DEF Counted, Awaiting, Left, Room, Indexed
  <2> QED BY Zenon, <1>1, <1>2, <1>5, <1>6, <2>4 DEF IndInv, Sizes, InfoOf
<1>14. ASSUME excused' = {} PROVE Records' /\ Chains'
  <2>1. Records /\ Chains
    BY <1>1, <1>14 DEF IndInv
  <2>2. Sound(db')
    <3>1. Sound(db)
      BY <1>3, <2>1 DEF Records
    <3>2. at = Place("blk", at.file, at.pos)
      BY <1>3 DEF Place, Places
    <3>3. at.pos < db.f[at.file].nSize /\ data[at] = cur
      BY <1>1, <1>2, <2>1 DEF Records
    <3>4. ASSUME NEW b \in Indexed(db'.b)
          PROVE  LET e == db'.b[b] IN
                 /\ e.pos < db'.f[e.file].nSize /\ data[Place("blk", e.file, e.pos)] = b
                 /\ e.undo # None =>
                      e.undo < db'.f[e.file].nUndoSize /\ data[Place("rev", e.file, e.undo)] = b
      <4>1. CASE b = cur
        BY Zenon, <1>5, <1>10, <3>2, <3>3, <4>1
      <4>2. CASE b \in Indexed(db.b) /\ b # cur
        BY Zenon, <1>5, <3>1, <4>2 DEF Sound, Indexed
      <4> QED BY Zenon, <1>7, <4>1, <4>2
    <3> QED BY Zenon, <3>4 DEF Sound
  <2>3. (\A d \in dbOld : Sound(d))'
    <3>1. \A d \in dbOld' : Sound(d)
      BY Zenon, <1>1, <2>1, <2>2 DEF Records
    <3> QED BY ZenonT(30), <1>1, <3>1 DEF Sound, Indexed
  <2>4. (\A d \in dbOld, f \in Files :
           d.f[f].nSize <= db.f[f].nSize /\ d.f[f].nUndoSize <= db.f[f].nUndoSize)'
    BY Zenon, <1>1, <1>3, <1>5, <2>1 DEF Records
  <2>5. Records'
    BY <1>1, <1>2, <2>3, <2>4 DEF Records, Storing
  <2>6. \A c : Undoable(db.b, c) => Undoable(db'.b, c)
    <3>1. \A b \in Indexed(db.b) : db'.b[b] = db.b[b] /\ db.b[b] # None
      BY <1>5, <1>7 DEF Indexed
    <3> QED BY <3>1, UndoableMore
  <2>7. AtOrigin(db.b) => AtOrigin(db'.b)
    BY SMTT(30), <1>5, <1>7 DEF AtOrigin, Indexed
  <2>8. fReindex => Rebuilding'
    <3> SUFFICES ASSUME fReindex PROVE Rebuilding'
      OBVIOUS
    <3>1. Rebuilding /\ (Undoable(db.b, coinsdb) \/ coinsdb = None)
      BY <2>1 DEF Chains
    <3>2. Genesis \in Indexed(db'.b) => AtOrigin(db'.b)
      <4>1. CASE Genesis \in Indexed(db.b)
        BY Zenon, <2>7, <3>1, <4>1 DEF Rebuilding
      <4>2. CASE Genesis \notin Indexed(db.b)
        <5>1. coinsdb = None
          <6>1. Closed(db.b)
            BY ZenonT(30), <1>3 DEF IndInv, Shape
          <6> QED BY SMTT(30), <3>1, <4>2, <6>1, PathIndexed, PathContains DEF Undoable, Indexed
        <5>2. cur = Genesis /\ at = Origin
          BY Zenon, <1>1, <3>1, <5>1 DEF Rebuilding
        <5>3. at.file = 0 /\ at.pos = 0
          BY SMTT(30), <5>2 DEF Origin, Place
        <5> QED BY <1>5, <1>7, <1>10, <5>2, <5>3 DEF AtOrigin
      <4> QED BY SMTT(30), <4>1, <4>2
    <3>3. (Genesis \in Indexed(db.b) => AtOrigin(db.b))'
      BY Zenon, <3>2 DEF AtOrigin, Indexed
    <3> QED BY Zenon, <1>1, <1>6, <1>8, <3>1, <3>3 DEF Rebuilding
  <2>9. (~fReindex => /\ \A d \in dbOld, c \in coinsOld : Undoable(d.b, c)
                      /\ \A d \in dbOld : AtOrigin(d.b))'
    <3>1. ~fReindex => /\ \A d \in dbOld', c \in coinsOld : Undoable(d.b, c)
                       /\ \A d \in dbOld' : AtOrigin(d.b)
      BY Zenon, <1>1, <1>3, <2>1, <2>6, <2>7 DEF Chains
    <3> QED BY Zenon, <1>1, <3>1 DEF Undoable, AtOrigin, Indexed
  <2>10. /\ (Undoable(db.b, mem.tip) \/ mem.tip = None)'
         /\ (Undoable(db.b, mem.coins) \/ mem.coins = None)'
         /\ (fReindex => Undoable(db.b, coinsdb) \/ coinsdb = None)'
    <3>1. /\ Undoable(db'.b, mem.tip) \/ mem.tip = None
          /\ Undoable(db'.b, mem.coins) \/ mem.coins = None
          /\ fReindex => Undoable(db'.b, coinsdb) \/ coinsdb = None
      BY Zenon, <1>2, <2>1, <2>6 DEF Chains
    <3> QED BY Zenon, <1>1, <1>6, <3>1 DEF Undoable, Indexed
  <2>11. Chains'
    BY Zenon, <1>1, <1>2, <1>6, <2>1, <2>8, <2>9, <2>10 DEF Chains
  <2> QED BY <2>5, <2>11
<1> QED BY <1>11, <1>12, <1>13, <1>14 DEF IndInv

(* An entry that learns of its undo data lets the coins move to its block.   *)
LEMMA UndoIndexStep == IndInv /\ WriteUndoIndex => IndInv'
<1> SUFFICES ASSUME IndInv, WriteUndoIndex PROVE IndInv'
  OBVIOUS
<1> DEFINE entry == [mem.index[cur] EXCEPT !.undo = at.pos]
<1>1. /\ pc = "undoindex" /\ dbOld' = dbOld \cup {db'} /\ pc' = "state"
      /\ UNCHANGED <<coinsdb, coinsOld, data, loose, cur, at, target, fReindex, scan,
                     excused, nFaults, nReindex>>
  BY DEF WriteUndoIndex, Write
<1>2. ~Storing /\ ~Storing' /\ Undoing /\ ~Undoing' /\ Up /\ Up' /\ Activating /\ Activating'
  BY Zenon, <1>1 DEF Storing, Undoing, Up, Activating
<1>3. /\ at \in Places /\ at.kind = "rev" /\ cur \in Indexed(db.b) \ {Genesis}
      /\ db.b[cur].undo = None /\ db.b[cur].file = at.file /\ mem.index = db.b
      /\ hashPrev[cur] = mem.tip /\ target \in Indexed(db.b)
      /\ db \in dbOld /\ db \in Db /\ dbOld \subseteq Db /\ nFaults \in Nat
  <2>1. mem.index = db.b /\ db \in dbOld /\ db \in Db /\ dbOld \subseteq Db /\ nFaults \in Nat
    BY Zenon, <1>2, Basics
  <2>2. /\ at \in Places /\ at.kind = "rev"
        /\ cur \in Indexed(mem.index) \ {Genesis} /\ mem.index[cur].undo = None
        /\ mem.index[cur].file = at.file /\ hashPrev[cur] = mem.tip
        /\ target \in Indexed(mem.index)
    BY Zenon, <1>2 DEF IndInv, Shape
  <2> QED BY Zenon, <2>1, <2>2
<1>4. cur \in Blocks /\ cur \in AllBlocks /\ mem.tip # None /\ cur # None /\ mem.tip \in Indexed(db.b)
  <2>1. cur \in Blocks
    BY <1>3 DEF Indexed, AllBlocks
  <2>2. mem.tip \in Indexed(db.b) \cup {None}
    BY Zenon, <1>1, <1>3 DEF IndInv, Shape
  <2> QED BY <1>3, <2>1, <2>2, FilesAssumption DEF AllBlocks
<1>5. /\ entry \in CDiskBlockIndex /\ entry # None /\ entry.file = at.file
      /\ entry.pos = db.b[cur].pos /\ entry.undo = at.pos /\ at.pos # None
  <2>1. db.b[cur] \in CDiskBlockIndex
    BY <1>3, EntryPlaces
  <2>2. at.pos \in Slots
    BY <1>3 DEF Places
  <2> QED BY <1>3, <2>1, <2>2, NoneAssumption DEF CDiskBlockIndex
<1>6. /\ db' \in Db /\ db'.f = db.f /\ db'.b[cur] = entry
      /\ \A b \in AllBlocks \ {cur} : db'.b[b] = db.b[b]
  <2>1. db' = [db EXCEPT !.b[cur] = entry]
    BY DEF WriteUndoIndex, Write
  <2> HIDE DEF entry
  <2> QED BY <1>3, <1>4, <1>5, <2>1 DEF Db, Index
<1>7. /\ mem' \in [last : Files, info : CBlockFileInfo, index : Index,
                  tip : AllBlocks \cup {None}, coins : AllBlocks \cup {None},
                  written : BOOLEAN]
      /\ mem'.index = db'.b /\ UNCHANGED <<mem.last, mem.info, mem.tip, mem.written>>
      /\ mem'.coins = cur
  <2>1. /\ db' = [db EXCEPT !.b[cur] = entry]
        /\ mem' = [mem EXCEPT !.index[cur] = entry, !.coins = cur]
    BY DEF WriteUndoIndex, Write
  <2>2. mem \in [last : Files, info : CBlockFileInfo, index : Index,
                 tip : AllBlocks \cup {None}, coins : AllBlocks \cup {None},
                 written : BOOLEAN]
    BY DEF IndInv, TypeOK
  <2> HIDE DEF entry
  <2> QED BY Zenon, <1>3, <1>4, <1>5, <2>1, <2>2 DEF Db, Index
<1> HIDE DEF entry
<1>8. Indexed(db'.b) = Indexed(db.b)
  BY SMTT(30), <1>3, <1>5, <1>6 DEF Indexed
<1>9. TypeOK'
  BY ZenonT(30), <1>1, <1>3, <1>4, <1>6, <1>7 DEF IndInv, TypeOK
<1>10. Shape'
  <2>1. Closed(db'.b)
    <3>1. Closed(db.b)
      BY Zenon, <1>3 DEF IndInv, Shape
    <3> QED BY SMTT(30), <1>8, <3>1 DEF Closed
  <2>2. (\A d \in dbOld : Closed(d.b))'
    BY Zenon, <1>1, <2>1 DEF IndInv, Shape, Closed, Indexed
  <2>3. (target \in Indexed(mem.index))' /\ ({mem.tip, mem.coins} \subseteq Indexed(mem.index) \cup {None})'
    <3>1. target \in Indexed(db'.b) /\ {mem.tip, cur} \subseteq Indexed(db'.b)
      BY <1>3, <1>4, <1>8
    <3>2. target' = target /\ mem'.index = db'.b /\ mem'.tip = mem.tip /\ mem'.coins = cur
      BY Zenon, <1>1, <1>7
    <3> QED BY <3>1, <3>2 DEF Indexed
  <2> QED BY Zenon, <1>1, <1>2, <1>7, <2>2, <2>3 DEF IndInv, Shape
<1>11. Sizes'
  <2>1. /\ Counted(db, nFaults + 1)
        /\ \A f \in Files \ {at.file} : Room(Awaiting(db.b, f), Left(db, f, nFaults))
    BY Zenon, <1>2, <1>3 DEF IndInv, Sizes
  <2>2. Counted(db', nFaults)
    <3> SUFFICES ASSUME NEW f \in Files PROVE Room(Awaiting(db'.b, f), Left(db, f, nFaults))
      BY Zenon, <1>6, <2>1 DEF Counted, Left
    <3>1. CASE f = at.file
      <4>1. Awaiting(db'.b, f) = Awaiting(db.b, f) \ {cur} /\ cur \in Awaiting(db.b, f)
        BY <1>3, <1>5, <1>6, <1>8, <3>1 DEF Awaiting, Indexed
      <4>2. /\ Left(db, f, nFaults + 1) \in Int
            /\ Left(db, f, nFaults + 1) - 1 = Left(db, f, nFaults)
        BY <1>3, LeftType
      <4>3. Room(Awaiting(db.b, f), Left(db, f, nFaults + 1))
        BY <2>1 DEF Counted
      <4> QED BY Zenon, <4>1, <4>2, <4>3, RoomLess
    <3>2. CASE f # at.file
      <4>1. Awaiting(db'.b, f) = Awaiting(db.b, f)
        BY <1>3, <1>5, <1>6, <1>8, <3>2 DEF Awaiting, Indexed
      <4> QED BY <2>1, <3>2, <4>1
    <3> QED BY <3>1, <3>2
  <2>3. Counted(db', nFaults + 1)
    BY <1>3, <1>6, <2>2, CountedMore
  <2>4. (\A d \in dbOld : Counted(d, nFaults + 1))' /\ Counted(db, nFaults)'
    <3>1. \A d \in dbOld' : Counted(d, nFaults' + 1)
      BY Zenon, <1>1, <2>3 DEF IndInv, Sizes
    <3>2. Counted(db', nFaults')
      BY Zenon, <1>1, <2>2
    <3> QED BY Zenon, <3>1, <3>2 DEF Counted, Awaiting, Left, Room, Indexed
  <2> QED BY Zenon, <1>1, <1>2, <1>6, <1>7, <2>4 DEF IndInv, Sizes, InfoOf
<1>12. ASSUME excused' = {} PROVE Records' /\ Chains'
  <2>1. Records /\ Chains
    BY <1>1, <1>12 DEF IndInv
  <2>2. Sound(db')
    <3>1. Sound(db)
      BY <1>3, <2>1 DEF Records
    <3>2. at = Place("rev", at.file, at.pos)
      BY <1>3 DEF Place, Places
    <3>3. at.pos < db.f[at.file].nUndoSize /\ data[at] = cur
      BY <1>1, <1>2, <2>1 DEF Records
    <3>4. ASSUME NEW b \in Indexed(db'.b)
          PROVE  LET e == db'.b[b] IN
                 /\ e.pos < db'.f[e.file].nSize /\ data[Place("blk", e.file, e.pos)] = b
                 /\ e.undo # None =>
                      e.undo < db'.f[e.file].nUndoSize /\ data[Place("rev", e.file, e.undo)] = b
      <4>1. CASE b = cur
        <5>1. db.b[cur].pos < db.f[at.file].nSize /\ data[Place("blk", at.file, db.b[cur].pos)] = cur
          BY Zenon, <1>3, <3>1 DEF Sound
        <5> QED BY Zenon, <1>5, <1>6, <3>2, <3>3, <4>1, <5>1
      <4>2. CASE b \in Indexed(db.b) /\ b # cur
        BY Zenon, <1>6, <3>1, <4>2 DEF Sound, Indexed
      <4> QED BY Zenon, <1>8, <4>1, <4>2
    <3> QED BY Zenon, <3>4 DEF Sound
  <2>3. (\A d \in dbOld : Sound(d))'
    <3>1. \A d \in dbOld' : Sound(d)
      BY Zenon, <1>1, <2>1, <2>2 DEF Records
    <3> QED BY ZenonT(30), <1>1, <3>1 DEF Sound, Indexed
  <2>4. (\A d \in dbOld, f \in Files :
           d.f[f].nSize <= db.f[f].nSize /\ d.f[f].nUndoSize <= db.f[f].nUndoSize)'
    BY Zenon, <1>1, <1>3, <1>6, <2>1 DEF Records
  <2>5. Records'
    BY <1>1, <1>2, <2>3, <2>4 DEF Records, Storing
  <2>6. \A c : Undoable(db.b, c) => Undoable(db'.b, c)
    <3>1. \A b \in Indexed(db.b) : db'.b[b] # None /\ (db.b[b].undo # None => db'.b[b].undo # None)
      BY <1>5, <1>6 DEF Indexed
    <3> QED BY <3>1, UndoableMore
  <2>7. AtOrigin(db.b) => AtOrigin(db'.b)
    BY <1>3, <1>6, <1>8 DEF AtOrigin, Indexed
  <2>8. Undoable(db'.b, cur)
    <3>1. Undoable(db'.b, mem.tip)
      BY <1>2, <1>4, <2>1, <2>6 DEF Chains
    <3>2. cur \in Indexed(db'.b) /\ db'.b[cur].undo # None
      BY Zenon, <1>3, <1>5, <1>6, <1>8
    <3> QED BY <1>3, <3>1, <3>2, UndoableChild
  <2>9. fReindex => Rebuilding'
    <3> SUFFICES ASSUME fReindex PROVE Rebuilding'
      OBVIOUS
    <3>1. Rebuilding
      BY SMTT(30), <2>1 DEF Chains
    <3>2. Genesis \in Indexed(db'.b) => AtOrigin(db'.b)
      BY Zenon, <1>8, <2>7, <3>1 DEF Rebuilding
    <3>3. (Genesis \in Indexed(db.b) => AtOrigin(db.b))'
      BY <3>2 DEF AtOrigin, Indexed
    <3> QED BY ZenonT(30), <1>1, <1>4, <1>7, <3>1, <3>3 DEF Rebuilding
  <2>10. (~fReindex => /\ \A d \in dbOld, c \in coinsOld : Undoable(d.b, c)
                       /\ \A d \in dbOld : AtOrigin(d.b))'
    <3>1. ~fReindex => /\ \A d \in dbOld', c \in coinsOld : Undoable(d.b, c)
                       /\ \A d \in dbOld' : AtOrigin(d.b)
      BY Zenon, <1>1, <1>3, <2>1, <2>6, <2>7 DEF Chains
    <3> QED BY Zenon, <1>1, <3>1 DEF Undoable, AtOrigin, Indexed
  <2>11. /\ Undoable(db.b, mem.tip)' /\ Undoable(db.b, mem.coins)'
         /\ (fReindex => Undoable(db.b, coinsdb) \/ coinsdb = None)'
    <3>1. /\ Undoable(db'.b, mem.tip)
          /\ fReindex => Undoable(db'.b, coinsdb) \/ coinsdb = None
      BY Zenon, <1>2, <1>4, <2>1, <2>6 DEF Chains
    <3> QED BY Zenon, <1>1, <1>7, <2>8, <3>1 DEF Undoable, Indexed
  <2>12. Chains'
    BY Zenon, <1>1, <1>2, <1>4, <1>7, <2>1, <2>9, <2>10, <2>11 DEF Chains
  <2> QED BY <2>5, <2>12
<1> QED BY <1>9, <1>10, <1>11, <1>12 DEF IndInv
=============================================================================
