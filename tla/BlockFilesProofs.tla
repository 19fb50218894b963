-------------------------- MODULE BlockFilesProofs --------------------------
(***************************************************************************)
(* Proofs about BlockFiles, for every set of blocks, every size of a file, *)
(* and any number of crashes, failures and rebuilds of the index: the      *)
(* steps that take a place in a file, or read a file again, keep the       *)
(* inductive invariant of BlockFilesSteps, and the theorems follow.        *)
(***************************************************************************)
EXTENDS BlockFilesSteps

-----------------------------------------------------------------------------
(* Taking a place in a file *)

(* What memory and the index database know of a file.                        *)
LEMMA InfoSizes ==
  ASSUME IndInv, Up
  PROVE  \A f \in Files :
           /\ InfoOf(f) \in CBlockFileInfo /\ db.f[f] \in CBlockFileInfo
           /\ db.f[f].nSize <= InfoOf(f).nSize /\ InfoOf(f).nUndoSize = db.f[f].nUndoSize
           /\ InfoOf(f).nSize < MAX_BLOCKFILE_SIZE
<1> SUFFICES ASSUME NEW f \in Files
             PROVE  /\ InfoOf(f) \in CBlockFileInfo /\ db.f[f] \in CBlockFileInfo
                    /\ db.f[f].nSize <= InfoOf(f).nSize /\ InfoOf(f).nUndoSize = db.f[f].nUndoSize
                    /\ InfoOf(f).nSize < MAX_BLOCKFILE_SIZE
  OBVIOUS
<1>1. mem.info \in CBlockFileInfo /\ db.f[f] \in CBlockFileInfo /\ db \in dbOld
  BY DEF IndInv, TypeOK, Db, Shape
<1>2. /\ mem.info.nUndoSize = db.f[mem.last].nUndoSize
      /\ db.f[mem.last].nSize <= mem.info.nSize /\ mem.info.nSize < MAX_BLOCKFILE_SIZE
  BY DEF IndInv, Sizes
<1>3. db.f[f].nSize < MAX_BLOCKFILE_SIZE
  BY Zenon, <1>1 DEF IndInv, Sizes, Counted
<1>4. db.f[f].nSize \in Nat
  BY <1>1 DEF CBlockFileInfo
<1> QED BY <1>1, <1>2, <1>3, <1>4 DEF InfoOf

(* Records that are still where they were are still there.                   *)
LEMMA SoundKept ==
  ASSUME NEW d, Sound(d),
         \A b \in Indexed(d.b) :
           /\ data'[Place("blk", d.b[b].file, d.b[b].pos)] = data[Place("blk", d.b[b].file, d.b[b].pos)]
           /\ d.b[b].undo # None =>
                data'[Place("rev", d.b[b].file, d.b[b].undo)] = data[Place("rev", d.b[b].file, d.b[b].undo)]
  PROVE  \A b \in Indexed(d.b) :
           LET e == d.b[b] IN
           /\ e.pos < d.f[e.file].nSize /\ data'[Place("blk", e.file, e.pos)] = b
           /\ e.undo # None =>
                e.undo < d.f[e.file].nUndoSize /\ data'[Place("rev", e.file, e.undo)] = b
BY Zenon DEF Sound

(* A database whose files have grown has its records where they were.        *)
LEMMA GrownSound ==
  ASSUME NEW d \in Db, NEW g \in Db, g.b = d.b, NEW content,
         \A f \in Files : d.f[f].nSize <= g.f[f].nSize /\ d.f[f].nUndoSize <= g.f[f].nUndoSize,
         \A b \in Indexed(d.b) :
           LET e == d.b[b] IN
           /\ e.pos < d.f[e.file].nSize /\ content[Place("blk", e.file, e.pos)] = b
           /\ e.undo # None =>
                e.undo < d.f[e.file].nUndoSize /\ content[Place("rev", e.file, e.undo)] = b
  PROVE  \A b \in Indexed(g.b) :
           LET e == g.b[b] IN
           /\ e.pos < g.f[e.file].nSize /\ content[Place("blk", e.file, e.pos)] = b
           /\ e.undo # None =>
                e.undo < g.f[e.file].nUndoSize /\ content[Place("rev", e.file, e.undo)] = b
<1> SUFFICES ASSUME NEW b \in Indexed(d.b)
             PROVE  LET e == d.b[b] IN
                    /\ e.pos < g.f[e.file].nSize /\ content[Place("blk", e.file, e.pos)] = b
                    /\ e.undo # None =>
                         e.undo < g.f[e.file].nUndoSize /\ content[Place("rev", e.file, e.undo)] = b
  BY Zenon
<1> DEFINE e == d.b[b]
<1>1. e \in CDiskBlockIndex /\ e.file \in Files /\ e.pos \in Nat /\ (e.undo # None => e.undo \in Nat)
  BY EntryPlaces DEF CDiskBlockIndex, Slots
<1>2. d.f[e.file] \in CBlockFileInfo /\ g.f[e.file] \in CBlockFileInfo
  BY <1>1 DEF Db
<1>3. /\ e.pos < d.f[e.file].nSize /\ content[Place("blk", e.file, e.pos)] = b
      /\ e.undo # None =>
           e.undo < d.f[e.file].nUndoSize /\ content[Place("rev", e.file, e.undo)] = b
  BY Zenon
<1>4. d.f[e.file].nSize <= g.f[e.file].nSize /\ d.f[e.file].nUndoSize <= g.f[e.file].nUndoSize
  BY Zenon, <1>1
<1> HIDE DEF e
<1>5. e.pos < g.f[e.file].nSize /\ (e.undo # None => e.undo < g.f[e.file].nUndoSize)
  BY <1>1, <1>2, <1>3, <1>4 DEF CBlockFileInfo
<1> QED BY Zenon, <1>3, <1>5 DEF e

(* A file grows in the index database, and the records known are kept.       *)
LEMMA GrownRecords ==
  ASSUME TypeOK, db \in dbOld, db' \in Db, db'.b = db.b, dbOld' = dbOld \cup {db'},
         \A f \in Files : db.f[f].nSize <= db'.f[f].nSize /\ db.f[f].nUndoSize <= db'.f[f].nUndoSize,
         \A d \in dbOld, f \in Files :
           d.f[f].nSize <= db.f[f].nSize /\ d.f[f].nUndoSize <= db.f[f].nUndoSize,
         \A d \in dbOld : \A b \in Indexed(d.b) :
           LET e == d.b[b] IN
           /\ e.pos < d.f[e.file].nSize /\ data'[Place("blk", e.file, e.pos)] = b
           /\ e.undo # None =>
                e.undo < d.f[e.file].nUndoSize /\ data'[Place("rev", e.file, e.undo)] = b
  PROVE  /\ (\A d \in dbOld : Sound(d))'
         /\ (\A d \in dbOld, f \in Files :
               d.f[f].nSize <= db.f[f].nSize /\ d.f[f].nUndoSize <= db.f[f].nUndoSize)'
<1>1. db \in Db /\ dbOld \subseteq Db
  BY SMTT(30) DEF TypeOK
<1>2. \A b \in Indexed(db'.b) :
        LET e == db'.b[b] IN
        /\ e.pos < db'.f[e.file].nSize /\ data'[Place("blk", e.file, e.pos)] = b
        /\ e.undo # None =>
             e.undo < db'.f[e.file].nUndoSize /\ data'[Place("rev", e.file, e.undo)] = b
  <2>1. \A b \in Indexed(db.b) :
          LET e == db.b[b] IN
          /\ e.pos < db.f[e.file].nSize /\ data'[Place("blk", e.file, e.pos)] = b
          /\ e.undo # None =>
               e.undo < db.f[e.file].nUndoSize /\ data'[Place("rev", e.file, e.undo)] = b
    BY Zenon
  <2> QED BY <1>1, <2>1, GrownSound
<1>3. (\A d \in dbOld : Sound(d))'
  BY Zenon, <1>2 DEF Sound, Indexed
<1>4. ASSUME NEW d \in dbOld', NEW f \in Files
      PROVE  d.f[f].nSize <= db'.f[f].nSize /\ d.f[f].nUndoSize <= db'.f[f].nUndoSize
  <2>1. d.f[f] \in CBlockFileInfo /\ db.f[f] \in CBlockFileInfo /\ db'.f[f] \in CBlockFileInfo
    BY <1>1 DEF Db
  <2>2. CASE d = db'
    BY <2>1, <2>2 DEF CBlockFileInfo
  <2>3. CASE d \in dbOld
    <3>1. /\ d.f[f].nSize <= db.f[f].nSize /\ d.f[f].nUndoSize <= db.f[f].nUndoSize
          /\ db.f[f].nSize <= db'.f[f].nSize /\ db.f[f].nUndoSize <= db'.f[f].nUndoSize
      BY Zenon, <2>3
    <3> QED BY <2>1, <3>1 DEF CBlockFileInfo
  <2> QED BY <2>2, <2>3
<1> QED BY Zenon, <1>3, <1>4

(* What a database that a crash may bring back says of the chain does not    *)
(* depend on its files.                                                      *)
LEMMA GrownChains ==
  ASSUME db \in dbOld, db'.b = db.b, dbOld' = dbOld \cup {db'}, coinsOld' = coinsOld,
         fReindex' = fReindex, Chains
  PROVE  (~fReindex => /\ \A d \in dbOld, c \in coinsOld : Undoable(d.b, c)
                       /\ \A d \in dbOld : AtOrigin(d.b))'
<1>1. ~fReindex => /\ \A d \in dbOld', c \in coinsOld : Undoable(d.b, c)
                   /\ \A d \in dbOld' : AtOrigin(d.b)
  BY Zenon DEF Chains
<1> QED BY Zenon, <1>1 DEF Undoable, AtOrigin, Indexed

(* No file is cut before the end of a record that some database knows.       *)
LEMMA StoreKeeps ==
  ASSUME IndInv, Up, Records, NEW left,
         data' = Truncated(data, left, [f \in Files |-> InfoOf(f)])
  PROVE  \A d \in dbOld : \A b \in Indexed(d.b) :
           /\ data'[Place("blk", d.b[b].file, d.b[b].pos)] = data[Place("blk", d.b[b].file, d.b[b].pos)]
           /\ d.b[b].undo # None =>
                data'[Place("rev", d.b[b].file, d.b[b].undo)] = data[Place("rev", d.b[b].file, d.b[b].undo)]
<1> SUFFICES ASSUME NEW d \in dbOld, NEW b \in Indexed(d.b)
             PROVE  /\ data'[Place("blk", d.b[b].file, d.b[b].pos)] = data[Place("blk", d.b[b].file, d.b[b].pos)]
                    /\ d.b[b].undo # None =>
                         data'[Place("rev", d.b[b].file, d.b[b].undo)] = data[Place("rev", d.b[b].file, d.b[b].undo)]
  OBVIOUS
<1> DEFINE e == d.b[b]
           info == [f \in Files |-> InfoOf(f)]
<1>1. /\ d \in Db /\ Place("blk", e.file, e.pos) \in Places /\ e \in CDiskBlockIndex
      /\ e.undo # None => Place("rev", e.file, e.undo) \in Places
  BY EntryPlaces DEF IndInv, TypeOK
<1>2. e.file \in Files /\ e.pos \in Nat /\ (e.undo # None => e.undo \in Nat)
  BY <1>1 DEF CDiskBlockIndex, Slots
<1>3. /\ e.pos < d.f[e.file].nSize /\ d.f[e.file].nSize <= db.f[e.file].nSize
      /\ e.undo # None => e.undo < d.f[e.file].nUndoSize
      /\ d.f[e.file].nUndoSize <= db.f[e.file].nUndoSize
  BY Zenon, <1>2 DEF Records, Sound
<1>4. /\ InfoOf(e.file) \in CBlockFileInfo /\ db.f[e.file] \in CBlockFileInfo
      /\ db.f[e.file].nSize <= InfoOf(e.file).nSize
      /\ InfoOf(e.file).nUndoSize = db.f[e.file].nUndoSize
  BY Zenon, <1>2, InfoSizes
<1>5. d.f[e.file] \in CBlockFileInfo /\ info[e.file] = InfoOf(e.file)
  BY <1>1, <1>2 DEF Db
<1> HIDE DEF e, info
<1>6. e.pos < info[e.file].nSize /\ (e.undo # None => e.undo < info[e.file].nUndoSize)
  BY <1>2, <1>3, <1>4, <1>5 DEF CBlockFileInfo
<1>7. ~(e.pos >= info[e.file].nSize) /\ (e.undo # None => ~(e.undo >= info[e.file].nUndoSize))
  BY <1>2, <1>4, <1>5, <1>6 DEF CBlockFileInfo
<1>8. \A p \in Places :
        ~(p.pos >= (IF p.kind = "blk" THEN info[p.file].nSize ELSE info[p.file].nUndoSize))
          => data'[p] = data[p]
  BY Zenon DEF Truncated, info
<1>9. data'[Place("blk", e.file, e.pos)] = data[Place("blk", e.file, e.pos)]
  BY <1>1, <1>7, <1>8 DEF Place
<1>10. e.undo # None => data'[Place("rev", e.file, e.undo)] = data[Place("rev", e.file, e.undo)]
  BY <1>1, <1>7, <1>8 DEF Place
<1> QED BY Zenon, <1>9, <1>10 DEF e

(* A place for a new block is beyond every record that some database knows;  *)
(* a failure to take it wastes space, in memory only.                        *)
LEMMA StoreStep ==
  ASSUME NEW b \in Blocks, NEW fFails \in BOOLEAN
  PROVE  IndInv /\ StoreBlock(b, fFails) => IndInv'
<1> SUFFICES ASSUME IndInv, StoreBlock(b, fFails) PROVE IndInv'
  OBVIOUS
<1>0. PICK n \in FileFor :
        LET left == mem.last .. n - 1
            info == [InfoOf(n) EXCEPT !.nSize = @ + 1]
        IN
        /\ mem' = [mem EXCEPT !.last = n, !.info = info]
        /\ data' = Truncated(data, left, [f \in Files |-> InfoOf(f)])
        /\ loose' = Committed(left)
        /\ IF fFails
           THEN pc' = "idle" /\ UNCHANGED <<db, dbOld, cur, at>>
           ELSE /\ Write([db EXCEPT !.f[n] = info])
                /\ cur' = b
                /\ at' = Place("blk", n, InfoOf(n).nSize)
                /\ pc' = IF n = mem.last THEN "write" ELSE "last"
  BY Zenon DEF StoreBlock, FindBlockPos
<1> DEFINE left == mem.last .. n - 1
           size == InfoOf(n).nSize
           info == [InfoOf(n) EXCEPT !.nSize = @ + 1]
           Memory == [last : Files, info : CBlockFileInfo, index : Index,
                      tip : AllBlocks \cup {None}, coins : AllBlocks \cup {None},
                      written : BOOLEAN]
           Fails == pc' = "idle" /\ UNCHANGED <<db, dbOld, cur, at>> /\ nFaults < MaxFaults
                    /\ nFaults' = nFaults + 1
           Takes == /\ db' = [db EXCEPT !.f[n] = info] /\ dbOld' = dbOld \cup {db'}
                    /\ cur' = b /\ at' = Place("blk", n, size) /\ pc' \in {"write", "last"}
                    /\ nFaults' = nFaults
<1>1. /\ pc = "idle" /\ ~fReindex /\ mem.index[b] = None /\ mem.index[hashPrev[b]] # None
      /\ mem' = [mem EXCEPT !.last = n, !.info = info]
      /\ data' = Truncated(data, left, [f \in Files |-> InfoOf(f)]) /\ loose' = Committed(left)
      /\ UNCHANGED <<coinsdb, coinsOld, target, fReindex, scan, excused, nReindex>>
  <2>1. Parent(b) = hashPrev[b] /\ hashPrev[b] # None
    BY FilesAssumption DEF Parent
  <2> QED BY <1>0, <2>1 DEF StoreBlock
<1>2. Fails \/ Takes
  <2>1. CASE fFails = TRUE
    BY Zenon, <1>0, <2>1 DEF StoreBlock
  <2>2. CASE fFails = FALSE
    BY Zenon, <1>0, <2>2 DEF StoreBlock, Write
  <2> QED BY Zenon, <2>1, <2>2
<1>3. ~Storing /\ ~Undoing /\ Up /\ ~Undoing' /\ Up' /\ ~Activating'
  BY <1>1, <1>2 DEF Storing, Undoing, Up, Activating
<1>4. /\ mem \in Memory /\ db \in Db /\ dbOld \subseteq Db /\ db \in dbOld
      /\ data \in [Places -> AllBlocks \cup {None}] /\ nFaults \in Nat /\ MaxFaults \in Nat
      /\ mem.index = db.b /\ Counted(db, nFaults) /\ b \in AllBlocks
  BY <1>3, FilesAssumption DEF IndInv, TypeOK, Shape, Sizes, AllBlocks
<1>5. /\ n \in Files /\ size \in Nat /\ size + 1 < MAX_BLOCKFILE_SIZE
      /\ InfoOf(n) \in CBlockFileInfo /\ db.f[n] \in CBlockFileInfo
      /\ db.f[n].nSize <= size /\ InfoOf(n).nUndoSize = db.f[n].nUndoSize
  <2>1. n \in Files /\ RoomIn(InfoOf(n))
    BY Zenon, <1>0 DEF FileFor
  <2> QED BY <1>3, <2>1, InfoSizes DEF RoomIn, CBlockFileInfo
<1>6. info \in CBlockFileInfo /\ info.nSize = size + 1 /\ info.nUndoSize = db.f[n].nUndoSize
  BY <1>5 DEF CBlockFileInfo
<1>7. /\ mem' \in Memory /\ mem'.last = n /\ mem'.info = info
      /\ UNCHANGED <<mem.index, mem.tip, mem.coins, mem.written>>
  <2> HIDE DEF info
  <2> QED BY Zenon, <1>1, <1>4, <1>5, <1>6
<1>8. /\ data' \in [Places -> AllBlocks \cup {None}] /\ loose' \subseteq loose
      /\ \A p \in Places : data'[p] # None => data'[p] = data[p]
  <2>1. \A p \in Places : data'[p] = None \/ data'[p] = data[p]
    BY Zenon, <1>1 DEF Truncated
  <2>2. data' \in [Places -> AllBlocks \cup {None}]
    BY <1>1, <1>4 DEF Truncated
  <2> QED BY <1>1, <2>1, <2>2 DEF Committed
<1>9. (\A p \in Places : p.kind = "blk" /\ data[p] # None => p.pos < MAX_BLOCKFILE_SIZE - 1)'
  BY Zenon, <1>8 DEF IndInv, Sizes
<1> HIDE DEF info, size, Memory
<1>10. ASSUME excused' = {}
       PROVE  /\ Records /\ Chains
              /\ \A d \in dbOld : \A c \in Indexed(d.b) :
                   LET e == d.b[c] IN
                   /\ e.pos < d.f[e.file].nSize /\ data'[Place("blk", e.file, e.pos)] = c
                   /\ e.undo # None =>
                        e.undo < d.f[e.file].nUndoSize /\ data'[Place("rev", e.file, e.undo)] = c
  <2>1. Records /\ Chains
    BY <1>1, <1>10 DEF IndInv
  <2>2. ASSUME NEW d \in dbOld
        PROVE  \A c \in Indexed(d.b) :
                 LET e == d.b[c] IN
                 /\ e.pos < d.f[e.file].nSize /\ data'[Place("blk", e.file, e.pos)] = c
                 /\ e.undo # None =>
                      e.undo < d.f[e.file].nUndoSize /\ data'[Place("rev", e.file, e.undo)] = c
    <3>1. Sound(d)
      BY <2>1 DEF Records
    <3>2. \A c \in Indexed(d.b) :
            /\ data'[Place("blk", d.b[c].file, d.b[c].pos)] = data[Place("blk", d.b[c].file, d.b[c].pos)]
            /\ d.b[c].undo # None =>
                 data'[Place("rev", d.b[c].file, d.b[c].undo)] = data[Place("rev", d.b[c].file, d.b[c].undo)]
      <4> HIDE DEF left
      <4> QED BY <1>1, <1>3, <2>1, StoreKeeps
    <3> QED BY Zenon, <3>1, <3>2, SoundKept
  <2> QED BY Zenon, <2>1, <2>2
<1>11. CASE Fails
  <2>1. nFaults' \in 0 .. MaxFaults /\ nFaults' \in Nat /\ nFaults <= nFaults' /\ ~Storing'
    BY <1>4, <1>11 DEF Storing
  <2>2. TypeOK'
    BY <1>1, <1>7, <1>8, <1>11, <2>1 DEF IndInv, TypeOK, Memory
  <2>3. Shape'
    BY <1>1, <1>3, <1>7, <1>8, <1>11, <2>1 DEF IndInv, Shape, Closed, Indexed
  <2>4. Sizes'
    <3>1. (\A d \in dbOld : Counted(d, nFaults + 1))' /\ Counted(db, nFaults)'
      <4>1. \A d \in dbOld' : Counted(d, nFaults' + 1)
        <5> SUFFICES ASSUME NEW d \in dbOld PROVE Counted(d, nFaults' + 1)
          BY Zenon, <1>11
        <5>1. d \in Db /\ Counted(d, nFaults + 1)
          BY Zenon, <1>4 DEF IndInv, Sizes
        <5>2. nFaults + 1 \in Nat /\ nFaults' + 1 \in Nat /\ nFaults + 1 <= nFaults' + 1
          <6>1. \A m, k \in Nat : m <= k => m + 1 \in Nat /\ k + 1 \in Nat /\ m + 1 <= k + 1
            OBVIOUS
          <6> QED BY Zenon, <1>4, <2>1, <6>1
        <5> QED BY <5>1, <5>2, CountedMore
      <4>2. Counted(db', nFaults')
        <5>1. Counted(db, nFaults')
          BY <1>4, <2>1, CountedMore
        <5> QED BY Zenon, <1>11, <5>1
      <4> QED BY Zenon, <4>1, <4>2 DEF Counted, Awaiting, Left, Room, Indexed
    <3>2. (/\ mem.info.nUndoSize = db.f[mem.last].nUndoSize
           /\ db.f[mem.last].nSize <= mem.info.nSize
           /\ mem.info.nSize < MAX_BLOCKFILE_SIZE)'
      BY <1>5, <1>6, <1>7, <1>11 DEF CBlockFileInfo
    <3> QED BY Zenon, <1>1, <1>3, <1>9, <2>1, <3>1, <3>2 DEF Sizes
  <2>5. ASSUME excused' = {} PROVE Records' /\ Chains'
    <3>1. (\A d \in dbOld : Sound(d))'
      BY Zenon, <1>10, <1>11, <2>5 DEF Sound, Indexed
    <3>2. Records'
      BY SMTT(30), <1>3, <1>10, <1>11, <2>1, <2>5, <3>1 DEF Records, Storing
    <3>3. Chains'
      BY Zenon, <1>1, <1>3, <1>7, <1>10, <1>11, <2>5 DEF Chains, Undoable, AtOrigin, Indexed
    <3> QED BY <3>2, <3>3
  <2> QED BY <2>2, <2>3, <2>4, <2>5 DEF IndInv
<1>12. CASE Takes
  <2>1. /\ db' \in Db /\ db'.b = db.b /\ db'.f[n] = info
        /\ \A f \in Files \ {n} : db'.f[f] = db.f[f]
    <3>1. db' = [db EXCEPT !.f[n] = info]
      BY Zenon, <1>12
    <3> QED BY <1>4, <1>5, <1>6, <3>1 DEF Db
  <2>2. /\ dbOld' = dbOld \cup {db'} /\ cur' = b /\ at' = Place("blk", n, size)
        /\ pc' \in {"write", "last"} /\ nFaults' = nFaults
    BY Zenon, <1>12
  <2> HIDE DEF Takes
  <2>3. Storing' /\ at' \in Places /\ at'.kind = "blk" /\ at'.file = n /\ at'.pos = size
        /\ size < MAX_BLOCKFILE_SIZE - 1
    <3>1. size \in Slots /\ size < MAX_BLOCKFILE_SIZE - 1
      BY <1>4, <1>5, FilesAssumption DEF Slots
    <3> QED BY <1>5, <2>2, <3>1 DEF Storing, Place, Places, Kinds
  <2>4. \A f \in Files :
          db.f[f].nSize <= db'.f[f].nSize /\ db.f[f].nUndoSize <= db'.f[f].nUndoSize
    <3> SUFFICES ASSUME NEW f \in Files
                 PROVE  db.f[f].nSize <= db'.f[f].nSize /\ db.f[f].nUndoSize <= db'.f[f].nUndoSize
      OBVIOUS
    <3>1. db.f[f] \in CBlockFileInfo
      BY <1>4 DEF Db
    <3> QED BY <1>5, <1>6, <2>1, <3>1 DEF CBlockFileInfo
  <2>5. TypeOK'
    BY <1>1, <1>4, <1>7, <1>8, <2>1, <2>2, <2>3 DEF IndInv, TypeOK, Memory
  <2>6. Shape'
    BY <1>1, <1>3, <1>4, <1>7, <1>8, <2>1, <2>2, <2>3 DEF IndInv, Shape, Closed, Indexed
  <2>7. Sizes'
    <3>1. Counted(db', nFaults) /\ Room(Awaiting(db'.b, n), Left(db', n, nFaults - 1))
      <4>1. db'.f[n].nUndoSize = db.f[n].nUndoSize /\ db'.f[n].nSize < MAX_BLOCKFILE_SIZE
        BY <1>5, <1>6, <2>1
      <4>2. db.f[n].nSize < db'.f[n].nSize
        BY <1>5, <1>6, <2>1 DEF CBlockFileInfo
      <4> QED BY <1>4, <1>5, <2>1, <4>1, <4>2, GrownCounted
    <3>2. Counted(db', nFaults + 1)
      BY <1>4, <2>1, <3>1, CountedMore
    <3>3. (\A d \in dbOld : Counted(d, nFaults + 1))' /\ Counted(db, nFaults)'
      <4>1. \A d \in dbOld' : Counted(d, nFaults' + 1)
        BY Zenon, <2>2, <3>2 DEF IndInv, Sizes
      <4>2. Counted(db', nFaults')
        BY Zenon, <2>2, <3>1
      <4> QED BY Zenon, <4>1, <4>2 DEF Counted, Awaiting, Left, Room, Indexed
    <3>4. (/\ mem.info.nUndoSize = db.f[mem.last].nUndoSize
           /\ db.f[mem.last].nSize <= mem.info.nSize
           /\ mem.info.nSize < MAX_BLOCKFILE_SIZE)'
      BY <1>5, <1>6, <1>7, <2>1 DEF CBlockFileInfo
    <3>5. Room(Awaiting(db.b, at.file), Left(db, at.file, nFaults - 1))'
      BY Zenon, <2>2, <2>3, <3>1 DEF Awaiting, Left, Room, Indexed
    <3> QED BY Zenon, <1>1, <1>3, <1>9, <2>3, <3>3, <3>4, <3>5 DEF Sizes
  <2>8. ASSUME excused' = {} PROVE Records' /\ Chains'
    <3>1. Records /\ Chains
      BY <1>10, <2>8
    <3>2. (\A d \in dbOld : Sound(d))' /\ (\A d \in dbOld, f \in Files :
             d.f[f].nSize <= db.f[f].nSize /\ d.f[f].nUndoSize <= db.f[f].nUndoSize)'
      BY Zenon, <1>4, <1>10, <2>1, <2>2, <2>4, <2>8, <3>1, GrownRecords DEF IndInv, Records
    <3>3. Free(at)'
      <4>1. ASSUME NEW d \in dbOld', NEW c \in Indexed(d.b)
            PROVE  /\ at' # Place("blk", d.b[c].file, d.b[c].pos)
                   /\ at' # Place("rev", d.b[c].file, d.b[c].undo)
        <5>1. PICK o \in dbOld : o.b = d.b
          BY Zenon, <1>4, <2>1, <2>2, <4>1
        <5>2. /\ o \in Db /\ o.b[c] \in CDiskBlockIndex
          BY <1>4, <4>1, <5>1, EntryPlaces
        <5>3. o.b[c].file \in Files /\ o.b[c].pos \in Nat /\ o.f[o.b[c].file] \in CBlockFileInfo
          BY <5>2 DEF CDiskBlockIndex, Db
        <5>4. o.b[c].pos < o.f[o.b[c].file].nSize /\ o.f[o.b[c].file].nSize <= db.f[o.b[c].file].nSize
          BY Zenon, <3>1, <4>1, <5>1, <5>3 DEF Records, Sound
        <5>5. o.b[c].file = n => o.b[c].pos < size
          BY <1>5, <5>3, <5>4 DEF CBlockFileInfo
        <5>6. at'.kind = "blk" /\ (at'.file = n => ~(at'.pos < size))
          BY <1>5, <2>3
        <5> QED BY <2>3, <5>1, <5>5, <5>6 DEF Place
      <4> QED BY Zenon, <4>1 DEF Free, Indexed
    <3>4. (at.pos < db.f[at.file].nSize)'
      BY <1>5, <1>6, <2>1, <2>3
    <3>5. Records'
      BY <1>1, <1>3, <2>2, <2>3, <3>2, <3>3, <3>4 DEF Records
    <3>6. (~fReindex => /\ \A d \in dbOld, c \in coinsOld : Undoable(d.b, c)
                        /\ \A d \in dbOld : AtOrigin(d.b))'
      BY <1>1, <1>4, <2>1, <2>2, <3>1, GrownChains
    <3>7. Chains'
      BY <1>1, <1>3, <1>7, <2>1, <2>2, <3>1, <3>6 DEF Chains, Undoable, Indexed
    <3> QED BY <3>5, <3>7
  <2> QED BY <2>5, <2>6, <2>7, <2>8 DEF IndInv
<1> QED BY <1>2, <1>11, <1>12

-----------------------------------------------------------------------------
(* Connecting a block *)

(* The ways ConnectTip ends for block b: its record cannot be read; its undo *)
(* data is there already or not needed; or it takes a place for it.          *)
Unread(b) ==
  /\ ~ReadBlockFromDisk(mem.index, data, b) /\ pc' = "failed" /\ nFaults' = nFaults
  /\ UNCHANGED <<mem, db, dbOld, cur, at>>
Moves(b) ==
  /\ mem.index[b].undo # None \/ b = Genesis
  /\ mem' = [mem EXCEPT !.coins = b] /\ pc' = "state" /\ nFaults' = nFaults
  /\ UNCHANGED <<db, dbOld, cur, at>>
UndoInfo(b) == [InfoOf(mem.index[b].file) EXCEPT !.nUndoSize = @ + 1]
TakesUndo(b) ==
  /\ mem.index[b].undo = None /\ b # Genesis
  /\ mem' = IF mem.index[b].file = mem.last THEN [mem EXCEPT !.info = UndoInfo(b)] ELSE mem
  /\ db' = [db EXCEPT !.f[mem.index[b].file] = UndoInfo(b)] /\ dbOld' = dbOld \cup {db'}
  /\ \/ /\ pc' = "idle" /\ cur' = None /\ at' = None
        /\ ~fReindex /\ nFaults < MaxFaults /\ nFaults' = nFaults + 1
     \/ /\ pc' = "undo" /\ cur' = b /\ nFaults' = nFaults
        /\ at' = Place("rev", mem.index[b].file, InfoOf(mem.index[b].file).nUndoSize)
ConnectKeeps ==
  UNCHANGED <<coinsdb, coinsOld, data, loose, target, fReindex, scan, excused, nReindex>>

(* ConnectTip ends in one of these ways for the child of the tip.            *)
LEMMA ConnectWays ==
  ASSUME IndInv, NEW fFails \in BOOLEAN, ConnectTip(fFails)
  PROVE  /\ pc = "activate" /\ mem.coins = mem.tip /\ ConnectKeeps /\ mem.index = db.b
         /\ \E b \in Indexed(db.b) :
              /\ (b = Genesis /\ mem.tip = None) \/ (b \in Blocks /\ mem.tip = hashPrev[b] /\ mem.tip # None)
              /\ Unread(b) \/ Moves(b) \/ TakesUndo(b)
<1>1. /\ pc = "activate" /\ mem.coins = mem.tip /\ ConnectKeeps
      /\ fFails => nFaults < MaxFaults /\ ~fReindex
      /\ nFaults' = IF fFails THEN nFaults + 1 ELSE nFaults
  BY DEF ConnectTip, FindUndoPos, ConnectKeeps
<1>2. mem.index = db.b /\ target \in Indexed(db.b) /\ Closed(db.b)
  BY <1>1 DEF IndInv, Shape, Up, Activating
<1>3. PICK b \in NextToConnect :
       IF ~ReadBlockFromDisk(mem.index, data, b)
       THEN /\ ~fFails
            /\ pc' = "failed"
            /\ UNCHANGED <<mem, db, dbOld, cur, at>>
       ELSE IF mem.index[b].undo # None \/ b = Genesis
       THEN /\ ~fFails
            /\ mem' = [mem EXCEPT !.coins = b]
            /\ pc' = "state"
            /\ UNCHANGED <<db, dbOld, cur, at>>
       ELSE /\ mem' = IF mem.index[b].file = mem.last THEN [mem EXCEPT !.info = UndoInfo(b)] ELSE mem
            /\ db' = [db EXCEPT !.f[mem.index[b].file] = UndoInfo(b)] /\ dbOld' = dbOld \cup {db'}
            /\ IF fFails
               THEN pc' = "idle" /\ cur' = None /\ at' = None
               ELSE /\ pc' = "undo"
                    /\ cur' = b
                    /\ at' = Place("rev", mem.index[b].file, InfoOf(mem.index[b].file).nUndoSize)
  BY Zenon DEF ConnectTip, FindUndoPos, Write, UndoInfo
<1>4. Unread(b) \/ Moves(b) \/ TakesUndo(b)
  <2>1. CASE fFails = TRUE
    BY Zenon, <1>1, <1>3, <2>1 DEF Unread, Moves, TakesUndo
  <2>2. CASE fFails = FALSE
    BY Zenon, <1>1, <1>3, <2>2 DEF Unread, Moves, TakesUndo
  <2> QED BY Zenon, <2>1, <2>2
<1>5. b \in Indexed(db.b) /\ Parent(b) = mem.tip
  BY Zenon, <1>2, <1>3, PathIndexed DEF NextToConnect
<1>6. (b = Genesis /\ mem.tip = None) \/ (b \in Blocks /\ mem.tip = hashPrev[b] /\ mem.tip # None)
  BY <1>5, FilesAssumption DEF Parent, Indexed, AllBlocks
<1> QED BY Zenon, <1>1, <1>2, <1>4, <1>5, <1>6

(* A record that cannot be read ends the node, which does not happen.        *)
LEMMA UnreadStep ==
  ASSUME IndInv, pc = "activate", mem.coins = mem.tip, mem.index = db.b, ConnectKeeps,
         NEW b \in Indexed(db.b), Unread(b)
  PROVE  IndInv'
<1>1. /\ pc' = "failed" /\ nFaults' = nFaults
      /\ UNCHANGED <<mem, db, dbOld, cur, at, coinsdb, coinsOld, data, loose, target, fReindex,
                     scan, excused, nReindex>>
  BY DEF Unread, ConnectKeeps
<1>2. Still /\ ~Storing' /\ ~Undoing /\ ~Undoing' /\ Up /\ Up'
  BY <1>1 DEF Still, disk, Storing, Undoing, Up
<1>3. TypeOK'
  BY <1>1 DEF IndInv, TypeOK
<1>4. Shape'
  BY <1>1, <1>2 DEF IndInv, Shape, Activating, Indexed, Closed
<1>5. Sizes'
  BY <1>1, <1>2, StillSizes DEF IndInv
<1>6. excused' # {}
  <2>1. SUFFICES ASSUME excused = {} PROVE FALSE
    BY <1>1
  <2>2. Sound(db)
    BY <2>1 DEF IndInv, Shape, Records
  <2>3. ReadBlockFromDisk(mem.index, data, b)
    BY <2>2 DEF Sound, ReadBlockFromDisk
  <2> QED BY <2>3 DEF Unread
<1> QED BY <1>3, <1>4, <1>5, <1>6 DEF IndInv

(* The coins move to a block that can be undone.                             *)
LEMMA MovesStep ==
  ASSUME IndInv, pc = "activate", mem.coins = mem.tip, mem.index = db.b, ConnectKeeps,
         NEW b \in Indexed(db.b), Moves(b),
         (b = Genesis /\ mem.tip = None) \/ (b \in Blocks /\ mem.tip = hashPrev[b] /\ mem.tip # None)
  PROVE  IndInv'
<1>1. /\ pc' = "state" /\ nFaults' = nFaults
      /\ UNCHANGED <<db, dbOld, cur, at, coinsdb, coinsOld, data, loose, target, fReindex,
                     scan, excused, nReindex>>
      /\ mem' = [mem EXCEPT !.coins = b]
      /\ mem \in [last : Files, info : CBlockFileInfo, index : Index,
                  tip : AllBlocks \cup {None}, coins : AllBlocks \cup {None},
                  written : BOOLEAN]
  BY DEF Moves, ConnectKeeps, IndInv, TypeOK
<1>2. Still /\ ~Storing' /\ ~Undoing /\ ~Undoing' /\ Up /\ Up'
  BY <1>1 DEF Still, disk, Storing, Undoing, Up
<1>3. b \in AllBlocks /\ b # None
  BY FilesAssumption DEF Indexed, AllBlocks
<1>4. /\ mem' \in [last : Files, info : CBlockFileInfo, index : Index,
                  tip : AllBlocks \cup {None}, coins : AllBlocks \cup {None},
                  written : BOOLEAN]
      /\ UNCHANGED <<mem.last, mem.info, mem.index, mem.tip, mem.written>> /\ mem'.coins = b
  BY <1>1, <1>3
<1>5. TypeOK'
  BY <1>1, <1>4 DEF IndInv, TypeOK
<1>6. Shape'
  BY <1>1, <1>2, <1>4 DEF IndInv, Shape, Activating, Indexed, Closed
<1>7. Sizes'
  BY <1>1, <1>2, <1>4, StillSizes DEF IndInv
<1>8. ASSUME excused' = {} PROVE Records' /\ Chains'
  <2>1. Records /\ Chains
    BY <1>1, <1>8 DEF IndInv
  <2>2. Records'
    BY <1>2, <2>1, StillRecords
  <2>3. Undoable(db.b, b)
    BY <1>2, <2>1, UndoableChild, FilesAssumption DEF Chains, Moves
  <2>4. fReindex => Rebuilding'
    BY <1>1, <1>3, <1>4, <2>1 DEF Chains, Rebuilding, AtOrigin, Indexed
  <2>5. Undoable(db.b, mem.coins)'
    BY <1>1, <1>4, <2>3 DEF Undoable, Indexed
  <2>6. Chains'
    BY <1>1, <1>2, <1>3, <1>4, <2>1, <2>4, <2>5 DEF Chains, Undoable, Indexed, AtOrigin
  <2> QED BY <2>2, <2>6
<1> QED BY <1>5, <1>6, <1>7, <1>8 DEF IndInv

(* The place for undo data is beyond all that some database knows; if then   *)
(* the disk is full, the place is wasted.                                    *)
LEMMA TakesUndoStep ==
  ASSUME IndInv, pc = "activate", mem.coins = mem.tip, mem.index = db.b, ConnectKeeps,
         NEW b \in Indexed(db.b), TakesUndo(b),
         (b = Genesis /\ mem.tip = None) \/ (b \in Blocks /\ mem.tip = hashPrev[b] /\ mem.tip # None)
  PROVE  IndInv'
<1> DEFINE f == mem.index[b].file
           size == db.f[f].nUndoSize
           info == UndoInfo(b)
           Memory == [last : Files, info : CBlockFileInfo, index : Index,
                      tip : AllBlocks \cup {None}, coins : AllBlocks \cup {None},
                      written : BOOLEAN]
           Fails == pc' = "idle" /\ cur' = None /\ at' = None /\ ~fReindex /\ nFaults' = nFaults + 1
           Takes == pc' = "undo" /\ cur' = b /\ nFaults' = nFaults /\ at' = Place("rev", f, size)
<1>1. /\ dbOld' = dbOld \cup {db'} /\ nFaults' \in {nFaults, nFaults + 1}
      /\ UNCHANGED <<coinsdb, coinsOld, data, loose, target, fReindex, scan, excused, nReindex>>
      /\ b \in Blocks /\ b \in AllBlocks /\ mem.tip = hashPrev[b] /\ mem.tip # None
      /\ mem.index[b].undo = None /\ b # Genesis
  BY DEF TakesUndo, ConnectKeeps, AllBlocks
<1>2. ~Storing /\ ~Storing' /\ ~Undoing /\ Up /\ Up'
  BY SMTT(30) DEF TakesUndo, Storing, Undoing, Up
<1>3. /\ mem \in Memory /\ db \in Db /\ dbOld \subseteq Db /\ db \in dbOld /\ nFaults \in Nat
      /\ nFaults \in 0 .. MaxFaults /\ MaxFaults \in Nat /\ Counted(db, nFaults) /\ Closed(db.b)
  <2>1. mem \in Memory
    BY Zenon, Basics DEF TypeOK
  <2>2. Closed(db.b)
    BY Zenon, Basics DEF Shape
  <2>3. MaxFaults \in Nat
    BY FilesAssumption
  <2> QED BY Zenon, <1>2, <2>1, <2>2, <2>3, Basics
<1>4. /\ f \in Files /\ InfoOf(f) \in CBlockFileInfo /\ db.f[f] \in CBlockFileInfo
      /\ db.f[f].nSize <= InfoOf(f).nSize /\ InfoOf(f).nUndoSize = size
      /\ InfoOf(f).nSize < MAX_BLOCKFILE_SIZE
  <2>1. f \in Files
    BY <1>3, EntryPlaces DEF CDiskBlockIndex
  <2> HIDE DEF f
  <2> QED BY <1>2, <2>1, InfoSizes
<1>5. Fails \/ Takes
  BY Zenon, <1>4 DEF TakesUndo
<1>6. /\ info \in CBlockFileInfo /\ info.nSize = InfoOf(f).nSize /\ info.nUndoSize = size + 1
      /\ size \in Nat /\ info.nSize \in Nat /\ db.f[f].nSize \in Nat
  <2>1. info = [InfoOf(f) EXCEPT !.nUndoSize = @ + 1]
    BY DEF UndoInfo
  <2>2. \A i \in CBlockFileInfo :
          LET j == [i EXCEPT !.nUndoSize = @ + 1] IN
          /\ j \in CBlockFileInfo /\ j.nSize = i.nSize /\ j.nUndoSize = i.nUndoSize + 1
          /\ i.nUndoSize \in Nat /\ i.nSize \in Nat
    BY DEF CBlockFileInfo
  <2> HIDE DEF f, info, size
  <2> QED BY Zenon, <1>4, <2>1, <2>2
<1>7. /\ db' \in Db /\ db'.b = db.b /\ db'.f[f] = info
      /\ \A g \in Files \ {f} : db'.f[g] = db.f[g]
  <2>1. db' = [db EXCEPT !.f[f] = info]
    BY DEF TakesUndo
  <2> HIDE DEF f, info
  <2> QED BY <1>3, <1>4, <1>6, <2>1 DEF Db
<1>8. /\ mem' \in Memory /\ UNCHANGED <<mem.last, mem.index, mem.tip, mem.coins, mem.written>>
      /\ mem'.info = IF f = mem.last THEN info ELSE mem.info
  <2>1. mem' = IF f = mem.last THEN [mem EXCEPT !.info = info] ELSE mem
    BY DEF TakesUndo
  <2> HIDE DEF f, info
  <2>2. CASE f = mem.last
    BY <1>3, <1>6, <2>1, <2>2
  <2>3. CASE f # mem.last
    BY <1>3, <2>1, <2>3
  <2> QED BY <2>2, <2>3
<1> HIDE DEF f, info, size, Memory
<1>9. /\ nFaults' \in 0 .. MaxFaults /\ nFaults' \in Nat
  BY <1>1, <1>3 DEF TakesUndo
<1>10. size \in Slots /\ (Takes => at' \in Places /\ at'.kind = "rev" /\ at'.file = f /\ at'.pos = size)
  <2>1. Room(Awaiting(db.b, f), Left(db, f, nFaults)) /\ db.f[f].nSize < MAX_BLOCKFILE_SIZE
    BY Zenon, <1>3, <1>4 DEF Counted
  <2>4. MAX_BLOCKFILE_SIZE \in Nat /\ nFaults <= MaxFaults
    BY <1>3, FilesAssumption
  <2>6. size <= MAX_BLOCKFILE_SIZE + MaxFaults
    <3>1. Left(db, f, nFaults) >= 0
      BY <1>3, <1>4, <2>1, LeftType, RoomHas DEF Room, Rooms
    <3> QED BY <1>3, <1>6, <2>1, <2>4, <3>1 DEF Left, size
  <2>7. size \in Slots
    BY <1>3, <1>6, <2>4, <2>6 DEF Slots
  <2> QED BY <1>4, <2>7 DEF Place, Places, Kinds
<1>11. \A g \in Files :
         db.f[g].nSize <= db'.f[g].nSize /\ db.f[g].nUndoSize <= db'.f[g].nUndoSize
  <2> SUFFICES ASSUME NEW g \in Files
               PROVE  db.f[g].nSize <= db'.f[g].nSize /\ db.f[g].nUndoSize <= db'.f[g].nUndoSize
    OBVIOUS
  <2>1. db.f[g] \in CBlockFileInfo
    BY <1>3 DEF Db
  <2> QED BY <1>4, <1>6, <1>7, <2>1 DEF CBlockFileInfo, size
<1>12. TypeOK'
  <2>1. pc' \in {"idle", "undo"} /\ cur' \in AllBlocks \cup {None} /\ at' \in Places \cup {None}
    BY SMTT(30), <1>1, <1>5, <1>10
  <2> QED BY SMTT(30), <1>1, <1>3, <1>7, <1>8, <1>9, <2>1 DEF IndInv, TypeOK, Memory
<1>13. Shape'
  <2>1. Undoing' => /\ at' \in Places /\ at'.kind = "rev" /\ cur' = b /\ at'.file = f
    BY <1>5, <1>10 DEF Undoing
  <2>2. mem'.index[b].file = f /\ mem'.index[b].undo = None /\ mem'.index = db.b
    BY ZenonT(30), <1>1, <1>8 DEF f
  <2>3. pc' \in {"idle", "undo"}
    BY <1>5
  <2>4. Shape
    BY Zenon, Basics
  <2>5. \A d \in dbOld' : Closed(d.b)
    BY Zenon, <1>1, <1>7, <2>4 DEF Shape
  <2>6. {mem'.tip, mem'.coins} \subseteq Indexed(mem'.index) \cup {None}
    <3>1. {mem.tip, mem.coins} \subseteq Indexed(mem.index) \cup {None}
      BY <2>4 DEF Shape
    <3> QED BY <1>8, <3>1 DEF Indexed
  <2>7. target' \in Indexed(mem'.index)
    <3>1. Activating
      BY DEF Activating
    <3>2. target \in Indexed(mem.index)
      BY Zenon, <2>4, <3>1 DEF Shape
    <3> QED BY Zenon, <1>1, <1>8, <3>2 DEF Indexed
  <2>8. b \in Indexed(mem'.index) \ {Genesis} /\ hashPrev[b] = mem'.tip
    BY Zenon, <1>1, <1>8
  <2>9. (fReindex => mem.coins = mem.tip)' /\ pc' # "write"
    BY <1>1, <1>8, <2>3
  <2>10. (db \in dbOld /\ coinsdb \in coinsOld /\ \A l \in loose : l.initial)'
    BY Zenon, <1>1, <2>4 DEF Shape
  <2>11. (\A d \in dbOld : Closed(d.b))'
    BY Zenon, <2>5 DEF Closed, Indexed
  <2>12. mem'.index = db'.b
    BY Zenon, <1>7, <1>8
  <2> QED BY Zenon, <1>2, <2>1, <2>2, <2>6, <2>7, <2>8, <2>9, <2>10, <2>11, <2>12 DEF Shape, Indexed
<1>14. Sizes'
  <2>1. \A g \in Files \ {f} : Room(Awaiting(db'.b, g), Left(db', g, nFaults))
    BY Zenon, <1>3, <1>7 DEF Counted, Left
  <2>2. Counted(db', nFaults + 1)
    <3> SUFFICES ASSUME NEW g \in Files
                 PROVE  /\ db'.f[g].nSize < MAX_BLOCKFILE_SIZE
                        /\ Room(Awaiting(db'.b, g), Left(db', g, nFaults + 1))
      BY DEF Counted
    <3>1. Room(Awaiting(db'.b, g), Left(db, g, nFaults)) /\ db'.f[g].nSize < MAX_BLOCKFILE_SIZE
      BY Zenon, <1>3, <1>4, <1>6, <1>7 DEF Counted
    <3>2. /\ Left(db, g, nFaults) \in Int /\ Left(db', g, nFaults + 1) \in Int
          /\ Left(db, g, nFaults) <= Left(db', g, nFaults + 1)
      <4>1. CASE g = f
        BY <1>3, <1>4, <1>6, <1>7, <4>1 DEF Left, size
      <4>2. CASE g # f
        <5>1. Left(db', g, nFaults + 1) = Left(db, g, nFaults + 1)
          BY <1>7, <4>2 DEF Left
        <5> QED BY <1>3, <5>1, LeftType
      <4> QED BY <4>1, <4>2
    <3> QED BY <3>1, <3>2, RoomMore
  <2>3. \A d \in dbOld' : Counted(d, nFaults' + 1)
    <3> SUFFICES ASSUME NEW d \in dbOld' PROVE Counted(d, nFaults' + 1)
      OBVIOUS
    <3>1. d \in Db /\ Counted(d, nFaults + 1)
      BY Zenon, <1>1, <1>3, <1>7, <2>2 DEF IndInv, Sizes
    <3>2. nFaults + 1 \in Nat /\ nFaults' + 1 \in Nat /\ nFaults + 1 <= nFaults' + 1
      <4>1. \A m \in Nat : /\ m + 1 \in Nat /\ m + 1 + 1 \in Nat
                           /\ m + 1 <= m + 1 /\ m + 1 <= m + 1 + 1
        OBVIOUS
      <4>2. nFaults' = nFaults \/ nFaults' = nFaults + 1
        BY <1>1
      <4> QED BY Zenon, <1>3, <4>1, <4>2
    <3> QED BY <3>1, <3>2, CountedMore
  <2>4. ~Undoing' => Counted(db', nFaults')
    BY Zenon, <1>5, <2>2 DEF Undoing
  <2>5. (\A d \in dbOld : Counted(d, nFaults + 1))' /\ (~Undoing => Counted(db, nFaults))'
    BY Zenon, <2>3, <2>4 DEF Counted, Awaiting, Left, Room, Indexed
  <2>6. (Undoing => \A g \in Files \ {at.file} : Room(Awaiting(db.b, g), Left(db, g, nFaults)))'
    <3>1. Undoing' => at'.file = f /\ nFaults' = nFaults
      BY <1>5, <1>10 DEF Undoing
    <3> QED BY Zenon, <2>1, <3>1 DEF Awaiting, Left, Room, Indexed
  <2>7. (/\ mem.info.nUndoSize = db.f[mem.last].nUndoSize
         /\ db.f[mem.last].nSize <= mem.info.nSize
         /\ mem.info.nSize < MAX_BLOCKFILE_SIZE)'
    <3>1. mem.last \in Files
      BY <1>3 DEF Memory
    <3>2. CASE f = mem.last
      BY <1>4, <1>6, <1>7, <1>8, <3>2
    <3>3. CASE f # mem.last
      BY <1>2, <1>7, <1>8, <3>1, <3>3 DEF IndInv, Sizes
    <3> QED BY <3>2, <3>3
  <2>8. (fReindex => \A p \in scan :
                       p.kind = "blk" /\ data[p] # None /\ InfoOf(p.file).nSize <= p.pos)'
    <3>1. \A g \in Files : InfoOf(g)'.nSize = InfoOf(g).nSize
      BY Zenon, <1>6, <1>7, <1>8 DEF InfoOf
    <3>2. scan \subseteq Places /\ \A p \in Places : p.file \in Files
      BY DEF IndInv, TypeOK, Places
    <3> QED BY Zenon, <1>1, <3>1, <3>2 DEF IndInv, Sizes
  <2>9. (\A p \in Places : p.kind = "blk" /\ data[p] # None => p.pos < MAX_BLOCKFILE_SIZE - 1)'
    BY Zenon, <1>1 DEF IndInv, Sizes
  <2> QED BY Zenon, <1>2, <2>5, <2>6, <2>7, <2>8, <2>9 DEF Sizes
<1>15. ASSUME excused' = {} PROVE Records' /\ Chains'
  <2>1. Records /\ Chains
    BY <1>1, <1>15 DEF IndInv
  <2>2. (\A d \in dbOld : Sound(d))' /\ (\A d \in dbOld, g \in Files :
           d.f[g].nSize <= db.f[g].nSize /\ d.f[g].nUndoSize <= db.f[g].nUndoSize)'
    <3>1. \A d \in dbOld : \A c \in Indexed(d.b) :
            LET e == d.b[c] IN
            /\ e.pos < d.f[e.file].nSize /\ data'[Place("blk", e.file, e.pos)] = c
            /\ e.undo # None =>
                 e.undo < d.f[e.file].nUndoSize /\ data'[Place("rev", e.file, e.undo)] = c
      BY Zenon, <1>1, <2>1 DEF Records, Sound
    <3> QED BY Zenon, <1>1, <1>3, <1>7, <1>11, <2>1, <3>1, GrownRecords DEF IndInv, Records
  <2>3. Takes => Free(at)'
    <3> SUFFICES ASSUME Takes PROVE Free(at)'
      OBVIOUS
    <3>1. ASSUME NEW d \in dbOld', NEW c \in Indexed(d.b)
          PROVE  /\ at' # Place("blk", d.b[c].file, d.b[c].pos)
                 /\ d.b[c].undo # None => at' # Place("rev", d.b[c].file, d.b[c].undo)
      <4>1. PICK o \in dbOld : o.b = d.b
        BY Zenon, <1>1, <1>3, <1>7, <3>1
      <4>2. /\ o \in Db /\ o.b[c] \in CDiskBlockIndex
        BY <1>3, <3>1, <4>1, EntryPlaces
      <4>3. /\ o.b[c].file \in Files /\ o.f[o.b[c].file] \in CBlockFileInfo
            /\ o.b[c].undo # None => o.b[c].undo \in Nat
        <5>1. o.b[c].file \in Files /\ o.b[c].undo \in Slots \cup {None}
          BY <4>2 DEF CDiskBlockIndex
        <5>2. o.f \in [Files -> CBlockFileInfo]
          BY <4>2 DEF Db
        <5>3. o.b[c].undo # None => o.b[c].undo \in Nat
          BY <5>1 DEF Slots
        <5> QED BY Zenon, <5>1, <5>2, <5>3
      <4>4. /\ o.b[c].undo # None => o.b[c].undo < o.f[o.b[c].file].nUndoSize
            /\ o.f[o.b[c].file].nUndoSize <= db.f[o.b[c].file].nUndoSize
        BY Zenon, <2>1, <3>1, <4>1, <4>3 DEF Records, Sound
      <4>5. o.b[c].file = f /\ o.b[c].undo # None => o.b[c].undo < size
        BY <1>4, <4>3, <4>4 DEF CBlockFileInfo, size
      <4>6. at'.kind = "rev" /\ at'.file = f /\ at'.pos = size /\ ~(size < size)
        BY <1>6, <1>10
      <4> QED BY <4>1, <4>5, <4>6 DEF Place
    <3> QED BY Zenon, <3>1 DEF Free, Indexed
  <2>4. Takes => (at.pos < db.f[at.file].nUndoSize)'
    <3>1. size < size + 1
      BY <1>6
    <3> QED BY Zenon, <1>6, <1>7, <1>10, <3>1
  <2>5. Undoing' => Takes
    BY <1>5 DEF Undoing
  <2>6. pc' \in {"idle", "undo"}
    BY <1>5
  <2>7. Records'
    BY SMTT(30), <1>2, <2>2, <2>3, <2>4, <2>5, <2>6 DEF Records, Undoing
  <2>8. (~fReindex => /\ \A d \in dbOld, c \in coinsOld : Undoable(d.b, c)
                      /\ \A d \in dbOld : AtOrigin(d.b))'
    BY ZenonT(30), <1>1, <1>3, <1>7, <2>1, GrownChains
  <2>9. fReindex => Rebuilding'
    BY ZenonT(30), <1>1, <1>7, <1>8, <2>1 DEF Chains, Rebuilding, AtOrigin, Indexed
  <2>10. /\ Undoable(db.b, mem.tip)' /\ Undoable(db.b, mem.coins)'
         /\ (fReindex => Undoable(db.b, coinsdb) \/ coinsdb = None)'
    BY ZenonT(30), <1>1, <1>2, <1>7, <1>8, <2>1 DEF Chains, Undoable, Indexed
  <2>11. Chains'
    BY ZenonT(30), <1>1, <1>2, <1>8, <2>1, <2>6, <2>8, <2>9, <2>10 DEF Chains
  <2> QED BY <2>7, <2>11
<1> QED BY <1>12, <1>13, <1>14, <1>15 DEF IndInv

(* ConnectTip keeps the invariant, however it ends.                          *)
LEMMA ConnectStep ==
  ASSUME NEW fFails \in BOOLEAN
  PROVE  IndInv /\ ConnectTip(fFails) => IndInv'
BY Zenon, ConnectWays, UnreadStep, MovesStep, TakesUndoStep

-----------------------------------------------------------------------------
(* Reading a record while the index is rebuilt *)

(* The record p that is read next, as a block that is dropped or taken.      *)
Dropped(p) ==
  /\ ~(mem.index[data[p]] = None /\ (Parent(data[p]) = None \/ mem.index[Parent(data[p])] # None))
  /\ UNCHANGED <<mem, db, dbOld, cur, at, pc, excused>>
Taken(p) ==
  /\ mem.index[data[p]] = None /\ (Parent(data[p]) = None \/ mem.index[Parent(data[p])] # None)
  /\ FindKnownPos(p) /\ cur' = data[p] /\ at' = p
Reads(p) ==
  /\ pc = "idle" /\ fReindex /\ scan' = scan \ {p}
  /\ \A q \in scan : p.file < q.file \/ (p.file = q.file /\ p.pos <= q.pos)
  /\ UNCHANGED <<coinsdb, coinsOld, data, loose, target, fReindex, nFaults, nReindex>>

(* The record that is read next is a block's, and lies beyond what the       *)
(* blocks found so far make of its file.                                     *)
LEMMA ReadRecord ==
  ASSUME IndInv, fReindex, NEW p \in scan
  PROVE  /\ p \in Places /\ p.kind = "blk" /\ p.file \in Files /\ p.pos \in Nat
         /\ data[p] \in AllBlocks /\ p.pos < MAX_BLOCKFILE_SIZE - 1 /\ InfoOf(p.file).nSize <= p.pos
<1>1. p \in Places /\ data[p] \in AllBlocks \cup {None}
  BY DEF IndInv, TypeOK
<1>2. p.kind = "blk" /\ data[p] # None /\ InfoOf(p.file).nSize <= p.pos
  BY Zenon DEF IndInv, Sizes
<1>3. p.pos < MAX_BLOCKFILE_SIZE - 1
  BY Zenon, <1>1, <1>2 DEF IndInv, Sizes
<1>4. p.file \in Files /\ p.pos \in Nat
  BY <1>1 DEF Places, Slots
<1> QED BY <1>1, <1>2, <1>3, <1>4

(* A record that is dropped changes nothing; the first one is not dropped.   *)
LEMMA DroppedStep ==
  ASSUME IndInv, NEW p \in scan, Reads(p), Dropped(p)
  PROVE  IndInv'
<1>1. /\ pc = "idle" /\ fReindex /\ scan' = scan \ {p}
      /\ UNCHANGED <<mem, disk, pc, cur, at, target, fReindex, excused, nFaults, nReindex>>
  BY DEF Reads, Dropped, disk
<1>2. ~Storing /\ ~Storing' /\ ~Undoing /\ ~Undoing' /\ Up /\ Up' /\ ~Activating /\ ~Activating'
  BY <1>1 DEF Storing, Undoing, Up, Activating
<1>3. TypeOK'
  BY SMTT(30), <1>1 DEF IndInv, TypeOK, disk
<1>4. Shape'
  BY Zenon, <1>1, <1>2 DEF IndInv, Shape, disk, Closed, Indexed
<1>5. Sizes'
  <2>1. (\A d \in dbOld : Counted(d, nFaults + 1))' /\ Counted(db, nFaults)'
    BY Zenon, <1>1, <1>2 DEF IndInv, Sizes, disk, Counted, Awaiting, Left, Room, Indexed
  <2>2. (fReindex => \A q \in scan :
                       q.kind = "blk" /\ data[q] # None /\ InfoOf(q.file).nSize <= q.pos)'
    BY Zenon, <1>1 DEF IndInv, Sizes, disk, InfoOf
  <2> QED BY Zenon, <1>1, <1>2, <2>1, <2>2 DEF IndInv, Sizes, disk
<1>6. ASSUME excused' = {} PROVE Records' /\ Chains'
  <2>1. Records /\ Chains
    BY <1>1, <1>6 DEF IndInv
  <2>2. Records'
    BY <1>1, <1>2, <2>1, RecordsKept DEF disk
  <2>3. p # Origin
    <3> SUFFICES ASSUME p = Origin PROVE FALSE
      BY SMTT(30)
    <3>1. data[p] = Genesis /\ mem.index = NoIndex
      BY <1>1, <2>1 DEF Chains, Rebuilding
    <3>2. mem.index[Genesis] = None /\ Parent(Genesis) = None
      BY SMTT(30), <3>1 DEF NoIndex, AllBlocks, Parent
    <3> QED BY <3>1, <3>2 DEF Dropped
  <2>4. Rebuilding'
    BY ZenonT(30), <1>1, <2>1, <2>3 DEF Chains, Rebuilding, AtOrigin, Indexed, disk
  <2>5. Chains'
    BY ZenonT(30), <1>1, <1>2, <2>1, <2>4 DEF Chains, Undoable, Indexed, disk
  <2> QED BY <2>2, <2>5
<1> QED BY <1>3, <1>4, <1>5, <1>6 DEF IndInv

(* A record that is taken is counted in its file.                            *)
LEMMA TakenStep ==
  ASSUME IndInv, NEW p \in scan, Reads(p), Taken(p)
  PROVE  IndInv'
<1> DEFINE f == p.file
           size == InfoOf(f).nSize
           info == [InfoOf(f) EXCEPT !.nSize = @ + 1]
           Memory == [last : Files, info : CBlockFileInfo, index : Index,
                      tip : AllBlocks \cup {None}, coins : AllBlocks \cup {None},
                      written : BOOLEAN]
<1>1. /\ pc = "idle" /\ fReindex /\ scan' = scan \ {p} /\ cur' = data[p] /\ at' = p
      /\ dbOld' = dbOld \cup {db'} /\ pc' \in {"index", "last"}
      /\ UNCHANGED <<coinsdb, coinsOld, data, loose, target, fReindex, nFaults, nReindex>>
      /\ mem.index[data[p]] = None
  BY DEF Reads, Taken, FindKnownPos, Write
<1>2. ~Storing /\ Storing' /\ ~Undoing /\ ~Undoing' /\ Up /\ Up' /\ ~Activating /\ ~Activating'
  BY <1>1 DEF Storing, Undoing, Up, Activating
<1>3. /\ p \in Places /\ p.kind = "blk" /\ f \in Files /\ p.pos \in Nat
      /\ data[p] \in AllBlocks /\ p.pos < MAX_BLOCKFILE_SIZE - 1 /\ size <= p.pos
  BY SMTT(30), <1>1, ReadRecord
<1>4. /\ mem \in Memory /\ db \in Db /\ dbOld \subseteq Db /\ db \in dbOld /\ nFaults \in Nat
      /\ mem.index = db.b /\ Counted(db, nFaults) /\ MAX_BLOCKFILE_SIZE \in Nat
  <2>1. mem \in Memory
    BY Zenon, Basics DEF TypeOK
  <2> QED BY Zenon, <1>2, <2>1, Basics
<1>5. /\ InfoOf(f) \in CBlockFileInfo /\ db.f[f] \in CBlockFileInfo /\ size \in Nat
      /\ db.f[f].nSize <= size /\ InfoOf(f).nUndoSize = db.f[f].nUndoSize /\ db.f[f].nSize \in Nat
  <2>1. \A i \in CBlockFileInfo : i.nSize \in Nat
    BY DEF CBlockFileInfo
  <2> HIDE DEF f
  <2> QED BY Zenon, <1>2, <1>3, <2>1, InfoSizes
<1>6. info \in CBlockFileInfo /\ info.nSize = size + 1 /\ info.nUndoSize = db.f[f].nUndoSize
  <2>1. \A i \in CBlockFileInfo :
          LET j == [i EXCEPT !.nSize = @ + 1] IN
          j \in CBlockFileInfo /\ j.nSize = i.nSize + 1 /\ j.nUndoSize = i.nUndoSize
    BY DEF CBlockFileInfo
  <2> QED BY Zenon, <1>5, <2>1
<1>7. size + 1 < MAX_BLOCKFILE_SIZE
  <2>1. \A s, k, m \in Nat : s <= k /\ k < m - 1 => s + 1 < m
    OBVIOUS
  <2> HIDE DEF size
  <2> QED BY Zenon, <1>3, <1>4, <1>5, <2>1
<1>8. InfoOf(f) = IF mem.last = f THEN mem.info ELSE db.f[f]
  BY Zenon DEF InfoOf
<1>9. /\ db' \in Db /\ db'.b = db.b /\ db'.f[f] = info
      /\ \A g \in Files \ {f} : db'.f[g] = db.f[g]
  <2>1. db' = [db EXCEPT !.f[f] = info]
    BY Zenon, <1>8 DEF Taken, FindKnownPos, Write
  <2> HIDE DEF f, info
  <2> QED BY <1>3, <1>4, <1>6, <2>1 DEF Db
<1>10. /\ mem' \in Memory /\ mem'.last = f /\ mem'.info = info
       /\ UNCHANGED <<mem.index, mem.tip, mem.coins, mem.written>>
  <2>1. mem' = [mem EXCEPT !.last = f, !.info = info]
    BY Zenon, <1>8 DEF Taken, FindKnownPos
  <2> HIDE DEF f, info
  <2> QED BY Zenon, <1>3, <1>4, <1>6, <2>1
<1>11. excused' = excused \cup (IF p.pos > size THEN {"reindex"} ELSE {})
  BY Zenon, <1>8 DEF Taken, FindKnownPos
<1> HIDE DEF f, size, info, Memory
<1>12. \A g \in Files :
         db.f[g].nSize <= db'.f[g].nSize /\ db.f[g].nUndoSize <= db'.f[g].nUndoSize
  <2> SUFFICES ASSUME NEW g \in Files
               PROVE  db.f[g].nSize <= db'.f[g].nSize /\ db.f[g].nUndoSize <= db'.f[g].nUndoSize
    OBVIOUS
  <2>1. db.f[g] \in CBlockFileInfo
    BY <1>4 DEF Db
  <2> QED BY <1>5, <1>6, <1>9, <2>1 DEF CBlockFileInfo
<1>13. TypeOK'
  <2>1. excused' \subseteq {"power", "reindex"}
    BY SMTT(30), <1>11 DEF IndInv, TypeOK
  <2>2. cur' \in AllBlocks \cup {None} /\ at' \in Places \cup {None} /\ scan' \subseteq Places
    BY ZenonT(30), <1>1, <1>3 DEF IndInv, TypeOK
  <2> QED BY <1>1, <1>4, <1>9, <1>10, <2>1, <2>2 DEF IndInv, TypeOK, Memory
<1>14. Shape'
  <2>1. data[p] # Genesis => mem.index[hashPrev[data[p]]] # None
    BY <1>3, FilesAssumption DEF Taken, Parent, AllBlocks
  <2>2. mem.coins = mem.tip /\ {mem.tip, mem.coins} \subseteq Indexed(mem.index) \cup {None}
    BY <1>1 DEF IndInv, Shape
  <2>3. Shape
    BY Zenon, Basics
  <2>4. \A d \in dbOld' : Closed(d.b)
    BY Zenon, <1>1, <1>4, <1>9, <2>3 DEF Shape
  <2>5. (\A d \in dbOld : Closed(d.b))'
    BY Zenon, <2>4 DEF Closed, Indexed
  <2>6. {mem'.tip, mem'.coins} \subseteq Indexed(mem'.index) \cup {None} /\ mem'.coins = mem'.tip
    BY <1>10, <2>2 DEF Indexed
  <2>7. (db \in dbOld /\ coinsdb \in coinsOld /\ \A l \in loose : l.initial)'
    BY Zenon, <1>1, <2>3 DEF Shape
  <2>8. mem'.index = db'.b /\ pc' # "write"
    <3>1. pc' # "write"
      BY <1>1
    <3> QED BY Zenon, <1>4, <1>9, <1>10, <3>1
  <2>9. /\ at' \in Places /\ at'.kind = "blk" /\ at'.pos < MAX_BLOCKFILE_SIZE - 1
        /\ cur' \in AllBlocks /\ mem'.index[cur'] = None
        /\ cur' # Genesis => mem'.index[hashPrev[cur']] # None
    BY Zenon, <1>1, <1>3, <1>10, <2>1
  <2> QED BY Zenon, <1>2, <2>5, <2>6, <2>7, <2>8, <2>9 DEF Shape, Indexed
<1>15. Sizes'
  <2>1. /\ db'.f[f].nUndoSize = db.f[f].nUndoSize /\ db'.f[f].nSize < MAX_BLOCKFILE_SIZE
        /\ db.f[f].nSize < db'.f[f].nSize
    BY SMTT(30), <1>5, <1>6, <1>7, <1>9
  <2>2. Counted(db', nFaults) /\ Room(Awaiting(db'.b, f), Left(db', f, nFaults - 1))
    BY Zenon, <1>3, <1>4, <1>9, <2>1, GrownCounted
  <2>3. Counted(db', nFaults + 1)
    BY <1>4, <1>9, <2>2, CountedMore
  <2>4. (\A d \in dbOld : Counted(d, nFaults + 1))' /\ Counted(db, nFaults)'
    <3>1. \A d \in dbOld' : Counted(d, nFaults' + 1)
      BY Zenon, <1>1, <2>3 DEF IndInv, Sizes
    <3>2. Counted(db', nFaults')
      BY Zenon, <1>1, <2>2
    <3> QED BY Zenon, <3>1, <3>2 DEF Counted, Awaiting, Left, Room, Indexed
  <2>5. (/\ mem.info.nUndoSize = db.f[mem.last].nUndoSize
         /\ db.f[mem.last].nSize <= mem.info.nSize
         /\ mem.info.nSize < MAX_BLOCKFILE_SIZE)'
    BY <1>5, <1>6, <1>7, <1>9, <1>10
  <2>6. Room(Awaiting(db.b, at.file), Left(db, at.file, nFaults - 1))'
    BY Zenon, <1>1, <2>2 DEF Awaiting, Left, Room, Indexed, f
  <2>7. ASSUME NEW q \in scan'
        PROVE  q.kind = "blk" /\ data'[q] # None /\ InfoOf(q.file)'.nSize <= q.pos
    <3>1. q \in scan /\ q # p
      BY ZenonT(30), <1>1
    <3>2. /\ q \in Places /\ q.kind = "blk" /\ q.file \in Files /\ q.pos \in Nat
          /\ data[q] \in AllBlocks /\ InfoOf(q.file).nSize <= q.pos
      BY ZenonT(30), <1>1, <3>1, ReadRecord
    <3>3. data'[q] # None
      BY Zenon, <1>1, <3>2, FilesAssumption DEF AllBlocks
    <3>4. CASE q.file = f
      <4>1. InfoOf(q.file)' = info
        BY Zenon, <1>10, <3>4 DEF InfoOf
      <4>2. p.pos <= q.pos
        BY SMTT(30), <3>1, <3>2, <3>4 DEF Reads, f, Places, Files
      <4>3. p.pos # q.pos
        BY <1>3, <3>1, <3>2, <3>4 DEF Places, f
      <4>4. \A s, k, m \in Nat : s <= k /\ k <= m /\ k # m => s + 1 <= m
        OBVIOUS
      <4>5. size + 1 <= q.pos
        BY Zenon, <1>3, <1>5, <3>2, <4>2, <4>3, <4>4
      <4> QED BY Zenon, <1>6, <3>2, <3>3, <4>1, <4>5
    <3>5. CASE q.file # f
      <4>1. InfoOf(q.file)' = db.f[q.file]
        BY Zenon, <1>9, <1>10, <3>2, <3>5 DEF InfoOf
      <4>2. /\ db.f[q.file].nSize <= InfoOf(q.file).nSize /\ db.f[q.file] \in CBlockFileInfo
            /\ InfoOf(q.file) \in CBlockFileInfo
        BY Zenon, <1>2, <3>2, InfoSizes
      <4>3. db.f[q.file].nSize <= q.pos
        BY <3>2, <4>2 DEF CBlockFileInfo
      <4> QED BY Zenon, <3>2, <3>3, <4>1, <4>3
    <3> QED BY Zenon, <3>4, <3>5
  <2>8. (fReindex => \A q \in scan :
                       q.kind = "blk" /\ data[q] # None /\ InfoOf(q.file).nSize <= q.pos)'
    BY Zenon, <2>7
  <2>9. (\A q \in Places : q.kind = "blk" /\ data[q] # None => q.pos < MAX_BLOCKFILE_SIZE - 1)'
    BY Zenon, <1>1 DEF IndInv, Sizes
  <2> QED BY Zenon, <1>2, <2>4, <2>5, <2>6, <2>8, <2>9 DEF Sizes
<1>16. ASSUME excused' = {} PROVE Records' /\ Chains'
  <2>1. Records /\ Chains /\ p.pos <= size
    <3>1. excused = {} /\ ~(p.pos > size)
      BY <1>11, <1>16
    <3>2. \A m, n \in Nat : ~(m > n) => m <= n
      OBVIOUS
    <3>3. p.pos <= size
      BY Zenon, <1>3, <1>5, <3>1, <3>2
    <3> QED BY Zenon, <3>1, <3>3 DEF IndInv
  <2>2. (\A d \in dbOld : Sound(d))' /\ (\A d \in dbOld, g \in Files :
           d.f[g].nSize <= db.f[g].nSize /\ d.f[g].nUndoSize <= db.f[g].nUndoSize)'
    <3>1. \A d \in dbOld : \A c \in Indexed(d.b) :
            LET e == d.b[c] IN
            /\ e.pos < d.f[e.file].nSize /\ data'[Place("blk", e.file, e.pos)] = c
            /\ e.undo # None =>
                 e.undo < d.f[e.file].nUndoSize /\ data'[Place("rev", e.file, e.undo)] = c
      BY Zenon, <1>1, <2>1 DEF Records, Sound
    <3> QED BY Zenon, <1>1, <1>4, <1>9, <1>12, <2>1, <3>1, GrownRecords DEF IndInv, Records
  <2>3. (at.pos < db.f[at.file].nSize)' /\ data'[at'] = cur'
    <3>1. p.pos < size + 1
      <4>1. \A m, n \in Nat : m <= n => m < n + 1
        OBVIOUS
      <4> QED BY Zenon, <1>3, <1>5, <2>1, <4>1
    <3> QED BY Zenon, <1>1, <1>6, <1>9, <3>1 DEF f
  <2>4. Records'
    BY <1>1, <1>2, <2>2, <2>3 DEF Records
  <2>5. Origin \in scan => p = Origin
    <3> SUFFICES ASSUME Origin \in scan PROVE p = Origin
      OBVIOUS
    <3>1. p.file < 0 \/ (p.file = 0 /\ p.pos <= 0)
      BY DEF Reads, Origin, Place
    <3>2. p.file \in Nat /\ p.pos \in Nat
      BY <1>3 DEF Files, f
    <3>3. p.file = 0 /\ p.pos = 0
      BY SMTT(30), <3>1, <3>2
    <3> QED BY <1>3, <3>3 DEF Origin, Place, Places
  <2>6. Rebuilding'
    <3>1. Rebuilding
      BY ZenonT(30), <1>1, <2>1 DEF Chains
    <3>2. Origin \notin scan' /\ (Origin \in scan => cur' = Genesis /\ at' = Origin)
      BY Zenon, <1>1, <2>5, <3>1 DEF Rebuilding
    <3> QED BY Zenon, <1>1, <1>9, <1>10, <3>1, <3>2 DEF Rebuilding, AtOrigin, Indexed
  <2>7. /\ (Undoable(db.b, mem.tip) \/ mem.tip = None)'
        /\ (Undoable(db.b, mem.coins) \/ mem.coins = None)'
        /\ (Undoable(db.b, coinsdb) \/ coinsdb = None)'
    BY Zenon, <1>1, <1>2, <1>9, <1>10, <2>1 DEF Chains, Undoable, Indexed
  <2>8. Chains'
    BY Zenon, <1>1, <1>2, <2>6, <2>7 DEF Chains
  <2> QED BY <2>4, <2>8
<1> QED BY <1>13, <1>14, <1>15, <1>16 DEF IndInv

(* LoadExternalBlockFile keeps the invariant with each record.               *)
LEMMA ReindexStep == IndInv /\ ReindexBlock => IndInv'
<1> SUFFICES ASSUME IndInv, ReindexBlock PROVE IndInv'
  OBVIOUS
<1>1. PICK p \in scan : Reads(p) /\ (Dropped(p) \/ Taken(p))
  BY Zenon DEF ReindexBlock, Reads, Dropped, Taken
<1> QED BY <1>1, DroppedStep, TakenStep

-----------------------------------------------------------------------------
(* The theorems *)

(* The invariant holds when the genesis block has been stored.               *)
LEMMA IndInit == Init => IndInv
<1> SUFFICES ASSUME Init PROVE IndInv
  OBVIOUS
<1>1. /\ pc = "idle" /\ cur = None /\ at = None /\ target = None /\ fReindex = FALSE /\ scan = {}
      /\ excused = {} /\ nFaults = 0 /\ nReindex = 0 /\ loose = {}
      /\ db = GenesisDb /\ dbOld = {GenesisDb} /\ coinsdb = Genesis /\ coinsOld = {Genesis}
      /\ data = [p \in Places |-> IF p = Origin THEN Genesis ELSE None]
  BY DEF Init, Origin
<1>2. /\ mem.last = 0 /\ mem.info = GenesisInfo /\ mem.index = GenesisDb.b
      /\ mem.tip = Genesis /\ mem.coins = Genesis
  BY DEF Init
<1>3. /\ ~Storing /\ ~Undoing /\ Up /\ ~Activating
  BY <1>1 DEF Storing, Undoing, Up, Activating
<1>4. GenesisInfo \in CBlockFileInfo /\ GenesisInfo.nSize = 1 /\ GenesisInfo.nUndoSize = 0
      /\ NullInfo \in CBlockFileInfo /\ NullInfo.nSize = 0 /\ NullInfo.nUndoSize = 0
  BY DEF GenesisInfo, NullInfo, CBlockFileInfo
<1>5. /\ GenesisDb.f = [n \in Files |-> IF n = 0 THEN GenesisInfo ELSE NullInfo] /\ GenesisDb.l = 0
      /\ GenesisDb.b = [b \in AllBlocks |->
            IF b = Genesis THEN [file |-> 0, pos |-> 0, undo |-> None] ELSE None]
  BY DEF GenesisDb
<1>6. /\ 0 \in Files /\ 0 \in Slots /\ Genesis \in AllBlocks /\ Genesis # None /\ 1 < MAX_BLOCKFILE_SIZE
      /\ \A f \in Files : f \in Nat
  BY FilesAssumption DEF Files, Slots, AllBlocks
<1>7. /\ GenesisDb.b[Genesis] = [file |-> 0, pos |-> 0, undo |-> None]
      /\ GenesisDb.b[Genesis] \in CDiskBlockIndex /\ GenesisDb.b[Genesis] # None
      /\ GenesisDb.b[Genesis].file = 0 /\ GenesisDb.b[Genesis].pos = 0
      /\ GenesisDb.b[Genesis].undo = None
      /\ \A b \in AllBlocks \ {Genesis} : GenesisDb.b[b] = None
  <2>1. GenesisDb.b[Genesis] = [file |-> 0, pos |-> 0, undo |-> None]
    BY <1>5, <1>6
  <2>2. [file |-> 0, pos |-> 0, undo |-> None] \in CDiskBlockIndex
    BY <1>6, FilesAssumption DEF CDiskBlockIndex
  <2> QED BY <1>5, <2>1, <2>2, NoneAssumption
<1>8. GenesisDb \in Db
  <2>1. GenesisDb.f \in [Files -> CBlockFileInfo] /\ GenesisDb.l \in Files
    BY <1>4, <1>5, <1>6
  <2>2. GenesisDb.b \in Index
    BY <1>5, <1>7 DEF Index
  <2> QED BY <2>1, <2>2 DEF GenesisDb, Db
<1>9. Indexed(GenesisDb.b) = {Genesis}
  BY <1>6, <1>7 DEF Indexed
<1>10. Origin \in Places /\ data[Origin] = Genesis /\ data \in [Places -> AllBlocks \cup {None}]
       /\ \A p \in Places : data[p] # None => p = Origin
  <2>1. Origin \in Places
    BY <1>6 DEF Origin, Place, Places, Kinds
  <2> QED BY <1>1, <1>6, <2>1
<1>11. TypeOK
  <2>1. mem \in [last : Files, info : CBlockFileInfo, index : Index,
                 tip : AllBlocks \cup {None}, coins : AllBlocks \cup {None},
                 written : BOOLEAN]
    BY <1>4, <1>6, <1>8 DEF Init, Db
  <2>2. nFaults \in 0 .. MaxFaults /\ nReindex \in 0 .. MaxReindex
    BY <1>1, FilesAssumption
  <2> QED BY Zenon, <1>1, <1>6, <1>8, <1>10, <2>1, <2>2 DEF TypeOK
<1>12. Shape
  BY <1>1, <1>2, <1>3, <1>9 DEF Shape, Closed
<1>13. Sizes
  <2>1. \A n \in Nat : Counted(GenesisDb, n)
    <3> SUFFICES ASSUME NEW n \in Nat PROVE Counted(GenesisDb, n)
      OBVIOUS
    <3>1. Room({}, n) /\ Room({Genesis}, n + 1)
      <4>1. Room({}, n)
        BY RoomNone
      <4>2. \A S : Room(S, n) => Room(S \cup {Genesis}, n + 1)
        BY <1>6, RoomAdd
      <4>3. {} \cup {Genesis} = {Genesis}
        BY Zenon
      <4> QED BY Zenon, <4>1, <4>2, <4>3
    <3> SUFFICES ASSUME NEW f \in Files
                 PROVE  /\ GenesisDb.f[f].nSize < MAX_BLOCKFILE_SIZE
                        /\ Room(Awaiting(GenesisDb.b, f), Left(GenesisDb, f, n))
      BY DEF Counted
    <3>2. CASE f = 0
      <4>1. GenesisDb.f[f] = GenesisInfo
        BY <1>5, <1>6, <3>2
      <4>2. Awaiting(GenesisDb.b, f) = {Genesis}
        BY <1>7, <1>9, <3>2 DEF Awaiting
      <4>3. Left(GenesisDb, f, n) = n + 1
        BY <1>4, <4>1 DEF Left
      <4> QED BY Zenon, <1>4, <1>6, <3>1, <4>1, <4>2, <4>3
    <3>3. CASE f # 0
      <4>1. GenesisDb.f[f] = NullInfo
        BY <1>5, <3>3
      <4>2. Awaiting(GenesisDb.b, f) = {}
        BY <1>7, <1>9, <3>3 DEF Awaiting
      <4>3. Left(GenesisDb, f, n) = n /\ 0 < MAX_BLOCKFILE_SIZE
        BY <1>4, <4>1, FilesAssumption DEF Left
      <4> QED BY Zenon, <1>4, <3>1, <4>1, <4>2, <4>3
    <3> QED BY Zenon, <3>2, <3>3
  <2>2. /\ mem.info.nUndoSize = db.f[mem.last].nUndoSize
        /\ db.f[mem.last].nSize <= mem.info.nSize
        /\ mem.info.nSize < MAX_BLOCKFILE_SIZE
    BY <1>1, <1>2, <1>4, <1>5, <1>6
  <2>3. \A p \in Places : p.kind = "blk" /\ data[p] # None => p.pos < MAX_BLOCKFILE_SIZE - 1
    <3>1. Origin.pos = 0 /\ 0 < MAX_BLOCKFILE_SIZE - 1
      BY FilesAssumption DEF Origin, Place
    <3> QED BY Zenon, <1>10, <3>1
  <2>4. nFaults \in Nat /\ nFaults + 1 \in Nat
    BY <1>1
  <2>5. (\A d \in dbOld : Counted(d, nFaults + 1)) /\ Counted(db, nFaults)
    BY Zenon, <1>1, <2>1, <2>4
  <2> QED BY Zenon, <1>1, <1>3, <2>2, <2>3, <2>5 DEF Sizes
<1>14. Records
  <2>1. Sound(GenesisDb)
    <3>1. GenesisDb.f[0].nSize = 1
      BY <1>4, <1>5, <1>6
    <3> QED BY <1>7, <1>9, <1>10, <3>1 DEF Sound, Origin
  <2>2. \A f \in Files : GenesisDb.f[f].nSize <= GenesisDb.f[f].nSize
                         /\ GenesisDb.f[f].nUndoSize <= GenesisDb.f[f].nUndoSize
    BY <1>4, <1>5
  <2> QED BY Zenon, <1>1, <1>3, <2>1, <2>2 DEF Records
<1>15. Chains
  <2>1. Undoable(GenesisDb.b, Genesis)
    BY <1>9, PathEquation DEF Undoable
  <2>2. AtOrigin(GenesisDb.b)
    BY <1>7, <1>9 DEF AtOrigin
  <2> QED BY <1>1, <1>2, <1>3, <1>6, <2>1, <2>2 DEF Chains
<1> QED BY <1>11, <1>12, <1>13, <1>14, <1>15 DEF IndInv

(* Steps of other parts of the program keep the invariant.                   *)
LEMMA IndStutter == IndInv /\ UNCHANGED vars => IndInv'
<1> SUFFICES ASSUME IndInv, UNCHANGED vars PROVE IndInv'
  OBVIOUS
<1>1. Still /\ UNCHANGED <<mem, pc, cur, at, target>>
  BY DEF vars, Still
<1>2. TypeOK'
  BY SMTT(30), <1>1 DEF IndInv, TypeOK, Still, disk
<1>3. Shape'
  BY Zenon, <1>1 DEF IndInv, Shape, Still, disk, Up, Storing, Undoing, Activating, Closed, Indexed
<1>4. Sizes'
  BY Zenon, <1>1 DEF IndInv, Sizes, Still, disk, Up, Storing, Undoing, Counted, Awaiting, Left,
     Room, Indexed, InfoOf
<1>5. Records => Records'
  BY Zenon, <1>1 DEF Records, Still, disk, Storing, Undoing, Sound, Free, Indexed
<1>6. Chains => Chains'
  BY Zenon, <1>1 DEF Chains, Still, disk, Up, Undoable, AtOrigin, Rebuilding, Indexed
<1> QED BY <1>1, <1>2, <1>3, <1>4, <1>5, <1>6 DEF IndInv, Still

(* Each step keeps the invariant.                                            *)
LEMMA IndStep == IndInv /\ [Next]_vars => IndInv'
<1> SUFFICES ASSUME IndInv, Next PROVE IndInv'
  BY IndStutter
<1>1. CASE \E b \in Blocks, fFails \in BOOLEAN : StoreBlock(b, fFails)
  BY Zenon, <1>1, StoreStep
<1>2. CASE WriteLastBlockFile
  BY Zenon, <1>2, LastFileStep
<1>3. CASE WriteBlockToDisk
  BY Zenon, <1>3, WriteBlockStep
<1>4. CASE AddToBlockIndex
  BY Zenon, <1>4, AddToIndexStep
<1>5. CASE Activated
  BY Zenon, <1>5, ActivatedStep
<1>6. CASE AssertionFails
  BY Zenon, <1>6, AssertionStep
<1>7. CASE DisconnectTip
  BY Zenon, <1>7, DisconnectStep
<1>8. CASE \E fFails \in BOOLEAN : ConnectTip(fFails)
  BY Zenon, <1>8, ConnectStep
<1>9. CASE WriteUndo
  BY Zenon, <1>9, WriteUndoStep
<1>10. CASE WriteUndoIndex
  BY Zenon, <1>10, UndoIndexStep
<1>11. CASE WriteChainState
  BY Zenon, <1>11, ChainStateStep
<1>12. CASE WriteCoins
  BY Zenon, <1>12, CoinsStep
<1>13. CASE Shutdown
  BY Zenon, <1>13, ShutdownStep
<1>14. CASE Crash
  BY Zenon, <1>14, CrashStep
<1>15. CASE LoadBlockIndexDB
  BY Zenon, <1>15, LoadStep
<1>16. CASE StartReindex
  BY Zenon, <1>16, StartReindexStep
<1>17. CASE ReindexBlock
  BY Zenon, <1>17, ReindexStep
<1>18. CASE EndReindex
  BY Zenon, <1>18, EndReindexStep
<1> QED BY <1>1, <1>2, <1>3, <1>4, <1>5, <1>6, <1>7, <1>8, <1>9, <1>10, <1>11, <1>12, <1>13,
           <1>14, <1>15, <1>16, <1>17, <1>18 DEF Next

(* The inductive invariant holds throughout every behaviour.                 *)
THEOREM FilesAlwaysRight == Spec => []IndInv
<1>1. Init => IndInv
  BY IndInit
<1>2. IndInv /\ [Next]_vars => IndInv'
  BY IndStep
<1> QED BY <1>1, <1>2, PTL DEF Spec

(* Positions stay within the files, whatever fails and however often.        *)
THEOREM FilesTypeCorrect == Spec => []TypeOK
<1>1. IndInv => TypeOK
  BY DEF IndInv
<1> QED BY <1>1, FilesAlwaysRight, PTL

(* After any sequence of crashes, failures and rebuilds that does not excuse *)
(* it, the next start finds all it needs, and so does every handler.         *)
THEOREM AlwaysStartsAgain == Spec => []StartsAgain
<1>1. IndInv => StartsAgain
  BY SMTT(30) DEF IndInv, Chains, StartsAgain
<1> QED BY <1>1, FilesAlwaysRight, PTL

(* The records of all blocks in the index are where the index says.          *)
THEOREM RecordsAlwaysIndexed == Spec => []IndexedRecords
<1>1. IndInv => IndexedRecords
  <2> SUFFICES ASSUME IndInv, excused = {}, NEW b \in Indexed(mem.index)
               PROVE  /\ ReadBlockFromDisk(mem.index, data, b)
                      /\ mem.index[b].undo # None => ReadUndo(mem.index, data, b)
    BY Zenon DEF IndexedRecords
  <2>1. mem.index = db.b
    <3>1. Indexed(NoIndex) = {}
      BY SMTT(30), EmptyMemory
    <3> QED BY <3>1 DEF IndInv, Shape
  <2>2. Sound(db)
    BY DEF IndInv, Shape, Records
  <2> QED BY <2>1, <2>2 DEF Sound, ReadBlockFromDisk, ReadUndo
<1> QED BY <1>1, FilesAlwaysRight, PTL

=============================================================================
