----------------------------- MODULE ChainState -----------------------------
(***************************************************************************)
(* Choosing the active chain: ProcessBlock, AcceptBlock, AddToBlockIndex,  *)
(* FindMostWorkChain and ActivateBestChain (src/src/main.cpp).             *)
(*                                                                         *)
(* Blocks arrive in any order, parents after children, some of them        *)
(* invalid.  A handler runs to its end under cs_main; its loops are        *)
(* unrolled into steps by pc, and nothing else runs until pc is "idle".    *)
(*                                                                         *)
(* Data abstracted: what a block contains is its verdict, the first stage  *)
(* that rejects it.  The wall clock is whether the block came within       *)
(* MATURE_COINS_TIEBREAKER_TIME_LIMIT of the first block of its height.    *)
(* CountMatureCoins, which depends on the coins of the active chain at the *)
(* time, is a choice.  A CChain is its tip: what it contains is the path   *)
(* to the tip.  Definitions marked "Fault:" are not part of the            *)
(* specification: each has a bug that a property has to detect.            *)
(***************************************************************************)
EXTENDS Integers, FiniteSets, Sequences, Functions

CONSTANTS
  Blocks,           \* all blocks of the network
  Genesis,          \* the block InitBlockIndex starts the index with
  NoBlock,          \* NULL
  Verdicts,         \* the verdicts blocks may have, a subset of AllVerdicts
  MaxWork,          \* bound on GetBlockWork
  MaxMature,        \* bound on nMatureCoinsSpent
  MaxOrphanBlocks,  \* -maxorphanblocks
  MaxFailures       \* bound on disk and database failures

(* ok: valid.  check: CheckBlock fails.  checkpoint: too old or too easy for *)
(* a block that does not extend the tip.  accept: AcceptBlock's contextual   *)
(* checks fail.  connect: ConnectBlock fails.  corrupt: ConnectBlock fails   *)
(* with CorruptionPossible.                                                  *)
AllVerdicts == {"ok", "check", "checkpoint", "accept", "connect", "corrupt"}

ASSUME ChainAssumption ==
  /\ Genesis \in Blocks /\ NoBlock \notin Blocks /\ IsFiniteSet(Blocks)
  /\ Verdicts \subseteq AllVerdicts
  /\ MaxWork \in Nat \ {0} /\ MaxMature \in Nat
  /\ MaxOrphanBlocks \in Nat /\ MaxFailures \in Nat

Others == Blocks \ {Genesis}

VARIABLES
  hashPrev, verdict, blockWork,     \* the network's blocks; never change
  mapBlockIndex,                    \* the blocks in the index
  nChainWork, nHeight, nSequenceId, \* fields of their CBlockIndex
  nMatureCoinsSpent, timely,        \* tie-breaker fields
  failed,                           \* blocks with a bit of BLOCK_FAILED_MASK
  setBlockIndexValid,               \* the std::set, in iteration order
  tip,                              \* chainActive.Tip()
  mostWork,                         \* chainMostWork.Tip()
  bestInvalid,                      \* pindexBestInvalid
  viewBest,                         \* pcoinsTip->GetBestBlock()
  orphans,                          \* mapOrphanBlocks
  vWorkQueue,                       \* ProcessBlock's work queue, from entry i on
  cur,                              \* the block in AcceptBlock
  pc,
  failures,                         \* failures so far; AbortNode asked to stop
  oldTip, oldIndex                  \* history: tip and index at the last rest

network == <<hashPrev, verdict, blockWork>>
fields == <<nChainWork, nHeight, nSequenceId, nMatureCoinsSpent, timely>>
index == <<mapBlockIndex, fields>>
chains == <<tip, mostWork, viewBest>>
marks == <<failed, setBlockIndexValid, bestInvalid>>
caller == <<orphans, vWorkQueue, cur>>
rest == <<oldTip, oldIndex>>
vars == <<network, index, marks, chains, caller, pc, failures, rest>>

-----------------------------------------------------------------------------
(* The block tree *)

(* Every non-empty set of blocks has one whose parent is outside it.         *)
IsTree(f) == \A S \in SUBSET Others : S # {} => \E b \in S : f[b] \notin S

(* A block and its ancestors: what a CChain with tip b contains.             *)
Path(b) ==
  LET path[x \in Blocks] == IF x = Genesis THEN {x} ELSE {x} \cup path[hashPrev[x]]
  IN  IF b = NoBlock THEN {} ELSE path[b]

-----------------------------------------------------------------------------
(* CBlockIndexWorkComparator and the set it orders *)

(* The tie-breaker applies to timely blocks with the same parent.            *)
Tie(a, b) ==
  /\ a # Genesis /\ b # Genesis /\ hashPrev[a] = hashPrev[b]
  /\ timely[a] /\ timely[b]
  /\ nMatureCoinsSpent[a] # nMatureCoinsSpent[b]

(* Fault: the later of two equal chains is better. *)
LessPrefersLast(a, b) ==
  IF nChainWork[a] # nChainWork[b] THEN nChainWork[a] < nChainWork[b]
  ELSE IF nHeight[a] # nHeight[b] THEN nHeight[a] < nHeight[b]
  ELSE IF Tie(a, b) THEN nMatureCoinsSpent[a] < nMatureCoinsSpent[b]
  ELSE nSequenceId[a] < nSequenceId[b]

(* a is worse than b.                                                        *)
Less(a, b) ==
  IF nChainWork[a] # nChainWork[b] THEN nChainWork[a] < nChainWork[b]
  ELSE IF nHeight[a] # nHeight[b] THEN nHeight[a] < nHeight[b]
  ELSE IF Tie(a, b) THEN nMatureCoinsSpent[a] < nMatureCoinsSpent[b]
  ELSE nSequenceId[a] > nSequenceId[b]

(* The key comparisons on the search path of a std::set place a new element  *)
(* between two neighbours it compares right with.  The order is not          *)
(* transitive, so there may be several such places.                          *)
Places(s, b) ==
  {i \in 1..Len(s) + 1 : /\ i = 1 \/ Less(s[i - 1], b)
                         /\ i = Len(s) + 1 \/ Less(b, s[i])}

(* The sequence s with b in place i.                                         *)
Insert(s, i, b) == SubSeq(s, 1, i - 1) \o <<b>> \o SubSeq(s, i, Len(s))

(* An element that compares right with all others is found by erase; another *)
(* may be missed.                                                            *)
Misplaced(s, i, j) == i # j /\ ~(Less(s[i], s[j]) <=> i < j)
Findable(s, b) == \A i, j \in 1..Len(s) : s[j] = b => ~Misplaced(s, i, j)

(* std::set::erase takes the equal_range of b: if it meets an element that   *)
(* is misplaced against b, what lies between the two may go as well.         *)
EqualRange(s, b) ==
  {s[k] : k \in {l \in 1..Len(s) : \E i, j \in 1..Len(s) :
                   s[j] = b /\ Misplaced(s, i, j) /\ (l \in i..j \/ l \in j..i)}}

(* Fault: the block keeps its place in the set. *)
ErasuresForgotten(s, S) == {s}

(* The sequence s without the elements of D.                                 *)
Without(s, D) ==
  LET kept[i \in 0..Len(s)] ==
        IF i = 0 THEN <<>>
        ELSE IF s[i] \in D THEN kept[i - 1] ELSE Append(kept[i - 1], s[i])
  IN  kept[Len(s)]

(* What may be left of s when the elements of S are erased.                  *)
Erasures(s, S) ==
  {Without(s, D) : D \in {E \in SUBSET (S \cup UNION {EqualRange(s, b) : b \in S}) :
                            \A b \in S : Findable(s, b) => b \in E}}

-----------------------------------------------------------------------------
Init ==
  /\ hashPrev \in {f \in [Others -> Blocks] : IsTree(f)}
  /\ verdict \in [Others -> Verdicts]
  /\ blockWork \in [Others -> 1..MaxWork]
  /\ mapBlockIndex = {Genesis}
  /\ nChainWork = [b \in Blocks |-> IF b = Genesis THEN 1 ELSE 0]
  /\ nHeight = [b \in Blocks |-> 0]
  /\ nSequenceId = [b \in Blocks |-> IF b = Genesis THEN 1 ELSE 0]
  /\ nMatureCoinsSpent = [b \in Blocks |-> 0]
  /\ timely = [b \in Blocks |-> b = Genesis]
  /\ failed = {} /\ setBlockIndexValid = <<Genesis>>
  /\ tip = Genesis /\ mostWork = Genesis /\ viewBest = Genesis
  /\ bestInvalid = NoBlock
  /\ orphans = {} /\ vWorkQueue = <<>> /\ cur = NoBlock
  /\ pc = "idle" /\ failures = 0
  /\ oldTip = Genesis /\ oldIndex = {Genesis}

-----------------------------------------------------------------------------
(* ProcessBlock *)

Known(b) == b \in mapBlockIndex \cup orphans

RejectedOnArrival(b) ==
  \/ Known(b)
  \/ verdict[b] = "check"
  \/ verdict[b] = "checkpoint" /\ hashPrev[b] # tip

(* PruneOrphanBlocks: at most one orphan, on which no other depends, goes.   *)
PrunedOrphans ==
  IF Cardinality(orphans) <= MaxOrphanBlocks THEN {orphans}
  ELSE {orphans \ {o} : o \in {x \in orphans : \A y \in orphans : hashPrev[y] # x}}

(* A duplicate or a block that fails CheckBlock leaves no trace.             *)
ReceiveRejected(b) ==
  /\ pc = "idle"
  /\ RejectedOnArrival(b)
  /\ UNCHANGED vars

(* A block without its parent is kept; this one came from a peer, who is     *)
(* asked for what is missing (without a peer it is dropped).                 *)
ReceiveOrphan(b) ==
  /\ pc = "idle"
  /\ ~RejectedOnArrival(b)
  /\ hashPrev[b] \notin mapBlockIndex
  /\ \E kept \in PrunedOrphans : orphans' = kept \cup {b}
  /\ UNCHANGED <<network, index, marks, chains, vWorkQueue, cur, pc, failures, rest>>

Receive(b) ==
  /\ pc = "idle"
  /\ ~RejectedOnArrival(b)
  /\ hashPrev[b] \in mapBlockIndex
  /\ cur' = b
  /\ pc' = "accept"
  /\ oldTip' = tip /\ oldIndex' = mapBlockIndex
  /\ UNCHANGED <<network, index, marks, chains, orphans, vWorkQueue, failures>>

(* Fault: a rejected block still releases its orphans. *)
AcceptReturnsAlwaysQueues(success) ==
  /\ orphans' = orphans \ {cur}
  /\ vWorkQueue' = Append(vWorkQueue, cur)
  /\ pc' = "children"
  /\ cur' = NoBlock

(* Fault: the orphans of an orphan are not looked for. *)
AcceptReturnsNotRecursive(success) ==
  /\ orphans' = orphans \ {cur}
  /\ vWorkQueue' = IF success /\ vWorkQueue = <<>> THEN <<cur>> ELSE vWorkQueue
  /\ pc' = IF vWorkQueue' = <<>> THEN "idle" ELSE "children"
  /\ cur' = NoBlock

(* AcceptBlock returned: the received block starts the work queue, an orphan *)
(* is dropped and, when it was accepted, joins the queue.                    *)
AcceptReturns(success) ==
  /\ orphans' = orphans \ {cur}
  /\ vWorkQueue' = IF success THEN Append(vWorkQueue, cur) ELSE vWorkQueue
  /\ pc' = IF vWorkQueue' = <<>> THEN "idle" ELSE "children"
  /\ cur' = NoBlock

(* The orphans that wait for the block at the head of the work queue.        *)
Children == {o \in orphans : hashPrev[o] = Head(vWorkQueue)}

NextChild ==
  /\ pc = "children" /\ Children # {}
  /\ cur' \in Children
  /\ pc' = "accept"
  /\ UNCHANGED <<network, index, marks, chains, orphans, vWorkQueue, failures, rest>>

NoMoreChildren ==
  /\ pc = "children" /\ Children = {}
  /\ vWorkQueue' = Tail(vWorkQueue)
  /\ pc' = IF vWorkQueue' = <<>> THEN "idle" ELSE "children"
  /\ UNCHANGED <<network, index, marks, chains, orphans, cur, failures, rest>>

-----------------------------------------------------------------------------
(* AcceptBlock and AddToBlockIndex *)

AcceptRejects(b) ==
  b \in mapBlockIndex \/ hashPrev[b] \notin mapBlockIndex \/ verdict[b] = "accept"

(* A disk or database operation fails; the callers asked for a shutdown.     *)
Fails == failures < MaxFailures /\ failures' = failures + 1

AcceptFails ==
  /\ pc = "accept"
  /\ \/ AcceptRejects(cur) /\ failures' = failures
     \/ ~AcceptRejects(cur) /\ Fails          \* the block cannot be written
  /\ AcceptReturns(FALSE)
  /\ UNCHANGED <<network, index, marks, chains, rest>>

(* The times at which a block of height h may arrive.                        *)
Timeliness(h) ==
  LET seen == {x \in mapBlockIndex : nHeight[x] = h}
  IN  IF seen = {} THEN {TRUE}
      ELSE IF \A x \in seen : timely[x] THEN BOOLEAN ELSE {FALSE}

(* The new index entry, its fields and its place among the candidates.       *)
NewIndexEntry(b) ==
  LET parent == hashPrev[b] IN
  /\ UNCHANGED network
  /\ mapBlockIndex' = mapBlockIndex \cup {b}
  /\ nSequenceId' = [nSequenceId EXCEPT ![b] = Cardinality(mapBlockIndex) + 1]
  /\ nHeight' = [nHeight EXCEPT ![b] = nHeight[parent] + 1]
  /\ nChainWork' = [nChainWork EXCEPT ![b] = nChainWork[parent] + blockWork[b]]
  /\ \E n \in 0..MaxMature : nMatureCoinsSpent' = [nMatureCoinsSpent EXCEPT ![b] = n]
  /\ \E t \in Timeliness(nHeight[parent] + 1) : timely' = [timely EXCEPT ![b] = t]
  /\ \E s \in {setBlockIndexValid} : \E i \in Places(s, b)' :
       setBlockIndexValid' = Insert(s, i, b)

AddToBlockIndex ==
  /\ pc = "accept" /\ ~AcceptRejects(cur)
  /\ \E b \in {cur} : NewIndexEntry(b)
  /\ \/ /\ pc' = "pop"
        /\ UNCHANGED <<caller, failures>>
     \/ Fails /\ AcceptReturns(FALSE)         \* WriteBlockIndex fails
  /\ UNCHANGED <<failed, bestInvalid, chains, rest>>

-----------------------------------------------------------------------------
(* FindMostWorkChain *)

(* Fault: the comparison is reversed. *)
WorstOfReversed(invalid, b) ==
  IF invalid = NoBlock \/ nChainWork[b] < nChainWork[invalid] THEN b ELSE invalid

(* pindexBestInvalid after InvalidChainFound(b).                             *)
WorstOf(invalid, b) ==
  IF invalid = NoBlock \/ nChainWork[b] > nChainWork[invalid] THEN b ELSE invalid

(* "In case the current best is invalid, do not consider it."                *)
PopInvalid ==
  /\ pc = "pop" /\ mostWork \in failed
  /\ setBlockIndexValid' \in Erasures(setBlockIndexValid, {mostWork})
  /\ mostWork' = IF mostWork = Genesis THEN NoBlock ELSE hashPrev[mostWork]
  /\ UNCHANGED <<network, index, failed, bestInvalid, tip, viewBest, caller, pc, failures, rest>>

PopDone ==
  /\ pc = "pop" /\ mostWork \notin failed
  /\ pc' = "candidate"
  /\ UNCHANGED <<network, index, marks, chains, caller, failures, rest>>

Candidate == setBlockIndexValid[Len(setBlockIndexValid)]

(* The failed blocks between the candidate and the active chain.             *)
FailedAncestors == (Path(Candidate) \ Path(tip)) \cap failed

(* An ancestor failed: everything above the nearest such ancestor goes.      *)
RejectCandidate ==
  /\ pc = "candidate" /\ setBlockIndexValid # <<>>
  /\ FailedAncestors # {}
  /\ LET above == {x \in Path(Candidate) : \A y \in FailedAncestors : nHeight[x] > nHeight[y]}
     IN  /\ failed' = failed \cup above
         /\ setBlockIndexValid' \in Erasures(setBlockIndexValid, above)
  /\ bestInvalid' = WorstOf(bestInvalid, Candidate)
  /\ UNCHANGED <<network, index, chains, caller, pc, failures, rest>>

(* The candidate replaces chainMostWork if it is an improvement.             *)
TakeCandidate ==
  /\ pc = "candidate"
  /\ setBlockIndexValid # <<>> => FailedAncestors = {}
  /\ mostWork' = IF /\ setBlockIndexValid # <<>>
                    /\ mostWork = NoBlock \/ Less(mostWork, Candidate)
                 THEN Candidate ELSE mostWork
  /\ pc' = IF mostWork' = NoBlock THEN "done" ELSE "disconnect"
  /\ UNCHANGED <<network, index, marks, tip, viewBest, caller, failures, rest>>

-----------------------------------------------------------------------------
(* ActivateBestChain *)

(* DisconnectTip.  A failure before the coins are flushed changes nothing;   *)
(* WriteChainState fails when pcoinsTip has moved and chainActive has not.   *)
Disconnecting == pc = "disconnect" /\ tip \notin Path(mostWork)

DisconnectTip ==
  /\ Disconnecting
  /\ IF viewBest # tip THEN pc' = "aborted" /\ UNCHANGED <<chains, caller, failures>>
     ELSE \/ /\ tip' = hashPrev[tip] /\ viewBest' = hashPrev[tip]
             /\ UNCHANGED <<mostWork, caller, pc, failures>>
          \/ /\ Fails /\ AcceptReturns(FALSE)
             /\ viewBest' \in {tip, hashPrev[tip]}
             /\ UNCHANGED <<tip, mostWork>>
  /\ UNCHANGED <<network, index, marks, rest>>

DisconnectDone ==
  /\ pc = "disconnect" /\ tip \in Path(mostWork)
  /\ pc' = "connect"
  /\ UNCHANGED <<network, index, marks, chains, caller, failures, rest>>

(* chainMostWork[chainActive.Height() + 1]                                   *)
Connecting == pc = "connect" /\ mostWork \notin Path(tip)
pindexConnect == CHOOSE x \in Path(mostWork) : nHeight[x] = nHeight[tip] + 1

(* Fault: what only ConnectBlock checks is not checked. *)
ConnectBlockUnchecked(b) == verdict[b] # "corrupt"

ConnectBlock(b) == verdict[b] \notin {"connect", "corrupt"}

(* ConnectTip, when ConnectBlock succeeds.                                   *)
ConnectTip ==
  /\ Connecting /\ viewBest = tip
  /\ ConnectBlock(pindexConnect)
  /\ tip' = pindexConnect /\ viewBest' = pindexConnect
  /\ UNCHANGED <<network, index, marks, mostWork, caller, pc, failures, rest>>

(* A system error in ConnectTip, before or after the coins are flushed.      *)
ConnectTipFails ==
  /\ Connecting /\ viewBest = tip
  /\ Fails /\ AcceptReturns(FALSE)
  /\ \/ viewBest' = tip
     \/ ConnectBlock(pindexConnect) /\ viewBest' = pindexConnect
  /\ UNCHANGED <<network, index, marks, tip, mostWork, rest>>

(* ConnectBlock's assertion on the view's best block.                        *)
ConnectTipAborts ==
  /\ Connecting /\ viewBest # tip
  /\ pc' = "aborted"
  /\ UNCHANGED <<network, index, marks, chains, caller, failures, rest>>

(* Fault: ActivateBestChain gives up after an invalid block. *)
ConnectTipInvalidGivesUp ==
  /\ Connecting /\ viewBest = tip
  /\ verdict[pindexConnect] = "connect"
  /\ failed' = failed \cup {pindexConnect}
  /\ setBlockIndexValid' \in Erasures(setBlockIndexValid, {pindexConnect})
  /\ bestInvalid' = WorstOf(WorstOf(bestInvalid, pindexConnect), mostWork)
  /\ pc' = "done"
  /\ UNCHANGED <<network, index, chains, caller, failures, rest>>

(* ConnectBlock finds the block invalid: InvalidBlockFound(pindexConnect),   *)
(* InvalidChainFound(chainMostWork.Tip()) and another round.                 *)
ConnectTipInvalid ==
  /\ Connecting /\ viewBest = tip
  /\ verdict[pindexConnect] = "connect"
  /\ failed' = failed \cup {pindexConnect}
  /\ setBlockIndexValid' \in Erasures(setBlockIndexValid, {pindexConnect})
  /\ bestInvalid' = WorstOf(WorstOf(bestInvalid, pindexConnect), mostWork)
  /\ pc' = "pop"
  /\ UNCHANGED <<network, index, chains, caller, failures, rest>>

(* The same with CorruptionPossible: no mark, no erasure, another round.     *)
ConnectTipCorrupt ==
  /\ Connecting /\ viewBest = tip
  /\ verdict[pindexConnect] = "corrupt"
  /\ pc' = "pop"
  /\ UNCHANGED <<network, index, marks, chains, caller, failures, rest>>

(* Back in AddToBlockIndex and AcceptBlock; the last step is the index's     *)
(* Flush, which may fail.                                                    *)
ActivateDone ==
  /\ pc = "done" \/ (pc = "connect" /\ mostWork \in Path(tip))
  /\ \/ AcceptReturns(TRUE) /\ UNCHANGED failures
     \/ AcceptReturns(FALSE) /\ Fails
  /\ UNCHANGED <<network, index, marks, chains, rest>>

-----------------------------------------------------------------------------
Handler ==
  \/ NextChild \/ NoMoreChildren
  \/ AcceptFails \/ AddToBlockIndex
  \/ PopInvalid \/ PopDone \/ RejectCandidate \/ TakeCandidate
  \/ DisconnectTip \/ DisconnectDone
  \/ ConnectTip \/ ConnectTipFails \/ ConnectTipAborts
  \/ ConnectTipInvalid \/ ConnectTipCorrupt \/ ActivateDone

Next ==
  \/ \E b \in Others : ReceiveRejected(b) \/ ReceiveOrphan(b) \/ Receive(b)
  \/ Handler

Spec == Init /\ [][Next]_vars

(* A handler that has begun keeps running; no block need ever arrive.        *)
LiveSpec == Spec /\ WF_vars(Handler)

-----------------------------------------------------------------------------
(* Properties *)

(* All fields stay in their ranges.                                          *)
TypeOK ==
  /\ mapBlockIndex \subseteq Blocks /\ orphans \subseteq Others
  /\ nChainWork \in [Blocks -> Nat] /\ nHeight \in [Blocks -> Nat]
  /\ nSequenceId \in [Blocks -> Nat]
  /\ nMatureCoinsSpent \in [Blocks -> 0..MaxMature] /\ timely \in [Blocks -> BOOLEAN]
  /\ failed \subseteq mapBlockIndex
  /\ setBlockIndexValid \in Seq(mapBlockIndex)
  /\ tip \in mapBlockIndex /\ viewBest \in mapBlockIndex
  /\ mostWork \in mapBlockIndex \cup {NoBlock}
  /\ bestInvalid \in mapBlockIndex \cup {NoBlock}
  /\ vWorkQueue \in Seq(mapBlockIndex) /\ cur \in Others \cup {NoBlock}
  /\ pc \in {"idle", "children", "accept", "pop", "candidate", "disconnect",
             "connect", "done", "aborted"}
  /\ failures \in 0..MaxFailures

FullyValid(b) ==
  \A x \in Path(b) \ {Genesis} : verdict[x] \in {"ok", "checkpoint"}

(* The promise of ActivateBestChain: when a handler is done, no block of the *)
(* index whose whole chain is valid is better than the tip, whatever order   *)
(* the blocks came in and however many better looking chains turned out to   *)
(* be invalid on the way.                                                    *)
BestValidTip ==
  (pc = "idle" /\ failures = 0) =>
    \A b \in mapBlockIndex : FullyValid(b) => ~Less(tip, b)

(* The active chain never contains an invalid block, not even while a        *)
(* reorganisation that will be abandoned is under way, or after an error.    *)
ActiveChainValid == FullyValid(tip)

(* A block is marked failed only if it or an ancestor breaks a rule, and     *)
(* pindexBestInvalid is an invalid chain with at least the work of every     *)
(* block that is marked (CheckForkWarningConditions compares it to the tip). *)
FailedMarksRight ==
  /\ \A b \in failed : ~FullyValid(b)
  /\ bestInvalid # NoBlock => ~FullyValid(bestInvalid)
  /\ \A b \in failed : bestInvalid # NoBlock /\ nChainWork[bestInvalid] >= nChainWork[b]

(* setBlockIndexValid "must contain those who aren't failed" (main.cpp:146). *)
UnfailedAreCandidates ==
  \A b \in mapBlockIndex : b \notin failed => b \in Range(setBlockIndexValid)

(* setBlockIndexValid "must contain those who aren't failed" (main.cpp:146), *)
(* once each; and it holds no block that is itself marked failed, which      *)
(* FindMostWorkChain would pick again and again without removing it.         *)
CandidatesRight ==
  /\ UnfailedAreCandidates
  /\ \A b \in Range(setBlockIndexValid) : b \notin failed
  /\ Cardinality(Range(setBlockIndexValid)) = Len(setBlockIndexValid)

(* No orphan is left behind: after ProcessBlock's work queue is empty, no    *)
(* orphan has its parent in the index.  Those that are kept take bounded     *)
(* memory: PruneOrphanBlocks runs before the new one is inserted, so that    *)
(* one more than -maxorphanblocks may be kept.                               *)
OrphansDetached ==
  /\ Cardinality(orphans) <= MaxOrphanBlocks + 1
  /\ (pc = "idle" /\ failures = 0) => \A o \in orphans : hashPrev[o] \notin mapBlockIndex

(* One handler moves the tip only to a chain with more work, or with equal   *)
(* work and greater height, or to a timely sibling that spends more mature   *)
(* coins: a node never leaves its chain for a merely equal one.              *)
TipMovesForReason ==
  (pc = "idle" /\ failures = 0 /\ tip # oldTip) =>
    \/ nChainWork[tip] > nChainWork[oldTip]
    \/ nChainWork[tip] = nChainWork[oldTip] /\ nHeight[tip] > nHeight[oldTip]
    \/ /\ nChainWork[tip] = nChainWork[oldTip] /\ nHeight[tip] = nHeight[oldTip]
       /\ Tie(oldTip, tip) /\ nMatureCoinsSpent[tip] > nMatureCoinsSpent[oldTip]

(* The tie-breaker README.md:115 promises: when the node hears in time of a  *)
(* block that "spends more mature coins than the alternate block did, then   *)
(* the node will choose it as the tip".                                      *)
TieBreak ==
  pc = "idle" =>
    \A b \in mapBlockIndex :
      (FullyValid(b) /\ Tie(tip, b)) => nMatureCoinsSpent[b] < nMatureCoinsSpent[tip]

(* ChainState implements BestChain: seen only when no handler is running,    *)
(* the node is one that learns blocks and keeps to the best valid chain.     *)
Promise == INSTANCE BestChain WITH
  parent <- hashPrev, work <- blockWork,
  good <- [b \in Others |-> verdict[b] \in {"ok", "checkpoint"}],
  known <- IF pc = "idle" THEN mapBlockIndex ELSE oldIndex,
  best <- IF pc = "idle" THEN tip ELSE oldTip

KeepsPromise == Promise!Spec

(* Every handler ends: the retries of ActivateBestChain and the candidate    *)
(* loop of FindMostWorkChain terminate.  Only a block that fails with        *)
(* CorruptionPossible, which is tried again without end, stands in the way.  *)
HandlerEnds ==
  (pc # "idle" /\ \A b \in Others : verdict[b] # "corrupt") ~> pc = "idle"
=============================================================================
