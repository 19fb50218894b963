---------------------------- MODULE BlockDownload ----------------------------
(***************************************************************************)
(* Which block is asked of which peer (CNodeState, mapBlocksToDownload and *)
(* mapBlocksInFlight of src/src/main.cpp), as the message thread handles   *)
(* "inv" and "block" and sends "getdata", and the socket thread notices    *)
(* bytes and silent peers, takes nodes out of vNodes and deletes them.     *)
(*                                                                         *)
(* A node is its NodeId, which is never used again.  A time is a stamp:    *)
(* its age, cut just above the limit it is compared with, and whether it   *)
(* lies before nLastBlockProcess by more than that limit.  The clock and   *)
(* nLastBlockProcess themselves need not be kept then.  Which blocks the   *)
(* node has or finds invalid is a choice here (ChainState says how it is   *)
(* made), and so is when the penalties of a node reach -banscore.  Nodes   *)
(* begin after the version handshake.                                      *)
(***************************************************************************)
EXTENDS Integers, Sequences, FiniteSets

CONSTANTS
  Peers,            \* NodeIds
  NoPeer,
  Blocks,           \* hashes of blocks
  MaxInTransit,     \* MAX_BLOCKS_IN_TRANSIT_PER_PEER
  MaxQueued,        \* blocks a peer may announce unpunished: 5000
  Timeout,          \* BLOCK_DOWNLOAD_TIMEOUT
  Inactivity        \* the socket thread's limit of 90 minutes

ASSUME DownloadAssumption ==
  /\ NoPeer \notin Peers
  /\ MaxInTransit \in Nat /\ MaxQueued \in Nat /\ Timeout \in Nat /\ Inactivity \in Nat

VARIABLES
  dl,                \* the maps and lists of downloads, see QueueType
  fShouldBan,        \* nodes to be banned
  nodes,             \* NodeIds in mapNodeState: constructed, not deleted
  used,              \* NodeIds given so far
  vNodes, fDisconnect,
  quiet,             \* time since nLastRecv
  vRecvMsg,          \* nodes with a complete message in their vRecvMsg
  pc, pto,           \* the message thread and the node it is on
  copy, todo         \* its vNodesCopy, with references, and what is left of it

lists == <<nodes, used, vNodes>>
thread == <<pc, pto, copy, todo>>
vars == <<dl, fShouldBan, lists, fDisconnect, quiet, vRecvMsg, thread>>

-----------------------------------------------------------------------------
(* Stamps *)

ReceiveLimit == Timeout      \* for nLastBlockReceive
RequestLimit == 2 * Timeout  \* for the nTime of a request

Stamps(limit) == [age : 0..(limit + 1), late : BOOLEAN]

Fresh == [age |-> 0, late |-> FALSE]
Epoch == [age |-> ReceiveLimit + 1, late |-> FALSE]
Older(s, limit) == [s EXCEPT !.age = IF @ > limit THEN @ ELSE @ + 1]
Processed(s, limit) == [s EXCEPT !.late = (s.age > limit)]

-----------------------------------------------------------------------------
(* The queues *)

Entries == [hash : Blocks, nTime : Stamps(RequestLimit)]

QueueType == [
  mapBlocksToDownload : [Blocks -> Peers \cup {NoPeer}],
  mapBlocksInFlight : [Blocks -> Peers \cup {NoPeer}],
  vBlocksToDownload : [Peers -> Seq(Blocks)],
  nBlocksToDownload : [Peers -> Int],
  vBlocksInFlight : [Peers -> Seq(Entries)],
  nBlocksInFlight : [Peers -> Int],
  nLastBlockReceive : [Peers -> Stamps(ReceiveLimit)]]

(* std::list::erase of the element at i.                                     *)
Erase(s, i) == [j \in 1..(Len(s) - 1) |-> IF j < i THEN s[j] ELSE s[j + 1]]

(* The places the iterators kept in the maps point to.                       *)
PlaceToDownload(q, p, h) ==
  CHOOSE i \in 1..Len(q.vBlocksToDownload[p]) : q.vBlocksToDownload[p][i] = h
PlaceInFlight(q, p, h) ==
  CHOOSE i \in 1..Len(q.vBlocksInFlight[p]) : q.vBlocksInFlight[p][i].hash = h

(* The two halves of MarkBlockAsReceived.                                    *)
Unqueue(q, h) ==
  LET p == q.mapBlocksToDownload[h] IN
  IF p = NoPeer THEN q
  ELSE [q EXCEPT !.vBlocksToDownload[p] = Erase(@, PlaceToDownload(q, p, h)),
                 !.nBlocksToDownload[p] = @ - 1,
                 !.mapBlocksToDownload[h] = NoPeer]

(* Fault: the counter keeps the block that came from another peer.           *)
LandMiscounted(q, h, from) ==
  LET p == q.mapBlocksInFlight[h] IN
  IF p = NoPeer THEN q
  ELSE [q EXCEPT !.vBlocksInFlight[p] = Erase(@, PlaceInFlight(q, p, h)),
                 !.nBlocksInFlight[p] = IF p = from THEN @ - 1 ELSE @,
                 !.nLastBlockReceive[p] = IF p = from THEN Fresh ELSE @,
                 !.mapBlocksInFlight[h] = NoPeer]

Land(q, h, from) ==
  LET p == q.mapBlocksInFlight[h] IN
  IF p = NoPeer THEN q
  ELSE [q EXCEPT !.vBlocksInFlight[p] = Erase(@, PlaceInFlight(q, p, h)),
                 !.nBlocksInFlight[p] = @ - 1,
                 !.nLastBlockReceive[p] = IF p = from THEN Fresh ELSE @,
                 !.mapBlocksInFlight[h] = NoPeer]

MarkBlockAsReceived(q, h, from) == Land(Unqueue(q, h), h, from)

Listed(q, h) == q.mapBlocksToDownload[h] # NoPeer \/ q.mapBlocksInFlight[h] # NoPeer

(* AddBlockToQueue, when the block is not listed and the node has a state.   *)
Enqueue(q, p, h) ==
  [q EXCEPT !.vBlocksToDownload[p] = Append(@, h),
            !.nBlocksToDownload[p] = @ + 1,
            !.mapBlocksToDownload[h] = p]

(* Fault: the newest request goes to the front.                              *)
MarkBlockAsInFlightInFront(q, p, h) ==
  LET q1 == MarkBlockAsReceived(q, h, NoPeer) IN
  [q1 EXCEPT !.nLastBlockReceive[p] = IF q1.nBlocksInFlight[p] = 0 THEN Fresh ELSE @,
             !.vBlocksInFlight[p] = <<[hash |-> h, nTime |-> Fresh]>> \o @,
             !.nBlocksInFlight[p] = @ + 1,
             !.mapBlocksInFlight[h] = p]

(* nQueuedBefore is stored and never read; it is left out.                   *)
MarkBlockAsInFlight(q, p, h) ==
  LET q1 == MarkBlockAsReceived(q, h, NoPeer) IN
  [q1 EXCEPT !.nLastBlockReceive[p] = IF q1.nBlocksInFlight[p] = 0 THEN Fresh ELSE @,
             !.vBlocksInFlight[p] = Append(@, [hash |-> h, nTime |-> Fresh]),
             !.nBlocksInFlight[p] = @ + 1,
             !.mapBlocksInFlight[h] = p]

(* FinalizeNode on the queues: the node's entries leave the maps, its state  *)
(* goes.                                                                     *)
ForgetNode(q, p) ==
  [q EXCEPT !.mapBlocksInFlight =
              [h \in Blocks |-> IF \E i \in 1..Len(q.vBlocksInFlight[p]) :
                                     q.vBlocksInFlight[p][i].hash = h
                                THEN NoPeer ELSE @[h]],
            !.mapBlocksToDownload =
              [h \in Blocks |-> IF \E i \in 1..Len(q.vBlocksToDownload[p]) :
                                     q.vBlocksToDownload[p][i] = h
                                THEN NoPeer ELSE @[h]],
            !.vBlocksToDownload[p] = <<>>, !.nBlocksToDownload[p] = 0,
            !.vBlocksInFlight[p] = <<>>, !.nBlocksInFlight[p] = 0,
            !.nLastBlockReceive[p] = Epoch]

(* The clock moves, for every stamp.                                         *)
Aged(q) ==
  [q EXCEPT !.nLastBlockReceive = [p \in Peers |-> Older(q.nLastBlockReceive[p], ReceiveLimit)],
            !.vBlocksInFlight = [p \in Peers |-> [i \in 1..Len(q.vBlocksInFlight[p]) |->
              [hash |-> q.vBlocksInFlight[p][i].hash,
               nTime |-> Older(q.vBlocksInFlight[p][i].nTime, RequestLimit)]]]]

(* nLastBlockProcess of node p becomes the present time.                     *)
ProcessedNow(q, p) ==
  [q EXCEPT !.nLastBlockReceive[p] = Processed(@, ReceiveLimit),
            !.vBlocksInFlight[p] = [i \in 1..Len(q.vBlocksInFlight[p]) |->
              [hash |-> q.vBlocksInFlight[p][i].hash,
               nTime |-> Processed(q.vBlocksInFlight[p][i].nTime, RequestLimit)]]]

-----------------------------------------------------------------------------

Init ==
  /\ dl = [mapBlocksToDownload |-> [h \in Blocks |-> NoPeer],
           mapBlocksInFlight |-> [h \in Blocks |-> NoPeer],
           vBlocksToDownload |-> [p \in Peers |-> <<>>],
           nBlocksToDownload |-> [p \in Peers |-> 0],
           vBlocksInFlight |-> [p \in Peers |-> <<>>],
           nBlocksInFlight |-> [p \in Peers |-> 0],
           nLastBlockReceive |-> [p \in Peers |-> Epoch]]
  /\ fShouldBan = {}
  /\ nodes = {} /\ used = {} /\ vNodes = {} /\ fDisconnect = {}
  /\ quiet = [p \in Peers |-> 0] /\ vRecvMsg = {}
  /\ pc = "idle" /\ pto = NoPeer /\ copy = {} /\ todo = {}

(* Fault: the node's state is not looked up. *)
MisbehavingUnknown(P) == fShouldBan' \in {fShouldBan \cup B : B \in SUBSET P}

(* The penalties of nodes P reach -banscore or not; a node without state has *)
(* no score.                                                                 *)
Misbehaving(P) == fShouldBan' \in {fShouldBan \cup B : B \in SUBSET (P \cap nodes)}

-----------------------------------------------------------------------------
(* The message thread *)

StartRound ==
  /\ pc = "idle" /\ copy = {} /\ vNodes # {}
  /\ copy' = vNodes /\ todo' = vNodes
  /\ UNCHANGED <<dl, fShouldBan, lists, fDisconnect, quiet, vRecvMsg, pc, pto>>

SkipNode(p) ==
  /\ pc = "idle" /\ p \in todo /\ p \in fDisconnect
  /\ todo' = todo \ {p}
  /\ UNCHANGED <<dl, fShouldBan, lists, fDisconnect, quiet, vRecvMsg, pc, pto, copy>>

PickNode(p) ==
  /\ pc = "idle" /\ p \in todo /\ p \notin fDisconnect
  /\ pc' = "receive" /\ pto' = p /\ todo' = todo \ {p}
  /\ UNCHANGED <<dl, fShouldBan, lists, fDisconnect, quiet, vRecvMsg, copy>>

EndRound ==
  /\ pc = "idle" /\ copy # {} /\ todo = {}
  /\ copy' = {}
  /\ UNCHANGED <<dl, fShouldBan, lists, fDisconnect, quiet, vRecvMsg, pc, pto, todo>>

(* ProcessMessages breaks off: no complete message, a send buffer that is    *)
(* full, or the node was disconnected meanwhile.  Or its cs_vRecvMsg is      *)
(* taken.                                                                    *)
NoMessage ==
  /\ pc = "receive" /\ pc' = "send"
  /\ UNCHANGED <<dl, fShouldBan, lists, fDisconnect, quiet, vRecvMsg, pto, copy, todo>>

(* A complete message is taken; there may be more behind it.                 *)
TakeMessage ==
  /\ pc = "receive" /\ pto \in vRecvMsg
  /\ vRecvMsg' \in {vRecvMsg, vRecvMsg \ {pto}}

(* Its header or its checksum is wrong: the loop goes on to the next one.    *)
SkipMessage ==
  /\ TakeMessage
  /\ UNCHANGED <<dl, fShouldBan, lists, fDisconnect, quiet, thread>>

(* It does not begin with MessageStart: the connection is closed.            *)
BadMessageStart ==
  /\ pc = "receive" /\ pto \in vRecvMsg
  /\ pc' = "send"
  /\ fDisconnect' = fDisconnect \cup {pto} /\ vRecvMsg' = vRecvMsg \ {pto}
  /\ UNCHANGED <<dl, fShouldBan, lists, quiet, pto, copy, todo>>

(* It is processed, and no other in this round.                              *)
Message ==
  /\ TakeMessage /\ pc' = "send"
  /\ UNCHANGED <<lists, quiet, pto, copy, todo>>

(* "inv" of a block, which AlreadyHave says we have or not.  Too many queued *)
(* blocks and a send buffer twice its size cost a penalty.                   *)
ReceiveInv(h, fAlreadyHave, fSendFull) ==
  /\ Message
  /\ LET q == ProcessedNow(dl, pto)
         fAdd == ~fAlreadyHave /\ ~Listed(q, h) /\ pto \in nodes IN
     /\ dl' = IF fAdd THEN Enqueue(q, pto, h) ELSE q
     /\ IF fSendFull \/ (fAdd /\ q.nBlocksToDownload[pto] + 1 > MaxQueued)
        THEN Misbehaving({pto})
        ELSE UNCHANGED fShouldBan
  /\ UNCHANGED fDisconnect

(* ProcessBlock may find blocks invalid, this one or others that came from   *)
(* other nodes: InvalidBlockFound blames the node in mapBlockSource of each. *)
ReceiveBlock(h) ==
  /\ Message
  /\ dl' = MarkBlockAsReceived(ProcessedNow(dl, pto), h, pto)
  /\ Misbehaving(Peers)
  /\ UNCHANGED fDisconnect

(* Any other message: it may cost a penalty or the connection.               *)
ReceiveOther ==
  /\ Message
  /\ dl' = ProcessedNow(dl, pto)
  /\ Misbehaving({pto})
  /\ fDisconnect' \in {fDisconnect, fDisconnect \cup {pto}}

(* SendMessages does nothing: cs_main or the node's cs_vSend is taken.       *)
SendNothing ==
  /\ pc = "send" /\ pc' = "idle" /\ pto' = NoPeer
  /\ UNCHANGED <<dl, fShouldBan, lists, fDisconnect, quiet, vRecvMsg, copy, todo>>

(* Fault: a peer that delivers nothing is left alone.                        *)
StallingNever(p) == FALSE

(* The test for a stalling peer.                                             *)
Stalling(p) ==
  /\ dl.nBlocksInFlight[p] # 0
  /\ dl.nLastBlockReceive[p].late
  /\ Head(dl.vBlocksInFlight[p]).nTime.late

(* SendMessages up to the requests for blocks.  A local address is not       *)
(* banned.                                                                   *)
SendMessages ==
  /\ pc = "send" /\ pc' = "request"
  /\ \E Banned \in {fShouldBan \cap {pto}, {}} :
       fDisconnect' = fDisconnect \cup Banned \cup
         (IF pto \notin fDisconnect \cup Banned /\ Stalling(pto) THEN {pto} ELSE {})
  /\ fShouldBan' = fShouldBan \ {pto}
  /\ UNCHANGED <<dl, lists, quiet, vRecvMsg, pto, copy, todo>>

(* The condition of the loop that requests blocks.                           *)
MayRequest ==
  /\ pto \notin fDisconnect
  /\ dl.nBlocksToDownload[pto] # 0
  /\ dl.nBlocksInFlight[pto] < MaxInTransit

RequestBlock ==
  /\ pc = "request" /\ MayRequest
  /\ dl' = MarkBlockAsInFlight(dl, pto, Head(dl.vBlocksToDownload[pto]))
  /\ UNCHANGED <<fShouldBan, lists, fDisconnect, quiet, vRecvMsg, thread>>

RequestDone ==
  /\ pc = "request" /\ ~MayRequest
  /\ pc' = "idle" /\ pto' = NoPeer
  /\ UNCHANGED <<dl, fShouldBan, lists, fDisconnect, quiet, vRecvMsg, copy, todo>>

-----------------------------------------------------------------------------
(* The socket thread, and the openers *)

(* The constructor's InitializeNode, and the node's way into vNodes.         *)
InitializeNode(p) ==
  /\ p \notin used /\ pc # "request"
  /\ used' = used \cup {p} /\ nodes' = nodes \cup {p} /\ vNodes' = vNodes \cup {p}
  /\ UNCHANGED <<dl, fShouldBan, fDisconnect, quiet, vRecvMsg, thread>>

(* ProcessMessages holds cs_vRecvMsg of the node it is on.                   *)
InProcessMessages(p) == pc = "receive" /\ pto = p

(* Bytes arrive, which complete a message or do not.                         *)
ReceiveMsgBytes(p) ==
  /\ p \in vNodes \ fDisconnect /\ ~InProcessMessages(p)
  /\ quiet' = [quiet EXCEPT ![p] = 0]
  /\ vRecvMsg' \in {vRecvMsg, vRecvMsg \cup {p}}
  /\ UNCHANGED <<dl, fShouldBan, lists, fDisconnect, thread>>

(* The peer closes the connection, or it fails.                              *)
CloseSocketDisconnect(p) ==
  /\ p \in vNodes \ fDisconnect
  /\ fDisconnect' = fDisconnect \cup {p}
  /\ vRecvMsg' = IF InProcessMessages(p) THEN vRecvMsg ELSE vRecvMsg \ {p}
  /\ UNCHANGED <<dl, fShouldBan, lists, quiet, thread>>

InactivityTimeout(p) ==
  /\ p \in vNodes \ fDisconnect /\ quiet[p] > Inactivity
  /\ fDisconnect' = fDisconnect \cup {p}
  /\ UNCHANGED <<dl, fShouldBan, lists, quiet, vRecvMsg, thread>>

RemoveNode(p) ==
  /\ p \in vNodes \cap fDisconnect
  /\ vNodes' = vNodes \ {p}
  /\ vRecvMsg' = IF InProcessMessages(p) THEN vRecvMsg ELSE vRecvMsg \ {p}
  /\ UNCHANGED <<dl, fShouldBan, nodes, used, fDisconnect, quiet, thread>>

(* The node is deleted when nobody refers to it; cs_main has to be free.     *)
FinalizeNode(p) ==
  /\ p \in nodes \ (vNodes \cup copy) /\ pc # "request"
  /\ dl' = ForgetNode(dl, p)
  /\ nodes' = nodes \ {p} /\ fDisconnect' = fDisconnect \ {p}
  /\ fShouldBan' = fShouldBan \ {p}
  /\ quiet' = [quiet EXCEPT ![p] = 0] /\ vRecvMsg' = vRecvMsg \ {p}
  /\ UNCHANGED <<used, vNodes, thread>>

Tick ==
  /\ dl' = Aged(dl)
  /\ quiet' = [p \in Peers |-> IF p \in vNodes /\ quiet[p] <= Inactivity
                               THEN quiet[p] + 1 ELSE quiet[p]]
  /\ UNCHANGED <<fShouldBan, lists, fDisconnect, vRecvMsg, thread>>

ProcessMessage ==
  \/ ReceiveOther
  \/ \E h \in Blocks : \/ ReceiveBlock(h)
                       \/ \E fHave, fFull \in BOOLEAN : ReceiveInv(h, fHave, fFull)

MessageThread ==
  \/ StartRound \/ EndRound
  \/ NoMessage \/ SkipMessage \/ BadMessageStart \/ ProcessMessage
  \/ SendNothing \/ SendMessages \/ RequestBlock \/ RequestDone
  \/ \E p \in Peers : SkipNode(p) \/ PickNode(p)

Next ==
  \/ MessageThread \/ Tick
  \/ \E p \in Peers : \/ InitializeNode(p) \/ ReceiveMsgBytes(p) \/ CloseSocketDisconnect(p)
                      \/ InactivityTimeout(p) \/ RemoveNode(p) \/ FinalizeNode(p)

Spec == Init /\ [][Next]_vars

(* The socket thread's steps on a node happen once in its life.              *)
SocketThread == \E p \in Peers : InactivityTimeout(p) \/ RemoveNode(p)

(* The threads keep running and the clock moves; a deleted node's locks and  *)
(* those that SendMessages tries are free again and again.                   *)
LiveSpec ==
  /\ Spec /\ WF_vars(Tick) /\ WF_vars(MessageThread) /\ WF_vars(SocketThread)
  /\ SF_vars(\E p \in Peers : FinalizeNode(p))
  /\ \A p \in Peers : SF_vars(pto = p /\ SendMessages)

-----------------------------------------------------------------------------
(* Properties *)

(* All fields stay in their ranges.                                          *)
TypeOK ==
  /\ dl \in QueueType
  /\ fShouldBan \subseteq nodes
  /\ vNodes \subseteq nodes /\ nodes \subseteq used /\ used \subseteq Peers
  /\ fDisconnect \subseteq nodes
  /\ copy \subseteq nodes /\ todo \subseteq copy
  /\ quiet \in [Peers -> 0..(Inactivity + 1)] /\ vRecvMsg \subseteq nodes
  /\ pc \in {"idle", "receive", "send", "request"}
  /\ IF pc = "idle" THEN pto = NoPeer ELSE pto \in copy

(* The blocks queued at nodes: map, lists and counters agree, and no list    *)
(* holds a block twice.                                                      *)
ToDownloadExact(q) ==
  \A p \in Peers :
    /\ q.nBlocksToDownload[p] = Len(q.vBlocksToDownload[p])
    /\ \A h \in Blocks :
         q.mapBlocksToDownload[h] = p <=>
           \E i \in 1..Len(q.vBlocksToDownload[p]) : q.vBlocksToDownload[p][i] = h
    /\ \A i, j \in 1..Len(q.vBlocksToDownload[p]) :
         q.vBlocksToDownload[p][i] = q.vBlocksToDownload[p][j] => i = j

(* The same for the blocks asked of nodes.                                   *)
InFlightExact(q) ==
  \A p \in Peers :
    /\ q.nBlocksInFlight[p] = Len(q.vBlocksInFlight[p])
    /\ \A h \in Blocks :
         q.mapBlocksInFlight[h] = p <=>
           \E i \in 1..Len(q.vBlocksInFlight[p]) : q.vBlocksInFlight[p][i].hash = h
    /\ \A i, j \in 1..Len(q.vBlocksInFlight[p]) :
         q.vBlocksInFlight[p][i].hash = q.vBlocksInFlight[p][j].hash => i = j

(* A block is queued or asked for, not both, at a node that has its state.   *)
Owned(q, ns) ==
  \A h \in Blocks :
    /\ q.mapBlocksToDownload[h] = NoPeer \/ q.mapBlocksInFlight[h] = NoPeer
    /\ q.mapBlocksToDownload[h] \in ns \cup {NoPeer}
    /\ q.mapBlocksInFlight[h] \in ns \cup {NoPeer}

(* The maps and the lists of the nodes say the same, whoever delivered,      *)
(* announced or left: a block is asked of or queued at one node at most,     *)
(* which still has its state (MarkBlockAsReceived uses State() unchecked)    *)
(* and holds it in its list once (it erases through the map's iterator); and *)
(* the counters, which SendMessages trusts before it takes the front of a    *)
(* list, are the lengths.                                                    *)
QueuesExact == ToDownloadExact(dl) /\ InFlightExact(dl) /\ Owned(dl, nodes)

Ordered(q) ==
  \A p \in Peers : \A i, j \in 1..Len(q.vBlocksInFlight[p]) :
    i <= j =>
      /\ q.vBlocksInFlight[p][j].nTime.age <= q.vBlocksInFlight[p][i].nTime.age
      /\ q.vBlocksInFlight[p][j].nTime.late => q.vBlocksInFlight[p][i].nTime.late

Requests(p) == {dl.vBlocksInFlight[p][i] : i \in 1..Len(dl.vBlocksInFlight[p])}

(* SendMessages finds a peer stalling exactly if no requested block came in  *)
(* time and one of its requests is overdue.  It looks at the front of the    *)
(* list only, so no overdue request may hide behind a younger one, whichever *)
(* requests are answered and by whom.  One is enough: the comment there asks *)
(* "that all blocks are in flight for over two minutes" (main.cpp:4652),     *)
(* which would be a test of the newest request.                              *)
OverdueNoticed ==
  \A p \in Peers :
    Stalling(p) <=> dl.nLastBlockReceive[p].late /\ (\E e \in Requests(p) : e.nTime.late)

Waiting(p, h) == dl.mapBlocksToDownload[h] = p \/ dl.mapBlocksInFlight[h] = p

(* The messages of p keep being processed; p sends nothing any more.         *)
KeepsTalking(p) == []<><<pto = p /\ ProcessMessage>>_vars
FallsSilent(p) == <>[][~ReceiveMsgBytes(p)]_vars

(* A peer that delivers nothing it was asked for cannot hold a block for     *)
(* ever, if it keeps talking (SendMessages finds it stalling) or falls       *)
(* silent (the socket thread does): the block comes free, for another peer   *)
(* to announce.  Neither test finds a peer that sends bytes for ever of      *)
(* which no message is processed: they count for nLastRecv (net.cpp:974) and *)
(* not for nLastBlockProcess (main.cpp:3675).                                *)
StallEnds ==
  \A p \in Peers : KeepsTalking(p) \/ FallsSilent(p) =>
    \A h \in Blocks :
      (Waiting(p, h) /\ dl.nLastBlockReceive[p].age > 0) ~>
        (~Waiting(p, h) \/ dl.nLastBlockReceive[p].age = 0)
=============================================================================
