------------------------------- MODULE NetNodes -------------------------------
(***************************************************************************)
(* The life of a CNode (src/src/net.cpp, net.h): created by the socket     *)
(* thread for an inbound connection or by an opener thread for an outbound *)
(* one, used by the socket thread and the message thread under a reference *)
(* each, taken out of vNodes when it is to be disconnected, and deleted    *)
(* when nobody refers to it.  An outbound node holds a grant of the        *)
(* semaphore that limits outbound connections.                             *)
(*                                                                         *)
(* A step is what a thread does under cs_vNodes, or one access to a shared *)
(* node outside it.  A node is the memory it occupies: a new one may       *)
(* occupy what a deleted one left.  Messages and sockets are abstracted to *)
(* whether they lead to a disconnection, and CSemaphoreGrant::MoveTo is    *)
(* one step.                                                               *)
(*                                                                         *)
(* When two openers race for one address, the second finds the node that   *)
(* the first has made (ConnectNode's FindNode) and takes its reference     *)
(* outside cs_vNodes.  The node may be deleted before that, and anything   *)
(* may happen to the memory.  Such nodes are remembered as adopted, and    *)
(* the properties say what holds of all others.                            *)
(***************************************************************************)
EXTENDS Integers, FiniteSets

CONSTANTS
  Nodes,         \* memory for CNodes
  NoNode,        \* NULL
  Openers,       \* threads that call OpenNetworkConnection
  Addresses,
  MaxOutbound,   \* min(MAX_OUTBOUND_CONNECTIONS, nMaxConnections)
  MaxInbound,    \* nMaxConnections - MAX_OUTBOUND_CONNECTIONS
  Kinds          \* how an opener opens connections: some of AllKinds

(* To an address, with a grant; to a name, without one (-connect, addnode    *)
(* onetry); and by ProcessOneShot to a name, with one.                       *)
AllKinds == {"address", "name", "oneshot"}

ASSUME NodesAssumption ==
  /\ NoNode \notin Nodes /\ IsFiniteSet(Nodes) /\ IsFiniteSet(Openers)
  /\ MaxOutbound \in Nat /\ MaxInbound \in Nat /\ Kinds \in [Openers -> SUBSET AllKinds]

VARIABLES
  allocated,            \* nodes that exist
  vNodes, vNodesDisconnected,
  addr, nRefCount,
  fInbound, fNetworkNode, fDisconnect,  \* the nodes with the flag
  grants,               \* nodes that hold a grant
  semOutbound,          \* the semaphore's value
  pnodeSync,
  sockPc, sockCopy, sockTodo,           \* the socket thread
  msgPc, msgCopy, msgTodo, msgSync,     \* the message thread
  opPc, opKind, opAddr, opNode, opRefs, opGrant,  \* the opener threads
  adopted               \* history: nodes an opener found instead of making

flags == <<fInbound, fNetworkNode, fDisconnect>>
lists == <<allocated, vNodes, vNodesDisconnected, addr>>
sock == <<sockPc, sockCopy, sockTodo>>
msg == <<msgPc, msgCopy, msgTodo, msgSync>>
op == <<opPc, opKind, opAddr, opNode, opRefs, opGrant, adopted>>
vars == <<lists, nRefCount, flags, grants, semOutbound, pnodeSync, sock, msg, op>>

Init ==
  /\ allocated = {} /\ vNodes = {} /\ vNodesDisconnected = {}
  /\ addr \in [Nodes -> Addresses] /\ nRefCount = [n \in Nodes |-> 0]
  /\ fInbound = {} /\ fNetworkNode = {} /\ fDisconnect = {}
  /\ grants = {} /\ semOutbound = MaxOutbound
  /\ pnodeSync = NoNode
  /\ sockPc = "reap" /\ sockCopy = {} /\ sockTodo = {}
  /\ msgPc = "copy" /\ msgCopy = {} /\ msgTodo = {} /\ msgSync = NoNode
  /\ opPc = [o \in Openers |-> "idle"] /\ opNode = [o \in Openers |-> NoNode]
  /\ opGrant = [o \in Openers |-> FALSE] /\ opRefs = [o \in Openers |-> 0]
  /\ opKind = [o \in Openers |-> "none"] /\ opAddr \in [Openers -> Addresses]
  /\ adopted = {}

-----------------------------------------------------------------------------
(* CNode *)

(* A new node with the reference its creator takes.                          *)
NewNode(n, a, inbound) ==
  /\ n \notin allocated
  /\ allocated' = allocated \cup {n}
  /\ vNodes' = vNodes \cup {n}
  /\ addr' = [addr EXCEPT ![n] = a]
  /\ nRefCount' = [nRefCount EXCEPT ![n] = 1]
  /\ fInbound' = IF inbound THEN fInbound \cup {n} ELSE fInbound \ {n}
  /\ fNetworkNode' = fNetworkNode \ {n}
  /\ fDisconnect' = fDisconnect \ {n}
  /\ grants' = grants \ {n}
  /\ UNCHANGED <<vNodesDisconnected, pnodeSync>>

AddRefs(S) == nRefCount' = [n \in Nodes |-> nRefCount[n] + IF n \in S THEN 1 ELSE 0]

Releases(S) == nRefCount' = [n \in Nodes |-> nRefCount[n] - IF n \in S THEN 1 ELSE 0]

(* CloseSocketDisconnect of the nodes of S.                                  *)
CloseSockets(S) ==
  /\ fDisconnect' = fDisconnect \cup S
  /\ pnodeSync' = IF pnodeSync \in S THEN NoNode ELSE pnodeSync

-----------------------------------------------------------------------------
(* ThreadSocketHandler *)

(* Fault: the reference of an inbound node is not released. *)
OwnedOutbound == fNetworkNode

(* The nodes whose first reference the socket thread gives back.             *)
Owned == fNetworkNode \cup fInbound

(* "Disconnect unused nodes", under cs_vNodes.  A node that nobody refers to *)
(* goes too when its buffers are empty.                                      *)
DisconnectNodes ==
  /\ sockPc = "reap"
  /\ \E S \in SUBSET vNodes :
       /\ vNodes \cap fDisconnect \subseteq S
       /\ \A n \in S : n \in fDisconnect \/ nRefCount[n] <= 0
       /\ vNodes' = vNodes \ S
       /\ semOutbound' = semOutbound + Cardinality(grants \cap S)
       /\ grants' = grants \ S
       /\ CloseSockets(S)
       /\ Releases(S \cap Owned)
       /\ vNodesDisconnected' = vNodesDisconnected \cup S
  /\ sockPc' = "delete"
  /\ UNCHANGED <<allocated, addr, fInbound, fNetworkNode, sockCopy, sockTodo, msg, op>>

(* Fault: a node is deleted as soon as it is disconnected. *)
DeletableAtOnce == vNodesDisconnected

(* "wait until threads are done using it"                                    *)
Deletable == {n \in vNodesDisconnected : nRefCount[n] <= 0}

(* "Delete disconnected nodes"; the destructor gives a grant back.  What is  *)
(* left in the memory of a deleted node is nobody's business.  The three     *)
(* TRY_LOCKs succeed: a thread locks a node's buffers only under a reference *)
(* or, for a node of vNodes, under cs_vNodes.                                *)
DeleteNodes ==
  /\ sockPc = "delete"
  /\ allocated' = allocated \ Deletable
  /\ vNodesDisconnected' = vNodesDisconnected \ Deletable
  /\ semOutbound' = semOutbound + Cardinality(grants \cap Deletable)
  /\ grants' = grants \ Deletable
  /\ nRefCount' = [n \in Nodes |-> IF n \in Deletable THEN 0 ELSE nRefCount[n]]
  /\ fInbound' = fInbound \ Deletable /\ fNetworkNode' = fNetworkNode \ Deletable
  /\ fDisconnect' = fDisconnect \ Deletable
  /\ sockPc' = "accept"
  /\ UNCHANGED <<vNodes, addr, pnodeSync, sockCopy, sockTodo, msg, op>>

(* A connection came in, and there are not too many: counted under cs_vNodes *)
(* but released before ...                                                   *)
CountInbound ==
  /\ sockPc = "accept"
  /\ Cardinality(vNodes \cap fInbound) < MaxInbound
  /\ sockPc' = "push"
  /\ UNCHANGED <<lists, nRefCount, flags, grants, semOutbound, pnodeSync, sockCopy, sockTodo, msg, op>>

(* ... the new node is added ...                                             *)
AcceptConnection(n, a) ==
  /\ sockPc = "push"
  /\ NewNode(n, a, TRUE)
  /\ sockPc' = "copy"
  /\ UNCHANGED <<semOutbound, sockCopy, sockTodo, msg, op>>

(* ... unless its address is banned.                                         *)
DropConnection ==
  /\ sockPc = "push"
  /\ sockPc' = "copy"
  /\ UNCHANGED <<lists, nRefCount, flags, grants, semOutbound, pnodeSync, sockCopy, sockTodo, msg, op>>

ServiceCopy ==
  /\ sockPc \in {"accept", "copy"}
  /\ sockCopy' = vNodes /\ sockTodo' = vNodes
  /\ AddRefs(vNodes)
  /\ sockPc' = "service"
  /\ UNCHANGED <<lists, flags, grants, semOutbound, pnodeSync, msg, op>>

(* Receive and send may close the socket; an inactive node is only marked    *)
(* and stays the sync node until it is disconnected.                         *)
ServiceNode(n) ==
  /\ sockPc = "service" /\ n \in sockTodo
  /\ sockTodo' = sockTodo \ {n}
  /\ \/ UNCHANGED <<fDisconnect, pnodeSync>>
     \/ CloseSockets({n})
     \/ fDisconnect' = fDisconnect \cup {n} /\ UNCHANGED pnodeSync
  /\ UNCHANGED <<lists, nRefCount, fInbound, fNetworkNode, grants, semOutbound,
                 sockPc, sockCopy, msg, op>>

ServiceDone ==
  /\ sockPc = "service" /\ sockTodo = {}
  /\ Releases(sockCopy)
  /\ sockCopy' = {}
  /\ sockPc' = "reap"
  /\ UNCHANGED <<lists, flags, grants, semOutbound, pnodeSync, sockTodo, msg, op>>

-----------------------------------------------------------------------------
(* ThreadMessageHandler *)

(* Fault: the copy takes no references. *)
MessageCopyNoRefs ==
  /\ msgPc = "copy"
  /\ msgCopy' = vNodes /\ msgTodo' = vNodes
  /\ msgPc' = IF pnodeSync \in vNodes THEN "poll" ELSE "sync"
  /\ UNCHANGED <<lists, nRefCount, flags, grants, semOutbound, pnodeSync, sock, msgSync, op>>

(* The copy of vNodes, and whether the sync node is in it.                   *)
MessageCopy ==
  /\ msgPc = "copy"
  /\ msgCopy' = vNodes /\ msgTodo' = vNodes
  /\ AddRefs(vNodes)
  /\ msgPc' = IF pnodeSync \in vNodes THEN "poll" ELSE "sync"
  /\ UNCHANGED <<lists, flags, grants, semOutbound, pnodeSync, sock, msgSync, op>>

(* StartSync chooses a node that is not being disconnected, if any suits ... *)
ChooseSync ==
  /\ msgPc = "sync"
  /\ msgSync' \in (msgCopy \ fDisconnect) \cup {NoNode}
  /\ msgPc' = IF msgSync' = NoNode THEN "poll" ELSE "start"
  /\ UNCHANGED <<lists, nRefCount, flags, grants, semOutbound, pnodeSync, sock, msgCopy, msgTodo, op>>

(* ... and makes it the sync node.                                           *)
StartSync ==
  /\ msgPc = "start"
  /\ pnodeSync' = msgSync
  /\ msgSync' = NoNode
  /\ msgPc' = "poll"
  /\ UNCHANGED <<lists, nRefCount, flags, grants, semOutbound, sock, msgCopy, msgTodo, op>>

(* ProcessMessages and SendMessages: a bad message or a ban disconnects.     *)
PollNode(n) ==
  /\ msgPc = "poll" /\ n \in msgTodo
  /\ msgTodo' = msgTodo \ {n}
  /\ \/ UNCHANGED <<fDisconnect, pnodeSync>>
     \/ n \notin fDisconnect /\ CloseSockets({n})
     \/ /\ n \notin fDisconnect /\ fDisconnect' = fDisconnect \cup {n}
        /\ UNCHANGED pnodeSync
  /\ UNCHANGED <<lists, nRefCount, fInbound, fNetworkNode, grants, semOutbound,
                 sock, msgPc, msgCopy, msgSync, op>>

PollDone ==
  /\ msgPc = "poll" /\ msgTodo = {}
  /\ Releases(msgCopy)
  /\ msgCopy' = {}
  /\ msgPc' = "copy"
  /\ UNCHANGED <<lists, flags, grants, semOutbound, pnodeSync, sock, msgTodo, msgSync, op>>

-----------------------------------------------------------------------------
(* OpenNetworkConnection and ConnectNode, by an opener thread *)

Open(o, kind, a) ==
  /\ opPc[o] = "idle"
  /\ kind # "name" => semOutbound > 0
  /\ semOutbound' = IF kind = "name" THEN semOutbound ELSE semOutbound - 1
  /\ opGrant' = [opGrant EXCEPT ![o] = kind # "name"]
  /\ opKind' = [opKind EXCEPT ![o] = kind]
  /\ opAddr' = [opAddr EXCEPT ![o] = a]
  /\ opPc' = [opPc EXCEPT ![o] = "find"]
  /\ UNCHANGED <<lists, nRefCount, flags, grants, pnodeSync, sock, msg, opNode, opRefs, adopted>>

(* The end of the round: the grant's destructor gives it back.  The round    *)
(* also ends when OpenNetworkConnection finds a node with this address or    *)
(* name, or the address is banned or our own.                                *)
GiveUp(o) ==
  /\ opPc[o] \in {"find", "done"}
  /\ semOutbound' = semOutbound + IF opGrant[o] THEN 1 ELSE 0
  /\ opGrant' = [opGrant EXCEPT ![o] = FALSE]
  /\ opNode' = [opNode EXCEPT ![o] = NoNode]
  /\ opPc' = [opPc EXCEPT ![o] = "idle"]
  /\ opKind' = [opKind EXCEPT ![o] = "none"]
  /\ UNCHANGED <<lists, nRefCount, flags, grants, pnodeSync, sock, msg, opAddr, opRefs, adopted>>

opUnchanged == UNCHANGED <<opKind, opAddr, opGrant>>

(* OpenNetworkConnection found nobody at this address.  A name is compared   *)
(* with names: a node at the same address may have another one.              *)
NotConnected(o) ==
  /\ opPc[o] = "find"
  /\ opKind[o] = "address" => \A n \in vNodes : addr[n] # opAddr[o]
  /\ opPc' = [opPc EXCEPT ![o] = "connect"]
  /\ opUnchanged
  /\ UNCHANGED <<lists, nRefCount, flags, grants, semOutbound, pnodeSync, sock, msg, opNode, opRefs, adopted>>

(* ConnectNode looks again, for the address and port.  No inbound connection *)
(* comes from a port that a peer listens on, so that it finds what another   *)
(* opener made meanwhile.                                                    *)
Existing(o) == {n \in vNodes \ fInbound : opKind[o] = "address" /\ addr[n] = opAddr[o]}

FindExisting(o, n) ==
  /\ opPc[o] = "connect" /\ n \in Existing(o)
  /\ opNode' = [opNode EXCEPT ![o] = n]
  /\ opPc' = [opPc EXCEPT ![o] = "getref"]
  /\ adopted' = adopted \cup {n}
  /\ opUnchanged
  /\ UNCHANGED <<lists, nRefCount, flags, grants, semOutbound, pnodeSync, sock, msg, opRefs>>

(* Its AddRef is outside cs_vNodes: a read ...                               *)
GetRefCount(o) ==
  /\ opPc[o] = "getref"
  /\ opRefs' = [opRefs EXCEPT ![o] = nRefCount[opNode[o]]]
  /\ opPc' = [opPc EXCEPT ![o] = "setref"]
  /\ opUnchanged
  /\ UNCHANGED <<lists, nRefCount, flags, grants, semOutbound, pnodeSync, sock, msg, opNode, adopted>>

(* ... and a write.                                                          *)
AddRefExisting(o) ==
  /\ opPc[o] = "setref"
  /\ nRefCount' = [nRefCount EXCEPT ![opNode[o]] = opRefs[o] + 1]
  /\ opPc' = [opPc EXCEPT ![o] = "move"]
  /\ opRefs' = [opRefs EXCEPT ![o] = 0]
  /\ opUnchanged
  /\ UNCHANGED <<lists, flags, grants, semOutbound, pnodeSync, sock, msg, opNode, adopted>>

NoExisting(o) ==
  /\ opPc[o] = "connect" /\ Existing(o) = {}
  /\ opPc' = [opPc EXCEPT ![o] = "dial"]
  /\ opUnchanged
  /\ UNCHANGED <<lists, nRefCount, flags, grants, semOutbound, pnodeSync, sock, msg, opNode, opRefs, adopted>>

ConnectNode(o, n) ==
  /\ opPc[o] = "dial"
  /\ NewNode(n, opAddr[o], FALSE)
  /\ opNode' = [opNode EXCEPT ![o] = n]
  /\ opPc' = [opPc EXCEPT ![o] = "move"]
  /\ opUnchanged
  /\ UNCHANGED <<semOutbound, sock, msg, opRefs, adopted>>

ConnectFails(o) ==
  /\ opPc[o] = "dial"
  /\ opPc' = [opPc EXCEPT ![o] = "done"]
  /\ opUnchanged
  /\ UNCHANGED <<lists, nRefCount, flags, grants, semOutbound, pnodeSync, sock, msg, opNode, opRefs, adopted>>

(* Fault: the opener keeps a copy of the grant it moved. *)
MoveGrantCopied(o) ==
  /\ opPc[o] = "move"
  /\ IF opKind[o] = "name" THEN UNCHANGED <<semOutbound, grants>>
     ELSE /\ semOutbound' = semOutbound + IF opNode[o] \in grants THEN 1 ELSE 0
          /\ grants' = grants \cup {opNode[o]}
  /\ opPc' = [opPc EXCEPT ![o] = "flag"]
  /\ UNCHANGED <<lists, nRefCount, flags, pnodeSync, sock, msg, opKind, opAddr, opNode, opRefs, opGrant, adopted>>

(* CSemaphoreGrant::MoveTo, which first gives back what the node has.        *)
MoveGrant(o) ==
  /\ opPc[o] = "move"
  /\ IF opKind[o] = "name" THEN UNCHANGED <<semOutbound, grants>>
     ELSE /\ semOutbound' = semOutbound + IF opNode[o] \in grants THEN 1 ELSE 0
          /\ grants' = grants \cup {opNode[o]}
  /\ opGrant' = [opGrant EXCEPT ![o] = FALSE]
  /\ opPc' = [opPc EXCEPT ![o] = "flag"]
  /\ UNCHANGED <<lists, nRefCount, flags, pnodeSync, sock, msg, opKind, opAddr, opNode, opRefs, adopted>>

SetNetworkNode(o) ==
  /\ opPc[o] = "flag"
  /\ fNetworkNode' = fNetworkNode \cup {opNode[o]}
  /\ opPc' = [opPc EXCEPT ![o] = IF opKind[o] = "oneshot" THEN "shot" ELSE "done"]
  /\ opUnchanged
  /\ UNCHANGED <<lists, nRefCount, fInbound, fDisconnect, grants, semOutbound, pnodeSync, sock, msg,
                 opNode, opRefs, adopted>>

(* pnode->fOneShot = true, which StartSync and "addr" read.                  *)
SetOneShot(o) ==
  /\ opPc[o] = "shot"
  /\ opPc' = [opPc EXCEPT ![o] = "done"]
  /\ opUnchanged
  /\ UNCHANGED <<lists, nRefCount, flags, grants, semOutbound, pnodeSync, sock, msg, opNode, opRefs, adopted>>

-----------------------------------------------------------------------------
SocketThread ==
  \/ DisconnectNodes \/ DeleteNodes \/ DropConnection \/ ServiceCopy \/ ServiceDone
  \/ \E n \in Nodes : ServiceNode(n)
  \/ \E n \in Nodes, a \in Addresses : AcceptConnection(n, a)

MessageThread ==
  \/ MessageCopy \/ ChooseSync \/ StartSync \/ PollDone
  \/ \E n \in Nodes : PollNode(n)

Opener(o) ==
  \/ \E kind \in Kinds[o], a \in Addresses : Open(o, kind, a)
  \/ GiveUp(o) \/ NotConnected(o) \/ NoExisting(o) \/ ConnectFails(o)
  \/ GetRefCount(o) \/ AddRefExisting(o)
  \/ MoveGrant(o) \/ SetNetworkNode(o) \/ SetOneShot(o)
  \/ \E n \in Nodes : FindExisting(o, n) \/ ConnectNode(o, n)

Next == SocketThread \/ CountInbound \/ MessageThread \/ \E o \in Openers : Opener(o)

Spec == Init /\ [][Next]_vars

(* The loops of the two threads never stop; nobody need connect.             *)
LiveSpec == Spec /\ WF_vars(SocketThread) /\ WF_vars(MessageThread)

-----------------------------------------------------------------------------
(* Every variable stays in its range.                                        *)
TypeOK ==
  /\ vNodes \cap vNodesDisconnected = {}
  /\ allocated = vNodes \cup vNodesDisconnected
  /\ semOutbound \in 0 .. MaxOutbound /\ nRefCount \in [Nodes -> Int]
  /\ pnodeSync \in Nodes \cup {NoNode}
  /\ grants \cup adopted \cup allocated \cup sockCopy \cup msgCopy \subseteq Nodes

(* The socket and the message thread work outside cs_vNodes on copies of     *)
(* vNodes: no node of a copy is deleted before they are done with it.        *)
NoUseAfterFree == (sockCopy \cup msgCopy) \ adopted \subseteq allocated

Held(n) == (IF n \in sockCopy THEN 1 ELSE 0) + (IF n \in msgCopy THEN 1 ELSE 0)

(* A reference count is at least the number of threads that took one, and    *)
(* never negative: the assertion of CNode::GetRefCount holds wherever the    *)
(* threads are.                                                              *)
RefsCounted == \A n \in allocated \ adopted : nRefCount[n] >= Held(n)

(* No grant of the semaphore is lost or made: every one is free, with an     *)
(* opener or with an existing node.  Once a node was adopted grants may get  *)
(* lost, but none is made: the semaphore never allows more connections than  *)
(* it should.                                                                *)
GrantsConserved ==
  LET total == semOutbound + Cardinality(grants) + Cardinality({o \in Openers : opGrant[o]})
  IN  /\ total <= MaxOutbound
      /\ adopted = {} => total = MaxOutbound /\ grants \subseteq allocated

(* A disconnected inbound node is deleted in the end, and with it what       *)
(* FinalizeNode forgets: no round of the two threads keeps it alive.         *)
InboundDeleted ==
  \A n \in Nodes :
    (n \in (vNodesDisconnected \cap fInbound) \ adopted) ~> n \notin vNodesDisconnected
=============================================================================
