--------------------------- MODULE NetNodesProofs ---------------------------
(***************************************************************************)
(* The safety of NetNodes for any number of nodes, openers and grants.     *)
(*                                                                         *)
(* The argument.  A node that no opener found instead of making (one that  *)
(* is not adopted) has one reference for each thread that works on it and, *)
(* while it is in vNodes or while its maker has not marked it yet, one     *)
(* more, which is what keeps the count above zero until the socket thread  *)
(* gives that reference back and the others have returned theirs.          *)
(***************************************************************************)
EXTENDS NetNodes, FiniteSetTheorems, TLAPS

OpenerPcs == {"idle", "find", "connect", "getref", "setref", "dial", "move", "flag", "shot", "done"}

(* The opener has made, or found, a node that it has not marked as its own.  *)
Making(o) == opPc[o] \in {"move", "flag"}

Typed ==
  /\ vNodes \subseteq Nodes /\ vNodesDisconnected \subseteq Nodes
  /\ vNodes \cap vNodesDisconnected = {} /\ allocated = vNodes \cup vNodesDisconnected
  /\ grants \subseteq Nodes /\ adopted \subseteq Nodes
  /\ sockCopy \subseteq Nodes /\ msgCopy \subseteq Nodes
  /\ pnodeSync \in Nodes \cup {NoNode} /\ msgSync \in Nodes \cup {NoNode}
  /\ nRefCount \in [Nodes -> Int] /\ semOutbound \in Nat
  /\ opPc \in [Openers -> OpenerPcs] /\ opNode \in [Openers -> Nodes \cup {NoNode}]
  /\ opKind \in [Openers -> AllKinds \cup {"none"}]
  /\ opRefs \in [Openers -> Int] /\ opGrant \in [Openers -> BOOLEAN]

(* A thread has a copy of vNodes only while it works on it.                  *)
Copies ==
  /\ sockPc # "service" => sockCopy = {}
  /\ msgPc = "copy" => msgCopy = {}

(* The references to the nodes that are not adopted.                         *)
Counted ==
  /\ \A n \in vNodes \ adopted : nRefCount[n] >= 1 + Held(n)
  /\ \A n \in vNodesDisconnected \ adopted : nRefCount[n] >= Held(n)

(* A node that its maker has not marked yet is nobody else's.                *)
Unmarked ==
  /\ \A o \in Openers : opPc[o] \in {"getref", "setref"} => opNode[o] \in adopted
  /\ \A o \in Openers : Making(o) => opNode[o] \in Nodes
  /\ \A o \in Openers : Making(o) /\ opNode[o] \notin adopted =>
       /\ opNode[o] \in allocated
       /\ opNode[o] \notin fInbound \cup fNetworkNode
       /\ nRefCount[opNode[o]] >= 1 + Held(opNode[o])
  /\ \A o, q \in Openers :
       Making(o) /\ Making(q) /\ opNode[o] = opNode[q] /\ opNode[o] \notin adopted => o = q

RefInv == Typed /\ Copies /\ NoUseAfterFree /\ Counted /\ Unmarked

(* The openers that hold a grant: what the kind of the connection says until *)
(* the grant is moved, and none between two rounds.                          *)
Holders == {o \in Openers : opGrant[o]}

Granted ==
  /\ \A o \in Openers : opPc[o] = "idle" => o \notin Holders
  /\ \A o \in Openers : opPc[o] \in {"find", "connect", "getref", "setref", "dial", "move"} =>
       (o \in Holders <=> opKind[o] # "name")

GrantInv == Granted /\ GrantsConserved

IndInv == RefInv /\ GrantInv

-----------------------------------------------------------------------------
(* How many elements the parts of a finite set have.                         *)
LEMMA PartsCounted ==
  \A U : IsFiniteSet(U) =>
    \A S \in SUBSET U :
      /\ IsFiniteSet(S) /\ Cardinality(S) \in Nat
      /\ \A T : Cardinality(S \ T) = Cardinality(S) - Cardinality(S \cap T)
      /\ \A x : Cardinality(S \ {x}) = IF x \in S THEN Cardinality(S) - 1 ELSE Cardinality(S)
      /\ \A x : Cardinality(S \cup {x}) = IF x \in S THEN Cardinality(S) ELSE Cardinality(S) + 1
<1> SUFFICES ASSUME NEW U, IsFiniteSet(U), NEW S \in SUBSET U
             PROVE  PartsCounted!(U)!2!(S)
  BY Zenon
<1>1. IsFiniteSet(S) /\ Cardinality(S) \in Nat
  BY FS_Subset, FS_CardinalityType
<1>2. \A T : Cardinality(S \ T) = Cardinality(S) - Cardinality(S \cap T)
  BY Zenon, <1>1, FS_Difference
<1>3. \A x : Cardinality(S \ {x}) = IF x \in S THEN Cardinality(S) - 1 ELSE Cardinality(S)
  BY Zenon, <1>1, FS_RemoveElement
<1>4. \A x : Cardinality(S \cup {x}) = IF x \in S THEN Cardinality(S) ELSE Cardinality(S) + 1
  BY <1>1, FS_AddElement
<1> QED
  BY Zenon, <1>1, <1>2, <1>3, <1>4

LEMMA NodesCounted ==
  \A S \in SUBSET Nodes :
    /\ Cardinality(S) \in Nat
    /\ \A T : Cardinality(S \ T) = Cardinality(S) - Cardinality(S \cap T)
    /\ \A n : Cardinality(S \ {n}) = IF n \in S THEN Cardinality(S) - 1 ELSE Cardinality(S)
    /\ \A n : Cardinality(S \cup {n}) = IF n \in S THEN Cardinality(S) ELSE Cardinality(S) + 1
BY Zenon, PartsCounted, NodesAssumption

LEMMA OpenersCounted ==
  \A S \in SUBSET Openers :
    /\ Cardinality(S) \in Nat
    /\ \A o : Cardinality(S \ {o}) = IF o \in S THEN Cardinality(S) - 1 ELSE Cardinality(S)
    /\ \A o : Cardinality(S \cup {o}) = IF o \in S THEN Cardinality(S) ELSE Cardinality(S) + 1
BY PartsCounted, NodesAssumption

-----------------------------------------------------------------------------
(* The initial state: no node, nobody at work.                               *)
LEMMA RefInit == Init => RefInv
<1> SUFFICES ASSUME Init PROVE RefInv
  OBVIOUS
<1>1. Typed
  BY NodesAssumption DEF Init, Typed, OpenerPcs
<1>2. Copies /\ NoUseAfterFree /\ Counted
  BY DEF Init, Copies, NoUseAfterFree, Counted
<1>3. Unmarked
  BY DEF Init, Unmarked, Making
<1> QED
  BY <1>1, <1>2, <1>3 DEF RefInv

(* Every step keeps the references right.                                    *)
LEMMA RefStep == RefInv /\ [Next]_vars => RefInv'
<1> SUFFICES ASSUME RefInv, [Next]_vars PROVE RefInv'
  OBVIOUS
<1> USE NodesAssumption DEF lists, flags, sock, msg, op
<1>1. ASSUME DisconnectNodes PROVE RefInv'
  <2>1. Typed'
    <3>1. PICK S \in SUBSET vNodes : DisconnectNodes!2!(S)
      BY Zenon, <1>1 DEF DisconnectNodes
    <3>2. Cardinality(grants \cap S) \in Nat
      <4>1. grants \cap S \in SUBSET Nodes
        BY DEF RefInv, Typed
      <4> QED
        BY <4>1, NodesCounted
    <3> QED
      BY <1>1, <3>1, <3>2 DEF RefInv, DisconnectNodes, CloseSockets, Releases, Owned, Typed
  <2>2. Copies'
    BY <1>1 DEF RefInv, DisconnectNodes, CloseSockets, Releases, Owned, Typed, Copies
  <2>3. NoUseAfterFree'
    BY <1>1 DEF RefInv, DisconnectNodes, CloseSockets, Releases, Owned, Typed, Copies, NoUseAfterFree, Counted, Held
  <2>4. Counted'
    BY <1>1 DEF RefInv, DisconnectNodes, CloseSockets, Releases, Owned, Typed, Copies, NoUseAfterFree, Counted, Held
  <2>5. Unmarked'
    BY <1>1 DEF RefInv, DisconnectNodes, CloseSockets, Releases, Owned, Typed, Copies, NoUseAfterFree, Counted, Unmarked, Making, Held
  <2> QED
    BY <2>1, <2>2, <2>3, <2>4, <2>5 DEF RefInv
<1>2. ASSUME DeleteNodes PROVE RefInv'
  <2>1. Typed'
    <3>1. Cardinality(grants \cap Deletable) \in Nat
      <4>1. grants \cap Deletable \in SUBSET Nodes
        BY DEF RefInv, Typed
      <4> QED
        BY <4>1, NodesCounted
    <3> QED
      BY <1>2, <3>1 DEF RefInv, DeleteNodes, Deletable, Typed
  <2>2. Copies'
    BY <1>2 DEF RefInv, DeleteNodes, Deletable, Typed, Copies
  <2>3. NoUseAfterFree'
    BY <1>2 DEF RefInv, DeleteNodes, Deletable, Typed, Copies, NoUseAfterFree, Counted, Held
  <2>4. Counted'
    BY <1>2 DEF RefInv, DeleteNodes, Deletable, Typed, Copies, NoUseAfterFree, Counted, Held
  <2>5. Unmarked'
    BY <1>2 DEF RefInv, DeleteNodes, Deletable, Typed, Copies, NoUseAfterFree, Counted, Unmarked, Making, Held
  <2> QED
    BY <2>1, <2>2, <2>3, <2>4, <2>5 DEF RefInv
<1>3. ASSUME CountInbound PROVE RefInv'
  <2>1. Typed'
    BY <1>3 DEF RefInv, CountInbound, Typed, OpenerPcs, AllKinds
  <2>2. Copies' /\ NoUseAfterFree' /\ Counted' /\ Unmarked'
    BY <1>3 DEF RefInv, CountInbound, Typed, Copies, NoUseAfterFree, Counted, Unmarked,
         Making, Held
  <2> QED
    BY <2>1, <2>2 DEF RefInv
<1>4. ASSUME DropConnection PROVE RefInv'
  <2>1. Typed'
    BY <1>4 DEF RefInv, DropConnection, Typed, OpenerPcs, AllKinds
  <2>2. Copies' /\ NoUseAfterFree' /\ Counted' /\ Unmarked'
    BY <1>4 DEF RefInv, DropConnection, Typed, Copies, NoUseAfterFree, Counted, Unmarked,
         Making, Held
  <2> QED
    BY <2>1, <2>2 DEF RefInv
<1>5. ASSUME ServiceCopy PROVE RefInv'
  <2>1. Typed'
    BY <1>5 DEF RefInv, ServiceCopy, AddRefs, Typed, OpenerPcs, AllKinds
  <2>2. Copies'
    BY <1>5 DEF RefInv, ServiceCopy, AddRefs, Typed, Copies
  <2>3. NoUseAfterFree'
    BY <1>5 DEF RefInv, ServiceCopy, AddRefs, Typed, Copies, NoUseAfterFree, Counted, Held
  <2>4. Counted'
    BY <1>5 DEF RefInv, ServiceCopy, AddRefs, Typed, Copies, NoUseAfterFree, Counted, Held
  <2>5. Unmarked'
    BY <1>5 DEF RefInv, ServiceCopy, AddRefs, Typed, Copies, NoUseAfterFree, Counted, Unmarked, Making, Held
  <2> QED
    BY <2>1, <2>2, <2>3, <2>4, <2>5 DEF RefInv
<1>6. ASSUME ServiceDone PROVE RefInv'
  <2>1. Typed'
    BY <1>6 DEF RefInv, ServiceDone, Releases, Typed, OpenerPcs, AllKinds
  <2>2. Copies'
    BY <1>6 DEF RefInv, ServiceDone, Releases, Typed, Copies
  <2>3. NoUseAfterFree'
    BY <1>6 DEF RefInv, ServiceDone, Releases, Typed, Copies, NoUseAfterFree, Counted, Held
  <2>4. Counted'
    BY <1>6 DEF RefInv, ServiceDone, Releases, Typed, Copies, NoUseAfterFree, Counted, Held
  <2>5. Unmarked'
    BY <1>6 DEF RefInv, ServiceDone, Releases, Typed, Copies, NoUseAfterFree, Counted, Unmarked, Making, Held
  <2> QED
    BY <2>1, <2>2, <2>3, <2>4, <2>5 DEF RefInv
<1>7. ASSUME NEW n \in Nodes, ServiceNode(n) PROVE RefInv'
  <2>1. Typed'
    BY <1>7 DEF RefInv, ServiceNode, CloseSockets, Typed, OpenerPcs, AllKinds
  <2>2. Copies' /\ NoUseAfterFree' /\ Counted' /\ Unmarked'
    BY <1>7 DEF RefInv, ServiceNode, CloseSockets, Typed, Copies, NoUseAfterFree, Counted, Unmarked,
         Making, Held
  <2> QED
    BY <2>1, <2>2 DEF RefInv
<1>8. ASSUME NEW n \in Nodes, NEW a \in Addresses, AcceptConnection(n, a) PROVE RefInv'
  <2>1. Typed'
    BY <1>8 DEF RefInv, AcceptConnection, NewNode, Typed, OpenerPcs, AllKinds
  <2>2. Copies'
    BY <1>8 DEF RefInv, AcceptConnection, NewNode, Typed, Copies
  <2>3. NoUseAfterFree'
    BY <1>8 DEF RefInv, AcceptConnection, NewNode, Typed, Copies, NoUseAfterFree, Counted, Held
  <2>4. Counted'
    BY <1>8 DEF RefInv, AcceptConnection, NewNode, Typed, Copies, NoUseAfterFree, Counted, Held
  <2>5. Unmarked'
    BY <1>8 DEF RefInv, AcceptConnection, NewNode, Typed, Copies, NoUseAfterFree, Counted, Unmarked, Making, Held
  <2> QED
    BY <2>1, <2>2, <2>3, <2>4, <2>5 DEF RefInv
<1>9. ASSUME MessageCopy PROVE RefInv'
  <2>1. Typed'
    BY <1>9 DEF RefInv, MessageCopy, AddRefs, Typed, OpenerPcs, AllKinds
  <2>2. Copies'
    BY <1>9 DEF RefInv, MessageCopy, AddRefs, Typed, Copies
  <2>3. NoUseAfterFree'
    BY <1>9 DEF RefInv, MessageCopy, AddRefs, Typed, Copies, NoUseAfterFree, Counted, Held
  <2>4. Counted'
    BY <1>9 DEF RefInv, MessageCopy, AddRefs, Typed, Copies, NoUseAfterFree, Counted, Held
  <2>5. Unmarked'
    BY <1>9 DEF RefInv, MessageCopy, AddRefs, Typed, Copies, NoUseAfterFree, Counted, Unmarked, Making, Held
  <2> QED
    BY <2>1, <2>2, <2>3, <2>4, <2>5 DEF RefInv
<1>10. ASSUME ChooseSync PROVE RefInv'
  <2>1. Typed'
    BY <1>10 DEF RefInv, ChooseSync, Typed, OpenerPcs, AllKinds
  <2>2. Copies' /\ NoUseAfterFree' /\ Counted' /\ Unmarked'
    BY <1>10 DEF RefInv, ChooseSync, Typed, Copies, NoUseAfterFree, Counted, Unmarked,
         Making, Held
  <2> QED
    BY <2>1, <2>2 DEF RefInv
<1>11. ASSUME StartSync PROVE RefInv'
  <2>1. Typed'
    BY <1>11 DEF RefInv, StartSync, Typed, OpenerPcs, AllKinds
  <2>2. Copies' /\ NoUseAfterFree' /\ Counted' /\ Unmarked'
    BY <1>11 DEF RefInv, StartSync, Typed, Copies, NoUseAfterFree, Counted, Unmarked,
         Making, Held
  <2> QED
    BY <2>1, <2>2 DEF RefInv
<1>12. ASSUME PollDone PROVE RefInv'
  <2>1. Typed'
    BY <1>12 DEF RefInv, PollDone, Releases, Typed, OpenerPcs, AllKinds
  <2>2. Copies'
    BY <1>12 DEF RefInv, PollDone, Releases, Typed, Copies
  <2>3. NoUseAfterFree'
    BY <1>12 DEF RefInv, PollDone, Releases, Typed, Copies, NoUseAfterFree, Counted, Held
  <2>4. Counted'
    BY <1>12 DEF RefInv, PollDone, Releases, Typed, Copies, NoUseAfterFree, Counted, Held
  <2>5. Unmarked'
    BY <1>12 DEF RefInv, PollDone, Releases, Typed, Copies, NoUseAfterFree, Counted, Unmarked, Making, Held
  <2> QED
    BY <2>1, <2>2, <2>3, <2>4, <2>5 DEF RefInv
<1>13. ASSUME NEW n \in Nodes, PollNode(n) PROVE RefInv'
  <2>1. Typed'
    BY <1>13 DEF RefInv, PollNode, CloseSockets, Typed, OpenerPcs, AllKinds
  <2>2. Copies' /\ NoUseAfterFree' /\ Counted' /\ Unmarked'
    BY <1>13 DEF RefInv, PollNode, CloseSockets, Typed, Copies, NoUseAfterFree, Counted, Unmarked,
         Making, Held
  <2> QED
    BY <2>1, <2>2 DEF RefInv
<1>14. ASSUME NEW o \in Openers, NEW kind \in Kinds[o], NEW a \in Addresses, Open(o, kind, a) PROVE RefInv'
  <2>1. Typed'
    BY <1>14 DEF RefInv, Open, Typed, OpenerPcs, AllKinds
  <2>2. Copies' /\ NoUseAfterFree' /\ Counted' /\ Unmarked'
    BY <1>14 DEF RefInv, Open, Typed, Copies, NoUseAfterFree, Counted, Unmarked,
         Making, Held
  <2> QED
    BY <2>1, <2>2 DEF RefInv
<1>15. ASSUME NEW o \in Openers, GiveUp(o) PROVE RefInv'
  <2>1. Typed'
    BY <1>15 DEF RefInv, GiveUp, Typed, OpenerPcs, AllKinds
  <2>2. Copies' /\ NoUseAfterFree' /\ Counted' /\ Unmarked'
    BY <1>15 DEF RefInv, GiveUp, Typed, Copies, NoUseAfterFree, Counted, Unmarked,
         Making, Held
  <2> QED
    BY <2>1, <2>2 DEF RefInv
<1>16. ASSUME NEW o \in Openers, NotConnected(o) PROVE RefInv'
  <2>1. Typed'
    BY <1>16 DEF RefInv, NotConnected, opUnchanged, Typed, OpenerPcs, AllKinds
  <2>2. Copies' /\ NoUseAfterFree' /\ Counted' /\ Unmarked'
    BY <1>16 DEF RefInv, NotConnected, opUnchanged, Typed, Copies, NoUseAfterFree, Counted, Unmarked,
         Making, Held
  <2> QED
    BY <2>1, <2>2 DEF RefInv
<1>17. ASSUME NEW o \in Openers, NoExisting(o) PROVE RefInv'
  <2>1. Typed'
    BY <1>17 DEF RefInv, NoExisting, opUnchanged, Typed, OpenerPcs, AllKinds
  <2>2. Copies' /\ NoUseAfterFree' /\ Counted' /\ Unmarked'
    BY <1>17 DEF RefInv, NoExisting, opUnchanged, Typed, Copies, NoUseAfterFree, Counted, Unmarked,
         Making, Held
  <2> QED
    BY <2>1, <2>2 DEF RefInv
<1>18. ASSUME NEW o \in Openers, ConnectFails(o) PROVE RefInv'
  <2>1. Typed'
    BY <1>18 DEF RefInv, ConnectFails, opUnchanged, Typed, OpenerPcs, AllKinds
  <2>2. Copies' /\ NoUseAfterFree' /\ Counted' /\ Unmarked'
    BY <1>18 DEF RefInv, ConnectFails, opUnchanged, Typed, Copies, NoUseAfterFree, Counted, Unmarked,
         Making, Held
  <2> QED
    BY <2>1, <2>2 DEF RefInv
<1>19. ASSUME NEW o \in Openers, GetRefCount(o) PROVE RefInv'
  <2>1. Typed'
    BY <1>19 DEF RefInv, GetRefCount, opUnchanged, Typed, OpenerPcs, AllKinds, Unmarked, Making
  <2>2. Copies'
    BY <1>19 DEF RefInv, GetRefCount, opUnchanged, Typed, Copies
  <2>3. NoUseAfterFree'
    BY <1>19 DEF RefInv, GetRefCount, opUnchanged, Typed, Copies, NoUseAfterFree, Counted, Held
  <2>4. Counted'
    BY <1>19 DEF RefInv, GetRefCount, opUnchanged, Typed, Copies, NoUseAfterFree, Counted, Held
  <2>5. Unmarked'
    BY <1>19 DEF RefInv, GetRefCount, opUnchanged, Typed, Copies, NoUseAfterFree, Counted, Unmarked, Making, Held
  <2> QED
    BY <2>1, <2>2, <2>3, <2>4, <2>5 DEF RefInv
<1>20. ASSUME NEW o \in Openers, AddRefExisting(o) PROVE RefInv'
  <2>1. Typed'
    BY <1>20 DEF RefInv, AddRefExisting, opUnchanged, Typed, OpenerPcs, AllKinds, Unmarked, Making
  <2>2. Copies'
    BY <1>20 DEF RefInv, AddRefExisting, opUnchanged, Typed, Copies
  <2>3. NoUseAfterFree'
    BY <1>20 DEF RefInv, AddRefExisting, opUnchanged, Typed, Copies, NoUseAfterFree, Counted, Held
  <2>4. Counted'
    BY <1>20 DEF RefInv, AddRefExisting, opUnchanged, Typed, Counted, Unmarked, Held
  <2>5. Unmarked'
    BY <1>20 DEF RefInv, AddRefExisting, opUnchanged, Typed, Copies, NoUseAfterFree, Counted, Unmarked, Making, Held
  <2> QED
    BY <2>1, <2>2, <2>3, <2>4, <2>5 DEF RefInv
<1>21. ASSUME NEW o \in Openers, MoveGrant(o) PROVE RefInv'
  <2>1. Typed'
    BY <1>21 DEF RefInv, MoveGrant, Typed, OpenerPcs, AllKinds, Unmarked, Making
  <2>2. Copies'
    BY <1>21 DEF RefInv, MoveGrant, Typed, Copies
  <2>3. NoUseAfterFree'
    BY <1>21 DEF RefInv, MoveGrant, Typed, Copies, NoUseAfterFree, Counted, Held
  <2>4. Counted'
    BY <1>21 DEF RefInv, MoveGrant, Typed, Copies, NoUseAfterFree, Counted, Held
  <2>5. Unmarked'
    BY <1>21 DEF RefInv, MoveGrant, Typed, Copies, NoUseAfterFree, Counted, Unmarked, Making, Held
  <2> QED
    BY <2>1, <2>2, <2>3, <2>4, <2>5 DEF RefInv
<1>22. ASSUME NEW o \in Openers, SetNetworkNode(o) PROVE RefInv'
  <2>1. Typed'
    BY <1>22 DEF RefInv, SetNetworkNode, opUnchanged, Typed, OpenerPcs, AllKinds
  <2>2. Copies'
    BY <1>22 DEF RefInv, SetNetworkNode, opUnchanged, Typed, Copies
  <2>3. NoUseAfterFree'
    BY <1>22 DEF RefInv, SetNetworkNode, opUnchanged, Typed, Copies, NoUseAfterFree, Counted, Held
  <2>4. Counted'
    BY <1>22 DEF RefInv, SetNetworkNode, opUnchanged, Typed, Copies, NoUseAfterFree, Counted, Held
  <2>5. Unmarked'
    BY <1>22 DEF RefInv, SetNetworkNode, opUnchanged, Typed, Copies, NoUseAfterFree, Counted, Unmarked, Making, Held
  <2> QED
    BY <2>1, <2>2, <2>3, <2>4, <2>5 DEF RefInv
<1>23. ASSUME NEW o \in Openers, SetOneShot(o) PROVE RefInv'
  <2>1. Typed'
    BY <1>23 DEF RefInv, SetOneShot, opUnchanged, Typed, OpenerPcs, AllKinds
  <2>2. Copies' /\ NoUseAfterFree' /\ Counted' /\ Unmarked'
    BY <1>23 DEF RefInv, SetOneShot, opUnchanged, Typed, Copies, NoUseAfterFree, Counted, Unmarked,
         Making, Held
  <2> QED
    BY <2>1, <2>2 DEF RefInv
<1>24. ASSUME NEW o \in Openers, NEW n \in Nodes, FindExisting(o, n) PROVE RefInv'
  <2>1. Typed'
    BY <1>24 DEF RefInv, FindExisting, Existing, opUnchanged, Typed, OpenerPcs, AllKinds
  <2>2. Copies'
    BY <1>24 DEF RefInv, FindExisting, Existing, opUnchanged, Typed, Copies
  <2>3. NoUseAfterFree'
    BY <1>24 DEF RefInv, FindExisting, Existing, opUnchanged, Typed, Copies, NoUseAfterFree, Counted, Held
  <2>4. Counted'
    BY <1>24 DEF RefInv, FindExisting, Existing, opUnchanged, Typed, Copies, NoUseAfterFree, Counted, Held
  <2>5. Unmarked'
    BY <1>24 DEF RefInv, FindExisting, Existing, opUnchanged, Typed, Copies, NoUseAfterFree, Counted, Unmarked, Making, Held
  <2> QED
    BY <2>1, <2>2, <2>3, <2>4, <2>5 DEF RefInv
<1>25. ASSUME NEW o \in Openers, NEW n \in Nodes, ConnectNode(o, n) PROVE RefInv'
  <2>1. Typed'
    BY SMTT(30), <1>25 DEF RefInv, ConnectNode, NewNode, opUnchanged, Typed, OpenerPcs, AllKinds
  <2>2. Copies'
    BY <1>25 DEF RefInv, ConnectNode, NewNode, opUnchanged, Typed, Copies
  <2>3. NoUseAfterFree'
    BY <1>25 DEF RefInv, ConnectNode, NewNode, opUnchanged, Typed, Copies, NoUseAfterFree, Counted, Held
  <2>4. Counted'
    BY SMTT(30), <1>25 DEF RefInv, ConnectNode, NewNode, opUnchanged, Typed, Copies, NoUseAfterFree, Counted, Held
  <2>5. Unmarked'
    BY SMTT(30), <1>25 DEF RefInv, ConnectNode, NewNode, opUnchanged, Typed, Copies, NoUseAfterFree, Counted, Unmarked, Making, Held
  <2> QED
    BY <2>1, <2>2, <2>3, <2>4, <2>5 DEF RefInv
<1>26. CASE UNCHANGED vars
  BY <1>26 DEF vars, RefInv, Typed, Copies, NoUseAfterFree, Counted, Unmarked, Making, Held
<1> QED
  BY <1>1, <1>2, <1>3, <1>4, <1>5, <1>6, <1>7, <1>8, <1>9, <1>10, <1>11, <1>12, <1>13, <1>14, <1>15, <1>16, <1>17, <1>18, <1>19, <1>20, <1>21, <1>22, <1>23, <1>24, <1>25, <1>26
     DEF Next, SocketThread, MessageThread, Opener

-----------------------------------------------------------------------------
(* The grants of the semaphore, wherever they are.                           *)
Total == semOutbound + Cardinality(grants) + Cardinality(Holders)

LEMMA ConservedMeans ==
  GrantsConserved <=>
    /\ Total <= MaxOutbound
    /\ adopted = {} => Total = MaxOutbound /\ grants \subseteq allocated
BY DEF GrantsConserved, Total, Holders

LEMMA ConservedMeansNext ==
  GrantsConserved' <=>
    /\ Total' <= MaxOutbound
    /\ adopted' = {} => Total' = MaxOutbound /\ grants' \subseteq allocated'
BY DEF GrantsConserved, Total, Holders

LEMMA GrantInit == Init => GrantInv
<1> SUFFICES ASSUME Init PROVE GrantInv
  OBVIOUS
<1>1. Holders = {}
  BY DEF Init, Holders
<1>2. Granted
  BY <1>1 DEF Init, Granted
<1>3. Total = MaxOutbound
  BY <1>1, FS_EmptySet, NodesAssumption DEF Init, Total
<1> QED
  BY <1>2, <1>3, ConservedMeans, NodesAssumption DEF GrantInv, Init

(* A step that touches no grant and deletes no node.                         *)
LEMMA GrantsUntouched ==
  ASSUME GrantsConserved, UNCHANGED <<grants, semOutbound, opGrant>>,
         allocated \subseteq allocated', adopted \subseteq adopted'
  PROVE  GrantsConserved'
<1>1. Total' = Total
  BY DEF Total, Holders
<1> QED
  BY <1>1, ConservedMeans, ConservedMeansNext

(* A step of an opener that keeps its grant and its kind.                    *)
LEMMA GrantKept ==
  ASSUME Granted, NEW o \in Openers, NEW stage \in OpenerPcs, Typed,
         opPc' = [opPc EXCEPT ![o] = stage], UNCHANGED <<opKind, opGrant>>,
         stage # "idle",
         stage \in {"find", "connect", "getref", "setref", "dial", "move"} =>
           opPc[o] \in {"find", "connect", "getref", "setref", "dial", "move"}
  PROVE  Granted'
<1>1. Holders' = Holders
  BY DEF Holders
<1> QED
  BY <1>1 DEF Granted, Typed

(* A step of the socket or the message thread.                               *)
LEMMA OpenersStay == ASSUME Granted, UNCHANGED op PROVE Granted'
BY DEF Granted, Holders, op

(* Nodes are made without a grant: what a deleted one left is lost.          *)
LEMMA NewNodeGrants ==
  ASSUME RefInv, GrantsConserved, NEW n \in Nodes, NEW a, NEW inbound \in BOOLEAN,
         NewNode(n, a, inbound), UNCHANGED <<semOutbound, opGrant, adopted>>
  PROVE  GrantsConserved'
<1>1. grants' = grants \ {n} /\ allocated' = allocated \cup {n} /\ n \notin allocated
  BY DEF NewNode
<1>2. grants \in SUBSET Nodes /\ semOutbound \in Nat
  BY DEF RefInv, Typed
<1>3. Holders' = Holders /\ Holders \in SUBSET Openers
  BY DEF Holders
<1>4. Cardinality(grants) \in Nat /\ Cardinality(Holders) \in Nat
  BY <1>2, <1>3, NodesCounted, OpenersCounted
<1>5. Cardinality(grants \ {n}) = IF n \in grants THEN Cardinality(grants) - 1 ELSE Cardinality(grants)
  BY <1>2, NodesCounted
<1>6. Total' <= Total /\ (n \notin grants => Total' = Total) /\ Total \in Nat /\ Total' \in Int
  BY <1>1, <1>2, <1>3, <1>4, <1>5 DEF Total
<1>7. adopted = {} => n \notin grants /\ grants' \subseteq allocated'
  BY <1>1, ConservedMeans
<1> QED
  BY <1>6, <1>7, ConservedMeans, ConservedMeansNext, NodesAssumption

(* Nodes are disconnected or deleted with their grants.                      *)
LEMMA GivenBack ==
  ASSUME RefInv, GrantsConserved, NEW S,
         semOutbound' = semOutbound + Cardinality(grants \cap S),
         grants' = grants \ S, UNCHANGED <<opGrant, adopted>>,
         allocated \ S \subseteq allocated'
  PROVE  GrantsConserved'
<1>1. grants \in SUBSET Nodes /\ grants \cap S \in SUBSET Nodes /\ semOutbound \in Nat
  BY DEF RefInv, Typed
<1>2. Holders' = Holders /\ Holders \in SUBSET Openers
  BY DEF Holders
<1>3. Cardinality(grants \ S) = Cardinality(grants) - Cardinality(grants \cap S)
  BY Zenon, <1>1, NodesCounted
<1>4. Cardinality(grants) \in Nat /\ Cardinality(grants \cap S) \in Nat /\ Cardinality(Holders) \in Nat
  BY <1>1, <1>2, NodesCounted, OpenersCounted
<1>5. Total' = Total
  BY <1>1, <1>2, <1>3, <1>4 DEF Total
<1> QED
  BY <1>5, ConservedMeans, ConservedMeansNext

(* Every step accounts for the grants.                                       *)
LEMMA GrantStep == RefInv /\ GrantInv /\ [Next]_vars => GrantInv'
<1> SUFFICES ASSUME RefInv, GrantInv, [Next]_vars PROVE GrantInv'
  OBVIOUS
<1> USE DEF GrantInv
<1>1. CASE DisconnectNodes
  <2>1. PICK S \in SUBSET vNodes : DisconnectNodes!2!(S)
    BY Zenon, <1>1 DEF DisconnectNodes
  <2>2. GrantsConserved'
    BY <1>1, <2>1, GivenBack DEF DisconnectNodes, op
  <2> QED
    BY <1>1, <2>2, OpenersStay DEF DisconnectNodes
<1>2. CASE DeleteNodes
  <2>1. GrantsConserved'
    BY <1>2, GivenBack DEF DeleteNodes, op
  <2> QED
    BY <1>2, <2>1, OpenersStay DEF DeleteNodes
<1>3. ASSUME NEW n \in Nodes, NEW a \in Addresses, AcceptConnection(n, a) PROVE GrantInv'
  <2>1. GrantsConserved'
    BY Zenon, <1>3, NewNodeGrants DEF AcceptConnection, op
  <2> QED
    BY <1>3, <2>1, OpenersStay DEF AcceptConnection
<1>4. CASE \/ CountInbound \/ DropConnection \/ ServiceCopy \/ ServiceDone
           \/ MessageCopy \/ ChooseSync \/ StartSync \/ PollDone
           \/ \E n \in Nodes : ServiceNode(n) \/ PollNode(n)
           \/ UNCHANGED vars
  <2>1. UNCHANGED <<op, grants, semOutbound, allocated>>
    BY Zenon, <1>4 DEF CountInbound, DropConnection, ServiceCopy, ServiceDone, MessageCopy, ChooseSync,
      StartSync, PollDone, ServiceNode, PollNode, vars, lists
  <2>2. GrantsConserved'
    BY <2>1, GrantsUntouched DEF op
  <2> QED
    BY <2>1, <2>2, OpenersStay
<1>5. ASSUME NEW o \in Openers, NEW kind \in Kinds[o], NEW a \in Addresses, Open(o, kind, a)
      PROVE  GrantInv'
  <2>1. Holders' = IF kind = "name" THEN Holders ELSE Holders \cup {o}
    BY Zenon, <1>5 DEF Open, Holders, Granted, RefInv, Typed
  <2>2. o \notin Holders /\ Holders \in SUBSET Openers
    BY Zenon, <1>5 DEF Open, Granted, Holders
  <2>3. Cardinality(Holders \cup {o}) = Cardinality(Holders) + 1 /\ Cardinality(Holders) \in Nat
    BY <2>2, OpenersCounted
  <2>4. grants \in SUBSET Nodes /\ semOutbound \in Nat
    BY SMTT(30) DEF RefInv, Typed
  <2>5. Cardinality(grants) \in Nat
    BY <2>4, NodesCounted
  <2>6. Total' = Total
    BY SMTT(30), <1>5, <2>1, <2>3, <2>4, <2>5 DEF Total, Open
  <2>7. GrantsConserved'
    BY <1>5, <2>6, ConservedMeans, ConservedMeansNext DEF Open, lists
  <2>8. Granted'
    BY <1>5, <2>1, <2>2 DEF Open, Granted, RefInv, Typed
  <2> QED
    BY <2>7, <2>8
<1>6. ASSUME NEW o \in Openers, GiveUp(o) PROVE GrantInv'
  <2>1. Holders' = Holders \ {o} /\ Holders \in SUBSET Openers
    BY <1>6 DEF GiveUp, Holders, RefInv, Typed
  <2>2. /\ Cardinality(Holders \ {o}) = IF o \in Holders THEN Cardinality(Holders) - 1 ELSE Cardinality(Holders)
        /\ Cardinality(Holders) \in Nat
    BY <2>1, OpenersCounted
  <2>3. semOutbound' = semOutbound + IF o \in Holders THEN 1 ELSE 0
    BY <1>6 DEF GiveUp, Holders
  <2>4. grants \in SUBSET Nodes /\ semOutbound \in Nat
    BY DEF RefInv, Typed
  <2>5. Cardinality(grants) \in Nat
    BY <2>4, NodesCounted
  <2>6. Total' = Total
    BY SMTT(30), <1>6, <2>1, <2>2, <2>3, <2>4, <2>5 DEF Total, GiveUp
  <2>7. GrantsConserved'
    BY SMTT(30), <1>6, <2>6, ConservedMeans, ConservedMeansNext DEF GiveUp, lists
  <2>8. Granted'
    BY <1>6, <2>1 DEF GiveUp, Granted, RefInv, Typed
  <2> QED
    BY <2>7, <2>8
<1>7. ASSUME NEW o \in Openers,
             \/ NotConnected(o) \/ NoExisting(o) \/ ConnectFails(o) \/ GetRefCount(o)
             \/ AddRefExisting(o) \/ SetNetworkNode(o) \/ SetOneShot(o)
             \/ \E n \in Nodes : FindExisting(o, n)
      PROVE  GrantInv'
  <2>1. /\ UNCHANGED <<grants, semOutbound, opGrant, allocated>>
        /\ adopted \subseteq adopted'
    BY Zenon, <1>7 DEF NotConnected, NoExisting, ConnectFails, GetRefCount, AddRefExisting, SetNetworkNode,
      SetOneShot, FindExisting, opUnchanged, lists
  <2>2. GrantsConserved'
    BY SMTT(30), <2>1, GrantsUntouched
  <2>3. PICK stage \in OpenerPcs :
          /\ opPc' = [opPc EXCEPT ![o] = stage] /\ UNCHANGED <<opKind, opGrant>>
          /\ stage # "idle"
          /\ stage \in {"find", "connect", "getref", "setref", "dial", "move"} =>
               opPc[o] \in {"find", "connect", "getref", "setref", "dial", "move"}
    BY Zenon, <1>7 DEF NotConnected, NoExisting, ConnectFails, GetRefCount, AddRefExisting, SetNetworkNode,
      SetOneShot, FindExisting, opUnchanged, OpenerPcs
  <2>4. Granted'
    BY Zenon, <2>3, GrantKept DEF RefInv
  <2> QED
    BY SMTT(30), <2>2, <2>4
<1>8. ASSUME NEW o \in Openers, NEW n \in Nodes, ConnectNode(o, n) PROVE GrantInv'
  <2>1. GrantsConserved'
    BY Zenon, <1>8, NewNodeGrants DEF ConnectNode, opUnchanged
  <2>2. Granted'
    BY Zenon, <1>8, GrantKept, "move" \in OpenerPcs DEF ConnectNode, opUnchanged, RefInv, OpenerPcs
  <2> QED
    BY <2>1, <2>2
<1>9. ASSUME NEW o \in Openers, MoveGrant(o) PROVE GrantInv'
  <2>1. Holders' = Holders \ {o} /\ Holders \in SUBSET Openers
    BY <1>9 DEF MoveGrant, Holders, RefInv, Typed
  <2>2. o \in Holders <=> opKind[o] # "name"
    BY Zenon, <1>9 DEF MoveGrant, Granted
  <2>3. /\ Cardinality(Holders \ {o}) = IF o \in Holders THEN Cardinality(Holders) - 1 ELSE Cardinality(Holders)
        /\ Cardinality(Holders) \in Nat
    BY <2>1, OpenersCounted
  <2>4. grants \in SUBSET Nodes /\ semOutbound \in Nat
    BY DEF RefInv, Typed
  <2>5. /\ Cardinality(grants) \in Nat
        /\ Cardinality(grants \cup {opNode[o]}) = IF opNode[o] \in grants THEN Cardinality(grants) ELSE Cardinality(grants) + 1
    BY <2>4, NodesCounted
  <2>6. Total' = Total
    <3>1. CASE opKind[o] = "name"
      BY Zenon, <1>9, <3>1, <2>1, <2>2, <2>3, <2>4, <2>5 DEF Total, MoveGrant
    <3>2. CASE opKind[o] # "name"
      <4>1. Cardinality(Holders') = Cardinality(Holders) - 1
        BY <3>2, <2>1, <2>2, <2>3
      <4>2. /\ grants' = grants \cup {opNode[o]}
            /\ semOutbound' = semOutbound + IF opNode[o] \in grants THEN 1 ELSE 0
        BY <1>9, <3>2 DEF MoveGrant
      <4>3. semOutbound' + Cardinality(grants') = semOutbound + Cardinality(grants) + 1
        BY <4>2, <2>4, <2>5
      <4> QED
        BY <4>1, <4>2, <4>3, <2>3, <2>4, <2>5 DEF Total
    <3> QED
      BY SMTT(30), <3>1, <3>2
  <2>7. adopted = {} => opNode[o] \in allocated
    <3>3. Making(o)
      BY <1>9 DEF MoveGrant, Making
    <3> QED
      BY Zenon, <3>3 DEF RefInv, Unmarked
  <2>8. GrantsConserved'
    BY Zenon, <1>9, <2>6, <2>7, ConservedMeans, ConservedMeansNext DEF MoveGrant, lists
  <2>9. Granted'
    BY <1>9, <2>1 DEF MoveGrant, Granted, RefInv, Typed
  <2> QED
    BY <2>8, <2>9
<1> QED
  BY Zenon, <1>1, <1>2, <1>3, <1>4, <1>5, <1>6, <1>7, <1>8, <1>9
     DEF Next, SocketThread, MessageThread, Opener

-----------------------------------------------------------------------------
(* The inductive invariant holds in every reachable state.                   *)
THEOREM InvariantHolds == Spec => []IndInv
<1>1. Init => IndInv
  BY RefInit, GrantInit DEF IndInv
<1>2. IndInv /\ [Next]_vars => IndInv'
  BY RefStep, GrantStep DEF IndInv
<1> QED
  BY <1>1, <1>2, PTL DEF Spec

(* The lists of nodes partition the nodes that exist, and the semaphore      *)
(* never exceeds what it started with, however many threads there are.       *)
THEOREM TypeCorrect == Spec => []TypeOK
<1>1. IndInv => TypeOK
  <2> SUFFICES ASSUME IndInv PROVE TypeOK
    OBVIOUS
  <2>1. grants \in SUBSET Nodes /\ Holders \in SUBSET Openers /\ semOutbound \in Nat
    BY DEF IndInv, RefInv, Typed, Holders
  <2>2. Cardinality(grants) \in Nat /\ Cardinality(Holders) \in Nat
    BY <2>1, NodesCounted, OpenersCounted
  <2>3. semOutbound \in 0 .. MaxOutbound
    BY <2>1, <2>2, ConservedMeans, NodesAssumption DEF IndInv, GrantInv, Total
  <2> QED
    BY <2>3 DEF IndInv, RefInv, Typed, TypeOK
<1> QED
  BY <1>1, InvariantHolds, PTL

(* ThreadSocketHandler deletes no node that it or ThreadMessageHandler still *)
(* has in its copy of vNodes, unless an opener had found it with FindNode.   *)
THEOREM NodesOutliveTheirUsers == Spec => []NoUseAfterFree
<1>1. IndInv => NoUseAfterFree
  BY DEF IndInv, RefInv
<1> QED
  BY <1>1, InvariantHolds, PTL

(* The assertion of CNode::GetRefCount holds of the nodes nobody adopted.    *)
THEOREM ReferencesAreCounted == Spec => []RefsCounted
<1>1. IndInv => RefsCounted
  BY DEF IndInv, RefInv, Typed, Counted, RefsCounted, Held
<1> QED
  BY <1>1, InvariantHolds, PTL

(* CSemaphoreGrant never makes a grant, and loses none unless a node was     *)
(* adopted: the bound on outbound connections holds for any MaxOutbound.     *)
THEOREM GrantsAreConserved == Spec => []GrantsConserved
<1>1. IndInv => GrantsConserved
  BY DEF IndInv, GrantInv
<1> QED
  BY <1>1, InvariantHolds, PTL

=============================================================================
