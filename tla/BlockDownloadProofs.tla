------------------------- MODULE BlockDownloadProofs -------------------------
(***************************************************************************)
(* Safety of block download for any set of nodes, any set of blocks and    *)
(* any limits: the maps, lists and counters agree, and no overdue request  *)
(* escapes the stall test.  The lemmas say what each operation on the queues keeps.         *)
(***************************************************************************)
EXTENDS BlockDownload, SequenceTheorems, TLAPS

(* std::list::erase, on a list without repetitions.                         *)
LEMMA EraseBlocks ==
  ASSUME NEW S, NEW s \in Seq(S), NEW i \in 1..Len(s),
         \A j, k \in 1..Len(s) : s[j] = s[k] => j = k
  PROVE  LET e == Erase(s, i) IN
         /\ e \in Seq(S)
         /\ Len(e) = Len(s) - 1
         /\ \A j, k \in 1..Len(e) : e[j] = e[k] => j = k
         /\ \A x : (\E j \in 1..Len(e) : e[j] = x)
                     <=> (x # s[i] /\ \E j \in 1..Len(s) : s[j] = x)
<1> DEFINE e == Erase(s, i)
<1>1. Len(s) \in Nat /\ Len(s) - 1 \in Nat OBVIOUS
<1>2. \A j \in 1..(Len(s) - 1) : e[j] = IF j < i THEN s[j] ELSE s[j + 1]
  BY <1>1 DEF Erase
<1>3. e \in Seq(S) /\ Len(e) = Len(s) - 1
  <2>1. \A j \in 1..(Len(s) - 1) : (IF j < i THEN s[j] ELSE s[j + 1]) \in S
    BY <1>1
  <2> QED BY <1>1, <2>1, IsASeq DEF Erase
<1>4. \A j, k \in 1..Len(e) : e[j] = e[k] => j = k
  BY <1>1, <1>2, <1>3
<1>5. ASSUME NEW j \in 1..Len(e) PROVE e[j] # s[i] /\ \E k \in 1..Len(s) : s[k] = e[j]
  <2>1. CASE j < i BY <2>1, <1>1, <1>2, <1>3
  <2>2. CASE j >= i BY <2>2, <1>1, <1>2, <1>3
  <2> QED BY <2>1, <2>2, <1>1, <1>3
<1>6. ASSUME NEW j \in 1..Len(s), s[j] # s[i] PROVE \E k \in 1..Len(e) : e[k] = s[j]
  <2>1. CASE j < i
    <3>1. j \in 1..Len(e) /\ e[j] = s[j] BY <2>1, <1>1, <1>2, <1>3
    <3> QED BY <3>1
  <2>2. CASE j > i
    <3>1. j - 1 \in 1..Len(e) /\ e[j - 1] = s[j] BY <2>2, <1>1, <1>2, <1>3
    <3> QED BY <3>1
  <2> QED BY <2>1, <2>2, <1>6
<1> QED BY ZenonT(30), <1>3, <1>4, <1>5, <1>6

(* The same for requests, which are told apart by their blocks, and whose   *)
(* order erasure keeps.                                                     *)
LEMMA EraseEntries ==
  ASSUME NEW s \in Seq(Entries), NEW i \in 1..Len(s),
         \A j, k \in 1..Len(s) : s[j].hash = s[k].hash => j = k
  PROVE  LET e == Erase(s, i) IN
         /\ e \in Seq(Entries)
         /\ Len(e) = Len(s) - 1
         /\ \A j, k \in 1..Len(e) : e[j].hash = e[k].hash => j = k
         /\ \A x : (\E j \in 1..Len(e) : e[j].hash = x)
                     <=> (x # s[i].hash /\ \E j \in 1..Len(s) : s[j].hash = x)
         /\ \A j, k \in 1..Len(e) : j <= k =>
              \E m, n \in 1..Len(s) : m <= n /\ e[j] = s[m] /\ e[k] = s[n]
<1> DEFINE e == Erase(s, i)
<1>1. Len(s) \in Nat /\ Len(s) - 1 \in Nat OBVIOUS
<1>2. \A j \in 1..(Len(s) - 1) : e[j] = IF j < i THEN s[j] ELSE s[j + 1]
  BY <1>1 DEF Erase
<1>3. e \in Seq(Entries) /\ Len(e) = Len(s) - 1
  <2>1. \A j \in 1..(Len(s) - 1) : (IF j < i THEN s[j] ELSE s[j + 1]) \in Entries
    BY <1>1
  <2> QED BY <1>1, <2>1, IsASeq DEF Erase
<1> DEFINE old(j) == IF j < i THEN j ELSE j + 1
<1>4. \A j \in 1..Len(e) : old(j) \in 1..Len(s) /\ e[j] = s[old(j)] /\ old(j) # i
  BY <1>1, <1>2, <1>3
<1>5. \A j, k \in 1..Len(e) : j <= k => old(j) <= old(k)
  BY <1>1, <1>3
<1>6. \A j, k \in 1..Len(e) : e[j].hash = e[k].hash => j = k
  <2> SUFFICES ASSUME NEW j \in 1..Len(e), NEW k \in 1..Len(e), e[j].hash = e[k].hash
               PROVE  j = k
    OBVIOUS
  <2>1. /\ old(j) \in 1..Len(s) /\ e[j] = s[old(j)]
        /\ old(k) \in 1..Len(s) /\ e[k] = s[old(k)]
    BY <1>4
  <2>2. \A m, n \in 1..Len(s) : s[m].hash = s[n].hash => m = n
    OBVIOUS
  <2>3. old(j) = old(k)
    <3> HIDE DEF old, e
    <3> QED BY Zenon, <2>1, <2>2
  <2> QED BY <2>3, <1>1, <1>3
<1>7. \A j \in 1..Len(e) : e[j].hash # s[i].hash BY <1>4
<1>8. ASSUME NEW j \in 1..Len(s), s[j].hash # s[i].hash
      PROVE  \E k \in 1..Len(e) : e[k].hash = s[j].hash
  <2>1. CASE j < i
    <3>1. j \in 1..Len(e) /\ e[j] = s[j] BY <2>1, <1>1, <1>2, <1>3
    <3> QED BY <3>1
  <2>2. CASE j > i
    <3>1. j - 1 \in 1..Len(e) /\ e[j - 1] = s[j] BY <2>2, <1>1, <1>2, <1>3
    <3> QED BY <3>1
  <2> QED BY <2>1, <2>2, <1>8
<1>9. \A j, k \in 1..Len(e) : j <= k =>
        \E m, n \in 1..Len(s) : m <= n /\ e[j] = s[m] /\ e[k] = s[n]
  BY <1>4, <1>5
<1> HIDE DEF old
<1>10. \A j \in 1..Len(e) : \E k \in 1..Len(s) : s[k].hash = e[j].hash BY <1>4
<1>11. \A x : (\E j \in 1..Len(e) : e[j].hash = x)
                <=> (x # s[i].hash /\ \E j \in 1..Len(s) : s[j].hash = x)
  <2> HIDE DEF e
  <2> SUFFICES ASSUME NEW x
               PROVE  (\E j \in 1..Len(e) : e[j].hash = x)
                        <=> (x # s[i].hash /\ \E j \in 1..Len(s) : s[j].hash = x)
    BY Zenon
  <2>1. ASSUME NEW j \in 1..Len(e), e[j].hash = x
        PROVE  x # s[i].hash /\ \E k \in 1..Len(s) : s[k].hash = x
    <3>1. e[j].hash # s[i].hash BY Zenon, <1>7
    <3>2. \E k \in 1..Len(s) : s[k].hash = e[j].hash BY Zenon, <1>10
    <3> QED BY Zenon, <2>1, <3>1, <3>2
  <2>2. ASSUME NEW j \in 1..Len(s), s[j].hash = x, x # s[i].hash
        PROVE  \E k \in 1..Len(e) : e[k].hash = x
    <3>1. \E k \in 1..Len(e) : e[k].hash = s[j].hash BY Zenon, <2>2, <1>8
    <3> QED BY Zenon, <2>2, <3>1
  <2> QED BY Zenon, <2>1, <2>2
<1> HIDE DEF e
<1>12. /\ e \in Seq(Entries) /\ Len(e) = Len(s) - 1
       /\ \A j, k \in 1..Len(e) : e[j].hash = e[k].hash => j = k
  BY <1>3, <1>6
<1> QED BY Zenon, <1>12, <1>9, <1>11 DEF e

-----------------------------------------------------------------------------
(* What the operations on the queues keep *)

(* MarkBlockAsReceived on a queued block: only the lists of queued blocks   *)
(* change, and they stay exact.                                             *)
LEMMA UnqueueKeeps ==
  ASSUME NEW q \in QueueType, NEW h \in Blocks, ToDownloadExact(q)
  PROVE  LET r == Unqueue(q, h) IN
         /\ r \in QueueType
         /\ ToDownloadExact(r)
         /\ r.mapBlocksToDownload = [q.mapBlocksToDownload EXCEPT ![h] = NoPeer]
         /\ r.mapBlocksInFlight = q.mapBlocksInFlight
         /\ r.vBlocksInFlight = q.vBlocksInFlight
         /\ r.nBlocksInFlight = q.nBlocksInFlight
         /\ r.nLastBlockReceive = q.nLastBlockReceive
<1> DEFINE r == Unqueue(q, h)
           p == q.mapBlocksToDownload[h]
           i == PlaceToDownload(q, p, h)
           v == q.vBlocksToDownload[p]
<1>1. CASE p = NoPeer
  <2>1. r = q BY <1>1 DEF Unqueue
  <2>2. q.mapBlocksToDownload = [q.mapBlocksToDownload EXCEPT ![h] = NoPeer]
    BY <1>1 DEF QueueType
  <2> QED BY <2>1, <2>2
<1>2. CASE p # NoPeer
  <2>1. p \in Peers BY <1>2 DEF QueueType
  <2>2. v \in Seq(Blocks) BY <2>1 DEF QueueType
  <2>3. i \in 1..Len(v) /\ v[i] = h
    <3>1. \E k \in 1..Len(v) : v[k] = h BY <2>1 DEF ToDownloadExact
    <3> QED BY Zenon, <3>1 DEF PlaceToDownload
  <2>4. \A j, k \in 1..Len(v) : v[j] = v[k] => j = k BY <2>1 DEF ToDownloadExact
  <2> DEFINE e == Erase(v, i)
  <2>5. /\ e \in Seq(Blocks) /\ Len(e) = Len(v) - 1
        /\ \A j, k \in 1..Len(e) : e[j] = e[k] => j = k
        /\ \A x : (\E j \in 1..Len(e) : e[j] = x)
                    <=> (x # h /\ \E j \in 1..Len(v) : v[j] = x)
    <3> HIDE DEF i, v
    <3>1. /\ e \in Seq(Blocks) /\ Len(e) = Len(v) - 1
          /\ \A j, k \in 1..Len(e) : e[j] = e[k] => j = k
          /\ \A x : (\E j \in 1..Len(e) : e[j] = x)
                      <=> (x # v[i] /\ \E j \in 1..Len(v) : v[j] = x)
      BY ZenonT(30), <2>2, <2>3, <2>4, EraseBlocks
    <3> HIDE DEF e
    <3> QED BY Zenon, <3>1, <2>3
  <2>6. r = [q EXCEPT !.vBlocksToDownload[p] = e,
                      !.nBlocksToDownload[p] = q.nBlocksToDownload[p] - 1,
                      !.mapBlocksToDownload[h] = NoPeer]
    BY <1>2 DEF Unqueue
  <2> HIDE DEF r, e, i
  <2>7. /\ r.vBlocksToDownload = [q.vBlocksToDownload EXCEPT ![p] = e]
        /\ r.nBlocksToDownload = [q.nBlocksToDownload EXCEPT ![p] = q.nBlocksToDownload[p] - 1]
        /\ r.mapBlocksToDownload = [q.mapBlocksToDownload EXCEPT ![h] = NoPeer]
        /\ r.mapBlocksInFlight = q.mapBlocksInFlight
        /\ r.vBlocksInFlight = q.vBlocksInFlight
        /\ r.nBlocksInFlight = q.nBlocksInFlight
        /\ r.nLastBlockReceive = q.nLastBlockReceive
    BY <2>6 DEF QueueType
  <2>8. r \in QueueType
    <3>1. [q.vBlocksToDownload EXCEPT ![p] = e] \in [Peers -> Seq(Blocks)]
      BY Zenon, <2>5 DEF QueueType
    <3>2. [q.nBlocksToDownload EXCEPT ![p] = q.nBlocksToDownload[p] - 1] \in [Peers -> Int]
      BY <2>1 DEF QueueType
    <3>3. [q.mapBlocksToDownload EXCEPT ![h] = NoPeer] \in [Blocks -> Peers \cup {NoPeer}]
      BY DEF QueueType
    <3> QED BY Zenon, <2>6, <3>1, <3>2, <3>3 DEF QueueType
  <2>9. ToDownloadExact(r)
    <3> SUFFICES ASSUME NEW s \in Peers
                 PROVE  /\ r.nBlocksToDownload[s] = Len(r.vBlocksToDownload[s])
                        /\ \A x \in Blocks :
                             r.mapBlocksToDownload[x] = s <=>
                               \E j \in 1..Len(r.vBlocksToDownload[s]) :
                                 r.vBlocksToDownload[s][j] = x
                        /\ \A j, k \in 1..Len(r.vBlocksToDownload[s]) :
                             r.vBlocksToDownload[s][j] = r.vBlocksToDownload[s][k] => j = k
      BY DEF ToDownloadExact
    <3>0. NoPeer # s BY DownloadAssumption
    <3>1. CASE s = p
      <4>1. r.vBlocksToDownload[s] = e /\ r.nBlocksToDownload[s] = q.nBlocksToDownload[p] - 1
        BY <2>7, <3>1 DEF QueueType
      <4>2. q.nBlocksToDownload[p] = Len(v) BY <2>1 DEF ToDownloadExact
      <4>3. ASSUME NEW x \in Blocks
            PROVE  r.mapBlocksToDownload[x] = s <=> \E j \in 1..Len(e) : e[j] = x
        <5>1. r.mapBlocksToDownload[x] = s <=> (x # h /\ q.mapBlocksToDownload[x] = p)
          BY <2>7, <3>0, <3>1 DEF QueueType
        <5>2. q.mapBlocksToDownload[x] = p <=> \E j \in 1..Len(v) : v[j] = x
          BY <2>1 DEF ToDownloadExact
        <5> QED BY Zenon, <5>1, <5>2, <2>5
      <4> QED BY <4>1, <4>2, <4>3, <2>5
    <3>2. CASE s # p
      <4>1. /\ r.vBlocksToDownload[s] = q.vBlocksToDownload[s]
            /\ r.nBlocksToDownload[s] = q.nBlocksToDownload[s]
            /\ \A x \in Blocks : r.mapBlocksToDownload[x] = s <=> q.mapBlocksToDownload[x] = s
        BY <2>7, <3>0, <3>2 DEF QueueType
      <4> QED BY <4>1 DEF ToDownloadExact
    <3> QED BY <3>1, <3>2
  <2> QED BY <2>7, <2>8, <2>9 DEF r
<1> QED BY <1>1, <1>2

(* MarkBlockAsReceived on a block in flight, whoever delivered it: only the *)
(* requests change, and they stay exact and in order.                       *)
LEMMA LandKeeps ==
  ASSUME NEW q \in QueueType, NEW h \in Blocks, NEW from,
         InFlightExact(q), Ordered(q)
  PROVE  LET r == Land(q, h, from) IN
         /\ r \in QueueType
         /\ InFlightExact(r)
         /\ Ordered(r)
         /\ r.mapBlocksInFlight = [q.mapBlocksInFlight EXCEPT ![h] = NoPeer]
         /\ r.mapBlocksToDownload = q.mapBlocksToDownload
         /\ r.vBlocksToDownload = q.vBlocksToDownload
         /\ r.nBlocksToDownload = q.nBlocksToDownload
<1> DEFINE r == Land(q, h, from)
           p == q.mapBlocksInFlight[h]
           i == PlaceInFlight(q, p, h)
           v == q.vBlocksInFlight[p]
<1>1. CASE p = NoPeer
  <2>1. r = q BY <1>1 DEF Land
  <2>2. q.mapBlocksInFlight = [q.mapBlocksInFlight EXCEPT ![h] = NoPeer]
    BY <1>1 DEF QueueType
  <2> QED BY <2>1, <2>2
<1>2. CASE p # NoPeer
  <2>1. p \in Peers BY <1>2 DEF QueueType
  <2>2. v \in Seq(Entries) BY SMTT(30), <2>1 DEF QueueType
  <2>3. i \in 1..Len(v) /\ v[i].hash = h
    <3>1. \E k \in 1..Len(v) : v[k].hash = h BY <2>1 DEF InFlightExact
    <3> QED BY Zenon, <3>1 DEF PlaceInFlight
  <2>4. \A j, k \in 1..Len(v) : v[j].hash = v[k].hash => j = k BY <2>1 DEF InFlightExact
  <2> DEFINE e == Erase(v, i)
  <2>5. /\ e \in Seq(Entries) /\ Len(e) = Len(v) - 1
        /\ \A j, k \in 1..Len(e) : e[j].hash = e[k].hash => j = k
        /\ \A x : (\E j \in 1..Len(e) : e[j].hash = x)
                    <=> (x # h /\ \E j \in 1..Len(v) : v[j].hash = x)
        /\ \A j, k \in 1..Len(e) : j <= k =>
              \E m, n \in 1..Len(v) : m <= n /\ e[j] = v[m] /\ e[k] = v[n]
    <3> HIDE DEF i, v
    <3>1. /\ e \in Seq(Entries) /\ Len(e) = Len(v) - 1
          /\ \A j, k \in 1..Len(e) : e[j].hash = e[k].hash => j = k
          /\ \A x : (\E j \in 1..Len(e) : e[j].hash = x)
                      <=> (x # v[i].hash /\ \E j \in 1..Len(v) : v[j].hash = x)
          /\ \A j, k \in 1..Len(e) : j <= k =>
                \E m, n \in 1..Len(v) : m <= n /\ e[j] = v[m] /\ e[k] = v[n]
      BY Zenon, <2>2, <2>3, <2>4, EraseEntries
    <3> HIDE DEF e
    <3> QED BY Zenon, <3>1, <2>3
  <2> DEFINE last == IF p = from THEN Fresh ELSE q.nLastBlockReceive[p]
  <2>6. r = [q EXCEPT !.vBlocksInFlight[p] = e,
                      !.nBlocksInFlight[p] = q.nBlocksInFlight[p] - 1,
                      !.nLastBlockReceive[p] = last,
                      !.mapBlocksInFlight[h] = NoPeer]
    BY <1>2 DEF Land
  <2>10. last \in Stamps(ReceiveLimit)
    BY <2>1, DownloadAssumption DEF QueueType, Fresh, Stamps, ReceiveLimit
  <2> HIDE DEF r, e, i, last
  <2>7. /\ r.vBlocksInFlight = [q.vBlocksInFlight EXCEPT ![p] = e]
        /\ r.nBlocksInFlight = [q.nBlocksInFlight EXCEPT ![p] = q.nBlocksInFlight[p] - 1]
        /\ r.mapBlocksInFlight = [q.mapBlocksInFlight EXCEPT ![h] = NoPeer]
        /\ r.mapBlocksToDownload = q.mapBlocksToDownload
        /\ r.vBlocksToDownload = q.vBlocksToDownload
        /\ r.nBlocksToDownload = q.nBlocksToDownload
    BY <2>6 DEF QueueType
  <2>8. r \in QueueType
    <3>1. [q.vBlocksInFlight EXCEPT ![p] = e] \in [Peers -> Seq(Entries)]
      BY Zenon, <2>5 DEF QueueType
    <3>2. [q.nBlocksInFlight EXCEPT ![p] = q.nBlocksInFlight[p] - 1] \in [Peers -> Int]
      BY <2>1 DEF QueueType
    <3>3. [q.mapBlocksInFlight EXCEPT ![h] = NoPeer] \in [Blocks -> Peers \cup {NoPeer}]
      BY DEF QueueType
    <3>4. [q.nLastBlockReceive EXCEPT ![p] = last] \in [Peers -> Stamps(ReceiveLimit)]
      BY Zenon, <2>10 DEF QueueType
    <3> QED BY Zenon, <2>6, <3>1, <3>2, <3>3, <3>4 DEF QueueType
  <2>9. InFlightExact(r)
    <3> SUFFICES ASSUME NEW s \in Peers
                 PROVE  /\ r.nBlocksInFlight[s] = Len(r.vBlocksInFlight[s])
                        /\ \A x \in Blocks :
                             r.mapBlocksInFlight[x] = s <=>
                               \E j \in 1..Len(r.vBlocksInFlight[s]) :
                                 r.vBlocksInFlight[s][j].hash = x
                        /\ \A j, k \in 1..Len(r.vBlocksInFlight[s]) :
                             r.vBlocksInFlight[s][j].hash = r.vBlocksInFlight[s][k].hash => j = k
      BY DEF InFlightExact
    <3>0. NoPeer # s BY DownloadAssumption
    <3>1. CASE s = p
      <4>1. r.vBlocksInFlight[s] = e /\ r.nBlocksInFlight[s] = q.nBlocksInFlight[p] - 1
        BY <2>7, <3>1 DEF QueueType
      <4>2. q.nBlocksInFlight[p] = Len(v) BY <2>1 DEF InFlightExact
      <4>3. ASSUME NEW x \in Blocks
            PROVE  r.mapBlocksInFlight[x] = s <=> \E j \in 1..Len(e) : e[j].hash = x
        <5>1. r.mapBlocksInFlight[x] = s <=> (x # h /\ q.mapBlocksInFlight[x] = p)
          BY <2>7, <3>0, <3>1 DEF QueueType
        <5>2. q.mapBlocksInFlight[x] = p <=> \E j \in 1..Len(v) : v[j].hash = x
          BY <2>1 DEF InFlightExact
        <5> QED BY Zenon, <5>1, <5>2, <2>5
      <4> QED BY ZenonT(30), <4>1, <4>2, <4>3, <2>5
    <3>2. CASE s # p
      <4>1. /\ r.vBlocksInFlight[s] = q.vBlocksInFlight[s]
            /\ r.nBlocksInFlight[s] = q.nBlocksInFlight[s]
            /\ \A x \in Blocks : r.mapBlocksInFlight[x] = s <=> q.mapBlocksInFlight[x] = s
        BY <2>7, <3>0, <3>2 DEF QueueType
      <4> QED BY <4>1 DEF InFlightExact
    <3> QED BY <3>1, <3>2
  <2>11. Ordered(r)
    <3> SUFFICES ASSUME NEW s \in Peers, NEW j \in 1..Len(r.vBlocksInFlight[s]),
                        NEW k \in 1..Len(r.vBlocksInFlight[s]), j <= k
                 PROVE  /\ r.vBlocksInFlight[s][k].nTime.age <= r.vBlocksInFlight[s][j].nTime.age
                        /\ r.vBlocksInFlight[s][k].nTime.late
                             => r.vBlocksInFlight[s][j].nTime.late
      BY SMTT(30) DEF Ordered
    <3>1. CASE s = p
      <4>1. r.vBlocksInFlight[s] = e BY <2>7, <3>1 DEF QueueType
      <4>2. PICK m \in 1..Len(v), n \in 1..Len(v) : m <= n /\ e[j] = v[m] /\ e[k] = v[n]
        BY ZenonT(30), <4>1, <2>5
      <4>3. v[n].nTime.age <= v[m].nTime.age /\ (v[n].nTime.late => v[m].nTime.late)
        BY Zenon, <2>1, <4>2 DEF Ordered
      <4> QED BY Zenon, <4>1, <4>2, <4>3
    <3>2. CASE s # p
      <4>1. r.vBlocksInFlight[s] = q.vBlocksInFlight[s] BY <2>7, <3>2 DEF QueueType
      <4> QED BY <4>1 DEF Ordered
    <3> QED BY <3>1, <3>2
  <2> QED BY <2>7, <2>8, <2>9, <2>11 DEF r
<1> QED BY <1>1, <1>2

(* The invariant of the queues, when the nodes ns have their states.        *)
Good(q, ns) ==
  /\ q \in QueueType
  /\ ToDownloadExact(q) /\ InFlightExact(q) /\ Owned(q, ns)
  /\ Ordered(q)

(* After MarkBlockAsReceived the queues are in order and free of the block. *)
LEMMA ReceivedKeeps ==
  ASSUME NEW q, NEW ns, NEW h \in Blocks, NEW from, Good(q, ns)
  PROVE  LET r == MarkBlockAsReceived(q, h, from) IN
         /\ Good(r, ns)
         /\ r.mapBlocksToDownload[h] = NoPeer
         /\ r.mapBlocksInFlight[h] = NoPeer
<1> DEFINE u == Unqueue(q, h)
           r == Land(u, h, from)
<1>1. /\ u \in QueueType /\ ToDownloadExact(u)
      /\ u.mapBlocksToDownload = [q.mapBlocksToDownload EXCEPT ![h] = NoPeer]
      /\ u.mapBlocksInFlight = q.mapBlocksInFlight
      /\ u.vBlocksInFlight = q.vBlocksInFlight
      /\ u.nBlocksInFlight = q.nBlocksInFlight
  BY UnqueueKeeps DEF Good
<1> HIDE DEF u
<1>2. InFlightExact(u)
  BY <1>1 DEF Good, InFlightExact
<1>3. Ordered(u)
  BY <1>1 DEF Good, Ordered
<1>4. /\ r \in QueueType /\ InFlightExact(r) /\ Ordered(r)
      /\ r.mapBlocksInFlight = [u.mapBlocksInFlight EXCEPT ![h] = NoPeer]
      /\ r.mapBlocksToDownload = u.mapBlocksToDownload
      /\ r.vBlocksToDownload = u.vBlocksToDownload
      /\ r.nBlocksToDownload = u.nBlocksToDownload
  BY <1>1, <1>2, <1>3, LandKeeps
<1> HIDE DEF r
<1>5. ToDownloadExact(r)
  BY <1>1, <1>4 DEF ToDownloadExact
<1>6. /\ \A x \in Blocks : x # h => /\ r.mapBlocksToDownload[x] = q.mapBlocksToDownload[x]
                                    /\ r.mapBlocksInFlight[x] = q.mapBlocksInFlight[x]
      /\ r.mapBlocksToDownload[h] = NoPeer /\ r.mapBlocksInFlight[h] = NoPeer
  BY <1>1, <1>4 DEF Good, QueueType
<1>7. Owned(r, ns)
  BY <1>6 DEF Good, Owned
<1> QED BY <1>4, <1>5, <1>6, <1>7 DEF Good, MarkBlockAsReceived, r, u

(* AddBlockToQueue of a block nobody holds, at a node with its state.       *)
LEMMA EnqueueKeeps ==
  ASSUME NEW q, NEW ns, ns \subseteq Peers, NEW p \in ns, NEW h \in Blocks,
         Good(q, ns), ~Listed(q, h)
  PROVE  Good(Enqueue(q, p, h), ns)
<1> DEFINE r == Enqueue(q, p, h)
           v == q.vBlocksToDownload[p]
           a == Append(v, h)
<1>1. p \in Peers OBVIOUS
<1>2. q.mapBlocksToDownload[h] = NoPeer /\ q.mapBlocksInFlight[h] = NoPeer
  BY DEF Listed
<1>3. q \in QueueType /\ v \in Seq(Blocks)
  BY <1>1 DEF Good, QueueType
<1>4. /\ a \in Seq(Blocks) /\ Len(a) = Len(v) + 1
      /\ \A j \in 1..Len(v) : a[j] = v[j]
      /\ a[Len(v) + 1] = h
  BY <1>3
<1>5. \A j \in 1..Len(v) : v[j] # h
  BY <1>1, <1>2, DownloadAssumption DEF Good, ToDownloadExact
<1>6. /\ r.vBlocksToDownload = [q.vBlocksToDownload EXCEPT ![p] = a]
      /\ r.nBlocksToDownload = [q.nBlocksToDownload EXCEPT ![p] = q.nBlocksToDownload[p] + 1]
      /\ r.mapBlocksToDownload = [q.mapBlocksToDownload EXCEPT ![h] = p]
      /\ r.mapBlocksInFlight = q.mapBlocksInFlight
      /\ r.vBlocksInFlight = q.vBlocksInFlight
      /\ r.nBlocksInFlight = q.nBlocksInFlight
      /\ r.nLastBlockReceive = q.nLastBlockReceive
  BY <1>3 DEF Enqueue, QueueType
<1>7. r \in QueueType
  <2>1. [q.vBlocksToDownload EXCEPT ![p] = a] \in [Peers -> Seq(Blocks)]
    BY <1>3, <1>4 DEF QueueType
  <2>2. [q.nBlocksToDownload EXCEPT ![p] = q.nBlocksToDownload[p] + 1] \in [Peers -> Int]
    BY <1>1, <1>3 DEF QueueType
  <2>3. [q.mapBlocksToDownload EXCEPT ![h] = p] \in [Blocks -> Peers \cup {NoPeer}]
    BY <1>1, <1>3 DEF QueueType
  <2> QED BY Zenon, <1>3, <2>1, <2>2, <2>3 DEF QueueType, Enqueue
<1> HIDE DEF r, a
<1>8. ToDownloadExact(r)
  <2> SUFFICES ASSUME NEW s \in Peers
               PROVE  /\ r.nBlocksToDownload[s] = Len(r.vBlocksToDownload[s])
                      /\ \A x \in Blocks :
                           r.mapBlocksToDownload[x] = s <=>
                             \E j \in 1..Len(r.vBlocksToDownload[s]) :
                               r.vBlocksToDownload[s][j] = x
                      /\ \A j, k \in 1..Len(r.vBlocksToDownload[s]) :
                           r.vBlocksToDownload[s][j] = r.vBlocksToDownload[s][k] => j = k
    BY DEF ToDownloadExact
  <2>0. NoPeer # s BY DownloadAssumption
  <2>1. CASE s = p
    <3>1. r.vBlocksToDownload[s] = a /\ r.nBlocksToDownload[s] = q.nBlocksToDownload[p] + 1
      BY <1>1, <1>3, <1>6, <2>1 DEF QueueType
    <3>2. /\ q.nBlocksToDownload[p] = Len(v)
          /\ \A j, k \in 1..Len(v) : v[j] = v[k] => j = k
      BY <1>1 DEF Good, ToDownloadExact
    <3>3. ASSUME NEW x \in Blocks
          PROVE  r.mapBlocksToDownload[x] = s <=> \E j \in 1..Len(a) : a[j] = x
      <4>1. r.mapBlocksToDownload[x] = s <=> (x = h \/ q.mapBlocksToDownload[x] = p)
        BY <1>3, <1>6, <2>1 DEF QueueType
      <4>2. q.mapBlocksToDownload[x] = p <=> \E j \in 1..Len(v) : v[j] = x
        BY <1>1 DEF Good, ToDownloadExact
      <4>3. (\E j \in 1..Len(a) : a[j] = x) <=> (x = h \/ \E j \in 1..Len(v) : v[j] = x)
        <5> HIDE DEF v
        <5>1. 1..Len(a) = 1..Len(v) \cup {Len(v) + 1} BY <1>3, <1>4
        <5> QED BY <5>1, <1>4
      <4> QED BY <4>1, <4>2, <4>3
    <3>4. \A j, k \in 1..Len(a) : a[j] = a[k] => j = k
      <4> HIDE DEF v
      <4>1. 1..Len(a) = 1..Len(v) \cup {Len(v) + 1} BY <1>3, <1>4
      <4> QED BY <4>1, <1>4, <1>5, <3>2
    <3> QED BY <3>1, <3>2, <3>3, <3>4, <1>4
  <2>2. CASE s # p
    <3>1. /\ r.vBlocksToDownload[s] = q.vBlocksToDownload[s]
          /\ r.nBlocksToDownload[s] = q.nBlocksToDownload[s]
          /\ \A x \in Blocks : r.mapBlocksToDownload[x] = s <=> q.mapBlocksToDownload[x] = s
      BY <1>2, <1>3, <1>6, <2>0, <2>2 DEF QueueType
    <3> QED BY <3>1 DEF Good, ToDownloadExact
  <2> QED BY <2>1, <2>2
<1>9. InFlightExact(r) BY <1>6 DEF Good, InFlightExact
<1>10. Ordered(r) BY <1>6 DEF Good, Ordered
<1>11. Owned(r, ns)
  <2>1. \A x \in Blocks : r.mapBlocksToDownload[x] = IF x = h THEN p ELSE q.mapBlocksToDownload[x]
    BY <1>3, <1>6 DEF QueueType
  <2> QED BY <1>2, <1>6, <2>1 DEF Good, Owned
<1> QED BY <1>7, <1>8, <1>9, <1>10, <1>11 DEF Good, r

(* MarkBlockAsInFlight: the new request is the youngest, at the end.        *)
LEMMA InFlightKeeps ==
  ASSUME NEW q0, NEW ns, ns \subseteq Peers, NEW p \in ns, NEW h \in Blocks, Good(q0, ns)
  PROVE  Good(MarkBlockAsInFlight(q0, p, h), ns)
<1> DEFINE q == MarkBlockAsReceived(q0, h, NoPeer)
           r == MarkBlockAsInFlight(q0, p, h)
           v == q.vBlocksInFlight[p]
           new == [hash |-> h, nTime |-> Fresh]
           a == Append(v, new)
           last == IF q.nBlocksInFlight[p] = 0 THEN Fresh ELSE q.nLastBlockReceive[p]
<1>1. p \in Peers OBVIOUS
<1>2. Good(q, ns) /\ q.mapBlocksToDownload[h] = NoPeer /\ q.mapBlocksInFlight[h] = NoPeer
  BY ReceivedKeeps
<1>3. r = [q EXCEPT !.nLastBlockReceive[p] = last,
                    !.vBlocksInFlight[p] = a,
                    !.nBlocksInFlight[p] = q.nBlocksInFlight[p] + 1,
                    !.mapBlocksInFlight[h] = p]
  BY DEF MarkBlockAsInFlight
<1> HIDE DEF q, r
<1>4. q \in QueueType /\ v \in Seq(Entries)
  BY <1>1, <1>2 DEF Good, QueueType
<1>5. new \in Entries /\ new.hash = h /\ new.nTime.age = 0 /\ new.nTime.late = FALSE
  BY DownloadAssumption DEF Entries, Fresh, Stamps, RequestLimit
<1>6. last \in Stamps(ReceiveLimit)
  BY <1>1, <1>4, DownloadAssumption DEF QueueType, Fresh, Stamps, ReceiveLimit
<1> HIDE DEF new, last
<1>7. /\ a \in Seq(Entries) /\ Len(a) = Len(v) + 1
      /\ \A j \in 1..Len(v) : a[j] = v[j]
      /\ a[Len(v) + 1] = new
  BY <1>4, <1>5
<1>8. \A j \in 1..Len(v) : v[j].hash # h
  BY <1>1, <1>2, DownloadAssumption DEF Good, InFlightExact
<1> HIDE DEF a
<1>9. /\ r.vBlocksInFlight = [q.vBlocksInFlight EXCEPT ![p] = a]
      /\ r.nBlocksInFlight = [q.nBlocksInFlight EXCEPT ![p] = q.nBlocksInFlight[p] + 1]
      /\ r.mapBlocksInFlight = [q.mapBlocksInFlight EXCEPT ![h] = p]
      /\ r.mapBlocksToDownload = q.mapBlocksToDownload
      /\ r.vBlocksToDownload = q.vBlocksToDownload
      /\ r.nBlocksToDownload = q.nBlocksToDownload
  BY <1>3, <1>4 DEF QueueType
<1>10. r \in QueueType
  <2>1. [q.vBlocksInFlight EXCEPT ![p] = a] \in [Peers -> Seq(Entries)]
    BY <1>4, <1>7 DEF QueueType
  <2>2. [q.nBlocksInFlight EXCEPT ![p] = q.nBlocksInFlight[p] + 1] \in [Peers -> Int]
    BY <1>1, <1>4 DEF QueueType
  <2>3. [q.mapBlocksInFlight EXCEPT ![h] = p] \in [Blocks -> Peers \cup {NoPeer}]
    BY <1>1, <1>4 DEF QueueType
  <2>4. [q.nLastBlockReceive EXCEPT ![p] = last] \in [Peers -> Stamps(ReceiveLimit)]
    BY <1>4, <1>6 DEF QueueType
  <2> QED BY Zenon, <1>3, <1>4, <2>1, <2>2, <2>3, <2>4 DEF QueueType
<1>0. 1..Len(a) = 1..Len(v) \cup {Len(v) + 1}
  <2> HIDE DEF v
  <2> QED BY <1>4, <1>7
<1>11. InFlightExact(r)
  <2> SUFFICES ASSUME NEW s \in Peers
               PROVE  /\ r.nBlocksInFlight[s] = Len(r.vBlocksInFlight[s])
                      /\ \A x \in Blocks :
                           r.mapBlocksInFlight[x] = s <=>
                             \E j \in 1..Len(r.vBlocksInFlight[s]) :
                               r.vBlocksInFlight[s][j].hash = x
                      /\ \A j, k \in 1..Len(r.vBlocksInFlight[s]) :
                           r.vBlocksInFlight[s][j].hash = r.vBlocksInFlight[s][k].hash => j = k
    BY DEF InFlightExact
  <2>0. NoPeer # s BY DownloadAssumption
  <2>1. CASE s = p
    <3>1. r.vBlocksInFlight[s] = a /\ r.nBlocksInFlight[s] = q.nBlocksInFlight[p] + 1
      BY <1>1, <1>4, <1>9, <2>1 DEF QueueType
    <3>2. /\ q.nBlocksInFlight[p] = Len(v)
          /\ \A j, k \in 1..Len(v) : v[j].hash = v[k].hash => j = k
      BY <1>1, <1>2 DEF Good, InFlightExact
    <3>3. ASSUME NEW x \in Blocks
          PROVE  r.mapBlocksInFlight[x] = s <=> \E j \in 1..Len(a) : a[j].hash = x
      <4>1. r.mapBlocksInFlight[x] = s <=> (x = h \/ q.mapBlocksInFlight[x] = p)
        BY <1>4, <1>9, <2>1 DEF QueueType
      <4>2. q.mapBlocksInFlight[x] = p <=> \E j \in 1..Len(v) : v[j].hash = x
        BY <1>1, <1>2 DEF Good, InFlightExact
      <4>3. (\E j \in 1..Len(a) : a[j].hash = x) <=> (x = h \/ \E j \in 1..Len(v) : v[j].hash = x)
        <5> HIDE DEF v
        <5> QED BY <1>0, <1>5, <1>7
      <4> QED BY <4>1, <4>2, <4>3
    <3>4. \A j, k \in 1..Len(a) : a[j].hash = a[k].hash => j = k
      <4> HIDE DEF v
      <4> QED BY <1>0, <1>5, <1>7, <1>8, <3>2
    <3> QED BY <3>1, <3>2, <3>3, <3>4, <1>7
  <2>2. CASE s # p
    <3>1. /\ r.vBlocksInFlight[s] = q.vBlocksInFlight[s]
          /\ r.nBlocksInFlight[s] = q.nBlocksInFlight[s]
          /\ \A x \in Blocks : r.mapBlocksInFlight[x] = s <=> q.mapBlocksInFlight[x] = s
      BY <1>2, <1>4, <1>9, <2>0, <2>2 DEF QueueType
    <3> QED BY <3>1, <1>2 DEF Good, InFlightExact
  <2> QED BY <2>1, <2>2
<1>12. Ordered(r)
  <2> SUFFICES ASSUME NEW s \in Peers, NEW j \in 1..Len(r.vBlocksInFlight[s]),
                      NEW k \in 1..Len(r.vBlocksInFlight[s]), j <= k
               PROVE  /\ r.vBlocksInFlight[s][k].nTime.age <= r.vBlocksInFlight[s][j].nTime.age
                      /\ r.vBlocksInFlight[s][k].nTime.late
                           => r.vBlocksInFlight[s][j].nTime.late
    BY DEF Ordered
  <2>1. CASE s = p
    <3>1. r.vBlocksInFlight[s] = a BY <1>1, <1>4, <1>9, <2>1 DEF QueueType
    <3>2. a[j].nTime.age \in Nat
      <4>1. a[j] \in Entries BY <3>1, <1>7
      <4>2. a[j].nTime.age \in 0..(RequestLimit + 1) BY <4>1 DEF Entries, Stamps
      <4> QED BY <4>2
    <3>3. CASE k = Len(v) + 1
      <4>1. a[k].nTime.age = 0 /\ a[k].nTime.late = FALSE BY <3>3, <1>5, <1>7
      <4> QED BY <4>1, <3>1, <3>2
    <3>4. CASE k # Len(v) + 1
      <4>1. j \in 1..Len(v) /\ k \in 1..Len(v)
        <5> HIDE DEF v
        <5> QED BY <3>1, <3>4, <1>4, <1>7
      <4>2. v[k].nTime.age <= v[j].nTime.age /\ (v[k].nTime.late => v[j].nTime.late)
        BY <1>1, <1>2, <4>1 DEF Good, Ordered
      <4> QED BY Zenon, <3>1, <4>1, <4>2, <1>7
    <3> QED BY <3>3, <3>4
  <2>2. CASE s # p
    <3>1. r.vBlocksInFlight[s] = q.vBlocksInFlight[s] BY <1>4, <1>9, <2>2 DEF QueueType
    <3> QED BY <3>1, <1>2 DEF Good, Ordered
  <2> QED BY <2>1, <2>2
<1>13. ToDownloadExact(r) BY <1>2, <1>9 DEF Good, ToDownloadExact
<1>14. Owned(r, ns)
  <2>1. \A x \in Blocks : r.mapBlocksInFlight[x] = IF x = h THEN p ELSE q.mapBlocksInFlight[x]
    BY <1>4, <1>9 DEF QueueType
  <2> QED BY <1>2, <1>9, <2>1 DEF Good, Owned
<1> QED BY <1>10, <1>11, <1>12, <1>13, <1>14 DEF Good, r

(* FinalizeNode: what the node held is free, the rest is as it was.         *)
LEMMA ForgetKeeps ==
  ASSUME NEW q, NEW ns, NEW p \in Peers, Good(q, ns)
  PROVE  Good(ForgetNode(q, p), ns \ {p})
<1> DEFINE r == ForgetNode(q, p)
<1>1. q \in QueueType BY DEF Good
<1>2. /\ r.mapBlocksInFlight =
           [h \in Blocks |-> IF q.mapBlocksInFlight[h] = p THEN NoPeer ELSE q.mapBlocksInFlight[h]]
      /\ r.mapBlocksToDownload =
           [h \in Blocks |-> IF q.mapBlocksToDownload[h] = p THEN NoPeer ELSE q.mapBlocksToDownload[h]]
  <2>1. \A h \in Blocks : /\ q.mapBlocksInFlight[h] = p <=>
                               \E i \in 1..Len(q.vBlocksInFlight[p]) : q.vBlocksInFlight[p][i].hash = h
                          /\ q.mapBlocksToDownload[h] = p <=>
                               \E i \in 1..Len(q.vBlocksToDownload[p]) : q.vBlocksToDownload[p][i] = h
    BY DEF Good, InFlightExact, ToDownloadExact
  <2>2. /\ r.mapBlocksInFlight =
             [h \in Blocks |-> IF \E i \in 1..Len(q.vBlocksInFlight[p]) :
                                    q.vBlocksInFlight[p][i].hash = h
                               THEN NoPeer ELSE q.mapBlocksInFlight[h]]
        /\ r.mapBlocksToDownload =
             [h \in Blocks |-> IF \E i \in 1..Len(q.vBlocksToDownload[p]) :
                                    q.vBlocksToDownload[p][i] = h
                               THEN NoPeer ELSE q.mapBlocksToDownload[h]]
    BY <1>1 DEF ForgetNode, QueueType
  <2> HIDE DEF r
  <2> QED BY <2>1, <2>2
<1>3. /\ r.vBlocksToDownload = [q.vBlocksToDownload EXCEPT ![p] = <<>>]
      /\ r.nBlocksToDownload = [q.nBlocksToDownload EXCEPT ![p] = 0]
      /\ r.vBlocksInFlight = [q.vBlocksInFlight EXCEPT ![p] = <<>>]
      /\ r.nBlocksInFlight = [q.nBlocksInFlight EXCEPT ![p] = 0]
      /\ r.nLastBlockReceive = [q.nLastBlockReceive EXCEPT ![p] = Epoch]
  BY SMTT(30), <1>1 DEF ForgetNode, QueueType
<1>4. r \in QueueType <=>
        /\ r.mapBlocksToDownload \in [Blocks -> Peers \cup {NoPeer}]
        /\ r.mapBlocksInFlight \in [Blocks -> Peers \cup {NoPeer}]
        /\ r.vBlocksToDownload \in [Peers -> Seq(Blocks)]
        /\ r.nBlocksToDownload \in [Peers -> Int]
        /\ r.vBlocksInFlight \in [Peers -> Seq(Entries)]
        /\ r.nBlocksInFlight \in [Peers -> Int]
        /\ r.nLastBlockReceive \in [Peers -> Stamps(ReceiveLimit)]
  BY Zenon, <1>1 DEF ForgetNode, QueueType
<1> HIDE DEF r
<1>5. r \in QueueType
  <2>1. r.mapBlocksInFlight \in [Blocks -> Peers \cup {NoPeer}]
    BY <1>1, <1>2 DEF QueueType
  <2>2. r.mapBlocksToDownload \in [Blocks -> Peers \cup {NoPeer}]
    BY <1>1, <1>2 DEF QueueType
  <2>3. r.vBlocksToDownload \in [Peers -> Seq(Blocks)] /\ r.vBlocksInFlight \in [Peers -> Seq(Entries)]
    BY <1>1, <1>3 DEF QueueType
  <2>4. r.nBlocksToDownload \in [Peers -> Int] /\ r.nBlocksInFlight \in [Peers -> Int]
    BY <1>1, <1>3 DEF QueueType
  <2>5. Epoch \in Stamps(ReceiveLimit)
    BY DownloadAssumption DEF Epoch, Stamps, ReceiveLimit
  <2>6. r.nLastBlockReceive \in [Peers -> Stamps(ReceiveLimit)]
    BY <1>1, <1>3, <2>5 DEF QueueType
  <2> QED BY <1>4, <2>1, <2>2, <2>3, <2>4, <2>6
<1>6. ASSUME NEW s \in Peers, s # p
      PROVE  /\ r.vBlocksToDownload[s] = q.vBlocksToDownload[s]
             /\ r.nBlocksToDownload[s] = q.nBlocksToDownload[s]
             /\ r.vBlocksInFlight[s] = q.vBlocksInFlight[s]
             /\ r.nBlocksInFlight[s] = q.nBlocksInFlight[s]
             /\ \A h \in Blocks : /\ r.mapBlocksToDownload[h] = s <=> q.mapBlocksToDownload[h] = s
                                  /\ r.mapBlocksInFlight[h] = s <=> q.mapBlocksInFlight[h] = s
  <2>1. NoPeer # s BY DownloadAssumption
  <2> QED BY <1>1, <1>2, <1>3, <1>6, <2>1 DEF QueueType
<1>7. /\ r.vBlocksToDownload[p] = <<>> /\ r.nBlocksToDownload[p] = 0
      /\ r.vBlocksInFlight[p] = <<>> /\ r.nBlocksInFlight[p] = 0
      /\ \A h \in Blocks : r.mapBlocksToDownload[h] # p /\ r.mapBlocksInFlight[h] # p
  <2>1. NoPeer # p BY DownloadAssumption
  <2> QED BY <1>1, <1>2, <1>3, <2>1 DEF QueueType
<1>8. ToDownloadExact(r) BY <1>6, <1>7 DEF Good, ToDownloadExact
<1>9. InFlightExact(r) BY <1>6, <1>7 DEF Good, InFlightExact
<1>10. Ordered(r)
  <2> SUFFICES ASSUME NEW s \in Peers, NEW j \in 1..Len(r.vBlocksInFlight[s]),
                      NEW k \in 1..Len(r.vBlocksInFlight[s]), j <= k
               PROVE  /\ r.vBlocksInFlight[s][k].nTime.age <= r.vBlocksInFlight[s][j].nTime.age
                      /\ r.vBlocksInFlight[s][k].nTime.late
                           => r.vBlocksInFlight[s][j].nTime.late
    BY DEF Ordered
  <2>1. s # p BY <1>7
  <2> QED BY Zenon, <2>1, <1>6 DEF Good, Ordered
<1>11. Owned(r, ns \ {p}) BY <1>2, <1>7 DEF Good, Owned
<1> QED BY <1>5, <1>8, <1>9, <1>10, <1>11 DEF Good, r

(* Restamping the requests changes no block and no order: the clock, and a  *)
(* node's nLastBlockProcess.                                                *)
LEMMA RestampKeeps ==
  ASSUME NEW q, NEW ns, Good(q, ns), NEW r \in QueueType,
         r.mapBlocksToDownload = q.mapBlocksToDownload,
         r.mapBlocksInFlight = q.mapBlocksInFlight,
         r.vBlocksToDownload = q.vBlocksToDownload,
         r.nBlocksToDownload = q.nBlocksToDownload,
         r.nBlocksInFlight = q.nBlocksInFlight,
         \A p \in Peers :
           /\ Len(r.vBlocksInFlight[p]) = Len(q.vBlocksInFlight[p])
           /\ \A i \in 1..Len(q.vBlocksInFlight[p]) :
                r.vBlocksInFlight[p][i].hash = q.vBlocksInFlight[p][i].hash,
         Ordered(r)
  PROVE  Good(r, ns)
<1>1. ToDownloadExact(r) BY DEF Good, ToDownloadExact
<1>2. InFlightExact(r) BY SMTT(30) DEF Good, InFlightExact
<1>3. Owned(r, ns) BY DEF Good, Owned
<1> QED BY <1>1, <1>2, <1>3 DEF Good

(* Stamps: ageing and marking keep the range and the order.                 *)
LEMMA StampsKept ==
  ASSUME NEW limit \in Nat, NEW s \in Stamps(limit)
  PROVE  /\ Older(s, limit) \in Stamps(limit)
         /\ Older(s, limit).age = (IF s.age > limit THEN s.age ELSE s.age + 1)
         /\ Older(s, limit).late = s.late
         /\ Processed(s, limit) \in Stamps(limit)
         /\ Processed(s, limit).age = s.age
         /\ Processed(s, limit).late <=> s.age > limit
<1>1. s \in [age : 0..(limit + 1), late : BOOLEAN] BY DEF Stamps
<1>2. /\ Older(s, limit) \in Stamps(limit)
      /\ Older(s, limit).age = (IF s.age > limit THEN s.age ELSE s.age + 1)
      /\ Older(s, limit).late = s.late
  BY <1>1 DEF Stamps, Older
<1>3. CASE s.age > limit
  <2>1. Processed(s, limit) = [s EXCEPT !.late = TRUE] BY Zenon, <1>3 DEF Processed
  <2> QED BY Zenon, <1>1, <1>2, <1>3, <2>1 DEF Stamps
<1>4. CASE ~(s.age > limit)
  <2>0. (s.age > limit) = FALSE BY <1>4
  <2>1. Processed(s, limit) = [s EXCEPT !.late = FALSE] BY Zenon, <2>0 DEF Processed
  <2> QED BY Zenon, <1>1, <1>2, <1>4, <2>1 DEF Stamps
<1> QED BY <1>3, <1>4

LEMMA LimitsAreNat == ReceiveLimit \in Nat /\ RequestLimit \in Nat
BY DownloadAssumption DEF ReceiveLimit, RequestLimit

(* The clock moves.                                                         *)
LEMMA AgedKeeps ==
  ASSUME NEW q, NEW ns, Good(q, ns)
  PROVE  Good(Aged(q), ns)
<1> DEFINE r == Aged(q)
           aged(p, i) == [hash |-> q.vBlocksInFlight[p][i].hash,
                          nTime |-> Older(q.vBlocksInFlight[p][i].nTime, RequestLimit)]
<1>1. q \in QueueType BY DEF Good
<1>2. ASSUME NEW p \in Peers
      PROVE  /\ q.vBlocksInFlight[p] \in Seq(Entries)
             /\ \A i \in 1..Len(q.vBlocksInFlight[p]) :
                  /\ q.vBlocksInFlight[p][i] \in Entries
                  /\ q.vBlocksInFlight[p][i].nTime \in Stamps(RequestLimit)
                  /\ aged(p, i) \in Entries
  <2>1. q.vBlocksInFlight[p] \in Seq(Entries) BY <1>1 DEF QueueType
  <2>2. ASSUME NEW i \in 1..Len(q.vBlocksInFlight[p])
        PROVE  q.vBlocksInFlight[p][i] \in Entries
    BY <2>1
  <2>3. ASSUME NEW e \in Entries
        PROVE  /\ e.nTime \in Stamps(RequestLimit)
               /\ [hash |-> e.hash, nTime |-> Older(e.nTime, RequestLimit)] \in Entries
    BY StampsKept, LimitsAreNat DEF Entries
  <2> QED BY <2>1, <2>2, <2>3
<1>3. /\ r.mapBlocksToDownload = q.mapBlocksToDownload
      /\ r.mapBlocksInFlight = q.mapBlocksInFlight
      /\ r.vBlocksToDownload = q.vBlocksToDownload
      /\ r.nBlocksToDownload = q.nBlocksToDownload
      /\ r.nBlocksInFlight = q.nBlocksInFlight
      /\ r.vBlocksInFlight =
           [p \in Peers |-> [i \in 1..Len(q.vBlocksInFlight[p]) |-> aged(p, i)]]
  BY <1>1 DEF Aged, QueueType
<1>4. r \in QueueType
  <2>1. \A p \in Peers : [i \in 1..Len(q.vBlocksInFlight[p]) |-> aged(p, i)] \in Seq(Entries)
    <3> HIDE DEF aged
    <3> QED BY <1>2, IsASeq
  <2>2. [p \in Peers |-> [i \in 1..Len(q.vBlocksInFlight[p]) |-> aged(p, i)]]
          \in [Peers -> Seq(Entries)]
    <3> HIDE DEF aged
    <3> QED BY <2>1
  <2>3. [p \in Peers |-> Older(q.nLastBlockReceive[p], ReceiveLimit)]
          \in [Peers -> Stamps(ReceiveLimit)]
    BY <1>1, StampsKept, LimitsAreNat DEF QueueType
  <2> QED BY Zenon, <1>1, <2>2, <2>3 DEF QueueType, Aged
<1>5. ASSUME NEW p \in Peers
      PROVE  /\ Len(r.vBlocksInFlight[p]) = Len(q.vBlocksInFlight[p])
             /\ \A i \in 1..Len(q.vBlocksInFlight[p]) : r.vBlocksInFlight[p][i] = aged(p, i)
  <2> HIDE DEF aged, r
  <2>1. r.vBlocksInFlight[p] = [i \in 1..Len(q.vBlocksInFlight[p]) |-> aged(p, i)] BY <1>3
  <2>2. Len(q.vBlocksInFlight[p]) \in Nat BY <1>2
  <2> QED BY <2>1, <2>2
<1> HIDE DEF r
<1>6. Ordered(r)
  <2> SUFFICES ASSUME NEW p \in Peers, NEW i \in 1..Len(q.vBlocksInFlight[p]),
                      NEW j \in 1..Len(q.vBlocksInFlight[p]), i <= j
               PROVE  /\ aged(p, j).nTime.age <= aged(p, i).nTime.age
                      /\ aged(p, j).nTime.late => aged(p, i).nTime.late
    <3> HIDE DEF aged
    <3> QED BY SMTT(30), <1>5 DEF Ordered
  <2> DEFINE a == q.vBlocksInFlight[p][i].nTime
             b == q.vBlocksInFlight[p][j].nTime
  <2>1. b.age <= a.age /\ (b.late => a.late) BY DEF Good, Ordered
  <2>2. a \in Stamps(RequestLimit) /\ b \in Stamps(RequestLimit) BY Zenon, <1>2
  <2> HIDE DEF a, b
  <2>3. a.age \in Int /\ b.age \in Int BY <2>2, LimitsAreNat DEF Stamps
  <2>4. /\ Older(b, RequestLimit).age <= Older(a, RequestLimit).age
        /\ Older(b, RequestLimit).late => Older(a, RequestLimit).late
    BY <2>1, <2>2, <2>3, StampsKept, LimitsAreNat
  <2> QED BY <2>4 DEF a, b
<1>7. \A p \in Peers :
        /\ Len(r.vBlocksInFlight[p]) = Len(q.vBlocksInFlight[p])
        /\ \A i \in 1..Len(q.vBlocksInFlight[p]) :
             r.vBlocksInFlight[p][i].hash = q.vBlocksInFlight[p][i].hash
  <2>1. \A p \in Peers : \A i \in 1..Len(q.vBlocksInFlight[p]) :
          aged(p, i).hash = q.vBlocksInFlight[p][i].hash
    OBVIOUS
  <2> HIDE DEF aged
  <2> QED BY <1>5, <2>1
<1>8. Good(r, ns)
  <2> HIDE DEF aged
  <2>1. /\ r.mapBlocksToDownload = q.mapBlocksToDownload
        /\ r.mapBlocksInFlight = q.mapBlocksInFlight
        /\ r.vBlocksToDownload = q.vBlocksToDownload
        /\ r.nBlocksToDownload = q.nBlocksToDownload
        /\ r.nBlocksInFlight = q.nBlocksInFlight
    BY <1>3
  <2> QED BY <2>1, <1>4, <1>6, <1>7, RestampKeeps
<1> QED BY <1>8 DEF r

(* A message of node p sets its nLastBlockProcess.                          *)
LEMMA ProcessedKeeps ==
  ASSUME NEW q, NEW ns, NEW p \in Peers, Good(q, ns)
  PROVE  /\ Good(ProcessedNow(q, p), ns)
         /\ ProcessedNow(q, p).mapBlocksToDownload = q.mapBlocksToDownload
         /\ ProcessedNow(q, p).mapBlocksInFlight = q.mapBlocksInFlight
<1> DEFINE r == ProcessedNow(q, p)
           v == q.vBlocksInFlight[p]
           marked(i) == [hash |-> v[i].hash, nTime |-> Processed(v[i].nTime, RequestLimit)]
           m == [i \in 1..Len(v) |-> marked(i)]
<1>1. q \in QueueType BY DEF Good
<1>2. v \in Seq(Entries) BY <1>1 DEF QueueType
<1>3. ASSUME NEW i \in 1..Len(v)
      PROVE  v[i].nTime \in Stamps(RequestLimit) /\ marked(i) \in Entries
  <2>1. v[i] \in Entries BY <1>2
  <2>2. ASSUME NEW e \in Entries
        PROVE  /\ e.nTime \in Stamps(RequestLimit)
               /\ [hash |-> e.hash, nTime |-> Processed(e.nTime, RequestLimit)] \in Entries
    BY StampsKept, LimitsAreNat DEF Entries
  <2> QED BY <2>1, <2>2
<1>4. m \in Seq(Entries) /\ Len(m) = Len(v) /\ \A i \in 1..Len(v) : m[i] = marked(i)
  <2> HIDE DEF marked, v
  <2> QED BY <1>2, <1>3, IsASeq
<1>5. /\ r.mapBlocksToDownload = q.mapBlocksToDownload
      /\ r.mapBlocksInFlight = q.mapBlocksInFlight
      /\ r.vBlocksToDownload = q.vBlocksToDownload
      /\ r.nBlocksToDownload = q.nBlocksToDownload
      /\ r.nBlocksInFlight = q.nBlocksInFlight
      /\ r.vBlocksInFlight = [q.vBlocksInFlight EXCEPT ![p] = m]
  BY <1>1 DEF ProcessedNow, QueueType
<1>6. r \in QueueType
  <2>1. [q.vBlocksInFlight EXCEPT ![p] = m] \in [Peers -> Seq(Entries)]
    <3> HIDE DEF m
    <3> QED BY <1>1, <1>4 DEF QueueType
  <2>2. Processed(q.nLastBlockReceive[p], ReceiveLimit) \in Stamps(ReceiveLimit)
    BY <1>1, StampsKept, LimitsAreNat DEF QueueType
  <2>3. r = [q EXCEPT !.nLastBlockReceive[p] = Processed(q.nLastBlockReceive[p], ReceiveLimit),
                      !.vBlocksInFlight[p] = m]
    BY DEF ProcessedNow
  <2> HIDE DEF m, r
  <2> QED BY Zenon, <1>1, <2>1, <2>2, <2>3 DEF QueueType
<1> HIDE DEF r, m
<1>7. /\ r.vBlocksInFlight[p] = m
      /\ \A s \in Peers : s # p => r.vBlocksInFlight[s] = q.vBlocksInFlight[s]
  BY <1>1, <1>5 DEF QueueType
<1>8. \A s \in Peers :
        /\ Len(r.vBlocksInFlight[s]) = Len(q.vBlocksInFlight[s])
        /\ \A i \in 1..Len(q.vBlocksInFlight[s]) :
             r.vBlocksInFlight[s][i].hash = q.vBlocksInFlight[s][i].hash
  <2>1. \A i \in 1..Len(v) : marked(i).hash = v[i].hash OBVIOUS
  <2> HIDE DEF marked
  <2> SUFFICES ASSUME NEW s \in Peers
               PROVE  /\ Len(r.vBlocksInFlight[s]) = Len(q.vBlocksInFlight[s])
                      /\ \A i \in 1..Len(q.vBlocksInFlight[s]) :
                           r.vBlocksInFlight[s][i].hash = q.vBlocksInFlight[s][i].hash
    OBVIOUS
  <2>2. CASE s = p BY <1>4, <1>7, <2>1, <2>2
  <2>3. CASE s # p BY <1>7, <2>3
  <2> QED BY <2>2, <2>3
<1>9. Ordered(r)
  <2> SUFFICES ASSUME NEW s \in Peers, NEW i \in 1..Len(r.vBlocksInFlight[s]),
                      NEW j \in 1..Len(r.vBlocksInFlight[s]), i <= j
               PROVE  /\ r.vBlocksInFlight[s][j].nTime.age <= r.vBlocksInFlight[s][i].nTime.age
                      /\ r.vBlocksInFlight[s][j].nTime.late
                           => r.vBlocksInFlight[s][i].nTime.late
    BY DEF Ordered
  <2>1. CASE s = p
    <3> DEFINE a == v[i].nTime
               b == v[j].nTime
    <3>1. i \in 1..Len(v) /\ j \in 1..Len(v) /\ r.vBlocksInFlight[s] = m
      BY <1>4, <1>7, <2>1
    <3>2. b.age <= a.age BY <3>1 DEF Good, Ordered
    <3>3. a \in Stamps(RequestLimit) /\ b \in Stamps(RequestLimit) BY Zenon, <1>3, <3>1
    <3>4. m[i].nTime = Processed(a, RequestLimit) /\ m[j].nTime = Processed(b, RequestLimit)
      <4>1. m[i] = marked(i) /\ m[j] = marked(j)
        <5> HIDE DEF marked
        <5> QED BY <1>4, <3>1
      <4> QED BY <4>1
    <3> HIDE DEF a, b
    <3>5. a.age \in Int /\ b.age \in Int BY <3>3, LimitsAreNat DEF Stamps
    <3>6. /\ Processed(b, RequestLimit).age <= Processed(a, RequestLimit).age
          /\ Processed(b, RequestLimit).late => Processed(a, RequestLimit).late
      BY <3>2, <3>3, <3>5, StampsKept, LimitsAreNat
    <3> QED BY <3>1, <3>4, <3>6
  <2>2. CASE s # p
    <3>1. r.vBlocksInFlight[s] = q.vBlocksInFlight[s] BY <1>7, <2>2
    <3> QED BY <3>1 DEF Good, Ordered
  <2> QED BY <2>1, <2>2
<1>10. Good(r, ns) BY Zenon, <1>5, <1>6, <1>8, <1>9, RestampKeeps
<1> QED BY <1>5, <1>10 DEF r

-----------------------------------------------------------------------------
(* The invariant *)

IndInv == TypeOK /\ Good(dl, nodes)

(* At start no node has a state and nothing is queued.                      *)
LEMMA InitHolds == Init => IndInv
<1> SUFFICES ASSUME Init PROVE IndInv OBVIOUS
<1>1. dl \in QueueType
  <2>1. Epoch \in Stamps(ReceiveLimit) BY DownloadAssumption DEF Epoch, Stamps, ReceiveLimit
  <2> QED BY <2>1 DEF Init, QueueType
<1>2. TypeOK BY <1>1, DownloadAssumption DEF Init, TypeOK
<1>3. ToDownloadExact(dl) /\ InFlightExact(dl) /\ Owned(dl, nodes) /\ Ordered(dl)
  <2>1. /\ \A p \in Peers : /\ dl.vBlocksToDownload[p] = <<>> /\ dl.nBlocksToDownload[p] = 0
                            /\ dl.vBlocksInFlight[p] = <<>> /\ dl.nBlocksInFlight[p] = 0
        /\ \A h \in Blocks : /\ dl.mapBlocksToDownload[h] = NoPeer
                             /\ dl.mapBlocksInFlight[h] = NoPeer
    BY DEF Init
  <2>2. NoPeer \notin Peers
    BY DownloadAssumption
  <2>3. ToDownloadExact(dl)
    BY <2>1, <2>2 DEF ToDownloadExact
  <2>4. InFlightExact(dl)
    BY <2>1, <2>2 DEF InFlightExact
  <2>5. Owned(dl, nodes)
    BY Zenon, <2>1 DEF Owned
  <2>6. Ordered(dl)
    BY <2>1 DEF Ordered
  <2> QED BY Zenon, <2>3, <2>4, <2>5, <2>6
<1> QED BY <1>1, <1>2, <1>3 DEF IndInv, Good

(* Every step keeps the invariant.                                          *)
LEMMA StepHolds == IndInv /\ [Next]_vars => IndInv'
<1> SUFFICES ASSUME IndInv, [Next]_vars PROVE IndInv' OBVIOUS
<1>0. TypeOK /\ Good(dl, nodes) /\ nodes \subseteq Peers BY DEF IndInv, TypeOK
<1>1. ASSUME dl' = dl, nodes' = nodes PROVE Good(dl', nodes') BY <1>0, <1>1
<1>2. ASSUME Good(dl', nodes') PROVE (dl \in QueueType)' BY <1>2 DEF Good
<1>3. ASSUME pc # "idle" PROVE pto \in nodes /\ pto \in copy /\ pto \in Peers
  BY <1>0, <1>3 DEF TypeOK
<1>4. ASSUME pc = "receive" PROVE Good(ProcessedNow(dl, pto), nodes)
  BY <1>0, <1>3, <1>4, ProcessedKeeps
<1>5. CASE StartRound
  BY <1>0, <1>1, <1>2, <1>5 DEF StartRound, lists, TypeOK, IndInv
<1>6. CASE EndRound
  BY <1>0, <1>1, <1>2, <1>6 DEF EndRound, lists, TypeOK, IndInv
<1>7. CASE NoMessage
  BY <1>0, <1>1, <1>2, <1>7 DEF NoMessage, lists, TypeOK, IndInv
<1>8. CASE ReceiveOther
  <2>1. Good(dl', nodes') BY <1>4, <1>8 DEF ReceiveOther, Message, TakeMessage, lists
  <2>2. fShouldBan' \subseteq nodes BY <1>0, <1>8 DEF ReceiveOther, Misbehaving, TypeOK
  <2> QED BY <1>0, <1>2, <1>3, <1>8, <2>1, <2>2
          DEF ReceiveOther, Message, TakeMessage, lists, TypeOK, IndInv
<1>9. CASE SendNothing
  BY <1>0, <1>1, <1>2, <1>9 DEF SendNothing, lists, TypeOK, IndInv
<1>10. CASE SendMessages
  <2>1. Good(dl', nodes') BY <1>0, <1>10 DEF SendMessages, lists
  <2> QED BY <1>0, <1>2, <1>3, <1>10, <2>1 DEF SendMessages, lists, TypeOK, IndInv
<1>11. CASE RequestBlock
  <2>1. pto \in nodes /\ pto \in Peers BY <1>3, <1>11 DEF RequestBlock
  <2>2. dl.vBlocksToDownload[pto] \in Seq(Blocks) BY <1>0, <2>1 DEF Good, QueueType
  <2>3. Len(dl.vBlocksToDownload[pto]) # 0
    BY <1>0, <1>11, <2>1 DEF RequestBlock, MayRequest, Good, ToDownloadExact
  <2>4. Head(dl.vBlocksToDownload[pto]) \in Blocks BY <2>2, <2>3
  <2>5. Good(dl', nodes')
    BY <1>0, <1>11, <2>1, <2>4, InFlightKeeps DEF RequestBlock, lists
  <2> QED BY <1>0, <1>2, <1>11, <2>5 DEF RequestBlock, lists, thread, TypeOK, IndInv
<1>12. CASE RequestDone
  BY <1>0, <1>1, <1>2, <1>12 DEF RequestDone, lists, TypeOK, IndInv
<1>13. ASSUME NEW p \in Peers, SkipNode(p) PROVE IndInv'
  BY <1>0, <1>1, <1>2, <1>13 DEF SkipNode, lists, TypeOK, IndInv
<1>14. ASSUME NEW p \in Peers, PickNode(p) PROVE IndInv'
  BY <1>0, <1>1, <1>2, <1>14 DEF PickNode, lists, TypeOK, IndInv
<1>15. ASSUME NEW h \in Blocks, ReceiveBlock(h) PROVE IndInv'
  <2>1. Good(dl', nodes')
    BY <1>4, <1>15, ReceivedKeeps DEF ReceiveBlock, Message, TakeMessage, lists
  <2>2. fShouldBan' \subseteq nodes BY <1>0, <1>15 DEF ReceiveBlock, Misbehaving, TypeOK
  <2> QED BY <1>0, <1>2, <1>3, <1>15, <2>1, <2>2
          DEF ReceiveBlock, Message, TakeMessage, lists, TypeOK, IndInv
<1>16. ASSUME NEW h \in Blocks, NEW fHave \in BOOLEAN, NEW fFull \in BOOLEAN,
              ReceiveInv(h, fHave, fFull)
       PROVE  IndInv'
  <2> DEFINE q == ProcessedNow(dl, pto)
             fAdd == ~fHave /\ ~Listed(q, h) /\ pto \in nodes
  <2>1. Good(q, nodes) BY <1>4, <1>16 DEF ReceiveInv, Message, TakeMessage
  <2>2. dl' = IF fAdd THEN Enqueue(q, pto, h) ELSE q BY <1>16 DEF ReceiveInv
  <2> HIDE DEF q
  <2>3. Good(dl', nodes)
    <3>1. CASE fAdd BY <1>0, <2>1, <2>2, <3>1, EnqueueKeeps
    <3>2. CASE ~fAdd BY <2>1, <2>2, <3>2
    <3> QED BY <3>1, <3>2
  <2>4. Good(dl', nodes') BY <1>16, <2>3 DEF ReceiveInv, Message, lists
  <2>5. fShouldBan' \subseteq nodes
    BY <1>0, <1>16 DEF ReceiveInv, Misbehaving, TypeOK
  <2>6. /\ pc = "receive" /\ pc' = "send" /\ vRecvMsg' \subseteq vRecvMsg
        /\ UNCHANGED <<nodes, used, vNodes, fDisconnect, quiet, pto, copy, todo>>
    BY <1>16 DEF ReceiveInv, Message, TakeMessage, lists
  <2>7. TypeOK'
    <3>1. dl' \in QueueType BY Zenon, <1>2, <2>4
    <3> QED BY <1>0, <1>3, <2>5, <2>6, <3>1 DEF TypeOK
  <2> QED BY Zenon, <2>4, <2>7 DEF IndInv
<1>17. CASE Tick
  <2>1. Good(dl', nodes') BY <1>0, <1>17, AgedKeeps DEF Tick, lists
  <2>2. quiet' \in [Peers -> 0..(Inactivity + 1)]
    BY <1>0, <1>17, DownloadAssumption DEF Tick, TypeOK
  <2> QED BY <1>0, <1>2, <1>17, <2>1, <2>2 DEF Tick, lists, thread, TypeOK, IndInv
<1>18. ASSUME NEW p \in Peers, InitializeNode(p) PROVE IndInv'
  <2>1. Good(dl', nodes')
    BY <1>0, <1>18 DEF InitializeNode, Good, Owned
  <2> QED BY <1>0, <1>2, <1>18, <2>1 DEF InitializeNode, thread, TypeOK, IndInv
<1>19. ASSUME NEW p \in Peers, CloseSocketDisconnect(p) PROVE IndInv'
  BY <1>0, <1>1, <1>2, <1>19 DEF CloseSocketDisconnect, lists, thread, TypeOK, IndInv
<1>20. ASSUME NEW p \in Peers, InactivityTimeout(p) PROVE IndInv'
  BY <1>0, <1>1, <1>2, <1>20 DEF InactivityTimeout, lists, thread, TypeOK, IndInv
<1>21. ASSUME NEW p \in Peers, RemoveNode(p) PROVE IndInv'
  BY <1>0, <1>1, <1>2, <1>21 DEF RemoveNode, thread, TypeOK, IndInv
<1>22. ASSUME NEW p \in Peers, FinalizeNode(p) PROVE IndInv'
  <2>1. Good(dl', nodes') BY <1>0, <1>22, ForgetKeeps DEF FinalizeNode
  <2>2. quiet' \in [Peers -> 0..(Inactivity + 1)]
    BY <1>0, <1>22, DownloadAssumption DEF FinalizeNode, TypeOK
  <2> QED BY <1>0, <1>2, <1>22, <2>1, <2>2 DEF FinalizeNode, thread, TypeOK, IndInv
<1>23. CASE SkipMessage
  BY <1>0, <1>1, <1>2, <1>23 DEF SkipMessage, TakeMessage, lists, thread, TypeOK, IndInv
<1>24. CASE BadMessageStart
  BY <1>0, <1>1, <1>2, <1>3, <1>24 DEF BadMessageStart, lists, TypeOK, IndInv
<1>25. ASSUME NEW p \in Peers, ReceiveMsgBytes(p) PROVE IndInv'
  <2>1. quiet' \in [Peers -> 0..(Inactivity + 1)]
    BY <1>0, <1>25, DownloadAssumption DEF ReceiveMsgBytes, TypeOK
  <2> QED BY <1>0, <1>1, <1>2, <1>25, <2>1
          DEF ReceiveMsgBytes, lists, thread, TypeOK, IndInv
<1>26. CASE UNCHANGED vars
  BY <1>0, <1>1, <1>2, <1>26 DEF vars, lists, thread, TypeOK, IndInv
<1> QED BY <1>5, <1>6, <1>7, <1>8, <1>9, <1>10, <1>11, <1>12, <1>13, <1>14, <1>15, <1>16,
           <1>17, <1>18, <1>19, <1>20, <1>21, <1>22, <1>23, <1>24, <1>25, <1>26
        DEF Next, MessageThread, ProcessMessage

(* The invariant holds in every reachable state.                            *)
THEOREM InvariantHolds == Spec => []IndInv
<1>1. Init => IndInv BY InitHolds
<1>2. IndInv /\ [Next]_vars => IndInv' BY StepHolds
<1> QED BY <1>1, <1>2, PTL DEF Spec

(* All fields stay in their ranges.                                         *)
THEOREM TypeCorrect == Spec => []TypeOK
<1>1. IndInv => TypeOK BY DEF IndInv
<1> QED BY <1>1, InvariantHolds, PTL

(* MarkBlockAsReceived, MarkBlockAsInFlight, AddBlockToQueue and            *)
(* FinalizeNode keep the maps, the lists and the counters in agreement, in  *)
(* whatever order the two threads run them.                                 *)
THEOREM QueuesStayExact == Spec => []QueuesExact
<1>1. IndInv => QueuesExact BY DEF IndInv, Good, QueuesExact
<1> QED BY <1>1, InvariantHolds, PTL

(* The stall test of SendMessages looks at the front of vBlocksInFlight, and *)
(* finds a peer stalling exactly if one of its requests is overdue:          *)
(* MarkBlockAsInFlight appends, and MarkBlockAsReceived keeps the order of   *)
(* what it leaves.                                                           *)
THEOREM OverdueStaysNoticed == Spec => []OverdueNoticed
<1>1. IndInv => OverdueNoticed
  <2> SUFFICES ASSUME IndInv, NEW p \in Peers
               PROVE  Stalling(p) <=> /\ dl.nLastBlockReceive[p].late
                                      /\ \E e \in Requests(p) : e.nTime.late
    BY DEF OverdueNoticed
  <2> DEFINE s == dl.vBlocksInFlight[p]
  <2>1. dl \in QueueType /\ InFlightExact(dl) /\ Ordered(dl) BY DEF IndInv, Good
  <2>2. s \in Seq(Entries) /\ Len(s) \in Nat BY <2>1 DEF QueueType
  <2>3. dl.nBlocksInFlight[p] = Len(s) BY <2>1 DEF InFlightExact
  <2>4. ASSUME Len(s) # 0 PROVE 1 \in 1..Len(s) /\ Head(s) = s[1]
    BY <2>2, <2>4
  <2>5. ASSUME NEW e \in Requests(p), dl.nLastBlockReceive[p].late, e.nTime.late
        PROVE  Stalling(p)
    <3>1. PICK i \in 1..Len(s) : e = s[i] BY DEF Requests
    <3>2. Len(s) # 0 /\ 1 <= i BY <2>2, <3>1
    <3>3. s[1].nTime.late BY Zenon, <2>1, <2>4, <2>5, <3>1, <3>2 DEF Ordered
    <3> QED BY <2>3, <2>4, <2>5, <3>2, <3>3 DEF Stalling
  <2>6. ASSUME Stalling(p)
        PROVE  dl.nLastBlockReceive[p].late /\ \E e \in Requests(p) : e.nTime.late
    <3>1. Len(s) # 0 BY <2>3, <2>6 DEF Stalling
    <3>2. s[1] \in Requests(p) BY <2>4, <3>1 DEF Requests
    <3> QED BY <2>4, <2>6, <3>1, <3>2 DEF Stalling
  <2> QED BY <2>5, <2>6
<1> QED BY <1>1, InvariantHolds, PTL
=============================================================================
