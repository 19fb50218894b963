------------------------- MODULE ConnectBlockProofs -------------------------
(***************************************************************************)
(* The safety of two components that ConnectBlock relies on: ChainLimits,  *)
(* for every period, every minimum and every range of unsigned ints, and   *)
(* for chains of any height; and CheckQueue, for every number of workers,  *)
(* every set of checks and every batch size.                               *)
(*                                                                         *)
(* ChainLimits.  SetTip, nChainSize and Sum are recursive functions on an  *)
(* interval.  Primitive gives their defining equations, and Interval is    *)
(* induction over an interval, stated of a set so that the provers can use *)
(* it.                                                                     *)
(*                                                                         *)
(* CheckQueue.  nTodo counts the checks that are queued or in a batch, a   *)
(* failing check is either still to be run or remembered by fAllOk or by   *)
(* the thread that ran it, and the counters nTotal and nIdle differ by the *)
(* number of busy threads.                                                 *)
(***************************************************************************)
EXTENDS ChainLimits, CheckQueue, FiniteSetTheorems, WellFoundedInduction, TLAPS

-----------------------------------------------------------------------------
(* Numbers *)

(* A set of numbers that is not empty has a least one.                       *)
LEMMA LeastNat ==
  \A S \in SUBSET Nat : S # {} => \E m \in S : \A k \in S : m <= k
<1> SUFFICES ASSUME NEW S \in SUBSET Nat, S # {}
             PROVE  \E m \in S : \A k \in S : m <= k
  OBVIOUS
<1>1. PICK m \in S : \A k \in S : ~ (<<k, m>> \in OpToRel(<, Nat))
  BY Zenon, NatLessThanWellFounded, WFMin
<1>2. \A k \in S : ~ (k < m)
  BY Zenon, <1>1 DEF OpToRel
<1> QED BY <1>2

(* A set with 0 that is closed under successor up to n has all of 0 .. n.    *)
LEMMA Interval ==
  ASSUME NEW n \in Nat, NEW S, 0 \in S, \A i \in 0 .. n - 1 : i \in S => i + 1 \in S
  PROVE  \A i \in 0 .. n : i \in S
<1> DEFINE Bad == {i \in 0 .. n : i \notin S}
<1> SUFFICES ASSUME Bad # {} PROVE FALSE
  OBVIOUS
<1>1. Bad \in SUBSET Nat
  OBVIOUS
<1>2. PICK m \in Bad : \A k \in Bad : m <= k
  <2> HIDE DEF Bad
  <2> QED BY <1>1, LeastNat
<1>3. m # 0 /\ m - 1 \in 0 .. n - 1 /\ m - 1 \notin Bad
  BY <1>2
<1> QED BY <1>2, <1>3

(* The step i of a recursion over 1 .. n makes a value from the one before.  *)
Steps(step, n, T) == step \in [1 .. n -> [T -> T]]

Iterates(g, n, T, base, step) ==
  g \in [0 .. n -> T] /\ g[0] = base /\ \A i \in 1 .. n : g[i] = step[i][g[i - 1]]

(* A function on an interval may be given by its first value and its steps.  *)
LEMMA Primitive ==
  ASSUME NEW n \in Nat, NEW T, NEW base \in T, NEW step, Steps(step, n, T)
  PROVE  \E g : Iterates(g, n, T, base, step)
<1> DEFINE S == {k \in 0 .. n : \E g : Iterates(g, k, T, base, step)}
<1>1. 0 \in S
  <2> DEFINE g == [i \in 0 .. 0 |-> base]
  <2>1. Iterates(g, 0, T, base, step)
    BY DEF Iterates
  <2> HIDE DEF g
  <2> QED BY <2>1
<1>2. ASSUME NEW k \in 0 .. n - 1, k \in S PROVE k + 1 \in S
  <2>1. PICK g : Iterates(g, k, T, base, step)
    BY <1>2
  <2>2. g \in [0 .. k -> T] /\ g[0] = base /\ \A i \in 1 .. k : g[i] = step[i][g[i - 1]]
    BY <2>1 DEF Iterates
  <2> DEFINE h == [i \in 0 .. k + 1 |-> IF i = k + 1 THEN step[i][g[k]] ELSE g[i]]
  <2>3. h \in [0 .. k + 1 -> T]
    <3>1. k + 1 \in 1 .. n /\ g[k] \in T
      BY <2>2
    <3> QED BY <2>2, <3>1 DEF Steps
  <2>4. h[0] = base
    BY <2>2
  <2>5. ASSUME NEW i \in 1 .. k + 1 PROVE h[i] = step[i][h[i - 1]]
    <3>1. h[i - 1] = g[i - 1]
      OBVIOUS
    <3>2. CASE i = k + 1
      BY <3>1, <3>2
    <3>3. CASE i # k + 1
      BY <2>2, <3>1, <3>3
    <3> QED BY <3>2, <3>3
  <2> HIDE DEF h
  <2>6. Iterates(h, k + 1, T, base, step)
    BY Zenon, <2>3, <2>4, <2>5 DEF Iterates
  <2> QED BY <2>6
<1> HIDE DEF S
<1>3. n \in S
  <2>1. n \in 0 .. n
    OBVIOUS
  <2> QED BY Zenon, <1>1, <1>2, <2>1, Interval
<1> QED BY Zenon, <1>3 DEF S

(* Division by the period.                                                   *)
LEMMA Division ==
  ASSUME NEW a \in Nat
  PROVE  /\ a \div Period \in Nat /\ (a \div Period) * Period <= a
         /\ a % Period = 0 => a = (a \div Period) * Period
<1> DEFINE q == a \div Period
           b == q * Period
           r == a - b
<1>0. Period \in Nat /\ Period > 0
  BY LimitsAssumption
<1>1. q \in Nat
  BY <1>0
<1>2. b \in Nat /\ b <= a /\ a < b + Period
  BY <1>0
<1>3. (b + r) % Period = r
  <2>1. r \in 0 .. Period - 1
    BY <1>0, <1>2
  <2> HIDE DEF q, r
  <2> QED BY <1>0, <1>1, <2>1
<1> HIDE DEF b
<1>4. b + r = a
  BY <1>2
<1>5. a % Period = 0 => a = b
  BY <1>2, <1>3, <1>4
<1> QED BY Zenon, <1>1, <1>2, <1>5 DEF b

(* Heights at which a period starts, and the last of the one before.         *)
LEMMA Multiples ==
  ASSUME NEW j \in Nat
  PROVE  /\ j * Period \in Nat /\ (j * Period) % Period = 0
         /\ j # 0 => /\ j * Period - 1 \in Nat /\ (j - 1) * Period = j * Period - Period
                     /\ (j * Period - 1) % Period = Period - 1
         /\ \A k \in Nat : k < j => k * Period + Period <= j * Period
BY LimitsAssumption

(* The heights at which periods start, up to the length of a chain.          *)
LEMMA StartsAre ==
  ASSUME NEW L \in Nat
  PROVE  {k \in 0 .. L : k % Period = 0} = {j * Period : j \in 0 .. L \div Period}
<1>1. ASSUME NEW k \in 0 .. L, k % Period = 0
      PROVE  k \div Period \in 0 .. L \div Period /\ k = (k \div Period) * Period
  <2>0. k \in Nat
    OBVIOUS
  <2>1. k \div Period \in Nat /\ k = (k \div Period) * Period
    BY Zenon, <1>1, <2>0, Division
  <2>2. k \div Period <= L \div Period /\ L \div Period \in Nat
    BY LimitsAssumption
  <2> QED BY <2>1, <2>2
<1>2. ASSUME NEW j \in 0 .. L \div Period PROVE j * Period \in 0 .. L
  BY LimitsAssumption, Division
<1> QED BY <1>1, <1>2, Multiples, Division

-----------------------------------------------------------------------------
(* Sums *)

(* nChainSize satisfies its defining equation.                               *)
LEMMA ChainSizes ==
  ASSUME NEW c \in Seq(Nat)
  PROVE  /\ nChainSize(c)[-1] = 0
         /\ \A h \in 0 .. Height(c) : nChainSize(c)[h] = nChainSize(c)[h - 1] + c[h + 1]
         /\ \A h \in -1 .. Height(c) : nChainSize(c)[h] \in Nat
<1> DEFINE L == Len(c)
           Step == [i \in 1 .. L |-> [x \in Nat |-> x + c[i]]]
           Is(f) == f = [h \in -1 .. Height(c) |-> IF h = -1 THEN 0 ELSE f[h - 1] + c[h + 1]]
           z == nChainSize(c)
<1>0. L \in Nat /\ Height(c) = L - 1 /\ \A i \in 1 .. L : c[i] \in Nat
  BY DEF Height
<1>1. 0 \in Nat /\ Steps(Step, L, Nat)
  BY <1>0 DEF Steps
<1>2. PICK g : Iterates(g, L, Nat, 0, Step)
  <2> HIDE DEF Step, L
  <2> QED BY Zenon, <1>0, <1>1, Primitive
<1>3. /\ g \in [0 .. L -> Nat] /\ g[0] = 0
      /\ \A i \in 1 .. L : g[i - 1] \in Nat /\ g[i] = g[i - 1] + c[i]
  <2>1. /\ g \in [0 .. L -> Nat] /\ g[0] = 0
        /\ \A i \in 1 .. L : g[i] = Step[i][g[i - 1]]
    BY Zenon, <1>2 DEF Iterates
  <2> HIDE DEF L
  <2>2. ASSUME NEW i \in 1 .. L PROVE g[i - 1] \in Nat /\ g[i] = g[i - 1] + c[i]
    <3>1. i - 1 \in 0 .. L
      BY <1>0
    <3>2. g[i - 1] \in Nat
      BY <2>1, <3>1
    <3>3. Step[i][g[i - 1]] = g[i - 1] + c[i]
      BY <3>2
    <3> QED BY Zenon, <2>1, <3>2, <3>3
  <2> QED BY Zenon, <2>1, <2>2
<1> DEFINE f == [h \in -1 .. Height(c) |-> g[h + 1]]
<1>4. Is(f)
  <2>1. ASSUME NEW h \in -1 .. Height(c)
        PROVE  f[h] = IF h = -1 THEN 0 ELSE f[h - 1] + c[h + 1]
    BY <1>0, <1>3
  <2> QED BY <2>1
<1>5. Is(z)
  <2> HIDE DEF f
  <2>1. z = CHOOSE e : Is(e)
    BY DEF nChainSize
  <2> HIDE DEF z, Is
  <2> QED BY Zenon, <1>4, <2>1
<1> HIDE DEF z
<1>6. z[-1] = 0 /\ \A h \in 0 .. Height(c) : z[h] = z[h - 1] + c[h + 1]
  <2>1. \A h \in -1 .. Height(c) : z[h] = IF h = -1 THEN 0 ELSE z[h - 1] + c[h + 1]
    BY Zenon, <1>5
  <2>2. -1 \in -1 .. Height(c) /\ \A h \in 0 .. Height(c) : h \in -1 .. Height(c) /\ h # -1
    BY <1>0
  <2> QED BY Zenon, <2>1, <2>2
<1>7. \A i \in 0 .. L : z[i - 1] \in Nat
  <2> DEFINE S == {i \in 0 .. L : z[i - 1] \in Nat}
  <2>1. 0 \in S
    BY <1>0, <1>6
  <2>2. ASSUME NEW i \in 0 .. L - 1, i \in S PROVE i + 1 \in S
    <3> HIDE DEF L
    <3>1. i \in 0 .. Height(c) /\ i + 1 \in 0 .. L /\ (i + 1) - 1 = i /\ c[i + 1] \in Nat
      BY <1>0
    <3>2. z[i] = z[i - 1] + c[i + 1] /\ z[i - 1] \in Nat
      BY Zenon, <1>6, <2>2, <3>1
    <3>3. z[i] \in Nat
      BY <3>1, <3>2
    <3> QED BY Zenon, <3>1, <3>3
  <2> HIDE DEF S
  <2>3. \A i \in 0 .. L : i \in S
    BY Zenon, <1>0, <2>1, <2>2, Interval
  <2> QED BY <2>3 DEF S
<1>8. \A h \in -1 .. Height(c) : z[h] \in Nat
  BY <1>0, <1>7
<1> QED BY <1>6, <1>8 DEF z

(* The sums of the first n elements of a sequence.                           *)
Totals(g, s) ==
  /\ g[0] = 0 /\ \A n \in 1 .. Len(s) : g[n] = g[n - 1] + s[n]
  /\ \A n \in 0 .. Len(s) : g[n] \in Nat

(* Sum is what adding the elements one by one yields.                        *)
LEMMA SumIs ==
  ASSUME NEW s \in Seq(Nat)
  PROVE  \E g : Sum(s) = g[Len(s)] /\ Totals(g, s)
<1> DEFINE L == Len(s)
           Step == [i \in 1 .. L |-> [x \in Nat |-> x + s[i]]]
           Is(f) == f = [n \in 0 .. L |-> IF n = 0 THEN 0 ELSE f[n - 1] + s[n]]
           z == CHOOSE f : Is(f)
<1>0. L \in Nat /\ \A i \in 1 .. L : s[i] \in Nat
  OBVIOUS
<1>1. 0 \in Nat /\ Steps(Step, L, Nat)
  BY <1>0 DEF Steps
<1>2. PICK g : Iterates(g, L, Nat, 0, Step)
  <2> HIDE DEF Step, L
  <2> QED BY Zenon, <1>0, <1>1, Primitive
<1>3. Is(g)
  <2>1. /\ g \in [0 .. L -> Nat] /\ g[0] = 0
        /\ \A n \in 1 .. L : g[n] = Step[n][g[n - 1]]
    BY Zenon, <1>2 DEF Iterates
  <2> HIDE DEF L
  <2>2. ASSUME NEW n \in 1 .. L PROVE g[n] = g[n - 1] + s[n]
    <3>1. n - 1 \in 0 .. L
      BY <1>0
    <3>2. g[n - 1] \in Nat
      BY <2>1, <3>1
    <3>3. Step[n][g[n - 1]] = g[n - 1] + s[n]
      BY <3>2
    <3> QED BY Zenon, <2>1, <3>3
  <2> QED BY <1>0, <2>1, <2>2
<1>4. Is(z)
  <2> HIDE DEF Is
  <2> QED BY Zenon, <1>3
<1>5. Sum(s) = z[L]
  BY DEF Sum
<1> HIDE DEF z
<1>6. z[0] = 0 /\ \A n \in 1 .. L : z[n] = z[n - 1] + s[n]
  BY <1>0, <1>4
<1>7. \A i \in 0 .. L : z[i] \in Nat
  <2> DEFINE S == {i \in 0 .. L : z[i] \in Nat}
  <2>1. 0 \in S
    BY <1>0, <1>6
  <2>2. ASSUME NEW i \in 0 .. L - 1, i \in S PROVE i + 1 \in S
    <3> HIDE DEF L
    <3>1. i + 1 \in 0 .. L /\ i + 1 \in 1 .. L /\ (i + 1) - 1 = i /\ s[i + 1] \in Nat
      BY <1>0
    <3>2. z[i + 1] = z[(i + 1) - 1] + s[i + 1] /\ z[i] \in Nat
      BY Zenon, <1>6, <2>2, <3>1
    <3>3. z[i + 1] \in Nat
      BY <3>1, <3>2
    <3> QED BY Zenon, <3>1, <3>3
  <2> HIDE DEF S
  <2>3. \A i \in 0 .. L : i \in S
    BY Zenon, <1>0, <2>1, <2>2, Interval
  <2> QED BY <2>3 DEF S
<1>8. Totals(z, s)
  BY Zenon, <1>6, <1>7 DEF Totals
<1> QED BY Zenon, <1>5, <1>8

(* The difference of two nChainSize is the sum of the sizes between.         *)
LEMMA DifferenceIsSum ==
  ASSUME NEW c \in Seq(Nat), NEW h \in 0 .. Height(c), NEW k \in 0 .. h
  PROVE  Sum(SubSeq(c, k + 1, h + 1)) = nChainSize(c)[h] - nChainSize(c)[k] + c[k + 1]
<1> DEFINE s == SubSeq(c, k + 1, h + 1)
           z == nChainSize(c)
<1>0. Height(c) = Len(c) - 1 /\ Len(c) \in Nat /\ \A i \in 1 .. Len(c) : c[i] \in Nat
  BY DEF Height
<1>1. s \in Seq(Nat) /\ Len(s) = h - k + 1 /\ \A n \in 1 .. Len(s) : s[n] = c[k + n]
  BY <1>0
<1>2. PICK g : Sum(s) = g[Len(s)] /\ Totals(g, s)
  <2> HIDE DEF s
  <2> QED BY Zenon, <1>1, SumIs
<1>3. /\ \A i \in 0 .. Height(c) : z[i] = z[i - 1] + c[i + 1]
      /\ \A i \in -1 .. Height(c) : z[i] \in Nat
  BY Zenon, ChainSizes
<1> HIDE DEF s, z
<1> DEFINE a == k - 1
           S == {n \in 0 .. Len(s) : g[n] = z[a + n] - z[a]}
<1>4. /\ a \in -1 .. Height(c) /\ a + 1 = k /\ a + 0 = a /\ z[a] \in Nat
      /\ k \in 0 .. Height(c) /\ h \in -1 .. Height(c)
      /\ Len(s) \in Nat /\ a + Len(s) = h
  BY <1>0, <1>1, <1>3
<1> HIDE DEF a
<1>5. 0 \in S
  BY <1>2, <1>4 DEF Totals
<1>6. ASSUME NEW n \in 0 .. Len(s) - 1, n \in S PROVE n + 1 \in S
  <2>1. /\ n + 1 \in 1 .. Len(s) /\ n + 1 \in 0 .. Len(s) /\ (n + 1) - 1 = n
        /\ a + (n + 1) \in 0 .. Height(c) /\ (a + (n + 1)) - 1 = a + n
        /\ a + n \in -1 .. Height(c) /\ k + (n + 1) = a + (n + 1) + 1
        /\ k + (n + 1) \in 1 .. Len(c)
    BY SMTT(30), <1>0, <1>4
  <2>2. g[n + 1] = g[n] + c[k + (n + 1)]
    BY Zenon, <1>1, <1>2, <2>1 DEF Totals
  <2>3. z[a + (n + 1)] = z[a + n] + c[k + (n + 1)]
    BY Zenon, <1>3, <2>1
  <2>4. c[k + (n + 1)] \in Nat
    BY Zenon, <1>0, <2>1
  <2>5. g[n] = z[a + n] - z[a] /\ z[a + n] \in Nat
    BY Zenon, <1>3, <1>6, <2>1
  <2>6. g[n + 1] = z[a + (n + 1)] - z[a]
    <3>1. ASSUME NEW x \in Nat, NEW y \in Nat, NEW w \in Nat PROVE (x - y) + w = (x + w) - y
      OBVIOUS
    <3>2. (z[a + n] - z[a]) + c[k + (n + 1)] = (z[a + n] + c[k + (n + 1)]) - z[a]
      BY Zenon, <1>4, <2>4, <2>5, <3>1
    <3> QED BY Zenon, <2>2, <2>3, <2>5, <3>2
  <2> QED BY Zenon, <2>1, <2>6
<1>7. Len(s) \in S
  <2>1. Len(s) \in 0 .. Len(s)
    BY <1>4
  <2> HIDE DEF S
  <2> QED BY Zenon, <1>4, <1>5, <1>6, <2>1, Interval
<1>8. Sum(s) = z[h] - z[a] /\ z[h] \in Nat
  BY Zenon, <1>2, <1>3, <1>4, <1>7
<1>9. k - 1 = a /\ z[k] = z[k - 1] + c[k + 1] /\ c[k + 1] \in Nat
  BY <1>0, <1>3, <1>4
<1>10. Sum(s) = z[h] - z[k] + c[k + 1]
  BY SMTT(30), <1>4, <1>8, <1>9
<1> QED BY Zenon, <1>10 DEF s, z

-----------------------------------------------------------------------------
(* Chains with the same beginning *)

Begins(c, d) ==
  /\ c \in Seq(Nat) /\ d \in Seq(Nat) /\ Len(c) <= Len(d)
  /\ \A k \in 1 .. Len(c) : c[k] = d[k]

(* They have the same nChainSize as far as they agree.                       *)
LEMMA SameChainSize ==
  ASSUME NEW c, NEW d, Begins(c, d), NEW h \in -1 .. Height(c)
  PROVE  nChainSize(c)[h] = nChainSize(d)[h]
<1> DEFINE y == nChainSize(c)
           z == nChainSize(d)
           S == {n \in 0 .. Len(c) : y[n - 1] = z[n - 1]}
<1>0. /\ Height(c) = Len(c) - 1 /\ Len(c) \in Nat /\ Height(d) = Len(d) - 1 /\ Len(d) \in Nat
      /\ Len(c) <= Len(d) /\ \A k \in 1 .. Len(c) : c[k] = d[k]
  BY DEF Height, Begins
<1>1. y[-1] = 0 /\ \A i \in 0 .. Height(c) : y[i] = y[i - 1] + c[i + 1]
  BY Zenon, ChainSizes DEF Begins
<1>2. z[-1] = 0 /\ \A i \in 0 .. Height(d) : z[i] = z[i - 1] + d[i + 1]
  BY Zenon, ChainSizes DEF Begins
<1> HIDE DEF y, z
<1>3. 0 \in S
  BY <1>0, <1>1, <1>2
<1>4. ASSUME NEW n \in 0 .. Len(c) - 1, n \in S PROVE n + 1 \in S
  <2>1. /\ n \in 0 .. Height(c) /\ n \in 0 .. Height(d) /\ n + 1 \in 1 .. Len(c)
        /\ n + 1 \in 0 .. Len(c) /\ (n + 1) - 1 = n
    BY <1>0
  <2> QED BY Zenon, <1>0, <1>1, <1>2, <1>4, <2>1
<1> HIDE DEF S
<1>5. \A n \in 0 .. Len(c) : n \in S
  BY Zenon, <1>0, <1>3, <1>4, Interval
<1>6. h + 1 \in 0 .. Len(c) /\ (h + 1) - 1 = h
  BY <1>0
<1> QED BY Zenon, <1>5, <1>6 DEF S, y, z

(* The last height of the period number j, from 1.                           *)
PeriodEnd(j) == j * Period - 1

(* Where it begins and ends, within a chain of length L.                     *)
LEMMA PeriodBounds ==
  ASSUME NEW L \in Nat, NEW j \in 1 .. L \div Period
  PROVE  /\ PeriodEnd(j) \in 0 .. L - 1 /\ PeriodEnd(j) - (PeriodEnd(j) % Period) = (j - 1) * Period
         /\ (j - 1) * Period \in 0 .. PeriodEnd(j) /\ PeriodEnd(j) - (j - 1) * Period = Period - 1
         /\ PeriodEnd(j) + 1 = j * Period /\ j * Period - Period = (j - 1) * Period
<1>0. Period \in Nat /\ Period > 0
  BY LimitsAssumption
<1>1. j \in Nat /\ j # 0 /\ j * Period \in Nat /\ j * Period <= L
  BY <1>0, Division
<1>2. /\ (j - 1) * Period = j * Period - Period
      /\ (j * Period - 1) % Period = Period - 1 /\ j * Period - 1 \in Nat
  BY Zenon, <1>1, Multiples
<1>3. (j - 1) * Period \in Nat
  BY <1>0, <1>1
<1> DEFINE a == j * Period
           b == (j - 1) * Period
<1> HIDE DEF a, b
<1>4. a \in Nat /\ a <= L /\ b = a - Period /\ (a - 1) % Period = Period - 1 /\ b \in Nat
  BY Zenon, <1>1, <1>2, <1>3 DEF a, b
<1>5. /\ a - 1 \in 0 .. L - 1 /\ (a - 1) - (Period - 1) = b
      /\ b \in 0 .. a - 1 /\ (a - 1) - b = Period - 1 /\ (a - 1) + 1 = a /\ a - Period = b
  BY <1>0, <1>4
<1> QED BY Zenon, <1>4, <1>5 DEF PeriodEnd, a, b

(* The limit after a period depends on the blocks up to its end only.        *)
LEMMA SameLimit ==
  ASSUME NEW c, NEW d, Begins(c, d), NEW j \in 1 .. Len(c) \div Period, NEW l
  PROVE  NewLimit(c, PeriodEnd(j), l) = NewLimit(d, PeriodEnd(j), l)
<1> DEFINE h == PeriodEnd(j)
           f == (j - 1) * Period
<1>0. /\ c \in Seq(Nat) /\ d \in Seq(Nat) /\ Len(c) <= Len(d)
      /\ \A k \in 1 .. Len(c) : c[k] = d[k] /\ Height(c) = Len(c) - 1 /\ Len(c) \in Nat
  <2>1. /\ c \in Seq(Nat) /\ d \in Seq(Nat) /\ Len(c) <= Len(d)
        /\ \A k \in 1 .. Len(c) : c[k] = d[k]
    BY Zenon DEF Begins
  <2>2. Height(c) = Len(c) - 1
    BY Zenon DEF Height
  <2>3. Len(c) \in Nat
    BY <2>1
  <2> QED BY Zenon, <2>1, <2>2, <2>3
<1>1. h \in 0 .. Len(c) - 1 /\ h - (h % Period) = f /\ f \in 0 .. h
  BY <1>0, PeriodBounds
<1> HIDE DEF h, f
<1>2. PeriodSizes(c, h) = PeriodSizes(d, h)
  <2>1. SubSeq(c, f + 1, h + 1) = SubSeq(d, f + 1, h + 1)
    BY SMTT(30), <1>0, <1>1
  <2> QED BY Zenon, <1>1, <2>1 DEF PeriodSizes
<1>3. AverageSize(c, h) = AverageSize(d, h)
  <2>1. h \in -1 .. Height(c) /\ f \in -1 .. Height(c) /\ f + 1 \in 1 .. Len(c)
    BY <1>0, <1>1
  <2>2. /\ nChainSize(c)[h] = nChainSize(d)[h] /\ nChainSize(c)[f] = nChainSize(d)[f]
        /\ c[f + 1] = d[f + 1]
    BY Zenon, <1>0, <2>1, SameChainSize
  <2> QED BY Zenon, <1>1, <2>2 DEF AverageSize
<1>4. MayGrow(c, h, l) <=> MayGrow(d, h, l)
  BY Zenon, <1>2, <1>3 DEF MayGrow, MedianSize
<1> QED BY Zenon, <1>4 DEF NewLimit, h

-----------------------------------------------------------------------------
(* One new limit *)

(* What a limit is: at least the minimum, and small enough to be doubled.    *)
Limits == {l \in Nat : MIN_MAX_BLOCK_SIZE <= l /\ 2 * l < UINT_RANGE}

(* The largest of three numbers.                                             *)
LEMMA MaxOfThree ==
  ASSUME NEW x \in Nat, NEW y \in Nat, NEW z \in Nat
  PROVE  LET m == Max({x, y, z}) IN m \in {x, y, z} /\ m >= x /\ m >= y /\ m >= z
<1>1. \E m \in {x, y, z} : \A k \in {x, y, z} : m >= k
  OBVIOUS
<1> QED BY Zenon, <1>1 DEF Max

(* Unsigned arithmetic never yields more.                                    *)
LEMMA UnsignedBounds ==
  ASSUME NEW n \in Nat
  PROVE  /\ Unsigned(n) \in Nat /\ Unsigned(n) <= n /\ Unsigned(n) < UINT_RANGE
         /\ n < UINT_RANGE => Unsigned(n) = n
BY LimitsAssumption DEF Unsigned

(* The new limit is in range, not less than the old one, at most a tenth     *)
(* more, and more only if the blocks were large.                             *)
LEMMA LimitGrowth ==
  ASSUME NEW c, NEW h, NEW l \in Limits
  PROVE  /\ NewLimit(c, h, l) \in Limits /\ l <= NewLimit(c, h, l)
         /\ 10 * NewLimit(c, h, l) <= 11 * l
         /\ NewLimit(c, h, l) > l => MayGrow(c, h, l)
<1> DEFINE U == Unsigned(11 * l)
           x == IF MayGrow(c, h, l) THEN U \div 10 ELSE l
           m == NewLimit(c, h, l)
<1>0. /\ l \in Nat /\ MIN_MAX_BLOCK_SIZE <= l /\ 2 * l < UINT_RANGE
      /\ MIN_MAX_BLOCK_SIZE \in Nat /\ UINT_RANGE \in Nat
  BY LimitsAssumption DEF Limits
<1>1. U \in Nat /\ U <= 11 * l /\ U < UINT_RANGE
  <2>1. 11 * l \in Nat
    BY <1>0
  <2> QED BY Zenon, <2>1, UnsignedBounds
<1> HIDE DEF U
<1>2. x \in Nat /\ 10 * x <= 11 * l /\ 2 * x < UINT_RANGE
  BY <1>0, <1>1
<1>3. x # l => MayGrow(c, h, l)
  OBVIOUS
<1>4. m = Max({x, l, MIN_MAX_BLOCK_SIZE})
  BY Zenon DEF NewLimit, Grown, U
<1> HIDE DEF x, m
<1>5. m \in {x, l, MIN_MAX_BLOCK_SIZE} /\ m >= x /\ m >= l /\ m >= MIN_MAX_BLOCK_SIZE
  BY <1>0, <1>2, <1>4, MaxOfThree
<1>6. m \in Limits /\ l <= m /\ 10 * m <= 11 * l /\ (m > l => x # l)
  BY <1>0, <1>2, <1>5 DEF Limits
<1> QED BY Zenon, <1>3, <1>6 DEF m

-----------------------------------------------------------------------------
(* The median *)

(* The numbers of a sequence have an upper bound.                            *)
LEMMA UpperBound ==
  ASSUME NEW s \in Seq(Nat)
  PROVE  \E b \in Nat : \A k \in 1 .. Len(s) : s[k] <= b
<1> DEFINE S == {n \in 0 .. Len(s) : \E b \in Nat : \A k \in 1 .. n : s[k] <= b}
<1>0. Len(s) \in Nat /\ \A k \in 1 .. Len(s) : s[k] \in Nat
  OBVIOUS
<1>1. 0 \in S
  BY <1>0
<1>2. ASSUME NEW n \in 0 .. Len(s) - 1, n \in S PROVE n + 1 \in S
  <2>1. PICK b \in Nat : \A k \in 1 .. n : s[k] <= b
    BY <1>2
  <2>2. s[n + 1] \in Nat /\ n + 1 \in 0 .. Len(s)
    BY <1>0
  <2>3. ASSUME NEW k \in 1 .. n + 1 PROVE s[k] <= b + s[n + 1]
    BY <1>0, <2>1, <2>2
  <2>4. b + s[n + 1] \in Nat
    BY <2>2
  <2> QED BY <2>2, <2>3, <2>4
<1> HIDE DEF S
<1>3. Len(s) \in S
  <2>1. Len(s) \in 0 .. Len(s)
    BY <1>0
  <2> QED BY Zenon, <1>0, <1>1, <1>2, <2>1, Interval
<1> QED BY Zenon, <1>3 DEF S

(* An array has an element at every index once it is sorted, and at most as  *)
(* many elements as the index says are less.                                 *)
LEMMA SortedElement ==
  ASSUME NEW s \in Seq(Nat), NEW i \in 0 .. Len(s) - 1
  PROVE  /\ SortedAt(s, i) \in Nat
         /\ Cardinality({k \in 1 .. Len(s) : s[k] < SortedAt(s, i)}) <= i
<1> DEFINE D == 1 .. Len(s)
           AtMost(v) == {k \in D : s[k] <= v}
           Less(v) == {k \in D : s[k] < v}
           V == {v \in Nat : Cardinality(AtMost(v)) > i}
<1>0. /\ Len(s) \in Nat /\ DOMAIN s = D /\ \A k \in D : s[k] \in Nat
      /\ i \in Nat /\ i < Len(s)
  OBVIOUS
<1>1. IsFiniteSet(D) /\ Cardinality(D) = Len(s)
  <2>1. IsFiniteSet(D) /\ Cardinality(D) = IF 1 > Len(s) THEN 0 ELSE Len(s) - 1 + 1
    BY <1>0, FS_Interval
  <2> QED BY <1>0, <2>1
<1>2. ASSUME NEW v PROVE Cardinality(AtMost(v)) \in Nat /\ Cardinality(Less(v)) \in Nat
  <2>1. AtMost(v) \in SUBSET D /\ Less(v) \in SUBSET D
    OBVIOUS
  <2> HIDE DEF AtMost, Less, D
  <2> QED BY Zenon, <1>1, <2>1, FS_Subset, FS_CardinalityType
<1>3. V # {}
  <2>1. PICK b \in Nat : \A k \in D : s[k] <= b
    BY Zenon, UpperBound
  <2>2. AtMost(b) = D
    BY <2>1
  <2> HIDE DEF AtMost, D
  <2> QED BY <1>0, <1>1, <2>2
<1>4. PICK x \in V : \A v \in V : x <= v
  <2>1. V \in SUBSET Nat
    OBVIOUS
  <2> HIDE DEF V
  <2> QED BY Zenon, <1>3, <2>1, LeastNat
<1>5. Cardinality(Less(x)) <= i
  <2>1. CASE x = 0
    <3>1. Less(x) = {}
      BY <1>0, <2>1
    <3> HIDE DEF Less
    <3> QED BY <1>0, <3>1, FS_EmptySet
  <2>2. CASE x # 0
    <3>1. x - 1 \in Nat /\ x - 1 \notin V
      BY <1>4, <2>2
    <3>2. Less(x) = AtMost(x - 1)
      BY <1>0, <1>4
    <3> HIDE DEF Less, AtMost
    <3>3. Cardinality(AtMost(x - 1)) \in Nat
      BY Zenon, <1>2
    <3> QED BY <1>0, <3>1, <3>2, <3>3
  <2> QED BY <2>1, <2>2
<1>6. x \in Range(s)
  <2>1. AtMost(x) # Less(x)
    <3> HIDE DEF AtMost, Less
    <3> QED BY <1>0, <1>2, <1>4, <1>5
  <2>2. PICK k \in D : s[k] = x
    BY <1>0, <1>4, <2>1
  <2> QED BY <1>0, <2>2 DEF Range
<1>7. /\ SortedAt(s, i) \in Range(s)
      /\ Cardinality({k \in DOMAIN s : s[k] < SortedAt(s, i)}) <= i
  <2>1. /\ Cardinality({k \in DOMAIN s : s[k] < x}) <= i
        /\ Cardinality({k \in DOMAIN s : s[k] <= x}) > i
    BY <1>0, <1>4, <1>5
  <2> QED BY Zenon, <1>6, <2>1 DEF SortedAt
<1>8. SortedAt(s, i) \in Nat
  BY <1>0, <1>7 DEF Range
<1> QED BY Zenon, <1>0, <1>7, <1>8

(* A period has blocks.                                                      *)
LEMMA PeriodPositive == Period \in Nat /\ Period > 0
BY LimitsAssumption

(* If the median of a period is more than half of a number, so are at least  *)
(* half of the period's blocks.                                              *)
LEMMA HalfAreLarge ==
  ASSUME NEW c \in Seq(Nat), NEW j \in 1 .. Len(c) \div Period, NEW l \in Nat,
         MedianSize(c, PeriodEnd(j)) * 2 > l
  PROVE  2 * Cardinality({k \in PeriodEnd(j) + 1 - Period .. PeriodEnd(j) : 2 * c[k + 1] > l})
           >= Period
<1> DEFINE h == PeriodEnd(j)
           f == (j - 1) * Period
           s == PeriodSizes(c, h)
           x == MedianSize(c, h)
           half == Period \div 2
           Less == {n \in 1 .. Len(s) : s[n] < x}
           Rest == (1 .. Len(s)) \ Less
           Large == {k \in h + 1 - Period .. h : 2 * c[k + 1] > l}
<1> HIDE DEF h, f, s, x, half, Less, Rest, Large
<1>0. /\ Len(c) \in Nat /\ \A k \in 1 .. Len(c) : c[k] \in Nat
      /\ Period \in Nat /\ Period > 0
  <2>1. Len(c) \in Nat /\ \A k \in 1 .. Len(c) : c[k] \in Nat
    OBVIOUS
  <2> QED BY Zenon, <2>1, PeriodPositive
<1> USE DEF h, f, s, x, half, Less, Rest, Large
<1>1. /\ h \in 0 .. Len(c) - 1 /\ h - (h % Period) = f /\ f \in 0 .. h
      /\ h - f = Period - 1
  BY Zenon, <1>0, PeriodBounds
<1> HIDE DEF h, f
<1>2. s \in Seq(Nat) /\ Len(s) = Period /\ \A n \in 1 .. Period : s[n] = c[f + n]
  <2>1. s = SubSeq(c, f + 1, h + 1)
    BY Zenon, <1>1 DEF PeriodSizes
  <2> QED BY <1>0, <1>1, <2>1
<1>3. half \in 0 .. Len(s) - 1 /\ 2 * half <= Period
  BY <1>0, <1>2
<1>4. x = SortedAt(s, half)
  BY Zenon DEF MedianSize
<1> HIDE DEF s, half, x
<1>5. x \in Nat /\ Cardinality(Less) <= half
  BY Zenon, <1>2, <1>3, <1>4, SortedElement
<1>6. Cardinality(Rest) = Period - Cardinality(Less) /\ IsFiniteSet(Rest)
      /\ Cardinality(Less) \in Nat
  <2>1. IsFiniteSet(1 .. Len(s)) /\ Cardinality(1 .. Len(s)) = Period
    <3>1. /\ IsFiniteSet(1 .. Period)
          /\ Cardinality(1 .. Period) = IF 1 > Period THEN 0 ELSE Period - 1 + 1
      <4>1. 1 \in Int /\ Period \in Int
        BY <1>0
      <4> QED BY Zenon, <4>1, FS_Interval
    <3> QED BY <1>0, <1>2, <3>1
  <2>2. Less \in SUBSET (1 .. Len(s)) /\ (1 .. Len(s)) \cap Less = Less
    OBVIOUS
  <2> HIDE DEF Less
  <2>3. Cardinality(Rest) = Period - Cardinality(Less) /\ IsFiniteSet(Rest)
    BY ZenonT(30), <2>1, <2>2, FS_Difference
  <2>4. Cardinality(Less) \in Nat
    BY Zenon, <2>1, <2>2, FS_Subset, FS_CardinalityType
  <2> QED BY <2>3, <2>4
<1>7. IsFiniteSet(Large) /\ Cardinality(Large) \in Nat
  <2>1. IsFiniteSet(h + 1 - Period .. h)
    BY <1>0, <1>1, FS_Interval
  <2>2. Large \in SUBSET (h + 1 - Period .. h)
    OBVIOUS
  <2> HIDE DEF Large
  <2> QED BY Zenon, <2>1, <2>2, FS_Subset, FS_CardinalityType
<1> DEFINE place == [n \in Rest |-> f + n - 1]
<1>8. place \in Injection(Rest, Large)
  <2>1. ASSUME NEW n \in Rest PROVE f + n - 1 \in Large
    <3>1. n \in 1 .. Period /\ ~ (s[n] < x)
      BY <1>2
    <3>2. s[n] = c[f + n] /\ c[f + n] \in Nat
      <4>1. s[n] = c[f + n]
        BY Zenon, <1>2, <3>1
      <4>2. f + n \in 1 .. Len(c)
        BY <1>0, <1>1, <3>1
      <4> QED BY Zenon, <1>0, <4>1, <4>2
    <3>3. 2 * c[f + n] > l
      BY <1>5, <3>1, <3>2 DEF x, h
    <3>4. f + n - 1 \in h + 1 - Period .. h /\ (f + n - 1) + 1 = f + n
      BY SMTT(30), <1>0, <1>1, <3>1
    <3> QED BY Zenon, <3>3, <3>4
  <2>2. ASSUME NEW n \in Rest, NEW m \in Rest, place[n] = place[m] PROVE n = m
    BY <1>0, <1>1, <2>2
  <2>3. place \in [Rest -> Large]
    BY <2>1
  <2> HIDE DEF place, Rest, Large
  <2>4. IsInjective(place)
    BY Zenon, <2>2, <2>3 DEF IsInjective
  <2> QED BY Zenon, <2>3, <2>4 DEF Injection
<1>9. Cardinality(Rest) <= Cardinality(Large)
  <2> HIDE DEF place, Rest, Large
  <2> QED BY Zenon, <1>7, <1>8, FS_Injection
<1> HIDE DEF Rest, Large, Less
<1>10. 2 * Cardinality(Large) >= Period
  BY <1>0, <1>3, <1>5, <1>6, <1>7, <1>9
<1> QED BY Zenon, <1>10 DEF Large, h

(* A limit grows only if at least half of the period's blocks are larger     *)
(* than half of it and they fill more than two thirds of it.                 *)
LEMMA GrowthShown ==
  ASSUME NEW c \in Seq(Nat), NEW j \in 1 .. Len(c) \div Period, NEW l \in Limits,
         MayGrow(c, PeriodEnd(j), l)
  PROVE  /\ 2 * Cardinality({k \in PeriodEnd(j) + 1 - Period .. PeriodEnd(j) : 2 * c[k + 1] > l})
              >= Period
         /\ 3 * Sum(PeriodSizes(c, PeriodEnd(j))) > 2 * l * Period
<1> DEFINE h == PeriodEnd(j)
           f == (j - 1) * Period
           x == MedianSize(c, h)
           T == Sum(PeriodSizes(c, h))
           q == T \div Period
<1>0. /\ Len(c) \in Nat /\ Height(c) = Len(c) - 1
      /\ l \in Nat /\ 2 * l \in Nat /\ 2 * l < UINT_RANGE
  BY DEF Height, Limits
<1>1. Period \in Nat /\ Period > 0
  BY LimitsAssumption
<1>2. /\ h \in 0 .. Height(c) /\ h - (h % Period) = f /\ f \in 0 .. h
      /\ h - f = Period - 1
  BY Zenon, <1>0, PeriodBounds
<1> HIDE DEF h, f
<1>3. PeriodSizes(c, h) = SubSeq(c, f + 1, h + 1)
  BY Zenon, <1>2 DEF PeriodSizes
<1>4. x \in Nat
  <2>1. SubSeq(c, f + 1, h + 1) \in Seq(Nat) /\ Len(SubSeq(c, f + 1, h + 1)) = Period
    BY <1>0, <1>1, <1>2
  <2>2. Period \div 2 \in 0 .. Period - 1
    BY <1>1
  <2> QED BY Zenon, <1>3, <2>1, <2>2, SortedElement DEF MedianSize
<1>5. Unsigned(3 * AverageSize(c, h)) > 2 * l /\ Unsigned(x * 2) > l
  BY Zenon, <1>0, UnsignedBounds DEF MayGrow, h
<1>6. 2 * Cardinality({k \in h + 1 - Period .. h : 2 * c[k + 1] > l}) >= Period
  <2>1. x * 2 \in Nat
    BY <1>4
  <2>2. Unsigned(x * 2) \in Nat /\ Unsigned(x * 2) <= x * 2
    BY Zenon, <2>1, UnsignedBounds
  <2> HIDE DEF x
  <2>3. x * 2 > l
    BY <1>0, <1>5, <2>1, <2>2
  <2> QED BY Zenon, <1>0, <2>3, HalfAreLarge DEF x, h
<1>7. T \in Nat /\ AverageSize(c, h) = Unsigned(q)
  <2>1. T = nChainSize(c)[h] - nChainSize(c)[f] + c[f + 1]
    BY Zenon, <1>2, <1>3, DifferenceIsSum
  <2>2. AverageSize(c, h) = Unsigned(q)
    BY Zenon, <1>2, <2>1 DEF AverageSize
  <2>3. SubSeq(c, f + 1, h + 1) \in Seq(Nat)
    BY <1>0, <1>2
  <2>4. PICK g : T = g[Len(PeriodSizes(c, h))] /\ Totals(g, PeriodSizes(c, h))
    BY Zenon, <1>3, <2>3, SumIs
  <2>5. Len(PeriodSizes(c, h)) \in 0 .. Len(PeriodSizes(c, h))
    BY <1>0, <1>2, <1>3
  <2>6. T \in Nat
    BY Zenon, <2>4, <2>5 DEF Totals
  <2> QED BY Zenon, <2>2, <2>6
<1>8. q \in Nat /\ q * Period <= T
  BY Zenon, <1>7, Division
<1> HIDE DEF q, T
<1>9. 3 * q > 2 * l
  <2> DEFINE A == Unsigned(q)
  <2>1. A \in Nat /\ A <= q
    BY Zenon, <1>8, UnsignedBounds
  <2> HIDE DEF A
  <2>2. 3 * A \in Nat
    BY <2>1
  <2>3. Unsigned(3 * A) \in Nat /\ Unsigned(3 * A) <= 3 * A /\ Unsigned(3 * A) > 2 * l
    BY Zenon, <1>5, <1>7, <2>2, UnsignedBounds DEF A
  <2> QED BY <1>0, <1>8, <2>1, <2>2, <2>3
<1>10. 3 * T > 2 * l * Period
  <2>1. (2 * l + 1) * Period <= (3 * q) * Period
    BY <1>0, <1>1, <1>8, <1>9
  <2>2. (3 * q) * Period = 3 * (q * Period) /\ (2 * l + 1) * Period = 2 * l * Period + Period
    BY <1>0, <1>1, <1>8
  <2> DEFINE a == q * Period
             b == 2 * l * Period
  <2>3. a \in Nat /\ b \in Nat
    BY <1>0, <1>1, <1>8
  <2> HIDE DEF a, b
  <2>4. b + Period <= 3 * a /\ a <= T
    BY Zenon, <1>8, <2>1, <2>2 DEF a, b
  <2>5. 3 * T > b
    BY <1>1, <1>7, <2>3, <2>4
  <2> QED BY Zenon, <2>5 DEF b
<1> QED BY Zenon, <1>6, <1>10 DEF h, T

-----------------------------------------------------------------------------
(* The limits of a chain *)

(* The heights at which the periods 0 .. n start.                            *)
Starts(n) == {j * Period : j \in 0 .. n}

(* The limits m are those of the periods 0 .. n, each the one that the       *)
(* blocks of c before its period yield.                                      *)
Right(m, c, n) ==
  /\ DOMAIN m = Starts(n) /\ m = [k \in Starts(n) |-> m[k]]
  /\ \A j \in 0 .. n : m[j * Period] \in Limits
  /\ m[0] = MIN_MAX_BLOCK_SIZE
  /\ \A j \in 1 .. n : m[j * Period] = NewLimit(c, PeriodEnd(j), m[(j - 1) * Period])

(* A period starts at one height, and no two at the same.                    *)
LEMMA StartsDiffer ==
  ASSUME NEW n \in Nat, NEW j \in Nat
  PROVE  j * Period \in Starts(n) <=> j \in 0 .. n
<1>1. ASSUME NEW k \in Nat, k * Period = j * Period PROVE k = j
  BY <1>1, LimitsAssumption
<1> QED BY <1>1 DEF Starts

(* The loop leaves an entry alone that is there.                             *)
LEMMA KnownLimit ==
  ASSUME NEW m, NEW c, NEW n \in Nat, Right(m, c, n), NEW k \in 0 .. n
  PROVE  WithLimit(m, c, k * Period) = m
<1>1. k * Period \in Starts(n)
  BY DEF Starts
<1> QED BY Zenon, <1>1 DEF WithLimit, Right

(* The loop adds the entry of the next period.                               *)
LEMMA NextLimit ==
  ASSUME NEW m, NEW c, NEW n \in Nat, Right(m, c, n)
  PROVE  Right(WithLimit(m, c, (n + 1) * Period), c, n + 1)
<1> DEFINE a == (n + 1) * Period
           b == n * Period
           new == NewLimit(c, a - 1, m[b])
           e == Extended(m, a, new)
<1>0. /\ n + 1 \in Nat /\ n + 1 # 0 /\ (n + 1) - 1 = n /\ n \in 0 .. n
      /\ n + 1 \notin 0 .. n /\ 0 .. n + 1 = (0 .. n) \cup {n + 1}
  OBVIOUS
<1>1. a - 1 \in Nat /\ b = a - Period /\ (a - 1) % Period = Period - 1 /\ a \in Nat /\ b \in Nat
  BY Zenon, <1>0, Multiples
<1>2. (a - 1) - ((a - 1) % Period) = b
  BY <1>1, LimitsAssumption
<1>3. a \notin Starts(n) /\ b \in Starts(n) /\ Starts(n + 1) = Starts(n) \cup {a}
  <2>1. a \notin Starts(n) /\ b \in Starts(n)
    BY Zenon, <1>0, StartsDiffer
  <2>2. Starts(n + 1) = Starts(n) \cup {a}
    BY Zenon, <1>0 DEF Starts
  <2> QED BY Zenon, <2>1, <2>2
<1>4. DOMAIN m = Starts(n)
  BY Zenon DEF Right
<1>5. WithLimit(m, c, a) = e
  <2>1. MaxBlockSize(m, a - 1) = m[b]
    BY Zenon, <1>2, <1>3, <1>4 DEF MaxBlockSize
  <2> QED BY Zenon, <1>3, <1>4, <2>1 DEF WithLimit
<1>6. m[b] \in Limits
  BY Zenon, <1>0 DEF Right
<1>7. new \in Limits
  BY Zenon, <1>6, LimitGrowth
<1> HIDE DEF new
<1>8. /\ DOMAIN e = Starts(n + 1) /\ e = [k \in Starts(n + 1) |-> e[k]]
      /\ e[a] = new /\ \A k \in Starts(n) : e[k] = m[k]
  BY Zenon, <1>3, <1>4 DEF Extended
<1>9. \A j \in 0 .. n : j * Period \in Starts(n)
  BY Zenon DEF Starts
<1> HIDE DEF e
<1>10. \A j \in 0 .. n + 1 : e[j * Period] \in Limits
  <2>1. ASSUME NEW j \in 0 .. n PROVE e[j * Period] \in Limits
    BY Zenon, <1>8, <1>9 DEF Right
  <2> QED BY Zenon, <1>0, <1>7, <1>8, <2>1
<1>11. e[0] = MIN_MAX_BLOCK_SIZE
  <2>1. 0 * Period = 0 /\ 0 \in 0 .. n
    BY LimitsAssumption
  <2> QED BY Zenon, <1>8, <1>9, <2>1 DEF Right
<1>12. ASSUME NEW j \in 1 .. n + 1
       PROVE  e[j * Period] = NewLimit(c, PeriodEnd(j), e[(j - 1) * Period])
  <2>1. j - 1 \in 0 .. n
    OBVIOUS
  <2>2. e[(j - 1) * Period] = m[(j - 1) * Period]
    BY Zenon, <1>8, <1>9, <2>1
  <2>3. CASE j = n + 1
    BY Zenon, <1>0, <1>8, <2>2, <2>3 DEF new, PeriodEnd
  <2>4. CASE j # n + 1
    <3>1. j \in 1 .. n /\ j \in 0 .. n
      BY <2>4
    <3>2. e[j * Period] = m[j * Period]
      BY Zenon, <1>8, <1>9, <3>1
    <3> QED BY Zenon, <2>2, <3>1, <3>2 DEF Right
  <2> QED BY Zenon, <2>3, <2>4
<1> QED BY Zenon, <1>5, <1>8, <1>10, <1>11, <1>12 DEF Right

(* One of the chains is the beginning of the other.                          *)
Branches(c, d) == Begins(c, d) \/ Begins(d, c)

(* The periods whose limit both have.                                        *)
Common(c, d) ==
  IF Len(c) \div Period <= Len(d) \div Period THEN Len(c) \div Period ELSE Len(d) \div Period

(* What SetTip keeps of the limits of a chain is right for the other.        *)
LEMMA KeptRight ==
  ASSUME NEW old, NEW c, NEW d, Branches(c, d), Right(old, d, Len(d) \div Period)
  PROVE  Right([k \in StillKnown(old, Height(c)) |-> old[k]], c, Common(c, d))
<1> DEFINE N == Len(c) \div Period
           M == Len(d) \div Period
           b == Common(c, d)
           K == StillKnown(old, Height(c))
           m == [k \in K |-> old[k]]
<1>0. Len(c) \in Nat /\ Len(d) \in Nat /\ Height(c) + 1 = Len(c)
  BY DEF Branches, Begins, Height
<1>1. Period \in Nat /\ Period > 0
  BY LimitsAssumption
<1>2. N \in Nat /\ M \in Nat
  BY Zenon, <1>0, Division
<1>3. \A j \in Nat : j * Period <= Len(c) <=> j <= N
  BY <1>0, <1>1
<1> HIDE DEF N, M
<1>4. b = (IF N <= M THEN N ELSE M)
  BY Zenon DEF Common, N, M
<1> HIDE DEF b
<1>5. /\ b \in Nat /\ \A j \in 0 .. b : j \in 0 .. N /\ j \in 0 .. M
      /\ \A j \in 1 .. b : j \in 1 .. N /\ j \in 1 .. M /\ j \in 0 .. b /\ j - 1 \in 0 .. b
      /\ \A j \in 0 .. M : j <= N => j \in 0 .. b
      /\ 0 \in 0 .. b /\ 0 * Period = 0
  BY <1>1, <1>2, <1>4
<1>6. DOMAIN old = Starts(M)
  BY Zenon DEF Right, M
<1>7. K = Starts(b)
  <2>1. K = {k \in Starts(M) : k <= Len(c)}
    BY Zenon, <1>0, <1>6 DEF StillKnown
  <2>2. ASSUME NEW j \in 0 .. M, j * Period <= Len(c) PROVE j \in 0 .. b
    <3>1. j \in Nat
      BY <1>2
    <3> QED BY Zenon, <1>3, <1>5, <2>2, <3>1
  <2>3. ASSUME NEW j \in 0 .. b PROVE j \in 0 .. M /\ j * Period <= Len(c)
    <3>1. j \in Nat /\ j <= N
      BY <1>2, <1>5
    <3> QED BY Zenon, <1>3, <1>5, <3>1
  <2> QED BY Zenon, <2>1, <2>2, <2>3 DEF Starts
<1>8. \A j \in 0 .. b : j * Period \in K
  BY Zenon, <1>7 DEF Starts
<1>9. DOMAIN m = Starts(b) /\ m = [k \in Starts(b) |-> m[k]] /\ \A k \in K : m[k] = old[k]
  BY Zenon, <1>7
<1> HIDE DEF m, K
<1>10. \A j \in 0 .. b : m[j * Period] \in Limits
  BY Zenon, <1>5, <1>8, <1>9 DEF Right, M
<1>11. m[0] = MIN_MAX_BLOCK_SIZE
  BY Zenon, <1>5, <1>8, <1>9 DEF Right
<1>12. ASSUME NEW j \in 1 .. b
       PROVE  m[j * Period] = NewLimit(c, PeriodEnd(j), m[(j - 1) * Period])
  <2> DEFINE l == old[(j - 1) * Period]
  <2>1. m[j * Period] = old[j * Period] /\ m[(j - 1) * Period] = l
    BY Zenon, <1>5, <1>8, <1>9
  <2>2. old[j * Period] = NewLimit(d, PeriodEnd(j), l)
    BY Zenon, <1>5 DEF Right, M
  <2> HIDE DEF l
  <2>3. NewLimit(c, PeriodEnd(j), l) = NewLimit(d, PeriodEnd(j), l)
    <3>0. j \in 1 .. Len(c) \div Period /\ j \in 1 .. Len(d) \div Period
      BY Zenon, <1>5 DEF N, M
    <3>1. CASE Begins(c, d)
      BY <3>0, <3>1, SameLimit
    <3>2. CASE Begins(d, c)
      BY <3>0, <3>2, SameLimit
    <3> QED BY Zenon, <3>1, <3>2 DEF Branches
  <2> QED BY Zenon, <2>1, <2>2, <2>3
<1>13. Right(m, c, b)
  BY Zenon, <1>9, <1>10, <1>11, <1>12 DEF Right
<1> QED BY Zenon, <1>13 DEF m, K, b

(* Maps from heights to limits.                                              *)
LimitMaps == UNION {[D -> Limits] : D \in SUBSET Nat}

(* A pass of the loop of SetTip makes such a map from such a map.            *)
LEMMA LimitMapStep ==
  ASSUME NEW m \in LimitMaps, NEW c, NEW k \in Nat
  PROVE  WithLimit(m, c, k) \in LimitMaps
<1>1. PICK D \in SUBSET Nat : m \in [D -> Limits]
  BY Zenon DEF LimitMaps
<1> DEFINE l == MaxBlockSize(m, k - 1)
           new == NewLimit(c, k - 1, l)
<1>2. MIN_MAX_BLOCK_SIZE \in Limits
  BY LimitsAssumption DEF Limits
<1>3. l \in Limits
  BY Zenon, <1>1, <1>2 DEF MaxBlockSize
<1>4. new \in Limits
  BY Zenon, <1>3, LimitGrowth
<1>5. CASE k \in DOMAIN m
  BY Zenon, <1>5 DEF WithLimit
<1>6. CASE k \notin DOMAIN m
  <2>1. WithLimit(m, c, k) = Extended(m, k, new)
    BY Zenon, <1>6 DEF WithLimit
  <2> HIDE DEF new
  <2>2. Extended(m, k, new) \in [D \cup {k} -> Limits]
    BY <1>1, <1>4 DEF Extended
  <2> QED BY <2>1, <2>2 DEF LimitMaps
<1> QED BY Zenon, <1>5, <1>6

(* SetTip yields the limits of the chain with the new tip, whether that      *)
(* chain is longer or shorter, and by however many blocks.                   *)
LEMMA SetTipRight ==
  ASSUME NEW old, NEW c, NEW d, Branches(c, d), Right(old, d, Len(d) \div Period)
  PROVE  Right(SetTip(old, c), c, Len(c) \div Period)
<1> DEFINE N == Len(c) \div Period
           b == Common(c, d)
           base == [k \in StillKnown(old, Height(c)) |-> old[k]]
           Is(f) == f = [n \in 0 .. N |-> IF n = 0 THEN base
                                          ELSE WithLimit(f[n - 1], c, n * Period)]
           z == CHOOSE f : Is(f)
           Step == [n \in 1 .. N |-> [m \in LimitMaps |-> WithLimit(m, c, n * Period)]]
<1>0. SetTip(old, c) = z[N]
  BY Zenon DEF SetTip
<1>1. N \in Nat /\ b \in 0 .. N
  <2>1. Len(c) \in Nat /\ Len(d) \in Nat
    BY DEF Branches, Begins
  <2>2. N \in Nat /\ Len(d) \div Period \in Nat
    BY Zenon, <2>1, Division
  <2> HIDE DEF N
  <2> QED BY <2>2 DEF Common, N
<1>2. Right(base, c, b)
  BY Zenon, KeptRight
<1> HIDE DEF N, b, base
<1>3. base \in LimitMaps
  <2>1. \A j \in 0 .. b : j * Period \in Nat
    BY <1>1, LimitsAssumption
  <2>2. Starts(b) \in SUBSET Nat
    BY Zenon, <2>1 DEF Starts
  <2>3. \A k \in Starts(b) : base[k] \in Limits
    BY Zenon, <1>2 DEF Starts, Right
  <2>4. base = [k \in Starts(b) |-> base[k]]
    BY Zenon, <1>2 DEF Right
  <2>5. base \in [Starts(b) -> Limits]
    BY Zenon, <2>3, <2>4
  <2> QED BY Zenon, <2>2, <2>5 DEF LimitMaps
<1>4. Steps(Step, N, LimitMaps)
  <2>1. ASSUME NEW n \in 1 .. N, NEW m \in LimitMaps
        PROVE  WithLimit(m, c, n * Period) \in LimitMaps
    <3>1. n * Period \in Nat
      BY <1>1, LimitsAssumption
    <3> QED BY Zenon, <3>1, LimitMapStep
  <2> QED BY Zenon, <2>1 DEF Steps
<1>5. PICK g : Iterates(g, N, LimitMaps, base, Step)
  <2> HIDE DEF Step
  <2> QED BY Zenon, <1>1, <1>3, <1>4, Primitive
<1>6. Is(g)
  <2>1. /\ g = [n \in 0 .. N |-> g[n]] /\ g[0] = base
        /\ \A n \in 0 .. N : g[n] \in LimitMaps
        /\ \A n \in 1 .. N : g[n] = Step[n][g[n - 1]]
    BY Zenon, <1>5 DEF Iterates
  <2>2. ASSUME NEW n \in 1 .. N PROVE g[n] = WithLimit(g[n - 1], c, n * Period)
    <3>1. n - 1 \in 0 .. N
      BY <1>1
    <3> QED BY Zenon, <2>1, <3>1
  <2>3. \A n \in 0 .. N : n = 0 \/ n \in 1 .. N
    BY <1>1
  <2>4. ASSUME NEW n \in 0 .. N
        PROVE  g[n] = IF n = 0 THEN base ELSE WithLimit(g[n - 1], c, n * Period)
    <3>1. CASE n = 0
      BY Zenon, <2>1, <3>1
    <3>2. CASE n # 0
      BY Zenon, <2>2, <2>3, <3>2
    <3> QED BY Zenon, <3>1, <3>2
  <2> QED BY Zenon, <2>1, <2>4
<1>7. Is(z)
  <2> HIDE DEF Is
  <2> QED BY Zenon, <1>6
<1> HIDE DEF z
<1>8. z[0] = base /\ \A n \in 1 .. N : z[n] = WithLimit(z[n - 1], c, n * Period)
  <2>1. 0 \in 0 .. N /\ \A n \in 1 .. N : n \in 0 .. N /\ n # 0
    BY <1>1
  <2> QED BY Zenon, <1>7, <2>1
<1> DEFINE Upto(n) == IF n <= b THEN b ELSE n
           S == {n \in 0 .. N : Right(z[n], c, Upto(n))}
<1>9. 0 \in S
  <2>1. 0 \in 0 .. N /\ Upto(0) = b
    BY <1>1
  <2> QED BY Zenon, <1>2, <1>8, <2>1
<1>10. ASSUME NEW n \in 0 .. N - 1, n \in S PROVE n + 1 \in S
  <2>1. n + 1 \in 1 .. N /\ n + 1 \in 0 .. N /\ (n + 1) - 1 = n /\ n \in Nat /\ b \in Nat
    BY <1>1
  <2>2. z[n + 1] = WithLimit(z[n], c, (n + 1) * Period)
    BY Zenon, <1>8, <2>1
  <2>3. CASE n + 1 <= b
    <3>1. Upto(n) = b /\ Upto(n + 1) = b /\ n + 1 \in 0 .. b
      BY <2>1, <2>3
    <3>2. Right(z[n], c, b)
      BY Zenon, <1>10, <3>1
    <3>3. z[n + 1] = z[n]
      BY Zenon, <2>1, <2>2, <3>1, <3>2, KnownLimit
    <3> QED BY Zenon, <2>1, <3>1, <3>2, <3>3
  <2>4. CASE ~ (n + 1 <= b)
    <3>1. Upto(n) = n /\ Upto(n + 1) = n + 1
      BY <2>1, <2>4
    <3>2. Right(z[n], c, n)
      BY Zenon, <1>10, <3>1
    <3>3. Right(z[n + 1], c, n + 1)
      BY Zenon, <2>1, <2>2, <3>2, NextLimit
    <3> QED BY Zenon, <2>1, <3>1, <3>3
  <2> QED BY Zenon, <2>3, <2>4
<1>11. N \in S
  <2>1. N \in 0 .. N
    BY <1>1
  <2> HIDE DEF S
  <2> QED BY Zenon, <1>1, <1>9, <1>10, <2>1, Interval
<1>12. Upto(N) = N
  BY <1>1
<1> QED BY Zenon, <1>0, <1>11, <1>12 DEF N

-----------------------------------------------------------------------------
(* The invariant *)

(* The inductive invariant: the limits are the right ones, for every period  *)
(* that has ended and the one after.                                         *)
LimitsInv ==
  /\ chain \in Seq(Nat) /\ chain # <<>>
  /\ Right(mapBlockSizeLimits, chain, Len(chain) \div Period)

(* SetTip(NULL) leaves the limits of a chain with no blocks.                 *)
LEMMA NoLimitsRight ==
  /\ Right(NoChainLimits, <<>>, Len(<<>>) \div Period)
  /\ \A c \in Seq(Nat) : Branches(c, <<>>)
<1>1. Len(<<>>) \div Period = 0 /\ 0 * Period = 0 /\ 0 .. 0 = {0} /\ 1 .. 0 = {}
  BY LimitsAssumption
<1>2. MIN_MAX_BLOCK_SIZE \in Limits
  BY LimitsAssumption DEF Limits
<1>3. Starts(0) = {0}
  BY <1>1 DEF Starts
<1>4. Right(NoChainLimits, <<>>, 0)
  <2> DEFINE m == NoChainLimits
  <2>1. /\ DOMAIN m = Starts(0) /\ m = [k \in Starts(0) |-> m[k]]
        /\ m[0] = MIN_MAX_BLOCK_SIZE
    BY Zenon, <1>3 DEF NoChainLimits
  <2> HIDE DEF m
  <2>2. ASSUME NEW j \in 0 .. 0 PROVE m[j * Period] \in Limits
    BY <1>1, <1>2, <2>1
  <2>3. \A j \in 1 .. 0 : m[j * Period] = NewLimit(<<>>, PeriodEnd(j), m[(j - 1) * Period])
    OBVIOUS
  <2> QED BY Zenon, <2>1, <2>2, <2>3 DEF Right, m
<1>5. ASSUME NEW c \in Seq(Nat) PROVE Begins(<<>>, c)
  BY DEF Begins
<1>6. Right(NoChainLimits, <<>>, Len(<<>>) \div Period)
  BY <1>1, <1>4
<1>7. \A c \in Seq(Nat) : Branches(c, <<>>)
  BY Zenon, <1>5 DEF Branches
<1> QED BY <1>6, <1>7

(* The invariant holds of the genesis block.                                 *)
LEMMA LimitsInit == Init => LimitsInv
<1> SUFFICES ASSUME Init PROVE LimitsInv
  OBVIOUS
<1>1. chain \in Seq(Nat) /\ chain # <<>>
  BY LimitsAssumption DEF Init
<1>2. mapBlockSizeLimits = SetTip(NoChainLimits, chain)
  BY Zenon DEF Init
<1> QED BY Zenon, <1>1, <1>2, NoLimitsRight, SetTipRight DEF LimitsInv

(* Every step keeps the invariant.                                           *)
LEMMA LimitsStep == LimitsInv /\ [Next]_vars => LimitsInv'
<1> SUFFICES ASSUME LimitsInv, [Next]_vars PROVE LimitsInv'
  OBVIOUS
<1>0. /\ chain \in Seq(Nat) /\ chain # <<>>
      /\ Right(mapBlockSizeLimits, chain, Len(chain) \div Period)
  BY Zenon DEF LimitsInv
<1>1. ASSUME NEW size \in Sizes, ConnectTip(size) PROVE LimitsInv'
  <2>1. chain' = Append(chain, size) /\ mapBlockSizeLimits' = SetTip(mapBlockSizeLimits, chain')
    BY Zenon, <1>1 DEF ConnectTip
  <2>2. size \in Nat
    BY LimitsAssumption
  <2>3. chain' \in Seq(Nat) /\ chain' # <<>>
    BY <1>0, <2>1, <2>2
  <2>4. Begins(chain, chain')
    BY <1>0, <2>1, <2>2, <2>3 DEF Begins
  <2>5. Branches(chain', chain)
    BY Zenon, <2>4 DEF Branches
  <2>6. Right(mapBlockSizeLimits', chain', Len(chain') \div Period)
    BY Zenon, <1>0, <2>1, <2>5, SetTipRight
  <2> QED BY Zenon, <2>3, <2>6 DEF LimitsInv
<1>2. ASSUME DisconnectTip PROVE LimitsInv'
  <2>1. /\ chain' = SubSeq(chain, 1, Len(chain) - 1) /\ mapBlockSizeLimits' = SetTip(mapBlockSizeLimits, chain')
        /\ Height(chain) > 0
    BY Zenon, <1>2 DEF DisconnectTip
  <2>2. chain' = SubSeq(chain, 1, Len(chain) - 1)
    BY Zenon, <2>1
  <2>3. chain' \in Seq(Nat) /\ chain' # <<>>
    <3>1. Len(chain) \in Nat /\ Len(chain) > 1
      BY <1>0, <2>1 DEF Height
    <3>2. chain' \in Seq(Nat) /\ Len(chain') = Len(chain) - 1
      BY <1>0, <2>2, <3>1
    <3> QED BY <3>1, <3>2
  <2>4. Begins(chain', chain)
    BY <1>0, <2>2, <2>3 DEF Begins
  <2>5. Branches(chain', chain)
    BY Zenon, <2>4 DEF Branches
  <2>6. Right(mapBlockSizeLimits', chain', Len(chain') \div Period)
    BY Zenon, <1>0, <2>1, <2>5, SetTipRight
  <2> QED BY Zenon, <2>3, <2>6 DEF LimitsInv
<1>3. ASSUME LoadBlockIndexDB PROVE LimitsInv'
  <2>1. chain' = chain /\ mapBlockSizeLimits' = SetTip(NoChainLimits, chain')
    BY Zenon, <1>3 DEF LoadBlockIndexDB
  <2>2. Right(mapBlockSizeLimits', chain', Len(chain') \div Period)
    BY Zenon, <1>0, <2>1, NoLimitsRight, SetTipRight
  <2> QED BY Zenon, <1>0, <2>1, <2>2 DEF LimitsInv
<1>4. CASE UNCHANGED vars
  BY Zenon, <1>0, <1>4 DEF vars, LimitsInv
<1> QED BY Zenon, <1>1, <1>2, <1>3, <1>4 DEF Next

(* The ends of the periods of a chain, by the number of the period.          *)
LEMMA EndsAre ==
  ASSUME NEW c \in Seq(Nat)
  PROVE  PeriodEnds(c) = {PeriodEnd(j) : j \in 1 .. Len(c) \div Period}
<1>0. Len(c) \in Nat /\ Height(c) = Len(c) - 1
  BY DEF Height
<1>1. ASSUME NEW h \in PeriodEnds(c)
      PROVE  \E j \in 1 .. Len(c) \div Period : h = PeriodEnd(j)
  <2>1. h \in 0 .. Len(c) - 1 /\ (h + 1) % Period = 0
    BY Zenon, <1>0 DEF PeriodEnds
  <2>2. h + 1 \in {k \in 0 .. Len(c) : k % Period = 0}
    BY <1>0, <2>1
  <2>3. PICK j \in 0 .. Len(c) \div Period : h + 1 = j * Period
    BY Zenon, <1>0, <2>2, StartsAre
  <2>4. j # 0
    BY <2>1, <2>3, LimitsAssumption
  <2>5. j \in 1 .. Len(c) \div Period
    BY <2>4
  <2>6. h = PeriodEnd(j)
    <3>1. h = (h + 1) - 1
      BY <2>1
    <3> QED BY Zenon, <2>3, <3>1 DEF PeriodEnd
  <2> QED BY Zenon, <2>5, <2>6
<1>2. ASSUME NEW j \in 1 .. Len(c) \div Period PROVE PeriodEnd(j) \in PeriodEnds(c)
  <2>1. PeriodEnd(j) \in 0 .. Height(c) /\ PeriodEnd(j) + 1 = j * Period
    BY Zenon, <1>0, PeriodBounds
  <2>2. j \in Nat
    OBVIOUS
  <2>3. (PeriodEnd(j) + 1) % Period = 0
    BY Zenon, <2>1, <2>2, Multiples
  <2> QED BY Zenon, <2>1, <2>3 DEF PeriodEnds
<1> QED BY Zenon, <1>1, <1>2

(* The invariant gives what the runs check of every state.                   *)
LEMMA LimitsSafe == LimitsInv => LimitsOfChain /\ GrowthJustified
<1> SUFFICES ASSUME LimitsInv PROVE LimitsOfChain /\ GrowthJustified
  OBVIOUS
<1> DEFINE m == mapBlockSizeLimits
           N == Len(chain) \div Period
<1>0. chain \in Seq(Nat) /\ Len(chain) \in Nat
  BY DEF LimitsInv
<1>1. /\ DOMAIN m = Starts(N)
      /\ \A j \in 0 .. N : m[j * Period] \in Limits
      /\ m[0] = MIN_MAX_BLOCK_SIZE
      /\ \A j \in 1 .. N : m[j * Period] = NewLimit(chain, PeriodEnd(j), m[(j - 1) * Period])
  BY Zenon DEF LimitsInv, Right
<1>2. N \in Nat
  BY Zenon, <1>0, Division
<1>3. \A j \in 1 .. N : /\ PeriodEnd(j) + 1 = j * Period
                        /\ PeriodEnd(j) + 1 - Period = (j - 1) * Period
  <2> SUFFICES ASSUME NEW j \in 1 .. N
               PROVE  /\ PeriodEnd(j) + 1 = j * Period
                      /\ PeriodEnd(j) + 1 - Period = (j - 1) * Period
    BY Zenon
  <2> DEFINE e == PeriodEnd(j)
             b == (j - 1) * Period
  <2>1. /\ e \in 0 .. Len(chain) - 1 /\ b \in 0 .. e /\ e - b = Period - 1
        /\ e + 1 = j * Period
    BY Zenon, <1>0, PeriodBounds
  <2> HIDE DEF e, b
  <2>2. e + 1 - Period = b
    BY <1>0, <2>1, LimitsAssumption
  <2> QED BY Zenon, <2>1, <2>2 DEF e, b
<1>4. PeriodEnds(chain) = {PeriodEnd(j) : j \in 1 .. N}
  BY Zenon, <1>0, EndsAre
<1> HIDE DEF N
<1>5. DOMAIN m = {0} \cup {h + 1 : h \in PeriodEnds(chain)}
  <2>1. {h + 1 : h \in PeriodEnds(chain)} = {j * Period : j \in 1 .. N}
    <3>1. \A j \in 1 .. N : PeriodEnd(j) + 1 = j * Period
      BY Zenon, <1>3
    <3>2. {h + 1 : h \in {PeriodEnd(j) : j \in 1 .. N}} = {PeriodEnd(j) + 1 : j \in 1 .. N}
      OBVIOUS
    <3>3. {PeriodEnd(j) + 1 : j \in 1 .. N} = {j * Period : j \in 1 .. N}
      BY Zenon, <3>1
    <3> QED BY Zenon, <1>4, <3>2, <3>3
  <2>2. 0 * Period = 0 /\ 0 .. N = {0} \cup (1 .. N)
    BY <1>2, LimitsAssumption
  <2> QED BY Zenon, <1>1, <2>1, <2>2 DEF Starts
<1>6. ASSUME NEW h \in PeriodEnds(chain) PROVE m[h + 1] = NewLimit(chain, h, m[h + 1 - Period])
  <2>1. PICK j \in 1 .. N : h = PeriodEnd(j)
    BY Zenon, <1>4
  <2> QED BY Zenon, <1>1, <1>3, <2>1
<1>7. LimitsOfChain
  BY Zenon, <1>1, <1>5, <1>6 DEF LimitsOfChain
<1>8. ASSUME NEW h \in PeriodEnds(chain)
      PROVE  LET old == m[h + 1 - Period]
                 new == m[h + 1]
                 large == {k \in h + 1 - Period .. h : 2 * chain[k + 1] > old}
             IN
             /\ old <= new /\ 10 * new <= 11 * old
             /\ new > old =>
                  /\ 2 * Cardinality(large) >= Period
                  /\ 3 * Sum(PeriodSizes(chain, h)) > 2 * old * Period
  <2>1. PICK j \in 1 .. N : h = PeriodEnd(j)
    BY Zenon, <1>4
  <2> DEFINE l == m[h + 1 - Period]
  <2>2. j - 1 \in 0 .. N
    BY <1>2
  <2>3. l \in Limits
    BY Zenon, <1>1, <1>3, <2>1, <2>2
  <2>4. m[h + 1] = NewLimit(chain, h, l)
    BY Zenon, <1>6
  <2> HIDE DEF l
  <2>5. /\ l <= m[h + 1] /\ 10 * m[h + 1] <= 11 * l
        /\ m[h + 1] > l => MayGrow(chain, h, l)
    BY Zenon, <2>3, <2>4, LimitGrowth
  <2>6. ASSUME MayGrow(chain, h, l)
        PROVE  /\ 2 * Cardinality({k \in h + 1 - Period .. h : 2 * chain[k + 1] > l}) >= Period
               /\ 3 * Sum(PeriodSizes(chain, h)) > 2 * l * Period
    <3>1. j \in 1 .. Len(chain) \div Period
      BY Zenon DEF N
    <3>2. MayGrow(chain, PeriodEnd(j), l)
      BY Zenon, <2>1, <2>6
    <3> QED BY Zenon, <1>0, <2>1, <2>3, <3>1, <3>2, GrowthShown
  <2> QED BY Zenon, <2>5, <2>6 DEF l
<1>9. GrowthJustified
  BY Zenon, <1>8 DEF GrowthJustified
<1> QED BY Zenon, <1>7, <1>9

(* CChain::SetTip keeps mapBlockSizeLimits a function of the active chain:   *)
(* however blocks were connected and disconnected and wherever the program   *)
(* was restarted, there is an entry for each period up to the one after the  *)
(* last that has ended, and it is the limit that the chain's blocks yield.   *)
THEOREM LimitsAlwaysOfChain == Spec => []LimitsOfChain
<1>1. Spec => []LimitsInv
  BY LimitsInit, LimitsStep, PTL DEF Spec
<1> QED BY <1>1, LimitsSafe, PTL

(* From one period to the next the limit never falls, not even where the     *)
(* unsigned multiplication wraps around, and rises by a tenth at most, and   *)
(* it rises only after a period of large blocks.                             *)
THEOREM LimitsGrowJustified == Spec => []GrowthJustified
<1>1. Spec => []LimitsInv
  BY LimitsInit, LimitsStep, PTL DEF Spec
<1> QED BY <1>1, LimitsSafe, PTL

-----------------------------------------------------------------------------
(* CheckQueue *)

USE DEF Threads, PCs

LEMMA CardinalityDisjoint ==
  ASSUME NEW S, NEW T, IsFiniteSet(S), IsFiniteSet(T), S \cap T = {}
  PROVE  Cardinality(S \cup T) = Cardinality(S) + Cardinality(T)
<1>1. Cardinality(S \cap T) = 0 BY FS_EmptySet
<1>2. Cardinality(S) \in Nat /\ Cardinality(T) \in Nat BY FS_CardinalityType
<1>3. Cardinality(S \cup T) = Cardinality(S) + Cardinality(T) - Cardinality(S \cap T)
  BY FS_Union
<1> QED BY <1>1, <1>2, <1>3

LEMMA CardinalityWithout ==
  ASSUME NEW S, NEW T \in SUBSET S, IsFiniteSet(S)
  PROVE  Cardinality(S \ T) = Cardinality(S) - Cardinality(T)
<1>1. S \cap T = T OBVIOUS
<1> QED BY Zenon, <1>1, FS_Difference

(* Outstanding checks are finitely many.                                    *)
LEMMA OutstandingFinite ==
  ASSUME QueueTypes PROVE IsFiniteSet(Outstanding) /\ Outstanding \subseteq Checks
<1>1. Outstanding \subseteq Checks BY DEF QueueTypes, Outstanding
<1> QED BY <1>1, QueueAssumption, FS_Subset

LEMMA FiniteParts ==
  ASSUME QueueTypes
  PROVE  /\ IsFiniteSet(queue) /\ Cardinality(queue) \in Nat
         /\ \A t \in Threads : /\ IsFiniteSet(vChecks[t])
                               /\ Cardinality(vChecks[t]) \in Nat
                               /\ Cardinality(vChecks[t]) = 0 <=> vChecks[t] = {}
<1>1. queue \in SUBSET Checks /\ \A t \in Threads : vChecks[t] \in SUBSET Checks
  BY DEF QueueTypes
<1> QED BY <1>1, QueueAssumption, FS_Subset, FS_CardinalityType, FS_EmptySet

(* nTodo = 0 is what the master tests; it means nothing is left.            *)
LEMMA NothingLeft ==
  ASSUME QueueTypes, TodoCounts
  PROVE  nTodo = 0 <=> (queue = {} /\ \A t \in Threads : vChecks[t] = {})
<1>1. nTodo = 0 <=> Outstanding = {}
  BY OutstandingFinite, FS_EmptySet DEF TodoCounts
<1> QED BY <1>1 DEF Outstanding

LEMMA QueueInitInv == QueueInit => QueueInv
<1> SUFFICES ASSUME QueueInit PROVE QueueInv OBVIOUS
<1>1. QueueTypes
  <2>1. interrupts \in 0..MaxInterrupts /\ nIdle \in Int /\ nTotal \in Int /\ nTodo \in Nat
    BY QueueAssumption DEF QueueInit
  <2> QED BY Zenon, <2>1 DEF QueueInit, QueueTypes
<1>2. Outstanding = {} BY DEF QueueInit, Outstanding
<1>3. TodoCounts BY <1>2, FS_EmptySet DEF QueueInit, TodoCounts
<1>4. Phases BY QueueAssumption DEF QueueInit, Phases
<1>5. ~FailureSeen BY DEF QueueInit, FailureSeen
<1> QED
  BY <1>1, <1>2, <1>3, <1>4, <1>5
  DEF QueueInit, QueueInv, NoFailureLost, NoFailureInvented, QueueFinished, WaitAnswer

LEMMA ConstructStep ==
  ASSUME QueueInv, Construct PROVE QueueInv'
<1>1. QueueTypes' BY Zenon DEF QueueInv, QueueTypes, Construct
<1>2. Phases' BY QueueAssumption DEF QueueInv, QueueTypes, Phases, Construct
<1>3. TodoCounts' BY DEF QueueInv, TodoCounts, Outstanding, Construct
<1>4. Outstanding' = {}
  BY DEF QueueInv, Outstanding, QueueFinished, Construct
<1>5. ~FailureSeen'
  BY DEF QueueInv, QueueFinished, FailureSeen, Construct
<1>6. pc'[Master] = "adding" BY DEF QueueInv, QueueTypes, Construct
<1> QED
  BY <1>1, <1>2, <1>3, <1>4, <1>5, <1>6
  DEF QueueInv, Construct, NoFailureLost, NoFailureInvented, QueueFinished, WaitAnswer

LEMMA AddStep ==
  ASSUME QueueInv, NEW S \in SUBSET (Checks \ added), Add(S) PROVE QueueInv'
<1>0. PICK W \in Notified(S) : pc' = [t \in Threads |-> IF t \in W THEN "woken" ELSE pc[t]]
  BY DEF Add
<1>a. W \subseteq Sleepers
  BY <1>0 DEF Notified
<1>b. IsFiniteSet(S) /\ Cardinality(S) \in Nat
  BY QueueAssumption, FS_Subset, FS_CardinalityType
<1>1. QueueTypes'
  BY <1>0, <1>b DEF QueueInv, QueueTypes, Add
<1>c. \A t \in Threads : pc[t] # "wait" => pc'[t] = pc[t]
  BY <1>0, <1>a DEF Sleepers
<1>d. pc'[Master] = pc[Master] /\ pc[Master] = "adding"
  BY <1>c DEF Add
<1>e. \A t \in Threads : pc'[t] = pc[t] \/ (pc'[t] = "woken" /\ pc[t] = "wait")
  BY <1>0, <1>a DEF Sleepers
<1>2. Phases'
  BY <1>c, <1>d, <1>e DEF QueueInv, QueueTypes, Phases, Add
<1>3. Outstanding' = Outstanding \cup S
  BY DEF Outstanding, Add
<1>4. Outstanding \cap S = {} BY DEF QueueInv
<1>5. TodoCounts'
  <2>0. IsFiniteSet(Outstanding) /\ Cardinality(Outstanding) \in Nat
    BY OutstandingFinite, FS_CardinalityType DEF QueueInv
  <2>1. Cardinality(Outstanding \cup S) = Cardinality(Outstanding) + Cardinality(S)
    BY <2>0, <1>4, <1>b, CardinalityDisjoint
  <2>2. nTodo' = Cardinality(Outstanding') BY <2>1, <1>3 DEF QueueInv, TodoCounts, Add
  <2>3. \A t \in Threads : vChecks[t] \cap S = {} BY <1>4 DEF Outstanding
  <2> QED BY <2>2, <2>3 DEF QueueInv, TodoCounts, Add
<1>6. Outstanding' \subseteq added' BY <1>3 DEF QueueInv, Add
<1>7. NoFailureLost'
  BY Zenon, <1>c, <1>d DEF QueueInv, NoFailureLost, Unrun, FailureSeen, Add
<1>8. NoFailureInvented'
  BY DEF QueueInv, NoFailureInvented, FailureSeen, Add
<1> QED
  BY <1>1, <1>2, <1>5, <1>6, <1>7, <1>8, <1>d DEF QueueInv, QueueFinished, WaitAnswer

LEMMA StartWaitStep ==
  ASSUME QueueInv, NEW dtor \in BOOLEAN, StartWait(dtor) PROVE QueueInv'
<1>1. QueueTypes' BY DEF QueueInv, QueueTypes, StartWait
<1>2. pc[Master] = "adding" /\ pc'[Master] = "enter" /\ \A w \in Workers : pc'[w] = pc[w]
  BY QueueAssumption DEF QueueInv, QueueTypes, StartWait
<1>3. vChecks[Master] = {} BY <1>2 DEF QueueInv, Phases
<1>4. Phases' BY <1>2, <1>3 DEF QueueInv, QueueTypes, Phases, StartWait
<1>5. TodoCounts' /\ Outstanding' \subseteq added'
  BY DEF QueueInv, TodoCounts, Outstanding, StartWait
<1>6. FailureSeen' <=> FailureSeen
  BY <1>3 DEF QueueInv, QueueTypes, FailureSeen, StartWait
<1>7. NoFailureLost' /\ NoFailureInvented'
  BY <1>2, <1>3, <1>6 DEF QueueInv, NoFailureLost, NoFailureInvented, Unrun, StartWait
<1> QED
  BY <1>1, <1>2, <1>4, <1>5, <1>7 DEF QueueInv, QueueFinished, WaitAnswer

LEMMA EnterStep ==
  ASSUME QueueInv, NEW t \in Threads, Enter(t) PROVE QueueInv'
<1>0. pc[t] = "enter" /\ pc'[t] = "locked"
      /\ \A u \in Threads \ {t} : pc'[u] = pc[u] \/ (pc[u] = "wait" /\ pc'[u] = "woken")
  BY DEF QueueInv, QueueTypes, Enter, NotifiesMaster
<1>1. QueueTypes'
  <2>1. pc' \in [Threads -> PCs] /\ vChecks' \in [Threads -> SUBSET Checks]
    BY DEF QueueInv, QueueTypes, Enter
  <2>2. nTodo' \in Nat /\ nTotal' \in Int
    <3>1. Cardinality(vChecks[t]) <= Cardinality(Outstanding) /\ Cardinality(vChecks[t]) \in Nat
          /\ Cardinality(Outstanding) \in Nat
      <4>1. vChecks[t] \in SUBSET Outstanding BY DEF Outstanding
      <4> QED BY <4>1, OutstandingFinite, FS_Subset, FS_CardinalityType DEF QueueInv
    <3> QED BY <3>1 DEF QueueInv, QueueTypes, TodoCounts, Enter
  <2>3. fAllOk' \in BOOLEAN BY DEF QueueInv, QueueTypes, Enter
  <2> QED BY <2>1, <2>2, <2>3 DEF QueueInv, QueueTypes, Enter
<1>2. vChecks' = [vChecks EXCEPT ![t] = {}]
  BY DEF QueueInv, QueueTypes, Enter
<1>3. Phases'
  BY <1>0, <1>2, QueueAssumption DEF QueueInv, QueueTypes, Phases
<1>4. Outstanding' = Outstanding \ vChecks[t] /\ vChecks[t] \subseteq Outstanding
  BY SMTT(30), <1>2 DEF QueueInv, QueueTypes, TodoCounts, Outstanding, Enter
<1>5. TodoCounts'
  <2>1. nTodo' = Cardinality(Outstanding')
    <3>1. CASE vChecks[t] = {}
      BY <3>1, <1>4 DEF QueueInv, TodoCounts, Enter
    <3>2. CASE vChecks[t] # {}
      BY <3>2, <1>4, OutstandingFinite, CardinalityWithout DEF QueueInv, TodoCounts, Enter
    <3> QED BY <3>1, <3>2
  <2> QED BY <2>1, <1>2 DEF QueueInv, QueueTypes, TodoCounts, Enter
<1>6. FailureSeen' <=> FailureSeen
  <2>1. CASE vChecks[t] = {}
    BY <2>1, <1>2 DEF QueueInv, QueueTypes, FailureSeen, Enter
  <2>2. CASE vChecks[t] # {}
    BY <2>2, <1>2 DEF QueueInv, QueueTypes, FailureSeen, Enter
  <2> QED BY <2>1, <2>2
<1>7. \A c : Unrun(c) => Unrun(c)'
  BY <1>0, <1>2 DEF QueueInv, QueueTypes, Unrun, Enter
<1>8. pc'[Master] = "out" <=> pc[Master] = "out"
  BY <1>0
<1>9. QueueFinished' /\ WaitAnswer'
  BY <1>2, <1>8 DEF QueueInv, QueueTypes, QueueFinished, WaitAnswer, Enter
<1>10. NoFailureLost' /\ NoFailureInvented'
  BY <1>6, <1>7, <1>8 DEF QueueInv, NoFailureLost, NoFailureInvented, Enter
<1>11. Outstanding' \subseteq added'
  BY <1>4 DEF QueueInv, Enter
<1> QED BY <1>1, <1>3, <1>5, <1>9, <1>10, <1>11 DEF QueueInv

LEMMA ReturnStep ==
  ASSUME QueueInv, NEW t \in Threads, Return(t) PROVE QueueInv'
<1>0. t = Master /\ nTodo = 0 BY DEF Return, MayReturn, fQuit
<1>1. queue = {} /\ \A u \in Threads : vChecks[u] = {}
  BY <1>0, NothingLeft DEF QueueInv
<1>2. QueueTypes' BY DEF QueueInv, QueueTypes, Return
<1>3. pc[Master] = "locked" /\ pc'[Master] = "out" /\ \A w \in Workers : pc'[w] = pc[w]
  BY <1>0, QueueAssumption DEF QueueInv, QueueTypes, Return
<1>4. Phases' BY <1>1, <1>3 DEF QueueInv, Phases, Return
<1>5. TodoCounts' /\ Outstanding' \subseteq added'
  BY DEF QueueInv, TodoCounts, Outstanding, Return
<1>6. QueueFinished' BY <1>0, <1>1 DEF QueueFinished, Return
<1>7. WaitAnswer'
  <2>1. FailureSeen <=> ~fAllOk BY <1>1 DEF FailureSeen
  <2>2. \A c : ~Unrun(c) BY <1>1 DEF Unrun
  <2>3. ~fAllOk <=> added \cap FailingChecks # {}
    BY <2>1, <2>2, <1>3 DEF QueueInv, NoFailureLost, NoFailureInvented
  <2> QED BY <2>3 DEF WaitAnswer, Return
<1>8. ~FailureSeen' BY <1>1 DEF FailureSeen, Return
<1> QED
  BY <1>2, <1>3, <1>4, <1>5, <1>6, <1>7, <1>8 DEF QueueInv, NoFailureLost, NoFailureInvented

LEMMA TakeStep ==
  ASSUME QueueInv, NEW t \in Threads, Take(t) PROVE QueueInv'
<1>0. PICK B \in SUBSET queue :
        /\ Cardinality(B) = BatchOf(queue)
        /\ vChecks' = [vChecks EXCEPT ![t] = B]
        /\ queue' = queue \ B
  BY Zenon DEF Take
<1>1. QueueTypes' BY <1>0 DEF QueueInv, QueueTypes, Take
<1>2. vChecks[t] = {} BY DEF QueueInv, Phases, Take
<1>3. B # {}
  <2>1. BatchOf(queue) # 0
    <3>1. nTotal + nIdle + 1 \in Int BY DEF QueueInv, QueueTypes
    <3> QED BY DEF BatchOf
  <2> QED BY <2>1, <1>0, FS_EmptySet
<1>4. pc[t] = "locked" /\ pc'[t] = "work" /\ \A u \in Threads \ {t} : pc'[u] = pc[u]
  BY DEF QueueInv, QueueTypes, Take
<1>5. vChecks'[t] = B /\ \A u \in Threads \ {t} : vChecks'[u] = vChecks[u]
  BY <1>0 DEF QueueInv, QueueTypes
<1>6. Phases' BY <1>2, <1>3, <1>4, <1>5 DEF QueueInv, Phases, Take
<1>7. Outstanding' = Outstanding
  BY <1>0, <1>2, <1>5 DEF Outstanding
<1>8. TodoCounts'
  <2>1. \A u \in Threads : vChecks'[u] \cap queue' = {}
    BY <1>0, <1>5 DEF QueueInv, TodoCounts
  <2>2. \A u, v \in Threads : u # v => vChecks'[u] \cap vChecks'[v] = {}
    BY <1>0, <1>5 DEF QueueInv, TodoCounts
  <2> QED BY <2>1, <2>2, <1>7 DEF QueueInv, TodoCounts, Take
<1>9. pc[Master] # "out" /\ pc'[Master] # "out"
  BY <1>4 DEF QueueInv, QueueFinished, Take
<1>10. FailureSeen' <=> FailureSeen
  BY <1>2, <1>3, <1>5 DEF QueueInv, QueueTypes, FailureSeen, Take
<1>11. \A c : Unrun(c) => Unrun(c)'
  BY <1>0, <1>4, <1>5 DEF Unrun
<1>12. NoFailureLost' /\ NoFailureInvented'
  BY <1>9, <1>10, <1>11 DEF QueueInv, NoFailureLost, NoFailureInvented, Take
<1> QED
  BY <1>1, <1>6, <1>7, <1>8, <1>9, <1>12 DEF QueueInv, QueueFinished, WaitAnswer, Take

LEMMA WorkStep ==
  ASSUME QueueInv, NEW t \in Threads, Work(t) PROVE QueueInv'
<1>1. QueueTypes' BY DEF QueueInv, QueueTypes, Work
<1>2. pc[t] = "work" /\ pc'[t] = "enter" /\ \A u \in Threads \ {t} : pc'[u] = pc[u]
  BY DEF QueueInv, QueueTypes, Work
<1>3. vChecks' = vChecks /\ vChecks[t] # {} BY DEF QueueInv, Phases, Work
<1>4. Phases' BY <1>2, <1>3 DEF QueueInv, Phases, Work
<1>5. TodoCounts' /\ Outstanding' \subseteq added' /\ Outstanding' = Outstanding
  BY DEF QueueInv, TodoCounts, Outstanding, Work
<1>6. pc[Master] # "out" /\ pc'[Master] # "out"
  BY <1>2, <1>3 DEF QueueInv, QueueFinished
<1>7. fOk'[t] = (fOk[t] /\ vChecks[t] \cap FailingChecks = {})
      /\ \A u \in Threads \ {t} : fOk'[u] = fOk[u]
  BY DEF QueueInv, QueueTypes, Work
<1>8. FailureSeen => FailureSeen'
  BY Zenon, <1>3, <1>7 DEF FailureSeen, Work
<1>9. ASSUME NEW c \in FailingChecks, Unrun(c) PROVE Unrun(c)' \/ FailureSeen'
  BY Zenon, <1>2, <1>3, <1>7, <1>9 DEF Unrun, FailureSeen, Work
<1>10. FailureSeen' => FailureSeen \/ vChecks[t] \cap FailingChecks # {}
  BY Zenon, <1>3, <1>7 DEF FailureSeen, Work
<1>11. vChecks[t] \subseteq added BY DEF QueueInv, Outstanding
<1>12. NoFailureLost'
  BY <1>6, <1>8, <1>9 DEF QueueInv, NoFailureLost, Work
<1>13. NoFailureInvented'
  BY <1>10, <1>11 DEF QueueInv, NoFailureInvented, Work
<1> QED
  BY <1>1, <1>4, <1>5, <1>6, <1>12, <1>13 DEF QueueInv, QueueFinished, WaitAnswer

(* Sleeping, waking up and being interrupted move one thread t between      *)
(* program counters at which it holds no batch, and touch no check.         *)
LEMMA QuietStep ==
  ASSUME QueueInv, NEW t \in Threads, QueueTypes',
         pc[t] \in {"locked", "wait", "woken"},
         pc'[t] \in {"locked", "wait", "woken", "enter", "dead"},
         pc'[t] = "dead" => t # Master,
         \A u \in Threads \ {t} : pc'[u] = pc[u],
         fOk' = [fOk EXCEPT ![t] = fOk'[t]],
         UNCHANGED <<queue, fAllOk, nTodo, vChecks, added, ret>>
  PROVE  QueueInv'
<1>1. vChecks[t] = {} BY DEF QueueInv, Phases
<1>2. Phases' BY <1>1 DEF QueueInv, Phases
<1>3. TodoCounts' /\ Outstanding' \subseteq added'
  BY SMTT(30) DEF QueueInv, TodoCounts, Outstanding
<1>4. FailureSeen' <=> FailureSeen
  BY <1>1 DEF QueueInv, QueueTypes, FailureSeen
<1>5. \A c : Unrun(c)' <=> Unrun(c) BY <1>1 DEF Unrun
<1>6. pc'[Master] = "out" <=> pc[Master] = "out" OBVIOUS
<1>7. NoFailureLost' /\ NoFailureInvented'
  BY <1>4, <1>5, <1>6 DEF QueueInv, NoFailureLost, NoFailureInvented
<1>8. QueueFinished' /\ WaitAnswer'
  BY <1>6 DEF QueueInv, QueueFinished, WaitAnswer
<1> QED BY <1>2, <1>3, <1>7, <1>8 DEF QueueInv

LEMMA SleepStep ==
  ASSUME QueueInv, NEW t \in Threads, Sleep(t) PROVE QueueInv'
<1>1. QueueTypes' BY DEF QueueInv, QueueTypes, Sleep
<1> QED BY <1>1, QuietStep DEF QueueInv, QueueTypes, Sleep

LEMMA WakeStep ==
  ASSUME QueueInv, NEW t \in Threads, Wake(t) PROVE QueueInv'
<1>1. QueueTypes' BY SMTT(30) DEF QueueInv, QueueTypes, Wake
<1> QED BY <1>1, QuietStep DEF QueueInv, QueueTypes, Wake

LEMMA SpuriousWakeStep ==
  ASSUME QueueInv, NEW t \in Threads, SpuriousWake(t) PROVE QueueInv'
<1>1. QueueTypes' BY DEF QueueInv, QueueTypes, SpuriousWake
<1> QED BY <1>1, QuietStep DEF QueueInv, QueueTypes, SpuriousWake

LEMMA InterruptWorkerStep ==
  ASSUME QueueInv, NEW w \in Workers, InterruptWorker(w) PROVE QueueInv'
<1>1. QueueTypes' BY DEF QueueInv, QueueTypes, InterruptWorker
<1> QED BY <1>1, QuietStep, QueueAssumption DEF QueueInv, QueueTypes, InterruptWorker

LEMMA InterruptMasterStep ==
  ASSUME QueueInv, InterruptMaster PROVE QueueInv'
<1>1. QueueTypes'
  <2>1. interrupts' \in 0..MaxInterrupts
    BY QueueAssumption DEF QueueInv, QueueTypes, InterruptMaster
  <2> QED BY <2>1 DEF QueueInv, QueueTypes, InterruptMaster
<1> QED BY Zenon, <1>1, QuietStep DEF QueueInv, QueueTypes, InterruptMaster

LEMMA QueueNextInv == QueueInv /\ [QueueNext]_queueVars => QueueInv'
<1> SUFFICES ASSUME QueueInv, [QueueNext]_queueVars PROVE QueueInv' OBVIOUS
<1>1. CASE Construct BY <1>1, ConstructStep
<1>2. CASE \E S \in SUBSET (Checks \ added) : Add(S) BY <1>2, AddStep
<1>3. CASE \E dtor \in BOOLEAN : StartWait(dtor) BY <1>3, StartWaitStep
<1>4. CASE \E t \in Threads : \/ Enter(t) \/ Return(t) \/ Sleep(t) \/ Take(t)
                              \/ Work(t) \/ Wake(t) \/ SpuriousWake(t)
  BY <1>4, EnterStep, ReturnStep, SleepStep, TakeStep, WorkStep, WakeStep, SpuriousWakeStep
<1>5. CASE \E w \in Workers : InterruptWorker(w) BY <1>5, InterruptWorkerStep
<1>6. CASE InterruptMaster BY <1>6, InterruptMasterStep
<1>7. CASE UNCHANGED queueVars
  <2>1. QueueTypes' BY <1>7 DEF QueueInv, QueueTypes, queueVars
  <2>2. Phases' BY <1>7 DEF QueueInv, Phases, queueVars
  <2>3. TodoCounts' /\ Outstanding' \subseteq added'
    BY <1>7 DEF QueueInv, TodoCounts, Outstanding, queueVars
  <2>4. NoFailureLost' /\ NoFailureInvented'
    BY <1>7 DEF QueueInv, NoFailureLost, NoFailureInvented, Unrun, FailureSeen, queueVars
  <2>5. QueueFinished' /\ WaitAnswer'
    BY <1>7 DEF QueueInv, QueueFinished, WaitAnswer, queueVars
  <2> QED BY <2>1, <2>2, <2>3, <2>4, <2>5 DEF QueueInv
<1> QED BY <1>1, <1>2, <1>3, <1>4, <1>5, <1>6, <1>7 DEF QueueNext

(* Every behaviour of the queue satisfies the inductive invariant.          *)
THEOREM Invariance == QueueSpec => []QueueInv
BY QueueInitInv, QueueNextInv, PTL DEF QueueSpec

(* Every field stays in its range: the unsigned nTodo is never decremented  *)
(* below zero by Loop's clean-up.                                           *)
THEOREM QueueTypesHold == QueueSpec => []QueueTypes
BY Invariance, PTL DEF QueueInv

(* nTodo counts exactly the checks that are queued or in a batch.           *)
THEOREM TodoExact == QueueSpec => []TodoCounts
BY Invariance, PTL DEF QueueInv

(* When the controller is gone nothing of its block is left in the queue or *)
(* in a worker, and fAllOk is back to true.                                 *)
THEOREM ControllerFinishes == QueueSpec => []QueueFinished
BY Invariance, PTL DEF QueueInv

(* Wait returns true exactly when none of the block's checks fails.         *)
THEOREM AnswerCorrect == QueueSpec => []WaitAnswer
BY Invariance, PTL DEF QueueInv

-----------------------------------------------------------------------------
(* How many elements a set of threads has.                                  *)
LEMMA ThreadsCounted ==
  \A S \in SUBSET Threads :
    /\ Cardinality(S) \in Nat
    /\ \A t : t \notin S => Cardinality(S \cup {t}) = Cardinality(S) + 1
    /\ \A t \in S : Cardinality(S \ {t}) = Cardinality(S) - 1
<1> SUFFICES ASSUME NEW S \in SUBSET Threads PROVE ThreadsCounted!(S)
  OBVIOUS
<1>1. IsFiniteSet(Threads) BY QueueAssumption, FS_AddElement
<1>2. IsFiniteSet(S) /\ Cardinality(S) \in Nat BY <1>1, FS_Subset, FS_CardinalityType
<1> QED BY <1>2, FS_AddElement, FS_RemoveElement

LEMMA InitBusy == QueueInit => BusyCounted
<1> SUFFICES ASSUME QueueInit PROVE BusyCounted OBVIOUS
<1>1. Busy = {} BY DEF QueueInit, Busy
<1> QED BY <1>1, FS_EmptySet DEF QueueInit, BusyCounted

(* A thread starts or stops being busy and one of the counters says so, or  *)
(* none of them changes.                                                    *)
LEMMA BusyChange ==
  ASSUME QueueInv, BusyCounted, NEW t \in Threads,
         nIdle' \in Int, nTotal' \in Int,
         \/ Busy' = Busy /\ nTotal' - nIdle' = nTotal - nIdle
         \/ Busy' = Busy \cup {t} /\ t \notin Busy /\ nTotal' - nIdle' = nTotal - nIdle + 1
         \/ Busy' = Busy \ {t} /\ t \in Busy /\ nTotal' - nIdle' = nTotal - nIdle - 1
  PROVE  BusyCounted'
<1>1. Busy \in SUBSET Threads BY DEF Busy
<1>2. /\ Cardinality(Busy) \in Nat
      /\ t \notin Busy => Cardinality(Busy \cup {t}) = Cardinality(Busy) + 1
      /\ t \in Busy => Cardinality(Busy \ {t}) = Cardinality(Busy) - 1
  BY <1>1, ThreadsCounted
<1>3. nIdle \in Int /\ nTotal \in Int BY DEF QueueInv, QueueTypes
<1>4. CASE Busy' = Busy /\ nTotal' - nIdle' = nTotal - nIdle
  <2>1. Cardinality(Busy') = Cardinality(Busy) BY <1>4, Zenon
  <2> QED BY <1>2, <1>3, <1>4, <2>1 DEF BusyCounted
<1>5. CASE Busy' = Busy \cup {t} /\ t \notin Busy /\ nTotal' - nIdle' = nTotal - nIdle + 1
  <2>1. Cardinality(Busy') = Cardinality(Busy) + 1 BY <1>2, <1>5, Zenon
  <2> QED BY <1>2, <1>3, <1>5, <2>1 DEF BusyCounted
<1>6. CASE Busy' = Busy \ {t} /\ t \in Busy /\ nTotal' - nIdle' = nTotal - nIdle - 1
  <2>1. Cardinality(Busy') = Cardinality(Busy) - 1 BY <1>2, <1>6, Zenon
  <2> QED BY <1>2, <1>3, <1>6, <2>1 DEF BusyCounted
<1> QED BY <1>4, <1>5, <1>6

LEMMA NextBusy == QueueInv /\ BusyCounted /\ [QueueNext]_queueVars => BusyCounted'
<1> SUFFICES ASSUME QueueInv, BusyCounted, [QueueNext]_queueVars PROVE BusyCounted' OBVIOUS
<1>1. CASE Construct \/ (\E dtor \in BOOLEAN : StartWait(dtor)) \/ UNCHANGED queueVars
  BY Zenon, <1>1 DEF BusyCounted, Busy, Construct, StartWait, queueVars, QueueInv, QueueTypes
<1>2. ASSUME NEW S \in SUBSET (Checks \ added), Add(S) PROVE BusyCounted'
  <2>1. PICK W \in Notified(S) : pc' = [t \in Threads |-> IF t \in W THEN "woken" ELSE pc[t]]
    BY <1>2 DEF Add
  <2>2. \A t \in W : pc[t] = "wait"
    BY <2>1 DEF Notified, Sleepers
  <2>3. Busy' = Busy BY <1>2, <2>1, <2>2 DEF Busy, Add
  <2> QED BY <1>2, <2>3 DEF BusyCounted, Add
<1>3. ASSUME NEW t \in Threads, Enter(t) PROVE BusyCounted'
  <2>1. nIdle' \in Int /\ nTotal' \in Int BY SMTT(30), <1>3 DEF Enter, QueueInv, QueueTypes
  <2>2. /\ pc[t] = "enter" /\ pc'[t] = "locked"
        /\ \A u \in Threads \ {t} : pc'[u] = pc[u] \/ (pc[u] = "wait" /\ pc'[u] = "woken")
    BY <1>3 DEF QueueInv, QueueTypes, Enter, NotifiesMaster
  <2>3. vChecks' = [vChecks EXCEPT ![t] = {}]
    BY <1>3 DEF QueueInv, QueueTypes, Enter
  <2>4. Busy' = Busy \cup {t}
    BY <2>2, <2>3 DEF Busy, QueueInv, QueueTypes
  <2>5. t \in Busy <=> vChecks[t] # {}
    BY <2>2 DEF Busy
  <2>6. CASE vChecks[t] # {}
    BY <1>3, <2>1, <2>4, <2>5, <2>6, BusyChange DEF Enter
  <2>7. CASE vChecks[t] = {}
    <3>1. nTotal' - nIdle' = nTotal - nIdle + 1
      BY <1>3, <2>7 DEF Enter, QueueInv, QueueTypes
    <3> QED BY <2>1, <2>4, <2>5, <2>7, <3>1, BusyChange
  <2> QED BY <2>6, <2>7
<1>4. ASSUME NEW t \in Threads, Return(t) \/ Sleep(t) PROVE BusyCounted'
  <2>1. nIdle' \in Int /\ nTotal' \in Int /\ nTotal' - nIdle' = nTotal - nIdle - 1
    BY <1>4 DEF Return, Sleep, QueueInv, QueueTypes
  <2>2. vChecks[t] = {} BY <1>4 DEF Return, Sleep, QueueInv, Phases
  <2>3. t \in Busy /\ Busy' = Busy \ {t}
    BY <1>4, <2>2 DEF Busy, Return, Sleep, QueueInv, QueueTypes
  <2> QED BY <2>1, <2>3, BusyChange
<1>5. ASSUME NEW t \in Threads, Take(t) \/ Work(t) PROVE BusyCounted'
  <2>1. nIdle' = nIdle /\ nTotal' = nTotal BY <1>5 DEF Take, Work
  <2>2. \A u \in Threads \ {t} : pc'[u] = pc[u] /\ vChecks'[u] = vChecks[u]
    BY <1>5 DEF Take, Work, QueueInv, QueueTypes
  <2>3. t \in Busy BY <1>5 DEF Busy, Take, Work
  <2>4. t \in Busy' BY <1>5 DEF Busy, Take, Work, QueueInv, QueueTypes, Phases
  <2>5. Busy' = Busy BY <2>2, <2>3, <2>4 DEF Busy
  <2> QED BY <2>1, <2>5 DEF BusyCounted
<1>6. ASSUME NEW t \in Threads, Wake(t) PROVE BusyCounted'
  <2>1. nIdle' \in Int /\ nTotal' \in Int /\ nTotal' - nIdle' = nTotal - nIdle + 1
    BY SMTT(30), <1>6 DEF Wake, QueueInv, QueueTypes
  <2>2. vChecks[t] = {} BY <1>6 DEF Wake, QueueInv, Phases
  <2>3. t \notin Busy /\ Busy' = Busy \cup {t}
    BY <1>6, <2>2 DEF Busy, Wake, QueueInv, QueueTypes
  <2> QED BY <2>1, <2>3, BusyChange
<1>7. CASE \/ \E t \in Threads : SpuriousWake(t)
           \/ \E w \in Workers : InterruptWorker(w)
           \/ InterruptMaster
  BY Zenon, <1>7 DEF BusyCounted, Busy, SpuriousWake, InterruptWorker, InterruptMaster, QueueInv, QueueTypes
<1> QED BY <1>1, <1>2, <1>3, <1>4, <1>5, <1>6, <1>7 DEF QueueNext

(* The constructor's first assertion, nTotal == nIdle, holds between blocks *)
(* whenever it is read under the mutex, however often threads were          *)
(* interrupted: nobody is busy then.                                        *)
THEOREM EveryoneIdle == QueueSpec => []IdleBetweenBlocks
<1>1. QueueInv /\ BusyCounted => IdleBetweenBlocks
  <2> SUFFICES ASSUME QueueInv, BusyCounted, pc[Master] = "out", MutexFree PROVE nTotal = nIdle
    BY DEF IdleBetweenBlocks
  <2>1. Busy = {} BY DEF QueueInv, QueueFinished, Phases, MutexFree, Busy
  <2> QED BY <2>1, FS_EmptySet DEF BusyCounted, QueueInv, QueueTypes
<1> QED BY <1>1, InitBusy, NextBusy, Invariance, PTL DEF QueueSpec
=============================================================================
