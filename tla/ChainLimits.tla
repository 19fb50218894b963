---------------------------- MODULE ChainLimits ----------------------------
(***************************************************************************)
(* The block size limit of this chain: CChain::SetTip recomputes it at the *)
(* end of every period from the sizes of the period's blocks, and keeps    *)
(* the limits of the active chain in mapBlockSizeLimits while blocks are   *)
(* connected and disconnected.  ProcessBlock checks what arrives against   *)
(* the limit at the tip, ConnectBlock against the limit at the block's     *)
(* height.                                                                 *)
(*                                                                         *)
(* A block is its size, and a chain the sequence of its blocks' sizes, the *)
(* genesis block first: chain[h + 1] has height h.                         *)
(***************************************************************************)
EXTENDS Integers, Sequences, FiniteSets, FiniteSetsExt

CONSTANTS
  Sizes,                         \* the sizes a block may have
  GenesisSize,
  MIN_MAX_BLOCK_SIZE,
  MAX_BLOCK_SIZE_RECALC_PERIOD,
  UINT_RANGE,                    \* 2^32: limits are unsigned ints
  MaxHeight                      \* bound on the height of chains

Period == MAX_BLOCK_SIZE_RECALC_PERIOD

ASSUME LimitsAssumption ==
  /\ Sizes \subseteq Nat
  /\ GenesisSize \in 0 .. MIN_MAX_BLOCK_SIZE
  /\ Period \in Nat \ {0}
  /\ MaxHeight \in Nat
  /\ MIN_MAX_BLOCK_SIZE \in Nat \ {0}
  /\ UINT_RANGE \in Nat /\ 2 * MIN_MAX_BLOCK_SIZE < UINT_RANGE

VARIABLES
  chain,               \* chainActive: the sizes of its blocks
  mapBlockSizeLimits   \* a function on the heights it has entries for

vars == <<chain, mapBlockSizeLimits>>

Height(c) == Len(c) - 1

-----------------------------------------------------------------------------
(* CChain                                                                  *)

\* CChain::MaxBlockSize, over the limits m.
MaxBlockSize(m, h) ==
  LET start == h - (h % Period) IN
  IF start \in DOMAIN m THEN m[start] ELSE MIN_MAX_BLOCK_SIZE

\* Arithmetic on unsigned ints.
Unsigned(n) == n % UINT_RANGE

\* The sizes of the blocks of the period that ends at height h.
PeriodSizes(c, h) == SubSeq(c, h - (h % Period) + 1, h + 1)

\* CBlockIndex::nChainSize: that of the parent and the block's own size.
nChainSize(c) ==
  LET size[h \in -1 .. Height(c)] == IF h = -1 THEN 0 ELSE size[h - 1] + c[h + 1]
  IN  size

\* The mean, from the difference of two nChainSize, rounded down.
AverageSize(c, h) ==
  LET nFirstHeight == h - (h % Period) IN
  Unsigned((nChainSize(c)[h] - nChainSize(c)[nFirstHeight] + c[nFirstHeight + 1]) \div Period)

\* The element at index i, from 0, of the array s once it is sorted: at most i
\* elements are less, and more than i are not greater.
SortedAt(s, i) ==
  CHOOSE x \in Range(s) :
    /\ Cardinality({k \in DOMAIN s : s[k] < x}) <= i
    /\ Cardinality({k \in DOMAIN s : s[k] <= x}) > i

\* The element in the middle, the upper one of two.
MedianSize(c, h) == SortedAt(PeriodSizes(c, h), Period \div 2)

\* Blocks take up two thirds of the limit in the mean, and more than a half of
\* it in the median.
MayGrow(c, h, nPrevLimit) ==
  /\ Unsigned(3 * AverageSize(c, h)) > Unsigned(2 * nPrevLimit)
  /\ Unsigned(MedianSize(c, h) * 2) > nPrevLimit

Grown(nPrevLimit) == Unsigned(11 * nPrevLimit) \div 10

\* Fault: the limit is what the multiplication yields.
NewLimitUnguarded(c, h, nPrevLimit) ==
  IF MayGrow(c, h, nPrevLimit) THEN Grown(nPrevLimit) ELSE nPrevLimit

\* The limit after the period that ends at height h.
NewLimit(c, h, nPrevLimit) ==
  Max({IF MayGrow(c, h, nPrevLimit) THEN Grown(nPrevLimit) ELSE nPrevLimit,
       nPrevLimit, MIN_MAX_BLOCK_SIZE})

Extended(m, h, limit) ==
  [k \in DOMAIN m \cup {h} |-> IF k = h THEN limit ELSE m[k]]

\* Fault: an entry lives on when the block that gave it is disconnected.
StillKnownTooLong(m, h) == {k \in DOMAIN m : k <= h + 2}

\* The entries that stay when the tip is at height h.
StillKnown(m, h) == {k \in DOMAIN m : k <= h + 1}

\* The limits m with an entry for the period that starts at height h.
WithLimit(m, c, h) ==
  IF h \in DOMAIN m THEN m
  ELSE Extended(m, h, NewLimit(c, h - 1, MaxBlockSize(m, h - 1)))

\* SetTip for the active chain, from the limits old: the entries beyond the tip
\* go, and every period that has ended and has no entry gets one, in order.
SetTip(old, c) ==
  LET after[n \in 0 .. Len(c) \div Period] ==
        IF n = 0 THEN [k \in StillKnown(old, Height(c)) |-> old[k]]
        ELSE WithLimit(after[n - 1], c, n * Period)
  IN after[Len(c) \div Period]

\* SetTip(NULL).
NoChainLimits == [h \in {0} |-> MIN_MAX_BLOCK_SIZE]

-----------------------------------------------------------------------------
(* What happens to the active chain                                        *)

Init ==
  /\ chain = <<GenesisSize>>
  /\ mapBlockSizeLimits = SetTip(NoChainLimits, chain)

\* ConnectTip of a block of the size given: within the limit at the tip that
\* ProcessBlock tests and the limit at its height that ConnectBlock tests.
ConnectTip(size) ==
  /\ Height(chain) < MaxHeight
  /\ size <= MaxBlockSize(mapBlockSizeLimits, Height(chain) + 1)
  /\ chain' = Append(chain, size)
  /\ mapBlockSizeLimits' = SetTip(mapBlockSizeLimits, chain')

\* DisconnectTip.
DisconnectTip ==
  /\ Height(chain) > 0
  /\ chain' = SubSeq(chain, 1, Len(chain) - 1)
  /\ mapBlockSizeLimits' = SetTip(mapBlockSizeLimits, chain')

\* LoadBlockIndexDB: the limits of a whole chain at once.
LoadBlockIndexDB ==
  /\ mapBlockSizeLimits' = SetTip(NoChainLimits, chain)
  /\ UNCHANGED chain

Next ==
  \/ \E size \in Sizes : ConnectTip(size)
  \/ DisconnectTip
  \/ LoadBlockIndexDB

Spec == Init /\ [][Next]_vars

-----------------------------------------------------------------------------
(* Properties                                                              *)

PeriodEnds(c) == {h \in 0 .. Height(c) : (h + 1) % Period = 0}

\* The limits are those of the active chain, whatever blocks were connected and
\* disconnected before: there is an entry for the first period and for each
\* period that follows one of the chain's, and each is what the blocks before
\* it yield.  Two nodes with the same chain would otherwise disagree on which
\* blocks are valid.
LimitsOfChain ==
  /\ DOMAIN mapBlockSizeLimits = {0} \cup {h + 1 : h \in PeriodEnds(chain)}
  /\ mapBlockSizeLimits[0] = MIN_MAX_BLOCK_SIZE
  /\ \A h \in PeriodEnds(chain) :
       mapBlockSizeLimits[h + 1] =
         NewLimit(chain, h, mapBlockSizeLimits[h + 1 - Period])

\* The sum of the elements of a sequence.
Sum(s) ==
  LET sum[n \in 0 .. Len(s)] == IF n = 0 THEN 0 ELSE sum[n - 1] + s[n]
  IN  sum[Len(s)]

\* From one period to the next the limit never falls, also where the
\* multiplication wraps around, and rises by a tenth at most; and it rises only
\* if at least half of the period's blocks are larger than half of the old
\* limit and together they fill more than two thirds of it.
GrowthJustified ==
  \A h \in PeriodEnds(chain) :
    LET old == mapBlockSizeLimits[h + 1 - Period]
        new == mapBlockSizeLimits[h + 1]
        large == {k \in h + 1 - Period .. h : 2 * chain[k + 1] > old}
    IN
    /\ old <= new /\ 10 * new <= 11 * old
    /\ new > old =>
         /\ 2 * Cardinality(large) >= Period
         /\ 3 * Sum(PeriodSizes(chain, h)) > 2 * old * Period

=============================================================================
