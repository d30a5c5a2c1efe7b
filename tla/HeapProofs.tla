----------------------------- MODULE HeapProofs -----------------------------
(***************************************************************************)
(* Proofs about module Heap, for every arena, table size and set of        *)
(* request sizes that satisfies the assumptions of that module.            *)
(***************************************************************************)
EXTENDS Heap, FiniteSetTheorems, Induction, TLAPS

\* The inductive invariant: the properties need each other.  A search stays
\* in the chain because the chain is unbroken, kfree hits the block of the
\* client because the table is exact, and coalescing ends because its cursor
\* never leaves the chain.
IndInv ==
    /\ TypeOK
    /\ Tiling
    /\ Coalesced
    /\ GrantsAreUsedBlocks
    /\ TrackedAreGranted
    /\ SweepLeavesNothing
    /\ LoopInvariant

-----------------------------------------------------------------------------
(***************************************************************************)
(* Facts about the helpers.                                                *)
(***************************************************************************)

\* ALIGN8 never returns less than it is given, for the sizes clients use.
LEMMA AlignUp ==
    ASSUME NEW n \in Requests
    PROVE  Align8(n) \in Nat /\ Align8(n) >= n
<1>1. n \in Nat /\ WordSize \in Nat /\ n + 7 < WordSize
  BY RequestAssumption
<1>2. (n + 7) % WordSize = n + 7
  BY <1>1
<1>. QED BY <1>1, <1>2 DEF Align8

\* In an unbroken chain a header is_block_valid, its block ends in the arena,
\* and next_block returns the block that starts there.
LEMMA ChainStep ==
    ASSUME TypeOK, Tiling, NEW h \in DOMAIN hdrs
    PROVE  /\ h \in Nat /\ h >= HeapStart /\ hdrs[h].size \in Nat
           /\ hdrs[h] \in Header
           /\ BlockEnd(h) \in Nat
           /\ BlockEnd(h) = h + HeaderSize + hdrs[h].size
           /\ h + HeaderSize <= HeapEnd
           /\ BlockEnd(h) <= HeapEnd
           /\ is_block_valid(h)
           /\ next_block(h) = NULL => BlockEnd(h) = HeapEnd
           /\ next_block(h) # NULL => /\ next_block(h) = BlockEnd(h)
                                      /\ BlockEnd(h) \in DOMAIN hdrs
                                      /\ BlockEnd(h) < HeapEnd
<1>1. h \in Nat /\ h >= HeapStart /\ hdrs[h] \in Header /\ HeapEnd \in Nat
  BY ArenaAssumption DEF TypeOK, HeapEnd
<1>2. hdrs[h].size \in Nat
  BY <1>1 DEF Header
<1>3. BlockEnd(h) = h + HeaderSize + hdrs[h].size
  BY DEF BlockEnd
<1>4. BlockEnd(h) = HeapEnd \/ BlockEnd(h) \in DOMAIN hdrs
  BY DEF Tiling, ChainLinked
<1>5. BlockEnd(h) <= HeapEnd
  BY <1>1, <1>4, ArenaAssumption DEF TypeOK, HeapEnd
<1>. QED BY <1>1, <1>2, <1>3, <1>4, <1>5, ArenaAssumption DEF is_block_valid, next_block, HeaderSize, NULL, HeapEnd

\* A change of flags alone leaves the chain as it is.
LEMMA FlagsKeepTiling ==
    ASSUME TypeOK, Tiling, DOMAIN hdrs' = DOMAIN hdrs,
           \A h \in DOMAIN hdrs : hdrs'[h].size = hdrs[h].size
    PROVE  Tiling' /\ \A h \in DOMAIN hdrs : BlockEnd(h)' = BlockEnd(h)
<1>1. \A h \in DOMAIN hdrs : BlockEnd(h)' = BlockEnd(h)
  BY DEF BlockEnd
<1>2. HeapEnd' = HeapEnd
  BY DEF HeapEnd
<1>. QED BY <1>1, <1>2 DEF Tiling, ChainStarts, ChainLinked, ChainOrdered, ChainCovers

\* Splitting block h cuts it in two and moves no other block.
LEMMA SplitKeepsTiling ==
    ASSUME TypeOK, Tiling, NEW h \in DOMAIN hdrs, NEW w \in Nat,
           hdrs[h].size - w > HeaderSize,
           DOMAIN hdrs' = DOMAIN hdrs \cup {h + HeaderSize + w},
           hdrs'[h + HeaderSize + w].size = hdrs[h].size - w - HeaderSize,
           hdrs'[h].size = w,
           \A g \in DOMAIN hdrs \ {h} : hdrs'[g].size = hdrs[g].size
    PROVE  /\ Tiling'
           /\ h + HeaderSize + w \notin DOMAIN hdrs
           /\ BlockEnd(h)' = h + HeaderSize + w
           /\ BlockEnd(h + HeaderSize + w)' = BlockEnd(h)
           /\ \A g \in DOMAIN hdrs \ {h} : BlockEnd(g)' = BlockEnd(g)
<1>. DEFINE n == h + HeaderSize + w
<1>1. \A g \in DOMAIN hdrs : /\ g \in Nat /\ g >= HeapStart
                             /\ BlockEnd(g) \in Nat /\ g + HeaderSize <= BlockEnd(g)
                             /\ BlockEnd(g) <= HeapEnd
  BY ChainStep DEF HeaderSize
<1>2. /\ h \in Nat /\ n \in Nat /\ h < n /\ n < BlockEnd(h) /\ hdrs[h].size \in Nat
      /\ BlockEnd(h) = h + HeaderSize + hdrs[h].size
  BY ChainStep DEF HeaderSize
<1>3. n \notin DOMAIN hdrs
  BY <1>1, <1>2 DEF Tiling, ChainOrdered
<1>4. BlockEnd(h)' = n
  BY DEF BlockEnd
<1>5. BlockEnd(n)' = BlockEnd(h)
  BY <1>2 DEF BlockEnd, HeaderSize
<1>6. \A g \in DOMAIN hdrs \ {h} : BlockEnd(g)' = BlockEnd(g)
  BY DEF BlockEnd
<1>7. HeapEnd' = HeapEnd
  BY DEF HeapEnd
<1>8. ChainStarts'
  BY DEF Tiling, ChainStarts
<1>9. ChainLinked'
  BY <1>4, <1>5, <1>6, <1>7 DEF Tiling, ChainLinked
<1>10. ChainOrdered'
  <2>. SUFFICES ASSUME NEW g \in DOMAIN hdrs', NEW k \in DOMAIN hdrs', g < k
                PROVE  BlockEnd(g)' <= k
    BY DEF ChainOrdered
  <2>0. \A x, y \in DOMAIN hdrs : x < y => BlockEnd(x) <= y
    BY DEF Tiling, ChainOrdered
  <2>1. CASE g = n
    BY <1>1, <1>2, <1>3, <1>5, <2>0, <2>1
  <2>2. CASE g = h
    BY <1>1, <1>2, <1>3, <1>4, <2>0, <2>2
  <2>3. CASE g # n /\ g # h
    BY <1>1, <1>2, <1>3, <1>6, <2>0, <2>3
  <2>. QED BY <2>1, <2>2, <2>3
<1>11. ChainCovers'
  <2>. SUFFICES ASSUME NEW a \in HeapStart .. (HeapEnd - 1)
                PROVE  \E k \in DOMAIN hdrs' : k <= a /\ a < BlockEnd(k)'
    BY <1>7 DEF ChainCovers
  <2>0. a \in Int
    BY ArenaAssumption DEF HeapEnd
  <2>1. PICK k \in DOMAIN hdrs : k <= a /\ a < BlockEnd(k)
    BY DEF Tiling, ChainCovers
  <2>2. CASE k # h
    BY <1>6, <2>1, <2>2
  <2>3. CASE k = h
    BY <1>2, <1>4, <1>5, <2>0, <2>1, <2>3
  <2>. QED BY <2>2, <2>3
<1>. QED BY <1>3, <1>4, <1>5, <1>6, <1>8, <1>9, <1>10, <1>11 DEF Tiling

\* Merging block h with the block n behind it moves no other block.
LEMMA MergeKeepsTiling ==
    ASSUME TypeOK, Tiling, NEW h \in DOMAIN hdrs, NEW n \in DOMAIN hdrs,
           n = BlockEnd(h),
           DOMAIN hdrs' = DOMAIN hdrs \ {n},
           hdrs'[h].size = hdrs[h].size + HeaderSize + hdrs[n].size,
           \A g \in DOMAIN hdrs \ {h, n} : hdrs'[g].size = hdrs[g].size
    PROVE  /\ Tiling'
           /\ h < n
           /\ BlockEnd(h)' = BlockEnd(n)
           /\ \A g \in DOMAIN hdrs \ {h, n} : BlockEnd(g)' = BlockEnd(g) /\ BlockEnd(g) # n
<1>1. \A g \in DOMAIN hdrs : /\ g \in Nat /\ g >= HeapStart
                             /\ BlockEnd(g) \in Nat /\ g + HeaderSize <= BlockEnd(g)
                             /\ BlockEnd(g) <= HeapEnd
  BY ChainStep DEF HeaderSize
<1>2. \A x, y \in DOMAIN hdrs : x < y => BlockEnd(x) <= y
  BY DEF Tiling, ChainOrdered
<1>3. h < n
  BY <1>1 DEF HeaderSize
<1>4. BlockEnd(h)' = BlockEnd(n)
  <2>1. /\ hdrs[h].size \in Nat /\ hdrs[n].size \in Nat /\ h \in Nat /\ n \in Nat
        /\ BlockEnd(h) = h + HeaderSize + hdrs[h].size
        /\ BlockEnd(n) = n + HeaderSize + hdrs[n].size
    BY ChainStep
  <2>2. BlockEnd(h)' = h + HeaderSize + hdrs'[h].size
    BY DEF BlockEnd
  <2>. QED BY <2>1, <2>2 DEF HeaderSize
<1>5. \A g \in DOMAIN hdrs \ {h, n} : BlockEnd(g)' = BlockEnd(g)
  BY DEF BlockEnd
<1>6. \A g \in DOMAIN hdrs \ {h, n} : BlockEnd(g) # n
  <2>. SUFFICES ASSUME NEW g \in DOMAIN hdrs, g # h, g # n, BlockEnd(g) = n PROVE FALSE
    OBVIOUS
  <2>1. CASE g < h
    BY <1>1, <1>2, <1>3, <2>1
  <2>2. CASE h < g
    BY <1>1, <1>2, <2>2 DEF HeaderSize
  <2>. QED BY <1>1, <2>1, <2>2
<1>7. HeapEnd' = HeapEnd
  BY DEF HeapEnd
<1>8. ChainStarts'
  BY <1>1, <1>3 DEF Tiling, ChainStarts
<1>9. ChainLinked'
  <2>1. BlockEnd(n) # n
    BY <1>1 DEF HeaderSize
  <2>. QED BY <1>4, <1>5, <1>6, <1>7, <2>1 DEF Tiling, ChainLinked
<1>10. ChainOrdered'
  <2>. SUFFICES ASSUME NEW g \in DOMAIN hdrs', NEW k \in DOMAIN hdrs', g < k
                PROVE  BlockEnd(g)' <= k
    BY DEF ChainOrdered
  <2>1. CASE g = h
    <3>1. n <= k
      BY <1>2, <2>1
    <3>2. n < k
      BY <1>1, <3>1
    <3>. QED BY <1>2, <1>4, <2>1, <3>2
  <2>2. CASE g # h
    BY <1>2, <1>5, <2>2
  <2>. QED BY <2>1, <2>2
<1>11. ChainCovers'
  <2>. SUFFICES ASSUME NEW a \in HeapStart .. (HeapEnd - 1)
                PROVE  \E k \in DOMAIN hdrs' : k <= a /\ a < BlockEnd(k)'
    BY <1>7 DEF ChainCovers
  <2>0. a \in Int
    BY ArenaAssumption DEF HeapEnd
  <2>1. PICK k \in DOMAIN hdrs : k <= a /\ a < BlockEnd(k)
    BY DEF Tiling, ChainCovers
  <2>2. CASE k # h /\ k # n
    BY <1>5, <2>1, <2>2
  <2>3. CASE k = h \/ k = n
    <3>1. h <= a /\ a < BlockEnd(n)
      BY <1>1, <1>3, <2>0, <2>1, <2>3 DEF HeaderSize
    <3>2. h \in DOMAIN hdrs'
      BY <1>1, <1>3
    <3>. QED BY <1>4, <3>1, <3>2
  <2>. QED BY <2>2, <2>3
<1>. QED BY <1>3, <1>4, <1>5, <1>6, <1>8, <1>9, <1>10, <1>11 DEF Tiling

-----------------------------------------------------------------------------
(***************************************************************************)
(* Each action preserves the invariant.                                    *)
(***************************************************************************)

\* mm_init establishes the invariant.
LEMMA InitInv == Init => IndInv
<1>. SUFFICES ASSUME Init PROVE IndInv
  OBVIOUS
<1>1. DOMAIN hdrs = {HeapStart} /\ hdrs[HeapStart] = [size |-> HeapSize - HeaderSize, used |-> BLOCK_FREE]
  BY DEF Init
<1>2. HeapStart \in Nat \ {0} /\ HeapSize \in Nat /\ HeapSize > HeaderSize /\ HeapEnd \in Nat
      /\ HeapStart <= HeapEnd
  BY ArenaAssumption DEF HeapEnd
<1>3. BlockEnd(HeapStart) = HeapEnd
  BY <1>1, <1>2 DEF BlockEnd, HeapEnd, HeaderSize
<1>4. TypeOK
  <2>1. hdrs \in [DOMAIN hdrs -> Header]
    BY <1>1, <1>2 DEF Init, Header, HeaderSize, BLOCK_FREE
  <2>. QED BY <1>1, <1>2, <2>1, TrackedAssumption DEF Init, TypeOK, Slots, Addr, NULL
<1>5. Tiling
  BY <1>1, <1>2, <1>3 DEF Tiling, ChainStarts, ChainLinked, ChainOrdered, ChainCovers
<1>6. Coalesced
  BY <1>1, <1>2, <1>3 DEF Coalesced, HeapEnd, HeaderSize
<1>7. GrantsAreUsedBlocks
  BY <1>1 DEF Init, GrantsAreUsedBlocks, IsFree
<1>8. TrackedAreGranted /\ SweepLeavesNothing /\ LoopInvariant
  BY DEF Init, TrackedAreGranted, SweepLeavesNothing, LoopInvariant
<1>. QED BY <1>4, <1>5, <1>6, <1>7, <1>8 DEF IndInv

\* Entering kmalloc: the search starts at the first block.
LEMMA EnterKmalloc ==
    ASSUME IndInv, NEW n \in Requests, kmalloc(n)
    PROVE  IndInv'
<1>1. CASE n = 0
  BY <1>1 DEF kmalloc, vars, IndInv, TypeOK, Tiling, ChainStarts, ChainLinked, ChainOrdered,
      ChainCovers, Coalesced, GrantsAreUsedBlocks, TrackedAreGranted, SweepLeavesNothing,
      LoopInvariant, BlockEnd, IsFree, Fits, Wanted
<1>2. CASE n # 0
  <2>0. /\ pc = "idle" /\ pc' = "search" /\ cur' = HeapStart /\ req' = n
        /\ UNCHANGED <<hdrs, tracked, slot, live>>
    BY <1>2 DEF kmalloc, first_block
  <2>1. TypeOK'
    BY <2>0, ArenaAssumption DEF IndInv, TypeOK, HeapEnd
  <2>2. Tiling'
    BY <2>0, FlagsKeepTiling DEF IndInv
  <2>3. Coalesced'
    BY <2>0 DEF IndInv, Coalesced, IsFree, BlockEnd
  <2>4. GrantsAreUsedBlocks' /\ TrackedAreGranted' /\ SweepLeavesNothing'
    BY <2>0 DEF IndInv, GrantsAreUsedBlocks, TrackedAreGranted, SweepLeavesNothing, IsFree
  <2>5. \A h \in DOMAIN hdrs : ~(h < HeapStart)
    BY ChainStep, ArenaAssumption DEF IndInv
  <2>6. LoopInvariant'
    BY <1>2, <2>0, <2>5 DEF IndInv, LoopInvariant, Tiling, ChainStarts
  <2>. QED BY <2>1, <2>2, <2>3, <2>4, <2>6 DEF IndInv
<1>. QED BY <1>1, <1>2

\* The search moves to the next block, or gives up.
LEMMA SearchKeepsInv ==
    ASSUME IndInv, KmallocAdvance \/ KmallocFail
    PROVE  IndInv'
<1>0. UNCHANGED <<hdrs, tracked, slot, live>> /\ pc = "search" /\ cur \in DOMAIN hdrs /\ slot = 0
  BY DEF KmallocAdvance, KmallocFail, IndInv, LoopInvariant
<1>1. Tiling'
  BY <1>0, FlagsKeepTiling DEF IndInv
<1>2. GrantsAreUsedBlocks' /\ TrackedAreGranted' /\ SweepLeavesNothing'
  BY <1>0 DEF IndInv, GrantsAreUsedBlocks, TrackedAreGranted, SweepLeavesNothing, IsFree
<1>3. CASE KmallocAdvance
  <2>1. pc' = "search" /\ req' = req /\ cur' = BlockEnd(cur) /\ BlockEnd(cur) \in DOMAIN hdrs
        /\ ~Fits(cur)
    BY <1>0, <1>3, ChainStep DEF KmallocAdvance, IndInv
  <2>2. TypeOK'
    BY <1>0, <2>1 DEF IndInv, TypeOK
  <2>3. Coalesced'
    BY <1>0, <2>1 DEF IndInv, Coalesced, IsFree, BlockEnd
  <2>4. ASSUME NEW h \in DOMAIN hdrs, h < BlockEnd(cur) PROVE ~Fits(h)
    <3>1. h \in Nat /\ cur \in Nat /\ BlockEnd(cur) \in Nat
      BY <1>0, ChainStep DEF IndInv
    <3>2. ~(cur < h)
      BY <1>0, <2>4, <3>1 DEF IndInv, Tiling, ChainOrdered
    <3>. QED BY <1>0, <2>1, <3>1, <3>2 DEF IndInv, LoopInvariant
  <2>5. LoopInvariant'
    BY <1>0, <2>1, <2>4 DEF IndInv, LoopInvariant, Fits, IsFree, Wanted
  <2>. QED BY <1>1, <1>2, <2>2, <2>3, <2>5 DEF IndInv
<1>4. CASE KmallocFail
  <2>1. pc' = "idle" /\ cur' = HeapStart /\ req' = 0
    BY <1>4 DEF KmallocFail
  <2>2. TypeOK'
    BY <1>0, <2>1, ArenaAssumption DEF IndInv, TypeOK, HeapEnd
  <2>3. Coalesced'
    BY <1>0, <2>1 DEF IndInv, Coalesced, IsFree, BlockEnd
  <2>4. LoopInvariant'
    BY <1>0, <2>1 DEF IndInv, LoopInvariant
  <2>. QED BY <1>1, <1>2, <2>2, <2>3, <2>4 DEF IndInv
<1>. QED BY <1>3, <1>4

\* What the allocating step does to the headers, split or not: the block at
\* the cursor is used, large enough and still where it was, a block cut from
\* it is free, and no other header changes.
LEMMA TakeEffect ==
    ASSUME IndInv, KmallocTake
    PROVE  /\ cur \in DOMAIN hdrs /\ IsFree(cur) /\ slot = 0
           /\ req \in Requests
           /\ hdrs' \in [DOMAIN hdrs' -> Header]
           /\ DOMAIN hdrs \subseteq DOMAIN hdrs'
           /\ DOMAIN hdrs' \subseteq HeapStart .. HeapEnd
           /\ hdrs'[cur].used = BLOCK_USED
           /\ hdrs'[cur].size >= req
           /\ \A g \in DOMAIN hdrs \ {cur} : hdrs'[g] = hdrs[g]
           /\ \A g \in DOMAIN hdrs' \ DOMAIN hdrs : hdrs'[g].used = BLOCK_FREE
           /\ Tiling'
           /\ Coalesced'
<1>1. cur \in DOMAIN hdrs /\ slot = 0 /\ req \in Requests /\ pc = "search"
  BY DEF KmallocTake, IndInv, LoopInvariant, TypeOK
<1>2. PICK c \in DOMAIN hdrs, w \in Nat : c = cur /\ w = Align8(req) /\ w >= req /\ req \in Nat
  BY <1>1, AlignUp, RequestAssumption
<1>. DEFINE new == c + HeaderSize + w
<1>3. /\ IsFree(c) /\ hdrs[c].size >= w
      /\ hdrs' = [split_block(c, w) EXCEPT ![c].used = BLOCK_USED]
      /\ pc' = "idle"
  BY <1>2 DEF KmallocTake, Fits, Wanted
<1>4. /\ c \in Nat /\ c >= HeapStart /\ hdrs[c].size \in Nat /\ hdrs[c] \in Header
      /\ BlockEnd(c) = c + HeaderSize + hdrs[c].size
      /\ BlockEnd(c) <= HeapEnd
  BY ChainStep DEF IndInv
<1>5. \A g \in DOMAIN hdrs : /\ g \in Nat /\ BlockEnd(g) \in Nat
                             /\ g + HeaderSize <= BlockEnd(g)
  BY ChainStep DEF IndInv, HeaderSize
<1>6. \A x, y \in DOMAIN hdrs : x < y => BlockEnd(x) <= y
  BY DEF IndInv, Tiling, ChainOrdered
<1>7. \A h \in DOMAIN hdrs : IsFree(h) /\ BlockEnd(h) \in DOMAIN hdrs => ~IsFree(BlockEnd(h))
  BY <1>1 DEF IndInv, Coalesced
<1>8. HeapEnd \in Nat /\ DOMAIN hdrs \subseteq HeapStart .. HeapEnd /\ hdrs \in [DOMAIN hdrs -> Header]
  BY ArenaAssumption DEF HeapEnd, IndInv, TypeOK
<1>9. CASE hdrs[c].size - w <= HeaderSize + MinSplitPayload
  <2>1. hdrs' = [hdrs EXCEPT ![c].used = BLOCK_USED]
    BY <1>3, <1>9 DEF split_block
  <2>2. /\ DOMAIN hdrs' = DOMAIN hdrs /\ \A g \in DOMAIN hdrs \ {c} : hdrs'[g] = hdrs[g]
        /\ hdrs'[c].used = BLOCK_USED /\ hdrs'[c].size = hdrs[c].size
        /\ hdrs' \in [DOMAIN hdrs' -> Header]
    BY <1>8, <2>1 DEF Header, BLOCK_USED
  <2>3. Tiling' /\ \A h \in DOMAIN hdrs : BlockEnd(h)' = BlockEnd(h)
    BY <2>2, FlagsKeepTiling DEF IndInv
  <2>4. Coalesced'
    BY <1>3, <1>7, <2>2, <2>3 DEF Coalesced, IsFree, BLOCK_USED, BLOCK_FREE
  <2>. QED BY <1>1, <1>2, <1>3, <1>4, <1>8, <2>2, <2>3, <2>4
<1>10. CASE ~(hdrs[c].size - w <= HeaderSize + MinSplitPayload)
  <2>0. /\ hdrs[c].size - w > HeaderSize
        /\ new \in Nat /\ new > c /\ new < BlockEnd(c)
    BY <1>2, <1>4, <1>10 DEF HeaderSize, MinSplitPayload
  <2>a. new \notin DOMAIN hdrs
    BY <1>4, <1>5, <1>6, <2>0
  <2>1. split_block(c, w) =
            [a \in DOMAIN hdrs \cup {new} |->
                 CASE a = new -> [size |-> hdrs[c].size - w - HeaderSize, used |-> BLOCK_FREE]
                   [] a = c   -> [size |-> w, used |-> hdrs[c].used]
                   [] OTHER   -> hdrs[a]]
    BY <1>10 DEF split_block
  <2>2. /\ DOMAIN hdrs' = DOMAIN hdrs \cup {new}
        /\ hdrs'[new] = [size |-> hdrs[c].size - w - HeaderSize, used |-> BLOCK_FREE]
        /\ hdrs'[c] = [size |-> w, used |-> BLOCK_USED]
        /\ \A g \in DOMAIN hdrs \ {c} : hdrs'[g] = hdrs[g]
    BY <1>3, <2>0, <2>a, <2>1
  <2>3. hdrs' \in [DOMAIN hdrs' -> Header]
    <3>1. hdrs'[new] \in Header /\ hdrs'[c] \in Header
      BY <1>2, <1>4, <2>0, <2>2 DEF Header, HeaderSize, BLOCK_FREE, BLOCK_USED
    <3>2. \A g \in DOMAIN hdrs' : hdrs'[g] \in Header
      BY <1>8, <2>2, <3>1
    <3>3. hdrs' = [g \in DOMAIN hdrs' |-> hdrs'[g]]
      BY <1>3, <2>1
    <3>. QED BY <3>2, <3>3
  <2>4. /\ Tiling'
        /\ BlockEnd(c)' = new
        /\ BlockEnd(new)' = BlockEnd(c)
        /\ \A g \in DOMAIN hdrs \ {c} : BlockEnd(g)' = BlockEnd(g)
    <3>1. /\ hdrs'[new].size = hdrs[c].size - w - HeaderSize
          /\ hdrs'[c].size = w
          /\ \A g \in DOMAIN hdrs \ {c} : hdrs'[g].size = hdrs[g].size
      BY <2>2
    <3>2. TypeOK /\ Tiling
      BY DEF IndInv
    <3>. QED BY <2>0, <2>2, <3>1, <3>2, SplitKeepsTiling
  <2>5. Coalesced'
    <3>. SUFFICES ASSUME NEW h \in DOMAIN hdrs', hdrs'[h].used = BLOCK_FREE,
                         BlockEnd(h)' \in DOMAIN hdrs', hdrs'[BlockEnd(h)'].used = BLOCK_FREE
                  PROVE  FALSE
      BY <1>3 DEF Coalesced, IsFree
    <3>1. h # c
      BY <2>2 DEF BLOCK_FREE, BLOCK_USED
    <3>2. CASE h = new
      <4>1. BlockEnd(c) \in DOMAIN hdrs /\ BlockEnd(c) # c
        BY <1>4, <2>0, <2>2, <2>4, <3>2
      <4>. QED BY <1>3, <1>7, <2>2, <2>4, <3>2, <4>1 DEF IsFree
    <3>3. CASE h # new
      <4>1. h \in DOMAIN hdrs /\ BlockEnd(h)' = BlockEnd(h) /\ IsFree(h)
        BY <2>2, <2>4, <3>1, <3>3 DEF IsFree
      <4>2. BlockEnd(h) # new
        <5>1. h \in Nat /\ BlockEnd(h) \in Nat /\ h <= BlockEnd(h)
          BY <1>5, <4>1 DEF HeaderSize
        <5>2. CASE h < c
          BY <1>4, <1>6, <2>0, <4>1, <5>1, <5>2
        <5>3. CASE c < h
          BY <1>4, <1>5, <1>6, <2>0, <4>1, <5>1, <5>3
        <5>. QED BY <1>4, <3>1, <5>1, <5>2, <5>3
      <4>3. BlockEnd(h) # c
        BY <2>2, <4>1 DEF BLOCK_FREE, BLOCK_USED
      <4>. QED BY <1>7, <2>2, <4>1, <4>2, <4>3 DEF IsFree
    <3>. QED BY <3>2, <3>3
  <2>6. DOMAIN hdrs' \subseteq HeapStart .. HeapEnd
    BY <1>4, <1>5, <1>8, <2>0, <2>2, ArenaAssumption
  <2>7. hdrs'[c].used = BLOCK_USED /\ hdrs'[c].size >= req
    BY <1>2, <2>2
  <2>. QED BY <1>1, <1>2, <1>3, <2>2, <2>3, <2>4, <2>5, <2>6, <2>7
<1>. QED BY <1>9, <1>10

\* A client that is handed a block holds it and is in the table, if there
\* was room for it.
LEMMA TakeKeepsInv ==
    ASSUME IndInv, KmallocTake
    PROVE  IndInv'
<1>. DEFINE ptr == cur + HeaderSize
<1>1. /\ cur \in DOMAIN hdrs /\ IsFree(cur) /\ slot = 0
      /\ req \in Requests
      /\ hdrs' \in [DOMAIN hdrs' -> Header]
      /\ DOMAIN hdrs \subseteq DOMAIN hdrs'
      /\ DOMAIN hdrs' \subseteq HeapStart .. HeapEnd
      /\ hdrs'[cur].used = BLOCK_USED
      /\ hdrs'[cur].size >= req
      /\ \A g \in DOMAIN hdrs \ {cur} : hdrs'[g] = hdrs[g]
      /\ \A g \in DOMAIN hdrs' \ DOMAIN hdrs : hdrs'[g].used = BLOCK_FREE
      /\ Tiling'
      /\ Coalesced'
  BY TakeEffect
<1>2. /\ pc' = "idle" /\ cur' = HeapStart /\ req' = 0 /\ slot' = slot
      /\ track_add(ptr)
      /\ live' = [p \in DOMAIN live \cup {ptr} |-> IF p = ptr THEN req ELSE live[p]]
  BY DEF KmallocTake
<1>3. cur \in Nat /\ ptr \in HeapStart .. HeapEnd /\ ptr # NULL
  BY <1>1, ChainStep, ArenaAssumption DEF IndInv, HeaderSize, NULL, HeapEnd
<1>4. \A g \in DOMAIN hdrs' : g \in Nat
  BY <1>1, ArenaAssumption DEF HeapEnd
<1>5. /\ DOMAIN live = {h + HeaderSize : h \in {g \in DOMAIN hdrs : ~IsFree(g)}}
      /\ \A p \in DOMAIN live : live[p] <= hdrs[p - HeaderSize].size
      /\ DOMAIN live \subseteq HeapStart .. HeapEnd
      /\ live \in [DOMAIN live -> Requests]
  BY DEF IndInv, GrantsAreUsedBlocks, TypeOK
<1>6. ptr \notin DOMAIN live
  BY <1>1, <1>3, <1>4, <1>5 DEF HeaderSize
<1>7. GrantsAreUsedBlocks'
  <2>1. \A g \in DOMAIN hdrs' : ~IsFree(g)' <=> g = cur \/ (g \in DOMAIN hdrs /\ ~IsFree(g))
    BY <1>1 DEF IsFree, BLOCK_FREE, BLOCK_USED
  <2>2. DOMAIN live' = {h + HeaderSize : h \in {g \in DOMAIN hdrs' : ~IsFree(g)'}}
    BY <1>1, <1>2, <1>5, <2>1
  <2>3. ASSUME NEW p \in DOMAIN live' PROVE live'[p] <= hdrs'[p - HeaderSize].size
    <3>1. CASE p = ptr
      BY <1>1, <1>2, <1>3, <3>1 DEF HeaderSize
    <3>2. CASE p # ptr
      <4>1. p \in DOMAIN live /\ live'[p] = live[p]
        BY <1>2, <3>2
      <4>2. PICK h \in DOMAIN hdrs : p = h + HeaderSize /\ ~IsFree(h)
        BY <1>5, <4>1
      <4>3. p - HeaderSize = h /\ h # cur
        BY <1>1, <1>4, <3>2, <4>2 DEF HeaderSize
      <4>. QED BY <1>1, <1>5, <4>1, <4>3
    <3>. QED BY <3>1, <3>2
  <2>. QED BY <2>2, <2>3 DEF GrantsAreUsedBlocks
<1>8. tracked' \in [Slots -> Addr] /\ TrackedAreGranted'
  <2>0. /\ tracked \in [Slots -> Addr] /\ ptr \in Addr
        /\ \A i \in Slots : tracked[i] # NULL => tracked[i] \in DOMAIN live
        /\ \A i, j \in Slots : tracked[i] = tracked[j] /\ tracked[i] # NULL => i = j
        /\ DOMAIN live' = DOMAIN live \cup {ptr}
    BY <1>2, <1>3, ArenaAssumption DEF IndInv, TypeOK, TrackedAreGranted, Addr, HeapEnd
  <2>1. CASE tracked' = tracked
    BY <2>0, <2>1 DEF TrackedAreGranted
  <2>2. CASE \E i \in Slots : tracked[i] = NULL /\ tracked' = [tracked EXCEPT ![i] = ptr]
    BY <1>6, <2>0, <2>2 DEF TrackedAreGranted
  <2>. QED BY <1>2, <2>1, <2>2 DEF track_add
<1>9. TypeOK'
  <2>1. live' \in [DOMAIN live' -> Requests] /\ DOMAIN live' \subseteq HeapStart .. HeapEnd
    BY <1>1, <1>2, <1>3, <1>5
  <2>. QED BY <1>1, <1>2, <1>8, <2>1, ArenaAssumption DEF TypeOK, IndInv, HeapEnd
<1>10. SweepLeavesNothing' /\ LoopInvariant'
  BY <1>1, <1>2 DEF SweepLeavesNothing, LoopInvariant, Slots
<1>. QED BY <1>1, <1>7, <1>8, <1>9, <1>10 DEF IndInv


\* kfree of an accepted pointer gives back that grant and no other.
LEMMA FreeEffect ==
    ASSUME IndInv, NEW p, KfreeAccepts(p), FreeBlock(p), slot' \in 0 .. (MaxTracked + 1)
    PROVE  /\ TypeOK' /\ Tiling' /\ Coalesced' /\ GrantsAreUsedBlocks' /\ TrackedAreGranted'
           /\ cur' \in DOMAIN hdrs'
           /\ p \in DOMAIN live
           /\ \E i \in Slots : tracked[i] = p /\ tracked' = [tracked EXCEPT ![i] = NULL]
<1>. DEFINE h == p - HeaderSize
<1>1. PICK i \in Slots : tracked[i] = p /\ tracked' = [tracked EXCEPT ![i] = NULL]
  BY DEF FreeBlock, track_remove
<1>2. p \in DOMAIN live /\ p # NULL
  BY <1>1 DEF KfreeAccepts, IndInv, TrackedAreGranted
<1>3. /\ h \in DOMAIN hdrs /\ pc' = "coalesce" /\ cur' = HeapStart /\ req' = req
      /\ hdrs' = [hdrs EXCEPT ![h].used = BLOCK_FREE]
      /\ live' = [q \in DOMAIN live \ {p} |-> live[q]]
  BY DEF KfreeAccepts, is_block_valid, FreeBlock, first_block
<1>4. /\ DOMAIN hdrs' = DOMAIN hdrs /\ \A g \in DOMAIN hdrs \ {h} : hdrs'[g] = hdrs[g]
      /\ hdrs'[h].used = BLOCK_FREE /\ \A g \in DOMAIN hdrs : hdrs'[g].size = hdrs[g].size
      /\ hdrs' \in [DOMAIN hdrs' -> Header]
  BY <1>3 DEF IndInv, TypeOK, Header, BLOCK_FREE
<1>5. Tiling'
  BY <1>4, FlagsKeepTiling DEF IndInv
<1>6. \A g \in DOMAIN hdrs : g \in Nat /\ g >= HeapStart
  BY ChainStep DEF IndInv
<1>7. Coalesced'
  BY <1>3, <1>4, <1>6, ArenaAssumption DEF Coalesced
<1>8. /\ DOMAIN live = {g + HeaderSize : g \in {k \in DOMAIN hdrs : ~IsFree(k)}}
      /\ \A q \in DOMAIN live : live[q] <= hdrs[q - HeaderSize].size
      /\ DOMAIN live \subseteq HeapStart .. HeapEnd
      /\ live \in [DOMAIN live -> Requests]
  BY DEF IndInv, GrantsAreUsedBlocks, TypeOK
<1>9. GrantsAreUsedBlocks'
  <2>1. p \in Int /\ p = h + HeaderSize
    BY <1>2, <1>8, ArenaAssumption DEF HeaderSize, HeapEnd
  <2>2. \A g \in DOMAIN hdrs : ~IsFree(g)' <=> g # h /\ ~IsFree(g)
    BY <1>3, <1>4 DEF IsFree
  <2>3. \A g \in DOMAIN hdrs : g + HeaderSize = p <=> g = h
    BY <1>6, <2>1 DEF HeaderSize
  <2>4. DOMAIN live' = {g + HeaderSize : g \in {k \in DOMAIN hdrs' : ~IsFree(k)'}}
    BY <1>3, <1>4, <1>8, <2>2, <2>3
  <2>5. ASSUME NEW q \in DOMAIN live' PROVE live'[q] <= hdrs'[q - HeaderSize].size
    <3>1. q \in DOMAIN live /\ live'[q] = live[q]
      BY <1>3
    <3>2. PICK g \in DOMAIN hdrs : q = g + HeaderSize
      BY <1>8, <3>1
    <3>3. q - HeaderSize \in DOMAIN hdrs
      BY <1>6, <3>2 DEF HeaderSize
    <3>. QED BY <1>4, <1>8, <3>1, <3>3
  <2>. QED BY <2>4, <2>5 DEF GrantsAreUsedBlocks
<1>10. tracked' \in [Slots -> Addr] /\ TrackedAreGranted'
  <2>1. /\ tracked \in [Slots -> Addr] /\ NULL \in Addr
        /\ \A k \in Slots : tracked[k] # NULL => tracked[k] \in DOMAIN live
        /\ \A j, k \in Slots : tracked[j] = tracked[k] /\ tracked[j] # NULL => j = k
    BY ArenaAssumption DEF IndInv, TypeOK, TrackedAreGranted, Addr, NULL, HeapEnd
  <2>2. DOMAIN live' = DOMAIN live \ {p}
    BY <1>3
  <2>. QED BY <1>1, <1>2, <2>1, <2>2 DEF TrackedAreGranted
<1>11. TypeOK'
  BY <1>3, <1>4, <1>8, <1>10, ArenaAssumption DEF IndInv, TypeOK, HeapEnd
<1>12. cur' \in DOMAIN hdrs'
  BY <1>3, <1>4 DEF IndInv, Tiling, ChainStarts
<1>. QED BY <1>1, <1>2, <1>5, <1>7, <1>9, <1>10, <1>11, <1>12

\* kfree from the idle state, refused or not.
LEMMA KfreeKeepsInv ==
    ASSUME IndInv, NEW p, kfree(p)
    PROVE  IndInv'
<1>0. pc = "idle" /\ slot = 0
  BY DEF kfree, IndInv, LoopInvariant
<1>1. CASE KfreeAccepts(p)
  <2>1. FreeBlock(p) /\ slot' = slot
    BY <1>1 DEF kfree
  <2>2. slot' \in 0 .. (MaxTracked + 1)
    BY <2>1 DEF IndInv, TypeOK
  <2>3. /\ TypeOK' /\ Tiling' /\ Coalesced' /\ GrantsAreUsedBlocks' /\ TrackedAreGranted'
        /\ cur' \in DOMAIN hdrs'
    BY <1>1, <2>1, <2>2, FreeEffect
  <2>4. LoopInvariant' /\ SweepLeavesNothing'
    BY <1>0, <2>1, <2>3 DEF LoopInvariant, SweepLeavesNothing, FreeBlock, Slots
  <2>. QED BY <2>3, <2>4 DEF IndInv
<1>2. CASE ~KfreeAccepts(p)
  <2>1. UNCHANGED vars
    BY <1>2 DEF kfree
  <2>. QED BY <2>1 DEF vars, IndInv, TypeOK, Tiling, ChainStarts, ChainLinked, ChainOrdered,
      ChainCovers, Coalesced, GrantsAreUsedBlocks, TrackedAreGranted, SweepLeavesNothing,
      LoopInvariant, BlockEnd, IsFree, Fits, Wanted
<1>. QED BY <1>1, <1>2

\* The loop of coalesce_free_blocks.
LEMMA CoalesceKeepsInv ==
    ASSUME IndInv, CoalesceMerge \/ CoalesceAdvance \/ CoalesceReturn
    PROVE  IndInv'
<1>0. PICK c \in DOMAIN hdrs : c = cur /\ pc = "coalesce"
  BY DEF CoalesceMerge, CoalesceAdvance, CoalesceReturn, IndInv, LoopInvariant
<1>1. /\ UNCHANGED <<tracked, req, slot, live>>
      /\ SweepLeavesNothing' /\ TrackedAreGranted'
  BY DEF CoalesceMerge, CoalesceAdvance, CoalesceReturn, IndInv, SweepLeavesNothing, TrackedAreGranted
<1>2. /\ is_block_valid(c)
      /\ next_block(c) = NULL => BlockEnd(c) = HeapEnd
      /\ next_block(c) # NULL => /\ next_block(c) = BlockEnd(c)
                                 /\ BlockEnd(c) \in DOMAIN hdrs
                                 /\ is_block_valid(BlockEnd(c))
  BY <1>0, ChainStep DEF IndInv
<1>3. \A g \in DOMAIN hdrs : /\ g \in Nat /\ BlockEnd(g) \in Nat /\ hdrs[g] \in Header
                             /\ g < BlockEnd(g) /\ g + HeaderSize <= HeapEnd
                             /\ hdrs[g].size \in Nat
  BY ChainStep DEF IndInv, HeaderSize
<1>4. \A x, y \in DOMAIN hdrs : x < y => BlockEnd(x) <= y
  BY DEF IndInv, Tiling, ChainOrdered
<1>5. \A h \in DOMAIN hdrs : h < c /\ IsFree(h) /\ BlockEnd(h) \in DOMAIN hdrs => ~IsFree(BlockEnd(h))
  BY <1>0 DEF IndInv, Coalesced
<1>6. CASE CoalesceMerge
  <2>1. PICK n \in DOMAIN hdrs : n = next_block(c) /\ n = BlockEnd(c)
    BY <1>0, <1>2, <1>6 DEF CoalesceMerge, CoalesceReaches
  <2>2. /\ IsFree(c) /\ IsFree(n) /\ pc' = pc /\ cur' = c
        /\ hdrs' = [a \in DOMAIN hdrs \ {n} |->
                      IF a = c
                      THEN [size |-> hdrs[c].size + HeaderSize + hdrs[n].size, used |-> BLOCK_FREE]
                      ELSE hdrs[a]]
    BY <1>0, <1>6, <2>1 DEF CoalesceMerge, MergeHere
  <2>3. c < n /\ c # n
    BY <1>3, <2>1
  <2>4. /\ DOMAIN hdrs' = DOMAIN hdrs \ {n}
        /\ hdrs'[c] = [size |-> hdrs[c].size + HeaderSize + hdrs[n].size, used |-> BLOCK_FREE]
        /\ \A g \in DOMAIN hdrs \ {c, n} : hdrs'[g] = hdrs[g]
    BY <2>2, <2>3
  <2>5. /\ Tiling'
        /\ \A g \in DOMAIN hdrs \ {c, n} : BlockEnd(g)' = BlockEnd(g) /\ BlockEnd(g) # n
    <3>1. /\ hdrs'[c].size = hdrs[c].size + HeaderSize + hdrs[n].size
          /\ \A g \in DOMAIN hdrs \ {c, n} : hdrs'[g].size = hdrs[g].size
      BY <2>4
    <3>2. TypeOK /\ Tiling
      BY DEF IndInv
    <3>. QED BY <2>1, <2>4, <3>1, <3>2, MergeKeepsTiling
  <2>6. hdrs' \in [DOMAIN hdrs' -> Header]
    <3>1. hdrs'[c] \in Header
      BY <1>3, <2>4 DEF Header, HeaderSize, BLOCK_FREE
    <3>2. \A g \in DOMAIN hdrs' : hdrs'[g] \in Header
      BY <1>3, <2>4, <3>1
    <3>3. hdrs' = [g \in DOMAIN hdrs' |-> hdrs'[g]]
      BY <2>2
    <3>. QED BY <3>2, <3>3
  <2>7. TypeOK'
    BY <1>1, <2>2, <2>4, <2>6 DEF IndInv, TypeOK
  <2>8. Coalesced'
    <3>. SUFFICES ASSUME NEW h \in DOMAIN hdrs', h < c, hdrs'[h].used = BLOCK_FREE,
                         BlockEnd(h)' \in DOMAIN hdrs', hdrs'[BlockEnd(h)'].used = BLOCK_FREE
                  PROVE  FALSE
      BY <1>0, <2>2 DEF Coalesced, IsFree
    <3>1. h \in DOMAIN hdrs /\ h # c /\ h # n
      BY <1>3, <2>3, <2>4
    <3>2. BlockEnd(h)' = BlockEnd(h) /\ IsFree(h) /\ BlockEnd(h) \in DOMAIN hdrs
      BY <2>4, <2>5, <3>1 DEF IsFree
    <3>3. ~IsFree(BlockEnd(h)) /\ BlockEnd(h) # c
      BY <1>5, <2>2, <3>1, <3>2
    <3>. QED BY <2>4, <2>5, <3>1, <3>2, <3>3 DEF IsFree
  <2>9. GrantsAreUsedBlocks'
    <3>1. {k \in DOMAIN hdrs' : ~IsFree(k)'} = {k \in DOMAIN hdrs : ~IsFree(k)}
      BY <2>2, <2>4 DEF IsFree
    <3>2. DOMAIN live = {g + HeaderSize : g \in {k \in DOMAIN hdrs : ~IsFree(k)}}
      BY DEF IndInv, GrantsAreUsedBlocks
    <3>3. ASSUME NEW q \in DOMAIN live PROVE live[q] <= hdrs'[q - HeaderSize].size
      <4>1. PICK g \in DOMAIN hdrs : q = g + HeaderSize /\ ~IsFree(g)
        BY <3>2
      <4>2. q - HeaderSize = g /\ g # c /\ g # n
        BY <1>3, <2>2, <4>1 DEF HeaderSize
      <4>. QED BY <2>4, <4>2 DEF IndInv, GrantsAreUsedBlocks
    <3>. QED BY <1>1, <3>1, <3>2, <3>3 DEF GrantsAreUsedBlocks
  <2>10. LoopInvariant'
    BY <1>0, <2>2, <2>3, <2>4 DEF LoopInvariant
  <2>. QED BY <1>1, <2>5, <2>7, <2>8, <2>9, <2>10 DEF IndInv
<1>7. CASE CoalesceAdvance
  <2>1. /\ cur' = BlockEnd(c) /\ BlockEnd(c) \in DOMAIN hdrs /\ hdrs' = hdrs /\ pc' = pc
        /\ ~(IsFree(c) /\ IsFree(BlockEnd(c)))
    BY <1>0, <1>2, <1>7 DEF CoalesceAdvance, CoalesceReaches, MergeHere
  <2>2. TypeOK' /\ Tiling' /\ GrantsAreUsedBlocks'
    BY <1>1, <2>1, FlagsKeepTiling DEF IndInv, TypeOK, GrantsAreUsedBlocks, IsFree
  <2>3. Coalesced'
    <3>1. \A h \in DOMAIN hdrs : h < BlockEnd(c) => h < c \/ h = c
      BY <1>3, <1>4
    <3>2. \A h \in DOMAIN hdrs : h < BlockEnd(c) /\ IsFree(h) /\ BlockEnd(h) \in DOMAIN hdrs => ~IsFree(BlockEnd(h))
      BY <1>5, <2>1, <3>1
    <3>. QED BY <1>0, <2>1, <3>2 DEF Coalesced, IsFree, BlockEnd
  <2>4. LoopInvariant'
    BY <1>0, <2>1 DEF LoopInvariant
  <2>. QED BY <1>1, <2>2, <2>3, <2>4 DEF IndInv
<1>8. CASE CoalesceReturn
  <2>1. cur' = HeapStart /\ hdrs' = hdrs /\ pc' = (IF slot = 0 THEN "idle" ELSE "sweep") /\ next_block(c) = NULL
    BY <1>0, <1>2, <1>8 DEF CoalesceReturn, CoalesceReaches
  <2>2. TypeOK' /\ Tiling' /\ GrantsAreUsedBlocks'
    BY <1>1, <2>1, FlagsKeepTiling, ArenaAssumption DEF IndInv, TypeOK, GrantsAreUsedBlocks, IsFree, HeapEnd
  <2>3. Coalesced'
    <3>1. \A h \in DOMAIN hdrs : h < c \/ h = c
      <4>1. ASSUME NEW h \in DOMAIN hdrs, c < h PROVE FALSE
        BY <1>2, <1>3, <1>4, <2>1, <4>1 DEF HeaderSize
      <4>. QED BY <1>3, <4>1
    <3>2. BlockEnd(c) \notin DOMAIN hdrs
      BY <1>2, <1>3, <2>1 DEF HeaderSize
    <3>3. \A h \in DOMAIN hdrs : IsFree(h) /\ BlockEnd(h) \in DOMAIN hdrs => ~IsFree(BlockEnd(h))
      BY <1>5, <3>1, <3>2
    <3>. QED BY <2>1, <3>3 DEF Coalesced, IsFree, BlockEnd
  <2>4. LoopInvariant'
    BY <1>1, <2>1 DEF LoopInvariant, IndInv, TypeOK
  <2>. QED BY <1>1, <2>2, <2>3, <2>4 DEF IndInv
<1>. QED BY <1>6, <1>7, <1>8


\* The loop of kfree_all: the free it makes at index `slot` empties that slot
\* and no other, because a pointer is in the table once.
LEMMA SweepKeepsInv ==
    ASSUME IndInv, kfree_all \/ SweepSlot \/ SweepReturn
    PROVE  IndInv'
<1>1. CASE kfree_all \/ SweepReturn
  <2>1. /\ UNCHANGED <<hdrs, tracked, cur, req, live>>
        /\ \/ pc = "idle" /\ pc' = "sweep" /\ slot' = 1
           \/ pc = "sweep" /\ pc' = "idle" /\ slot' = 0
    BY <1>1 DEF kfree_all, SweepReturn
  <2>2. TypeOK' /\ Tiling' /\ GrantsAreUsedBlocks' /\ TrackedAreGranted'
    BY <2>1, FlagsKeepTiling, TrackedAssumption
       DEF IndInv, TypeOK, GrantsAreUsedBlocks, TrackedAreGranted, IsFree
  <2>3. Coalesced'
    BY <2>1 DEF IndInv, Coalesced, IsFree, BlockEnd
  <2>4. LoopInvariant' /\ SweepLeavesNothing'
    BY <2>1, TrackedAssumption DEF LoopInvariant, SweepLeavesNothing, Slots
  <2>. QED BY <2>2, <2>3, <2>4 DEF IndInv
<1>2. CASE SweepSlot
  <2>1. /\ pc = "sweep" /\ slot \in Slots /\ slot' = slot + 1
        /\ \A j \in Slots : j < slot => tracked[j] = NULL
    BY <1>2, TrackedAssumption DEF SweepSlot, IndInv, TypeOK, LoopInvariant, SweepLeavesNothing, Slots
  <2>2. slot' \in 0 .. (MaxTracked + 1) /\ slot' > 0
    BY <2>1, TrackedAssumption DEF Slots
  <2>3. \A j \in Slots : j < slot' => j < slot \/ j = slot
    BY <2>1, TrackedAssumption DEF Slots
  <2>4. CASE KfreeAccepts(tracked[slot])
    <3>1. PICK p : p = tracked[slot]
      OBVIOUS
    <3>2. FreeBlock(p) /\ KfreeAccepts(p)
      BY <1>2, <2>4, <3>1 DEF SweepSlot
    <3>3. /\ TypeOK' /\ Tiling' /\ Coalesced' /\ GrantsAreUsedBlocks' /\ TrackedAreGranted'
          /\ cur' \in DOMAIN hdrs'
          /\ \E i \in Slots : tracked[i] = p /\ tracked' = [tracked EXCEPT ![i] = NULL]
      BY <2>2, <3>2, FreeEffect
    <3>4. tracked' = [tracked EXCEPT ![slot] = NULL]
      BY <2>1, <3>1, <3>2, <3>3 DEF IndInv, TrackedAreGranted, KfreeAccepts
    <3>5. SweepLeavesNothing'
      BY <2>1, <2>3, <3>4 DEF SweepLeavesNothing, IndInv, TypeOK
    <3>6. LoopInvariant'
      BY <2>2, <3>2, <3>3 DEF LoopInvariant, FreeBlock
    <3>. QED BY <3>3, <3>5, <3>6 DEF IndInv
  <2>5. CASE ~KfreeAccepts(tracked[slot])
    <3>1. UNCHANGED <<hdrs, tracked, pc, cur, req, live>>
      BY <1>2, <2>5 DEF SweepSlot
    <3>2. TypeOK' /\ Tiling' /\ GrantsAreUsedBlocks' /\ TrackedAreGranted'
      BY <2>2, <3>1, FlagsKeepTiling
         DEF IndInv, TypeOK, GrantsAreUsedBlocks, TrackedAreGranted, IsFree
    <3>3. Coalesced'
      BY <2>1, <3>1 DEF IndInv, Coalesced, IsFree, BlockEnd
    <3>4. tracked[slot] = NULL
      <4>1. SUFFICES ASSUME tracked[slot] # NULL PROVE FALSE
        OBVIOUS
      <4>2. PICK h \in DOMAIN hdrs : tracked[slot] = h + HeaderSize
        BY <2>1, <4>1 DEF IndInv, TrackedAreGranted, GrantsAreUsedBlocks
      <4>3. tracked[slot] - HeaderSize = h /\ is_block_valid(h)
        BY <4>2, ChainStep DEF IndInv, HeaderSize
      <4>. QED BY <2>1, <2>5, <4>1, <4>3 DEF KfreeAccepts, track_validate
    <3>5. SweepLeavesNothing'
      BY <2>1, <2>3, <3>1, <3>4 DEF SweepLeavesNothing
    <3>6. LoopInvariant'
      BY <2>1, <2>2, <3>1 DEF LoopInvariant
    <3>. QED BY <3>2, <3>3, <3>5, <3>6 DEF IndInv
  <2>. QED BY <2>4, <2>5
<1>. QED BY <1>1, <1>2

-----------------------------------------------------------------------------
(***************************************************************************)
(* The theorems.                                                           *)
(***************************************************************************)

\* Every state that kmalloc, kfree and kfree_all reach satisfies the
\* inductive invariant.
THEOREM HeapInvariant == Spec => []IndInv
<1>1. Init => IndInv
  BY InitInv
<1>2. IndInv /\ [Next]_vars => IndInv'
  <2>. SUFFICES ASSUME IndInv, [Next]_vars PROVE IndInv'
    OBVIOUS
  <2>1. CASE \E n \in Requests : kmalloc(n)
    BY <2>1, EnterKmalloc
  <2>2. CASE \E p \in Addr : kfree(p)
    BY <2>2, KfreeKeepsInv
  <2>3. CASE KmallocTake
    BY <2>3, TakeKeepsInv
  <2>4. CASE KmallocAdvance \/ KmallocFail
    BY <2>4, SearchKeepsInv
  <2>5. CASE CoalesceMerge \/ CoalesceAdvance \/ CoalesceReturn
    BY <2>5, CoalesceKeepsInv
  <2>6. CASE kfree_all \/ SweepSlot \/ SweepReturn
    BY <2>6, SweepKeepsInv
  <2>7. CASE UNCHANGED vars
    BY <2>7 DEF vars, IndInv, TypeOK, Tiling, ChainStarts, ChainLinked, ChainOrdered,
      ChainCovers, Coalesced, GrantsAreUsedBlocks, TrackedAreGranted, SweepLeavesNothing,
      LoopInvariant, BlockEnd, IsFree, Fits, Wanted
  <2>. QED BY <2>1, <2>2, <2>3, <2>4, <2>5, <2>6, <2>7 DEF Next, Step
<1>. QED BY <1>1, <1>2, PTL DEF Spec

\* The type invariant of the heap.
THEOREM HeapTypeOK == Spec => []TypeOK
<1>1. IndInv => TypeOK
  BY DEF IndInv
<1>. QED BY <1>1, HeapInvariant, PTL

\* The block chain that every loop of mm.c walks always tiles the arena.
THEOREM HeapTiling == Spec => []Tiling
<1>1. IndInv => Tiling
  BY DEF IndInv
<1>. QED BY <1>1, HeapInvariant, PTL

\* Blocks are marked used exactly while a client holds them.
THEOREM HeapGrants == Spec => []GrantsAreUsedBlocks
<1>1. IndInv => GrantsAreUsedBlocks
  BY DEF IndInv
<1>. QED BY <1>1, HeapInvariant, PTL

\* kfree_all skips no entry of the table, which its own frees modify.
THEOREM HeapSweepLeavesNothing == Spec => []SweepLeavesNothing
<1>1. IndInv => SweepLeavesNothing
  BY DEF IndInv
<1>. QED BY <1>1, HeapInvariant, PTL

\* When every grant was given back, the heap is as mm_init left it.
THEOREM HeapFreedIsWhole == Spec => []FreedHeapIsWhole
<1>1. IndInv => FreedHeapIsWhole
  <2>. SUFFICES ASSUME IndInv, pc = "idle", DOMAIN live = {}
                PROVE  hdrs = [a \in {HeapStart} |->
                                 [size |-> HeapSize - HeaderSize, used |-> BLOCK_FREE]]
    BY DEF FreedHeapIsWhole
  <2>1. \A h \in DOMAIN hdrs : IsFree(h)
    BY DEF IndInv, GrantsAreUsedBlocks
  <2>2. HeapStart \in DOMAIN hdrs
    BY DEF IndInv, Tiling, ChainStarts
  <2>3. BlockEnd(HeapStart) \notin DOMAIN hdrs
    BY <2>1, <2>2 DEF IndInv, Coalesced
  <2>4. BlockEnd(HeapStart) = HeapEnd
    BY <2>2, <2>3 DEF IndInv, Tiling, ChainLinked
  <2>5. \A h \in DOMAIN hdrs : h \in Nat /\ h >= HeapStart /\ h + HeaderSize <= HeapEnd
    BY ChainStep DEF IndInv
  <2>6. ASSUME NEW h \in DOMAIN hdrs PROVE h = HeapStart
    <3>1. ~(HeapStart < h)
      BY <2>2, <2>4, <2>5, ArenaAssumption DEF IndInv, Tiling, ChainOrdered, HeaderSize, HeapEnd
    <3>. QED BY <2>5, <3>1, ArenaAssumption
  <2>7. DOMAIN hdrs = {HeapStart}
    BY <2>2, <2>6
  <2>8. hdrs[HeapStart] \in Header /\ hdrs[HeapStart].size \in Nat
    BY <2>2, ChainStep DEF IndInv
  <2>9. hdrs[HeapStart].size = HeapSize - HeaderSize
    BY <2>4, <2>8, ArenaAssumption DEF BlockEnd, HeapEnd, HeaderSize
  <2>10. hdrs[HeapStart] = [size |-> HeapSize - HeaderSize, used |-> BLOCK_FREE]
    BY <2>1, <2>2, <2>8, <2>9 DEF Header, IsFree
  <2>11. hdrs = [a \in DOMAIN hdrs |-> hdrs[a]]
    BY DEF IndInv, TypeOK
  <2>. QED BY <2>7, <2>10, <2>11
<1>. QED BY <1>1, HeapInvariant, PTL

\* kmalloc answers NULL only when the arena has no free run that would hold
\* a header and the rounded request.
THEOREM HeapNullOnlyIfNoRoom == Spec => NullOnlyIfNoRoom
<1>1. IndInv /\ [Next]_vars =>
        [KmallocFail => \A a \in HeapStart .. HeapEnd : ~RunIsFree(a, HeaderSize + Wanted)]_vars
  <2>. SUFFICES ASSUME IndInv, KmallocFail, NEW a \in HeapStart .. HeapEnd,
                       RunIsFree(a, HeaderSize + Wanted)
                PROVE  FALSE
    OBVIOUS
  <2>. DEFINE n == HeaderSize + Wanted
  <2>1. pc = "search" /\ cur \in DOMAIN hdrs /\ req \in Requests
    BY DEF KmallocFail, IndInv, LoopInvariant, TypeOK
  <2>2. ~Fits(cur) /\ BlockEnd(cur) = HeapEnd
    BY <2>1, ChainStep DEF KmallocFail, IndInv
  <2>3. \A h \in DOMAIN hdrs : /\ h \in Nat /\ BlockEnd(h) \in Nat /\ hdrs[h].size \in Nat
                               /\ BlockEnd(h) = h + HeaderSize + hdrs[h].size
                               /\ h + HeaderSize <= HeapEnd /\ hdrs[h] \in Header
                               /\ BlockEnd(h) <= HeapEnd
    BY ChainStep DEF IndInv
  <2>4. \A h \in DOMAIN hdrs : ~(cur < h)
    BY <2>1, <2>2, <2>3 DEF IndInv, Tiling, ChainOrdered, HeaderSize
  <2>5. \A h \in DOMAIN hdrs : ~Fits(h)
    BY <2>1, <2>2, <2>3, <2>4 DEF IndInv, LoopInvariant
  <2>6. /\ n \in Nat /\ n >= HeaderSize /\ Wanted \in Nat /\ a \in Nat /\ HeapEnd \in Nat
        /\ a + n <= HeapEnd
    BY <2>1, AlignUp, ArenaAssumption DEF Wanted, HeaderSize, RunIsFree, HeapEnd
  <2>7. PICK h \in DOMAIN hdrs : h <= a /\ a < BlockEnd(h)
    BY <2>6, ArenaAssumption DEF IndInv, Tiling, ChainCovers, HeaderSize
  <2>8. IsFree(h)
    BY <2>3, <2>6, <2>7 DEF RunIsFree, HeaderSize
  <2>9. hdrs[h].size < Wanted
    BY <2>3, <2>5, <2>6, <2>8 DEF Fits
  <2>10. BlockEnd(h) < a + n
    BY <2>3, <2>6, <2>7, <2>9 DEF HeaderSize
  <2>11. BlockEnd(h) \in DOMAIN hdrs
    BY <2>3, <2>6, <2>10 DEF IndInv, Tiling, ChainLinked
  <2>12. ~IsFree(BlockEnd(h))
    BY <2>1, <2>8, <2>11 DEF IndInv, Coalesced
  <2>13. BlockEnd(BlockEnd(h)) > BlockEnd(h)
    BY <2>3, <2>11 DEF HeaderSize
  <2>. QED BY <2>3, <2>6, <2>7, <2>10, <2>11, <2>12, <2>13 DEF RunIsFree
<1>. QED BY <1>1, HeapInvariant, PTL DEF Spec, NullOnlyIfNoRoom

\* The heap implements the allocator specification: the ranges handed out
\* never overlap, and a grant ends only by a free of its pointer.
THEOREM HeapImplementsAllocator == Spec => AllocatorSpec
<1>1. Init => Abstract!Init
  BY DEF Init, Abstract!Init
<1>2. IndInv /\ [Next]_vars => [Abstract!Next]_live
  <2>. SUFFICES ASSUME IndInv, [Next]_vars, live' # live PROVE Abstract!Next
    OBVIOUS
  <2>0. /\ DOMAIN live \subseteq HeapStart .. HeapEnd
        /\ \A i \in Slots : tracked[i] # NULL => tracked[i] \in DOMAIN live
    BY DEF IndInv, TypeOK, TrackedAreGranted
  <2>1. ASSUME NEW p, FreeBlock(p), KfreeAccepts(p) PROVE Abstract!Next
    <3>1. p \in DOMAIN live
      BY <2>0, <2>1 DEF KfreeAccepts, track_validate
    <3>2. Abstract!Release(p)
      BY <2>1, <3>1 DEF FreeBlock, Abstract!Release
    <3>. QED BY <2>0, <3>1, <3>2 DEF Abstract!Next
  <2>2. CASE \E p \in Addr : kfree(p)
    BY <2>1, <2>2 DEF kfree, vars
  <2>3. CASE SweepSlot
    BY <2>1, <2>3 DEF SweepSlot
  <2>4. CASE KmallocTake
    <3>. DEFINE p == cur + HeaderSize
    <3>1. live' = [q \in DOMAIN live \cup {p} |-> IF q = p THEN req ELSE live[q]]
      BY <2>4 DEF KmallocTake
    <3>2. /\ cur \in DOMAIN hdrs /\ IsFree(cur) /\ req \in Requests \ {0} /\ req \in Nat
          /\ hdrs[cur].size >= req
      <4>1. cur \in DOMAIN hdrs /\ req \in Requests \ {0} /\ req \in Nat
        BY <2>4, RequestAssumption DEF KmallocTake, IndInv, TypeOK, LoopInvariant
      <4>2. Wanted \in Nat /\ Wanted >= req
        BY <4>1, AlignUp DEF Wanted
      <4>3. hdrs[cur].size \in Nat
        BY <4>1, ChainStep DEF IndInv
      <4>. QED BY <2>4, <4>1, <4>2, <4>3 DEF KmallocTake, Fits
    <3>3. \A h \in DOMAIN hdrs : /\ h \in Nat /\ h >= HeapStart /\ hdrs[h].size \in Nat
                                 /\ BlockEnd(h) = h + HeaderSize + hdrs[h].size
                                 /\ BlockEnd(h) <= HeapEnd
      BY ChainStep DEF IndInv
    <3>4. p \in HeapStart .. HeapEnd /\ p >= HeapStart /\ p + req <= HeapEnd
      BY <3>2, <3>3, ArenaAssumption DEF HeaderSize, HeapEnd
    <3>5. ASSUME NEW q \in DOMAIN live PROVE q # p /\ ~Abstract!Overlap(p, req, q, live[q])
      <4>1. PICK h \in DOMAIN hdrs : q = h + HeaderSize /\ ~IsFree(h)
        BY DEF IndInv, GrantsAreUsedBlocks
      <4>2. q - HeaderSize = h /\ h # cur
        BY <3>2, <3>3, <4>1 DEF HeaderSize
      <4>3. live[q] <= hdrs[h].size /\ live[q] \in Nat
        BY <4>2, RequestAssumption DEF IndInv, GrantsAreUsedBlocks, TypeOK
      <4>4. CASE h < cur
        <5>1. BlockEnd(h) <= cur
          BY <3>2, <4>4 DEF IndInv, Tiling, ChainOrdered
        <5>. QED BY <3>2, <3>3, <4>1, <4>3, <4>4, <5>1 DEF HeaderSize, Abstract!Overlap
      <4>5. CASE cur < h
        <5>1. BlockEnd(cur) <= h
          BY <3>2, <4>5 DEF IndInv, Tiling, ChainOrdered
        <5>. QED BY <3>2, <3>3, <4>1, <4>3, <4>5, <5>1 DEF HeaderSize, Abstract!Overlap
      <4>. QED BY <3>2, <3>3, <4>2, <4>4, <4>5
    <3>6. Abstract!Grant(p, req)
      BY <3>1, <3>4, <3>5 DEF Abstract!Grant
    <3>. QED BY <3>2, <3>4, <3>6 DEF Abstract!Next
  <2>. QED BY <2>2, <2>3, <2>4 DEF Next, Step, kmalloc, KmallocAdvance, KmallocFail,
        CoalesceMerge, CoalesceAdvance, CoalesceReturn, kfree_all, SweepReturn, vars
<1>. QED BY <1>1, <1>2, HeapInvariant, PTL DEF Spec, AllocatorSpec, Abstract!Spec

-----------------------------------------------------------------------------
(***************************************************************************)
(* The sum over a finite set does not depend on the order in which its     *)
(* members are taken.                                                      *)
(***************************************************************************)
SumOf(f, S) == MapThenSumSet(LAMBDA p : f[p], S)

Pick(s) == CHOOSE x \in s : TRUE

Sums(f, S, g) == g = [s \in SUBSET S |-> IF s = {} THEN 0 ELSE f[Pick(s)] + g[s \ {Pick(s)}]]

LEMMA SumOfIsSums ==
    ASSUME NEW S, NEW f, \E g : Sums(f, S, g)
    PROVE  \E g : Sums(f, S, g) /\ SumOf(f, S) = g[S]
<1>. DEFINE G == CHOOSE g : Sums(f, S, g)
<1>1. Sums(f, S, G)
  OBVIOUS
<1>2. SumOf(f, S) = G[S]
  BY DEF SumOf, MapThenSumSet, MapThenFoldSet, Sums, Pick
<1>. HIDE DEF G
<1>. QED BY <1>1, <1>2

LEMMA SumsExist ==
    ASSUME NEW S, IsFiniteSet(S), NEW f
    PROVE  \E g : Sums(f, S, g)
<1>. DEFINE Small(m) == {s \in SUBSET S : Cardinality(s) <= m}
            Defines(g, m) == g = [s \in Small(m) |->
                                    IF s = {} THEN 0 ELSE f[Pick(s)] + g[s \ {Pick(s)}]]
            T == {m \in Nat : \E g : Defines(g, m)}
<1>0. \A s \in SUBSET S : /\ IsFiniteSet(s) /\ Cardinality(s) \in Nat /\ Cardinality(s) <= Cardinality(S)
                          /\ Cardinality(s) = 0 <=> s = {}
  BY FS_Subset, FS_CardinalityType, FS_EmptySet
<1>p. \A s \in SUBSET S : s # {} => /\ Pick(s) \in s /\ s \ {Pick(s)} \in SUBSET S
                                    /\ Cardinality(s \ {Pick(s)}) = Cardinality(s) - 1
  <2>. SUFFICES ASSUME NEW s \in SUBSET S, s # {}
                PROVE  /\ Pick(s) \in s /\ s \ {Pick(s)} \in SUBSET S
                       /\ Cardinality(s \ {Pick(s)}) = Cardinality(s) - 1
    OBVIOUS
  <2>1. Pick(s) \in s
    BY DEF Pick
  <2>. QED BY <1>0, <2>1, FS_RemoveElement
<1>1. 0 \in T
  <2>. DEFINE g == [s \in Small(0) |-> 0]
  <2>1. \A s \in Small(0) : s = {}
    BY <1>0
  <2>2. Defines(g, 0)
    BY <2>1
  <2>. HIDE DEF g, Defines
  <2>. QED BY <2>2
<1>2. ASSUME NEW m \in Nat, m \in T PROVE m + 1 \in T
  <2>1. PICK g : Defines(g, m)
    BY <1>2
  <2>. DEFINE h == [s \in Small(m + 1) |-> IF s = {} THEN 0 ELSE f[Pick(s)] + g[s \ {Pick(s)}]]
  <2>2. \A s \in Small(m) : s \in Small(m + 1) /\ g[s] = h[s]
    <3>1. Small(m) \subseteq Small(m + 1)
      BY <1>0
    <3>. HIDE DEF Small
    <3>. QED BY <2>1, <3>1
  <2>3. \A s \in Small(m + 1) : s # {} => s \ {Pick(s)} \in Small(m)
    BY <1>0, <1>p
  <2>4. Defines(h, m + 1)
    <3>. HIDE DEF Small
    <3>1. \A s \in Small(m + 1) : s # {} => g[s \ {Pick(s)}] = h[s \ {Pick(s)}]
      BY <2>2, <2>3
    <3>. QED BY <3>1
  <2>. HIDE DEF h, Defines
  <2>. QED BY <2>4
<1>. HIDE DEF T
<1>3. Cardinality(S) \in T
  <2>1. Cardinality(S) \in Nat
    BY FS_CardinalityType
  <2>. QED BY <1>1, <1>2, <2>1, SetInduction
<1>4. PICK g : Defines(g, Cardinality(S))
  BY <1>3 DEF T
<1>5. Small(Cardinality(S)) = SUBSET S
  BY <1>0
<1>. HIDE DEF Small
<1>. QED BY <1>4, <1>5 DEF Sums

LEMMA SumsAnyOrder ==
    ASSUME NEW S, IsFiniteSet(S), NEW f \in [S -> Nat], NEW g, Sums(f, S, g)
    PROVE  /\ g[{}] = 0
           /\ \A s \in SUBSET S : g[s] \in Nat
           /\ \A s \in SUBSET S : \A x \in s : g[s] = f[x] + g[s \ {x}]
<1>0. \A s \in SUBSET S : /\ IsFiniteSet(s) /\ Cardinality(s) \in Nat
                          /\ Cardinality(s) = 0 <=> s = {}
  BY FS_Subset, FS_CardinalityType, FS_EmptySet
<1>p. \A s \in SUBSET S : \A x \in s : /\ s \ {x} \in SUBSET S
                                       /\ Cardinality(s \ {x}) = Cardinality(s) - 1
  BY <1>0, FS_RemoveElement
<1>e. g[{}] = 0
  BY DEF Sums
<1>n. \A s \in SUBSET S : s # {} => Pick(s) \in s /\ g[s] = f[Pick(s)] + g[s \ {Pick(s)}]
  <2>. SUFFICES ASSUME NEW s \in SUBSET S, s # {}
                PROVE  Pick(s) \in s /\ g[s] = f[Pick(s)] + g[s \ {Pick(s)}]
    OBVIOUS
  <2>1. Pick(s) \in s
    BY DEF Pick
  <2>. QED BY <2>1 DEF Sums
<1>. DEFINE T == {m \in Nat : \A s \in SUBSET S : Cardinality(s) <= m =>
                    g[s] \in Nat /\ \A x \in s : g[s] = f[x] + g[s \ {x}]}
<1>1. 0 \in T
  <2>. SUFFICES ASSUME NEW s \in SUBSET S, Cardinality(s) <= 0
                PROVE  g[s] \in Nat /\ \A x \in s : g[s] = f[x] + g[s \ {x}]
    OBVIOUS
  <2>1. s = {}
    BY <1>0
  <2>. QED BY <2>1, <1>e
<1>2. ASSUME NEW m \in Nat, m \in T PROVE m + 1 \in T
  <2>. SUFFICES ASSUME NEW s \in SUBSET S, Cardinality(s) <= m + 1
                PROVE  g[s] \in Nat /\ \A x \in s : g[s] = f[x] + g[s \ {x}]
    OBVIOUS
  <2>1. CASE s = {}
    BY <2>1, <1>e
  <2>2. CASE s # {}
    <3>. DEFINE y == Pick(s)
    <3>1. y \in s /\ g[s] = f[y] + g[s \ {y}] /\ s \ {y} \in SUBSET S
          /\ Cardinality(s \ {y}) = Cardinality(s) - 1 /\ f[y] \in Nat
      BY <2>2, <1>n, <1>p
    <3>2. Cardinality(s \ {y}) <= m
      BY <3>1, <1>0
    <3>3. g[s \ {y}] \in Nat /\ \A x \in s \ {y} : g[s \ {y}] = f[x] + g[(s \ {y}) \ {x}]
      BY <1>2, <3>1, <3>2
    <3>. HIDE DEF y, T
    <3>4. ASSUME NEW x \in s, x # y PROVE g[s] = f[x] + g[s \ {x}]
      <4>1. s \ {x} \in SUBSET S /\ Cardinality(s \ {x}) = Cardinality(s) - 1 /\ f[x] \in Nat
        BY <1>p
      <4>2. Cardinality(s \ {x}) <= m
        BY <4>1, <1>0
      <4>3. y \in s \ {x} /\ x \in s \ {y} /\ (s \ {x}) \ {y} = (s \ {y}) \ {x}
        BY <3>1, <3>4
      <4>4. g[s \ {x}] \in Nat /\ g[s \ {x}] = f[y] + g[(s \ {x}) \ {y}]
        BY <1>2, <4>1, <4>2, <4>3 DEF T
      <4>5. g[s \ {y}] = f[x] + g[(s \ {y}) \ {x}]
        BY <3>3, <4>3
      <4>6. (s \ {x}) \ {y} \in SUBSET S /\ Cardinality((s \ {x}) \ {y}) <= m
        <5>1. Cardinality((s \ {x}) \ {y}) = Cardinality(s \ {x}) - 1
          BY <4>1, <4>3, <1>p
        <5>. QED BY <5>1, <4>1, <4>2, <1>0
      <4>7. g[(s \ {x}) \ {y}] \in Nat
        BY <1>2, <4>6 DEF T
      <4>. QED BY <3>1, <4>1, <4>3, <4>4, <4>5, <4>7
    <3>5. g[s] \in Nat
      BY <3>1, <3>3
    <3>6. ASSUME NEW x \in s PROVE g[s] = f[x] + g[s \ {x}]
      <4>1. CASE x = y
        BY <3>1, <4>1
      <4>. QED BY <3>4, <4>1
    <3>. QED BY <3>5, <3>6
  <2>. QED BY <2>1, <2>2
<1>. HIDE DEF T
<1>3. ASSUME NEW s \in SUBSET S
      PROVE  g[s] \in Nat /\ \A x \in s : g[s] = f[x] + g[s \ {x}]
  <2>1. Cardinality(s) \in T
    BY <1>0, <1>1, <1>2, SetInduction
  <2>. QED BY <2>1, <1>0 DEF T
<1>. QED BY <1>e, <1>3

-----------------------------------------------------------------------------
(***************************************************************************)
(* The walks of mm_used and mm_free.                                       *)
(***************************************************************************)
\* What the walk adds up from block a on, if sum is the function behind it.
WalkBody(flag, sum, a) ==
    IF ~is_block_valid(a)
    THEN 0
    ELSE (IF hdrs[a].used = flag THEN hdrs[a].size ELSE 0)
         + (IF next_block(a) = NULL THEN 0 ELSE sum[next_block(a)])

Walks(flag, sum) == sum = [a \in HeapStart .. HeapEnd |-> WalkBody(flag, sum, a)]

\* A walk ends: next_block goes up, so that the recursion is well founded.
LEMMA WalkExists ==
    ASSUME TypeOK, NEW flag
    PROVE  \E sum : Walks(flag, sum)
<1>. DEFINE Defines(g, m) == g = [a \in (HeapEnd - m) .. HeapEnd |-> WalkBody(flag, g, a)]
            T == {m \in Nat : \E g : Defines(g, m)}
<1>0. HeapStart \in Nat /\ HeapEnd \in Nat /\ HeapStart <= HeapEnd /\ HeapEnd - HeapStart \in Nat
  BY ArenaAssumption DEF HeapEnd
<1>n. \A a \in Int : is_block_valid(a) /\ next_block(a) # NULL =>
          next_block(a) \in Int /\ a < next_block(a) /\ next_block(a) <= HeapEnd
  <2>. SUFFICES ASSUME NEW a \in Int, is_block_valid(a), next_block(a) # NULL
                PROVE  next_block(a) \in Int /\ a < next_block(a) /\ next_block(a) <= HeapEnd
    OBVIOUS
  <2>1. a \in DOMAIN hdrs /\ hdrs[a].size \in Nat
    BY DEF is_block_valid, TypeOK, Header
  <2>. QED BY <2>1, <1>0 DEF next_block, BlockEnd, HeaderSize
<1>1. 0 \in T
  <2>. DEFINE g == [a \in (HeapEnd - 0) .. HeapEnd |-> WalkBody(flag, <<>>, a)]
  <2>1. ~is_block_valid(HeapEnd)
    BY <1>0 DEF is_block_valid, HeaderSize
  <2>2. \A a \in (HeapEnd - 0) .. HeapEnd : a = HeapEnd
    BY <1>0
  <2>3. Defines(g, 0)
    BY <2>1, <2>2 DEF WalkBody
  <2>. HIDE DEF g, Defines
  <2>. QED BY <2>3
<1>2. ASSUME NEW m \in Nat, m \in T PROVE m + 1 \in T
  <2>1. PICK g : Defines(g, m)
    BY <1>2
  <2>. DEFINE D == (HeapEnd - m) .. HeapEnd
              E == (HeapEnd - (m + 1)) .. HeapEnd
              f == [a \in E |-> WalkBody(flag, g, a)]
  <2>2. D \subseteq E /\ \A a \in E : a \in Int /\ \A b \in Int : a < b /\ b <= HeapEnd => b \in D
    BY <1>0
  <2>3. \A b \in D : f[b] = g[b]
    BY <2>1, <2>2
  <2>4. \A a \in E : WalkBody(flag, g, a) = WalkBody(flag, f, a)
    <3>. SUFFICES ASSUME NEW a \in E PROVE WalkBody(flag, g, a) = WalkBody(flag, f, a)
      OBVIOUS
    <3>1. is_block_valid(a) /\ next_block(a) # NULL => next_block(a) \in D
      BY <1>n, <2>2
    <3>2. is_block_valid(a) /\ next_block(a) # NULL => f[next_block(a)] = g[next_block(a)]
      BY <2>3, <3>1
    <3>. HIDE DEF f
    <3>. QED BY <3>2 DEF WalkBody
  <2>5. f = [a \in E |-> WalkBody(flag, f, a)]
    BY <2>4
  <2>6. Defines(f, m + 1)
    BY <2>5
  <2>. HIDE DEF f, Defines
  <2>. QED BY <2>6
<1>. HIDE DEF T
<1>3. HeapEnd - HeapStart \in T
  BY <1>0, <1>1, <1>2, SetInduction
<1>4. PICK g : Defines(g, HeapEnd - HeapStart)
  BY <1>3 DEF T
<1>5. HeapEnd - (HeapEnd - HeapStart) = HeapStart
  BY <1>0
<1>. QED BY <1>4, <1>5 DEF Walks

LEMMA WalkSumIsWalk ==
    ASSUME TypeOK, NEW flag
    PROVE  \E sum : Walks(flag, sum) /\ WalkSum(flag) = sum[HeapStart]
<1>. DEFINE G == CHOOSE sum : Walks(flag, sum)
<1>1. Walks(flag, G)
  BY WalkExists
<1>2. WalkSum(flag) = G[HeapStart]
  BY DEF WalkSum, Walks, WalkBody, first_block
<1>. HIDE DEF G
<1>. QED BY <1>1, <1>2

\* The blocks and the grants from block x on.
BlocksFrom(x) == {b \in DOMAIN hdrs : b >= x}
HeldFrom(x) == {p \in DOMAIN live : p > x}

\* What the walks U and F and the sums g say of the heap from block x on.
AddsUp(U, F, g, x) ==
    /\ U[x] \in Nat /\ F[x] \in Nat
    /\ U[x] + F[x] + HeaderSize * Cardinality(BlocksFrom(x)) = HeapEnd - x
    /\ U[x] >= g[HeldFrom(x)]

\* From block h on, the walks count every byte but the headers, and the used
\* ones cover what the clients of those blocks asked for.
LEMMA WalksAddUp ==
    ASSUME IndInv, NEW U, NEW F, Walks(BLOCK_USED, U), Walks(BLOCK_FREE, F),
           NEW g, Sums(live, DOMAIN live, g), NEW h \in DOMAIN hdrs
    PROVE  AddsUp(U, F, g, h)
<1>. DEFINE D == DOMAIN hdrs
            L == DOMAIN live
            T == {m \in Nat : \A x \in D : HeapEnd - x <= m => AddsUp(U, F, g, x)}
<1>0. /\ TypeOK /\ Tiling /\ GrantsAreUsedBlocks
      /\ HeapStart \in Nat /\ HeapEnd \in Nat
      /\ D \subseteq HeapStart .. HeapEnd /\ L \subseteq HeapStart .. HeapEnd
      /\ live \in [L -> Nat]
  BY ArenaAssumption, RequestAssumption DEF IndInv, HeapEnd, TypeOK
<1>f. IsFiniteSet(D) /\ IsFiniteSet(L) /\ \A x : IsFiniteSet(BlocksFrom(x)) /\ Cardinality(BlocksFrom(x)) \in Nat
  <2>1. IsFiniteSet(HeapStart .. HeapEnd)
    BY <1>0, FS_Interval
  <2>2. IsFiniteSet(D) /\ IsFiniteSet(L)
    BY <1>0, <2>1, FS_Subset
  <2>3. \A x : BlocksFrom(x) \in SUBSET D
    BY DEF BlocksFrom
  <2>. HIDE DEF D
  <2>. QED BY <2>2, <2>3, FS_Subset, FS_CardinalityType
<1>g. /\ g[{}] = 0
      /\ \A s \in SUBSET L : g[s] \in Nat
      /\ \A s \in SUBSET L : \A p \in s : g[s] = live[p] + g[s \ {p}]
  <2>. HIDE DEF L
  <2>. QED BY <1>0, <1>f, SumsAnyOrder DEF L
<1>1. 0 \in T
  <2>1. \A x \in D : HeapEnd - x > 0
    BY <1>0, ChainStep DEF HeaderSize
  <2>. QED BY <2>1, <1>0
<1>2. ASSUME NEW m \in Nat, m \in T PROVE m + 1 \in T
  <2>. SUFFICES ASSUME NEW x \in D, HeapEnd - x <= m + 1 PROVE AddsUp(U, F, g, x)
    OBVIOUS
  <2>i. \A y \in D : HeapEnd - y <= m => AddsUp(U, F, g, y)
    BY <1>2
  <2>. HIDE DEF T
  <2>. DEFINE e == BlockEnd(x)
  <2>1. /\ x \in Nat /\ hdrs[x].size \in Nat /\ hdrs[x] \in Header /\ e \in Nat
        /\ e = x + HeaderSize + hdrs[x].size /\ e <= HeapEnd /\ is_block_valid(x)
        /\ next_block(x) = NULL => e = HeapEnd
        /\ next_block(x) # NULL => next_block(x) = e /\ e \in D /\ e < HeapEnd
    BY <1>0, ChainStep
  <2>2. x \in HeapStart .. HeapEnd /\ hdrs[x].used \in {BLOCK_FREE, BLOCK_USED} /\ BLOCK_FREE # BLOCK_USED
    BY <1>0, <2>1 DEF Header, BLOCK_FREE, BLOCK_USED
  <2>3. /\ U[x] = (IF hdrs[x].used = BLOCK_USED THEN hdrs[x].size ELSE 0)
                  + (IF next_block(x) = NULL THEN 0 ELSE U[e])
        /\ F[x] = (IF hdrs[x].used = BLOCK_FREE THEN hdrs[x].size ELSE 0)
                  + (IF next_block(x) = NULL THEN 0 ELSE F[e])
    BY <2>1, <2>2 DEF Walks, WalkBody
  <2>4. \A b \in D : /\ b \in Nat /\ HeaderSize \in Nat
                     /\ b < x => b + HeaderSize <= x
                     /\ b > x => b >= e
                     /\ b < e => b <= x /\ b + HeaderSize <= e
    <3>. SUFFICES ASSUME NEW b \in D
                  PROVE  /\ b \in Nat /\ HeaderSize \in Nat
                         /\ b < x => b + HeaderSize <= x
                         /\ b > x => b >= e
                         /\ b < e => b <= x /\ b + HeaderSize <= e
      OBVIOUS
    <3>1. b \in Nat /\ BlockEnd(b) = b + HeaderSize + hdrs[b].size /\ hdrs[b].size \in Nat
      BY <1>0, ChainStep
    <3>2. (b < x => BlockEnd(b) <= x) /\ (x < b => e <= b)
      BY <1>0 DEF Tiling, ChainOrdered
    <3>. QED BY <2>1, <3>1, <3>2 DEF HeaderSize
  <2>5. L = {b + HeaderSize : b \in {c \in D : ~IsFree(c)}}
    BY <1>0 DEF GrantsAreUsedBlocks
  <2>6. BlocksFrom(x) = BlocksFrom(e) \cup {x} /\ x \notin BlocksFrom(e)
    BY <2>1, <2>4 DEF HeaderSize, BlocksFrom
  <2>7. Cardinality(BlocksFrom(x)) = Cardinality(BlocksFrom(e)) + 1
    <3>1. IsFiniteSet(BlocksFrom(e))
      BY <1>f
    <3>. QED BY <2>6, <3>1, FS_AddElement
  <2>8. /\ ~IsFree(x) => x + HeaderSize \in HeldFrom(x) /\ HeldFrom(e) = HeldFrom(x) \ {x + HeaderSize}
        /\ IsFree(x) => HeldFrom(x) = HeldFrom(e)
    BY <2>1, <2>4, <2>5 DEF HeaderSize, HeldFrom
  <2>9. HeldFrom(x) \in SUBSET L /\ HeldFrom(e) \in SUBSET L
    BY DEF HeldFrom
  <2>10. g[HeldFrom(x)] \in Nat /\ g[HeldFrom(e)] \in Nat
         /\ g[HeldFrom(x)] <= (IF hdrs[x].used = BLOCK_USED THEN hdrs[x].size ELSE 0) + g[HeldFrom(e)]
    <3>1. CASE IsFree(x)
      <4>1. HeldFrom(x) = HeldFrom(e) /\ hdrs[x].used # BLOCK_USED
        BY <2>2, <2>8, <3>1 DEF IsFree
      <4>2. g[HeldFrom(e)] \in Nat
        BY <1>g, <2>9
      <4>. QED BY <4>1, <4>2
    <3>2. CASE ~IsFree(x)
      <4>1. x + HeaderSize \in HeldFrom(x) /\ HeldFrom(e) = HeldFrom(x) \ {x + HeaderSize} /\ hdrs[x].used = BLOCK_USED
        BY <2>2, <2>8, <3>2 DEF IsFree
      <4>2. g[HeldFrom(x)] = live[x + HeaderSize] + g[HeldFrom(e)]
        BY <1>g, <2>9, <4>1
      <4>3. live[x + HeaderSize] <= hdrs[x].size /\ live[x + HeaderSize] \in Nat
        <5>. DEFINE p == x + HeaderSize
        <5>1. p \in L /\ p - HeaderSize = x
          BY <2>1, <4>1 DEF HeaderSize, HeldFrom
        <5>. HIDE DEF p
        <5>2. live[p] <= hdrs[p - HeaderSize].size /\ live[p] \in Nat
          BY <1>0, <5>1 DEF GrantsAreUsedBlocks
        <5>. QED BY <5>1, <5>2 DEF p
      <4>4. g[HeldFrom(x)] \in Nat /\ g[HeldFrom(e)] \in Nat
        BY <1>g, <2>9
      <4>. QED BY <2>1, <4>1, <4>2, <4>3, <4>4
    <3>. QED BY <3>1, <3>2
  <2>11. CASE next_block(x) = NULL
    <3>1. BlocksFrom(e) = {} /\ HeldFrom(e) = {}
      <4>1. \A b \in D : b < e
        BY <2>1, <2>4, <2>11, <1>0, ChainStep DEF HeaderSize
      <4>2. \A p \in L : p <= e
        BY <2>4, <2>5, <4>1
      <4>. QED BY <4>1, <4>2, <2>1, <1>0 DEF BlocksFrom, HeldFrom
    <3>2. Cardinality(BlocksFrom(e)) = 0 /\ g[HeldFrom(e)] = 0
      BY <3>1, FS_EmptySet, <1>g
    <3>. QED BY <2>1, <2>2, <2>3, <2>7, <2>10, <2>11, <3>2 DEF HeaderSize, AddsUp
  <2>12. CASE next_block(x) # NULL
    <3>1. e \in D /\ HeapEnd - e <= m
      BY <2>1, <2>12, <1>0 DEF HeaderSize
    <3>2. AddsUp(U, F, g, e)
      BY <2>i, <3>1
    <3>. DEFINE c == Cardinality(BlocksFrom(x))
                d == Cardinality(BlocksFrom(e))
    <3>3. c = d + 1 /\ d \in Nat
      BY <1>f, <2>7
    <3>4. /\ U[e] \in Nat /\ F[e] \in Nat /\ U[e] + F[e] + 12 * d = HeapEnd - e
          /\ U[e] >= g[HeldFrom(e)]
      BY <3>2 DEF AddsUp, HeaderSize
    <3>. HIDE DEF c, d
    <3>5. U[x] + F[x] = hdrs[x].size + U[e] + F[e] /\ U[x] \in Nat /\ F[x] \in Nat
      BY <2>1, <2>2, <2>3, <2>12, <3>4
    <3>6. U[x] + F[x] + 12 * c = HeapEnd - x
      BY <1>0, <2>1, <3>3, <3>4, <3>5 DEF HeaderSize
    <3>7. U[x] >= g[HeldFrom(x)]
      BY <2>1, <2>3, <2>10, <2>12, <3>4
    <3>. QED BY <3>5, <3>6, <3>7 DEF AddsUp, HeaderSize, c
  <2>. QED BY <2>11, <2>12
<1>. HIDE DEF T
<1>3. HeapEnd - h \in Nat
  BY <1>0
<1>4. HeapEnd - h \in T
  BY <1>1, <1>2, <1>3, SetInduction
<1>5. AddsUp(U, F, g, h)
  BY <1>0, <1>3, <1>4 DEF T
<1>. QED BY <1>5

\* `free` and /proc/meminfo add up, on every heap: the walks of mm_used and
\* mm_free miss no block and count none twice.
THEOREM HeapAccounting == Spec => []Accounting
<1>1. IndInv => Accounting
  <2>. SUFFICES ASSUME IndInv PROVE Accounting
    OBVIOUS
  <2>0. /\ TypeOK /\ HeapStart \in DOMAIN hdrs /\ HeapStart \in Nat /\ HeapEnd \in Nat
        /\ DOMAIN hdrs \subseteq HeapStart .. HeapEnd /\ DOMAIN live \subseteq HeapStart .. HeapEnd
    BY ArenaAssumption DEF IndInv, Tiling, ChainStarts, HeapEnd, TypeOK
  <2>f. IsFiniteSet(DOMAIN live) /\ IsFiniteSet(DOMAIN hdrs)
    <3>1. IsFiniteSet(HeapStart .. HeapEnd)
      BY <2>0, FS_Interval
    <3>. QED BY <2>0, <3>1, FS_Subset
  <2>1. PICK U : Walks(BLOCK_USED, U) /\ mm_used = U[HeapStart]
    BY <2>0, WalkSumIsWalk DEF mm_used
  <2>2. PICK F : Walks(BLOCK_FREE, F) /\ mm_free = F[HeapStart]
    BY <2>0, WalkSumIsWalk DEF mm_free
  <2>3. PICK g : Sums(live, DOMAIN live, g) /\ SumOf(live, DOMAIN live) = g[DOMAIN live]
    BY <2>f, SumsExist, SumOfIsSums
  <2>4. BlocksFrom(HeapStart) = DOMAIN hdrs
    BY <2>0 DEF BlocksFrom
  <2>5. HeldFrom(HeapStart) = DOMAIN live
    <3>1. \A p \in DOMAIN live : \E b \in DOMAIN hdrs : p = b + HeaderSize
      BY DEF IndInv, GrantsAreUsedBlocks
    <3>. QED BY <2>0, <3>1 DEF HeaderSize, HeldFrom
  <2>6. /\ mm_used \in Nat /\ mm_free \in Nat
        /\ mm_used + mm_free + HeaderSize * Cardinality(DOMAIN hdrs) = HeapEnd - HeapStart
        /\ mm_used >= SumOf(live, DOMAIN live)
    BY <2>0, <2>1, <2>2, <2>3, <2>4, <2>5, WalksAddUp DEF AddsUp
  <2>7. Cardinality(DOMAIN hdrs) \in Nat
    BY <2>f, FS_CardinalityType
  <2>8. mm_used + mm_free + HeaderSize * (Cardinality(DOMAIN hdrs) - 1) = mm_total
    BY <2>0, <2>6, <2>7 DEF mm_total, HeaderSize
  <2>9. mm_used >= MapThenSumSet(LAMBDA p : live[p], DOMAIN live)
    BY <2>6 DEF SumOf
  <2>. QED BY <2>8, <2>9 DEF Accounting
<1>. QED BY <1>1, HeapInvariant, PTL

=============================================================================
