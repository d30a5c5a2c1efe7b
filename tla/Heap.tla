-------------------------------- MODULE Heap --------------------------------
(***************************************************************************)
(* The kernel heap of mm.c: one arena cut into blocks, each a header       *)
(* followed by its payload, allocated first fit, split on allocation and   *)
(* coalesced on every free, with a table of tracked pointers that kfree    *)
(* consults.  A call is modelled by its loop iterations: kmalloc and kfree *)
(* are entered in the idle state, and nothing else happens in the heap     *)
(* before the call returns (mm.c is only called from ring 0 code that is   *)
(* never preempted, and no interrupt handler allocates).                   *)
(*                                                                         *)
(* A header whose block was absorbed by coalescing is dropped from `hdrs`; *)
(* its bytes are then payload of the block that absorbed it.               *)
(***************************************************************************)
EXTENDS Integers, FiniteSets, FiniteSetsExt

CONSTANTS
    HeapStart,      \* heap_start, already rounded by ALIGN8 in mm_init
    HeapSize,       \* the size given to mm_init: HEAP_SIZE bytes
    MaxTracked,     \* MAX_TRACKED_BLOCKS
    Requests,       \* the sizes clients ask for
    WordSize        \* 2^32: the number of values of a uint32_t

HeaderSize == 12            \* sizeof(struct block_header)
MinSplitPayload == 16       \* MIN_SPLIT_PAYLOAD
BLOCK_FREE == 0
BLOCK_USED == 1
NULL == 0

HeapEnd == HeapStart + HeapSize

\* Mutant: rounds down.
Align8Down(x) == x - (x % 8)

\* ALIGN8, with the wrap of its 32-bit addition.
Align8(x) == LET y == (x + 7) % WordSize IN y - (y % 8)

\* The arena lies above address 0 and does not wrap.
ASSUME ArenaAssumption ==
    /\ HeapStart \in Nat \ {0}
    /\ HeapStart % 8 = 0
    /\ HeapSize \in Nat
    /\ HeapSize > HeaderSize

ASSUME TrackedAssumption == MaxTracked \in Nat \ {0}

\* No client asks for a size that ALIGN8 would wrap: SYS_MALLOC refuses
\* 0x100000 bytes and more, every other caller passes a small constant.
ASSUME RequestAssumption ==
    /\ WordSize \in Nat
    /\ Requests \subseteq Nat
    /\ \A n \in Requests : n + 7 < WordSize

VARIABLES
    hdrs,       \* the current block headers: address -> [size, used]
    tracked,    \* tracked_blocks: the pointer in each slot, NULL when not in_use
    pc,         \* the loop being executed: "idle", "search", "coalesce", "sweep"
    cur,        \* hdr, the cursor of that loop
    req,        \* the size argument of the kmalloc in progress
    slot,       \* i of the kfree_all in progress, 0 when there is none
    live        \* history: pointers handed out and not freed -> size asked for

vars == <<hdrs, tracked, pc, cur, req, slot, live>>

Slots == 1 .. MaxTracked
Addr == 0 .. HeapEnd
Header == [size : Nat, used : {BLOCK_FREE, BLOCK_USED}]

-----------------------------------------------------------------------------
(***************************************************************************)
(* The helpers of mm.c.                                                    *)
(***************************************************************************)
first_block == HeapStart

\* The address just after block h: h + block_total_size(h).
BlockEnd(h) == h + HeaderSize + hdrs[h].size

next_block(h) == IF BlockEnd(h) >= HeapEnd THEN NULL ELSE BlockEnd(h)

\* BLOCK_MAGIC is found at an address iff a header was written there.
is_block_valid(h) ==
    /\ h >= HeapStart
    /\ h + HeaderSize <= HeapEnd
    /\ h \in DOMAIN hdrs
    /\ BlockEnd(h) <= HeapEnd

IsFree(h) == hdrs[h].used = BLOCK_FREE

track_validate(p) == \E i \in Slots : tracked[i] = p

\* The first slot not in use takes the pointer; a full table drops it.
track_add(p) ==
    IF \E i \in Slots : tracked[i] = NULL
    THEN \E i \in Slots :
            /\ tracked[i] = NULL
            /\ \A j \in 1 .. (i - 1) : tracked[j] # NULL
            /\ tracked' = [tracked EXCEPT ![i] = p]
    ELSE tracked' = tracked

\* The first slot that holds the pointer is released.
track_remove(p) ==
    \E i \in Slots :
        /\ tracked[i] = p
        /\ \A j \in 1 .. (i - 1) : tracked[j] # p
        /\ tracked' = [tracked EXCEPT ![i] = NULL]

\* Mutant: splits although no header fits in what is left.
split_block_always(h, wanted) ==
    LET new == h + HeaderSize + wanted
    IN  [a \in DOMAIN hdrs \cup {new} |->
            CASE a = new -> [size |-> hdrs[h].size - wanted - HeaderSize, used |-> BLOCK_FREE]
              [] a = h   -> [size |-> wanted, used |-> hdrs[h].used]
              [] OTHER   -> hdrs[a]]

\* Mutant: the new header is not deducted from what is left.
split_block_overruns(h, wanted) ==
    LET remaining == hdrs[h].size - wanted
        new       == h + HeaderSize + wanted
    IN  IF remaining <= HeaderSize + MinSplitPayload
        THEN hdrs
        ELSE [a \in DOMAIN hdrs \cup {new} |->
                 CASE a = new -> [size |-> remaining, used |-> BLOCK_FREE]
                   [] a = h   -> [size |-> wanted, used |-> hdrs[h].used]
                   [] OTHER   -> hdrs[a]]

\* The headers after split_block(h, wanted): the tail of h becomes a free
\* block when it has room for a header and more than MIN_SPLIT_PAYLOAD.
split_block(h, wanted) ==
    LET remaining == hdrs[h].size - wanted
        new       == h + HeaderSize + wanted
    IN  IF remaining <= HeaderSize + MinSplitPayload
        THEN hdrs
        ELSE [a \in DOMAIN hdrs \cup {new} |->
                 CASE a = new -> [size |-> remaining - HeaderSize, used |-> BLOCK_FREE]
                   [] a = h   -> [size |-> wanted, used |-> hdrs[h].used]
                   [] OTHER   -> hdrs[a]]

-----------------------------------------------------------------------------
\* mm_init: one free block spans the arena.
Init ==
    /\ hdrs = [a \in {HeapStart} |->
                 [size |-> HeapSize - HeaderSize, used |-> BLOCK_FREE]]
    /\ tracked = [i \in Slots |-> NULL]
    /\ pc = "idle"
    /\ cur = HeapStart
    /\ req = 0
    /\ slot = 0
    /\ live = [p \in {} |-> 0]

(***************************************************************************)
(* kmalloc.  A call enters the loop at the first block; size 0 is refused. *)
(***************************************************************************)
kmalloc(n) ==
    /\ pc = "idle"
    /\ IF n = 0
       THEN UNCHANGED vars
       ELSE /\ pc' = "search"
            /\ cur' = first_block
            /\ req' = n
            /\ UNCHANGED <<hdrs, tracked, slot, live>>

Wanted == Align8(req)

\* Mutant: an exact fit is passed over.
FitsLoosely(h) == IsFree(h) /\ hdrs[h].size > Wanted

Fits(h) == IsFree(h) /\ hdrs[h].size >= Wanted

\* Mutant: the block is handed out and not marked used.
KmallocTakeUnmarked ==
    /\ pc = "search"
    /\ is_block_valid(cur)
    /\ Fits(cur)
    /\ hdrs' = split_block(cur, Wanted)
    /\ track_add(cur + HeaderSize)
    /\ live' = [p \in DOMAIN live \cup {cur + HeaderSize} |->
                  IF p = cur + HeaderSize THEN req ELSE live[p]]
    /\ pc' = "idle"
    /\ cur' = HeapStart
    /\ req' = 0
    /\ UNCHANGED slot

\* The block at the cursor fits: split it, mark it used, track its payload.
KmallocTake ==
    /\ pc = "search"
    /\ is_block_valid(cur)
    /\ Fits(cur)
    /\ LET split == split_block(cur, Wanted)
           ptr   == cur + HeaderSize
       IN  /\ hdrs' = [split EXCEPT ![cur].used = BLOCK_USED]
           /\ track_add(ptr)
           /\ live' = [p \in DOMAIN live \cup {ptr} |-> IF p = ptr THEN req ELSE live[p]]
    /\ pc' = "idle"
    /\ cur' = HeapStart
    /\ req' = 0
    /\ UNCHANGED slot

KmallocAdvance ==
    /\ pc = "search"
    /\ is_block_valid(cur)
    /\ ~Fits(cur)
    /\ next_block(cur) # NULL
    /\ cur' = next_block(cur)
    /\ UNCHANGED <<hdrs, tracked, pc, req, slot, live>>

\* The walk ends, at the last block or at a broken header: NULL is returned.
KmallocFail ==
    /\ pc = "search"
    /\ is_block_valid(cur) => ~Fits(cur) /\ next_block(cur) = NULL
    /\ pc' = "idle"
    /\ cur' = HeapStart
    /\ req' = 0
    /\ UNCHANGED <<hdrs, tracked, slot, live>>

-----------------------------------------------------------------------------
(***************************************************************************)
(* kfree, of any address a client may pass.                                *)
(***************************************************************************)
KfreeAccepts(p) == p # NULL /\ track_validate(p) /\ is_block_valid(p - HeaderSize)

\* Mutant: coalescing starts at the freed block, not at the first one.
FreeBlockFromHere(p) ==
    /\ track_remove(p)
    /\ hdrs' = [hdrs EXCEPT ![p - HeaderSize].used = BLOCK_FREE]
    /\ live' = [q \in DOMAIN live \ {p} |-> live[q]]
    /\ pc' = "coalesce"
    /\ cur' = p - HeaderSize
    /\ UNCHANGED req

\* Untrack the pointer, mark its block free, enter coalesce_free_blocks.
FreeBlock(p) ==
    /\ track_remove(p)
    /\ hdrs' = [hdrs EXCEPT ![p - HeaderSize].used = BLOCK_FREE]
    /\ live' = [q \in DOMAIN live \ {p} |-> live[q]]
    /\ pc' = "coalesce"
    /\ cur' = first_block
    /\ UNCHANGED req

kfree(p) ==
    /\ pc = "idle"
    /\ IF KfreeAccepts(p) THEN FreeBlock(p) /\ UNCHANGED slot ELSE UNCHANGED vars

CoalesceReaches == is_block_valid(cur) /\ next_block(cur) # NULL
                                       /\ is_block_valid(next_block(cur))

MergeHere == IsFree(cur) /\ IsFree(next_block(cur))

\* Mutant: the absorbed header is not added to the merged block.
CoalesceMergeLosesHeader ==
    /\ pc = "coalesce"
    /\ CoalesceReaches
    /\ MergeHere
    /\ LET nxt == next_block(cur)
       IN  hdrs' = [a \in DOMAIN hdrs \ {nxt} |->
                      IF a = cur
                      THEN [size |-> hdrs[cur].size + hdrs[nxt].size, used |-> BLOCK_FREE]
                      ELSE hdrs[a]]
    /\ UNCHANGED <<tracked, pc, cur, req, slot, live>>

\* Two free neighbours become one block; the cursor stays on it.
CoalesceMerge ==
    /\ pc = "coalesce"
    /\ CoalesceReaches
    /\ MergeHere
    /\ LET nxt == next_block(cur)
       IN  hdrs' = [a \in DOMAIN hdrs \ {nxt} |->
                      IF a = cur
                      THEN [size |-> hdrs[cur].size + HeaderSize + hdrs[nxt].size,
                            used |-> BLOCK_FREE]
                      ELSE hdrs[a]]
    /\ UNCHANGED <<tracked, pc, cur, req, slot, live>>

\* Mutant: the cursor is never advanced.
CoalesceAdvanceStays ==
    /\ pc = "coalesce"
    /\ CoalesceReaches
    /\ ~MergeHere
    /\ UNCHANGED vars

CoalesceAdvance ==
    /\ pc = "coalesce"
    /\ CoalesceReaches
    /\ ~MergeHere
    /\ cur' = next_block(cur)
    /\ UNCHANGED <<hdrs, tracked, pc, req, slot, live>>

\* coalesce_free_blocks returns, to the client or to the loop of kfree_all.
CoalesceReturn ==
    /\ pc = "coalesce"
    /\ ~CoalesceReaches
    /\ pc' = IF slot = 0 THEN "idle" ELSE "sweep"
    /\ cur' = HeapStart
    /\ UNCHANGED <<hdrs, tracked, req, slot, live>>

-----------------------------------------------------------------------------
(***************************************************************************)
(* kfree_all: free whatever is tracked, slot by slot.                      *)
(***************************************************************************)
\* Mutant: the loop starts one slot late.
kfree_all_late ==
    /\ pc = "idle"
    /\ pc' = "sweep"
    /\ slot' = 2
    /\ UNCHANGED <<hdrs, tracked, cur, req, live>>

kfree_all ==
    /\ pc = "idle"
    /\ pc' = "sweep"
    /\ slot' = 1
    /\ UNCHANGED <<hdrs, tracked, cur, req, live>>

SweepSlot ==
    /\ pc = "sweep"
    /\ slot <= MaxTracked
    /\ slot' = slot + 1
    /\ IF KfreeAccepts(tracked[slot])
       THEN FreeBlock(tracked[slot])
       ELSE UNCHANGED <<hdrs, tracked, pc, cur, req, live>>

SweepReturn ==
    /\ pc = "sweep"
    /\ slot > MaxTracked
    /\ pc' = "idle"
    /\ slot' = 0
    /\ UNCHANGED <<hdrs, tracked, cur, req, live>>

-----------------------------------------------------------------------------
\* One iteration of the call in progress.
Step ==
    \/ KmallocTake \/ KmallocAdvance \/ KmallocFail
    \/ CoalesceMerge \/ CoalesceAdvance \/ CoalesceReturn
    \/ SweepSlot \/ SweepReturn

Next ==
    \/ \E n \in Requests : kmalloc(n)
    \/ \E p \in Addr : kfree(p)
    \/ kfree_all
    \/ Step

Spec == Init /\ [][Next]_vars

\* A call that was entered runs on: nothing in the kernel suspends it.
FairSpec == Spec /\ WF_vars(Step)

-----------------------------------------------------------------------------
(***************************************************************************)
(* mm_used, mm_free and mm_total: the walks behind `free` and              *)
(* /proc/meminfo.                                                          *)
(***************************************************************************)
\* The sum of the sizes of the blocks with this flag, in a walk from block a.
WalkSum(flag) ==
    LET sum[a \in HeapStart .. HeapEnd] ==
            IF ~is_block_valid(a)
            THEN 0
            ELSE (IF hdrs[a].used = flag THEN hdrs[a].size ELSE 0)
                 + (IF next_block(a) = NULL THEN 0 ELSE sum[next_block(a)])
    IN  sum[first_block]

mm_used == WalkSum(BLOCK_USED)
mm_free == WalkSum(BLOCK_FREE)
mm_total == HeapEnd - HeapStart - HeaderSize

-----------------------------------------------------------------------------
(***************************************************************************)
(* Correctness.                                                            *)
(***************************************************************************)
TypeOK ==
    /\ DOMAIN hdrs \subseteq HeapStart .. HeapEnd
    /\ hdrs \in [DOMAIN hdrs -> Header]
    /\ tracked \in [Slots -> Addr]
    /\ pc \in {"idle", "search", "coalesce", "sweep"}
    /\ cur \in HeapStart .. HeapEnd
    /\ req \in Requests \cup {0}
    /\ slot \in 0 .. (MaxTracked + 1)
    /\ DOMAIN live \subseteq HeapStart .. HeapEnd
    /\ live \in [DOMAIN live -> Requests]

\* The chain that first_block and next_block walk is unbroken: it starts at
\* heap_start, every block ends where another starts or at heap_end, no two
\* blocks share a byte, and every byte of the arena belongs to a block.
ChainStarts == HeapStart \in DOMAIN hdrs
ChainLinked == \A h \in DOMAIN hdrs : BlockEnd(h) = HeapEnd \/ BlockEnd(h) \in DOMAIN hdrs
ChainOrdered == \A g, h \in DOMAIN hdrs : g < h => BlockEnd(g) <= h
ChainCovers ==
    \A a \in HeapStart .. (HeapEnd - 1) :
        \E h \in DOMAIN hdrs : h <= a /\ a < BlockEnd(h)

Tiling == ChainStarts /\ ChainLinked /\ ChainOrdered /\ ChainCovers

\* Outside coalesce_free_blocks no two neighbours are free, and inside it
\* none behind the cursor: the one pass of the loop merges every run of
\* free blocks, however long.
Coalesced ==
    \A h \in DOMAIN hdrs :
        /\ pc = "coalesce" => h < cur
        /\ IsFree(h)
        /\ BlockEnd(h) \in DOMAIN hdrs
        => ~IsFree(BlockEnd(h))

\* A block is marked used exactly while a client holds its payload, and the
\* payload is at least as large as the client asked for: no double free,
\* stale pointer or coalescing ever gives a held block back.
GrantsAreUsedBlocks ==
    /\ DOMAIN live = {h + HeaderSize : h \in {g \in DOMAIN hdrs : ~IsFree(g)}}
    /\ \A p \in DOMAIN live : live[p] <= hdrs[p - HeaderSize].size

\* A tracked pointer is a pointer some client holds, and it is tracked once:
\* kfree never frees a block through a stale entry of the table.
TrackedAreGranted ==
    /\ \A i \in Slots : tracked[i] # NULL => tracked[i] \in DOMAIN live
    /\ \A i, j \in Slots : tracked[i] = tracked[j] /\ tracked[i] # NULL => i = j

\* Once every grant was given back the heap is the single free block that
\* mm_init made: no sequence of calls leaks or fragments an empty heap.
FreedHeapIsWhole ==
    pc = "idle" /\ DOMAIN live = {} =>
        hdrs = [a \in {HeapStart} |->
                  [size |-> HeapSize - HeaderSize, used |-> BLOCK_FREE]]

\* kfree_all has emptied every slot behind its index, so that it leaves
\* nothing tracked: the frees it makes on the way never skip an entry.
SweepLeavesNothing == \A j \in Slots : j < slot => tracked[j] = NULL

\* What the loops rely on from one iteration to the next: the cursor is on
\* the header of a current block, never on one that coalescing absorbed or
\* past the end; every block that the search has passed is too small or in
\* use; and only kfree_all runs with an index.
LoopInvariant ==
    /\ pc \in {"search", "coalesce"} => cur \in DOMAIN hdrs
    /\ pc = "search" => req # 0 /\ \A h \in DOMAIN hdrs : h < cur => ~Fits(h)
    /\ pc \in {"idle", "search"} => slot = 0
    /\ pc = "sweep" => slot > 0

\* kmalloc returns NULL only when no run of header + rounded size bytes of
\* the arena is clear of the blocks in use: first fit over a coalesced heap
\* never misses room that is there.
RunIsFree(a, n) ==
    /\ a + n <= HeapEnd
    /\ \A h \in DOMAIN hdrs : ~IsFree(h) => a + n <= h \/ BlockEnd(h) <= a

NullOnlyIfNoRoom ==
    [][KmallocFail => \A a \in HeapStart .. HeapEnd : ~RunIsFree(a, HeaderSize + Wanted)]_vars

\* What `free` and /proc/meminfo show adds up: the walks of mm_used and
\* mm_free see every block, so that with the headers they make the arena,
\* and mm_used covers what clients were given.
Accounting ==
    /\ mm_used + mm_free + HeaderSize * (Cardinality(DOMAIN hdrs) - 1) = mm_total
    /\ mm_used >= MapThenSumSet(LAMBDA p : live[p], DOMAIN live)

\* Every kmalloc, kfree and kfree_all returns: none of the loops over the
\* chain runs for ever.
CallReturns == pc # "idle" ~> pc = "idle"

\* The heap is an allocator: see module Allocator.
Abstract == INSTANCE Allocator WITH
    ArenaStart <- HeapStart, ArenaEnd <- HeapEnd, Sizes <- Requests, granted <- live

AllocatorSpec == Abstract!Spec

=============================================================================
