------------------------------- MODULE Heaps -------------------------------
(****************************************************************************)
(* The heaps of MemMang that take blocks back: heap_2 keeps the free blocks *)
(* in the order of their size and never joins two, heap_4 keeps them in the *)
(* order of their address and joins neighbours, and heap_5 is heap_4 over   *)
(* several regions.  A block starts with a header (BlockLink_t) whose size  *)
(* has its top bit set while the block is the application's.  The list of   *)
(* the free blocks, linked through pxNextFreeBlock from xStart, is a        *)
(* sequence of addresses that ends in pxEnd; in heap_5 the end of every     *)
(* earlier region is in it too, as a block of size 0.                       *)
(*                                                                          *)
(* pvPortMalloc suspends the scheduler for the whole of its search.         *)
(* vPortFree clears the top bit before it does so, and vPortGetHeapStats    *)
(* walks the list with the scheduler suspended and reads the counters in a  *)
(* critical section afterwards, so each of the two is two steps.            *)
(****************************************************************************)
EXTENDS Integers, Sequences, FiniteSets, SequencesExt

CONSTANTS
    Heap,             \* 2, 4 or 5: which of the three is built
    Regions,          \* the memory: a sequence of [start, size]
    xHeapStructSize,  \* bytes of a header
    portBYTE_ALIGNMENT,
    Top,              \* heapBLOCK_ALLOCATED_BITMASK, the top bit of a size_t
    Callers,          \* the tasks that use the heap
    Sizes,            \* what they ask for
    MaxCalls          \* how many blocks are given out before the model stops

HeapsAssumption ==
    /\ Heap \in {2, 4, 5}
    /\ Regions \in Seq([start: Nat \ {0}, size: Nat])
    /\ Regions # <<>> /\ (Heap # 5 => Len(Regions) = 1)
    /\ {xHeapStructSize, portBYTE_ALIGNMENT, Top, MaxCalls} \subseteq Nat \ {0}
    /\ xHeapStructSize % portBYTE_ALIGNMENT = 0
    /\ Sizes \subseteq 0 .. 2 * Top - 1
    /\ \A i \in DOMAIN Regions : Regions[i].size > 2 * xHeapStructSize + portBYTE_ALIGNMENT
    /\ \A i, j \in DOMAIN Regions : i < j => Regions[i].start + Regions[i].size <= Regions[j].start

VARIABLES
    heap,   \* the static variables and the headers in the memory, a record
    call,   \* per task, the call it is in
    live    \* what the application holds

vars == <<heap, call, live>>

heapSIZE_MAX == 2 * Top - 1
heapMINIMUM_BLOCK_SIZE == 2 * xHeapStructSize
None == 0
Idle == [pc |-> "idle"]

AlignUp(a) == a + ((0 - a) % portBYTE_ALIGNMENT)
AlignDown(a) == a - (a % portBYTE_ALIGNMENT)

FirstBlock(r) == AlignUp(r.start)
\* xEnd of heap_2 is a variable outside the memory, named here by the address
\* after it.
EndBlock(r) == IF Heap = 2
               THEN FirstBlock(r) + r.size - portBYTE_ALIGNMENT
               ELSE AlignDown(r.start + r.size - xHeapStructSize)

Starts == {FirstBlock(Regions[i]) : i \in DOMAIN Regions}
Ends == {EndBlock(Regions[i]) : i \in DOMAIN Regions}
pxEnd == EndBlock(Regions[Len(Regions)])
SizeOfRegion(i) == EndBlock(Regions[i]) - FirstBlock(Regions[i])
TotalHeapSize == FoldLeft(LAMBDA sum, r : sum + EndBlock(r) - FirstBlock(r), 0, Regions)

-----------------------------------------------------------------------------
Sleeping == [list |-> <<>>, xBlockSize |-> <<>>, xFreeBytesRemaining |-> IF Heap = 2 THEN TotalHeapSize ELSE 0,
             xMinimumEverFreeBytesRemaining |-> 0,
             xNumberOfSuccessfulAllocations |-> 0, xNumberOfSuccessfulFrees |-> 0]

Initialised == heap.list # <<>>

\* prvHeapInit of heap_4, and vPortDefineHeapRegions of heap_5: one free block
\* and one end marker per region, the marker of a region linked to the next.
prvHeapInit ==
    [Sleeping EXCEPT
        !.list = [j \in 1 .. 2 * Len(Regions) |-> IF j % 2 = 1 THEN FirstBlock(Regions[(j + 1) \div 2])
                                                              ELSE EndBlock(Regions[j \div 2])],
        !.xBlockSize = [b \in Starts \cup Ends |->
            IF b \in Starts
            THEN SizeOfRegion(CHOOSE i \in DOMAIN Regions : FirstBlock(Regions[i]) = b)
            ELSE IF Heap = 2 THEN SizeOfRegion(1) ELSE 0],
        !.xFreeBytesRemaining = TotalHeapSize,
        !.xMinimumEverFreeBytesRemaining = TotalHeapSize]

\* Mutant of RequiredSize: the header is left out.
RequiredSizeBare(xWantedSize) == AlignUp(xWantedSize)

\* The size of the block for a request: with the header, and aligned; 0 when
\* a size_t does not hold it.
RequiredSize(xWantedSize) ==
    LET full == AlignUp(xWantedSize + xHeapStructSize)
    IN  IF xWantedSize = 0 \/ full > heapSIZE_MAX THEN 0 ELSE full

\* prvInsertBlockIntoFreeList of heap_2: before the first block that is not smaller.
InsertBySize(h, b) ==
    [h EXCEPT !.list = InsertAt(@, SelectInSeq(@, LAMBDA c : h.xBlockSize[c] >= h.xBlockSize[b]), b)]

\* Block b goes into the list after its i-th block, and is made one with that
\* block (before) and with the next (after).
Joined(h, i, b, before, after) ==
    LET gone == (IF before THEN {b} ELSE {}) \cup (IF after THEN {h.list[i + 1]} ELSE {})
        into == IF before THEN h.list[i] ELSE b
        size == h.xBlockSize[b] + (IF before THEN h.xBlockSize[h.list[i]] ELSE 0)
                                + (IF after THEN h.xBlockSize[h.list[i + 1]] ELSE 0)
        others == IF after THEN RemoveAt(h.list, i + 1) ELSE h.list
    IN  [h EXCEPT !.list = IF before THEN others ELSE InsertAt(others, i + 1, b),
                  !.xBlockSize = [c \in DOMAIN @ \ gone |-> IF c = into THEN size ELSE @[c]]]

LastBelow(h, b) == SelectInSeq(h.list, LAMBDA c : c > b) - 1
Touches(h, i, b) == i > 0 /\ h.list[i] + h.xBlockSize[h.list[i]] = b
Reaches(h, i, b) == b + h.xBlockSize[b] = h.list[i + 1] /\ h.list[i + 1] # pxEnd

\* prvInsertBlockIntoFreeList of heap_4 and heap_5: between its neighbours by
\* address, joined to the one before and to the one after where they touch.
InsertByAddress(h, b) ==
    LET i == LastBelow(h, b) IN Joined(h, i, b, Touches(h, i, b), Reaches(h, i, b))

prvInsertBlockIntoFreeList(h, b) == IF Heap = 2 THEN InsertBySize(h, b) ELSE InsertByAddress(h, b)

\* The index the search stops at: the first block that is large enough, or the
\* end of the list.
FirstFit(h, size) ==
    LET fit == SelectInSeq(h.list, LAMBDA c : h.xBlockSize[c] >= size)
    IN  IF fit = 0 THEN Len(h.list) ELSE fit

\* The size the headers have when block b is cut after the size it is asked for.
Cut(h, b, size) ==
    [c \in DOMAIN h.xBlockSize \cup {b + size} |->
         IF c = b THEN size ELSE IF c = b + size THEN h.xBlockSize[b] - size ELSE h.xBlockSize[c]]

\* Mutant of Split: a block that is too small for two is cut to size all the same.
SplitLossy(h, i, size) ==
    LET b == h.list[i]
    IN  IF h.xBlockSize[b] - size <= heapMINIMUM_BLOCK_SIZE
        THEN [h EXCEPT !.list = RemoveAt(@, i), !.xBlockSize[b] = size]
        ELSE IF Heap = 2
        THEN InsertBySize([h EXCEPT !.list = RemoveAt(@, i), !.xBlockSize = Cut(h, b, size)], b + size)
        ELSE [h EXCEPT !.list = ReplaceAt(@, i, b + size), !.xBlockSize = Cut(h, b, size)]

\* The rest of a block that is large enough for two goes back to the list: to
\* the place of the block it was cut from, or in heap_2 to the place of its size.
Split(h, i, size) ==
    LET b == h.list[i]
    IN  IF h.xBlockSize[b] - size <= heapMINIMUM_BLOCK_SIZE
        THEN [h EXCEPT !.list = RemoveAt(@, i)]
        ELSE IF Heap = 2
        THEN InsertBySize([h EXCEPT !.list = RemoveAt(@, i), !.xBlockSize = Cut(h, b, size)], b + size)
        ELSE [h EXCEPT !.list = ReplaceAt(@, i, b + size), !.xBlockSize = Cut(h, b, size)]

\* The i-th block of the list, as large as it is after the split, leaves it.
\* (heap_2 has neither the lowest level nor the two counters of calls.)
Given(h, i, size) ==
    LET s == Split(h, i, size)
        b == h.list[i]
        left == s.xFreeBytesRemaining - s.xBlockSize[b]
    IN  [s EXCEPT !.xBlockSize[b] = IF @ >= Top THEN @ ELSE @ + Top,
                  !.xFreeBytesRemaining = left,
                  !.xMinimumEverFreeBytesRemaining = IF left < @ THEN left ELSE @,
                  !.xNumberOfSuccessfulAllocations = (@ + 1) % (2 * Top)]

Awake == IF Initialised THEN heap ELSE prvHeapInit

\* Mutant of Suits: a request for all that is left is refused.
SuitsNotAll(h, size) == 0 < size /\ size < Top /\ size < h.xFreeBytesRemaining

\* The top bit of the size is free, and there is as much left.
Suits(h, size) == 0 < size /\ size < Top /\ size <= h.xFreeBytesRemaining

\* pvPortMalloc: the address returned, or None, with the scheduler suspended.
Address(h, size) ==
    IF Suits(h, size) /\ h.list[FirstFit(h, size)] # pxEnd
    THEN h.list[FirstFit(h, size)] + xHeapStructSize ELSE None

pvPortMalloc(t, xWantedSize) ==
    LET size == RequiredSize(xWantedSize)
        at == Address(Awake, size)
    IN  /\ call[t] = Idle /\ (at # None => heap.xNumberOfSuccessfulAllocations < MaxCalls)
        /\ Heap = 5 => Initialised
        /\ heap' = IF at = None THEN Awake ELSE Given(Awake, FirstFit(Awake, size), size)
        /\ live' = live \cup (IF at = None THEN {} ELSE {[at |-> at, bytes |-> xWantedSize]})
        /\ UNCHANGED call

\* vPortDefineHeapRegions of heap_5, called once before anything else.
vPortDefineHeapRegions(t) ==
    /\ Heap = 5 /\ ~Initialised /\ call[t] = Idle
    /\ heap' = prvHeapInit
    /\ UNCHANGED <<call, live>>

\* vPortFree, up to vTaskSuspendAll: the block stops being the application's.
vPortFree(t, l) ==
    LET b == l.at - xHeapStructSize
    IN  /\ call[t] = Idle /\ l \in live
        /\ heap' = [heap EXCEPT !.xBlockSize[b] = @ % Top]
        /\ call' = [call EXCEPT ![t] = IF heap.xBlockSize[b] >= Top
                                       THEN [pc |-> "insert", block |-> b] ELSE Idle]
        /\ live' = live \ {l}

\* The rest of vPortFree.
Insert(t) ==
    /\ call[t].pc = "insert"
    /\ heap' = [prvInsertBlockIntoFreeList(heap, call[t].block) EXCEPT
                    !.xFreeBytesRemaining = @ + heap.xBlockSize[call[t].block],
                    !.xNumberOfSuccessfulFrees = (@ + 1) % (2 * Top)]
    /\ call' = [call EXCEPT ![t] = Idle]
    /\ UNCHANGED live

\* vPortGetHeapStats counts every block of the list but pxEnd.
Counted == {b \in ToSet(heap.list) : b # pxEnd}

vPortGetHeapStats(t) ==
    /\ Heap # 2 /\ call[t] = Idle
    /\ call' = [call EXCEPT ![t] =
           [pc |-> "counters",
            xNumberOfFreeBlocks |-> Cardinality(Counted),
            xSizeOfLargestFreeBlockInBytes |->
                CHOOSE m \in {0} \cup {heap.xBlockSize[b] : b \in Counted} :
                    \A b \in Counted : heap.xBlockSize[b] <= m]]
    /\ UNCHANGED <<heap, live>>

\* The critical section at the end of vPortGetHeapStats, which reads the four
\* counters and returns.
ReadCounters(t) ==
    /\ call[t].pc = "counters"
    /\ call' = [call EXCEPT ![t] = Idle]
    /\ UNCHANGED <<heap, live>>

Init ==
    /\ heap = Sleeping
    /\ call = [t \in Callers |-> Idle]
    /\ live = {}

Next == \E t \in Callers :
    \/ vPortDefineHeapRegions(t)
    \/ \E n \in Sizes : pvPortMalloc(t, n)
    \/ \E l \in live : vPortFree(t, l)
    \/ Insert(t)
    \/ vPortGetHeapStats(t)
    \/ ReadCounters(t)

Spec == Init /\ [][Next]_vars

-----------------------------------------------------------------------------
Free == ToSet(heap.list)
Blocks == DOMAIN heap.xBlockSize
Leaving == {call[t].block : t \in {u \in Callers : call[u].pc = "insert"}}
Taken == {l.at - xHeapStructSize : l \in live}
Size(b) == IF b \in Taken THEN heap.xBlockSize[b] - Top ELSE heap.xBlockSize[b]
SumOfSizes(S) == FoldSet(LAMBDA b, sum : sum + Size(b), 0, S)

\* The list holds blocks, in each of the heaps in its own order; every block is
\* in the list, the application's, or on its way back.
TypeOK ==
    /\ heap.xFreeBytesRemaining \in 0 .. heapSIZE_MAX
    /\ heap.xMinimumEverFreeBytesRemaining \in 0 .. heapSIZE_MAX
    /\ heap.xBlockSize \in [Blocks -> 0 .. heapSIZE_MAX]
    /\ IsInjective(heap.list)
    /\ Initialised => Last(heap.list) = pxEnd
    /\ Blocks = Free \cup Taken \cup Leaving
    /\ Free \cap (Taken \cup Leaving) = {}

\* The blocks tile every region, from its start to its end marker, without a
\* gap and without an overlap: splitting, joining and giving back lose no byte
\* (pvPortMalloc, prvInsertBlockIntoFreeList).
BlocksTile == Initialised => \A i \in DOMAIN Regions :
    LET first == FirstBlock(Regions[i])
        end == EndBlock(Regions[i])
        Inside == {b \in Blocks : first <= b /\ b < end}
    IN  /\ first \in Inside
        /\ \A b \in Inside : /\ b + Size(b) \in Inside \cup {end}
                             /\ \A c \in Inside : ~(b < c /\ c < b + Size(b))

\* What the application holds starts behind a header of its own and ends before
\* the next header: writing all of it hurts no block of the heap.
HeadersOutOfReach == \A l \in live : \A b \in Blocks :
    \/ l.at + l.bytes <= b
    \/ b + xHeapStructSize <= l.at

\* xFreeBytesRemaining is the sum of the sizes of the free blocks, whatever was
\* split off or joined.
FreeBytesExact == Initialised =>
    heap.xFreeBytesRemaining = SumOfSizes(Free \ {pxEnd})

\* The free blocks of heap_4 and heap_5 are in the order of their addresses and
\* no two of them touch: a gap that is plugged joins both its neighbours.
Coalesced == \A i \in 1 .. Len(heap.list) - 2 :
    LET end == heap.list[i] + heap.xBlockSize[heap.list[i]]
    IN  \/ end < heap.list[i + 1]
        \/ end = heap.list[i + 1] /\ heap.xBlockSize[end] = 0

\* When everything was given back the heap is in one piece per region again, as
\* it was at the start: no sequence of calls fragments it for good.
AllGivenBack == Initialised /\ live = {} /\ Leaving = {} =>
    /\ heap.xFreeBytesRemaining = TotalHeapSize
    /\ {b \in Free : heap.xBlockSize[b] > 0} = Starts

\* The blocks of heap_2 are in the order of their size, so that the first that
\* fits is the one that fits best.
OrderedBySize == \A i \in 1 .. Len(heap.list) - 1 :
    heap.xBlockSize[heap.list[i]] <= heap.xBlockSize[heap.list[i + 1]]

\* The two counters differ by the blocks that are not in the list.
CountersAgree ==
    heap.xNumberOfSuccessfulAllocations - heap.xNumberOfSuccessfulFrees
        = Cardinality(live) + Cardinality(Leaving)

\* A request that a size_t can hold is refused only when no free block is as
\* large as it, with its header (pvPortMalloc).
RefusesForLackOfSpace == \A t \in Callers : \A n \in Sizes :
    LET size == RequiredSize(n)
    IN  pvPortMalloc(t, n) /\ live' = live /\ 0 < size /\ size < Top =>
            \A b \in ToSet(Awake.list) \ {pxEnd} : Awake.xBlockSize[b] < size

\* The lowest level ever is never above the level, and moves only down onto it.
ReachesLowestLevel ==
    /\ heap'.xMinimumEverFreeBytesRemaining <= heap'.xFreeBytesRemaining
    /\ Initialised => \/ heap'.xMinimumEverFreeBytesRemaining = heap.xMinimumEverFreeBytesRemaining
                      \/ /\ heap'.xMinimumEverFreeBytesRemaining < heap.xMinimumEverFreeBytesRemaining
                         /\ heap'.xMinimumEverFreeBytesRemaining = heap'.xFreeBytesRemaining

Spans == {[from |-> FirstBlock(Regions[i]), to |-> EndBlock(Regions[i])] : i \in DOMAIN Regions}
Allocator == INSTANCE AllocatorSpec

\* What pvPortMalloc returns is in the heap and nobody else's until vPortFree.
ImplementsAllocator == Allocator!Spec

\* What portable.h:161 says of the available space, the sum of all the free
\* blocks: it is not less than the largest of them.
StatsAgree == [][\A t \in Callers : ReadCounters(t) =>
    call[t].xSizeOfLargestFreeBlockInBytes <= heap.xFreeBytesRemaining]_vars

\* What portable.h:164 says of the number of free blocks, and heap_5.c:682 of
\* the ends of the regions: they are not counted.
MarkersAreNotCounted == \A b \in Counted : heap.xBlockSize[b] > 0
=============================================================================
