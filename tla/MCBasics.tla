------------------------------- MODULE MCBasics -------------------------------
(* What the rest of the kernel stands on, for TLC: the time-out protocol, the   *)
(* storage of queues, the rings of lists, and the heaps.  A behaviour runs one  *)
(* of them, and the others stay as they start.                                  *)
EXTENDS Timeouts, QueueBuffer, ListRing, TLC

CONSTANTS c1, c2      \* two tasks that use a heap

VARIABLES
    setup,                            \* what runs
    heap, call, live, xNextFreeByte   \* Heaps and HeapOnce

heaps == <<heap, call, live, xNextFreeByte>>
all == <<setup, timeoutVars, bufferVars, ringVars, heaps>>

Region(from, bytes) == [start |-> from, size |-> bytes]

Four == INSTANCE Heaps
        WITH Heap <- 4, Regions <- <<Region(10, 44)>>, xHeapStructSize <- 4, portBYTE_ALIGNMENT <- 1,
             Top <- 64, Callers <- {c1, c2}, Sizes <- {0, 1, 6, 9, 36, 61, 125}, MaxCalls <- 4
Five == INSTANCE Heaps
        WITH Heap <- 5, Regions <- <<Region(10, 30), Region(40, 26)>>, xHeapStructSize <- 4,
             portBYTE_ALIGNMENT <- 1, Top <- 64, Callers <- {c1, c2}, Sizes <- {0, 1, 6, 9, 18},
             MaxCalls <- 4
Two == INSTANCE Heaps
       WITH Heap <- 2, Regions <- <<Region(9, 46)>>, xHeapStructSize <- 4, portBYTE_ALIGNMENT <- 2,
            Top <- 64, Callers <- {c1, c2}, Sizes <- {0, 2, 8, 11, 40}, MaxCalls <- 4
Once == INSTANCE HeapOnce
        WITH Address <- 7, configTOTAL_HEAP_SIZE <- 24, portBYTE_ALIGNMENT <- 2, Width <- 64,
             Sizes <- {0, 1, 2, 3, 4, 7, 8, 22, 50, 62, 63}

ASSUME Four!HeapsAssumption /\ Five!HeapsAssumption /\ Two!HeapsAssumption
ASSUME Once!HeapOnceAssumption

MCInit ==
    /\ setup \in {"time", "buffer", "ring", "four", "five", "two", "once"}
    /\ TimeoutInit /\ (setup # "time" => tick = 0)
    /\ BufferInit
    /\ setup # "buffer" => /\ uxLength = 1 /\ \A s \in Slot : memory[s] = pvBuffer
                           /\ pvBuffer = CHOOSE d \in Data : TRUE
    /\ RingInit /\ (setup # "ring" => \A i \in ListItem : xItemValue[i] = 0)
    /\ CASE setup = "five" -> Five!Init
         [] setup = "two" -> Two!Init
         [] OTHER -> Four!Init
    /\ xNextFreeByte = 0

TimeNext == setup = "time" /\ TimeoutNext /\ UNCHANGED <<setup, bufferVars, ringVars, heaps>>
StorageNext == setup = "buffer" /\ BufferNext /\ UNCHANGED <<setup, timeoutVars, ringVars, heaps>>
ListNext == setup = "ring" /\ RingNext /\ UNCHANGED <<setup, timeoutVars, bufferVars, heaps>>
HeapNext ==
    /\ \/ setup = "four" /\ Four!Next /\ UNCHANGED xNextFreeByte
       \/ setup = "five" /\ Five!Next /\ UNCHANGED xNextFreeByte
       \/ setup = "two" /\ Two!Next /\ UNCHANGED xNextFreeByte
       \/ setup = "once" /\ Once!Next /\ UNCHANGED <<heap, call>>
    /\ UNCHANGED <<setup, timeoutVars, bufferVars, ringVars>>

MCNext == TimeNext \/ StorageNext \/ ListNext \/ HeapNext

MCSpec == MCInit /\ [][MCNext]_all

\* Lists, items and tasks are interchangeable.
Symmetry == Permutations(List) \cup Permutations(ListItem) \cup Permutations({c1, c2})

-----------------------------------------------------------------------------
(* Properties.                                                               *)

\* The pointers of list.c behave as the sequences of ListSpec say, and the ring stays
\* closed both ways.  The walk over a list, which round-robin scheduling rests on, is a
\* queue of turns, whatever is inserted and removed.
ImplementsListSpec ==
    /\ Abstract!Init
    /\ [][setup = "ring" => /\ Abstract!Next \/ UNCHANGED Abstract!listVars
                            /\ RingTypeOK /\ RingClosed /\ TakesTurns]_ringVars

(* Properties of the heaps.                                                  *)

\* What pvPortMalloc of any of the heaps returns is in the heap and nobody else's
\* until vPortFree (AllocatorSpec).
ImplementsAllocator ==
    /\ live = {}
    /\ [][/\ setup = "four" => Four!Allocator!Next
          /\ setup = "five" => Five!Allocator!Next
          /\ setup = "two" => Two!Allocator!Next
          /\ setup = "once" => Once!Allocator!Next]_live

\* Splitting, joining and giving back lose no byte: the blocks tile the memory,
\* the free ones are in their order and, but for heap_2, joined, the counters tell
\* what is free, and when all was given back the heap is as it was.
NoByteIsLost ==
    /\ setup = "four" => /\ Four!TypeOK /\ Four!BlocksTile /\ Four!HeadersOutOfReach
                         /\ Four!FreeBytesExact /\ Four!Coalesced /\ Four!AllGivenBack
                         /\ Four!CountersAgree
    /\ setup = "five" => /\ Five!BlocksTile /\ Five!HeadersOutOfReach /\ Five!FreeBytesExact
                         /\ Five!Coalesced /\ Five!AllGivenBack
    /\ setup = "two" => Two!FreeBytesExact /\ Two!OrderedBySize

\* A request that a size_t can hold is refused only when no free block is as large
\* as it, with its header; and the lowest level ever is the lowest there was.
RefusedOnlyForLackOfSpace ==
    [][/\ setup = "four" => Four!RefusesForLackOfSpace /\ Four!ReachesLowestLevel
       /\ setup = "two" => Two!RefusesForLackOfSpace]_all
=============================================================================
