------------------------------ MODULE HeapOnce ------------------------------
(* heap_1 of MemMang: blocks are cut from the start of an array, one behind  *)
(* the other, and are never given back.                                     *)
EXTENDS Integers

CONSTANTS
    Address,            \* where ucHeap lies
    configTOTAL_HEAP_SIZE,
    portBYTE_ALIGNMENT,
    Width,              \* how many values a size_t has
    Sizes               \* what the tasks ask for

HeapOnceAssumption ==
    /\ {Address, configTOTAL_HEAP_SIZE, portBYTE_ALIGNMENT, Width} \subseteq Nat \ {0}
    /\ portBYTE_ALIGNMENT < configTOTAL_HEAP_SIZE /\ configTOTAL_HEAP_SIZE < Width
    /\ Width % portBYTE_ALIGNMENT = 0
    /\ Sizes \subseteq 0 .. Width - 1

VARIABLES
    xNextFreeByte,
    live   \* what the application was given

vars == <<xNextFreeByte, live>>

configADJUSTED_HEAP_SIZE == configTOTAL_HEAP_SIZE - portBYTE_ALIGNMENT

\* The aligned address at or below the last byte of the first alignment unit.
pucAlignedHeap == Address + portBYTE_ALIGNMENT - 1
                  - ((Address + portBYTE_ALIGNMENT - 1) % portBYTE_ALIGNMENT)

Plus(a, b) == (a + b) % Width

\* A size rounded up, or 0 when the sum does not fit a size_t.
AlignedSize(n) ==
    LET up == Plus(n, (0 - n) % portBYTE_ALIGNMENT)
    IN  IF up >= n THEN up ELSE 0

\* There is room left, and the sum has not wrapped.
Room(size) ==
    /\ size > 0
    /\ Plus(xNextFreeByte, size) < configADJUSTED_HEAP_SIZE
    /\ Plus(xNextFreeByte, size) > xNextFreeByte

\* pvPortMalloc, with the scheduler suspended.  vPortFree does nothing.
pvPortMalloc(xWantedSize) ==
    LET size == AlignedSize(xWantedSize)
    IN  IF Room(size)
        THEN /\ xNextFreeByte' = xNextFreeByte + size
             /\ live' = live \cup {[at |-> pucAlignedHeap + xNextFreeByte, bytes |-> xWantedSize]}
        ELSE UNCHANGED vars

Init == xNextFreeByte = 0 /\ live = {}

Next == \E n \in Sizes : pvPortMalloc(n)

Spec == Init /\ [][Next]_vars

-----------------------------------------------------------------------------
Spans == {[from |-> Address, to |-> Address + configTOTAL_HEAP_SIZE]}
Allocator == INSTANCE AllocatorSpec

\* What pvPortMalloc of heap_1 returns is in the array and nobody else's.
ImplementsAllocator == Allocator!Spec

xPortGetFreeHeapSize == configADJUSTED_HEAP_SIZE - xNextFreeByte

\* What heap_1.c:111 says of its check, that there is enough room left: a
\* request that the free size it reports would hold is not refused.
RoomIsUsed == \A n \in Sizes :
    0 < AlignedSize(n) /\ AlignedSize(n) <= xPortGetFreeHeapSize => Room(AlignedSize(n))
=============================================================================
