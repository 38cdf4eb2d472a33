---------------------------- MODULE QueueBuffer ----------------------------
(***************************************************************************)
(* The item storage of a queue (freertos/source/queue.c): uxLength slots,  *)
(* the slot the next item goes to, and the slot just before the oldest     *)
(* item, where an item sent to the front goes.  Addresses are counted in   *)
(* items from pcHead, so that pcHead is 0 and pcTail is uxLength.  Every   *)
(* operation runs in a critical section.                                   *)
(***************************************************************************)
EXTENDS Integers, Sequences

CONSTANTS
    Data,       \* the values an item can have
    MaxLength   \* bound: the length of the longest queue

ASSUME LengthAssumption == MaxLength \in Nat

VARIABLES
    uxLength,           \* the items the queue can hold, given when it is created
    memory,             \* [Slot -> the item in it]
    pcWriteTo,          \* the slot the next item sent to the back goes to
    pcReadFrom,         \* the slot before the oldest item
    uxMessagesWaiting,  \* the number of items
    pvBuffer            \* where the caller receives items

bufferVars == <<uxLength, memory, pcWriteTo, pcReadFrom, uxMessagesWaiting, pvBuffer>>

pcHead == 0
pcTail == uxLength
Slot == pcHead .. pcTail - 1

BufferTypeOK ==
    /\ uxLength \in 1 .. MaxLength
    /\ memory \in [Slot -> Data]
    /\ pcWriteTo \in Slot
    /\ pcReadFrom \in Slot
    /\ uxMessagesWaiting \in 0 .. uxLength
    /\ pvBuffer \in Data

\* What xQueueGenericReset sets, for a new queue and an old one.
BufferInit ==
    /\ uxLength \in 1 .. MaxLength
    /\ memory \in [Slot -> Data]
    /\ pcWriteTo = pcHead
    /\ pcReadFrom = uxLength - 1
    /\ uxMessagesWaiting = 0
    /\ pvBuffer \in Data

\* One item up and down, around the ends of the storage.
Ahead(slot) == IF slot + 1 >= pcTail THEN pcHead ELSE slot + 1
Back(slot) == IF slot - 1 < pcHead THEN pcTail - 1 ELSE slot - 1

\* Mutant of prvCopyToFront: an overwritten item is counted twice.
CopyCountingTwice(d, overwrite) ==
    /\ memory' = [memory EXCEPT ![pcReadFrom] = d]
    /\ pcReadFrom' = Back(pcReadFrom)
    /\ uxMessagesWaiting' = uxMessagesWaiting + 1
    /\ UNCHANGED <<uxLength, pcWriteTo, pvBuffer>>

\* prvCopyDataToQueue, for queueSEND_TO_BACK and for the other positions.
prvCopyToBack(d) ==
    /\ memory' = [memory EXCEPT ![pcWriteTo] = d]
    /\ pcWriteTo' = Ahead(pcWriteTo)
    /\ uxMessagesWaiting' = uxMessagesWaiting + 1
    /\ UNCHANGED <<uxLength, pcReadFrom, pvBuffer>>

prvCopyToFront(d, overwrite) ==
    /\ memory' = [memory EXCEPT ![pcReadFrom] = d]
    /\ pcReadFrom' = Back(pcReadFrom)
    /\ uxMessagesWaiting' =
           IF overwrite /\ uxMessagesWaiting > 0 THEN uxMessagesWaiting
           ELSE uxMessagesWaiting + 1
    /\ UNCHANGED <<uxLength, pcWriteTo, pvBuffer>>

\* Mutant of prvCopyDataFromQueue: copied before pcReadFrom moves.
CopyThenAdvance == pvBuffer' = memory[pcReadFrom]

\* What prvCopyDataFromQueue copies, pcReadFrom being moved first.
prvCopyDataFromQueue == pvBuffer' = memory[Ahead(pcReadFrom)]

HasRoom == uxMessagesWaiting < uxLength

xQueueSendToBack(d) == HasRoom /\ prvCopyToBack(d)
xQueueSendToFront(d) == HasRoom /\ prvCopyToFront(d, FALSE)

\* It is asserted that only a queue of one item is overwritten.
xQueueOverwrite(d) == uxLength = 1 /\ prvCopyToFront(d, TRUE)

xQueueReceive ==
    /\ uxMessagesWaiting > 0
    /\ prvCopyDataFromQueue
    /\ pcReadFrom' = Ahead(pcReadFrom)
    /\ uxMessagesWaiting' = uxMessagesWaiting - 1
    /\ UNCHANGED <<uxLength, memory, pcWriteTo>>

\* pcReadFrom is put back.
xQueuePeek ==
    /\ uxMessagesWaiting > 0
    /\ prvCopyDataFromQueue
    /\ UNCHANGED <<uxLength, memory, pcWriteTo, pcReadFrom, uxMessagesWaiting>>

xQueueReset ==
    /\ pcWriteTo' = pcHead
    /\ pcReadFrom' = uxLength - 1
    /\ uxMessagesWaiting' = 0
    /\ UNCHANGED <<uxLength, memory, pvBuffer>>

BufferNext ==
    \/ \E d \in Data : xQueueSendToBack(d) \/ xQueueSendToFront(d) \/ xQueueOverwrite(d)
    \/ xQueueReceive \/ xQueuePeek \/ xQueueReset

BufferSpec == BufferInit /\ [][BufferNext]_bufferVars

-----------------------------------------------------------------------------

\* The slot n slots after another, n <= uxLength.
After(slot, n) == IF slot + n >= uxLength THEN slot + n - uxLength ELSE slot + n

\* The i-th item from the oldest.
Items == [i \in 1 .. uxMessagesWaiting |-> memory[After(Ahead(pcReadFrom), i - 1)]]

\* The two pointers and the count agree: the slot to write is as many slots
\* after the oldest item as there are items, whichever of the two pointers
\* went around the end of the storage last.
PointersAgree == pcWriteTo = After(Ahead(pcReadFrom), uxMessagesWaiting)

Sequence == INSTANCE QueueSpec WITH length <- uxLength, items <- Items, received <- pvBuffer

\* Items come out in the order they were sent, those sent to the front first,
\* and none is lost, doubled or made up.
ImplementsQueueSpec == Sequence!Spec

=============================================================================
