----------------------------- MODULE QueueSpec -----------------------------
(***************************************************************************)
(* What the item storage of a queue promises: a bounded sequence of items, *)
(* sent to the back or the front, received from the front.  QueueBuffer    *)
(* implements it.                                                          *)
(***************************************************************************)
EXTENDS Naturals, Sequences

CONSTANTS
    Data,       \* the values an item can have
    MaxLength   \* the length of the longest queue

VARIABLES
    length,     \* the items the queue can hold
    items,      \* the items in the queue
    received    \* what the last receive or peek put in the caller's buffer

queueVars == <<length, items, received>>

Init ==
    /\ length \in 1 .. MaxLength
    /\ items = <<>>
    /\ received \in Data

SendToBack(d) ==
    /\ Len(items) < length
    /\ items' = Append(items, d)
    /\ UNCHANGED <<length, received>>

SendToFront(d) ==
    /\ Len(items) < length
    /\ items' = <<d>> \o items
    /\ UNCHANGED <<length, received>>

\* For queues that hold one item: it takes the place of what is there.
Overwrite(d) ==
    /\ length = 1
    /\ items' = <<d>>
    /\ UNCHANGED <<length, received>>

Receive ==
    /\ items # <<>>
    /\ received' = Head(items)
    /\ items' = Tail(items)
    /\ UNCHANGED length

Peek ==
    /\ items # <<>>
    /\ received' = Head(items)
    /\ UNCHANGED <<length, items>>

Reset ==
    /\ items' = <<>>
    /\ UNCHANGED <<length, received>>

Next ==
    \/ \E d \in Data : SendToBack(d) \/ SendToFront(d) \/ Overwrite(d)
    \/ Receive \/ Peek \/ Reset

Spec == Init /\ [][Next]_queueVars

=============================================================================
