----------------------------- MODULE StreamSpec -----------------------------
(***************************************************************************)
(* What a stream or message buffer promises (freertos/source/              *)
(* stream_buffer.c): the items the writer sends are received once, in      *)
(* order, one or more at a time.  An item is a byte of a stream buffer or  *)
(* a whole message of a message buffer.                                    *)
(***************************************************************************)
EXTENDS Naturals, Sequences

CONSTANTS
    Item        \* the bytes, or the messages

VARIABLES
    sending,    \* the items of the writer's call that are not in the buffer yet
    items,      \* the items in the buffer, the oldest first
    received    \* what the reader is given

vars == <<sending, items, received>>

Init ==
    /\ sending \in Seq(Item)
    /\ items = <<>>
    /\ received = <<>>

\* The writer calls, or returns with items that found no room.
Call ==
    /\ sending' \in Seq(Item)
    /\ UNCHANGED <<items, received>>

\* The call of an interrupt is over with that, and the next may be different.
Send ==
    /\ \E n \in 1 .. Len(sending) : items' = items \o SubSeq(sending, 1, n)
    /\ sending' \in Seq(Item)
    /\ UNCHANGED received

Receive ==
    /\ \E n \in 1 .. Len(items) :
          /\ received' = SubSeq(items, 1, n)
          /\ items' = SubSeq(items, n + 1, Len(items))
    /\ UNCHANGED sending

\* The reader is done with them.
Forget ==
    /\ received' = <<>>
    /\ UNCHANGED <<sending, items>>

\* A reset throws the content away.
Reset ==
    /\ items' = <<>>
    /\ UNCHANGED <<sending, received>>

Next == Call \/ Send \/ Receive \/ Forget \/ Reset

Spec == Init /\ [][Next]_vars

=============================================================================
