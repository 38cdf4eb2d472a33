---------------------------- MODULE AllocatorSpec ----------------------------
(* What a caller of pvPortMalloc may count on: the bytes it was given lie    *)
(* in the heap and are nobody else's until it gives them back.              *)
EXTENDS Integers

CONSTANTS Spans   \* the intervals [from, to) of addresses of the heap

VARIABLE live     \* what the application holds: [at |-> , bytes |-> ]

Bytes(l) == l.at .. l.at + l.bytes - 1

Init == live = {}

Allocate == \E l \in live' \ live :
    /\ live' = live \cup {l}
    /\ l.bytes > 0
    /\ \E s \in Spans : s.from <= l.at /\ l.at + l.bytes <= s.to
    /\ \A k \in live : Bytes(k) \cap Bytes(l) = {}

GiveBack == \E l \in live : live' = live \ {l}

Next == Allocate \/ GiveBack

Spec == Init /\ [][Next]_live
=============================================================================
