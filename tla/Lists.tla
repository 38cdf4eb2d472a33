------------------------------- MODULE Lists -------------------------------
(***************************************************************************)
(* The lists of the kernel (freertos/source/list.c and the macros of       *)
(* list.h), as values.                                                     *)
(*                                                                         *)
(* A List_t is a ring of items closed by the marker xListEnd, with a       *)
(* roving pointer pxIndex.  Here it is a pair of a sequence, the items in  *)
(* ring order starting after the marker, and an index into the sequence:   *)
(* the position of the item pxIndex points to, or 0 when pxIndex points to *)
(* the marker.  ListRing.tla models the pointers themselves and is checked *)
(* to implement these operators.                                           *)
(***************************************************************************)
EXTENDS Naturals, Sequences, SequencesExt

\* t is an item of list s.
Occurs(s, t) == \E i \in DOMAIN s : s[i] = t

\* The position of item t in list s.
Position(s, t) == CHOOSE i \in DOMAIN s : s[i] = t

\* Where an item of value v goes: before the first item of a larger value.
SortedPosition(s, value, v) ==
    CHOOSE i \in 1 .. Len(s) + 1 :
        /\ \A j \in 1 .. i - 1 : value[s[j]] <= v
        /\ i <= Len(s) => value[s[i]] > v

\* vListInsert: insertion by value, after the items of the same value.
vListInsert(s, value, t) == InsertAt(s, SortedPosition(s, value, value[t]), t)

\* vListInsertEnd: insertion just before pxIndex, so that the item is the
\* last one listGET_OWNER_OF_NEXT_ENTRY reaches.
vListInsertEnd(s, index, t) ==
    IF index = 0 THEN Append(s, t) ELSE InsertAt(s, index, t)

IndexAfterInsertEnd(index) == IF index = 0 THEN 0 ELSE index + 1

\* uxListRemove: a removed item that pxIndex points to leaves pxIndex on its
\* predecessor, which is the marker when the item was the first.
uxListRemove(s, t) == RemoveAt(s, Position(s, t))

IndexAfterRemove(s, index, t) ==
    IF Position(s, t) <= index THEN index - 1 ELSE index

\* Mutant of NextIndex: pxIndex moves only off the marker.
NextIndexStays(s, index) == IF index = 0 THEN 1 ELSE index

\* listGET_OWNER_OF_NEXT_ENTRY: the next position, the marker skipped.
NextIndex(s, index) == IF index = Len(s) THEN 1 ELSE index + 1

=============================================================================
