------------------------------ MODULE ListSpec ------------------------------
(***************************************************************************)
(* What list.c promises, over the sequences of Lists.tla: lists of items,  *)
(* each item in one list at most, that are kept in the order of the items' *)
(* values (vListInsert) or walked round and round (vListInsertEnd and      *)
(* listGET_OWNER_OF_NEXT_ENTRY).  ListRing.tla implements it.              *)
(***************************************************************************)
EXTENDS Lists

CONSTANTS
    List,       \* the lists
    ListItem,   \* the items
    MaxValue    \* portMAX_DELAY, the largest xItemValue and the marker's

VARIABLES
    list,   \* [List -> the items in ring order]
    index,  \* [List -> the position of pxIndex]
    value   \* [ListItem -> xItemValue]

listVars == <<list, index, value>>

Holds(l, i) == Occurs(list[l], i)

IsFree(i) == \A l \in List : ~Holds(l, i)

TypeOK ==
    /\ list \in [List -> Seq(ListItem)]
    /\ index \in [List -> Nat]
    /\ value \in [ListItem -> 0 .. MaxValue]
    /\ \A l \in List : index[l] <= Len(list[l])

Init ==
    /\ list = [l \in List |-> <<>>]
    /\ index = [l \in List |-> 0]
    /\ value \in [ListItem -> 0 .. MaxValue]

Insert(l, i) ==
    /\ IsFree(i)
    /\ list' = [list EXCEPT ![l] = vListInsert(@, value, i)]
    /\ index' = [index EXCEPT ![l] =
                    IF @ >= SortedPosition(list[l], value, value[i]) THEN @ + 1 ELSE @]
    /\ UNCHANGED value

InsertEnd(l, i) ==
    /\ IsFree(i)
    /\ list' = [list EXCEPT ![l] = vListInsertEnd(@, index[l], i)]
    /\ index' = [index EXCEPT ![l] = IndexAfterInsertEnd(@)]
    /\ UNCHANGED value

RemoveItem(l, i) ==
    /\ Holds(l, i)
    /\ list' = [list EXCEPT ![l] = uxListRemove(@, i)]
    /\ index' = [index EXCEPT ![l] = IndexAfterRemove(list[l], @, i)]
    /\ UNCHANGED value

NextEntry(l) ==
    /\ list[l] # <<>>
    /\ index' = [index EXCEPT ![l] = NextIndex(list[l], @)]
    /\ UNCHANGED <<list, value>>

SetValue(i, v) ==
    /\ value' = [value EXCEPT ![i] = v]
    /\ UNCHANGED <<list, index>>

Next ==
    \/ \E l \in List, i \in ListItem : Insert(l, i) \/ InsertEnd(l, i) \/ RemoveItem(l, i)
    \/ \E l \in List : NextEntry(l)
    \/ \E i \in ListItem, v \in 0 .. MaxValue : SetValue(i, v)

Spec == Init /\ [][Next]_listVars

-----------------------------------------------------------------------------

\* The items in the order in which listGET_OWNER_OF_NEXT_ENTRY returns them.
Turns(s, x) == SubSeq(s, x + 1, Len(s)) \o SubSeq(s, 1, x)

Rotation(l) == Turns(list[l], index[l])

=============================================================================
