------------------------------ MODULE ListRing ------------------------------
(***************************************************************************)
(* The pointers of freertos/source/list.c: the items of a list and its     *)
(* marker xListEnd form a doubly linked ring, every item points to the     *)
(* list it is in, and pxIndex roves over the ring.  The kernel calls these *)
(* functions with interrupts off or the scheduler suspended, so that each  *)
(* is one step.                                                            *)
(***************************************************************************)
EXTENDS Naturals, SequencesExt

CONSTANTS List, ListItem, MaxValue, NULL

VARIABLES
    pxNext, pxPrevious,     \* [node -> node]
    pxIndex,                \* [List -> node]
    pxContainer,            \* [ListItem -> a list or NULL]
    uxNumberOfItems,        \* [List -> the count]
    xItemValue              \* [ListItem -> the value]

ringVars == <<pxNext, pxPrevious, pxIndex, pxContainer, uxNumberOfItems, xItemValue>>

\* &( pxList->xListEnd ).  A list and its marker share their name here.
xListEnd(l) == l

Node == ListItem \cup List

\* The marker's value is the largest there is.
ValueOf(n) == IF n \in List THEN MaxValue ELSE xItemValue[n]

RingTypeOK ==
    /\ pxNext \in [Node -> Node \cup {NULL}]
    /\ pxPrevious \in [Node -> Node \cup {NULL}]
    /\ pxIndex \in [List -> Node]
    /\ pxContainer \in [ListItem -> List \cup {NULL}]
    /\ uxNumberOfItems \in [List -> 0 .. Cardinality(ListItem)]
    /\ xItemValue \in [ListItem -> 0 .. MaxValue]

\* vListInitialise and vListInitialiseItem, with any values in the items.
RingInit ==
    /\ pxNext = [n \in Node |-> IF n \in List THEN xListEnd(n) ELSE NULL]
    /\ pxPrevious = [n \in Node |-> IF n \in List THEN xListEnd(n) ELSE NULL]
    /\ pxIndex = [l \in List |-> xListEnd(l)]
    /\ pxContainer = [i \in ListItem |-> NULL]
    /\ uxNumberOfItems = [l \in List |-> 0]
    /\ xItemValue \in [ListItem -> 0 .. MaxValue]

\* The node reached from n by following pxNext so many times.
Follow(n) ==
    LET node[steps \in 0 .. Cardinality(ListItem) + 1] ==
             IF steps = 0 THEN n ELSE pxNext[node[steps - 1]]
    IN  node

\* The item goes between p and the node after it.
LinkAfter(l, p, i) ==
    LET q == pxNext[p]
    IN  /\ pxNext' = [pxNext EXCEPT ![i] = q, ![p] = i]
        /\ pxPrevious' = [pxPrevious EXCEPT ![i] = p, ![q] = i]
        /\ pxContainer' = [pxContainer EXCEPT ![i] = l]
        /\ uxNumberOfItems' = [uxNumberOfItems EXCEPT ![l] = @ + 1]
        /\ UNCHANGED <<pxIndex, xItemValue>>

\* Mutant of Iterator: the loop stops before the items of the same value.
IteratorBefore(l, v) ==
    LET node == Follow(xListEnd(l))
        steps == CHOOSE n \in 0 .. uxNumberOfItems[l] :
                    /\ ValueOf(node[n + 1]) >= v
                    /\ \A m \in 1 .. n : ValueOf(node[m]) < v
    IN  node[steps]

\* The loop of vListInsert: from the marker on, past the values up to v.
Iterator(l, v) ==
    LET node == Follow(xListEnd(l))
        steps == CHOOSE n \in 0 .. uxNumberOfItems[l] :
                    /\ ValueOf(node[n + 1]) > v
                    /\ \A m \in 1 .. n : ValueOf(node[m]) <= v
    IN  node[steps]

vListInsert(l, i) ==
    /\ pxContainer[i] = NULL
    /\ IF xItemValue[i] = MaxValue
       THEN LinkAfter(l, pxPrevious[xListEnd(l)], i)
       ELSE LinkAfter(l, Iterator(l, xItemValue[i]), i)

\* vListInsertEnd, listINSERT_END
vListInsertEnd(l, i) ==
    /\ pxContainer[i] = NULL
    /\ LinkAfter(l, pxPrevious[pxIndex[l]], i)

\* uxListRemove, listREMOVE_ITEM
uxListRemove(i) ==
    LET l == pxContainer[i]
    IN  /\ l # NULL
        /\ pxPrevious' = [pxPrevious EXCEPT ![pxNext[i]] = pxPrevious[i]]
        /\ pxNext' = [pxNext EXCEPT ![pxPrevious[i]] = pxNext[i]]
        /\ pxIndex' = [pxIndex EXCEPT ![l] = IF @ = i THEN pxPrevious[i] ELSE @]
        /\ pxContainer' = [pxContainer EXCEPT ![i] = NULL]
        /\ uxNumberOfItems' = [uxNumberOfItems EXCEPT ![l] = @ - 1]
        /\ UNCHANGED xItemValue

listGET_OWNER_OF_NEXT_ENTRY(l) ==
    /\ uxNumberOfItems[l] > 0
    /\ pxIndex' = [pxIndex EXCEPT ![l] =
                      IF pxNext[@] = xListEnd(l) THEN pxNext[xListEnd(l)] ELSE pxNext[@]]
    /\ UNCHANGED <<pxNext, pxPrevious, pxContainer, uxNumberOfItems, xItemValue>>

\* A priority that changes sets the value of an item that is in a list too.
listSET_LIST_ITEM_VALUE(i, v) ==
    /\ xItemValue' = [xItemValue EXCEPT ![i] = v]
    /\ UNCHANGED <<pxNext, pxPrevious, pxIndex, pxContainer, uxNumberOfItems>>

RingNext ==
    \/ \E l \in List, i \in ListItem : vListInsert(l, i) \/ vListInsertEnd(l, i)
    \/ \E i \in ListItem : uxListRemove(i)
    \/ \E l \in List : listGET_OWNER_OF_NEXT_ENTRY(l)
    \/ \E i \in ListItem, v \in 0 .. MaxValue : listSET_LIST_ITEM_VALUE(i, v)

RingSpec == RingInit /\ [][RingNext]_ringVars

-----------------------------------------------------------------------------
(* The sequence a ring stands for.                                         *)

RingItems(l) == [n \in 1 .. uxNumberOfItems[l] |-> Follow(xListEnd(l))[n]]

IndexOf(l) ==
    IF pxIndex[l] = xListEnd(l) THEN 0
    ELSE CHOOSE n \in 1 .. uxNumberOfItems[l] : RingItems(l)[n] = pxIndex[l]

Abstract ==
    INSTANCE ListSpec WITH
        list <- [l \in List |-> RingItems(l)],
        index <- [l \in List |-> IndexOf(l)],
        value <- xItemValue

\* The pointers of an item agree: following pxNext as often as the count says
\* visits exactly the items whose pxContainer is the list and comes back to
\* the marker, pxPrevious is the way back, and pxIndex is on the ring.
RingClosed ==
    \A l \in List :
        LET node == Follow(xListEnd(l))
        IN  /\ node[uxNumberOfItems[l] + 1] = xListEnd(l)
            /\ {node[n] : n \in 1 .. uxNumberOfItems[l]} = {i \in ListItem : pxContainer[i] = l}
            /\ Cardinality({node[n] : n \in 1 .. uxNumberOfItems[l]}) = uxNumberOfItems[l]
            /\ \A n \in 0 .. uxNumberOfItems[l] : pxPrevious[node[n + 1]] = node[n]
            /\ \E n \in 0 .. uxNumberOfItems[l] : node[n] = pxIndex[l]

\* What round-robin scheduling rests on: whatever is inserted and removed, the
\* walk is a queue of turns.  The item returned goes to the end; an item put in
\* with vListInsertEnd comes after every other item but the one pxIndex is on,
\* which has just had its turn; and a removal, even of the item pxIndex is on,
\* makes no other item lose its turn.
TakesTurns ==
    \A l \in List :
        LET turn == Abstract!Rotation(l)
            next == Abstract!Rotation(l)'
        IN  /\ listGET_OWNER_OF_NEXT_ENTRY(l) => next = Append(Tail(turn), Head(turn))
            /\ \A i \in ListItem :
                  /\ vListInsertEnd(l, i) =>
                        next = IF pxIndex[l] = xListEnd(l) THEN Append(turn, i)
                               ELSE Front(turn) \o <<i, Last(turn)>>
                  /\ pxContainer[i] = l /\ uxListRemove(i)
                        => next = Abstract!uxListRemove(turn, i)

=============================================================================
