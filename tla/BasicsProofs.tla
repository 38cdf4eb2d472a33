---------------------------- MODULE BasicsProofs ----------------------------
(***************************************************************************)
(* Proofs about what the kernel stands on.                                 *)
(*                                                                         *)
(* The lists of ListSpec.tla, for any number of lists and items and any    *)
(* values: they keep their types, no item is linked twice, and the walk    *)
(* reaches every item in its turn.                                         *)
(*                                                                         *)
(* The tick arithmetic of TickCount.tla and the time-out protocol of       *)
(* Timeouts.tla, for every width of the tick count, every width of the     *)
(* count of its wraps and every bound.                                     *)
(*                                                                         *)
(* The item storage of a queue, for any length and any data: the pointers  *)
(* stay in the storage and agree with the count, and the storage           *)
(* implements the sequence of QueueSpec.tla.                               *)
(***************************************************************************)
EXTENDS ListSpec, ListsLemmas, Timeouts, QueueBuffer

-----------------------------------------------------------------------------
(* Lists.                                                                  *)

-----------------------------------------------------------------------------
(* The lists of ListSpec. *)

\* No item is linked twice, neither in two lists nor in one.
LinkedOnce ==
    \A l, m \in List : \A j \in 1 .. Len(list[l]), k \in 1 .. Len(list[m]) :
        list[l][j] = list[m][k] => l = m /\ j = k

ListInv == TypeOK /\ LinkedOnce

\* What an insertion does to the list: the item goes in at some position.
LEMMA InsertedKeepsInv ==
    ASSUME ListInv, NEW l \in List, NEW i \in ListItem, IsFree(i),
           NEW p \in 1 .. Len(list[l]) + 1,
           list' = [list EXCEPT ![l] = InsertAt(list[l], p, i)]
    PROVE  /\ list' \in [List -> Seq(ListItem)]
           /\ Len(list'[l]) = Len(list[l]) + 1
           /\ LinkedOnce'
<1> DEFINE new == InsertAt(list[l], p, i)
<1>1. list \in [List -> Seq(ListItem)] /\ \A m \in List : Len(list[m]) \in Nat
  BY LenProperties DEF ListInv, TypeOK
<1>2. /\ new \in Seq(ListItem) /\ Len(new) = Len(list[l]) + 1
      /\ \A j \in 1 .. Len(list[l]) + 1 :
             new[j] = IF j < p THEN list[l][j] ELSE IF j = p THEN i ELSE list[l][j - 1]
  BY <1>1, InsertAtProperties
<1>3. list' = [list EXCEPT ![l] = new]
  OBVIOUS
<1> HIDE DEF new
<1>4. \A m \in List : list'[m] = IF m = l THEN new ELSE list[m]
  BY <1>1, <1>3
<1>5. \A m \in List : \A j \in 1 .. Len(list[m]) : list[m][j] # i
  BY <1>1, LenProperties DEF IsFree, Holds, Occurs
<1>6. ASSUME NEW j \in 1 .. Len(new)
      PROVE  \/ new[j] = i /\ j = p
             \/ \E o \in 1 .. Len(list[l]) :
                   new[j] = list[l][o] /\ o = (IF j < p THEN j ELSE j - 1) /\ j # p
  BY <1>1, <1>2
<1>7. ASSUME NEW m \in List, NEW n \in List,
             NEW j \in 1 .. Len(list'[m]), NEW k \in 1 .. Len(list'[n]),
             list'[m][j] = list'[n][k]
      PROVE  m = n /\ j = k
  <2>1. CASE m = l /\ n = l
    <3>1. j \in 1 .. Len(new) /\ k \in 1 .. Len(new) /\ new[j] = new[k]
      BY <1>4, <1>7, <2>1
    <3>2. CASE new[j] = i
      <4>1. j = p
        BY <1>5, <1>6, <3>1, <3>2
      <4>2. k = p
        BY <1>5, <1>6, <3>1, <3>2
      <4> QED  BY <2>1, <4>1, <4>2
    <3>3. CASE new[j] # i
      <4>1. PICK o \in 1 .. Len(list[l]) :
                new[j] = list[l][o] /\ o = (IF j < p THEN j ELSE j - 1) /\ j # p
        BY <1>6, <3>1, <3>3
      <4>2. PICK q \in 1 .. Len(list[l]) :
                new[k] = list[l][q] /\ q = (IF k < p THEN k ELSE k - 1) /\ k # p
        BY <1>6, <3>1, <3>3
      <4>3. o = q
        <5>1. list[l][o] = list[l][q]
          BY <3>1, <4>1, <4>2
        <5> QED  BY <5>1 DEF ListInv, LinkedOnce
      <4>4. j \in Int /\ k \in Int /\ p \in Int
        BY <3>1
      <4> QED  BY <2>1, <4>1, <4>2, <4>3, <4>4
    <3> QED  BY <3>2, <3>3
  <2>2. CASE m = l /\ n # l
    <3>1. j \in 1 .. Len(new) /\ k \in 1 .. Len(list[n]) /\ new[j] = list[n][k]
      BY <1>4, <1>7, <2>2
    <3> QED  BY <1>5, <1>6, <2>2, <3>1 DEF ListInv, LinkedOnce
  <2>3. CASE m # l /\ n = l
    <3>1. k \in 1 .. Len(new) /\ j \in 1 .. Len(list[m]) /\ new[k] = list[m][j]
      BY <1>4, <1>7, <2>3
    <3> QED  BY <1>5, <1>6, <2>3, <3>1 DEF ListInv, LinkedOnce
  <2>4. CASE m # l /\ n # l
    BY <1>4, <1>7, <2>4 DEF ListInv, LinkedOnce
  <2> QED  BY <2>1, <2>2, <2>3, <2>4
<1> QED  BY <1>1, <1>2, <1>3, <1>4, <1>7 DEF LinkedOnce

\* What a removal does to the list: the item of some position goes.
LEMMA RemovedKeepsInv ==
    ASSUME ListInv, NEW l \in List, NEW p \in 1 .. Len(list[l]),
           list' = [list EXCEPT ![l] = RemoveAt(list[l], p)]
    PROVE  /\ list' \in [List -> Seq(ListItem)]
           /\ Len(list'[l]) = Len(list[l]) - 1
           /\ LinkedOnce'
<1> DEFINE new == RemoveAt(list[l], p)
<1>1. list \in [List -> Seq(ListItem)] /\ \A m \in List : Len(list[m]) \in Nat
  BY LenProperties DEF ListInv, TypeOK
<1>2. /\ new \in Seq(ListItem) /\ Len(new) = Len(list[l]) - 1
      /\ \A j \in 1 .. Len(list[l]) - 1 :
             new[j] = IF j < p THEN list[l][j] ELSE list[l][j + 1]
  BY <1>1, RemoveAtProperties
<1>3. list' = [list EXCEPT ![l] = new]
  OBVIOUS
<1> HIDE DEF new
<1>4. \A m \in List : list'[m] = IF m = l THEN new ELSE list[m]
  BY <1>1, <1>3
<1>5. ASSUME NEW m \in List, NEW j \in 1 .. Len(list'[m])
      PROVE  \E o \in 1 .. Len(list[m]) :
                 /\ list'[m][j] = list[m][o]
                 /\ o = IF m = l /\ j >= p THEN j + 1 ELSE j
  <2>1. CASE m = l
    <3>1. j \in 1 .. Len(list[l]) - 1 /\ list'[m] = new
      BY <1>2, <1>4, <2>1
    <3> QED  BY <1>1, <1>2, <2>1, <3>1
  <2>2. CASE m # l
    BY <1>4, <2>2
  <2> QED  BY <2>1, <2>2
<1>6. LinkedOnce'
  <2> SUFFICES ASSUME NEW m \in List, NEW n \in List,
                      NEW j \in 1 .. Len(list'[m]), NEW k \in 1 .. Len(list'[n]),
                      list'[m][j] = list'[n][k]
               PROVE  m = n /\ j = k
    BY DEF LinkedOnce
  <2>1. PICK o \in 1 .. Len(list[m]) :
            list'[m][j] = list[m][o] /\ o = IF m = l /\ j >= p THEN j + 1 ELSE j
    BY <1>5
  <2>2. PICK q \in 1 .. Len(list[n]) :
            list'[n][k] = list[n][q] /\ q = IF n = l /\ k >= p THEN k + 1 ELSE k
    BY <1>5
  <2>3. m = n /\ o = q
    BY <2>1, <2>2 DEF ListInv, LinkedOnce
  <2>4. j \in Int /\ k \in Int /\ p \in Int
    OBVIOUS
  <2> QED  BY <2>1, <2>2, <2>3, <2>4
<1> QED  BY <1>1, <1>2, <1>3, <1>4, <1>6

\* The inductive invariant: the types need the place of an item in a list to
\* exist, and an item once in its list.
LEMMA ListInvInductive ==
    ASSUME MaxValue \in Nat, ListInv, [Next]_listVars
    PROVE  ListInv'
<1>1. /\ list \in [List -> Seq(ListItem)] /\ index \in [List -> Nat]
      /\ value \in [ListItem -> 0 .. MaxValue] /\ value \in [ListItem -> Nat]
      /\ \A l \in List : Len(list[l]) \in Nat /\ index[l] <= Len(list[l])
  BY LenProperties DEF ListInv, TypeOK
<1>2. ASSUME NEW l \in List, NEW i \in ListItem, Insert(l, i)
      PROVE  ListInv'
  <2> DEFINE p == SortedPosition(list[l], value, value[i])
  <2>1. p \in 1 .. Len(list[l]) + 1
    BY <1>1, SortedPositionFound
  <2>2. list' = [list EXCEPT ![l] = InsertAt(list[l], p, i)]
    BY <1>2 DEF Insert, vListInsert
  <2>3. index' = [index EXCEPT ![l] = IF index[l] >= p THEN index[l] + 1 ELSE index[l]]
    BY <1>2 DEF Insert
  <2> HIDE DEF p
  <2>4. /\ list' \in [List -> Seq(ListItem)] /\ Len(list'[l]) = Len(list[l]) + 1
        /\ LinkedOnce'
    BY <1>2, <2>1, <2>2, InsertedKeepsInv DEF Insert
  <2>5. \A m \in List : m # l => list'[m] = list[m]
    BY <1>1, <2>2
  <2>6. index' \in [List -> Nat] /\ \A m \in List : index'[m] <= Len(list'[m])
    <3>1. \A m \in List : index[m] \in Nat /\ Len(list[m]) \in Nat /\ index[m] <= Len(list[m])
      BY <1>1
    <3>2. ASSUME NEW m \in List
          PROVE  index'[m] \in Nat /\ index'[m] <= Len(list'[m])
      <4>1. CASE m = l
        <5>1. index'[l] = index[l] \/ index'[l] = index[l] + 1
          BY <1>1, <2>3
        <5> QED  BY <2>4, <3>1, <4>1, <5>1
      <4>2. CASE m # l
        BY <1>1, <2>3, <2>5, <3>1, <4>2
      <4> QED  BY <4>1, <4>2
    <3>3. index' = [m \in List |-> index'[m]]
      BY <1>1, <2>3
    <3> QED  BY <3>2, <3>3
  <2> QED  BY <1>1, <1>2, <2>4, <2>6 DEF ListInv, TypeOK, Insert
<1>3. ASSUME NEW l \in List, NEW i \in ListItem, InsertEnd(l, i)
      PROVE  ListInv'
  <2> DEFINE p == IF index[l] = 0 THEN Len(list[l]) + 1 ELSE index[l]
  <2>1. p \in 1 .. Len(list[l]) + 1
    BY <1>1
  <2>2. list' = [list EXCEPT ![l] = InsertAt(list[l], p, i)]
    <3>1. CASE index[l] = 0
      <4>1. list' = [list EXCEPT ![l] = Append(list[l], i)]
        BY <1>3, <3>1 DEF InsertEnd, vListInsertEnd
      <4>2. Append(list[l], i) = InsertAt(list[l], Len(list[l]) + 1, i)
        BY <1>1, AppendIsInsertion
      <4> QED  BY <3>1, <4>1, <4>2
    <3>2. CASE index[l] # 0
      BY <1>3, <3>2 DEF InsertEnd, vListInsertEnd
    <3> QED  BY <3>1, <3>2
  <2>3. index' = [index EXCEPT ![l] = IF index[l] = 0 THEN 0 ELSE index[l] + 1]
    BY <1>3 DEF InsertEnd, IndexAfterInsertEnd
  <2> HIDE DEF p
  <2>4. /\ list' \in [List -> Seq(ListItem)] /\ Len(list'[l]) = Len(list[l]) + 1
        /\ LinkedOnce'
    BY <1>3, <2>1, <2>2, InsertedKeepsInv DEF InsertEnd
  <2>5. \A m \in List : m # l => list'[m] = list[m]
    BY <1>1, <2>2
  <2>6. index' \in [List -> Nat] /\ \A m \in List : index'[m] <= Len(list'[m])
    <3>1. \A m \in List : index[m] \in Nat /\ Len(list[m]) \in Nat /\ index[m] <= Len(list[m])
      BY <1>1
    <3>2. ASSUME NEW m \in List
          PROVE  index'[m] \in Nat /\ index'[m] <= Len(list'[m])
      <4>1. CASE m = l
        <5>1. index'[l] = index[l] \/ index'[l] = index[l] + 1
          BY <1>1, <2>3
        <5> QED  BY <2>4, <3>1, <4>1, <5>1
      <4>2. CASE m # l
        BY <1>1, <2>3, <2>5, <3>1, <4>2
      <4> QED  BY <4>1, <4>2
    <3>3. index' = [m \in List |-> index'[m]]
      BY <1>1, <2>3
    <3> QED  BY <3>2, <3>3
  <2> QED  BY <1>1, <1>3, <2>4, <2>6 DEF ListInv, TypeOK, InsertEnd
<1>4. ASSUME NEW l \in List, NEW i \in ListItem, RemoveItem(l, i)
      PROVE  ListInv'
  <2> DEFINE p == Position(list[l], i)
  <2>1. p \in 1 .. Len(list[l])
    BY <1>1, <1>4, PositionFound DEF RemoveItem, Holds
  <2>2. list' = [list EXCEPT ![l] = RemoveAt(list[l], p)]
    BY <1>4 DEF RemoveItem, uxListRemove
  <2>3. index' = [index EXCEPT ![l] = IF p <= index[l] THEN index[l] - 1 ELSE index[l]]
    BY <1>4 DEF RemoveItem, IndexAfterRemove
  <2> HIDE DEF p
  <2>4. /\ list' \in [List -> Seq(ListItem)] /\ Len(list'[l]) = Len(list[l]) - 1
        /\ LinkedOnce'
    BY <2>1, <2>2, RemovedKeepsInv
  <2>5. \A m \in List : m # l => list'[m] = list[m]
    BY <1>1, <2>2
  <2>6. index' \in [List -> Nat] /\ \A m \in List : index'[m] <= Len(list'[m])
    <3>1. ASSUME NEW m \in List
          PROVE  index'[m] \in Nat /\ index'[m] <= Len(list'[m])
      <4>1. CASE m = l
        <5>1. index'[l] = IF p <= index[l] THEN index[l] - 1 ELSE index[l]
          BY <1>1, <2>3
        <5>2. Len(list[l]) \in Nat /\ index[l] \in Nat /\ index[l] <= Len(list[l])
          BY <1>1
        <5> QED  BY <2>1, <2>4, <4>1, <5>1, <5>2
      <4>2. CASE m # l
        BY <1>1, <2>3, <2>5, <4>2
      <4> QED  BY <4>1, <4>2
    <3>2. index' = [m \in List |-> index'[m]]
      BY <1>1, <2>3
    <3> QED  BY <3>1, <3>2
  <2> QED  BY <1>1, <1>4, <2>4, <2>6 DEF ListInv, TypeOK, RemoveItem
<1>5. ASSUME NEW l \in List, NextEntry(l)
      PROVE  ListInv'
  <2>1. Len(list[l]) > 0
    BY <1>1, <1>5, EmptySeq DEF NextEntry
  <2>2. index' \in [List -> Nat] /\ \A m \in List : index'[m] <= Len(list[m])
    BY <1>1, <1>5, <2>1 DEF NextEntry, NextIndex
  <2> QED  BY <1>5, <2>2 DEF ListInv, TypeOK, LinkedOnce, NextEntry
<1>6. ASSUME NEW i \in ListItem, NEW v \in 0 .. MaxValue, SetValue(i, v)
      PROVE  ListInv'
  BY <1>1, <1>6 DEF ListInv, TypeOK, LinkedOnce, SetValue
<1>7. CASE UNCHANGED listVars
  BY <1>7 DEF ListInv, TypeOK, LinkedOnce, listVars
<1> QED  BY <1>2, <1>3, <1>4, <1>5, <1>6, <1>7 DEF Next

\* The inductive invariant of the lists holds always.
LEMMA ListInvAlways == ASSUME MaxValue \in Nat PROVE Spec => []ListInv
<1>1. Init => ListInv
  BY EmptySeq DEF Init, ListInv, TypeOK, LinkedOnce
<1>2. ListInv /\ [Next]_listVars => ListInv'
  BY ListInvInductive
<1> QED  BY <1>1, <1>2, PTL DEF Spec

\* The lists hold items and pxIndex never leaves its list.
THEOREM ListsTypeCorrect == ASSUME MaxValue \in Nat PROVE Spec => []TypeOK
<1>1. ListInv => TypeOK
  BY DEF ListInv
<1> QED  BY <1>1, ListInvAlways, PTL

\* No sequence of calls links an item twice: what the walks of the kernel's
\* lists, which end at the marker, rest on.
THEOREM NeverLinkedTwice == ASSUME MaxValue \in Nat PROVE Spec => []LinkedOnce
<1>1. ListInv => LinkedOnce
  BY DEF ListInv
<1> QED  BY <1>1, ListInvAlways, PTL

-----------------------------------------------------------------------------
(* The walk of listGET_OWNER_OF_NEXT_ENTRY. *)

\* Every item has one turn, those after pxIndex first.
LEMMA TurnsProperties ==
    ASSUME NEW S, NEW s \in Seq(S), NEW x \in 0 .. Len(s)
    PROVE  /\ Turns(s, x) \in Seq(S)
           /\ Len(Turns(s, x)) = Len(s)
           /\ \A j \in 1 .. Len(s) :
                  Turns(s, x)[j] = IF j <= Len(s) - x THEN s[x + j] ELSE s[j - (Len(s) - x)]
<1> DEFINE first == SubSeq(s, x + 1, Len(s))
           second == SubSeq(s, 1, x)
<1>1. Len(s) \in Nat /\ \A j \in 1 .. Len(s) : s[j] \in S
  BY LenProperties, ElementOfSeq
<1>2. /\ first \in Seq(S) /\ Len(first) = Len(s) - x
      /\ \A j \in 1 .. Len(s) - x : first[j] = s[x + j]
  <2>1. \A j \in x + 1 .. Len(s) : s[j] \in S
    BY <1>1
  <2>2. /\ first \in Seq(S) /\ Len(first) = IF x + 1 <= Len(s) THEN Len(s) - (x + 1) + 1 ELSE 0
        /\ \A j \in 1 .. Len(s) - (x + 1) + 1 : first[j] = s[x + 1 + j - 1]
    BY <1>1, <2>1, SubSeqProperties
  <2> HIDE DEF first
  <2> QED  BY <1>1, <2>2
<1>3. /\ second \in Seq(S) /\ Len(second) = x
      /\ \A j \in 1 .. x : second[j] = s[j]
  <2>1. \A j \in 1 .. x : s[j] \in S
    BY <1>1
  <2>2. /\ second \in Seq(S) /\ Len(second) = IF 1 <= x THEN x - 1 + 1 ELSE 0
        /\ \A j \in 1 .. x - 1 + 1 : second[j] = s[1 + j - 1]
    BY <1>1, <2>1, SubSeqProperties
  <2> HIDE DEF second
  <2> QED  BY <1>1, <2>2
<1>4. Turns(s, x) = first \o second
  BY DEF Turns
<1> HIDE DEF first, second
<1> DEFINE joined == first \o second
<1>5. /\ joined \in Seq(S) /\ Len(joined) = Len(first) + Len(second)
      /\ \A j \in 1 .. Len(first) + Len(second) :
             joined[j] = IF j <= Len(first) THEN first[j] ELSE second[j - Len(first)]
  BY <1>2, <1>3, ConcatProperties
<1> HIDE DEF joined
<1>6. Len(first) + Len(second) = Len(s)
  BY <1>1, <1>2, <1>3
<1>7. ASSUME NEW j \in 1 .. Len(s)
      PROVE  joined[j] = IF j <= Len(s) - x THEN s[x + j] ELSE s[j - (Len(s) - x)]
  <2>1. CASE j <= Len(s) - x
    <3>1. j \in 1 .. Len(s) - x
      BY <1>1, <2>1
    <3> QED  BY <1>2, <1>5, <1>6, <2>1, <3>1
  <2>2. CASE ~(j <= Len(s) - x)
    <3>1. j - (Len(s) - x) \in 1 .. x
      BY <1>1, <2>2
    <3> QED  BY <1>2, <1>3, <1>5, <1>6, <2>2, <3>1
  <2> QED  BY <2>1, <2>2
<1> QED  BY <1>4, <1>5, <1>6, <1>7 DEF joined

\* The item returned goes to the end of the walk.
LEMMA WalkAdvances ==
    ASSUME NEW S, NEW s \in Seq(S), s # <<>>, NEW x \in 0 .. Len(s)
    PROVE  Turns(s, NextIndex(s, x)) = Append(Tail(Turns(s, x)), Head(Turns(s, x)))
<1> DEFINE y == NextIndex(s, x)
           turn == Turns(s, x)
           next == Turns(s, y)
           moved == Append(Tail(turn), Head(turn))
<1>1. Len(s) \in Nat /\ Len(s) > 0
  BY LenProperties, EmptySeq
<1>2. y \in 1 .. Len(s) /\ y = IF x = Len(s) THEN 1 ELSE x + 1
  BY <1>1 DEF NextIndex
<1> HIDE DEF y
<1>3. /\ turn \in Seq(S) /\ Len(turn) = Len(s)
      /\ \A j \in 1 .. Len(s) : turn[j] = IF j <= Len(s) - x THEN s[x + j] ELSE s[j - (Len(s) - x)]
  BY TurnsProperties
<1>4. /\ next \in Seq(S) /\ Len(next) = Len(s)
      /\ \A j \in 1 .. Len(s) : next[j] = IF j <= Len(s) - y THEN s[y + j] ELSE s[j - (Len(s) - y)]
  <2>1. y \in 0 .. Len(s)
    BY <1>1, <1>2
  <2> QED  BY <2>1, TurnsProperties
<1> HIDE DEF turn, next
<1>5. /\ Head(turn) = turn[1] /\ Head(turn) \in S /\ Tail(turn) \in Seq(S)
      /\ Len(Tail(turn)) = Len(s) - 1
      /\ \A j \in 1 .. Len(s) - 1 : Tail(turn)[j] = turn[j + 1]
  <2>1. turn # <<>>
    BY <1>1, <1>3, EmptySeq
  <2> QED  BY <1>3, <2>1, HeadTailProperties
<1> HIDE DEF moved
<1>6. /\ moved \in Seq(S) /\ Len(moved) = Len(s)
      /\ \A j \in 1 .. Len(s) - 1 : moved[j] = turn[j + 1]
      /\ moved[Len(s)] = turn[1]
  BY <1>1, <1>5, AppendProperties DEF moved
<1>7. ASSUME NEW j \in 1 .. Len(s)
      PROVE  next[j] = moved[j]
  <2>1. CASE j = Len(s)
    <3>1. next[j] = s[y]
      <4>1. next[j] = s[j - (Len(s) - y)] /\ j - (Len(s) - y) = y
        BY <1>1, <1>2, <1>4, <2>1
      <4> QED  BY <4>1
    <3>2. moved[j] = IF 1 <= Len(s) - x THEN s[x + 1] ELSE s[1 - (Len(s) - x)]
      BY <1>1, <1>3, <1>6, <2>1
    <3>3. CASE x = Len(s)
      <4>1. 1 - (Len(s) - x) = 1 /\ ~(1 <= Len(s) - x) /\ y = 1
        BY <1>1, <1>2, <3>3
      <4> QED  BY <3>1, <3>2, <4>1
    <3>4. CASE x # Len(s)
      <4>1. 1 <= Len(s) - x /\ y = x + 1
        BY <1>1, <1>2, <3>4
      <4> QED  BY <3>1, <3>2, <4>1
    <3> QED  BY <3>3, <3>4
  <2>2. CASE j # Len(s)
    <3>1. j \in 1 .. Len(s) - 1 /\ j + 1 \in 1 .. Len(s)
      BY <1>1, <2>2
    <3>2. moved[j] = IF j + 1 <= Len(s) - x THEN s[x + (j + 1)] ELSE s[(j + 1) - (Len(s) - x)]
      BY <1>3, <1>6, <3>1
    <3>3. CASE x = Len(s)
      BY <1>1, <1>2, <1>4, <3>1, <3>2, <3>3
    <3>4. CASE x # Len(s)
      BY <1>1, <1>2, <1>4, <3>1, <3>2, <3>4
    <3> QED  BY <3>3, <3>4
  <2> QED  BY <2>1, <2>2
<1>8. next = moved
  BY <1>4, <1>6, <1>7, SeqEqual
<1> QED  BY <1>8 DEF next, moved, turn, y

\* vListInsertEnd before the marker: the item gets the last turn.
LEMMA WalkAppends ==
    ASSUME NEW S, NEW s \in Seq(S), NEW t \in S
    PROVE  Turns(Append(s, t), 0) = Append(Turns(s, 0), t)
<1> DEFINE longer == Append(s, t)
           turn == Turns(s, 0)
           next == Turns(longer, 0)
           moved == Append(turn, t)
<1>1. Len(s) \in Nat
  BY LenProperties
<1>2. /\ longer \in Seq(S) /\ Len(longer) = Len(s) + 1
      /\ \A j \in 1 .. Len(s) : longer[j] = s[j]
      /\ longer[Len(s) + 1] = t
  BY AppendProperties
<1> HIDE DEF longer
<1>3. turn \in Seq(S) /\ Len(turn) = Len(s) /\ \A j \in 1 .. Len(s) : turn[j] = s[j]
  BY <1>1, TurnsProperties
<1>4. next \in Seq(S) /\ Len(next) = Len(s) + 1 /\ \A j \in 1 .. Len(s) + 1 : next[j] = longer[j]
  BY <1>1, <1>2, TurnsProperties
<1> HIDE DEF turn, next
<1>5. /\ moved \in Seq(S) /\ Len(moved) = Len(s) + 1
      /\ \A j \in 1 .. Len(s) : moved[j] = turn[j]
      /\ moved[Len(s) + 1] = t
  BY <1>3, AppendProperties
<1> HIDE DEF moved
<1>6. ASSUME NEW j \in 1 .. Len(s) + 1
      PROVE  next[j] = moved[j]
  BY <1>1, <1>2, <1>3, <1>4, <1>5
<1>7. next = moved
  BY <1>4, <1>5, <1>6, SeqEqual
<1> QED  BY <1>7 DEF next, moved, turn, longer

\* vListInsertEnd before an item: only that item, which has just had its turn,
\* comes after the new one.
LEMMA WalkInserts ==
    ASSUME NEW S, NEW s \in Seq(S), NEW x \in 1 .. Len(s) + 1, NEW t \in S
    PROVE  x <= Len(s) =>
           Turns(InsertAt(s, x, t), x + 1) = Front(Turns(s, x)) \o <<t, Last(Turns(s, x))>>
<1> DEFINE longer == InsertAt(s, x, t)
<1>2. /\ longer \in Seq(S) /\ Len(longer) = Len(s) + 1
      /\ \A j \in 1 .. Len(s) + 1 :
             longer[j] = IF j < x THEN s[j] ELSE IF j = x THEN t ELSE s[j - 1]
  BY InsertAtProperties
<1> SUFFICES ASSUME x <= Len(s)
             PROVE  Turns(longer, x + 1) = Front(Turns(s, x)) \o <<t, Last(Turns(s, x))>>
  OBVIOUS
<1>1. Len(s) \in Nat /\ Len(s) > 0
  <2>1. Len(s) \in Nat
    BY LenProperties
  <2> QED  BY <2>1
<1> DEFINE turn == Turns(s, x)
           next == Turns(longer, x + 1)
           front == Front(turn)
           pair == <<t, Last(turn)>>
           moved == front \o pair
           rest == Len(s) - x
<1> HIDE DEF longer
<1>3. /\ turn \in Seq(S) /\ Len(turn) = Len(s)
      /\ \A j \in 1 .. Len(s) : turn[j] = IF j <= rest THEN s[x + j] ELSE s[j - rest]
  <2>1. x \in 0 .. Len(s)
    BY <1>1
  <2> QED  BY <2>1, TurnsProperties
<1>4. /\ next \in Seq(S) /\ Len(next) = Len(s) + 1
      /\ \A j \in 1 .. Len(s) + 1 :
             next[j] = IF j <= rest THEN longer[x + 1 + j] ELSE longer[j - rest]
  <2>1. x + 1 \in 0 .. Len(longer) /\ Len(longer) - (x + 1) = rest
    BY <1>1, <1>2
  <2>2. \A y \in 0 .. Len(longer) :
            /\ Turns(longer, y) \in Seq(S) /\ Len(Turns(longer, y)) = Len(longer)
            /\ \A j \in 1 .. Len(longer) :
                   Turns(longer, y)[j] = IF j <= Len(longer) - y THEN longer[y + j]
                                         ELSE longer[j - (Len(longer) - y)]
    BY <1>2, TurnsProperties
  <2>3. /\ next \in Seq(S) /\ Len(next) = Len(longer)
        /\ \A j \in 1 .. Len(longer) :
               next[j] = IF j <= Len(longer) - (x + 1) THEN longer[x + 1 + j]
                         ELSE longer[j - (Len(longer) - (x + 1))]
    BY <2>1, <2>2
  <2> HIDE DEF next, rest
  <2> QED  BY <1>2, <2>1, <2>3
<1> HIDE DEF turn, next
<1>5. turn[Len(s)] = s[x]
  <2>1. Len(s) - rest = x /\ ~(Len(s) <= rest) /\ Len(s) \in 1 .. Len(s)
    BY <1>1
  <2> QED  BY <1>3, <2>1
<1>6. /\ front \in Seq(S) /\ Len(front) = Len(s) - 1
      /\ \A j \in 1 .. Len(s) - 1 : front[j] = turn[j]
  <2>1. \A j \in 1 .. Len(s) - 1 : turn[j] \in S
    BY <1>1, <1>3, ElementOfSeq
  <2>2. front = SubSeq(turn, 1, Len(s) - 1)
    BY <1>3 DEF Front
  <2> HIDE DEF front
  <2>3. /\ front \in Seq(S)
        /\ Len(front) = IF 1 <= Len(s) - 1 THEN (Len(s) - 1) - 1 + 1 ELSE 0
        /\ \A j \in 1 .. (Len(s) - 1) - 1 + 1 : front[j] = turn[1 + j - 1]
    BY <1>1, <2>1, <2>2, SubSeqProperties
  <2>4. (IF 1 <= Len(s) - 1 THEN (Len(s) - 1) - 1 + 1 ELSE 0) = Len(s) - 1
    <3>1. \A n \in Nat : n > 0 => (IF 1 <= n - 1 THEN (n - 1) - 1 + 1 ELSE 0) = n - 1
      OBVIOUS
    <3> HIDE DEF front, moved, rest
    <3> QED  BY <1>1, <3>1
  <2>5. (Len(s) - 1) - 1 + 1 = Len(s) - 1 /\ \A j \in 1 .. Len(s) - 1 : 1 + j - 1 = j
    BY <1>1
  <2> QED  BY <2>3, <2>4, <2>5
<1>7. pair \in Seq(S) /\ Len(pair) = 2 /\ pair[1] = t /\ pair[2] = s[x]
  <2>1. Last(turn) = s[x] /\ s[x] \in S
    BY <1>1, <1>3, <1>5, ElementOfSeq DEF Last
  <2> QED  BY <2>1
<1> HIDE DEF front, pair
<1>8. /\ moved \in Seq(S) /\ Len(moved) = Len(front) + Len(pair)
      /\ \A j \in 1 .. Len(front) + Len(pair) :
             moved[j] = IF j <= Len(front) THEN front[j] ELSE pair[j - Len(front)]
  BY <1>6, <1>7, ConcatProperties
<1> HIDE DEF moved
<1>9. ASSUME NEW j \in 1 .. Len(s) + 1
      PROVE  next[j] = moved[j]
  <2>1. rest \in Int /\ rest + x = Len(s) /\ rest < Len(s) /\ rest >= 0
    BY <1>1
  <2> HIDE DEF rest
  <2>2. CASE j <= rest
    <3>1. x + 1 + j \in 1 .. Len(s) + 1 /\ ~(x + 1 + j <= x) /\ (x + 1 + j) - 1 = x + j
      BY <1>1, <2>1, <2>2
    <3>2. next[j] = s[x + j]
      BY <1>2, <1>4, <2>2, <3>1
    <3>3. j \in 1 .. Len(s) - 1 /\ j \in 1 .. Len(s)
      BY <1>1, <2>1, <2>2
    <3>4. moved[j] = front[j]
      BY <1>1, <1>6, <1>7, <1>8, <3>3
    <3>5. moved[j] = s[x + j]
      BY <1>3, <1>6, <2>2, <3>3, <3>4
    <3> QED  BY <3>2, <3>5
  <2>3. CASE j > rest /\ j < Len(s)
    <3>1. j - rest \in 1 .. Len(s) + 1 /\ j - rest < x /\ ~(j <= rest)
      BY <1>1, <2>1, <2>3
    <3>2. next[j] = s[j - rest]
      BY <1>2, <1>4, <3>1
    <3>3. j \in 1 .. Len(s) - 1 /\ j \in 1 .. Len(s)
      BY <1>1, <2>3
    <3>4. moved[j] = front[j]
      BY <1>1, <1>6, <1>7, <1>8, <3>3
    <3>5. moved[j] = s[j - rest]
      BY <1>3, <1>6, <3>1, <3>3, <3>4
    <3> QED  BY <3>2, <3>5
  <2>4. CASE j = Len(s)
    <3>1. j - rest = x /\ ~(j <= rest) /\ x \in 1 .. Len(s) + 1
      BY <1>1, <2>1, <2>4
    <3>2. next[j] = longer[x]
      BY <1>4, <3>1
    <3>3. longer[x] = t
      BY <1>2, <3>1
    <3>4. moved[j] = pair[1]
      BY <1>1, <1>6, <1>7, <1>8, <2>4
    <3> QED  BY <1>7, <3>2, <3>3, <3>4
  <2>5. CASE j = Len(s) + 1
    <3>1. PICK k \in 1 .. Len(s) + 1 : k = j - rest
      <4>1. j - rest \in 1 .. Len(s) + 1
        BY <1>1, <2>1, <2>5
      <4> QED  BY <4>1
    <3>2. ~(k < x) /\ k # x /\ k - 1 = x /\ ~(j <= rest)
      BY <1>1, <2>1, <2>5, <3>1
    <3>3. next[j] = longer[k]
      BY <1>4, <3>1, <3>2
    <3>4. longer[k] = s[k - 1]
      BY <1>2, <3>2
    <3>5. moved[j] = pair[2]
      BY <1>1, <1>6, <1>7, <1>8, <2>5
    <3> QED  BY <1>7, <3>2, <3>3, <3>4, <3>5
  <2> QED  BY <1>1, <2>1, <2>2, <2>3, <2>4, <2>5
<1>10. Len(moved) = Len(s) + 1
  BY <1>1, <1>6, <1>7, <1>8
<1>11. next = moved
  BY <1>4, <1>8, <1>9, <1>10, SeqEqual
<1> QED  BY <1>11 DEF next, moved, front, pair, turn

\* uxListRemove: the other items keep their turns, pxIndex on the item or not.
LEMMA WalkRemoves ==
    ASSUME NEW S, NEW s \in Seq(S), NEW x \in 0 .. Len(s), NEW p \in 1 .. Len(s),
           \A j \in 1 .. Len(s) : s[j] = s[p] => j = p
    PROVE  Turns(RemoveAt(s, p), IF p <= x THEN x - 1 ELSE x)
               = uxListRemove(Turns(s, x), s[p])
<1> DEFINE shorter == RemoveAt(s, p)
           y == IF p <= x THEN x - 1 ELSE x
           turn == Turns(s, x)
           next == Turns(shorter, y)
           q == IF p <= x THEN p + (Len(s) - x) ELSE p - x
           moved == RemoveAt(turn, q)
           rest == Len(s) - x
<1>1. Len(s) \in Nat /\ Len(s) > 0
  BY LenProperties
<1>2. /\ shorter \in Seq(S) /\ Len(shorter) = Len(s) - 1
      /\ \A j \in 1 .. Len(s) - 1 : shorter[j] = IF j < p THEN s[j] ELSE s[j + 1]
  BY RemoveAtProperties
<1> HIDE DEF shorter
<1>3. /\ turn \in Seq(S) /\ Len(turn) = Len(s)
      /\ \A j \in 1 .. Len(s) : turn[j] = IF j <= rest THEN s[x + j] ELSE s[j - rest]
  BY <1>1, TurnsProperties
<1>4. /\ next \in Seq(S) /\ Len(next) = Len(s) - 1
      /\ \A j \in 1 .. Len(s) - 1 :
             next[j] = IF j <= Len(s) - 1 - y THEN shorter[y + j]
                       ELSE shorter[j - (Len(s) - 1 - y)]
  <2>1. y \in 0 .. Len(shorter)
    BY <1>1, <1>2
  <2> HIDE DEF y, turn, q, moved, rest
  <2>2. /\ next \in Seq(S) /\ Len(next) = Len(shorter)
        /\ \A j \in 1 .. Len(shorter) :
               next[j] = IF j <= Len(shorter) - y THEN shorter[y + j]
                         ELSE shorter[j - (Len(shorter) - y)]
    BY <1>2, <2>1, TurnsProperties
  <2> HIDE DEF next
  <2> QED  BY <1>2, <2>2
<1> HIDE DEF turn, next
<1>5. q \in 1 .. Len(s) /\ turn[q] = s[p]
  <2>1. CASE p <= x
    <3>1. q \in 1 .. Len(s) /\ ~(q <= rest) /\ q - rest = p
      BY <1>1, <2>1
    <3> QED  BY <1>3, <3>1
  <2>2. CASE ~(p <= x)
    <3>1. q \in 1 .. Len(s) /\ q <= rest /\ x + q = p
      BY <1>1, <2>2
    <3> QED  BY <1>3, <3>1
  <2> QED  BY <2>1, <2>2
<1>6. Position(turn, s[p]) = q
  <2>1. ASSUME NEW j \in 1 .. Len(s), turn[j] = s[p]
        PROVE  j = q
    <3>1. CASE j <= rest
      <4>1. x + j \in 1 .. Len(s) /\ s[x + j] = s[p]
        BY <1>1, <1>3, <2>1, <3>1
      <4>2. x + j = p
        BY <4>1
      <4> QED  BY <1>1, <3>1, <4>2
    <3>2. CASE ~(j <= rest)
      <4>1. j - rest \in 1 .. Len(s) /\ j - rest <= x /\ s[j - rest] = s[p]
        BY <1>1, <1>3, <2>1, <3>2
      <4>2. j - rest = p
        BY <4>1
      <4> QED  BY <1>1, <4>1, <4>2
    <3> QED  BY <3>1, <3>2
  <2>2. DOMAIN turn = 1 .. Len(s)
    BY <1>3, LenProperties
  <2> HIDE DEF q
  <2> QED  BY <1>5, <2>1, <2>2 DEF Position
<1>7. /\ moved \in Seq(S) /\ Len(moved) = Len(s) - 1
      /\ \A j \in 1 .. Len(s) - 1 : moved[j] = IF j < q THEN turn[j] ELSE turn[j + 1]
  <2> HIDE DEF q
  <2> QED  BY <1>3, <1>5, RemoveAtProperties
<1> HIDE DEF moved
<1>8. ASSUME NEW j \in 1 .. Len(s) - 1
      PROVE  next[j] = moved[j]
  <2>1. /\ rest \in Int /\ rest + x = Len(s) /\ rest >= 0
        /\ j \in 1 .. Len(s) /\ j + 1 \in 1 .. Len(s)
    BY <1>1
  <2>2. CASE p <= x
    <3>1. q = p + rest /\ next[j] = IF j <= rest THEN shorter[x - 1 + j] ELSE shorter[j - rest]
      <4>1. Len(s) - 1 - y = rest /\ y = x - 1 /\ q = p + rest
        BY <1>1, <2>2
      <4> HIDE DEF y, rest, q
      <4> QED  BY <1>4, <4>1
    <3> HIDE DEF y, rest, q
    <3>2. CASE j <= rest
      <4>1. /\ x - 1 + j \in 1 .. Len(s) - 1 /\ ~(x - 1 + j < p)
            /\ (x - 1 + j) + 1 = x + j /\ j < q
        BY <1>1, <2>1, <2>2, <3>1, <3>2
      <4>2. next[j] = s[x + j]
        BY <1>2, <3>1, <3>2, <4>1
      <4>3. moved[j] = s[x + j]
        BY <1>3, <1>7, <2>1, <3>2, <4>1
      <4> QED  BY <4>2, <4>3
    <3>3. CASE j > rest
      <4>1. /\ j - rest \in 1 .. Len(s) - 1 /\ ~(j <= rest) /\ ~(j + 1 <= rest)
            /\ (j < q <=> j - rest < p) /\ (j + 1) - rest = (j - rest) + 1
        BY <1>1, <2>1, <2>2, <3>1, <3>3
      <4>2. next[j] = IF j - rest < p THEN s[j - rest] ELSE s[(j - rest) + 1]
        BY <1>2, <3>1, <4>1
      <4>3. turn[j] = s[j - rest] /\ turn[j + 1] = s[(j - rest) + 1]
        BY <1>3, <2>1, <4>1
      <4> QED  BY <1>7, <4>1, <4>2, <4>3
    <3> QED  BY <2>1, <3>2, <3>3
  <2>3. CASE ~(p <= x)
    <3>1. /\ q = p - x
          /\ next[j] = IF j <= rest - 1 THEN shorter[x + j] ELSE shorter[j - (rest - 1)]
      <4>1. Len(s) - 1 - y = rest - 1 /\ y = x /\ q = p - x
        BY <1>1, <2>3
      <4> HIDE DEF y, rest, q
      <4> QED  BY <1>4, <4>1
    <3> HIDE DEF y, rest, q
    <3>2. CASE j <= rest - 1
      <4> DEFINE len == Len(s)
      <4>0. /\ len \in Nat /\ x \in 0 .. len /\ p \in 1 .. len /\ rest \in Int /\ q = p - x
            /\ rest + x = len /\ j \in 1 .. len - 1 /\ j <= rest - 1
        BY <1>1, <2>1, <3>1, <3>2
      <4> HIDE DEF len
      <4>a. x + j \in 1 .. len - 1 /\ j <= rest /\ j + 1 <= rest
        BY <4>0
      <4>b. (j < q <=> x + j < p) /\ x + (j + 1) = (x + j) + 1
        BY <4>0
      <4>1. /\ x + j \in 1 .. Len(s) - 1 /\ j <= rest /\ j + 1 <= rest
            /\ (j < q <=> x + j < p) /\ x + (j + 1) = (x + j) + 1
        BY <4>a, <4>b DEF len
      <4>2. next[j] = IF x + j < p THEN s[x + j] ELSE s[(x + j) + 1]
        BY <1>2, <3>1, <3>2, <4>1
      <4>3. turn[j] = s[x + j] /\ turn[j + 1] = s[(x + j) + 1]
        BY <1>3, <2>1, <4>1
      <4> QED  BY <1>7, <4>1, <4>2, <4>3
    <3>3. CASE j > rest - 1
      <4>1. /\ j - (rest - 1) \in 1 .. Len(s) - 1 /\ j - (rest - 1) < p /\ ~(j <= rest - 1)
            /\ ~(j + 1 <= rest) /\ ~(j < q) /\ (j + 1) - rest = j - (rest - 1)
        BY <1>1, <2>1, <2>3, <3>1, <3>3
      <4>2. next[j] = s[j - (rest - 1)]
        BY <1>2, <3>1, <4>1
      <4>3. moved[j] = s[j - (rest - 1)]
        BY <1>3, <1>7, <2>1, <4>1
      <4> QED  BY <4>2, <4>3
    <3> QED  BY <2>1, <3>2, <3>3
  <2> QED  BY <2>2, <2>3
<1>9. next = moved
  BY <1>4, <1>7, <1>8, SeqEqual
<1> QED  BY <1>6, <1>9 DEF uxListRemove, next, moved, turn, shorter

\* What round-robin scheduling rests on, as ListRing.tla states it of the
\* pointers: the walk is a queue of turns, whatever is inserted and removed.
WalkIsAQueue ==
    [][\A l \in List :
        /\ NextEntry(l) => Rotation(l)' = Append(Tail(Rotation(l)), Head(Rotation(l)))
        /\ \A i \in ListItem :
              /\ InsertEnd(l, i) =>
                    Rotation(l)' = IF index[l] = 0 THEN Append(Rotation(l), i)
                                   ELSE Front(Rotation(l)) \o <<i, Last(Rotation(l))>>
              /\ RemoveItem(l, i) =>
                    Rotation(l)' = uxListRemove(Rotation(l), i)]_listVars

\* listGET_OWNER_OF_NEXT_ENTRY gives every item of a list its turn, in order:
\* the item returned goes to the end, an item put in with vListInsertEnd comes
\* after every other but the one pxIndex is on, and a removal, even of the item
\* pxIndex is on, makes no other item lose its turn.
THEOREM WalkNeverSkips == ASSUME MaxValue \in Nat PROVE Spec => WalkIsAQueue
<1>1. ASSUME ListInv, NEW l \in List
      PROVE  /\ list[l] \in Seq(ListItem) /\ index[l] \in 0 .. Len(list[l])
             /\ Rotation(l) = Turns(list[l], index[l])
             /\ list \in [List -> Seq(ListItem)] /\ index \in [List -> Nat]
  BY <1>1, LenProperties DEF ListInv, TypeOK, Rotation
<1>2. ASSUME ListInv, NEW l \in List
      PROVE  Rotation(l)' = Turns(list'[l], index'[l])
  BY DEF Rotation
<1>3. ASSUME ListInv, NEW l \in List, NextEntry(l)
      PROVE  Rotation(l)' = Append(Tail(Rotation(l)), Head(Rotation(l)))
  <2>1. list[l] # <<>> /\ list'[l] = list[l] /\ index'[l] = NextIndex(list[l], index[l])
    BY <1>1, <1>3 DEF NextEntry
  <2>2. Rotation(l)' = Turns(list[l], NextIndex(list[l], index[l]))
    BY <1>2, <1>3, <2>1
  <2>3. Turns(list[l], NextIndex(list[l], index[l]))
            = Append(Tail(Turns(list[l], index[l])), Head(Turns(list[l], index[l])))
    BY <1>1, <1>3, <2>1, WalkAdvances
  <2> QED  BY <1>1, <1>3, <2>2, <2>3
<1>4. ASSUME ListInv, NEW l \in List, NEW i \in ListItem, InsertEnd(l, i), index[l] = 0
      PROVE  Rotation(l)' = Append(Rotation(l), i)
  <2>1. list'[l] = Append(list[l], i) /\ index'[l] = 0
    BY <1>1, <1>4 DEF InsertEnd, vListInsertEnd, IndexAfterInsertEnd
  <2>2. Turns(Append(list[l], i), 0) = Append(Turns(list[l], 0), i)
    BY <1>1, <1>4, WalkAppends
  <2> QED  BY <1>1, <1>2, <1>4, <2>1, <2>2
<1>5. ASSUME ListInv, NEW l \in List, NEW i \in ListItem, InsertEnd(l, i), index[l] # 0
      PROVE  Rotation(l)' = Front(Rotation(l)) \o <<i, Last(Rotation(l))>>
  <2>1. list'[l] = InsertAt(list[l], index[l], i) /\ index'[l] = index[l] + 1
    BY <1>1, <1>5 DEF InsertEnd, vListInsertEnd, IndexAfterInsertEnd
  <2>2. index[l] \in 1 .. Len(list[l]) + 1 /\ index[l] <= Len(list[l])
    BY <1>1, <1>5, LenProperties
  <2>3. Turns(InsertAt(list[l], index[l], i), index[l] + 1)
            = Front(Turns(list[l], index[l])) \o <<i, Last(Turns(list[l], index[l]))>>
    BY <1>1, <1>5, <2>2, WalkInserts
  <2>4. Rotation(l)' = Turns(InsertAt(list[l], index[l], i), index[l] + 1)
    BY <1>2, <1>5, <2>1
  <2> QED  BY <1>1, <1>5, <2>3, <2>4
<1>6. ASSUME ListInv, NEW l \in List, NEW i \in ListItem, RemoveItem(l, i)
      PROVE  Rotation(l)' = uxListRemove(Rotation(l), i)
  <2> DEFINE p == Position(list[l], i)
             y == IF p <= index[l] THEN index[l] - 1 ELSE index[l]
  <2>1. p \in 1 .. Len(list[l]) /\ list[l][p] = i
    BY <1>1, <1>6, PositionFound DEF RemoveItem, Holds
  <2>2. list'[l] = RemoveAt(list[l], p) /\ index'[l] = y
    BY <1>1, <1>6 DEF RemoveItem, uxListRemove, IndexAfterRemove
  <2> HIDE DEF p
  <2>3. \A j \in 1 .. Len(list[l]) : list[l][j] = list[l][p] => j = p
    BY <1>6, <2>1 DEF ListInv, LinkedOnce
  <2>4. Turns(RemoveAt(list[l], p), y) = uxListRemove(Turns(list[l], index[l]), list[l][p])
    BY <1>1, <1>6, <2>1, <2>3, WalkRemoves
  <2> HIDE DEF y
  <2> QED  BY <1>1, <1>2, <1>6, <2>1, <2>2, <2>4
<1> DEFINE TurnsKept(l) ==
        /\ NextEntry(l) => Rotation(l)' = Append(Tail(Rotation(l)), Head(Rotation(l)))
        /\ \A i \in ListItem :
              /\ InsertEnd(l, i) =>
                    Rotation(l)' = IF index[l] = 0 THEN Append(Rotation(l), i)
                                   ELSE Front(Rotation(l)) \o <<i, Last(Rotation(l))>>
              /\ RemoveItem(l, i) =>
                    Rotation(l)' = uxListRemove(Rotation(l), i)
<1>7. ListInv => [\A l \in List : TurnsKept(l)]_listVars
  BY <1>3, <1>4, <1>5, <1>6
<1> QED  BY <1>7, ListInvAlways, PTL DEF WalkIsAQueue

-----------------------------------------------------------------------------
(* Ticks and time-outs.                                                    *)

\* Later and Elapsed stay within the tick count and undo each other: what
\* xTaskDelayUntil and prvAddCurrentTaskToDelayedList compute does not leave
\* the range of a TickType_t.
LEMMA TickArithmetic ==
    ASSUME NEW from \in Tick, NEW n \in Tick
    PROVE  /\ Later(from, n) \in Tick
           /\ Elapsed(from, from) = 0
           /\ Elapsed(from, Later(from, n)) = n
  BY TickAssumption DEF Tick, Later, Elapsed

\* The time between two ticks is a tick count, and added to the first gives
\* the second.
LEMMA ElapsedInTick ==
    ASSUME NEW from \in Tick, NEW to \in Tick
    PROVE  /\ Elapsed(from, to) \in Tick
           /\ Later(from, Elapsed(from, to)) = to
  BY TickAssumption DEF Tick, Later, Elapsed

\* The test of xTaskDelayUntil is exact: asked less than a wrap of the tick
\* count after it last woke, a task is delayed if and only if the time it asks
\* for has not come, and then for exactly the ticks that are missing.  The
\* three-way comparison of the wrapped tick counts loses no case.
THEOREM DelayUntilExact ==
    ASSUME NEW last \in Tick, NEW now \in Tick, NEW n \in Tick \ {0}
    PROVE  LET passed == Elapsed(last, now)
           IN  /\ ShouldDelay(last, now, n) <=> n > passed
               /\ n > passed => Elapsed(now, Later(last, n)) = n - passed
  BY TickAssumption DEF Tick, Later, Elapsed, ShouldDelay

-----------------------------------------------------------------------------

\* The registers of the time-out protocol keep their widths.
THEOREM TimeoutsTypeCorrect == TimeoutSpec => []TimeoutTypeOK
<1>1. TimeoutInit => TimeoutTypeOK
  BY TickAssumption DEF TimeoutInit, TimeoutTypeOK, Tick
<1>2. TimeoutTypeOK /\ [TimeoutNext]_timeoutVars => TimeoutTypeOK'
  <2> SUFFICES ASSUME TimeoutTypeOK, [TimeoutNext]_timeoutVars
               PROVE  TimeoutTypeOK'
    OBVIOUS
  <2>1. CASE IncrementTick
    BY <2>1, TickAssumption DEF TimeoutTypeOK, IncrementTick, NextTick, NextOverflows, Tick
  <2>2. ASSUME NEW n \in Tick, vTaskSetTimeOutState(n)
        PROVE  TimeoutTypeOK'
    BY <2>2, TickAssumption DEF TimeoutTypeOK, vTaskSetTimeOutState, Tick
  <2>3. CASE xTaskCheckForTimeOut
    <3>1. Elapsed(entered, tick) \in Tick
      BY ElapsedInTick DEF TimeoutTypeOK
    <3>2. ticks' \in Tick
      BY <2>3, <3>1, TickAssumption
      DEF TimeoutTypeOK, xTaskCheckForTimeOut, Expired, IsTimeOut, Tick
    <3> QED
      BY <2>3, <3>2 DEF TimeoutTypeOK, xTaskCheckForTimeOut
  <2>4. CASE UNCHANGED timeoutVars
    BY <2>4 DEF TimeoutTypeOK, timeoutVars
  <2> QED
    BY <2>1, <2>2, <2>3, <2>4 DEF TimeoutNext
<1> QED
  BY <1>1, <1>2, PTL DEF TimeoutSpec

\* The invariant of the protocol: what the tick counts say and what has
\* passed.
LEMMA ClockInvInductive == TimeoutTypeOK /\ ClockInv /\ [TimeoutNext]_timeoutVars => ClockInv'
<1> SUFFICES ASSUME TimeoutTypeOK, ClockInv, [TimeoutNext]_timeoutVars
             PROVE  ClockInv'
  OBVIOUS
<1>1. CASE IncrementTick
  <2>1. Elapsed(entered, NextTick) =
            IF Elapsed(entered, tick) = MaxDelay THEN 0 ELSE Elapsed(entered, tick) + 1
    BY TickAssumption DEF TimeoutTypeOK, Tick, NextTick, Elapsed
  <2>2. since' >= Elapsed(entered, tick)'
    BY <1>1, <2>1, TickAssumption
    DEF TimeoutTypeOK, ClockInv, IncrementTick, Tick, Elapsed, NextTick
  <2>3. ASSUME since' <= MaxDelay
        PROVE  /\ since' = Elapsed(entered, tick)'
               /\ tick' >= entered' => overflows' = overflow'
    BY <1>1, <2>3, TickAssumption
    DEF TimeoutTypeOK, ClockInv, IncrementTick, NextTick, NextOverflows, Elapsed, Tick
  <2>4. /\ (ticks # MaxDelay /\ answer # "timeout" => left <= ticks - since)'
        /\ (answer = "timeout" => ticks = 0)'
    BY <1>1, TickAssumption DEF TimeoutTypeOK, ClockInv, IncrementTick, Tick
  <2> QED
    BY <2>2, <2>3, <2>4 DEF ClockInv
<1>2. ASSUME NEW n \in Tick, vTaskSetTimeOutState(n)
      PROVE  ClockInv'
  BY <1>2, TickAssumption DEF TimeoutTypeOK, ClockInv, vTaskSetTimeOutState, Elapsed, Tick
<1>3. CASE xTaskCheckForTimeOut
  <2>1. Elapsed(entered, tick) \in Tick
    BY ElapsedInTick DEF TimeoutTypeOK
  <2>2. CASE Expired \/ ticks = MaxDelay
    BY <1>3, <2>2, TickAssumption
    DEF TimeoutTypeOK, ClockInv, xTaskCheckForTimeOut, Expired, Elapsed, Tick
  <2>3. CASE ~Expired /\ ticks # MaxDelay
    <3>1. answer # "timeout"
      BY <2>1, <2>3, TickAssumption DEF ClockInv, Expired, IsTimeOut, Tick
    <3>2. /\ entered' = tick /\ tick' = tick
          /\ overflow' = overflows /\ overflows' = overflows
          /\ since' = 0 /\ left' = left
          /\ ticks' = ticks - Elapsed(entered, tick)
          /\ answer' = "wait"
      BY <1>3, <2>3 DEF xTaskCheckForTimeOut
    <3>3. Elapsed(tick, tick) = 0
      BY DEF TimeoutTypeOK, Elapsed, Tick
    <3>4. left <= ticks - Elapsed(entered, tick)
      BY <2>1, <2>3, <3>1, TickAssumption DEF TimeoutTypeOK, ClockInv, Tick
    <3> QED
      BY <3>2, <3>3, <3>4, TickAssumption DEF TimeoutTypeOK, ClockInv, Tick
  <2> QED
    BY <2>2, <2>3
<1>4. CASE UNCHANGED timeoutVars
  BY <1>4 DEF ClockInv, Elapsed, timeoutVars
<1> QED
  BY <1>1, <1>2, <1>3, <1>4 DEF TimeoutNext

\* In every state the two tick counts tell the true time within a wrap, and
\* what is left of a wait is never understated.
THEOREM ClockInvariant == TimeoutSpec => []ClockInv
<1>1. TimeoutInit => ClockInv
  BY TickAssumption DEF TimeoutInit, ClockInv, Elapsed, Tick
<1> QED
  BY <1>1, ClockInvInductive, TimeoutsTypeCorrect, PTL DEF TimeoutSpec

-----------------------------------------------------------------------------

\* A wait is never cut short, however often and however late it is asked: the
\* answer "timeout" of xTaskCheckForTimeOut is given only at or after the tick
\* the wait was for.
THEOREM WaitNeverCutShort == TimeoutSpec => []NeverEarly
<1>1. TimeoutInit => NeverEarly
  BY DEF TimeoutInit, NeverEarly
<1>2. TimeoutTypeOK /\ ClockInv /\ NeverEarly /\ [TimeoutNext]_timeoutVars => NeverEarly'
  <2> SUFFICES ASSUME TimeoutTypeOK, ClockInv, NeverEarly, [TimeoutNext]_timeoutVars
               PROVE  NeverEarly'
    OBVIOUS
  <2>1. CASE IncrementTick
    BY <2>1 DEF TimeoutTypeOK, NeverEarly, IncrementTick
  <2>2. ASSUME NEW n \in Tick, vTaskSetTimeOutState(n)
        PROVE  NeverEarly'
    BY <2>2 DEF NeverEarly, vTaskSetTimeOutState
  <2>3. CASE xTaskCheckForTimeOut
    <3>1. CASE ~Expired
      BY <2>3, <3>1 DEF NeverEarly, xTaskCheckForTimeOut
    <3>2. CASE Expired
      <4>1. left' = left
        BY <2>3 DEF xTaskCheckForTimeOut
      <4>2. CASE answer = "timeout"
        BY <4>1, <4>2 DEF NeverEarly
      <4>3. CASE answer # "timeout"
        <5>1. since >= ticks
          BY <3>2, TickAssumption DEF TimeoutTypeOK, ClockInv, Expired, IsTimeOut, Tick
        <5> QED
          BY <3>2, <4>1, <4>3, <5>1, TickAssumption
          DEF TimeoutTypeOK, ClockInv, NeverEarly, Expired, Tick
      <4> QED
        BY <4>2, <4>3
    <3> QED
      BY <3>1, <3>2
  <2>4. CASE UNCHANGED timeoutVars
    BY <2>4 DEF NeverEarly, timeoutVars
  <2> QED
    BY <2>1, <2>2, <2>3, <2>4 DEF TimeoutNext
<1> QED
  BY <1>1, <1>2, TimeoutsTypeCorrect, ClockInvariant, PTL DEF TimeoutSpec

\* Asked within a wrap of the tick count, xTaskCheckForTimeOut answers exactly
\* and leaves exactly the ticks that remain of the wait.
THEOREM ExactAnswers == TimeoutSpec => ExactWithinAWrap
<1>1. TimeoutTypeOK /\ ClockInv /\ Asked /\ since <= MaxDelay
          => /\ answer' = "timeout" <=> since >= ticks
             /\ answer' = "wait" => ticks' = ticks - since
  <2> SUFFICES ASSUME TimeoutTypeOK, ClockInv, Asked, since <= MaxDelay
               PROVE  /\ answer' = "timeout" <=> since >= ticks
                      /\ answer' = "wait" => ticks' = ticks - since
    OBVIOUS
  <2>1. since = Elapsed(entered, tick)
    BY DEF ClockInv
  <2>2. Expired <=> since >= ticks
    <3>1. tick >= entered => overflows = overflow
      BY DEF ClockInv
    <3> QED
      BY <2>1, <3>1 DEF Asked, Expired, IsTimeOut
  <2>3. CASE Expired
    BY <2>2, <2>3 DEF Asked, xTaskCheckForTimeOut
  <2>4. CASE ~Expired
    BY <2>1, <2>2, <2>4 DEF Asked, xTaskCheckForTimeOut
  <2> QED
    BY <2>3, <2>4
<1>2. TimeoutTypeOK /\ ClockInv /\ [TimeoutNext]_timeoutVars =>
          [Asked /\ since <= MaxDelay =>
              /\ answer' = "timeout" <=> since >= ticks
              /\ answer' = "wait" => ticks' = ticks - since]_timeoutVars
  BY <1>1
<1> QED
  BY <1>2, TimeoutsTypeCorrect, ClockInvariant, PTL DEF TimeoutSpec, ExactWithinAWrap

-----------------------------------------------------------------------------
(* The storage of a queue.                                                 *)

BufferInv == BufferTypeOK /\ PointersAgree

\* One item up or down stays in the storage, and each undoes the other.
LEMMA AheadAndBack ==
    ASSUME uxLength \in Nat \ {0}, NEW s \in Slot
    PROVE  /\ Ahead(s) \in Slot
           /\ Back(s) \in Slot
           /\ Ahead(Back(s)) = s
           /\ Back(Ahead(s)) = s
  BY DEF Slot, pcHead, pcTail, Ahead, Back

\* Up to a whole storage ahead of a slot is a slot, and different distances
\* below the length lead to different slots.
LEMMA AfterSlot ==
    ASSUME uxLength \in Nat \ {0}, NEW s \in Slot, NEW n \in 0 .. uxLength
    PROVE  /\ After(s, n) \in Slot
           /\ After(s, 0) = s
           /\ n < uxLength => After(s, n + 1) = Ahead(After(s, n))
           /\ n < uxLength => After(s, n + 1) = After(Ahead(s), n)
           /\ \A m \in 0 .. uxLength :
                  After(s, m) = After(s, n) /\ m < n => m = 0 /\ n = uxLength
  BY DEF Slot, pcHead, pcTail, Ahead, After

\* The length of a queue is a number to count with.
LEMMA LengthIsNat == BufferTypeOK => uxLength \in Nat \ {0}
  BY LengthAssumption DEF BufferTypeOK

-----------------------------------------------------------------------------

\* The inductive invariant: the types, and pointers that agree with the count.
\* That they agree is kept only by counts and slots in range.
LEMMA BufferInvInductive == BufferInv /\ [BufferNext]_bufferVars => BufferInv'
<1> SUFFICES ASSUME BufferInv, [BufferNext]_bufferVars
             PROVE  BufferInv'
  OBVIOUS
<1> USE DEF BufferInv
<1>0. uxLength \in Nat \ {0}
  BY LengthIsNat
<1>1. ASSUME NEW d \in Data, xQueueSendToBack(d)
      PROVE  BufferInv'
  <2>1. Ahead(pcWriteTo) \in Slot
    BY <1>0, AheadAndBack DEF BufferTypeOK
  <2>2. Ahead(pcReadFrom) \in Slot
    BY <1>0, AheadAndBack DEF BufferTypeOK
  <2>3. Ahead(pcWriteTo) = After(Ahead(pcReadFrom), uxMessagesWaiting + 1)
    BY <1>0, <1>1, <2>2, AfterSlot DEF BufferTypeOK, PointersAgree, xQueueSendToBack, HasRoom
  <2>4. BufferTypeOK'
    BY <1>0, <1>1, <2>1 DEF BufferTypeOK, xQueueSendToBack, prvCopyToBack, HasRoom, Slot, pcHead, pcTail
  <2>5. PointersAgree'
    BY <1>1, <2>3 DEF PointersAgree, xQueueSendToBack, prvCopyToBack, Ahead, After, pcHead, pcTail
  <2> QED
    BY <2>4, <2>5
<1>2. ASSUME NEW d \in Data, xQueueSendToFront(d)
      PROVE  BufferInv'
  <2>1. Back(pcReadFrom) \in Slot /\ Ahead(Back(pcReadFrom)) = pcReadFrom
    BY <1>0, AheadAndBack DEF BufferTypeOK
  <2>2. After(Ahead(pcReadFrom), uxMessagesWaiting) = After(pcReadFrom, uxMessagesWaiting + 1)
    BY <1>0, <1>2, AfterSlot DEF BufferTypeOK, xQueueSendToFront, HasRoom
  <2>3. BufferTypeOK'
    BY <1>0, <1>2, <2>1
    DEF BufferTypeOK, xQueueSendToFront, prvCopyToFront, HasRoom, Slot, pcHead, pcTail
  <2>4. PointersAgree'
    BY <1>2, <2>1, <2>2
    DEF PointersAgree, xQueueSendToFront, prvCopyToFront, Ahead, Back, After, pcHead, pcTail
  <2> QED
    BY <2>3, <2>4
<1>3. ASSUME NEW d \in Data, xQueueOverwrite(d)
      PROVE  BufferInv'
  BY <1>3 DEF BufferTypeOK, PointersAgree, xQueueOverwrite, prvCopyToFront, Back, Ahead, After,
              Slot, pcHead, pcTail
<1>4. CASE xQueueReceive
  <2>1. Ahead(pcReadFrom) \in Slot /\ Ahead(Ahead(pcReadFrom)) \in Slot
    BY <1>0, AheadAndBack DEF BufferTypeOK
  <2>2. After(Ahead(pcReadFrom), uxMessagesWaiting)
            = After(Ahead(Ahead(pcReadFrom)), uxMessagesWaiting - 1)
    BY <1>0, <1>4, <2>1, AfterSlot DEF BufferTypeOK, xQueueReceive
  <2>3. BufferTypeOK'
    BY <1>0, <1>4, <2>1 DEF BufferTypeOK, xQueueReceive, prvCopyDataFromQueue, Slot, pcHead, pcTail
  <2>4. PointersAgree'
    BY <1>4, <2>2
    DEF PointersAgree, xQueueReceive, Ahead, After, pcHead, pcTail
  <2> QED
    BY <2>3, <2>4
<1>5. CASE xQueuePeek
  <2>1. Ahead(pcReadFrom) \in Slot
    BY <1>0, AheadAndBack DEF BufferTypeOK
  <2> QED
    BY <1>5, <2>1
    DEF BufferTypeOK, PointersAgree, xQueuePeek, prvCopyDataFromQueue, Slot, pcHead, pcTail, Ahead, After
<1>6. CASE xQueueReset
  BY <1>0, <1>6 DEF BufferTypeOK, PointersAgree, xQueueReset, Slot, pcHead, pcTail, Ahead, After
<1>7. CASE UNCHANGED bufferVars
  BY <1>7 DEF BufferTypeOK, PointersAgree, bufferVars, Slot, pcHead, pcTail, Ahead, After
<1> QED
  BY <1>1, <1>2, <1>3, <1>4, <1>5, <1>6, <1>7 DEF BufferNext

\* The inductive invariant of the storage holds always.
LEMMA BufferInvAlways == BufferSpec => []BufferInv
<1>1. BufferInit => BufferInv
  BY LengthAssumption
  DEF BufferInit, BufferInv, BufferTypeOK, PointersAgree, Slot, pcHead, pcTail, Ahead, After
<1> QED
  BY <1>1, BufferInvInductive, PTL DEF BufferSpec

\* The pointers never leave the storage.
THEOREM BufferTypeCorrect == BufferSpec => []BufferTypeOK
  BY BufferInvAlways, PTL DEF BufferInv

\* The slot to write to always follows the newest item.
THEOREM PointersAlwaysAgree == BufferSpec => []PointersAgree
  BY BufferInvAlways, PTL DEF BufferInv

-----------------------------------------------------------------------------

\* What the storage stands for is a sequence of data as long as the count.
LEMMA ItemsAreASequence ==
    ASSUME BufferInv
    PROVE  /\ Items \in Seq(Data)
           /\ Len(Items) = uxMessagesWaiting
           /\ \A i \in 1 .. uxMessagesWaiting :
                  Items[i] = memory[After(Ahead(pcReadFrom), i - 1)]
<1>0. uxLength \in Nat \ {0}
  BY LengthIsNat DEF BufferInv
<1>1. Ahead(pcReadFrom) \in Slot
  BY <1>0, AheadAndBack DEF BufferInv, BufferTypeOK
<1>2. \A i \in 1 .. uxMessagesWaiting : After(Ahead(pcReadFrom), i - 1) \in Slot
  BY <1>0, <1>1, AfterSlot DEF BufferInv, BufferTypeOK
<1>3. Items \in [1 .. uxMessagesWaiting -> Data]
  BY <1>2 DEF BufferInv, BufferTypeOK, Items
<1> QED
  BY <1>3 DEF BufferInv, BufferTypeOK, Items

\* An item sent to the back is written behind the newest and disturbs none.
LEMMA BackIsAppended ==
    ASSUME BufferInv, BufferInv', NEW d \in Data, xQueueSendToBack(d)
    PROVE  Items' = Append(Items, d)
<1> DEFINE first == Ahead(pcReadFrom)
           n == uxMessagesWaiting
<1>0. uxLength \in Nat \ {0} /\ first \in Slot /\ n \in 0 .. uxLength - 1
  BY LengthIsNat, AheadAndBack DEF BufferInv, BufferTypeOK, xQueueSendToBack, HasRoom
<1>1. /\ pcReadFrom' = pcReadFrom /\ uxLength' = uxLength
      /\ uxMessagesWaiting' = n + 1
      /\ memory' = [memory EXCEPT ![After(first, n)] = d]
  BY DEF xQueueSendToBack, prvCopyToBack, BufferInv, PointersAgree
<1>2. Items' = [i \in 1 .. n + 1 |-> memory'[After(first, i - 1)]]
  BY <1>1 DEF Items, After, Ahead, pcHead, pcTail
<1>3. ASSUME NEW i \in 1 .. n + 1
      PROVE  memory'[After(first, i - 1)] = IF i = n + 1 THEN d ELSE Items[i]
  <2>1. After(first, n) \in Slot /\ After(first, i - 1) \in Slot
    BY <1>0, AfterSlot
  <2>2. CASE i = n + 1
    BY <1>1, <2>1, <2>2 DEF BufferInv, BufferTypeOK
  <2>3. CASE i # n + 1
    <3>1. After(first, i - 1) # After(first, n)
      BY <1>0, <2>3, AfterSlot
    <3>2. Items[i] = memory[After(first, i - 1)]
      BY <1>0, <2>3, ItemsAreASequence
    <3> QED
      BY <1>1, <2>1, <2>3, <3>1, <3>2 DEF BufferInv, BufferTypeOK
  <2> QED
    BY <2>2, <2>3
<1>4. Items \in Seq(Data) /\ Len(Items) = n
  BY ItemsAreASequence
<1> HIDE DEF first, n
<1>5. Items' \in Seq(Data) /\ Len(Items') = n + 1
  <2>1. \A i \in 1 .. n + 1 : (IF i = n + 1 THEN d ELSE Items[i]) \in Data
    BY <1>0, <1>4
  <2>2. Items' \in [1 .. n + 1 -> Data]
    BY <1>2, <1>3, <2>1
  <2> QED
    BY <1>0, <2>2
<1>6. /\ Append(Items, d) \in Seq(Data) /\ Len(Append(Items, d)) = n + 1
      /\ \A i \in 1 .. n + 1 : Append(Items, d)[i] = IF i = n + 1 THEN d ELSE Items[i]
  BY <1>0, <1>4, AppendProperties
<1>7. \A i \in 1 .. n + 1 : Items'[i] = Append(Items, d)[i]
  BY <1>2, <1>3, <1>6
<1> QED
  BY <1>5, <1>6, <1>7, SeqEqual

\* An item sent to the front is written before the oldest and disturbs none.
LEMMA FrontIsPrepended ==
    ASSUME BufferInv, BufferInv', NEW d \in Data, xQueueSendToFront(d)
    PROVE  Items' = <<d>> \o Items
<1> DEFINE first == Ahead(pcReadFrom)
           n == uxMessagesWaiting
<1>0. uxLength \in Nat \ {0} /\ first \in Slot /\ n \in 0 .. uxLength - 1 /\ pcReadFrom \in Slot
  BY LengthIsNat, AheadAndBack DEF BufferInv, BufferTypeOK, xQueueSendToFront, HasRoom
<1>1. /\ pcReadFrom' = Back(pcReadFrom) /\ uxLength' = uxLength
      /\ uxMessagesWaiting' = n + 1
      /\ memory' = [memory EXCEPT ![pcReadFrom] = d]
  BY DEF xQueueSendToFront, prvCopyToFront
<1>2. Items' = [i \in 1 .. n + 1 |-> memory'[After(pcReadFrom, i - 1)]]
  <2>1. Ahead(Back(pcReadFrom)) = pcReadFrom
    BY <1>0, AheadAndBack
  <2> QED
    BY <1>1, <2>1 DEF Items, After, Ahead, Back, pcHead, pcTail
<1>3. ASSUME NEW i \in 1 .. n + 1
      PROVE  memory'[After(pcReadFrom, i - 1)] = IF i = 1 THEN d ELSE Items[i - 1]
  <2>1. CASE i = 1
    <3>1. After(pcReadFrom, i - 1) = pcReadFrom
      BY <1>0, <2>1, AfterSlot
    <3> QED
      BY <1>0, <1>1, <2>1, <3>1 DEF BufferInv, BufferTypeOK
  <2>2. CASE i # 1
    <3>1. /\ After(pcReadFrom, i - 1) = After(first, i - 2)
          /\ After(pcReadFrom, i - 1) \in Slot
          /\ After(pcReadFrom, i - 1) # pcReadFrom
      BY <1>0, <2>2 DEF Slot, pcHead, pcTail, Ahead, After
    <3>2. Items[i - 1] = memory[After(first, (i - 1) - 1)]
      BY <1>0, <2>2, ItemsAreASequence
    <3> QED
      BY <1>0, <1>1, <2>2, <3>1, <3>2 DEF BufferInv, BufferTypeOK
  <2> QED
    BY <2>1, <2>2
<1>4. Items \in Seq(Data) /\ Len(Items) = n
  BY ItemsAreASequence
<1> HIDE DEF first, n
<1>5. Items' \in Seq(Data) /\ Len(Items') = n + 1
  <2>1. \A i \in 1 .. n + 1 : (IF i = 1 THEN d ELSE Items[i - 1]) \in Data
    BY <1>0, <1>4
  <2>2. Items' \in [1 .. n + 1 -> Data]
    BY <1>2, <1>3, <2>1
  <2> QED
    BY <1>0, <2>2
<1>6. /\ <<d>> \o Items \in Seq(Data) /\ Len(<<d>> \o Items) = n + 1
      /\ \A i \in 1 .. n + 1 : (<<d>> \o Items)[i] = IF i = 1 THEN d ELSE Items[i - 1]
  <2>1. <<d>> \in Seq(Data) /\ Len(<<d>>) = 1 /\ <<d>>[1] = d
    OBVIOUS
  <2> QED
    BY <1>0, <1>4, <2>1, ConcatProperties
<1>7. \A i \in 1 .. n + 1 : Items'[i] = (<<d>> \o Items)[i]
  BY <1>2, <1>3, <1>6
<1> QED
  BY <1>5, <1>6, <1>7, SeqEqual

\* What is received is the oldest item, and the others move up.
LEMMA OldestIsTaken ==
    ASSUME BufferInv, BufferInv', xQueueReceive
    PROVE  Items # <<>> /\ pvBuffer' = Head(Items) /\ Items' = Tail(Items)
<1> DEFINE first == Ahead(pcReadFrom)
           n == uxMessagesWaiting
<1>0. uxLength \in Nat \ {0} /\ first \in Slot /\ n \in 1 .. uxLength
  BY LengthIsNat, AheadAndBack DEF BufferInv, BufferTypeOK, xQueueReceive
<1>1. /\ pcReadFrom' = first /\ uxLength' = uxLength
      /\ uxMessagesWaiting' = n - 1
      /\ memory' = memory /\ pvBuffer' = memory[first]
  BY DEF xQueueReceive, prvCopyDataFromQueue
<1>2. Items' = [i \in 1 .. n - 1 |-> memory[After(Ahead(first), i - 1)]]
  BY <1>1 DEF Items, After, Ahead, pcHead, pcTail
<1>3. ASSUME NEW i \in 1 .. n - 1
      PROVE  memory[After(Ahead(first), i - 1)] = Items[i + 1]
  <2>1. After(Ahead(first), i - 1) = After(first, i)
    BY <1>0 DEF Slot, pcHead, pcTail, Ahead, After
  <2>2. Items[i + 1] = memory[After(first, (i + 1) - 1)]
    BY <1>0, ItemsAreASequence
  <2> QED
    BY <2>1, <2>2
<1>4. Items \in Seq(Data) /\ Len(Items) = n
  BY ItemsAreASequence
<1>5. pvBuffer' = Items[1]
  <2>1. After(first, 0) = first
    BY <1>0, AfterSlot
  <2>2. Items[1] = memory[After(first, 1 - 1)]
    BY <1>0, ItemsAreASequence
  <2> QED
    BY <1>1, <2>1, <2>2
<1> HIDE DEF first, n
<1>6. /\ Items # <<>> /\ Head(Items) = Items[1]
      /\ Tail(Items) \in Seq(Data) /\ Len(Tail(Items)) = n - 1
      /\ \A i \in 1 .. n - 1 : Tail(Items)[i] = Items[i + 1]
  BY <1>0, <1>4, HeadTailProperties
<1>7. Items' \in Seq(Data) /\ Len(Items') = n - 1
  <2>1. \A i \in 1 .. n - 1 : Items[i + 1] \in Data
    BY <1>0, <1>4
  <2>2. Items' \in [1 .. n - 1 -> Data]
    BY <1>2, <1>3, <2>1
  <2> QED
    BY <1>0, <2>2
<1>8. Items' = Tail(Items)
  BY <1>2, <1>3, <1>6, <1>7, SeqEqual
<1> QED
  BY <1>5, <1>6, <1>8

\* A peek reads the oldest item and leaves all.
LEMMA OldestIsSeen ==
    ASSUME BufferInv, xQueuePeek
    PROVE  Items # <<>> /\ pvBuffer' = Head(Items) /\ Items' = Items
<1>0. uxLength \in Nat \ {0} /\ Ahead(pcReadFrom) \in Slot /\ uxMessagesWaiting \in 1 .. uxLength
  BY LengthIsNat, AheadAndBack DEF BufferInv, BufferTypeOK, xQueuePeek
<1>1. pvBuffer' = memory[Ahead(pcReadFrom)]
  BY DEF xQueuePeek, prvCopyDataFromQueue
<1>2. Items' = Items
  BY DEF xQueuePeek, Items, After, Ahead, pcHead, pcTail
<1>3. Items[1] = memory[After(Ahead(pcReadFrom), 1 - 1)]
  BY <1>0, ItemsAreASequence
<1>4. After(Ahead(pcReadFrom), 0) = Ahead(pcReadFrom)
  BY <1>0, AfterSlot
<1>5. Items \in Seq(Data) /\ Len(Items) = uxMessagesWaiting
  BY ItemsAreASequence
<1> QED
  BY <1>0, <1>1, <1>2, <1>3, <1>4, <1>5

\* A queue of one item that is overwritten holds the new one.
LEMMA OneIsReplaced ==
    ASSUME BufferInv, BufferInv', NEW d \in Data, xQueueOverwrite(d)
    PROVE  Items' = <<d>>
<1>1. /\ uxLength = 1 /\ pcReadFrom = 0 /\ uxMessagesWaiting \in 0 .. 1
      /\ uxLength' = 1 /\ pcReadFrom' = 0 /\ uxMessagesWaiting' = 1
      /\ memory'[0] = d
  BY DEF xQueueOverwrite, prvCopyToFront, BufferInv, BufferTypeOK, Slot, pcHead, pcTail, Back
<1>2. Items' = [i \in 1 .. 1 |-> memory'[0]]
  BY <1>1 DEF Items, After, Ahead, pcHead, pcTail
<1> QED
  BY <1>1, <1>2

\* Every operation on the storage is the operation of QueueSpec on the
\* sequence it stands for.
THEOREM ImplementsSequence == BufferSpec => ImplementsQueueSpec
<1>1. BufferInit => Sequence!Init
  BY DEF BufferInit, Sequence!Init, Items
<1>2. BufferInv /\ BufferInv' /\ [BufferNext]_bufferVars => [Sequence!Next]_(Sequence!queueVars)
  <2> SUFFICES ASSUME BufferInv, BufferInv', [BufferNext]_bufferVars
               PROVE  [Sequence!Next]_(Sequence!queueVars)
    OBVIOUS
  <2>0. Items \in Seq(Data) /\ Len(Items) = uxMessagesWaiting
    BY ItemsAreASequence
  <2>1. ASSUME NEW d \in Data, xQueueSendToBack(d)
        PROVE  Sequence!SendToBack(d)
    BY <2>0, <2>1, BackIsAppended
    DEF Sequence!SendToBack, xQueueSendToBack, prvCopyToBack, HasRoom
  <2>2. ASSUME NEW d \in Data, xQueueSendToFront(d)
        PROVE  Sequence!SendToFront(d)
    BY <2>0, <2>2, FrontIsPrepended
    DEF Sequence!SendToFront, xQueueSendToFront, prvCopyToFront, HasRoom
  <2>3. ASSUME NEW d \in Data, xQueueOverwrite(d)
        PROVE  Sequence!Overwrite(d)
    BY <2>3, OneIsReplaced DEF Sequence!Overwrite, xQueueOverwrite, prvCopyToFront
  <2>4. CASE xQueueReceive
    BY <2>4, OldestIsTaken DEF Sequence!Next, Sequence!Receive, xQueueReceive
  <2>5. CASE xQueuePeek
    BY <2>5, OldestIsSeen DEF Sequence!Next, Sequence!Peek, xQueuePeek
  <2>6. CASE xQueueReset
    <3>1. Items' = <<>>
      BY <2>6 DEF xQueueReset, Items
    <3> QED
      BY <2>6, <3>1 DEF Sequence!Next, Sequence!Reset, xQueueReset
  <2>7. CASE UNCHANGED bufferVars
    BY <2>7 DEF bufferVars, Sequence!queueVars, Items, After, Ahead, pcHead, pcTail
  <2> QED
    BY <2>1, <2>2, <2>3, <2>4, <2>5, <2>6, <2>7 DEF BufferNext, Sequence!Next
<1> QED
  BY <1>1, <1>2, BufferInvAlways, PTL DEF BufferSpec, ImplementsQueueSpec, Sequence!Spec
=============================================================================
