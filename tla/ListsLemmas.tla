---------------------------- MODULE ListsLemmas ----------------------------
(***************************************************************************)
(* What the operations of Lists.tla return, for any list, any items and    *)
(* any values.                                                             *)
(***************************************************************************)
EXTENDS Lists, SequenceTheorems, FiniteSetTheorems, WellFoundedInduction, TLAPS

-----------------------------------------------------------------------------
(* The operations on one list. *)

\* A set of positions of a finite list that is not empty has a first one.
LEMMA FirstPosition ==
    ASSUME NEW n \in Nat, NEW T \in SUBSET (1 .. n), T # {}
    PROVE  \E i \in T : \A j \in T : i <= j
<1> DEFINE U == 1 .. n
           Initial == {1 .. i : i \in T}
<1>1. FiniteSubsetsOf(U) = SUBSET U
  <2>1. IsFiniteSet(U)
    BY FS_Interval
  <2> HIDE DEF U
  <2> QED  BY <2>1, FS_FiniteSubsetsOfFinite
<1>2. IsWellFoundedOn(StrictSubsetOrdering(U), SUBSET U)
  BY <1>1, FS_StrictSubsetOrderingWellFounded
<1>3. Initial \subseteq SUBSET U /\ Initial # {}
  <2>1. ASSUME NEW i \in T
        PROVE  1 .. i \in SUBSET U
    OBVIOUS
  <2> HIDE DEF U
  <2> QED  BY <2>1
<1>4. PICK x \in Initial : \A y \in Initial : ~(<<y, x>> \in StrictSubsetOrdering(U))
  <2> HIDE DEF Initial, U
  <2> QED  BY <1>2, <1>3, WFMin
<1>5. PICK i \in T : x = 1 .. i
  BY <1>4
<1>6. ASSUME NEW j \in T, j < i
      PROVE  FALSE
  <2>1. 1 .. j \in Initial /\ 1 .. j \in SUBSET U /\ x \in SUBSET U
    BY <1>5
  <2>2. 1 .. j \subseteq x /\ i \in x /\ i \notin 1 .. j
    BY <1>5, <1>6
  <2>3. <<1 .. j, x>> \in StrictSubsetOrdering(U)
    <3> DEFINE J == 1 .. j
    <3>1. J \in SUBSET U /\ x \in SUBSET U /\ J \subseteq x /\ J # x
      BY <2>1, <2>2
    <3> HIDE DEF J, U
    <3>2. <<J, x>> \in StrictSubsetOrdering(U)
      BY <3>1 DEF StrictSubsetOrdering
    <3> QED  BY <3>2 DEF J
  <2> QED  BY <1>4, <2>1, <2>3
<1> QED  BY <1>6

\* vListInsert finds its place in every list: after the items of a value not
\* larger, up to the first larger one or the marker.
LEMMA SortedPositionFound ==
    ASSUME NEW S, NEW s \in Seq(S), NEW key \in [S -> Nat], NEW v \in Nat
    PROVE  /\ SortedPosition(s, key, v) \in 1 .. Len(s) + 1
           /\ \A j \in 1 .. SortedPosition(s, key, v) - 1 : key[s[j]] <= v
           /\ SortedPosition(s, key, v) <= Len(s) =>
                  key[s[SortedPosition(s, key, v)]] > v
<1> DEFINE Larger == {i \in 1 .. Len(s) : key[s[i]] > v}
           Place(i) == /\ \A j \in 1 .. i - 1 : key[s[j]] <= v
                       /\ i <= Len(s) => key[s[i]] > v
<1>1. Len(s) \in Nat /\ \A i \in 1 .. Len(s) : key[s[i]] \in Nat
  BY LenProperties, ElementOfSeq
<1>2. \E i \in 1 .. Len(s) + 1 : Place(i)
  <2>1. CASE Larger = {}
    <3>1. /\ Len(s) + 1 \in 1 .. Len(s) + 1 /\ (Len(s) + 1) - 1 = Len(s)
          /\ ~(Len(s) + 1 <= Len(s))
      BY <1>1
    <3>2. ASSUME NEW j \in 1 .. Len(s)
          PROVE  key[s[j]] <= v
      <4>1. ~(key[s[j]] > v)
        BY <2>1
      <4>2. key[s[j]] \in Nat
        BY <1>1
      <4> QED  BY <4>1, <4>2
    <3>3. Place(Len(s) + 1)
      BY <3>1, <3>2
    <3> QED  BY <3>1, <3>3
  <2>2. CASE Larger # {}
    <3>1. PICK i \in Larger : \A j \in Larger : i <= j
      <4>1. Larger \in SUBSET (1 .. Len(s))
        OBVIOUS
      <4> HIDE DEF Larger
      <4> QED  BY <1>1, <2>2, <4>1, FirstPosition
    <3>2. i \in 1 .. Len(s) + 1 /\ Place(i)
      BY <1>1, <3>1
    <3> QED  BY <3>2
  <2> QED  BY <2>1, <2>2
<1>3. SortedPosition(s, key, v) = CHOOSE i \in 1 .. Len(s) + 1 : Place(i)
  BY DEF SortedPosition
<1> HIDE DEF Place
<1>4. SortedPosition(s, key, v) \in 1 .. Len(s) + 1 /\ Place(SortedPosition(s, key, v))
  BY <1>2, <1>3
<1> QED  BY <1>4 DEF Place

\* Insertion at a position: the items before it stay, those after move up.
LEMMA InsertAtProperties ==
    ASSUME NEW S, NEW s \in Seq(S), NEW i \in 1 .. Len(s) + 1, NEW t \in S
    PROVE  /\ InsertAt(s, i, t) \in Seq(S)
           /\ Len(InsertAt(s, i, t)) = Len(s) + 1
           /\ \A j \in 1 .. Len(s) + 1 :
                  InsertAt(s, i, t)[j] = IF j < i THEN s[j]
                                         ELSE IF j = i THEN t ELSE s[j - 1]
<1> DEFINE front == SubSeq(s, 1, i - 1)
           back == SubSeq(s, i, Len(s))
<1>1. Len(s) \in Nat /\ \A j \in 1 .. Len(s) : s[j] \in S
  BY LenProperties, ElementOfSeq
<1>2. /\ front \in Seq(S) /\ Len(front) = i - 1
      /\ \A j \in 1 .. i - 1 : front[j] = s[j]
  <2>1. \A j \in 1 .. i - 1 : s[j] \in S
    BY <1>1
  <2>2. /\ front \in Seq(S) /\ Len(front) = IF 1 <= i - 1 THEN (i - 1) - 1 + 1 ELSE 0
        /\ \A j \in 1 .. (i - 1) - 1 + 1 : front[j] = s[1 + j - 1]
    BY <1>1, <2>1, SubSeqProperties
  <2> HIDE DEF front
  <2>3. (i - 1) - 1 + 1 = i - 1 /\ (1 <= i - 1 \/ i - 1 = 0)
    BY <1>1
  <2>4. Len(front) = i - 1
    BY <2>2, <2>3
  <2>5. \A j \in 1 .. i - 1 : front[j] = s[j]
    BY <2>2, <2>3
  <2> QED  BY <2>2, <2>4, <2>5
<1>3. /\ back \in Seq(S) /\ Len(back) = Len(s) - i + 1
      /\ \A j \in 1 .. Len(s) - i + 1 : back[j] = s[i + j - 1]
  <2>1. \A j \in i .. Len(s) : s[j] \in S
    BY <1>1
  <2>2. /\ back \in Seq(S) /\ Len(back) = IF i <= Len(s) THEN Len(s) - i + 1 ELSE 0
        /\ \A j \in 1 .. Len(s) - i + 1 : back[j] = s[i + j - 1]
    BY <1>1, <2>1, SubSeqProperties
  <2> HIDE DEF back
  <2> QED  BY <1>1, <2>2
<1>4. InsertAt(s, i, t) = (front \o <<t>>) \o back
  BY DEF InsertAt
<1> HIDE DEF front, back
<1>5. /\ <<t>> \in Seq(S) /\ Len(<<t>>) = 1 /\ <<t>>[1] = t
  OBVIOUS
<1>6. /\ front \o <<t>> \in Seq(S) /\ Len(front \o <<t>>) = i
      /\ \A j \in 1 .. i : (front \o <<t>>)[j] = IF j <= i - 1 THEN front[j] ELSE t
  <2>1. /\ front \o <<t>> \in Seq(S) /\ Len(front \o <<t>>) = Len(front) + Len(<<t>>)
        /\ \A j \in 1 .. Len(front) + Len(<<t>>) :
               (front \o <<t>>)[j] = IF j <= Len(front) THEN front[j] ELSE <<t>>[j - Len(front)]
    BY <1>2, <1>5, ConcatProperties
  <2> QED  BY <1>1, <1>2, <1>5, <2>1
<1>7. /\ InsertAt(s, i, t) \in Seq(S) /\ Len(InsertAt(s, i, t)) = i + Len(back)
      /\ \A j \in 1 .. i + Len(back) :
             InsertAt(s, i, t)[j] = IF j <= i THEN (front \o <<t>>)[j] ELSE back[j - i]
  <2> DEFINE start == front \o <<t>>
  <2>1. start \in Seq(S) /\ Len(start) = i
    BY <1>6
  <2>2. InsertAt(s, i, t) = start \o back
    BY <1>4
  <2> HIDE DEF start
  <2>3. /\ InsertAt(s, i, t) \in Seq(S) /\ Len(InsertAt(s, i, t)) = i + Len(back)
        /\ \A j \in 1 .. i + Len(back) :
               InsertAt(s, i, t)[j] = IF j <= i THEN start[j] ELSE back[j - i]
    <3>1. start \o back \in Seq(S) /\ Len(start \o back) = Len(start) + Len(back)
          /\ \A j \in 1 .. Len(start) + Len(back) :
                 (start \o back)[j] = IF j <= Len(start) THEN start[j] ELSE back[j - Len(start)]
      BY <1>3, <2>1, ConcatProperties
    <3> QED  BY <2>1, <2>2, <3>1
  <2> QED  BY <2>3 DEF start
<1>8. i + Len(back) = Len(s) + 1
  BY <1>1, <1>3
<1>9. ASSUME NEW j \in 1 .. Len(s) + 1
      PROVE  InsertAt(s, i, t)[j] = IF j < i THEN s[j] ELSE IF j = i THEN t ELSE s[j - 1]
  <2>1. CASE j <= i
    <3>1. j \in 1 .. i /\ (j <= i - 1 <=> j < i) /\ (j < i => j \in 1 .. i - 1)
      BY <2>1
    <3> QED  BY <1>2, <1>6, <1>7, <1>8, <2>1, <3>1
  <2>2. CASE ~(j <= i)
    <3>1. j - i \in 1 .. Len(s) - i + 1 /\ i + (j - i) - 1 = j - 1 /\ j # i /\ ~(j < i)
      BY <1>1, <2>2
    <3> QED  BY <1>3, <1>7, <1>8, <2>2, <3>1
  <2> QED  BY <2>1, <2>2
<1> QED  BY <1>7, <1>8, <1>9

\* The end is a position of insertion too.
LEMMA AppendIsInsertion ==
    ASSUME NEW S, NEW s \in Seq(S), NEW t \in S
    PROVE  Append(s, t) = InsertAt(s, Len(s) + 1, t)
<1> DEFINE new == InsertAt(s, Len(s) + 1, t)
<1>1. Len(s) \in Nat
  BY LenProperties
<1>2. /\ new \in Seq(S) /\ Len(new) = Len(s) + 1
      /\ \A j \in 1 .. Len(s) + 1 : new[j] = IF j < Len(s) + 1 THEN s[j] ELSE t
  <2>1. Len(s) + 1 \in 1 .. Len(s) + 1
    BY <1>1
  <2>2. \A n \in 1 .. Len(s) + 1 :
           /\ InsertAt(s, n, t) \in Seq(S) /\ Len(InsertAt(s, n, t)) = Len(s) + 1
           /\ \A j \in 1 .. Len(s) + 1 :
                  InsertAt(s, n, t)[j] = IF j < n THEN s[j] ELSE IF j = n THEN t ELSE s[j - 1]
    BY InsertAtProperties
  <2>3. /\ new \in Seq(S) /\ Len(new) = Len(s) + 1
        /\ \A j \in 1 .. Len(s) + 1 :
               new[j] = IF j < Len(s) + 1 THEN s[j] ELSE IF j = Len(s) + 1 THEN t ELSE s[j - 1]
    BY <2>1, <2>2
  <2> HIDE DEF new
  <2> QED  BY <1>1, <2>3
<1> HIDE DEF new
<1>3. /\ Append(s, t) \in Seq(S) /\ Len(Append(s, t)) = Len(s) + 1
      /\ \A j \in 1 .. Len(s) + 1 : Append(s, t)[j] = IF j < Len(s) + 1 THEN s[j] ELSE t
  BY <1>1, AppendProperties
<1>4. Append(s, t) = new
  BY <1>2, <1>3, SeqEqual
<1> QED  BY <1>4 DEF new

\* Removal at a position: the items before it stay, those after move down.
LEMMA RemoveAtProperties ==
    ASSUME NEW S, NEW s \in Seq(S), NEW i \in 1 .. Len(s)
    PROVE  /\ RemoveAt(s, i) \in Seq(S)
           /\ Len(RemoveAt(s, i)) = Len(s) - 1
           /\ \A j \in 1 .. Len(s) - 1 :
                  RemoveAt(s, i)[j] = IF j < i THEN s[j] ELSE s[j + 1]
<1> DEFINE front == SubSeq(s, 1, i - 1)
           back == SubSeq(s, i + 1, Len(s))
<1>1. Len(s) \in Nat /\ \A j \in 1 .. Len(s) : s[j] \in S
  BY LenProperties, ElementOfSeq
<1>2. /\ front \in Seq(S) /\ Len(front) = i - 1
      /\ \A j \in 1 .. i - 1 : front[j] = s[j]
  <2>1. \A j \in 1 .. i - 1 : s[j] \in S
    BY <1>1
  <2>2. /\ front \in Seq(S) /\ Len(front) = IF 1 <= i - 1 THEN (i - 1) - 1 + 1 ELSE 0
        /\ \A j \in 1 .. (i - 1) - 1 + 1 : front[j] = s[1 + j - 1]
    BY <1>1, <2>1, SubSeqProperties
  <2> HIDE DEF front
  <2> QED  BY <1>1, <2>2
<1>3. /\ back \in Seq(S) /\ Len(back) = Len(s) - i
      /\ \A j \in 1 .. Len(s) - i : back[j] = s[i + j]
  <2>1. \A j \in i + 1 .. Len(s) : s[j] \in S
    BY <1>1
  <2>2. /\ back \in Seq(S) /\ Len(back) = IF i + 1 <= Len(s) THEN Len(s) - (i + 1) + 1 ELSE 0
        /\ \A j \in 1 .. Len(s) - (i + 1) + 1 : back[j] = s[i + 1 + j - 1]
    BY <1>1, <2>1, SubSeqProperties
  <2> HIDE DEF back
  <2> QED  BY <1>1, <2>2
<1>4. RemoveAt(s, i) = front \o back
  BY DEF RemoveAt
<1> HIDE DEF front, back
<1>5. /\ front \o back \in Seq(S) /\ Len(front \o back) = Len(front) + Len(back)
      /\ \A j \in 1 .. Len(front) + Len(back) :
             (front \o back)[j] = IF j <= Len(front) THEN front[j] ELSE back[j - Len(front)]
  BY <1>2, <1>3, ConcatProperties
<1> DEFINE joined == front \o back
<1>6. /\ joined \in Seq(S) /\ Len(joined) = Len(s) - 1
      /\ \A j \in 1 .. Len(s) - 1 : joined[j] = IF j <= i - 1 THEN front[j] ELSE back[j - (i - 1)]
  <2> HIDE DEF joined
  <2> QED  BY <1>1, <1>2, <1>3, <1>5 DEF joined
<1> HIDE DEF joined
<1>7. ASSUME NEW j \in 1 .. Len(s) - 1
      PROVE  joined[j] = IF j < i THEN s[j] ELSE s[j + 1]
  <2>1. CASE j < i
    BY <1>1, <1>2, <1>6, <2>1
  <2>2. CASE ~(j < i)
    <3>1. j - (i - 1) \in 1 .. Len(s) - i /\ i + (j - (i - 1)) = j + 1
      BY <1>1, <2>2
    <3>2. joined[j] = back[j - (i - 1)]
      BY <1>1, <1>6, <2>2
    <3> QED  BY <1>3, <2>2, <3>1, <3>2
  <2> QED  BY <2>1, <2>2
<1> QED  BY <1>4, <1>6, <1>7 DEF joined

\* An item of a list is found, at a position of the list.
LEMMA PositionFound ==
    ASSUME NEW S, NEW s \in Seq(S), NEW t, Occurs(s, t)
    PROVE  Position(s, t) \in 1 .. Len(s) /\ s[Position(s, t)] = t
<1>1. DOMAIN s = 1 .. Len(s)
  BY LenProperties
<1> QED  BY <1>1 DEF Occurs, Position

\* s is in the order of its items' values.
InOrder(s, key) == \A j, m \in 1 .. Len(s) : j <= m => key[s[j]] <= key[s[m]]

\* vListInsert puts the item into a list in order so that it stays in order:
\* the first item of a delayed list is one of the earliest to wake, and the
\* first of an event list one of the highest priority, whatever is inserted.
THEOREM InsertKeepsOrder ==
    ASSUME NEW S, NEW s \in Seq(S), NEW v \in [S -> Nat], NEW t \in S, InOrder(s, v)
    PROVE  vListInsert(s, v, t) \in Seq(S) /\ InOrder(vListInsert(s, v, t), v)
<1> DEFINE place == SortedPosition(s, v, v[t])
           new == InsertAt(s, place, t)
<1>1. Len(s) \in Nat /\ v[t] \in Nat /\ \A j \in 1 .. Len(s) : v[s[j]] \in Nat
  BY LenProperties, ElementOfSeq
<1>2. /\ place \in 1 .. Len(s) + 1
      /\ \A j \in 1 .. place - 1 : v[s[j]] <= v[t]
      /\ place <= Len(s) => v[s[place]] > v[t]
  BY <1>1, SortedPositionFound
<1> HIDE DEF place
<1>3. /\ new \in Seq(S) /\ Len(new) = Len(s) + 1
      /\ \A j \in 1 .. Len(s) + 1 :
             new[j] = IF j < place THEN s[j] ELSE IF j = place THEN t ELSE s[j - 1]
  BY <1>2, InsertAtProperties
<1> HIDE DEF new
<1>4. ASSUME NEW j \in 1 .. Len(s) + 1, j < place
      PROVE  new[j] = s[j] /\ j \in 1 .. Len(s) /\ v[new[j]] <= v[t]
  <2>1. new[j] = s[j] /\ j \in 1 .. place - 1 /\ j \in 1 .. Len(s)
    BY <1>1, <1>2, <1>3, <1>4
  <2> QED  BY <1>2, <2>1
<1>5. ASSUME NEW j \in 1 .. Len(s) + 1, j > place
      PROVE  new[j] = s[j - 1] /\ j - 1 \in 1 .. Len(s) /\ v[t] <= v[new[j]]
  <2>1. /\ new[j] = s[j - 1] /\ j - 1 \in 1 .. Len(s)
        /\ place \in 1 .. Len(s) /\ place <= j - 1
    <3>1. /\ ~(j < place) /\ j # place /\ j - 1 \in 1 .. Len(s)
          /\ place \in 1 .. Len(s) /\ place <= j - 1
      BY <1>1, <1>2, <1>5
    <3> QED  BY <1>3, <3>1
  <2>2. v[s[place]] <= v[s[j - 1]] /\ v[t] < v[s[place]]
    <3>1. v[s[place]] <= v[s[j - 1]]
      BY <2>1 DEF InOrder
    <3>2. v[t] < v[s[place]]
      <4>1. place <= Len(s)
        BY <1>1, <2>1
      <4> QED  BY <1>2, <4>1
    <3> QED  BY <3>1, <3>2
  <2>3. v[s[place]] \in Nat /\ v[s[j - 1]] \in Nat /\ v[t] \in Nat
    BY <1>1, <2>1
  <2> QED  BY <2>1, <2>2, <2>3
<1>6. new[place] = t
  BY <1>1, <1>2, <1>3
<1>7. \A j \in 1 .. Len(s) + 1 : v[new[j]] \in Nat
  BY <1>3, ElementOfSeq
<1>8. ASSUME NEW j \in 1 .. Len(s) + 1, NEW k \in 1 .. Len(s) + 1, j <= k
      PROVE  v[new[j]] <= v[new[k]]
  <2>1. CASE k < place
    <3>1. j < place /\ j \in Int /\ k \in Int
      BY <1>2, <1>8, <2>1
    <3>2. new[j] = s[j] /\ j \in 1 .. Len(s) /\ new[k] = s[k] /\ k \in 1 .. Len(s)
      BY <1>4, <2>1, <3>1
    <3> QED  BY <1>8, <3>2 DEF InOrder
  <2>2. CASE j > place
    <3>1. k > place /\ j \in Int /\ k \in Int
      BY <1>2, <1>8, <2>2
    <3>2. /\ new[j] = s[j - 1] /\ j - 1 \in 1 .. Len(s)
          /\ new[k] = s[k - 1] /\ k - 1 \in 1 .. Len(s)
      BY <1>5, <2>2, <3>1
    <3>3. j - 1 <= k - 1
      BY <1>8, <3>1
    <3> QED  BY <3>2, <3>3 DEF InOrder
  <2>3. CASE j <= place /\ place <= k
    <3>1. v[new[j]] <= v[t]
      BY <1>1, <1>2, <1>4, <1>6, <2>3
    <3>2. v[t] <= v[new[k]]
      BY <1>1, <1>2, <1>5, <1>6, <2>3
    <3> QED  BY <1>1, <1>7, <3>1, <3>2
  <2> QED  BY <1>1, <1>2, <2>1, <2>2, <2>3
<1>9. InOrder(new, v)
  BY <1>3, <1>8 DEF InOrder
<1> QED  BY <1>3, <1>9 DEF vListInsert, new, place

-----------------------------------------------------------------------------
(* Which items a list holds after an operation, and that it holds none     *)
(* twice.                                                                  *)

\* No item is in s twice.
Distinct(s) == \A i, j \in DOMAIN s : s[i] = s[j] => i = j

\* Occurs and Distinct with the length in place of the domain.
LEMMA OccursByLength ==
    ASSUME NEW S, NEW s \in Seq(S)
    PROVE  /\ Len(s) \in Nat /\ DOMAIN s = 1 .. Len(s)
           /\ \A t : Occurs(s, t) <=> \E i \in 1 .. Len(s) : s[i] = t
           /\ Distinct(s) <=> \A i, j \in 1 .. Len(s) : s[i] = s[j] => i = j
           /\ \A t : Occurs(s, t) => t \in S
<1>1. Len(s) \in Nat /\ DOMAIN s = 1 .. Len(s) /\ \A i \in 1 .. Len(s) : s[i] \in S
  BY LenProperties, ElementOfSeq
<1> QED  BY <1>1 DEF Occurs, Distinct

\* The empty list holds no item.
LEMMA EmptyHoldsNone ==
    ASSUME NEW S
    PROVE  /\ <<>> \in Seq(S) /\ Len(<<>>) = 0 /\ Distinct(<<>>)
           /\ \A t : ~Occurs(<<>>, t)
<1>1. <<>> \in Seq(S) /\ Len(<<>>) = 0
  OBVIOUS
<1>2. 1 .. 0 = {}
  OBVIOUS
<1> QED  BY <1>1, <1>2, OccursByLength

\* listLIST_IS_EMPTY: a list is empty iff no item occurs in it, and the head
\* of any other is an item of it.
LEMMA EmptyIffNone ==
    ASSUME NEW S, NEW s \in Seq(S)
    PROVE  /\ s = <<>> <=> \A t : ~Occurs(s, t)
           /\ s # <<>> <=> Len(s) > 0
           /\ s # <<>> => s[1] \in S /\ Occurs(s, s[1]) /\ Head(s) = s[1]
<1>1. Len(s) \in Nat /\ (s = <<>> <=> Len(s) = 0)
  BY LenProperties, EmptySeq
<1>2. Len(s) > 0 => 1 \in 1 .. Len(s)
  BY <1>1
<1>3. s # <<>> => Occurs(s, s[1]) /\ s[1] \in S
  BY <1>1, <1>2, OccursByLength, ElementOfSeq
<1>4. s = <<>> => \A t : ~Occurs(s, t)
  BY EmptyHoldsNone
<1>5. s # <<>> => Head(s) = s[1]
  BY HeadTailProperties
<1> QED  BY <1>1, <1>3, <1>4, <1>5

\* An item that was in no place is put in one.
LEMMA InsertAtOccurs ==
    ASSUME NEW S, NEW s \in Seq(S), NEW p \in 1 .. Len(s) + 1, NEW t \in S
    PROVE  /\ \A u : Occurs(InsertAt(s, p, t), u) <=> u = t \/ Occurs(s, u)
           /\ Distinct(s) /\ ~Occurs(s, t) => Distinct(InsertAt(s, p, t))
<1> DEFINE new == InsertAt(s, p, t)
           n == Len(s)
<1>1. /\ new \in Seq(S) /\ Len(new) = n + 1
      /\ \A j \in 1 .. n + 1 : new[j] = IF j < p THEN s[j] ELSE IF j = p THEN t ELSE s[j - 1]
  BY InsertAtProperties
<1>2. n \in Nat
  BY LenProperties
<1>3. /\ \A u : Occurs(new, u) <=> \E i \in 1 .. n + 1 : new[i] = u
      /\ Distinct(new) <=> \A i, j \in 1 .. n + 1 : new[i] = new[j] => i = j
      /\ \A u : Occurs(s, u) <=> \E i \in 1 .. n : s[i] = u
      /\ Distinct(s) <=> \A i, j \in 1 .. n : s[i] = s[j] => i = j
  <2> HIDE DEF new
  <2>1. /\ \A u : Occurs(new, u) <=> \E i \in 1 .. Len(new) : new[i] = u
        /\ Distinct(new) <=> \A i, j \in 1 .. Len(new) : new[i] = new[j] => i = j
    BY <1>1, OccursByLength
  <2>2. /\ \A u : Occurs(s, u) <=> \E i \in 1 .. Len(s) : s[i] = u
        /\ Distinct(s) <=> \A i, j \in 1 .. Len(s) : s[i] = s[j] => i = j
    BY OccursByLength
  <2> QED  BY <1>1, <2>1, <2>2
<1> HIDE DEF new, n
<1>p. p \in 1 .. n + 1
  BY DEF n
<1>4. ASSUME NEW u, Occurs(new, u) PROVE u = t \/ Occurs(s, u)
  <2>1. PICK i \in 1 .. n + 1 : new[i] = u
    BY <1>3, <1>4
  <2>2. CASE i < p
    <3>1. i \in 1 .. n /\ s[i] = u
      BY <1>1, <1>2, <1>p, <2>1, <2>2
    <3> QED  BY <1>3, <3>1
  <2>3. CASE i = p
    BY <1>1, <2>1, <2>3
  <2>4. CASE i > p
    <3>1. i - 1 \in 1 .. n /\ s[i - 1] = u
      BY <1>1, <1>2, <1>p, <2>1, <2>4
    <3> QED  BY <1>3, <3>1
  <2> QED  BY <1>p, <1>2, <2>2, <2>3, <2>4
<1>5. Occurs(new, t)
  BY <1>1, <1>2, <1>3, <1>p
<1>6. ASSUME NEW u, Occurs(s, u) PROVE Occurs(new, u)
  <2>1. PICK i \in 1 .. n : s[i] = u
    BY <1>3, <1>6
  <2>2. CASE i < p
    <3>1. i \in 1 .. n + 1 /\ new[i] = u
      BY <1>1, <1>2, <1>p, <2>1, <2>2
    <3> QED  BY <1>3, <3>1
  <2>3. CASE i >= p
    <3>1. i + 1 \in 1 .. n + 1 /\ new[i + 1] = u
      <4>1. /\ i + 1 \in 1 .. n + 1 /\ ~(i + 1 < p) /\ i + 1 # p /\ (i + 1) - 1 = i
        BY <1>2, <1>p, <2>3
      <4> QED  BY <1>1, <2>1, <4>1
    <3> QED  BY <1>3, <3>1
  <2> QED  BY <1>2, <1>p, <2>2, <2>3
<1>7. ASSUME Distinct(s), ~Occurs(s, t) PROVE Distinct(new)
  <2> DEFINE old(j) == IF j < p THEN j ELSE j - 1
  <2>1. \A j \in 1 .. n + 1 : j # p => old(j) \in 1 .. n /\ new[j] = s[old(j)]
    <3> SUFFICES ASSUME NEW j \in 1 .. n + 1, j # p
                 PROVE  old(j) \in 1 .. n /\ new[j] = s[old(j)]
      OBVIOUS
    <3>1. old(j) \in 1 .. n
      BY <1>2, <1>p
    <3>2. new[j] = s[old(j)]
      BY <1>1
    <3> QED  BY <3>1, <3>2
  <2>2. \A i, j \in 1 .. n + 1 : i # p /\ j # p /\ old(i) = old(j) => i = j
    BY <1>2, <1>p
  <2>3. \A j \in 1 .. n + 1 : j # p => new[j] # t
    <3> HIDE DEF old
    <3> QED  BY <1>3, <1>7, <2>1
  <2>4. new[p] = t
    BY <1>1, <1>2, <1>p
  <2> HIDE DEF old
  <2>5. ASSUME NEW i \in 1 .. n + 1, NEW j \in 1 .. n + 1, new[i] = new[j]
        PROVE  i = j
    <3>1. CASE i = p
      BY <2>3, <2>4, <2>5, <3>1
    <3>2. CASE j = p
      BY <2>3, <2>4, <2>5, <3>2
    <3>3. CASE i # p /\ j # p
      <4>1. s[old(i)] = s[old(j)] /\ old(i) \in 1 .. n /\ old(j) \in 1 .. n
        BY <2>1, <2>5, <3>3
      <4>2. old(i) = old(j)
        BY <1>3, <1>7, <4>1
      <4> QED  BY <2>2, <3>3, <4>2
    <3> QED  BY <3>1, <3>2, <3>3
  <2> QED  BY <1>3, <2>5
<1>8. /\ \A u : Occurs(new, u) <=> u = t \/ Occurs(s, u)
      /\ Distinct(s) /\ ~Occurs(s, t) => Distinct(new)
  BY <1>4, <1>5, <1>6, <1>7
<1> QED  BY <1>8 DEF new

\* vListInsertEnd, and the pointer pxIndex after it.
LEMMA InsertEndProperties ==
    ASSUME NEW S, NEW s \in Seq(S), NEW x \in Nat, x <= Len(s), NEW t \in S
    PROVE  /\ vListInsertEnd(s, x, t) \in Seq(S)
           /\ Len(vListInsertEnd(s, x, t)) = Len(s) + 1
           /\ \A u : Occurs(vListInsertEnd(s, x, t), u) <=> u = t \/ Occurs(s, u)
           /\ Distinct(s) /\ ~Occurs(s, t) => Distinct(vListInsertEnd(s, x, t))
           /\ IndexAfterInsertEnd(x) \in Nat /\ IndexAfterInsertEnd(x) <= Len(s) + 1
<1>1. Len(s) \in Nat
  BY LenProperties
<1> DEFINE p == IF x = 0 THEN Len(s) + 1 ELSE x
<1>2. p \in 1 .. Len(s) + 1
  BY <1>1
<1>3. vListInsertEnd(s, x, t) = InsertAt(s, p, t)
  BY AppendIsInsertion DEF vListInsertEnd
<1> HIDE DEF p
<1>4. InsertAt(s, p, t) \in Seq(S) /\ Len(InsertAt(s, p, t)) = Len(s) + 1
  BY <1>2, InsertAtProperties
<1>5. IndexAfterInsertEnd(x) \in Nat /\ IndexAfterInsertEnd(x) <= Len(s) + 1
  BY <1>1 DEF IndexAfterInsertEnd
<1> QED  BY <1>2, <1>3, <1>4, <1>5, InsertAtOccurs

\* Inserting at the end links that item and no other.
LEMMA AppendOccurs ==
    ASSUME NEW S, NEW s \in Seq(S), NEW t \in S
    PROVE  /\ Append(s, t) \in Seq(S)
           /\ \A u : Occurs(Append(s, t), u) <=> u = t \/ Occurs(s, u)
           /\ Distinct(s) /\ ~Occurs(s, t) => Distinct(Append(s, t))
<1>1. Len(s) \in Nat
  BY LenProperties
<1>2. Append(s, t) = vListInsertEnd(s, 0, t)
  BY DEF vListInsertEnd
<1>3. 0 \in Nat /\ 0 <= Len(s)
  BY <1>1
<1>4. /\ vListInsertEnd(s, 0, t) \in Seq(S)
      /\ \A u : Occurs(vListInsertEnd(s, 0, t), u) <=> u = t \/ Occurs(s, u)
      /\ Distinct(s) /\ ~Occurs(s, t) => Distinct(vListInsertEnd(s, 0, t))
  BY <1>3, InsertEndProperties
<1> QED  BY <1>2, <1>4

\* vListInsert links that item and no other, whatever the values are.
LEMMA InsertOccurs ==
    ASSUME NEW S, NEW s \in Seq(S), NEW v \in [S -> Nat], NEW t \in S
    PROVE  /\ vListInsert(s, v, t) \in Seq(S)
           /\ Len(vListInsert(s, v, t)) = Len(s) + 1
           /\ \A u : Occurs(vListInsert(s, v, t), u) <=> u = t \/ Occurs(s, u)
           /\ Distinct(s) /\ ~Occurs(s, t) => Distinct(vListInsert(s, v, t))
<1> DEFINE p == SortedPosition(s, v, v[t])
<1>1. p \in 1 .. Len(s) + 1
  BY SortedPositionFound
<1>2. vListInsert(s, v, t) = InsertAt(s, p, t)
  BY DEF vListInsert
<1> HIDE DEF p
<1>3. InsertAt(s, p, t) \in Seq(S) /\ Len(InsertAt(s, p, t)) = Len(s) + 1
  BY <1>1, InsertAtProperties
<1> QED  BY <1>1, <1>2, <1>3, InsertAtOccurs

\* Removal from a place.
LEMMA RemoveAtOccurs ==
    ASSUME NEW S, NEW s \in Seq(S), NEW p \in 1 .. Len(s), Distinct(s)
    PROVE  /\ \A u : Occurs(RemoveAt(s, p), u) <=> u # s[p] /\ Occurs(s, u)
           /\ Distinct(RemoveAt(s, p))
<1> DEFINE new == RemoveAt(s, p)
           n == Len(s)
           old(j) == IF j < p THEN j ELSE j + 1
<1>1. /\ new \in Seq(S) /\ Len(new) = n - 1
      /\ \A j \in 1 .. n - 1 : new[j] = IF j < p THEN s[j] ELSE s[j + 1]
  BY RemoveAtProperties
<1>2. n \in Nat
  BY LenProperties
<1>3. /\ \A u : Occurs(new, u) <=> \E i \in 1 .. n - 1 : new[i] = u
      /\ Distinct(new) <=> \A i, j \in 1 .. n - 1 : new[i] = new[j] => i = j
      /\ \A u : Occurs(s, u) <=> \E i \in 1 .. n : s[i] = u
      /\ \A i, j \in 1 .. n : s[i] = s[j] => i = j
  <2>1. /\ \A u : Occurs(s, u) <=> \E i \in 1 .. n : s[i] = u
        /\ \A i, j \in 1 .. n : s[i] = s[j] => i = j
    BY OccursByLength
  <2>2. new \in Seq(S) /\ Len(new) = n - 1
    BY <1>1
  <2> HIDE DEF new, n
  <2>3. /\ \A u : Occurs(new, u) <=> \E i \in 1 .. n - 1 : new[i] = u
        /\ Distinct(new) <=> \A i, j \in 1 .. n - 1 : new[i] = new[j] => i = j
    BY <2>2, OccursByLength
  <2> QED  BY <2>1, <2>3
<1> HIDE DEF new, n
<1>p. p \in 1 .. n
  BY DEF n
<1>4. ASSUME NEW j \in 1 .. n - 1
      PROVE  old(j) \in 1 .. n /\ old(j) # p /\ new[j] = s[old(j)]
  <2>1. old(j) \in 1 .. n /\ old(j) # p
    BY <1>2, <1>p
  <2>2. new[j] = s[old(j)]
    BY <1>1
  <2> QED  BY <2>1, <2>2
<1>5. ASSUME NEW i \in 1 .. n, i # p
      PROVE  \E j \in 1 .. n - 1 : new[j] = s[i]
  <2>1. CASE i < p
    <3>1. i \in 1 .. n - 1 /\ new[i] = s[i]
      BY <1>1, <1>2, <1>p, <2>1
    <3> QED  BY <3>1
  <2>2. CASE i > p
    <3>1. i - 1 \in 1 .. n - 1 /\ ~(i - 1 < p) /\ (i - 1) + 1 = i
      BY <1>2, <1>p, <2>2
    <3>2. new[i - 1] = s[i]
      BY <1>1, <3>1
    <3> QED  BY <3>1, <3>2
  <2> QED  BY <1>2, <1>5, <1>p, <2>1, <2>2
<1>6. \A i, j \in 1 .. n - 1 : old(i) = old(j) => i = j
  BY <1>2, <1>p
<1> HIDE DEF old
<1>7. \A u : Occurs(new, u) <=> u # s[p] /\ Occurs(s, u)
  BY <1>3, <1>4, <1>5, <1>p
<1>8. Distinct(new)
  BY <1>3, <1>4, <1>6
<1> QED  BY <1>7, <1>8 DEF new

\* uxListRemove, and the pointer pxIndex after it.
LEMMA RemoveProperties ==
    ASSUME NEW S, NEW s \in Seq(S), Distinct(s), NEW t, Occurs(s, t),
           NEW x \in Nat, x <= Len(s)
    PROVE  /\ uxListRemove(s, t) \in Seq(S)
           /\ Len(uxListRemove(s, t)) = Len(s) - 1
           /\ \A u : Occurs(uxListRemove(s, t), u) <=> u # t /\ Occurs(s, u)
           /\ Distinct(uxListRemove(s, t))
           /\ IndexAfterRemove(s, x, t) \in Nat /\ IndexAfterRemove(s, x, t) <= Len(s) - 1
           /\ x = 0 => IndexAfterRemove(s, x, t) = 0
<1>1. Len(s) \in Nat
  BY LenProperties
<1> DEFINE p == Position(s, t)
<1>2. p \in 1 .. Len(s) /\ s[p] = t
  BY PositionFound
<1>3. uxListRemove(s, t) = RemoveAt(s, p)
  BY DEF uxListRemove
<1>4. IndexAfterRemove(s, x, t) = IF p <= x THEN x - 1 ELSE x
  BY DEF IndexAfterRemove
<1> HIDE DEF p
<1>5. RemoveAt(s, p) \in Seq(S) /\ Len(RemoveAt(s, p)) = Len(s) - 1
  BY <1>2, RemoveAtProperties
<1>6. /\ IndexAfterRemove(s, x, t) \in Nat /\ IndexAfterRemove(s, x, t) <= Len(s) - 1
      /\ x = 0 => IndexAfterRemove(s, x, t) = 0
  BY <1>1, <1>2, <1>4
<1> QED  BY <1>2, <1>3, <1>5, <1>6, RemoveAtOccurs

\* The first item leaves the list.
LEMMA TailOccurs ==
    ASSUME NEW S, NEW s \in Seq(S), s # <<>>, Distinct(s)
    PROVE  /\ Tail(s) \in Seq(S) /\ Len(Tail(s)) = Len(s) - 1
           /\ \A j \in 1 .. Len(s) - 1 : Tail(s)[j] = s[j + 1]
           /\ Head(s) = s[1] /\ Head(s) \in S /\ Occurs(s, Head(s))
           /\ \A u : Occurs(Tail(s), u) <=> u # Head(s) /\ Occurs(s, u)
           /\ Distinct(Tail(s))
<1> DEFINE new == Tail(s)
           n == Len(s)
<1>1. /\ new \in Seq(S) /\ Len(new) = n - 1 /\ n \in Nat /\ n > 0
      /\ \A j \in 1 .. n - 1 : new[j] = s[j + 1]
  BY HeadTailProperties, LenProperties, EmptySeq
<1>2. Head(s) = s[1] /\ Head(s) \in S /\ Occurs(s, Head(s))
  BY EmptyIffNone
<1>3. /\ \A u : Occurs(new, u) <=> \E i \in 1 .. n - 1 : new[i] = u
      /\ Distinct(new) <=> \A i, j \in 1 .. n - 1 : new[i] = new[j] => i = j
      /\ \A u : Occurs(s, u) <=> \E i \in 1 .. n : s[i] = u
      /\ \A i, j \in 1 .. n : s[i] = s[j] => i = j
  <2>1. /\ \A u : Occurs(s, u) <=> \E i \in 1 .. n : s[i] = u
        /\ \A i, j \in 1 .. n : s[i] = s[j] => i = j
    BY OccursByLength
  <2>2. new \in Seq(S) /\ Len(new) = n - 1
    BY <1>1
  <2> HIDE DEF new, n
  <2>3. /\ \A u : Occurs(new, u) <=> \E i \in 1 .. n - 1 : new[i] = u
        /\ Distinct(new) <=> \A i, j \in 1 .. n - 1 : new[i] = new[j] => i = j
    BY <2>2, OccursByLength
  <2> QED  BY <2>1, <2>3
<1> HIDE DEF new, n
<1>4. \A j \in 1 .. n - 1 : j + 1 \in 1 .. n /\ j + 1 # 1 /\ new[j] = s[j + 1]
  BY <1>1
<1>5. \A i \in 1 .. n : i # 1 => \E j \in 1 .. n - 1 : i = j + 1
  <2>1. \A i \in 1 .. n : i # 1 => i - 1 \in 1 .. n - 1 /\ i = (i - 1) + 1
    BY <1>1
  <2> QED  BY <2>1
<1>6. 1 \in 1 .. n
  BY <1>1
<1>7. ASSUME NEW u PROVE Occurs(new, u) <=> u # s[1] /\ Occurs(s, u)
  <2>1. Occurs(new, u) => u # s[1] /\ Occurs(s, u)
    BY <1>3, <1>4, <1>6
  <2>2. u # s[1] /\ Occurs(s, u) => Occurs(new, u)
    BY <1>3, <1>4, <1>5
  <2> QED  BY <2>1, <2>2
<1>8. Distinct(new)
  <2>1. \A i, j \in 1 .. n - 1 : i + 1 = j + 1 => i = j
    BY <1>1
  <2> QED  BY <1>3, <1>4, <2>1
<1> QED  BY <1>1, <1>2, <1>7, <1>8 DEF new, n

\* A set of positions of a finite list that is not empty has a last one.
LEMMA LastPosition ==
    ASSUME NEW n \in Nat, NEW T \in SUBSET (0 .. n), T # {}
    PROVE  \E i \in T : \A j \in T : j <= i
<1> DEFINE R == {x \in 1 .. n + 1 : (n + 1) - x \in T}
<1>1. R \in SUBSET (1 .. n + 1) /\ n + 1 \in Nat
  OBVIOUS
<1>2. R # {}
  <2>1. PICK j \in T : TRUE
    OBVIOUS
  <2>2. (n + 1) - j \in R
    BY <2>1
  <2> QED  BY <2>2
<1>3. \A j \in T : (n + 1) - j \in R
  OBVIOUS
<1>4. \A x \in R : (n + 1) - x \in T /\ x \in 1 .. n + 1
  OBVIOUS
<1> HIDE DEF R
<1>5. PICK x \in R : \A y \in R : x <= y
  BY <1>1, <1>2, FirstPosition
<1>6. \A j \in T : j <= (n + 1) - x
  BY <1>3, <1>4, <1>5
<1> QED  BY <1>4, <1>5, <1>6


\* One item of the list after an insertion.
LEMMA InsertAtItem ==
    ASSUME NEW S, NEW s \in Seq(S), NEW i \in 1 .. Len(s) + 1, NEW t \in S,
           NEW j \in 1 .. Len(s) + 1
    PROVE  InsertAt(s, i, t)[j] = IF j < i THEN s[j] ELSE IF j = i THEN t ELSE s[j - 1]
  BY InsertAtProperties

\* The length of the list after an insertion.
LEMMA InsertAtLength ==
    ASSUME NEW S, NEW s \in Seq(S), NEW i \in 1 .. Len(s) + 1, NEW t \in S
    PROVE  InsertAt(s, i, t) \in Seq(S) /\ Len(InsertAt(s, i, t)) = Len(s) + 1
  BY InsertAtProperties

\* One item of the list after a removal.
LEMMA RemoveAtItem ==
    ASSUME NEW S, NEW s \in Seq(S), NEW i \in 1 .. Len(s), NEW j \in 1 .. Len(s) - 1
    PROVE  RemoveAt(s, i)[j] = IF j < i THEN s[j] ELSE s[j + 1]
  BY RemoveAtProperties

\* The length of the list after a removal.
LEMMA RemoveAtLength ==
    ASSUME NEW S, NEW s \in Seq(S), NEW i \in 1 .. Len(s)
    PROVE  RemoveAt(s, i) \in Seq(S) /\ Len(RemoveAt(s, i)) = Len(s) - 1
  BY RemoveAtProperties

\* An item in the place of another: the one is removed, the other inserted there.
LEMMA ReplaceIsInsertion ==
    ASSUME NEW S, NEW s \in Seq(S), NEW i \in 1 .. Len(s), NEW t \in S
    PROVE  ReplaceAt(s, i, t) = InsertAt(RemoveAt(s, i), i, t)
<1>1. Len(s) \in Nat
  BY LenProperties
<1>2. PICK short : RemoveAt(s, i) = short
  OBVIOUS
<1>3. /\ short \in Seq(S) /\ Len(short) = Len(s) - 1
      /\ \A j \in 1 .. Len(s) - 1 : short[j] = IF j < i THEN s[j] ELSE s[j + 1]
  BY <1>2, RemoveAtProperties
<1>4. i \in 1 .. Len(short) + 1
  BY <1>1, <1>3
<1>5. PICK new : InsertAt(short, i, t) = new
  OBVIOUS
<1>6. /\ new \in Seq(S) /\ Len(new) = Len(short) + 1
      /\ \A j \in 1 .. Len(short) + 1 :
             new[j] = IF j < i THEN short[j] ELSE IF j = i THEN t ELSE short[j - 1]
  <2>1. short \in Seq(S) /\ i \in 1 .. Len(short) + 1
    BY <1>3, <1>4
  <2>2. InsertAt(short, i, t) \in Seq(S) /\ Len(InsertAt(short, i, t)) = Len(short) + 1
    BY <2>1, InsertAtLength
  <2>3. ASSUME NEW j \in 1 .. Len(short) + 1
        PROVE  InsertAt(short, i, t)[j] = IF j < i THEN short[j]
                                          ELSE IF j = i THEN t ELSE short[j - 1]
    BY <2>1, InsertAtItem
  <2> QED
    BY <1>5, <2>2, <2>3
<1>7. PICK put : ReplaceAt(s, i, t) = put
  OBVIOUS
<1>8. /\ put \in Seq(S) /\ Len(put) = Len(s)
      /\ \A j \in 1 .. Len(s) : put[j] = IF j = i THEN t ELSE s[j]
  BY <1>1, <1>7 DEF ReplaceAt
<1>9. ASSUME NEW j \in 1 .. Len(s)
      PROVE  put[j] = new[j]
  <2>1. CASE j < i
    <3>1. j \in 1 .. Len(s) - 1 /\ j # i /\ j \in 1 .. Len(short) + 1
      BY <1>1, <1>3, <2>1
    <3> QED
      BY <1>3, <1>6, <1>8, <2>1, <3>1
  <2>2. CASE j = i
    <3>1. ~(j < i) /\ j \in 1 .. Len(short) + 1
      BY <1>1, <1>3, <2>2
    <3> QED
      BY <1>6, <1>8, <2>2, <3>1
  <2>3. CASE j > i
    <3>1. /\ j - 1 \in 1 .. Len(s) - 1 /\ ~(j - 1 < i) /\ (j - 1) + 1 = j
          /\ ~(j < i) /\ j # i /\ j \in 1 .. Len(short) + 1
      BY <1>1, <1>3, <2>3
    <3>2. short[j - 1] = s[j]
      BY <1>3, <3>1
    <3> QED
      BY <1>6, <1>8, <3>1, <3>2
  <2> QED
    BY <1>1, <2>1, <2>2, <2>3
<1> QED
  BY <1>1, <1>2, <1>3, <1>5, <1>6, <1>7, <1>8, <1>9, SeqEqual
=============================================================================
