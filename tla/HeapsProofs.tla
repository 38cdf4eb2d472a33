---------------------------- MODULE HeapsProofs ----------------------------
(***************************************************************************)
(* Proofs about heap_2, heap_4 and heap_5, for memory of any number of     *)
(* regions, any sizes and any number of callers: what pvPortMalloc returns *)
(* is in the heap and nobody else's until vPortFree, no byte is lost       *)
(* between the blocks, and the free ones keep their order.  A region has   *)
(* to be smaller than the top bit of a size_t: in a larger one a block can *)
(* be taken for allocated that is not.                                     *)
(***************************************************************************)
EXTENDS Heaps, ListsLemmas

From(i) == FirstBlock(Regions[i])
To(i) == EndBlock(Regions[i])

RegionsFit == \A i \in DOMAIN Regions : SizeOfRegion(i) < Top

-----------------------------------------------------------------------------
(* The invariant.                                                          *)

\* The sizes without the top bit.
Bare(x) == [b \in DOMAIN x |-> IF x[b] >= Top THEN x[b] - Top ELSE x[b]]

\* Blocks of the sizes s follow one another in every region, from its start to
\* its end, where the marker may be gone: heap_5 joins the marker of an earlier
\* region to the block before it.
Tile(s) ==
    /\ DOMAIN s \subseteq Nat /\ \A b \in DOMAIN s : s[b] \in Nat
    /\ Starts \subseteq DOMAIN s /\ pxEnd \in DOMAIN s
    /\ \A b \in DOMAIN s \ Ends :
           /\ \E i \in DOMAIN Regions : From(i) <= b /\ b < To(i)
           /\ s[b] > 0 /\ b + s[b] \in DOMAIN s \cup Ends
    /\ \A b \in DOMAIN s : \A c \in DOMAIN s \cup Ends : b < c => b + s[b] <= c
    /\ \A b \in DOMAIN s \cap Ends : s[b] = IF Heap = 2 THEN SizeOfRegion(1) ELSE 0

\* The blocks whose size has its top bit set are those of taken.
Marked(x, taken) ==
    \A b \in DOMAIN x : x[b] \in 0 .. heapSIZE_MAX /\ (x[b] >= Top <=> b \in taken)

\* The list, the headers x, the application's blocks and those on their way back.
Sound(list, x, taken, leaving) ==
    /\ list \in Seq(Nat) /\ list # <<>> /\ Distinct(list) /\ list[Len(list)] = pxEnd
    /\ DOMAIN x = ToSet(list) \cup taken \cup leaving
    /\ \A b \in taken : ~Occurs(list, b) /\ b \notin leaving /\ b \notin Ends
    /\ \A b \in leaving : ~Occurs(list, b) /\ b \notin Ends
    /\ Marked(x, taken)
    /\ Tile(Bare(x))

\* Each piece of memory that the application holds has a block of its own, and
\* each call of vPortFree a block of its own to bring back.
HeapsInv ==
    /\ {"list", "xBlockSize"} \subseteq DOMAIN heap
    /\ DOMAIN call = Callers
    /\ ~Initialised => live = {} /\ Leaving = {}
    /\ Initialised => Sound(heap.list, heap.xBlockSize, Taken, Leaving)
    /\ \A l \in live :
           /\ l = [at |-> l.at, bytes |-> l.bytes]
           /\ l.at \in Nat /\ l.at - xHeapStructSize \in Nat /\ l.bytes \in Nat \ {0}
           /\ l.bytes + xHeapStructSize <= Bare(heap.xBlockSize)[l.at - xHeapStructSize]
    /\ \A k, l \in live : k.at = l.at => k = l
    /\ \A t, u \in Callers :
           call[t].pc = "insert" /\ call[u].pc = "insert" /\ call[t].block = call[u].block => t = u

-----------------------------------------------------------------------------
(* The memory.                                                             *)

\* Rounding up and down, by less than the alignment.
LEMMA Rounding ==
    ASSUME HeapsAssumption, NEW a \in Nat
    PROVE  /\ AlignUp(a) \in Nat /\ a <= AlignUp(a) /\ AlignUp(a) < a + portBYTE_ALIGNMENT
           /\ AlignDown(a) \in Nat /\ AlignDown(a) <= a /\ a < AlignDown(a) + portBYTE_ALIGNMENT
<1>1. portBYTE_ALIGNMENT \in Nat /\ portBYTE_ALIGNMENT > 0
  BY DEF HeapsAssumption
<1>2. /\ (0 - a) % portBYTE_ALIGNMENT \in 0 .. portBYTE_ALIGNMENT - 1
      /\ a % portBYTE_ALIGNMENT \in 0 .. portBYTE_ALIGNMENT - 1
      /\ a % portBYTE_ALIGNMENT <= a
  BY <1>1
<1> QED
  BY <1>1, <1>2 DEF AlignUp, AlignDown

\* The regions lie one behind the other, each with room for its end marker.
LEMMA Geometry ==
    ASSUME HeapsAssumption
    PROVE  /\ Len(Regions) \in Nat \ {0} /\ DOMAIN Regions = 1 .. Len(Regions)
           /\ Heap = 2 => Len(Regions) = 1
           /\ xHeapStructSize \in Nat \ {0} /\ Top \in Nat \ {0}
           /\ \A i \in 1 .. Len(Regions) : /\ From(i) \in Nat \ {0} /\ To(i) \in Nat
                                           /\ From(i) < To(i)
           /\ \A i, j \in 1 .. Len(Regions) : i < j => To(i) + xHeapStructSize <= From(j)
<1>1. /\ Len(Regions) \in Nat \ {0} /\ DOMAIN Regions = 1 .. Len(Regions)
      /\ xHeapStructSize \in Nat \ {0} /\ Top \in Nat \ {0} /\ portBYTE_ALIGNMENT \in Nat \ {0}
      /\ Heap # 5 => Len(Regions) = 1
      /\ Heap \in {2, 4, 5}
  BY EmptySeq DEF HeapsAssumption
<1>2. xHeapStructSize >= portBYTE_ALIGNMENT
  <2>1. SUFFICES ASSUME xHeapStructSize < portBYTE_ALIGNMENT PROVE FALSE
    BY <1>1
  <2>2. xHeapStructSize % portBYTE_ALIGNMENT = xHeapStructSize
    BY <1>1, <2>1
  <2> QED
    BY <1>1, <2>2 DEF HeapsAssumption
<1>3. ASSUME NEW i \in 1 .. Len(Regions)
      PROVE  /\ Regions[i].start \in Nat \ {0} /\ Regions[i].size \in Nat
             /\ Regions[i].size > 2 * xHeapStructSize + portBYTE_ALIGNMENT
  <2>1. Regions[i] \in [start: Nat \ {0}, size: Nat]
    BY ElementOfSeq DEF HeapsAssumption
  <2>2. Regions[i].size > 2 * xHeapStructSize + portBYTE_ALIGNMENT
    BY <1>1 DEF HeapsAssumption
  <2> QED
    BY <2>1, <2>2
<1>4. ASSUME NEW i \in 1 .. Len(Regions)
      PROVE  /\ From(i) \in Nat \ {0} /\ Regions[i].start <= From(i)
             /\ From(i) < Regions[i].start + portBYTE_ALIGNMENT
  <2>1. PICK a \in Nat \ {0} : a = Regions[i].start
    BY <1>3
  <2>2. From(i) = AlignUp(a)
    BY <2>1 DEF From, FirstBlock
  <2>3. AlignUp(a) \in Nat /\ a <= AlignUp(a) /\ AlignUp(a) < a + portBYTE_ALIGNMENT
    BY Rounding
  <2> QED
    BY <2>1, <2>2, <2>3
<1>5. ASSUME NEW i \in 1 .. Len(Regions), Heap # 2
      PROVE  /\ To(i) \in Nat /\ To(i) + xHeapStructSize <= Regions[i].start + Regions[i].size
             /\ Regions[i].start + Regions[i].size < To(i) + xHeapStructSize + portBYTE_ALIGNMENT
  <2>1. PICK a \in Nat : a = Regions[i].start + Regions[i].size - xHeapStructSize
    BY <1>1, <1>3
  <2>2. To(i) = AlignDown(a)
    BY <1>5, <2>1 DEF To, EndBlock
  <2>3. Regions[i].start + Regions[i].size = a + xHeapStructSize
    <3>1. Regions[i].start \in Nat /\ Regions[i].size \in Nat
      BY <1>3
    <3>2. xHeapStructSize \in Nat
      BY <1>1
    <3> QED
      BY <2>1, <3>1, <3>2
  <2>4. /\ AlignDown(a) \in Nat /\ AlignDown(a) <= a /\ a < AlignDown(a) + portBYTE_ALIGNMENT
    BY Rounding
  <2> QED
    BY <1>1, <2>2, <2>3, <2>4
<1>6. ASSUME NEW i \in 1 .. Len(Regions)
      PROVE  To(i) \in Nat /\ From(i) < To(i)
  <2> DEFINE a == Regions[i].start
             n == Regions[i].size
  <2>0. /\ a \in Nat \ {0} /\ n \in Nat /\ n > 2 * xHeapStructSize + portBYTE_ALIGNMENT
        /\ From(i) \in Nat /\ a <= From(i) /\ From(i) < a + portBYTE_ALIGNMENT
    BY <1>3, <1>4
  <2>1. CASE Heap = 2
    <3>1. To(i) = From(i) + n - portBYTE_ALIGNMENT
      BY <2>1 DEF From, To, EndBlock
    <3> HIDE DEF a, n
    <3> QED
      BY <1>1, <2>0, <3>1
  <2>2. CASE Heap # 2
    <3>1. To(i) \in Nat /\ a + n < To(i) + xHeapStructSize + portBYTE_ALIGNMENT
      BY <1>5, <2>2
    <3> HIDE DEF a, n
    <3> QED
      BY <1>1, <1>2, <2>0, <3>1
  <2> QED
    BY <2>1, <2>2
<1>7. ASSUME NEW i \in 1 .. Len(Regions), NEW j \in 1 .. Len(Regions), i < j
      PROVE  To(i) + xHeapStructSize <= From(j)
  <2> DEFINE a == Regions[i].start
             n == Regions[i].size
             c == Regions[j].start
  <2>1. Heap # 2
    BY <1>1, <1>7
  <2>2. a + n <= c
    BY <1>1, <1>7 DEF HeapsAssumption
  <2>3. /\ a \in Nat /\ n \in Nat /\ c \in Nat /\ From(j) \in Nat /\ c <= From(j)
        /\ To(i) \in Nat /\ To(i) + xHeapStructSize <= a + n
    BY <1>3, <1>4, <1>5, <2>1
  <2> HIDE DEF a, n, c
  <2> QED
    BY <1>1, <2>2, <2>3
<1> QED
  BY <1>1, <1>4, <1>6, <1>7

\* The starts and the ends of the regions, by their numbers.
LEMMA StartsAndEnds ==
    ASSUME HeapsAssumption
    PROVE  /\ \A b : b \in Starts <=> \E i \in 1 .. Len(Regions) : b = From(i)
           /\ \A b : b \in Ends <=> \E i \in 1 .. Len(Regions) : b = To(i)
           /\ pxEnd \in Ends /\ \A c \in Ends : c <= pxEnd
           /\ Starts \subseteq Nat /\ Ends \subseteq Nat
           /\ Starts \cap Ends = {}
           /\ Heap = 2 => Ends = {pxEnd}
<1>1. /\ \A b : b \in Starts <=> \E i \in 1 .. Len(Regions) : b = From(i)
      /\ \A b : b \in Ends <=> \E i \in 1 .. Len(Regions) : b = To(i)
  BY Geometry DEF Starts, Ends, From, To
<1>2. pxEnd = To(Len(Regions))
  BY DEF pxEnd, To
<1>3. ASSUME NEW i \in 1 .. Len(Regions), NEW j \in 1 .. Len(Regions), From(i) = To(j)
      PROVE  FALSE
  <2>1. CASE i = j
    BY <1>3, <2>1, Geometry
  <2>2. CASE i < j
    BY <1>3, <2>2, Geometry
  <2>3. CASE j < i
    BY <1>3, <2>3, Geometry
  <2> QED
    BY <2>1, <2>2, <2>3, Geometry
<1>4. ASSUME NEW i \in 1 .. Len(Regions)
      PROVE  To(i) <= To(Len(Regions))
  <2>0. Len(Regions) \in Nat
    BY Geometry
  <2>1. CASE i = Len(Regions)
    BY <2>1, Geometry
  <2>2. CASE i < Len(Regions)
    <3>0. Len(Regions) \in 1 .. Len(Regions)
      BY Geometry
    <3>1. To(i) + xHeapStructSize <= From(Len(Regions)) /\ From(Len(Regions)) < To(Len(Regions))
      BY <2>2, <3>0, Geometry
    <3>2. /\ To(i) \in Nat /\ From(Len(Regions)) \in Nat /\ To(Len(Regions)) \in Nat
          /\ xHeapStructSize \in Nat
      BY <3>0, Geometry
    <3> QED
      BY <3>1, <3>2
  <2> QED
    BY <2>0, <2>1, <2>2
<1>5. /\ Len(Regions) \in 1 .. Len(Regions)
      /\ Heap = 2 => Len(Regions) = 1
      /\ \A i \in 1 .. Len(Regions) : From(i) \in Nat /\ To(i) \in Nat
  BY Geometry
<1>6. /\ pxEnd \in Ends /\ \A c \in Ends : c <= pxEnd
      /\ Starts \subseteq Nat /\ Ends \subseteq Nat
  BY <1>1, <1>2, <1>4, <1>5
<1>7. Starts \cap Ends = {}
  BY <1>1, <1>3
<1>8. Heap = 2 => Ends = {pxEnd}
  <2>1. SUFFICES ASSUME Heap = 2, NEW c \in Ends PROVE c = pxEnd
    BY <1>6
  <2>2. PICK i \in 1 .. Len(Regions) : c = To(i)
    BY <1>1
  <2>3. Len(Regions) = 1
    BY <2>1, Geometry
  <2>4. i = 1
    BY <2>2, <2>3
  <2> QED
    BY <1>2, <2>2, <2>3, <2>4
<1> QED
  BY <1>1, <1>6, <1>7, <1>8

-----------------------------------------------------------------------------
(* Cutting a block and joining two.                                        *)

\* A region lies before another one, or behind it.
LEMMA OneRegion ==
    ASSUME HeapsAssumption, NEW b \in Nat, NEW i \in 1 .. Len(Regions),
           From(i) <= b, b < To(i)
    PROVE  /\ \A c \in Ends : c <= b \/ To(i) <= c
           /\ \A c \in Starts : c <= b \/ To(i) < c
           /\ b \notin Ends
<1>1. ASSUME NEW j \in 1 .. Len(Regions), i < j
      PROVE  To(i) < From(j) /\ To(i) < To(j)
  <2>1. To(i) + xHeapStructSize <= From(j) /\ From(j) < To(j) /\ xHeapStructSize > 0
    BY <1>1, Geometry
  <2>2. To(i) \in Nat /\ From(j) \in Nat /\ To(j) \in Nat /\ xHeapStructSize \in Nat
    BY Geometry
  <2> QED
    BY <2>1, <2>2
<1>2. ASSUME NEW j \in 1 .. Len(Regions), j < i
      PROVE  From(j) < b /\ To(j) < b
  <2>1. To(j) + xHeapStructSize <= From(i) /\ From(j) < To(j) /\ xHeapStructSize > 0
    BY <1>2, Geometry
  <2>2. To(j) \in Nat /\ From(i) \in Nat /\ From(j) \in Nat /\ xHeapStructSize \in Nat
    BY Geometry
  <2> QED
    BY <2>1, <2>2
<1>3. Len(Regions) \in Nat /\ From(i) \in Nat /\ To(i) \in Nat
  BY Geometry
<1>4. ASSUME NEW c \in Ends
      PROVE  c # b /\ (c <= b \/ To(i) <= c)
  <2>1. PICK j \in 1 .. Len(Regions) : c = To(j)
    BY StartsAndEnds
  <2>2. To(j) \in Nat
    BY Geometry
  <2>3. j < i \/ j = i \/ i < j
    BY <1>3
  <2> QED
    BY <1>1, <1>2, <1>3, <2>1, <2>2, <2>3
<1>5. ASSUME NEW c \in Starts
      PROVE  c <= b \/ To(i) < c
  <2>1. PICK j \in 1 .. Len(Regions) : c = From(j)
    BY StartsAndEnds
  <2>2. From(j) \in Nat
    BY Geometry
  <2>3. j < i \/ j = i \/ i < j
    BY <1>3
  <2> QED
    BY <1>1, <1>2, <1>3, <2>1, <2>2, <2>3
<1> QED
  BY <1>4, <1>5

\* A block lies in a region, is not empty, and ends in it, where the next one
\* begins; and it is smaller than the top bit.
LEMMA BlockInRegion ==
    ASSUME HeapsAssumption, NEW s, Tile(s), NEW b \in DOMAIN s, b \notin Ends
    PROVE  /\ b \in Nat /\ s[b] \in Nat \ {0}
           /\ \E i \in 1 .. Len(Regions) : /\ From(i) <= b /\ b + s[b] <= To(i)
                                           /\ s[b] <= SizeOfRegion(i)
           /\ RegionsFit => s[b] < Top
           /\ b + s[b] \in DOMAIN s \cup Ends
           /\ \A c \in DOMAIN s \cup Ends : b < c => b + s[b] <= c
<1>1. /\ b \in Nat /\ s[b] \in Nat /\ s[b] > 0 /\ b + s[b] \in DOMAIN s \cup Ends
      /\ \A c \in DOMAIN s \cup Ends : b < c => b + s[b] <= c
  BY DEF Tile
<1>2. PICK i \in 1 .. Len(Regions) : From(i) <= b /\ b < To(i)
  BY Geometry DEF Tile
<1>3. From(i) \in Nat /\ To(i) \in Nat /\ To(i) \in Ends /\ Top \in Nat
  BY Geometry, StartsAndEnds
<1>4. b + s[b] <= To(i)
  BY <1>1, <1>2, <1>3
<1>5. SizeOfRegion(i) = To(i) - From(i)
  BY DEF SizeOfRegion, From, To
<1>6. s[b] <= SizeOfRegion(i)
  BY <1>1, <1>2, <1>3, <1>4, <1>5
<1>7. RegionsFit => s[b] < Top
  <2>1. RegionsFit => SizeOfRegion(i) < Top
    BY Geometry DEF RegionsFit
  <2> QED
    BY <1>1, <1>3, <1>5, <1>6, <2>1
<1> QED
  BY <1>1, <1>2, <1>4, <1>6, <1>7

\* A block cut in two: the parts tile what the block did.
LEMMA CutTiles ==
    ASSUME HeapsAssumption, NEW s, Tile(s), NEW b \in DOMAIN s, b \notin Ends,
           NEW n \in Nat, 0 < n, n < s[b],
           NEW u, DOMAIN u = DOMAIN s \cup {b + n}, u[b] = n, u[b + n] = s[b] - n,
           \A c \in DOMAIN s : c # b => u[c] = s[c]
    PROVE  /\ b + n \in Nat /\ b + n \notin DOMAIN s /\ b + n \notin Ends
           /\ Tile(u)
<1>1. /\ b \in Nat /\ s[b] \in Nat \ {0} /\ b + s[b] \in DOMAIN s \cup Ends
      /\ \A c \in DOMAIN s \cup Ends : b < c => b + s[b] <= c
  BY BlockInRegion
<1>2. b + n \in Nat /\ b < b + n /\ b + n < b + s[b]
  BY <1>1
<1>3. b + n \notin DOMAIN s /\ b + n \notin Ends
  BY <1>1, <1>2
<1>4. DOMAIN s \subseteq Nat /\ Ends \subseteq Nat /\ \A c \in DOMAIN s : s[c] \in Nat
  BY StartsAndEnds DEF Tile
<1>5. DOMAIN u \subseteq Nat /\ \A c \in DOMAIN u : u[c] \in Nat
  BY <1>1, <1>2, <1>3, <1>4
<1>6. Starts \subseteq DOMAIN u /\ pxEnd \in DOMAIN u
  BY DEF Tile
<1>7. ASSUME NEW c \in DOMAIN u, c \notin Ends
      PROVE  /\ \E i \in DOMAIN Regions : From(i) <= c /\ c < To(i)
             /\ u[c] > 0 /\ c + u[c] \in DOMAIN u \cup Ends
  <2>1. CASE c # b /\ c # b + n
    BY <1>7, <2>1 DEF Tile
  <2>2. CASE c = b
    <3>1. \E i \in DOMAIN Regions : From(i) <= c /\ c < To(i)
      BY <2>2 DEF Tile
    <3> QED
      BY <2>2, <3>1
  <2>3. CASE c = b + n
    <3>1. PICK i \in 1 .. Len(Regions) : From(i) <= b /\ b + s[b] <= To(i)
      BY BlockInRegion
    <3>2. From(i) \in Nat /\ To(i) \in Nat /\ i \in DOMAIN Regions
      BY Geometry
    <3>3. From(i) <= c /\ c < To(i)
      BY <1>1, <1>2, <2>3, <3>1, <3>2
    <3>4. u[c] > 0 /\ c + u[c] = b + s[b]
      BY <1>1, <1>2, <2>3
    <3> QED
      BY <1>1, <3>2, <3>3, <3>4
  <2> QED
    BY <2>1, <2>2, <2>3
<1>8. ASSUME NEW c \in DOMAIN u, NEW d \in DOMAIN u \cup Ends, c < d
      PROVE  c + u[c] <= d
  <2>0. c \in Nat /\ d \in Nat
    BY <1>4, <1>5
  <2>1. CASE c = b
    BY <1>1, <1>2, <1>8, <2>0, <2>1
  <2>2. CASE c = b + n
    <3>1. c + u[c] = b + s[b]
      BY <1>1, <2>2
    <3>2. d \in DOMAIN s \cup Ends /\ b < d
      BY <1>1, <1>2, <1>8, <2>0, <2>2
    <3> QED
      BY <1>1, <3>1, <3>2
  <2>3. CASE c # b /\ c # b + n
    <3>1. c \in DOMAIN s /\ u[c] = s[c] /\ s[c] \in Nat
      BY <1>4, <2>3
    <3>2. CASE d # b + n
      BY <1>8, <2>3, <3>1, <3>2 DEF Tile
    <3>3. CASE d = b + n
      <4>1. c < b
        BY <1>1, <1>2, <1>8, <2>0, <2>3, <3>1, <3>3
      <4>2. c + s[c] <= b
        BY <3>1, <4>1 DEF Tile
      <4> QED
        BY <1>1, <1>2, <2>0, <3>1, <3>3, <4>2
    <3> QED
      BY <3>2, <3>3
  <2> QED
    BY <2>1, <2>2, <2>3
<1>9. \A c \in DOMAIN u \cap Ends : u[c] = IF Heap = 2 THEN SizeOfRegion(1) ELSE 0
  BY <1>3 DEF Tile
<1> QED
  BY <1>2, <1>3, <1>5, <1>6, <1>7, <1>8, <1>9 DEF Tile

\* A block and the next, which may be the marker of an earlier region, made one:
\* they tile what they did apart.
LEMMA MergeTiles ==
    ASSUME HeapsAssumption, Heap # 2, NEW s, Tile(s), NEW b \in DOMAIN s, b \notin Ends,
           NEW c \in DOMAIN s, b + s[b] = c, c # pxEnd,
           NEW u, DOMAIN u = DOMAIN s \ {c}, u[b] = s[b] + s[c],
           \A d \in DOMAIN s \ {c} : d # b => u[d] = s[d]
    PROVE  Tile(u)
<1>1. /\ b \in Nat /\ s[b] \in Nat \ {0}
      /\ \A d \in DOMAIN s \cup Ends : b < d => b + s[b] <= d
  BY BlockInRegion
<1>2. c \in Nat /\ s[c] \in Nat /\ b < c /\ b \in DOMAIN u
  BY <1>1 DEF Tile
<1>3. DOMAIN s \subseteq Nat /\ Ends \subseteq Nat /\ \A d \in DOMAIN s : s[d] \in Nat
  BY StartsAndEnds DEF Tile
<1>4. DOMAIN u \subseteq Nat /\ \A d \in DOMAIN u : u[d] \in Nat
  BY <1>1, <1>2, <1>3
<1>5. Starts \subseteq DOMAIN u /\ pxEnd \in DOMAIN u
  <2>1. PICK i \in 1 .. Len(Regions) : From(i) <= b /\ b + s[b] <= To(i)
    BY BlockInRegion
  <2>2. From(i) \in Nat /\ To(i) \in Nat
    BY Geometry
  <2>3. From(i) <= b /\ b < To(i)
    BY <1>1, <2>1, <2>2
  <2>4. \A d \in Starts : d <= b \/ To(i) < d
    BY <1>1, <2>3, OneRegion
  <2>5. c \notin Starts
    BY <1>1, <1>2, <2>1, <2>2, <2>4
  <2> QED
    BY <2>5 DEF Tile
<1>6. c + s[c] \in DOMAIN u \cup Ends
  <2>1. CASE c \in Ends
    <3>1. s[c] = 0
      BY <2>1 DEF Tile
    <3> QED
      BY <1>2, <2>1, <3>1
  <2>2. CASE c \notin Ends
    <3>1. c + s[c] \in DOMAIN s \cup Ends /\ s[c] > 0
      BY <2>2 DEF Tile
    <3> QED
      BY <1>2, <3>1
  <2> QED
    BY <2>1, <2>2
<1>7. ASSUME NEW d \in DOMAIN u, d \notin Ends
      PROVE  /\ \E i \in DOMAIN Regions : From(i) <= d /\ d < To(i)
             /\ u[d] > 0 /\ d + u[d] \in DOMAIN u \cup Ends
  <2>0. d \in DOMAIN s /\ d # c
    BY <1>7
  <2>1. \E i \in DOMAIN Regions : From(i) <= d /\ d < To(i)
    BY <1>7, <2>0 DEF Tile
  <2>2. CASE d = b
    <3>1. u[d] > 0 /\ d + u[d] = c + s[c]
      BY <1>1, <1>2, <2>2
    <3> QED
      BY <1>6, <2>1, <3>1
  <2>3. CASE d # b
    <3>1. u[d] = s[d] /\ s[d] > 0 /\ s[d] \in Nat /\ d \in Nat /\ d + s[d] \in DOMAIN s \cup Ends
      BY <1>3, <1>7, <2>0, <2>3 DEF Tile
    <3>2. d + s[d] # c
      <4>1. SUFFICES ASSUME d + s[d] = c PROVE FALSE
        OBVIOUS
      <4>2. CASE d < b
        <5>1. d + s[d] <= b
          BY <2>0, <4>2 DEF Tile
        <5> QED
          BY <1>1, <1>2, <3>1, <4>1, <5>1
      <4>3. CASE b < d
        <5>1. c <= d
          BY <1>1, <2>0, <4>3
        <5> QED
          BY <1>2, <3>1, <4>1, <5>1
      <4> QED
        BY <1>1, <2>3, <3>1, <4>2, <4>3
    <3> QED
      BY <2>1, <3>1, <3>2
  <2> QED
    BY <2>2, <2>3
<1>8. ASSUME NEW d \in DOMAIN u, NEW e \in DOMAIN u \cup Ends, d < e
      PROVE  d + u[d] <= e
  <2>0. d \in Nat /\ e \in Nat /\ d \in DOMAIN s /\ d # c /\ e \in DOMAIN s \cup Ends
    BY <1>3, <1>4
  <2>1. CASE d # b
    BY <1>8, <2>0, <2>1 DEF Tile
  <2>2. CASE d = b
    <3>1. c <= e /\ d + u[d] = c + s[c]
      BY <1>1, <1>2, <1>8, <2>0, <2>2
    <3>2. CASE c < e
      BY <2>0, <3>1, <3>2 DEF Tile
    <3>3. CASE c = e
      <4>1. c \in Ends
        BY <3>3
      <4>2. s[c] = 0
        BY <4>1 DEF Tile
      <4> QED
        BY <1>2, <3>1, <3>3, <4>2
    <3> QED
      BY <1>2, <2>0, <3>1, <3>2, <3>3
  <2> QED
    BY <2>1, <2>2
<1>9. \A d \in DOMAIN u \cap Ends : u[d] = IF Heap = 2 THEN SizeOfRegion(1) ELSE 0
  BY DEF Tile
<1> QED
  BY <1>4, <1>5, <1>7, <1>8, <1>9 DEF Tile

-----------------------------------------------------------------------------
(* The list and the headers, step by step.                                 *)

\* What Bare is.
LEMMA BareIs ==
    ASSUME NEW x
    PROVE  /\ DOMAIN Bare(x) = DOMAIN x
           /\ \A b \in DOMAIN x : Bare(x)[b] = IF x[b] >= Top THEN x[b] - Top ELSE x[b]
  BY DEF Bare

\* A block of the list that is not the end leaves it, and is on its way.
LEMMA TakeOut ==
    ASSUME HeapsAssumption, NEW list, NEW x, NEW taken, NEW leaving,
           Sound(list, x, taken, leaving),
           NEW i \in 1 .. Len(list), list[i] \notin Ends
    PROVE  /\ Sound(RemoveAt(list, i), x, taken, leaving \cup {list[i]})
           /\ i # Len(list) /\ Len(RemoveAt(list, i)) = Len(list) - 1
<1> DEFINE b == list[i]
           new == RemoveAt(list, i)
<1>1. list \in Seq(Nat) /\ Distinct(list) /\ list[Len(list)] = pxEnd /\ Len(list) \in Nat
  BY DEF Sound
<1>2. i # Len(list)
  BY <1>1, StartsAndEnds
<1>3. /\ new \in Seq(Nat) /\ Len(new) = Len(list) - 1 /\ Distinct(new)
      /\ \A c : Occurs(new, c) <=> c # b /\ Occurs(list, c)
      /\ \A j \in 1 .. Len(list) - 1 : new[j] = IF j < i THEN list[j] ELSE list[j + 1]
  BY <1>1, RemoveAtOccurs, RemoveAtProperties
<1>4. new # <<>> /\ new[Len(new)] = pxEnd
  <2>1. Len(new) \in 1 .. Len(list) - 1 /\ ~(Len(new) < i) /\ Len(new) + 1 = Len(list)
    BY <1>1, <1>2, <1>3
  <2>2. new[Len(new)] = list[Len(list)]
    BY <1>3, <2>1
  <2> QED
    BY <1>1, <1>3, <2>1, <2>2
<1>5. Occurs(list, b)
  BY <1>1, OccursByLength
<1>6. DOMAIN x = ToSet(new) \cup taken \cup (leaving \cup {b})
  <2>1. \A c : c \in ToSet(list) <=> Occurs(list, c)
    BY DEF ToSet, Occurs
  <2>2. \A c : c \in ToSet(new) <=> Occurs(new, c)
    BY DEF ToSet, Occurs
  <2>3. DOMAIN x = ToSet(list) \cup taken \cup leaving
    BY DEF Sound
  <2> HIDE DEF new, b
  <2> QED
    BY <1>3, <1>5, <2>1, <2>2, <2>3
<1>7. /\ \A c \in taken : ~Occurs(list, c) /\ c \notin leaving /\ c \notin Ends
      /\ \A c \in leaving : ~Occurs(list, c) /\ c \notin Ends
      /\ Marked(x, taken) /\ Tile(Bare(x))
  BY DEF Sound
<1>8. b \notin Ends
  OBVIOUS
<1> HIDE DEF new, b
<1>9. /\ \A c \in taken : ~Occurs(new, c) /\ c \notin leaving \cup {b} /\ c \notin Ends
      /\ \A c \in leaving \cup {b} : ~Occurs(new, c) /\ c \notin Ends
  BY <1>3, <1>5, <1>7, <1>8
<1>10. Sound(new, x, taken, leaving \cup {b})
  BY <1>3, <1>4, <1>6, <1>7, <1>9 DEF Sound
<1> QED
  BY <1>2, <1>3, <1>10 DEF new, b

\* A block on its way comes into the list, at any place but after the end.
LEMMA PutIn ==
    ASSUME HeapsAssumption, NEW list, NEW x, NEW taken, NEW leaving, NEW b, b \notin leaving,
           Sound(list, x, taken, leaving \cup {b}), NEW p \in 1 .. Len(list) + 1, p <= Len(list)
    PROVE  Sound(InsertAt(list, p, b), x, taken, leaving)
<1> DEFINE new == InsertAt(list, p, b)
<1>1. /\ list \in Seq(Nat) /\ Distinct(list) /\ list[Len(list)] = pxEnd /\ Len(list) \in Nat
      /\ DOMAIN x = ToSet(list) \cup taken \cup (leaving \cup {b})
      /\ \A c \in taken : ~Occurs(list, c) /\ c \notin leaving \cup {b} /\ c \notin Ends
      /\ \A c \in leaving \cup {b} : ~Occurs(list, c) /\ c \notin Ends
      /\ Marked(x, taken) /\ Tile(Bare(x))
  BY DEF Sound
<1>2. b \in Nat /\ ~Occurs(list, b)
  <2>1. DOMAIN Bare(x) \subseteq Nat
    BY <1>1 DEF Tile
  <2>2. b \in DOMAIN x
    BY <1>1
  <2> QED
    BY <1>1, <2>1, <2>2, BareIs
<1>3. /\ new \in Seq(Nat) /\ Len(new) = Len(list) + 1 /\ Distinct(new)
      /\ \A c : Occurs(new, c) <=> c = b \/ Occurs(list, c)
      /\ \A j \in 1 .. Len(list) + 1 :
             new[j] = IF j < p THEN list[j] ELSE IF j = p THEN b ELSE list[j - 1]
  <2>0. PICK S : S = Nat
    OBVIOUS
  <2>1. list \in Seq(S) /\ b \in S
    BY <1>1, <1>2, <2>0
  <2>2. /\ \A c : Occurs(new, c) <=> c = b \/ Occurs(list, c)
        /\ Distinct(new)
    BY <1>1, <1>2, <2>1, InsertAtOccurs
  <2>3. /\ new \in Seq(S) /\ Len(new) = Len(list) + 1
        /\ \A j \in 1 .. Len(list) + 1 :
               new[j] = IF j < p THEN list[j] ELSE IF j = p THEN b ELSE list[j - 1]
    BY <2>1, InsertAtProperties
  <2> QED
    BY <2>0, <2>2, <2>3
<1>4. new # <<>> /\ new[Len(new)] = pxEnd
  <2>1. Len(new) \in 1 .. Len(list) + 1 /\ ~(Len(new) < p) /\ Len(new) # p /\ Len(new) - 1 = Len(list)
    BY <1>1, <1>3
  <2>2. new[Len(new)] = list[Len(list)]
    BY <1>3, <2>1
  <2> QED
    BY <1>1, <1>3, <2>1, <2>2
<1>5. DOMAIN x = ToSet(new) \cup taken \cup leaving
  <2>1. \A c : c \in ToSet(list) <=> Occurs(list, c)
    BY DEF ToSet, Occurs
  <2>2. \A c : c \in ToSet(new) <=> Occurs(new, c)
    BY DEF ToSet, Occurs
  <2> HIDE DEF new
  <2> QED
    BY <1>1, <1>3, <2>1, <2>2
<1> HIDE DEF new
<1>6. /\ \A c \in taken : ~Occurs(new, c) /\ c \notin leaving /\ c \notin Ends
      /\ \A c \in leaving : ~Occurs(new, c) /\ c \notin Ends
  BY <1>1, <1>3
<1>7. Sound(new, x, taken, leaving)
  BY <1>1, <1>3, <1>4, <1>5, <1>6 DEF Sound
<1> QED
  BY <1>7 DEF new

\* The sizes x and y are the same at the blocks of S.
Alike(x, y, S) == \A c \in S : y[c] = x[c]

\* The sizes y are x but for that of block b.
SameBut(x, y, b) == DOMAIN y = DOMAIN x /\ \A c \in DOMAIN x : c # b => y[c] = x[c]

\* The top bit of the size of a block on its way is set: the block is taken.
LEMMA MarkBlock ==
    ASSUME HeapsAssumption, RegionsFit, NEW list, NEW x, NEW taken, NEW leaving, NEW b, b \notin leaving,
           Sound(list, x, taken, leaving \cup {b}),
           NEW y, y[b] = x[b] + Top, SameBut(x, y, b)
    PROVE  Sound(list, y, taken \cup {b}, leaving) /\ Bare(y) = Bare(x)
<1>0. DOMAIN y = DOMAIN x /\ \A c \in DOMAIN x : c # b => y[c] = x[c]
  BY DEF SameBut
<1>1. /\ list \in Seq(Nat) /\ list # <<>> /\ Distinct(list) /\ list[Len(list)] = pxEnd
      /\ DOMAIN x = ToSet(list) \cup taken \cup (leaving \cup {b})
      /\ \A c \in taken : ~Occurs(list, c) /\ c \notin leaving \cup {b} /\ c \notin Ends
      /\ \A c \in leaving \cup {b} : ~Occurs(list, c) /\ c \notin Ends
      /\ \A c \in DOMAIN x : x[c] \in 0 .. heapSIZE_MAX /\ (x[c] >= Top <=> c \in taken)
      /\ Tile(Bare(x))
  BY DEF Sound, Marked
<1>2. Top \in Nat \ {0} /\ heapSIZE_MAX = 2 * Top - 1
  BY Geometry DEF heapSIZE_MAX
<1>3. b \in DOMAIN x /\ b \notin taken /\ x[b] \in Nat /\ x[b] < Top
  BY <1>1, <1>2
<1>4. y[b] \in 0 .. heapSIZE_MAX /\ y[b] >= Top /\ y[b] - Top = x[b] /\ ~(x[b] >= Top)
  BY <1>2, <1>3
<1>5. Bare(y) = Bare(x)
  <2>1. \A c \in DOMAIN x : Bare(y)[c] = Bare(x)[c]
    BY <1>0, <1>3, <1>4, BareIs
  <2> QED
    BY <1>0, <2>1, BareIs DEF Bare
<1>6. \A c \in DOMAIN y : y[c] \in 0 .. heapSIZE_MAX /\ (y[c] >= Top <=> c \in taken \cup {b})
  BY <1>0, <1>1, <1>4
<1>7. DOMAIN y = ToSet(list) \cup (taken \cup {b}) \cup leaving
  BY <1>0, <1>1
<1>8. /\ \A c \in taken \cup {b} : ~Occurs(list, c) /\ c \notin leaving /\ c \notin Ends
      /\ \A c \in leaving : ~Occurs(list, c) /\ c \notin Ends
  BY <1>1
<1> QED
  BY <1>1, <1>5, <1>6, <1>7, <1>8 DEF Sound, Marked

\* The top bit is cleared: the block is on its way back.
LEMMA UnmarkBlock ==
    ASSUME HeapsAssumption, NEW list, NEW x, NEW taken, NEW leaving, NEW b \in taken,
           Sound(list, x, taken, leaving),
           NEW y, y[b] = x[b] - Top, SameBut(x, y, b)
    PROVE  Sound(list, y, taken \ {b}, leaving \cup {b}) /\ Bare(y) = Bare(x)
<1>0. DOMAIN y = DOMAIN x /\ \A c \in DOMAIN x : c # b => y[c] = x[c]
  BY DEF SameBut
<1>1. /\ list \in Seq(Nat) /\ list # <<>> /\ Distinct(list) /\ list[Len(list)] = pxEnd
      /\ DOMAIN x = ToSet(list) \cup taken \cup leaving
      /\ \A c \in taken : ~Occurs(list, c) /\ c \notin leaving /\ c \notin Ends
      /\ \A c \in leaving : ~Occurs(list, c) /\ c \notin Ends
      /\ \A c \in DOMAIN x : x[c] \in 0 .. heapSIZE_MAX /\ (x[c] >= Top <=> c \in taken)
      /\ Tile(Bare(x))
  BY DEF Sound, Marked
<1>2. Top \in Nat \ {0} /\ heapSIZE_MAX = 2 * Top - 1
  BY Geometry DEF heapSIZE_MAX
<1>3. b \in DOMAIN x /\ x[b] \in Top .. heapSIZE_MAX
  BY <1>1, <1>2
<1>4. y[b] \in 0 .. heapSIZE_MAX /\ ~(y[b] >= Top) /\ x[b] >= Top
  BY <1>2, <1>3
<1>5. Bare(y) = Bare(x)
  <2>1. \A c \in DOMAIN x : Bare(y)[c] = Bare(x)[c]
    BY <1>0, <1>3, <1>4, BareIs
  <2> QED
    BY <1>0, <2>1, BareIs DEF Bare
<1>6. \A c \in DOMAIN y : y[c] \in 0 .. heapSIZE_MAX /\ (y[c] >= Top <=> c \in taken \ {b})
  BY <1>0, <1>1, <1>4
<1>7. DOMAIN y = ToSet(list) \cup (taken \ {b}) \cup (leaving \cup {b})
  BY <1>0, <1>1
<1>8. /\ \A c \in taken \ {b} : ~Occurs(list, c) /\ c \notin leaving \cup {b} /\ c \notin Ends
      /\ \A c \in leaving \cup {b} : ~Occurs(list, c) /\ c \notin Ends
  BY <1>1
<1> QED
  BY <1>1, <1>5, <1>6, <1>7, <1>8 DEF Sound, Marked

\* In the sizes y, block b is cut after n.
CutOff(x, y, b, n) ==
    /\ DOMAIN y = DOMAIN x \cup {b + n} /\ y[b] = n /\ y[b + n] = x[b] - n
    /\ \A c \in DOMAIN x : c # b => y[c] = x[c]

\* A block on its way is cut in two.
LEMMA CutBlock ==
    ASSUME HeapsAssumption, RegionsFit, NEW list, NEW x, NEW taken, NEW leaving, NEW b \in leaving,
           Sound(list, x, taken, leaving), NEW n \in Nat, 0 < n, n < x[b],
           NEW y, CutOff(x, y, b, n), NEW d, b + n = d
    PROVE  Sound(list, y, taken, leaving \cup {d}) /\ d \notin DOMAIN x
<1>0. /\ DOMAIN y = DOMAIN x \cup {b + n} /\ y[b] = n /\ y[b + n] = x[b] - n
      /\ \A c \in DOMAIN x : c # b => y[c] = x[c]
  BY DEF CutOff
<1>1. /\ list \in Seq(Nat) /\ list # <<>> /\ Distinct(list) /\ list[Len(list)] = pxEnd
      /\ DOMAIN x = ToSet(list) \cup taken \cup leaving
      /\ \A c \in taken : ~Occurs(list, c) /\ c \notin leaving /\ c \notin Ends
      /\ \A c \in leaving : ~Occurs(list, c) /\ c \notin Ends
      /\ \A c \in DOMAIN x : x[c] \in 0 .. heapSIZE_MAX /\ (x[c] >= Top <=> c \in taken)
      /\ Tile(Bare(x))
  BY DEF Sound, Marked
<1>2. Top \in Nat \ {0} /\ heapSIZE_MAX = 2 * Top - 1
  BY Geometry DEF heapSIZE_MAX
<1>3. b \in DOMAIN x /\ b \notin taken /\ b \notin Ends /\ x[b] \in Nat /\ x[b] < Top
  BY <1>1, <1>2
<1> DEFINE s == Bare(x)
           u == [c \in DOMAIN x \cup {b + n} |->
                    IF c = b THEN n ELSE IF c = b + n THEN x[b] - n ELSE s[c]]
<1>4. s[b] = x[b] /\ DOMAIN s = DOMAIN x
  BY <1>2, <1>3, BareIs
<1>5. b \in Nat
  BY <1>1, <1>3, BlockInRegion, <1>4
<1>6. b + n # b
  BY <1>5
<1>7. /\ DOMAIN u = DOMAIN s \cup {b + n} /\ u[b] = n /\ u[b + n] = s[b] - n
      /\ \A c \in DOMAIN s : c # b => u[c] = s[c] \/ c = b + n
  BY <1>0, <1>3, <1>4, <1>6
<1>8. b + n \notin DOMAIN s /\ b + n \notin Ends
  <2>1. \A c \in DOMAIN s \cup Ends : b < c => b + s[b] <= c
    BY <1>1, <1>3, <1>4, BlockInRegion
  <2>2. b + n \in DOMAIN s \cup Ends => b + s[b] <= b + n
    BY <1>5, <2>1
  <2> QED
    BY <1>3, <1>4, <1>5, <2>2
<1>9. \A c \in DOMAIN s : c # b => u[c] = s[c]
  BY <1>7, <1>8
<1>10. Tile(u)
  <2> HIDE DEF s, u
  <2>1. b \in DOMAIN s /\ b \notin Ends /\ 0 < n /\ n < s[b] /\ Tile(s)
    BY <1>1, <1>3, <1>4 DEF s
  <2> QED
    BY <1>7, <1>9, <2>1, CutTiles
<1>11. Bare(y) = u
  <2>1. y[b] < Top /\ ~(y[b] >= Top) /\ ~(y[b + n] >= Top)
    BY <1>0, <1>2, <1>3, <1>8, <1>4
  <2>2. \A c \in DOMAIN y : Bare(y)[c] = u[c]
    <3>1. ASSUME NEW c \in DOMAIN x, c # b PROVE Bare(y)[c] = s[c]
      BY <1>0, <3>1, BareIs
    <3>2. Bare(y)[b] = n /\ Bare(y)[b + n] = x[b] - n
      BY <1>0, <1>3, <2>1, BareIs
    <3> QED
      BY <1>0, <1>4, <1>7, <1>9, <3>1, <3>2
  <2> QED
    BY <1>0, <2>2, <1>4, <1>7 DEF Bare
<1>12. \A c \in DOMAIN y : y[c] \in 0 .. heapSIZE_MAX /\ (y[c] >= Top <=> c \in taken)
  <2>1. b + n \notin taken
    BY <1>1, <1>4, <1>8
  <2>2. x[b] - n \in 0 .. heapSIZE_MAX /\ n \in 0 .. heapSIZE_MAX /\ ~(x[b] - n >= Top) /\ ~(n >= Top)
    BY <1>2, <1>3
  <2>3. \A c \in DOMAIN y : c = b \/ c = b + n \/ (c \in DOMAIN x /\ y[c] = x[c])
    BY <1>0
  <2> HIDE DEF s, u
  <2> QED
    BY <1>0, <1>1, <1>3, <2>1, <2>2, <2>3
<1>13. DOMAIN y = ToSet(list) \cup taken \cup (leaving \cup {b + n})
  BY <1>0, <1>1
<1>14. /\ \A c \in taken : ~Occurs(list, c) /\ c \notin leaving \cup {b + n} /\ c \notin Ends
       /\ \A c \in leaving \cup {b + n} : ~Occurs(list, c) /\ c \notin Ends
  <2>1. ~Occurs(list, b + n) /\ b + n \notin taken
    BY <1>1, <1>4, <1>8 DEF Occurs, ToSet
  <2> QED
    BY <1>1, <1>8, <2>1
<1> HIDE DEF s, u
<1> QED
  BY <1>1, <1>4, <1>8, <1>10, <1>11, <1>12, <1>13, <1>14 DEF Sound, Marked

\* In the sizes y, block b is made one with the next, c.
Merged(x, y, b, c) ==
    /\ DOMAIN y = DOMAIN x \ {c} /\ y[b] = x[b] + x[c]
    /\ \A d \in DOMAIN x \ {c} : d # b => y[d] = x[d]

\* A block and the next made one, of the sizes x.
LEMMA MergeSizes ==
    ASSUME HeapsAssumption, RegionsFit, Heap # 2, NEW x, NEW taken, Tile(Bare(x)), Marked(x, taken),
           NEW b \in DOMAIN x, b \notin taken, b \notin Ends,
           NEW c \in DOMAIN x, c \notin taken, b + x[b] = c, c # pxEnd,
           NEW y, Merged(x, y, b, c)
    PROVE  Tile(Bare(y)) /\ Marked(y, taken)
<1>0. /\ DOMAIN y = DOMAIN x \ {c} /\ y[b] = x[b] + x[c]
      /\ \A d \in DOMAIN x \ {c} : d # b => y[d] = x[d]
  BY DEF Merged
<1>1. Top \in Nat \ {0} /\ heapSIZE_MAX = 2 * Top - 1
  BY Geometry DEF heapSIZE_MAX
<1>2. x[b] \in Nat /\ x[b] < Top /\ x[c] \in Nat /\ x[c] < Top
  BY <1>1 DEF Marked
<1> DEFINE s == Bare(x)
           u == [d \in DOMAIN x \ {c} |-> IF d = b THEN s[b] + s[c] ELSE s[d]]
<1>3. /\ s[b] = x[b] /\ s[c] = x[c] /\ DOMAIN s = DOMAIN x
      /\ \A d \in DOMAIN x : d \notin taken => s[d] = x[d]
  BY <1>1, <1>2, BareIs DEF Marked
<1>4. b \in Nat /\ s[b] > 0
  BY <1>3, BlockInRegion
<1>5. b # c
  BY <1>2, <1>3, <1>4
<1>6. /\ DOMAIN u = DOMAIN s \ {c} /\ u[b] = s[b] + s[c]
      /\ \A d \in DOMAIN s \ {c} : d # b => u[d] = s[d]
  BY <1>3, <1>5
<1>7. Tile(u)
  <2>1. b \in DOMAIN s /\ c \in DOMAIN s /\ b + s[b] = c /\ Tile(s)
    BY <1>3
  <2> HIDE DEF s, u
  <2> QED
    BY <1>6, <2>1, MergeTiles
<1>8. u[b] \in Nat /\ u[b] < Top
  <2>1. b \in DOMAIN u
    BY <1>5, <1>6, <1>3
  <2> HIDE DEF u, s
  <2> QED
    BY <1>1, <1>7, <2>1, BlockInRegion
<1>9. y[b] = u[b] /\ ~(y[b] >= Top)
  BY <1>0, <1>1, <1>3, <1>6, <1>8
<1>10. Bare(y) = u
  <2>1. ASSUME NEW d \in DOMAIN y PROVE Bare(y)[d] = u[d]
    BY <1>0, <1>3, <1>6, <1>9, <2>1, BareIs
  <2> QED
    BY <1>0, <1>3, <1>6, <2>1 DEF Bare
<1>11. Marked(y, taken)
  BY <1>0, <1>1, <1>8, <1>9 DEF Marked
<1> QED
  BY <1>7, <1>10, <1>11

\* A block on its way takes up the next one in the list, which ends where it
\* begins.
LEMMA AbsorbNext ==
    ASSUME HeapsAssumption, RegionsFit, Heap # 2, NEW list, NEW x, NEW taken, NEW leaving,
           NEW b \in leaving, Sound(list, x, taken, leaving),
           NEW p \in 1 .. Len(list), NEW c, list[p] = c, b + x[b] = c, c # pxEnd,
           NEW y, Merged(x, y, b, c)
    PROVE  Sound(RemoveAt(list, p), y, taken, leaving)
<1> DEFINE new == RemoveAt(list, p)
<1>1. /\ list \in Seq(Nat) /\ list # <<>> /\ Distinct(list) /\ list[Len(list)] = pxEnd
      /\ Len(list) \in Nat
      /\ DOMAIN x = ToSet(list) \cup taken \cup leaving
      /\ \A d \in taken : ~Occurs(list, d) /\ d \notin leaving /\ d \notin Ends
      /\ \A d \in leaving : ~Occurs(list, d) /\ d \notin Ends
      /\ Marked(x, taken) /\ Tile(Bare(x))
  BY DEF Sound
<1>2. Occurs(list, c)
  BY <1>1, OccursByLength
<1>3. /\ \A d : d \in ToSet(list) <=> Occurs(list, d)
      /\ \A d : d \in ToSet(new) <=> Occurs(new, d)
  BY DEF ToSet, Occurs
<1>4. /\ new \in Seq(Nat) /\ Len(new) = Len(list) - 1 /\ Distinct(new)
      /\ \A d : Occurs(new, d) <=> d # c /\ Occurs(list, d)
      /\ \A j \in 1 .. Len(list) - 1 : new[j] = IF j < p THEN list[j] ELSE list[j + 1]
  <2>1. PICK S : S = Nat /\ list \in Seq(S)
    BY <1>1
  <2>2. /\ new \in Seq(S) /\ Len(new) = Len(list) - 1
        /\ \A j \in 1 .. Len(list) - 1 : new[j] = IF j < p THEN list[j] ELSE list[j + 1]
    BY <2>1, RemoveAtProperties
  <2>3. Distinct(new) /\ \A d : Occurs(new, d) <=> d # c /\ Occurs(list, d)
    BY <1>1, <2>1, RemoveAtOccurs
  <2> QED
    BY <2>1, <2>2, <2>3
<1>5. new # <<>> /\ new[Len(new)] = pxEnd
  <2>0. p # Len(list)
    BY <1>1
  <2>1. Len(new) \in 1 .. Len(list) - 1 /\ ~(Len(new) < p) /\ Len(new) + 1 = Len(list)
    BY <1>1, <2>0, <1>4
  <2>2. new[Len(new)] = list[Len(list)]
    BY <1>4, <2>1
  <2> QED
    BY <1>1, <1>4, <2>1, <2>2
<1> HIDE DEF new
<1>6. c \in DOMAIN x /\ c \notin taken /\ c \notin leaving /\ b \in DOMAIN x /\ b \notin taken /\ b \notin Ends
  BY <1>1, <1>2, <1>3
<1>7. Tile(Bare(y)) /\ Marked(y, taken)
  <2>1. Tile(Bare(x)) /\ Marked(x, taken)
    BY <1>1
  <2> QED
    BY <1>6, <2>1, MergeSizes
<1>8. DOMAIN y = ToSet(new) \cup taken \cup leaving
  BY <1>1, <1>2, <1>3, <1>4, <1>6 DEF Merged
<1>9. /\ \A d \in taken : ~Occurs(new, d) /\ d \notin leaving /\ d \notin Ends
      /\ \A d \in leaving : ~Occurs(new, d) /\ d \notin Ends
  BY <1>1, <1>4
<1>10. Sound(new, y, taken, leaving)
  BY <1>4, <1>5, <1>7, <1>8, <1>9 DEF Sound
<1> QED
  BY <1>10 DEF new

\* A block of the list takes up one on its way, which begins where it ends.
LEMMA AbsorbInto ==
    ASSUME HeapsAssumption, RegionsFit, Heap # 2, NEW list, NEW x, NEW taken, NEW leaving,
           NEW b, b \notin leaving, Sound(list, x, taken, leaving \cup {b}),
           NEW p \in 1 .. Len(list), NEW a, list[p] = a, a + x[a] = b,
           NEW y, Merged(x, y, a, b)
    PROVE  Sound(list, y, taken, leaving)
<1>1. /\ list \in Seq(Nat) /\ list # <<>> /\ Distinct(list) /\ list[Len(list)] = pxEnd
      /\ Len(list) \in Nat
      /\ DOMAIN x = ToSet(list) \cup taken \cup (leaving \cup {b})
      /\ \A d \in taken : ~Occurs(list, d) /\ d \notin leaving \cup {b} /\ d \notin Ends
      /\ \A d \in leaving \cup {b} : ~Occurs(list, d) /\ d \notin Ends
      /\ Marked(x, taken) /\ Tile(Bare(x))
  BY DEF Sound
<1>2. Occurs(list, a) /\ a \in Nat
  BY <1>1, OccursByLength
<1>3. \A d : d \in ToSet(list) <=> Occurs(list, d)
  BY DEF ToSet, Occurs
<1>4. DOMAIN y = DOMAIN x \ {b}
  BY DEF Merged
<1>5. a \in DOMAIN x /\ a \notin taken /\ b \in DOMAIN x /\ b \notin taken /\ b \notin Ends
  BY <1>1, <1>2, <1>3
<1>6. a \notin Ends
  <2>1. SUFFICES ASSUME a \in Ends PROVE FALSE
    OBVIOUS
  <2>2. Bare(x)[a] = 0
    BY <1>1, <1>5, <2>1, BareIs DEF Tile
  <2>3. ~(x[a] >= Top) /\ x[a] \in 0 .. heapSIZE_MAX
    BY <1>1, <1>5 DEF Marked
  <2>4. x[a] = 0
    BY <1>5, <2>2, <2>3, BareIs
  <2> QED
    BY <1>2, <1>4, <1>5, <2>1, <2>4
<1>7. b # pxEnd
  BY <1>5, StartsAndEnds
<1>8. Tile(Bare(y)) /\ Marked(y, taken)
  <2>1. Tile(Bare(x)) /\ Marked(x, taken)
    BY <1>1
  <2> QED
    BY <1>4, <1>5, <1>6, <1>7, <2>1, MergeSizes
<1>9. DOMAIN y = ToSet(list) \cup taken \cup leaving
  BY <1>1, <1>3, <1>4
<1>10. /\ \A d \in taken : ~Occurs(list, d) /\ d \notin leaving /\ d \notin Ends
       /\ \A d \in leaving : ~Occurs(list, d) /\ d \notin Ends
  BY <1>1
<1> QED
  BY <1>1, <1>8, <1>9, <1>10 DEF Sound

-----------------------------------------------------------------------------
(* The operations of the allocator on the list and the headers.            *)

\* A record of a heap that is in order.
Heaped(h, taken, leaving) ==
    {"list", "xBlockSize"} \subseteq DOMAIN h /\ Sound(h.list, h.xBlockSize, taken, leaving)

\* The first of the positions of a sequence where something holds.
LEMMA FirstOf ==
    ASSUME NEW n \in Nat, NEW I \in SUBSET (1 .. n),
           NEW p, I = {} => p = 0, I # {} => p = Min(I)
    PROVE  /\ p \in 0 .. n /\ (p = 0 <=> I = {})
           /\ p # 0 => p \in I /\ \A j \in I : p <= j
<1>1. CASE I = {}
  BY <1>1
<1>2. CASE I # {}
  <2>1. \E q \in I : \A j \in I : q <= j
    BY <1>2, FirstPosition
  <2>2. Min(I) \in I /\ \A j \in I : Min(I) <= j
    BY <2>1 DEF Min
  <2>3. p \in I /\ \A j \in I : p <= j
    BY <1>2, <2>2
  <2>4. p \in 1 .. n
    BY <2>3
  <2> QED
    BY <1>2, <2>3, <2>4
<1> QED
  BY <1>1, <1>2

\* Sizes that are the same at every block are as good.
LEMMA SameSizes ==
    ASSUME NEW list, NEW x, NEW taken, NEW leaving, Sound(list, x, taken, leaving),
           NEW y, DOMAIN y = DOMAIN x, \A c \in DOMAIN x : y[c] = x[c]
    PROVE  Sound(list, y, taken, leaving)
<1>1. Bare(y) = Bare(x)
  BY DEF Bare
<1>2. Marked(x, taken) => Marked(y, taken)
  BY DEF Marked
<1> QED
  BY <1>1, <1>2 DEF Sound

\* The place of a block by its size.
SizePlace(h, b) == SelectInSeq(h.list, LAMBDA c : h.xBlockSize[c] >= h.xBlockSize[b])

\* It is that of the first block that is as large: the end of the list is.
LEMMA SizePlaceIs ==
    ASSUME HeapsAssumption, RegionsFit, Heap = 2, NEW h, NEW taken, NEW leaving, NEW b \in leaving,
           Heaped(h, taken, leaving)
    PROVE  /\ SizePlace(h, b) \in 1 .. Len(h.list)
           /\ h.xBlockSize[h.list[SizePlace(h, b)]] >= h.xBlockSize[b]
           /\ \A j \in 1 .. Len(h.list) :
                  h.xBlockSize[h.list[j]] >= h.xBlockSize[b] => SizePlace(h, b) <= j
<1> DEFINE list == h.list
           x == h.xBlockSize
           p == SizePlace(h, b)
<1>1. /\ list \in Seq(Nat) /\ Len(list) \in 1 .. Len(list) /\ list[Len(list)] = pxEnd
      /\ Tile(Bare(x)) /\ Marked(x, taken) /\ pxEnd \notin taken
      /\ b \in DOMAIN x /\ b \notin taken /\ b \notin Ends
  <2>1. /\ list \in Seq(Nat) /\ list # <<>> /\ list[Len(list)] = pxEnd
        /\ Tile(Bare(x)) /\ Marked(x, taken) /\ b \in DOMAIN x
        /\ \A c \in taken : c \notin leaving /\ c \notin Ends
        /\ b \notin Ends
    BY DEF Heaped, Sound
  <2>2. Len(list) \in 1 .. Len(list)
    BY <2>1, EmptySeq
  <2> QED
    BY <2>1, <2>2, StartsAndEnds
<1>2. x[pxEnd] >= x[b]
  <2>1. pxEnd \in DOMAIN x /\ pxEnd \in Ends
    BY <1>1, BareIs, StartsAndEnds DEF Tile
  <2>2. Bare(x)[pxEnd] = SizeOfRegion(1)
    BY <1>1, <2>1, BareIs DEF Tile
  <2>3. PICK i \in 1 .. Len(Regions) : Bare(x)[b] <= SizeOfRegion(i)
    <3>1. b \in DOMAIN Bare(x)
      BY <1>1, BareIs
    <3> QED
      BY <1>1, <3>1, BlockInRegion
  <2>4. i = 1
    <3>1. Len(Regions) = 1
      BY Geometry
    <3> QED
      BY <2>3, <3>1
  <2>5. Bare(x)[b] = x[b] /\ Bare(x)[pxEnd] = x[pxEnd] /\ x[b] \in Nat /\ x[pxEnd] \in Nat
    <3>1. ~(x[b] >= Top) /\ ~(x[pxEnd] >= Top)
      BY <1>1, <2>1 DEF Marked
    <3>2. x[b] \in 0 .. heapSIZE_MAX /\ x[pxEnd] \in 0 .. heapSIZE_MAX
      BY <1>1, <2>1 DEF Marked
    <3> QED
      BY <1>1, <2>1, <3>1, <3>2, BareIs
  <2> QED
    BY <2>2, <2>3, <2>4, <2>5
<1> DEFINE I == {j \in 1 .. Len(list) : x[list[j]] >= x[b]}
<1>3. (I = {} => p = 0) /\ (I # {} => p = Min(I))
  BY DEF SizePlace, SelectInSeq
<1>4. I \in SUBSET (1 .. Len(list)) /\ Len(list) \in I /\ Len(list) \in Nat
  BY <1>1, <1>2
<1>5. \A j \in 1 .. Len(list) : j \in I <=> x[list[j]] >= x[b]
  OBVIOUS
<1> HIDE DEF I, p, list, x
<1>6. p \in 0 .. Len(list) /\ p # 0 /\ p \in I /\ \A j \in I : p <= j
  BY <1>3, <1>4, FirstOf
<1>7. p \in 1 .. Len(list)
  BY <1>4, <1>6
<1> QED
  BY <1>5, <1>6, <1>7 DEF p, list, x

\* What prvInsertBlockIntoFreeList of heap_2 changes.
LEMMA InsertBySizeIs ==
    ASSUME NEW h, {"list", "xBlockSize"} \subseteq DOMAIN h, NEW b
    PROVE  /\ InsertBySize(h, b).list = InsertAt(h.list, SizePlace(h, b), b)
           /\ InsertBySize(h, b).xBlockSize = h.xBlockSize
           /\ DOMAIN InsertBySize(h, b) = DOMAIN h
  BY DEF InsertBySize, SizePlace

\* prvInsertBlockIntoFreeList of heap_2.
LEMMA InsertBySizeKeeps ==
    ASSUME HeapsAssumption, RegionsFit, Heap = 2, NEW h, NEW taken, NEW leaving, NEW b,
           b \notin leaving, Heaped(h, taken, leaving \cup {b})
    PROVE  /\ Heaped(InsertBySize(h, b), taken, leaving)
           /\ InsertBySize(h, b).xBlockSize = h.xBlockSize
<1> DEFINE list == h.list
           p == SizePlace(h, b)
<1>1. Len(list) \in Nat
  <2>1. list \in Seq(Nat)
    BY DEF Heaped, Sound
  <2> QED
    BY <2>1, LenProperties
<1>2. p \in 1 .. Len(list) + 1 /\ p <= Len(list)
  <2>1. PICK all : all = leaving \cup {b}
    OBVIOUS
  <2>2. p \in 1 .. Len(list)
    BY <2>1, SizePlaceIs
  <2> QED
    BY <1>1, <2>2
<1> HIDE DEF p
<1>3. Sound(InsertAt(list, p, b), h.xBlockSize, taken, leaving)
  BY <1>2, PutIn DEF Heaped
<1>4. /\ InsertBySize(h, b).list = InsertAt(list, p, b) /\ InsertBySize(h, b).xBlockSize = h.xBlockSize
      /\ DOMAIN InsertBySize(h, b) = DOMAIN h
  BY InsertBySizeIs DEF Heaped, p
<1> QED
  BY <1>3, <1>4 DEF Heaped

\* The place of a block by its address: some block of the list is behind it.
LEMMA LastBelowIs ==
    ASSUME HeapsAssumption, NEW h, NEW taken, NEW leaving, NEW b \in leaving,
           Heaped(h, taken, leaving)
    PROVE  /\ LastBelow(h, b) \in Nat /\ LastBelow(h, b) + 1 \in 1 .. Len(h.list)
           /\ h.list[LastBelow(h, b) + 1] > b
           /\ \A j \in 1 .. Len(h.list) : h.list[j] > b => LastBelow(h, b) + 1 <= j
<1> DEFINE list == h.list
           p == SelectInSeq(list, LAMBDA c : c > b)
           I == {j \in 1 .. Len(list) : list[j] > b}
<1>1. /\ list \in Seq(Nat) /\ Len(list) \in 1 .. Len(list) /\ list[Len(list)] = pxEnd
      /\ Len(list) \in Nat /\ b \in Nat /\ b < pxEnd
  <2>1. /\ list \in Seq(Nat) /\ list # <<>> /\ list[Len(list)] = pxEnd
        /\ Tile(Bare(h.xBlockSize)) /\ b \in DOMAIN h.xBlockSize /\ b \notin Ends
    BY DEF Heaped, Sound
  <2>2. Len(list) \in 1 .. Len(list) /\ Len(list) \in Nat
    BY <2>1, EmptySeq
  <2>3. b \in DOMAIN Bare(h.xBlockSize)
    BY <2>1, BareIs
  <2>4. PICK i \in 1 .. Len(Regions) : From(i) <= b /\ b < To(i)
    BY <2>1, <2>3, Geometry DEF Tile
  <2>5. b \in Nat /\ To(i) \in Nat /\ To(i) <= pxEnd /\ pxEnd \in Nat
    BY <2>1, <2>3, <2>4, Geometry, StartsAndEnds DEF Tile
  <2>6. b < pxEnd
    BY <2>4, <2>5
  <2> QED
    BY <2>1, <2>2, <2>5, <2>6
<1>2. LastBelow(h, b) = p - 1
  BY DEF LastBelow
<1>3. (I = {} => p = 0) /\ (I # {} => p = Min(I))
  BY DEF SelectInSeq
<1>4. I \in SUBSET (1 .. Len(list)) /\ Len(list) \in I
  BY <1>1, StartsAndEnds
<1>5. \A j \in 1 .. Len(list) : j \in I <=> list[j] > b
  OBVIOUS
<1> HIDE DEF I, p, list
<1>6. p \in 0 .. Len(list) /\ p # 0 /\ p \in I /\ \A j \in I : p <= j
  BY <1>1, <1>3, <1>4, FirstOf
<1>7. p - 1 \in Nat /\ (p - 1) + 1 = p /\ p \in 1 .. Len(list)
  BY <1>1, <1>6
<1>8. list[p] > b /\ \A j \in 1 .. Len(list) : list[j] > b => p <= j
  BY <1>5, <1>6, <1>7
<1> QED
  BY <1>2, <1>7, <1>8 DEF list

\* What comes back to heap_4 or heap_5 joins the block before it, the one after
\* it, both or none.
LEMMA JoinedKeeps ==
    ASSUME HeapsAssumption, RegionsFit, Heap # 2, NEW h, NEW taken, NEW leaving, NEW b,
           b \notin leaving, Heaped(h, taken, leaving \cup {b}),
           NEW i \in Nat, i + 1 \in 1 .. Len(h.list),
           NEW before \in BOOLEAN, before => Touches(h, i, b),
           NEW after \in BOOLEAN, after => Reaches(h, i, b)
    PROVE  /\ Heaped(Joined(h, i, b, before, after), taken, leaving)
           /\ \A c \in taken \cup leaving :
                  Joined(h, i, b, before, after).xBlockSize[c] = h.xBlockSize[c]
<1> DEFINE list == h.list
           x == h.xBlockSize
           a == list[i]
           c == list[i + 1]
           gone == (IF before THEN {b} ELSE {}) \cup (IF after THEN {c} ELSE {})
           into == IF before THEN a ELSE b
           size == x[b] + (IF before THEN x[a] ELSE 0) + (IF after THEN x[c] ELSE 0)
           others == IF after THEN RemoveAt(list, i + 1) ELSE list
           new == IF before THEN others ELSE InsertAt(others, i + 1, b)
           y == [d \in DOMAIN x \ gone |-> IF d = into THEN size ELSE x[d]]
           H == Joined(h, i, b, before, after)
<1>1. /\ list \in Seq(Nat) /\ Len(list) \in Nat /\ list[Len(list)] = pxEnd /\ Distinct(list)
      /\ DOMAIN x = ToSet(list) \cup taken \cup (leaving \cup {b})
      /\ \A d \in taken : ~Occurs(list, d) /\ d # b
      /\ \A d \in leaving \cup {b} : ~Occurs(list, d)
      /\ Marked(x, taken) /\ Tile(Bare(x))
      /\ Sound(list, x, taken, leaving \cup {b})
  BY DEF Heaped, Sound
<1>2. \A d \in DOMAIN x : x[d] \in Nat /\ d \in Nat
  <2>1. heapSIZE_MAX \in Nat
    BY Geometry DEF heapSIZE_MAX
  <2>2. \A d \in DOMAIN x : x[d] \in Nat
    BY <1>1, <2>1 DEF Marked
  <2> QED
    BY <1>1, <2>2, BareIs DEF Tile
<1>3. /\ b \in DOMAIN x
      /\ c \in DOMAIN x /\ Occurs(list, c) /\ c # b
      /\ before => i \in 1 .. Len(list) /\ a \in DOMAIN x /\ Occurs(list, a) /\ a # b /\ a # c
                   /\ a + x[a] = b
      /\ after => b + x[b] = c /\ c # pxEnd
  <2>1. Occurs(list, c) /\ c \in DOMAIN x /\ c # b
    BY <1>1, OccursByLength DEF ToSet
  <2>2. before => i > 0 /\ a + x[a] = b
    BY DEF Touches
  <2>3. before => i \in 1 .. Len(list)
    BY <1>1, <2>2
  <2>4. before => Occurs(list, a) /\ a \in DOMAIN x /\ a # b /\ a # c
    BY <1>1, <2>3, OccursByLength DEF ToSet
  <2>5. after => b + x[b] = c /\ c # pxEnd
    BY DEF Reaches
  <2> QED
    BY <1>1, <2>1, <2>2, <2>3, <2>4, <2>5
<1>4. /\ H.list = new /\ H.xBlockSize = y /\ {"list", "xBlockSize"} \subseteq DOMAIN H
  BY DEF Heaped, Joined
<1>5. \A d \in taken \cup leaving : d \in DOMAIN y /\ y[d] = x[d]
  BY <1>1, <1>3
<1>6. CASE ~before /\ ~after
  <2>1. new = InsertAt(list, i + 1, b) /\ DOMAIN y = DOMAIN x /\ \A d \in DOMAIN x : y[d] = x[d]
    BY <1>2, <1>3, <1>6
  <2> HIDE DEF y, list, x
  <2>2. i + 1 \in 1 .. Len(list) + 1 /\ i + 1 <= Len(list)
    BY <1>1 DEF list
  <2>3. Sound(InsertAt(list, i + 1, b), x, taken, leaving)
    BY <1>1, <2>2, PutIn
  <2>4. Sound(InsertAt(list, i + 1, b), y, taken, leaving)
    BY <2>1, <2>3, SameSizes
  <2> QED
    BY <1>4, <1>5, <2>1, <2>4 DEF Heaped, list, x
<1>7. CASE before /\ ~after
  <2>1. new = list /\ Merged(x, y, a, b)
    <3>1. new = list /\ gone = {b} /\ into = a /\ size = x[b] + x[a] + 0
      BY <1>7
    <3>2. /\ a \in DOMAIN x /\ a # b /\ x[a] \in Nat /\ x[b] \in Nat
      BY <1>2, <1>3, <1>7
    <3>3. size = x[a] + x[b]
      BY <3>1, <3>2
    <3> HIDE DEF size, into, gone, new, list, a, x
    <3> QED
      BY <3>1, <3>2, <3>3 DEF Merged
  <2>2. Sound(list, y, taken, leaving)
    <3>1. list[i] = a
      OBVIOUS
    <3> HIDE DEF y, list, x, a
    <3> QED
      BY <1>1, <1>3, <1>7, <2>1, <3>1, AbsorbInto
  <2> HIDE DEF y, list, x
  <2> QED
    BY <1>4, <1>5, <2>1, <2>2 DEF Heaped, list, x
<1>8. CASE ~before /\ after
  <2>1. /\ new = InsertAt(RemoveAt(list, i + 1), i + 1, b)
        /\ Merged(x, y, b, c)
    BY <1>2, <1>3, <1>8 DEF Merged
  <2> HIDE DEF y, list, x, c
  <2>2. Sound(RemoveAt(list, i + 1), y, taken, leaving \cup {b})
    <3>1. i + 1 \in 1 .. Len(list) /\ list[i + 1] = c
      BY DEF c, list
    <3>2. b \in leaving \cup {b}
      OBVIOUS
    <3> QED
      BY <1>1, <1>3, <1>8, <2>1, <3>1, <3>2, AbsorbNext
  <2>3. i + 1 \in 1 .. Len(RemoveAt(list, i + 1)) + 1 /\ i + 1 <= Len(RemoveAt(list, i + 1))
    <3>1. i + 1 # Len(list) /\ i + 1 \in 1 .. Len(list)
      BY <1>1, <1>3, <1>8 DEF c, list
    <3>2. Len(RemoveAt(list, i + 1)) = Len(list) - 1
      BY <1>1, <3>1, RemoveAtProperties
    <3> QED
      BY <1>1, <3>1, <3>2
  <2>4. Sound(InsertAt(RemoveAt(list, i + 1), i + 1, b), y, taken, leaving)
    BY <2>2, <2>3, PutIn
  <2> QED
    BY <1>4, <1>5, <2>1, <2>4 DEF Heaped, list, x
<1>9. CASE before /\ after
  <2> DEFINE z == [d \in DOMAIN x \ {c} |-> IF d = b THEN x[b] + x[c] ELSE x[d]]
  <2>1. /\ new = RemoveAt(list, i + 1)
        /\ Merged(x, z, b, c) /\ z[a] = x[a] /\ z[b] = x[b] + x[c]
    BY <1>2, <1>3, <1>9 DEF Merged
  <2>2. Merged(z, y, a, b)
    <3>1. /\ DOMAIN y = DOMAIN x \ {b, c} /\ y[a] = x[b] + x[a] + x[c]
          /\ \A d \in DOMAIN x \ {b, c} : d # a => y[d] = x[d]
      BY <1>3, <1>9
    <3>2. /\ DOMAIN z = DOMAIN x \ {c} /\ \A d \in DOMAIN x \ {b, c} : z[d] = x[d]
      OBVIOUS
    <3>3. x[a] \in Nat /\ x[b] \in Nat /\ x[c] \in Nat
      BY <1>2, <1>3, <1>9
    <3> HIDE DEF y, z
    <3> QED
      BY <1>3, <1>9, <2>1, <3>1, <3>2, <3>3 DEF Merged
  <2> HIDE DEF y, z, list, x, c, a
  <2>3. Sound(RemoveAt(list, i + 1), z, taken, leaving \cup {b})
    <3>1. i + 1 \in 1 .. Len(list) /\ list[i + 1] = c
      BY DEF c, list
    <3>2. b \in leaving \cup {b}
      OBVIOUS
    <3> QED
      BY <1>1, <1>3, <1>9, <2>1, <3>1, <3>2, AbsorbNext
  <2>4. i \in 1 .. Len(RemoveAt(list, i + 1)) /\ RemoveAt(list, i + 1)[i] = a
    <3>1. i + 1 \in 1 .. Len(list) /\ i \in 1 .. Len(list) - 1 /\ i < i + 1
      BY <1>1, <1>3, <1>9 DEF list
    <3>2. /\ Len(RemoveAt(list, i + 1)) = Len(list) - 1
          /\ RemoveAt(list, i + 1)[i] = list[i]
      BY <1>1, <3>1, RemoveAtProperties
    <3> QED
      BY <3>1, <3>2 DEF a, list
  <2>5. Sound(RemoveAt(list, i + 1), y, taken, leaving)
    BY <1>3, <1>9, <2>1, <2>3, <2>4, <2>2, AbsorbInto
  <2> QED
    BY <1>4, <1>5, <2>1, <2>5 DEF Heaped, list, x
<1> QED
  BY <1>6, <1>7, <1>8, <1>9

\* prvInsertBlockIntoFreeList brings a block back, whichever heap it is, and
\* touches no block of anybody.
LEMMA InsertKeeps ==
    ASSUME HeapsAssumption, RegionsFit, NEW h, NEW taken, NEW leaving, NEW b,
           b \notin leaving, Heaped(h, taken, leaving \cup {b})
    PROVE  /\ Heaped(prvInsertBlockIntoFreeList(h, b), taken, leaving)
           /\ \A c \in taken \cup leaving :
                  prvInsertBlockIntoFreeList(h, b).xBlockSize[c] = h.xBlockSize[c]
<1>1. CASE Heap = 2
  BY <1>1, InsertBySizeKeeps DEF prvInsertBlockIntoFreeList
<1>2. CASE Heap # 2
  <2> DEFINE i == LastBelow(h, b)
             before == Touches(h, i, b)
             after == Reaches(h, i, b)
  <2>1. i \in Nat /\ i + 1 \in 1 .. Len(h.list)
    <3>1. b \in leaving \cup {b}
      OBVIOUS
    <3> QED
      BY <3>1, LastBelowIs
  <2>2. before \in BOOLEAN /\ after \in BOOLEAN
    BY DEF Touches, Reaches
  <2>3. prvInsertBlockIntoFreeList(h, b) = Joined(h, i, b, before, after)
    BY <1>2 DEF prvInsertBlockIntoFreeList, InsertByAddress
  <2> HIDE DEF i
  <2> QED
    BY <1>2, <2>1, <2>2, <2>3, JoinedKeeps
<1> QED
  BY <1>1, <1>2

\* A block of the list is nobody's.
LEMMA FreeIsNobodys ==
    ASSUME NEW h, NEW taken, NEW leaving, Heaped(h, taken, leaving),
           NEW i \in 1 .. Len(h.list), NEW b, h.list[i] = b
    PROVE  b \notin taken /\ b \notin leaving /\ b \in DOMAIN h.xBlockSize
<1>1. PICK list : list = h.list
  OBVIOUS
<1>2. /\ list \in Seq(Nat) /\ DOMAIN h.xBlockSize = ToSet(list) \cup taken \cup leaving
      /\ \A c \in taken \cup leaving : ~Occurs(list, c)
  BY <1>1 DEF Heaped, Sound
<1>3. Occurs(list, b)
  BY <1>1, <1>2, OccursByLength
<1> QED
  BY <1>2, <1>3 DEF ToSet, Occurs

\* The split of a block of the list: the part of the size asked for is out of
\* the list.
LEMMA SplitKeeps ==
    ASSUME HeapsAssumption, RegionsFit, NEW h, NEW taken, NEW leaving, Heaped(h, taken, leaving),
           NEW i \in 1 .. Len(h.list), NEW b, h.list[i] = b, b \notin Ends,
           NEW size \in Nat, 0 < size, h.xBlockSize[b] >= size,
           NEW s, Split(h, i, size) = s
    PROVE  /\ Heaped(s, taken, leaving \cup {b}) /\ s.xBlockSize[b] >= size
           /\ Alike(h.xBlockSize, s.xBlockSize, taken \cup leaving)
<1> DEFINE list == h.list
           x == h.xBlockSize
           short == RemoveAt(list, i)
           y == Cut(h, b, size)
<1>1. /\ list \in Seq(Nat) /\ Len(list) \in Nat /\ Distinct(list)
      /\ DOMAIN x = ToSet(list) \cup taken \cup leaving
      /\ \A d \in taken \cup leaving : ~Occurs(list, d)
      /\ Marked(x, taken) /\ Tile(Bare(x)) /\ Sound(list, x, taken, leaving)
      /\ {"list", "xBlockSize"} \subseteq DOMAIN h
  BY DEF Heaped, Sound
<1>2. /\ Occurs(list, b) /\ b \in DOMAIN x /\ b \notin taken \cup leaving
      /\ b \in Nat /\ x[b] \in Nat
  <2>1. Occurs(list, b) /\ b \in DOMAIN x /\ b \notin taken \cup leaving
    BY <1>1, OccursByLength DEF ToSet
  <2>2. heapSIZE_MAX \in Nat
    BY Geometry DEF heapSIZE_MAX
  <2> QED
    BY <1>1, <2>1, <2>2, BareIs DEF Marked, Tile
<1>3. Sound(short, x, taken, leaving \cup {b}) /\ i # Len(list) /\ Len(short) = Len(list) - 1
  <2> HIDE DEF x
  <2> QED
    BY <1>1, TakeOut
<1>4. heapMINIMUM_BLOCK_SIZE \in Nat
  BY Geometry DEF heapMINIMUM_BLOCK_SIZE
<1>5. CASE x[b] - size <= heapMINIMUM_BLOCK_SIZE
  <2>1. Split(h, i, size) = [h EXCEPT !.list = short]
    BY <1>5 DEF Split
  <2>2. /\ Split(h, i, size).list = short /\ Split(h, i, size).xBlockSize = x
        /\ DOMAIN Split(h, i, size) = DOMAIN h
    BY <1>1, <2>1
  <2> QED
    BY <1>1, <1>2, <1>3, <2>2 DEF Heaped, Alike
<1>6. CASE ~(x[b] - size <= heapMINIMUM_BLOCK_SIZE)
  <2>1. size < x[b]
    BY <1>2, <1>4, <1>6
  <2>2. /\ DOMAIN y = DOMAIN x \cup {b + size} /\ y[b] = size /\ y[b + size] = x[b] - size
        /\ \A c \in DOMAIN x : c # b => y[c] = x[c] \/ c = b + size
    BY <1>2, <2>1 DEF Cut
  <2>3. b + size \notin DOMAIN x
    <3>1. ~(x[b] >= Top)
      BY <1>1, <1>2 DEF Marked
    <3>2. b \in DOMAIN Bare(x) /\ Bare(x)[b] = x[b] /\ DOMAIN Bare(x) = DOMAIN x
      BY <1>2, <3>1, BareIs
    <3>3. \A c \in DOMAIN x : b < c => b + x[b] <= c
      BY <1>1, <3>2, BlockInRegion
    <3> QED
      BY <1>2, <2>1, <3>3
  <2>4. \A c \in DOMAIN x : c # b => y[c] = x[c]
    BY <2>2, <2>3
  <2>0. PICK d : b + size = d
    OBVIOUS
  <2>5. Sound(short, y, taken, leaving \cup {b} \cup {d})
    <3>1. b \in leaving \cup {b}
      OBVIOUS
    <3>2. CutOff(x, y, b, size)
      BY <2>2, <2>4 DEF CutOff
    <3> HIDE DEF y, x, short
    <3> QED
      BY <1>3, <2>0, <2>1, <3>1, <3>2, CutBlock
  <2>6. /\ b + size \notin leaving \cup {b} /\ b + size \notin taken
        /\ \A c \in taken \cup leaving : y[c] = x[c]
    BY <1>1, <1>2, <2>3, <2>4
  <2>7. CASE Heap = 2
    <3> DEFINE g == [h EXCEPT !.list = short, !.xBlockSize = y]
    <3>1. Split(h, i, size) = InsertBySize(g, b + size)
      BY <1>6, <2>7 DEF Split
    <3>2. g.list = short /\ g.xBlockSize = y /\ DOMAIN g = DOMAIN h
      BY <1>1
    <3> HIDE DEF g
    <3>3. Heaped(g, taken, leaving \cup {b} \cup {d})
      BY <1>1, <2>5, <3>2 DEF Heaped
    <3>4. d \notin leaving \cup {b}
      BY <2>0, <2>6
    <3>5. PICK other : other = leaving \cup {b}
      OBVIOUS
    <3>6. /\ Heaped(InsertBySize(g, d), taken, other)
          /\ InsertBySize(g, d).xBlockSize = g.xBlockSize
      BY <2>7, <3>3, <3>4, <3>5, InsertBySizeKeeps
    <3> HIDE DEF y
    <3> QED
      BY <1>2, <2>0, <2>2, <2>6, <3>1, <3>2, <3>5, <3>6 DEF Alike
  <2>8. CASE Heap # 2
    <3> DEFINE new == ReplaceAt(list, i, b + size)
    <3>1. Split(h, i, size) = [h EXCEPT !.list = new, !.xBlockSize = y]
      BY <1>6, <2>8 DEF Split
    <3>2. /\ Split(h, i, size).list = new /\ Split(h, i, size).xBlockSize = y
          /\ DOMAIN Split(h, i, size) = DOMAIN h
      BY <1>1, <3>1
    <3>3. new = InsertAt(short, i, d)
      <4>1. PICK S : S = Nat /\ list \in Seq(S) /\ d \in S
        BY <1>1, <1>2, <2>0
      <4> QED
        BY <2>0, <4>1, ReplaceIsInsertion
    <3>4. i \in 1 .. Len(short) + 1 /\ i <= Len(short)
      BY <1>1, <1>3
    <3> HIDE DEF short, y, new
    <3>5. Sound(new, y, taken, leaving \cup {b})
      BY <2>0, <2>5, <2>6, <3>3, <3>4, PutIn
    <3> QED
      BY <1>1, <1>2, <2>2, <2>6, <3>2, <3>5 DEF Heaped, Alike
  <2> QED
    BY <2>7, <2>8
<1> QED
  BY <1>5, <1>6

\* pvPortMalloc, once it has found a block: the block leaves the list and is
\* taken, at least as large as it was asked for, and nobody's block is touched.
LEMMA GivenKeeps ==
    ASSUME HeapsAssumption, RegionsFit, NEW h, NEW taken, NEW leaving, Heaped(h, taken, leaving),
           NEW i \in 1 .. Len(h.list), NEW b, h.list[i] = b, b \notin Ends,
           NEW size \in Nat, 0 < size, h.xBlockSize[b] >= size
    PROVE  /\ Heaped(Given(h, i, size), taken \cup {b}, leaving)
           /\ Bare(Given(h, i, size).xBlockSize)[b] >= size
           /\ Alike(Bare(h.xBlockSize), Bare(Given(h, i, size).xBlockSize), taken \cup leaving)
<1>0. PICK s : Split(h, i, size) = s
  OBVIOUS
<1>1. /\ Heaped(s, taken, leaving \cup {b}) /\ s.xBlockSize[b] >= size
      /\ \A c \in taken \cup leaving : s.xBlockSize[c] = h.xBlockSize[c]
      /\ b \notin taken /\ b \notin leaving
  <2>1. /\ Heaped(s, taken, leaving \cup {b}) /\ s.xBlockSize[b] >= size
        /\ Alike(h.xBlockSize, s.xBlockSize, taken \cup leaving)
    BY <1>0, SplitKeeps
  <2> QED
    BY <2>1, FreeIsNobodys DEF Alike
<1>2. /\ {"list", "xBlockSize"} \subseteq DOMAIN s
      /\ Sound(s.list, s.xBlockSize, taken, leaving \cup {b})
      /\ DOMAIN s.xBlockSize = ToSet(s.list) \cup taken \cup (leaving \cup {b})
      /\ Marked(s.xBlockSize, taken)
  BY <1>1 DEF Heaped, Sound
<1>3. b \in DOMAIN s.xBlockSize /\ ~(s.xBlockSize[b] >= Top)
  BY <1>1, <1>2 DEF Marked
<1> DEFINE g == Given(h, i, size)
<1>4. /\ "list" \in DOMAIN g /\ "xBlockSize" \in DOMAIN g /\ g.list = s.list
      /\ g.xBlockSize = [s.xBlockSize EXCEPT ![b] = s.xBlockSize[b] + Top]
  <2>1. PICK free, lowest, count, size_ :
            g = [s EXCEPT !.xBlockSize[b] = size_,
                          !.xFreeBytesRemaining = free,
                          !.xMinimumEverFreeBytesRemaining = lowest,
                          !.xNumberOfSuccessfulAllocations = count]
            /\ size_ = IF s.xBlockSize[b] >= Top THEN s.xBlockSize[b] ELSE s.xBlockSize[b] + Top
    BY <1>0 DEF Given
  <2> HIDE DEF g
  <2> QED
    BY <1>2, <1>3, <2>1
<1>5. /\ DOMAIN g.xBlockSize = DOMAIN s.xBlockSize
      /\ g.xBlockSize[b] = s.xBlockSize[b] + Top
      /\ \A c \in DOMAIN s.xBlockSize : c # b => g.xBlockSize[c] = s.xBlockSize[c]
  BY <1>3, <1>4
<1>6. /\ Sound(s.list, g.xBlockSize, taken \cup {b}, leaving)
      /\ Bare(g.xBlockSize) = Bare(s.xBlockSize)
  <2> HIDE DEF g
  <2>0. PICK list : list = s.list
    OBVIOUS
  <2>1. PICK x : x = s.xBlockSize
    OBVIOUS
  <2>2. PICK y : y = g.xBlockSize
    OBVIOUS
  <2>3. /\ Sound(list, x, taken, leaving \cup {b}) /\ b \notin leaving
        /\ y[b] = x[b] + Top /\ SameBut(x, y, b)
    BY <1>1, <1>2, <1>5, <2>0, <2>1, <2>2 DEF SameBut
  <2>4. Sound(list, y, taken \cup {b}, leaving) /\ Bare(y) = Bare(x)
    BY <2>3, MarkBlock
  <2> QED
    BY <2>0, <2>1, <2>2, <2>4
<1>7. Bare(g.xBlockSize)[b] >= size
  BY <1>1, <1>3, <1>6, BareIs
<1>8. ASSUME NEW c \in taken \cup leaving
      PROVE  Bare(g.xBlockSize)[c] = Bare(h.xBlockSize)[c]
  <2>1. c \in DOMAIN s.xBlockSize /\ s.xBlockSize[c] = h.xBlockSize[c]
    BY <1>1, <1>2
  <2>2. c \in DOMAIN h.xBlockSize
    BY DEF Heaped, Sound
  <2> QED
    BY <1>6, <2>1, <2>2, BareIs
<1> QED
  BY <1>1, <1>4, <1>6, <1>7, <1>8 DEF Heaped, Alike

\* The sizes and the order of the blocks prvHeapInit and vPortDefineHeapRegions
\* make.
LEMMA FirstSizes ==
    ASSUME HeapsAssumption
    PROVE  /\ \A i, j \in 1 .. Len(Regions) : From(i) = From(j) => i = j
           /\ \A i, j \in 1 .. Len(Regions) : To(i) = To(j) => i = j
           /\ \A i, j \in 1 .. Len(Regions) : From(i) # To(j)
           /\ \A i \in 1 .. Len(Regions) :
                  (CHOOSE j \in DOMAIN Regions : FirstBlock(Regions[j]) = From(i)) = i
<1>1. /\ Len(Regions) \in Nat \ {0} /\ DOMAIN Regions = 1 .. Len(Regions) /\ xHeapStructSize \in Nat \ {0}
      /\ \A i \in 1 .. Len(Regions) : From(i) \in Nat \ {0} /\ To(i) \in Nat /\ From(i) < To(i)
      /\ \A i, j \in 1 .. Len(Regions) : i < j => To(i) + xHeapStructSize <= From(j)
  BY Geometry
<1>2. ASSUME NEW i \in 1 .. Len(Regions), NEW j \in 1 .. Len(Regions), i < j
      PROVE  From(i) # From(j) /\ To(i) # To(j) /\ From(i) # To(j) /\ From(j) # To(i)
  <2>1. To(i) + xHeapStructSize <= From(j)
    BY <1>1, <1>2
  <2> QED
    BY <1>1, <2>1
<1>3. ASSUME NEW i \in 1 .. Len(Regions), NEW j \in 1 .. Len(Regions)
      PROVE  /\ From(i) = From(j) => i = j
             /\ To(i) = To(j) => i = j
             /\ From(i) # To(j)
  <2>1. CASE i < j
    BY <1>2, <2>1
  <2>2. CASE j < i
    <3>1. From(j) # From(i) /\ To(j) # To(i) /\ From(j) # To(i) /\ From(i) # To(j)
      BY <1>2, <2>2
    <3> QED
      BY <3>1
  <2>3. CASE i = j
    BY <1>1, <2>3
  <2> QED
    BY <1>1, <2>1, <2>2, <2>3
<1>4. ASSUME NEW i \in 1 .. Len(Regions)
      PROVE  (CHOOSE j \in DOMAIN Regions : FirstBlock(Regions[j]) = From(i)) = i
  <2>1. \A j \in 1 .. Len(Regions) : FirstBlock(Regions[j]) = From(i) <=> j = i
    BY <1>3 DEF From
  <2> QED
    BY <1>1, <2>1
<1> QED
  BY <1>3, <1>4

\* The list of prvHeapInit: the start and the end of every region in turn.
LEMMA FirstList ==
    ASSUME HeapsAssumption
    PROVE  /\ "list" \in DOMAIN prvHeapInit /\ prvHeapInit.list \in Seq(Nat)
           /\ Len(prvHeapInit.list) = 2 * Len(Regions) /\ Distinct(prvHeapInit.list)
           /\ prvHeapInit.list # <<>> /\ prvHeapInit.list[2 * Len(Regions)] = pxEnd
           /\ ToSet(prvHeapInit.list) = Starts \cup Ends
<1>1. /\ Len(Regions) \in Nat \ {0} /\ DOMAIN Regions = 1 .. Len(Regions)
      /\ \A i \in 1 .. Len(Regions) : From(i) \in Nat \ {0} /\ To(i) \in Nat
  BY Geometry
<1>2. PICK n : n = Len(Regions)
  OBVIOUS
<1>3. PICK list : list = [j \in 1 .. 2 * n |-> IF j % 2 = 1 THEN From((j + 1) \div 2) ELSE To(j \div 2)]
  OBVIOUS
<1>4. "list" \in DOMAIN prvHeapInit /\ prvHeapInit.list = list
  BY <1>2, <1>3 DEF prvHeapInit, Sleeping, From, To
<1>5. ASSUME NEW j \in 1 .. 2 * n
      PROVE  /\ j \in Nat
             /\ \E i \in 1 .. n : \/ j = 2 * i - 1 /\ list[j] = From(i)
                                  \/ j = 2 * i /\ list[j] = To(i)
  <2>1. CASE j % 2 = 1
    <3>1. (j + 1) \div 2 \in 1 .. n /\ j = 2 * ((j + 1) \div 2) - 1
      BY <1>1, <1>2, <2>1
    <3> QED
      BY <1>3, <2>1, <3>1
  <2>2. CASE j % 2 # 1
    <3>1. j \div 2 \in 1 .. n /\ j = 2 * (j \div 2)
      BY <1>1, <1>2, <2>2
    <3> QED
      BY <1>3, <2>2, <3>1
  <2> QED
    BY <2>1, <2>2
<1>6. ASSUME NEW i \in 1 .. n
      PROVE  /\ 2 * i - 1 \in 1 .. 2 * n /\ 2 * i \in 1 .. 2 * n
             /\ list[2 * i - 1] = From(i) /\ list[2 * i] = To(i)
  <2>1. 2 * i - 1 \in 1 .. 2 * n /\ 2 * i \in 1 .. 2 * n
    BY <1>1, <1>2
  <2>2. (2 * i - 1) % 2 = 1 /\ ((2 * i - 1) + 1) \div 2 = i /\ (2 * i) % 2 # 1 /\ (2 * i) \div 2 = i
    BY <1>1, <1>2
  <2> QED
    BY <1>3, <2>1, <2>2
<1>7. DOMAIN list = 1 .. 2 * n /\ \A j \in 1 .. 2 * n : list[j] \in Nat
  <2>1. DOMAIN list = 1 .. 2 * n
    BY <1>3
  <2> QED
    BY <1>1, <1>2, <1>5, <2>1
<1>8. list \in Seq(Nat) /\ Len(list) = 2 * n
  <2>1. list \in [1 .. 2 * n -> Nat]
    BY <1>3, <1>7
  <2>2. 2 * n \in Nat
    BY <1>1, <1>2
  <2> QED
    BY <2>1, <2>2, SeqDef, LenProperties
<1>9. Distinct(list)
  <2>1. ASSUME NEW j \in 1 .. 2 * n, NEW k \in 1 .. 2 * n, list[j] = list[k]
        PROVE  j = k
    <3>1. PICK i \in 1 .. n : \/ j = 2 * i - 1 /\ list[j] = From(i)
                              \/ j = 2 * i /\ list[j] = To(i)
      BY <1>5
    <3>2. PICK m \in 1 .. n : \/ k = 2 * m - 1 /\ list[k] = From(m)
                              \/ k = 2 * m /\ list[k] = To(m)
      BY <1>5
    <3>3. /\ From(i) = From(m) => i = m
          /\ To(i) = To(m) => i = m
          /\ From(i) # To(m) /\ From(m) # To(i)
      BY <1>2, FirstSizes
    <3> QED
      BY <2>1, <3>1, <3>2, <3>3
  <2> QED
    BY <1>7, <2>1 DEF Distinct
<1>10. list # <<>> /\ list[2 * n] = pxEnd
  <2>1. n \in 1 .. n /\ 2 * n > 0
    BY <1>1, <1>2
  <2>2. list[2 * n] = To(n)
    BY <1>6, <2>1
  <2>3. Len(<<>>) = 0
    OBVIOUS
  <2> QED
    BY <1>2, <1>8, <2>1, <2>2, <2>3 DEF pxEnd, To
<1>11. ToSet(list) = Starts \cup Ends
  <2>1. ASSUME NEW b \in ToSet(list) PROVE b \in Starts \cup Ends
    <3>1. PICK j \in 1 .. 2 * n : list[j] = b
      BY <1>7 DEF ToSet
    <3> QED
      BY <1>2, <1>5, <3>1, StartsAndEnds
  <2>2. ASSUME NEW b \in Starts \cup Ends PROVE b \in ToSet(list)
    <3>1. PICK i \in 1 .. n : b = From(i) \/ b = To(i)
      BY <1>2, StartsAndEnds
    <3>2. \E j \in DOMAIN list : list[j] = b
      BY <1>6, <1>7, <3>1
    <3> QED
      BY <3>2 DEF ToSet
  <2> QED
    BY <2>1, <2>2
<1> QED
  BY <1>2, <1>4, <1>8, <1>9, <1>10, <1>11

\* prvHeapInit and vPortDefineHeapRegions leave a heap that is in order, with
\* nothing in it that is anybody's.
LEMMA InitKeeps ==
    ASSUME HeapsAssumption, RegionsFit
    PROVE  Heaped(prvHeapInit, {}, {})
<1>1. /\ Len(Regions) \in Nat \ {0} /\ DOMAIN Regions = 1 .. Len(Regions)
      /\ Heap = 2 => Len(Regions) = 1
      /\ Top \in Nat \ {0} /\ xHeapStructSize \in Nat \ {0}
      /\ \A i \in 1 .. Len(Regions) : From(i) \in Nat \ {0} /\ To(i) \in Nat /\ From(i) < To(i)
      /\ \A i, j \in 1 .. Len(Regions) : i < j => To(i) + xHeapStructSize <= From(j)
  BY Geometry
<1>2. PICK x : x = prvHeapInit.xBlockSize
  OBVIOUS
<1>3. PICK list : list = prvHeapInit.list
  OBVIOUS
<1>4. /\ "xBlockSize" \in DOMAIN prvHeapInit
      /\ x = [b \in Starts \cup Ends |->
                 IF b \in Starts
                 THEN SizeOfRegion(CHOOSE i \in DOMAIN Regions : FirstBlock(Regions[i]) = b)
                 ELSE IF Heap = 2 THEN SizeOfRegion(1) ELSE 0]
  BY <1>2 DEF prvHeapInit, Sleeping
<1>5. /\ Starts \subseteq Nat /\ Ends \subseteq Nat /\ Starts \cap Ends = {}
      /\ pxEnd \in Ends /\ \A c \in Ends : c <= pxEnd
      /\ Heap = 2 => Ends = {pxEnd}
      /\ \A b : b \in Starts <=> \E i \in 1 .. Len(Regions) : b = From(i)
      /\ \A b : b \in Ends <=> \E i \in 1 .. Len(Regions) : b = To(i)
  BY StartsAndEnds
<1>6. \A i \in 1 .. Len(Regions) : SizeOfRegion(i) = To(i) - From(i) /\ SizeOfRegion(i) < Top
  BY <1>1 DEF SizeOfRegion, From, To, RegionsFit
<1>7. DOMAIN x = Starts \cup Ends
  BY <1>4
<1>8. ASSUME NEW i \in 1 .. Len(Regions) PROVE x[From(i)] = To(i) - From(i)
  <2>1. From(i) \in Starts
    BY <1>5
  <2>2. x[From(i)] = SizeOfRegion(CHOOSE j \in DOMAIN Regions : FirstBlock(Regions[j]) = From(i))
    BY <1>4, <2>1
  <2> QED
    BY <1>6, <2>2, FirstSizes
<1>9. \A b \in Ends : x[b] = IF Heap = 2 THEN SizeOfRegion(1) ELSE 0
  BY <1>4, <1>5
<1>10. heapSIZE_MAX = 2 * Top - 1
  BY DEF heapSIZE_MAX
<1>11. ASSUME NEW b \in DOMAIN x
       PROVE  x[b] \in Nat /\ x[b] < Top
  <2>1. CASE b \in Starts
    <3>1. PICK i \in 1 .. Len(Regions) : b = From(i)
      BY <1>5, <2>1
    <3> QED
      BY <1>1, <1>6, <1>8, <3>1
  <2>2. CASE b \in Ends
    <3>1. CASE Heap = 2
      <4>1. 1 \in 1 .. Len(Regions)
        BY <1>1
      <4>2. SizeOfRegion(1) \in Nat /\ SizeOfRegion(1) < Top
        BY <1>1, <1>6, <4>1
      <4> QED
        BY <1>9, <2>2, <3>1, <4>2
    <3>2. CASE Heap # 2
      BY <1>1, <1>9, <2>2, <3>2
    <3> QED
      BY <3>1, <3>2
  <2> QED
    BY <1>7, <2>1, <2>2
<1>12. Marked(x, {})
  <2>1. \A b \in DOMAIN x : x[b] \in 0 .. heapSIZE_MAX /\ ~(x[b] >= Top)
    BY <1>1, <1>10, <1>11
  <2> QED
    BY <2>1 DEF Marked
<1>13. DOMAIN Bare(x) = DOMAIN x /\ \A b \in DOMAIN x : Bare(x)[b] = x[b]
  <2>1. \A b \in DOMAIN x : ~(x[b] >= Top)
    BY <1>1, <1>11
  <2> QED
    BY <2>1, BareIs
<1>14. ASSUME NEW b \in DOMAIN x \ Ends
       PROVE  /\ \E i \in DOMAIN Regions : From(i) <= b /\ b < To(i)
              /\ x[b] > 0 /\ b + x[b] \in DOMAIN x \cup Ends
  <2>1. PICK i \in 1 .. Len(Regions) : b = From(i)
    BY <1>5, <1>7
  <2>2. b + x[b] = To(i) /\ x[b] > 0 /\ From(i) <= b /\ b < To(i)
    BY <1>1, <1>8, <2>1
  <2> QED
    BY <1>1, <1>5, <2>2
<1>15. ASSUME NEW b \in DOMAIN x, NEW c \in DOMAIN x \cup Ends, b < c
       PROVE  b + x[b] <= c
  <2>1. CASE b \in Starts
    <3>1. PICK i \in 1 .. Len(Regions) : b = From(i)
      BY <1>5, <2>1
    <3>2. b + x[b] = To(i)
      BY <1>1, <1>8, <3>1
    <3>3. PICK j \in 1 .. Len(Regions) : c = From(j) \/ c = To(j)
      BY <1>5, <1>7
    <3>4. CASE j < i
      <4>1. To(j) + xHeapStructSize <= From(i)
        BY <1>1, <3>4
      <4> QED
        BY <1>1, <1>15, <3>1, <3>3, <4>1
    <3>5. CASE j = i
      BY <1>1, <1>15, <3>1, <3>2, <3>3, <3>5
    <3>6. CASE i < j
      <4>1. To(i) + xHeapStructSize <= From(j)
        BY <1>1, <3>6
      <4> QED
        BY <1>1, <3>2, <3>3, <4>1
    <3> QED
      BY <1>1, <3>4, <3>5, <3>6
  <2>2. CASE b \in Ends
    <3>1. CASE Heap = 2
      <4>1. PICK j \in 1 .. Len(Regions) : c = From(j) \/ c = To(j)
        BY <1>5, <1>7
      <4>2. To(j) \in Ends /\ From(j) < To(j) /\ To(j) \in Nat /\ From(j) \in Nat
        BY <1>1, <1>5
      <4>3. To(j) <= b /\ b \in Nat
        BY <1>5, <2>2, <3>1, <4>2
      <4> QED
        BY <1>15, <4>1, <4>2, <4>3
    <3>2. CASE Heap # 2
      <4>1. x[b] = 0 /\ b \in Nat /\ c \in Nat
        BY <1>5, <1>7, <1>9, <2>2, <3>2
      <4> QED
        BY <1>15, <4>1
    <3> QED
      BY <3>1, <3>2
  <2> QED
    BY <1>7, <2>1, <2>2
<1>16. Tile(Bare(x))
  <2>1. PICK s : s = Bare(x)
    OBVIOUS
  <2>2. DOMAIN s = DOMAIN x /\ \A b \in DOMAIN s : s[b] = x[b]
    BY <1>13, <2>1
  <2>3. DOMAIN s \subseteq Nat /\ \A b \in DOMAIN s : s[b] \in Nat
    BY <1>5, <1>7, <1>11, <2>2
  <2>4. Starts \subseteq DOMAIN s /\ pxEnd \in DOMAIN s
    BY <1>5, <1>7, <2>2
  <2>5. \A b \in DOMAIN s \ Ends : /\ \E i \in DOMAIN Regions : From(i) <= b /\ b < To(i)
                                   /\ s[b] > 0 /\ b + s[b] \in DOMAIN s \cup Ends
    BY <1>14, <2>2
  <2>6. \A b \in DOMAIN s : \A c \in DOMAIN s \cup Ends : b < c => b + s[b] <= c
    BY <1>15, <2>2
  <2>7. \A b \in DOMAIN s \cap Ends : s[b] = IF Heap = 2 THEN SizeOfRegion(1) ELSE 0
    BY <1>9, <2>2
  <2>8. Tile(s)
    BY <2>3, <2>4, <2>5, <2>6, <2>7 DEF Tile
  <2> QED
    BY <2>1, <2>8
<1>17. /\ "list" \in DOMAIN prvHeapInit /\ list \in Seq(Nat) /\ Distinct(list)
       /\ list # <<>> /\ list[Len(list)] = pxEnd /\ ToSet(list) = Starts \cup Ends
  BY <1>3, FirstList
<1>18. Sound(list, x, {}, {})
  BY <1>7, <1>12, <1>16, <1>17 DEF Sound
<1> QED
  BY <1>2, <1>3, <1>4, <1>17, <1>18 DEF Heaped

\* The search of pvPortMalloc stops at a block that is large enough, or at the end.
LEMMA FirstFitFits ==
    ASSUME HeapsAssumption, NEW h, NEW taken, NEW leaving, Heaped(h, taken, leaving),
           NEW size \in Nat, 0 < size
    PROVE  /\ FirstFit(h, size) \in 1 .. Len(h.list)
           /\ h.list[FirstFit(h, size)] # pxEnd =>
                  /\ h.list[FirstFit(h, size)] \notin Ends
                  /\ h.xBlockSize[h.list[FirstFit(h, size)]] >= size
<1> DEFINE list == h.list
           x == h.xBlockSize
           p == SelectInSeq(list, LAMBDA c : x[c] >= size)
           I == {j \in 1 .. Len(list) : x[list[j]] >= size}
<1>1. /\ list \in Seq(Nat) /\ Len(list) \in 1 .. Len(list) /\ list[Len(list)] = pxEnd
      /\ Len(list) \in Nat
  <2>1. list \in Seq(Nat) /\ list # <<>> /\ list[Len(list)] = pxEnd
    BY DEF Heaped, Sound
  <2> QED
    BY <2>1, EmptySeq
<1>2. FirstFit(h, size) = IF p = 0 THEN Len(list) ELSE p
  BY DEF FirstFit
<1>3. (I = {} => p = 0) /\ (I # {} => p = Min(I))
  BY DEF SelectInSeq
<1>4. I \in SUBSET (1 .. Len(list))
  OBVIOUS
<1>5. \A j \in 1 .. Len(list) : j \in I <=> x[list[j]] >= size
  OBVIOUS
<1> HIDE DEF I, p
<1>6. p \in 0 .. Len(list) /\ (p # 0 => p \in I)
  <2> HIDE DEF list, x
  <2> QED
    BY <1>1, <1>3, <1>4, FirstOf
<1>7. CASE p = 0
  BY <1>1, <1>2, <1>7
<1>8. CASE p # 0
  <2>1. p \in 1 .. Len(list) /\ x[list[p]] >= size
    BY <1>4, <1>5, <1>6, <1>8
  <2>2. ASSUME list[p] # pxEnd PROVE list[p] \notin Ends
    <3>1. SUFFICES ASSUME list[p] \in Ends PROVE FALSE
      OBVIOUS
    <3>2. Heap # 2
      BY <2>2, <3>1, StartsAndEnds
    <3>3. list[p] \in DOMAIN x
      BY <1>1, <2>1 DEF Heaped, Sound, ToSet
    <3>4. DOMAIN Bare(x) = DOMAIN x /\ Bare(x)[list[p]] = 0
      BY <3>1, <3>2, <3>3, BareIs DEF Heaped, Sound, Tile
    <3>5. ~(x[list[p]] >= Top)
      <4>1. Occurs(list, list[p])
        BY <1>1, <2>1, OccursByLength
      <4> QED
        BY <3>3, <4>1 DEF Heaped, Sound, Marked
    <3>6. x[list[p]] = 0
      BY <3>3, <3>4, <3>5, BareIs
    <3> QED
      BY <2>1, <3>6
  <2> QED
    BY <1>2, <1>8, <2>1, <2>2
<1> QED
  BY <1>7, <1>8

\* What pvPortMalloc returns: the address behind the header of a block of the
\* list that has room for the bytes and the header.
LEMMA AddressIs ==
    ASSUME HeapsAssumption, NEW h, NEW taken, NEW leaving, Heaped(h, taken, leaving),
           NEW n \in Sizes, NEW size, RequiredSize(n) = size, Address(h, size) # None
    PROVE  /\ FirstFit(h, size) \in 1 .. Len(h.list)
           /\ h.list[FirstFit(h, size)] \in Nat \ Ends
           /\ Address(h, size) = h.list[FirstFit(h, size)] + xHeapStructSize
           /\ h.xBlockSize[h.list[FirstFit(h, size)]] >= size
           /\ size \in Nat /\ 0 < size
           /\ n \in Nat \ {0} /\ n + xHeapStructSize <= size
<1>1. n \in Nat /\ xHeapStructSize \in Nat
  BY DEF HeapsAssumption
<1>2. Suits(h, size) /\ h.list[FirstFit(h, size)] # pxEnd
  BY DEF Address
<1>3. /\ Address(h, size) = h.list[FirstFit(h, size)] + xHeapStructSize
      /\ size # 0
  BY <1>2 DEF Address, Suits
<1>4. n # 0 /\ size = AlignUp(n + xHeapStructSize)
  BY <1>3 DEF RequiredSize
<1>5. size \in Nat /\ 0 < size /\ n + xHeapStructSize <= size
  <2>1. n + xHeapStructSize \in Nat
    BY <1>1
  <2>2. size \in Nat /\ n + xHeapStructSize <= size
    BY <1>4, <2>1, Rounding
  <2> QED
    BY <1>3, <2>2
<1>6. /\ FirstFit(h, size) \in 1 .. Len(h.list)
      /\ h.list[FirstFit(h, size)] \notin Ends
      /\ h.xBlockSize[h.list[FirstFit(h, size)]] >= size
  BY <1>2, <1>5, FirstFitFits
<1>7. h.list[FirstFit(h, size)] \in Nat
  <2>1. h.list \in Seq(Nat)
    BY DEF Heaped, Sound
  <2> QED
    BY <1>6, <2>1, ElementOfSeq
<1> QED
  BY <1>1, <1>3, <1>4, <1>5, <1>6, <1>7

-----------------------------------------------------------------------------
(* The invariant is inductive.                                             *)

\* The application's memory lies in blocks that have room for it.
LiveFits(s) == \A l \in live :
    /\ l = [at |-> l.at, bytes |-> l.bytes]
    /\ l.at \in Nat /\ l.at - xHeapStructSize \in Nat /\ l.bytes \in Nat \ {0}
    /\ l.bytes + xHeapStructSize <= s[l.at - xHeapStructSize]

\* The blocks of different pieces and of different calls are different ones.
Apart ==
    /\ \A k, l \in live : k.at = l.at => k = l
    /\ \A t, u \in Callers :
           call[t].pc = "insert" /\ call[u].pc = "insert" /\ call[t].block = call[u].block => t = u

\* A heap that is in order is the invariant, but for what the calls are in.
LEMMA InvariantParts ==
    ASSUME HeapsAssumption
    PROVE  /\ HeapsInv => /\ DOMAIN call = Callers /\ Apart
                          /\ Initialised => Heaped(heap, Taken, Leaving)
                          /\ ~Initialised => live = {} /\ Leaving = {} /\ Taken = {}
                          /\ LiveFits(Bare(heap.xBlockSize))
           /\ DOMAIN call = Callers /\ Apart /\ Heaped(heap, Taken, Leaving)
                  /\ LiveFits(Bare(heap.xBlockSize))
              => HeapsInv /\ Initialised
<1>1. Heaped(heap, Taken, Leaving) => Initialised
  BY DEF Heaped, Sound, Initialised
<1>2. live = {} => Taken = {}
  BY DEF Taken
<1> QED
  BY <1>1, <1>2 DEF HeapsInv, Heaped, LiveFits, Apart

\* Once prvHeapInit is done, the heap is in order.
LEMMA AwakeHeaped ==
    ASSUME HeapsAssumption, RegionsFit, HeapsInv
    PROVE  /\ Heaped(Awake, Taken, Leaving)
           /\ LiveFits(Bare(Awake.xBlockSize))
<1>1. CASE Initialised
  BY <1>1, InvariantParts DEF Awake
<1>2. CASE ~Initialised
  <2>1. Awake = prvHeapInit /\ live = {} /\ Leaving = {} /\ Taken = {}
    BY <1>2, InvariantParts DEF Awake
  <2> QED
    BY <2>1, InitKeeps DEF LiveFits
<1> QED
  BY <1>1, <1>2

\* The invariant of the next state, from what a step makes of the heap.
LEMMA InvariantNext ==
    ASSUME HeapsAssumption, NEW taken, NEW leaving, Taken' = taken, Leaving' = leaving,
           Heaped(heap', taken, leaving), DOMAIN call' = Callers, Apart',
           LiveFits(Bare(heap.xBlockSize))'
    PROVE  HeapsInv' /\ Initialised'
<1>1. Heaped(heap, Taken, Leaving)'
  BY DEF Heaped, Sound, Marked, Tile, Bare
<1>2. (DOMAIN call = Callers /\ Apart /\ Heaped(heap, Taken, Leaving)
           /\ LiveFits(Bare(heap.xBlockSize)) => HeapsInv /\ Initialised)'
  BY InvariantParts, PTL
<1> QED
  BY <1>1, <1>2

\* pvPortMalloc, refused: the heap may have been initialised.
LEMMA RefusedKeeps ==
    ASSUME HeapsAssumption, RegionsFit, HeapsInv, heap' = Awake, UNCHANGED <<live, call>>
    PROVE  HeapsInv' /\ Initialised'
<1>1. Heaped(heap', Taken, Leaving) /\ LiveFits(Bare(heap'.xBlockSize))
  BY AwakeHeaped
<1>2. DOMAIN call = Callers /\ Apart
  BY InvariantParts
<1>3. Taken' = Taken /\ Leaving' = Leaving
  BY DEF Taken, Leaving
<1>4. (LiveFits(Bare(heap.xBlockSize)))'
  BY <1>1 DEF LiveFits, Bare
<1>5. DOMAIN call' = Callers /\ Apart'
  BY <1>2 DEF Apart
<1> QED
  BY <1>1, <1>3, <1>4, <1>5, InvariantNext

\* pvPortMalloc, given: the block found is the caller's.
LEMMA GivenOut ==
    ASSUME HeapsAssumption, RegionsFit, HeapsInv, NEW n \in Sizes,
           NEW size, RequiredSize(n) = size, NEW at, Address(Awake, size) = at, at # None,
           heap' = Given(Awake, FirstFit(Awake, size), size),
           live' = live \cup {[at |-> at, bytes |-> n]}, call' = call
    PROVE  HeapsInv' /\ Initialised'
<1>1. PICK h : h = Awake
  OBVIOUS
<1>2. Heaped(h, Taken, Leaving) /\ LiveFits(Bare(h.xBlockSize))
  BY <1>1, AwakeHeaped
<1>3. PICK i : i = FirstFit(h, size)
  OBVIOUS
<1>4. PICK b : h.list[i] = b
  OBVIOUS
<1>5. /\ i \in 1 .. Len(h.list) /\ b \in Nat /\ b \notin Ends
      /\ at = b + xHeapStructSize /\ h.xBlockSize[b] >= size
      /\ size \in Nat /\ 0 < size
      /\ n \in Nat \ {0} /\ n + xHeapStructSize <= size
  BY <1>1, <1>2, <1>3, <1>4, AddressIs
<1>6. xHeapStructSize \in Nat
  BY Geometry
<1>7. /\ Heaped(Given(h, i, size), Taken \cup {b}, Leaving)
      /\ Bare(Given(h, i, size).xBlockSize)[b] >= size
      /\ Alike(Bare(h.xBlockSize), Bare(Given(h, i, size).xBlockSize), Taken \cup Leaving)
  BY <1>2, <1>4, <1>5, GivenKeeps
<1>8. heap' = Given(h, i, size)
  BY <1>1, <1>3
<1>9. b \notin Taken
  BY <1>2, <1>4, <1>5, FreeIsNobodys
<1>10. PICK new : new = [at |-> at, bytes |-> n]
  OBVIOUS
<1>11. /\ new.at = at /\ new.bytes = n /\ new = [at |-> new.at, bytes |-> new.bytes]
       /\ new.at - xHeapStructSize = b
  BY <1>5, <1>6, <1>10
<1>12. live' = live \cup {new}
  BY <1>10
<1>13. Taken' = Taken \cup {b} /\ Leaving' = Leaving
  BY <1>11, <1>12 DEF Taken, Leaving
<1>14. DOMAIN call' = Callers /\ Apart'
  <2>1. DOMAIN call = Callers /\ Apart
    BY InvariantParts
  <2>2. \A l \in live : l.at # new.at
    <3>1. \A l \in live : l.at - xHeapStructSize \in Taken
      BY DEF Taken
    <3> QED
      BY <1>9, <1>11, <3>1
  <2> QED
    BY <1>12, <2>1, <2>2 DEF Apart
<1>15. LiveFits(Bare(heap.xBlockSize))'
  <2>1. PICK s : s = Bare(h.xBlockSize)
    OBVIOUS
  <2>2. PICK u : u = Bare(heap'.xBlockSize)
    OBVIOUS
  <2>3. u[b] >= size /\ \A c \in Taken : u[c] = s[c]
    BY <1>7, <1>8, <2>1, <2>2 DEF Alike
  <2>4. ASSUME NEW l \in live
        PROVE  /\ l = [at |-> l.at, bytes |-> l.bytes]
               /\ l.at \in Nat /\ l.at - xHeapStructSize \in Nat /\ l.bytes \in Nat \ {0}
               /\ l.bytes + xHeapStructSize <= u[l.at - xHeapStructSize]
    <3>1. l.at - xHeapStructSize \in Taken
      BY DEF Taken
    <3> QED
      BY <1>2, <2>1, <2>3, <3>1 DEF LiveFits
  <2>5. /\ new = [at |-> new.at, bytes |-> new.bytes]
        /\ new.at \in Nat /\ new.at - xHeapStructSize \in Nat /\ new.bytes \in Nat \ {0}
        /\ new.bytes + xHeapStructSize <= u[new.at - xHeapStructSize]
    <3>1. u[b] \in Int
      <4>1. heap'.xBlockSize = Given(h, i, size).xBlockSize
        BY <1>8
      <4>2. /\ DOMAIN heap'.xBlockSize = DOMAIN u /\ Tile(u)
            /\ b \in DOMAIN heap'.xBlockSize
        BY <1>7, <2>2, <4>1, BareIs DEF Heaped, Sound
      <4> QED
        BY <4>2 DEF Tile
    <3>2. n + xHeapStructSize <= u[b]
      BY <1>5, <1>6, <2>3, <3>1
    <3> QED
      BY <1>5, <1>6, <1>11, <3>2
  <2>6. \A l \in live' :
            /\ l = [at |-> l.at, bytes |-> l.bytes]
            /\ l.at \in Nat /\ l.at - xHeapStructSize \in Nat /\ l.bytes \in Nat \ {0}
            /\ l.bytes + xHeapStructSize <= u[l.at - xHeapStructSize]
    BY <1>12, <2>4, <2>5
  <2> QED
    BY <2>2, <2>6 DEF LiveFits, Bare
<1>16. Heaped(heap', Taken \cup {b}, Leaving)
  BY <1>7, <1>8
<1> QED
  BY <1>13, <1>14, <1>15, <1>16, InvariantNext

\* pvPortMalloc.
LEMMA MallocStep ==
    ASSUME HeapsAssumption, RegionsFit, HeapsInv, NEW t \in Callers, NEW n \in Sizes,
           pvPortMalloc(t, n)
    PROVE  HeapsInv' /\ Initialised'
<1>1. PICK size : RequiredSize(n) = size
  OBVIOUS
<1>2. PICK at : Address(Awake, size) = at
  OBVIOUS
<1>3. /\ heap' = IF at = None THEN Awake ELSE Given(Awake, FirstFit(Awake, size), size)
      /\ live' = live \cup (IF at = None THEN {} ELSE {[at |-> at, bytes |-> n]})
      /\ call' = call
  BY <1>1, <1>2 DEF pvPortMalloc
<1>4. CASE at = None
  <2>1. heap' = Awake /\ live' = live /\ call' = call
    BY <1>3, <1>4
  <2> QED
    BY <2>1, RefusedKeeps
<1>5. CASE at # None
  <2>1. /\ heap' = Given(Awake, FirstFit(Awake, size), size)
        /\ live' = live \cup {[at |-> at, bytes |-> n]} /\ call' = call
    BY <1>3, <1>5
  <2> QED
    BY <1>1, <1>2, <1>5, <2>1, GivenOut
<1> QED
  BY <1>4, <1>5

\* vPortDefineHeapRegions.
LEMMA DefineStep ==
    ASSUME HeapsAssumption, RegionsFit, HeapsInv, NEW t \in Callers, vPortDefineHeapRegions(t)
    PROVE  HeapsInv' /\ Initialised'
<1>1. heap' = Awake /\ UNCHANGED <<live, call>>
  BY DEF vPortDefineHeapRegions, Awake
<1> QED
  BY <1>1, RefusedKeeps

\* A step that leaves the heap and the application's memory alone, and with them
\* the blocks on their way.
LEMMA OtherStep ==
    ASSUME HeapsAssumption, HeapsInv, heap' = heap, live' = live,
           DOMAIN call' = Callers, Leaving' = Leaving, Apart'
    PROVE  HeapsInv'
<1>1. Taken' = Taken
  BY DEF Taken
<1>2. CASE Initialised
  <2>1. Heaped(heap', Taken, Leaving)
    BY <1>2, InvariantParts
  <2>2. LiveFits(Bare(heap.xBlockSize))'
    BY InvariantParts DEF LiveFits, Bare
  <2> QED
    BY <1>1, <2>1, <2>2, InvariantNext
<1>3. CASE ~Initialised
  <2>1. ~Initialised' /\ live' = {} /\ Leaving' = {}
    BY <1>3, InvariantParts DEF Initialised
  <2>2. {"list", "xBlockSize"} \subseteq DOMAIN heap'
    BY DEF HeapsInv
  <2> QED
    BY <2>1, <2>2 DEF HeapsInv, Apart
<1> QED
  BY <1>2, <1>3

\* The calls in which no block is on its way.
LEMMA CallsWithoutBlock ==
    ASSUME HeapsInv, NEW t \in Callers, NEW c, call' = [call EXCEPT ![t] = c],
           call[t].pc # "insert", c.pc # "insert", live' = live
    PROVE  DOMAIN call' = Callers /\ Leaving' = Leaving /\ Apart'
<1>1. DOMAIN call = Callers /\ Apart
  BY DEF HeapsInv, Apart
<1>2. DOMAIN call' = Callers /\ \A u \in Callers : call'[u] = IF u = t THEN c ELSE call[u]
  BY <1>1
<1>3. Leaving' = Leaving
  <2>1. {u \in Callers : call'[u].pc = "insert"} = {u \in Callers : call[u].pc = "insert"}
    BY <1>2
  <2>2. \A u \in {v \in Callers : call[v].pc = "insert"} : call'[u].block = call[u].block
    BY <1>2
  <2> QED
    BY <2>1, <2>2 DEF Leaving
<1>4. Apart'
  BY <1>1, <1>2 DEF Apart
<1> QED
  BY <1>2, <1>3, <1>4

\* vPortGetHeapStats, both its steps.
LEMMA StatsStep ==
    ASSUME HeapsAssumption, HeapsInv, NEW t \in Callers,
           vPortGetHeapStats(t) \/ ReadCounters(t)
    PROVE  HeapsInv'
<1>1. CASE vPortGetHeapStats(t)
  <2>1. PICK blocks, largest :
            call' = [call EXCEPT ![t] = [pc |-> "counters", xNumberOfFreeBlocks |-> blocks,
                                         xSizeOfLargestFreeBlockInBytes |-> largest]]
    BY <1>1 DEF vPortGetHeapStats
  <2>2. PICK c : c = [pc |-> "counters", xNumberOfFreeBlocks |-> blocks,
                      xSizeOfLargestFreeBlockInBytes |-> largest]
    OBVIOUS
  <2>3. call[t].pc # "insert" /\ c.pc # "insert" /\ UNCHANGED <<heap, live>>
    BY <1>1, <2>2 DEF vPortGetHeapStats, Idle
  <2> QED
    BY <2>1, <2>2, <2>3, CallsWithoutBlock, OtherStep
<1>2. CASE ReadCounters(t)
  <2>1. call[t].pc # "insert" /\ Idle.pc # "insert" /\ UNCHANGED <<heap, live>>
        /\ call' = [call EXCEPT ![t] = Idle]
    BY <1>2 DEF ReadCounters, Idle
  <2> QED
    BY <2>1, CallsWithoutBlock, OtherStep
<1> QED
  BY <1>1, <1>2

\* vPortFree, up to vTaskSuspendAll: the block is on its way.
LEMMA FreeStep ==
    ASSUME HeapsAssumption, RegionsFit, HeapsInv, NEW t \in Callers, NEW l \in live, vPortFree(t, l)
    PROVE  HeapsInv' /\ Initialised'
<1>1. PICK b : b = l.at - xHeapStructSize
  OBVIOUS
<1>2. b \in Taken /\ Initialised
  BY <1>1, InvariantParts DEF Taken
<1>3. Heaped(heap, Taken, Leaving) /\ LiveFits(Bare(heap.xBlockSize)) /\ Apart /\ DOMAIN call = Callers
  BY <1>2, InvariantParts
<1>4. /\ b \in DOMAIN heap.xBlockSize /\ b \notin Leaving
      /\ heap.xBlockSize[b] >= Top /\ heap.xBlockSize[b] \in 0 .. heapSIZE_MAX
  BY <1>2, <1>3 DEF Heaped, Sound, Marked
<1>5. heap.xBlockSize[b] % Top = heap.xBlockSize[b] - Top
  <2>1. Top \in Nat \ {0} /\ heapSIZE_MAX = 2 * Top - 1
    BY Geometry DEF heapSIZE_MAX
  <2>2. PICK z : z = heap.xBlockSize[b]
    OBVIOUS
  <2>3. z \in Int /\ z >= Top /\ z - Top < Top
    BY <1>4, <2>1, <2>2
  <2>4. z % Top = z - Top
    BY <2>1, <2>3
  <2> QED
    BY <2>2, <2>4
<1>6. /\ call[t].pc # "insert"
      /\ heap' = [heap EXCEPT !.xBlockSize[b] = heap.xBlockSize[b] - Top]
      /\ call' = [call EXCEPT ![t] = [pc |-> "insert", block |-> b]]
      /\ live' = live \ {l}
  <2>1. /\ call[t].pc # "insert" /\ live' = live \ {l}
        /\ heap' = [heap EXCEPT !.xBlockSize[b] = heap.xBlockSize[b] % Top]
        /\ call' = [call EXCEPT ![t] = IF heap.xBlockSize[b] >= Top
                                       THEN [pc |-> "insert", block |-> b] ELSE Idle]
    BY <1>1 DEF vPortFree, Idle
  <2>2. call' = [call EXCEPT ![t] = [pc |-> "insert", block |-> b]]
    BY <1>4, <2>1
  <2> QED
    BY <1>5, <2>1, <2>2
<1>7. /\ {"list", "xBlockSize"} \subseteq DOMAIN heap' /\ heap'.list = heap.list
      /\ heap'.xBlockSize = [heap.xBlockSize EXCEPT ![b] = heap.xBlockSize[b] - Top]
  BY <1>3, <1>6 DEF Heaped
<1>8. /\ Heaped(heap', Taken \ {b}, Leaving \cup {b})
      /\ Bare(heap'.xBlockSize) = Bare(heap.xBlockSize)
  <2>1. PICK x : x = heap.xBlockSize
    OBVIOUS
  <2>2. PICK y : y = heap'.xBlockSize
    OBVIOUS
  <2>3. PICK list : list = heap.list
    OBVIOUS
  <2>4. Sound(list, x, Taken, Leaving) /\ y[b] = x[b] - Top /\ SameBut(x, y, b)
    BY <1>3, <1>4, <1>7, <2>1, <2>2, <2>3 DEF Heaped, SameBut
  <2>5. Sound(list, y, Taken \ {b}, Leaving \cup {b}) /\ Bare(y) = Bare(x)
    BY <1>2, <2>4, UnmarkBlock
  <2> QED
    BY <1>7, <2>1, <2>2, <2>3, <2>5 DEF Heaped
<1>9. \A k \in live : k.at - xHeapStructSize = b => k = l
  <2>1. xHeapStructSize \in Nat /\ \A k \in live : k.at \in Nat
    BY <1>3, Geometry DEF LiveFits
  <2> QED
    BY <1>1, <1>3, <2>1 DEF Apart
<1>10. Taken' = Taken \ {b}
  <2>1. PICK first : \A k \in live : first[k] = k.at - xHeapStructSize
    <3>1. \A k \in live : [m \in live |-> m.at - xHeapStructSize][k] = k.at - xHeapStructSize
      OBVIOUS
    <3> QED
      BY <3>1
  <2>2. Taken = {first[k] : k \in live} /\ Taken' = {first[k] : k \in live \ {l}}
    BY <1>6, <2>1 DEF Taken
  <2>3. \A k \in live : first[k] = b <=> k = l
    BY <1>1, <1>9, <2>1
  <2> QED
    BY <2>2, <2>3
<1>11. /\ DOMAIN call' = Callers
       /\ \A u \in Callers : call'[u] = IF u = t THEN [pc |-> "insert", block |-> b] ELSE call[u]
  BY <1>3, <1>6
<1>12. Leaving' = Leaving \cup {b}
  <2>1. ASSUME NEW c \in Leaving'
        PROVE  c \in Leaving \cup {b}
    <3>1. PICK u \in Callers : call'[u].pc = "insert" /\ c = call'[u].block
      BY DEF Leaving
    <3> QED
      BY <1>11, <3>1 DEF Leaving
  <2>2. ASSUME NEW c \in Leaving
        PROVE  c \in Leaving'
    <3>1. PICK u \in Callers : call[u].pc = "insert" /\ c = call[u].block
      BY DEF Leaving
    <3>2. call'[u].pc = "insert" /\ c = call'[u].block
      BY <1>6, <1>11, <3>1
    <3> QED
      BY <3>2 DEF Leaving
  <2>3. b \in Leaving'
    BY <1>11 DEF Leaving
  <2> QED
    BY <2>1, <2>2, <2>3
<1>13. Apart'
  <2>1. \A u \in Callers : call[u].pc = "insert" => call[u].block # b
    BY <1>4 DEF Leaving
  <2>2. \A k, m \in live' : k.at = m.at => k = m
    BY <1>3, <1>6 DEF Apart
  <2>3. ASSUME NEW u \in Callers, NEW v \in Callers,
               call'[u].pc = "insert", call'[v].pc = "insert", call'[u].block = call'[v].block
        PROVE  u = v
    <3>1. CASE u = t
      BY <1>11, <2>1, <2>3, <3>1
    <3>2. CASE v = t
      BY <1>11, <2>1, <2>3, <3>2
    <3>3. CASE u # t /\ v # t
      BY <1>3, <1>11, <2>3, <3>3 DEF Apart
    <3> QED
      BY <3>1, <3>2, <3>3
  <2> QED
    BY <2>2, <2>3 DEF Apart
<1>14. LiveFits(Bare(heap.xBlockSize))'
  BY <1>3, <1>6, <1>8 DEF LiveFits, Bare
<1> QED
  BY <1>8, <1>10, <1>11, <1>12, <1>13, <1>14, InvariantNext

\* The rest of vPortFree: the block comes back to the list.
LEMMA InsertStep ==
    ASSUME HeapsAssumption, RegionsFit, HeapsInv, NEW t \in Callers, Insert(t)
    PROVE  HeapsInv' /\ Initialised'
<1>1. PICK b : b = call[t].block
  OBVIOUS
<1>2. PICK others : others = Leaving \ {b}
  OBVIOUS
<1>3. call[t].pc = "insert" /\ b \in Leaving
  BY <1>1 DEF Insert, Leaving
<1>4. Initialised
  BY <1>3, InvariantParts
<1>5. Heaped(heap, Taken, Leaving) /\ LiveFits(Bare(heap.xBlockSize)) /\ Apart /\ DOMAIN call = Callers
  BY <1>4, InvariantParts
<1>6. Leaving = others \cup {b} /\ b \notin others
  BY <1>2, <1>3
<1>7. PICK g : g = prvInsertBlockIntoFreeList(heap, b)
  OBVIOUS
<1>8. /\ Heaped(g, Taken, others)
      /\ \A c \in Taken \cup others : g.xBlockSize[c] = heap.xBlockSize[c]
  BY <1>5, <1>6, <1>7, InsertKeeps
<1>9. /\ {"list", "xBlockSize"} \subseteq DOMAIN heap' /\ heap'.list = g.list
      /\ heap'.xBlockSize = g.xBlockSize
      /\ call' = [call EXCEPT ![t] = Idle] /\ live' = live
  <2>1. PICK count, frees :
            /\ heap' = [g EXCEPT !.xFreeBytesRemaining = count, !.xNumberOfSuccessfulFrees = frees]
            /\ call' = [call EXCEPT ![t] = Idle] /\ live' = live
    BY <1>1, <1>7 DEF Insert
  <2>2. {"list", "xBlockSize"} \subseteq DOMAIN g
    BY <1>8 DEF Heaped
  <2> QED
    BY <2>1, <2>2
<1>10. Heaped(heap', Taken, others)
  BY <1>8, <1>9 DEF Heaped
<1>11. /\ DOMAIN call' = Callers /\ Idle.pc # "insert"
       /\ \A u \in Callers : call'[u] = IF u = t THEN Idle ELSE call[u]
  BY <1>5, <1>9 DEF Idle
<1>12. \A u \in Callers : call[u].pc = "insert" /\ u # t => call[u].block # b
  BY <1>1, <1>3, <1>5 DEF Apart
<1>13. Leaving' = others
  <2>1. ASSUME NEW c \in Leaving'
        PROVE  c \in others
    <3>1. PICK u \in Callers : call'[u].pc = "insert" /\ c = call'[u].block
      BY DEF Leaving
    <3>2. u # t /\ call[u].pc = "insert" /\ c = call[u].block
      BY <1>11, <3>1
    <3> QED
      BY <1>2, <1>12, <3>2 DEF Leaving
  <2>2. ASSUME NEW c \in others
        PROVE  c \in Leaving'
    <3>1. PICK u \in Callers : call[u].pc = "insert" /\ c = call[u].block
      BY <1>2 DEF Leaving
    <3>2. u # t
      BY <1>1, <1>2, <3>1
    <3>3. call'[u].pc = "insert" /\ c = call'[u].block
      BY <1>11, <3>1, <3>2
    <3> QED
      BY <3>3 DEF Leaving
  <2> QED
    BY <2>1, <2>2
<1>14. Taken' = Taken
  BY <1>9 DEF Taken
<1>15. Apart'
  <2>1. \A k, m \in live' : k.at = m.at => k = m
    BY <1>5, <1>9 DEF Apart
  <2>2. \A u, v \in Callers : call'[u].pc = "insert" /\ call'[v].pc = "insert"
                                  /\ call'[u].block = call'[v].block => u = v
    BY <1>5, <1>11 DEF Apart
  <2> QED
    BY <2>1, <2>2 DEF Apart
<1>16. LiveFits(Bare(heap.xBlockSize))'
  <2>1. PICK s : s = Bare(heap.xBlockSize)
    OBVIOUS
  <2>2. PICK u : u = Bare(heap'.xBlockSize)
    OBVIOUS
  <2>3. ASSUME NEW c \in Taken
        PROVE  u[c] = s[c]
    <3>1. c \in DOMAIN heap'.xBlockSize /\ c \in DOMAIN heap.xBlockSize
      BY <1>5, <1>10 DEF Heaped, Sound
    <3>2. heap'.xBlockSize[c] = heap.xBlockSize[c]
      BY <1>8, <1>9
    <3> QED
      BY <2>1, <2>2, <3>1, <3>2, BareIs
  <2>4. \A l \in live : l.at - xHeapStructSize \in Taken
    BY DEF Taken
  <2> QED
    BY <1>5, <1>9, <2>1, <2>2, <2>3, <2>4 DEF LiveFits, Bare
<1> QED
  BY <1>10, <1>11, <1>13, <1>14, <1>15, <1>16, InvariantNext

\* At first, before prvHeapInit, nothing is anybody's.
LEMMA InitialState ==
    ASSUME HeapsAssumption, Init
    PROVE  HeapsInv
<1>1. heap = Sleeping /\ call = [t \in Callers |-> Idle] /\ live = {}
  BY DEF Init
<1>2. {"list", "xBlockSize"} \subseteq DOMAIN heap /\ ~Initialised
  BY <1>1 DEF Sleeping, Initialised
<1>3. Leaving = {}
  BY <1>1 DEF Leaving, Idle
<1> QED
  BY <1>1, <1>2, <1>3 DEF HeapsInv, Idle

\* Every step keeps the invariant, and what was initialised stays so.
LEMMA EveryStep ==
    ASSUME HeapsAssumption, RegionsFit, HeapsInv, [Next]_vars
    PROVE  HeapsInv' /\ (Initialised => Initialised')
<1>1. ASSUME NEW t \in Callers, vPortDefineHeapRegions(t)
      PROVE  HeapsInv' /\ Initialised'
  BY <1>1, DefineStep
<1>2. ASSUME NEW t \in Callers, NEW n \in Sizes, pvPortMalloc(t, n)
      PROVE  HeapsInv' /\ Initialised'
  BY <1>2, MallocStep
<1>3. ASSUME NEW t \in Callers, NEW l \in live, vPortFree(t, l)
      PROVE  HeapsInv' /\ Initialised'
  BY <1>3, FreeStep
<1>4. ASSUME NEW t \in Callers, Insert(t)
      PROVE  HeapsInv' /\ Initialised'
  BY <1>4, InsertStep
<1>5. ASSUME NEW t \in Callers, vPortGetHeapStats(t) \/ ReadCounters(t)
      PROVE  HeapsInv' /\ (Initialised => Initialised')
  <2>1. HeapsInv'
    BY <1>5, StatsStep
  <2>2. heap' = heap
    BY <1>5 DEF vPortGetHeapStats, ReadCounters
  <2> QED
    BY <2>1, <2>2 DEF Initialised
<1>6. ASSUME UNCHANGED vars
      PROVE  HeapsInv' /\ (Initialised => Initialised')
  <2>1. UNCHANGED <<heap, call, live>>
    BY <1>6 DEF vars
  <2>2. Leaving' = Leaving /\ DOMAIN call' = Callers /\ Apart'
    BY <2>1, InvariantParts DEF Leaving, Apart
  <2>3. HeapsInv'
    BY <2>1, <2>2, OtherStep
  <2> QED
    BY <2>1, <2>3 DEF Initialised
<1> QED
  BY <1>1, <1>2, <1>3, <1>4, <1>5, <1>6 DEF Next

\* The heap is in order, whatever is asked of it and given back, in any order
\* and by any number of tasks.
THEOREM HeapStaysInOrder ==
    ASSUME HeapsAssumption, RegionsFit
    PROVE  Spec => []HeapsInv
<1>1. Init => HeapsInv
  BY InitialState
<1>2. HeapsInv /\ [Next]_vars => HeapsInv'
  BY EveryStep
<1> QED
  BY <1>1, <1>2, PTL DEF Spec

-----------------------------------------------------------------------------
(* What follows from the invariant.                                        *)

\* A block that is the application's: its size without the top bit, its region,
\* and the block of another piece of memory.
LEMMA TakenBlock ==
    ASSUME HeapsAssumption, HeapsInv, NEW l \in live
    PROVE  /\ Initialised /\ l.at - xHeapStructSize \in Taken
           /\ l.at \in Nat /\ l.bytes \in Nat \ {0} /\ xHeapStructSize \in Nat
           /\ \E i \in DOMAIN Regions : From(i) <= l.at /\ l.at + l.bytes <= To(i)
           /\ \A c \in Blocks : l.at + l.bytes <= c \/ c + xHeapStructSize <= l.at
<1>1. PICK b : b = l.at - xHeapStructSize
  OBVIOUS
<1>2. PICK s : s = Bare(heap.xBlockSize)
  OBVIOUS
<1>3. Initialised /\ b \in Taken /\ Heaped(heap, Taken, Leaving)
  BY <1>1, InvariantParts DEF Taken
<1>4. /\ l.at \in Nat /\ b \in Nat /\ l.bytes \in Nat \ {0}
      /\ l.bytes + xHeapStructSize <= s[b]
  BY <1>1, <1>2, InvariantParts DEF LiveFits
<1>5. Tile(s) /\ DOMAIN s = Blocks /\ b \in DOMAIN s /\ b \notin Ends
  BY <1>2, <1>3, BareIs DEF Heaped, Sound, Blocks
<1>6. xHeapStructSize \in Nat \ {0} /\ DOMAIN Regions = 1 .. Len(Regions)
      /\ \A i \in 1 .. Len(Regions) : From(i) \in Nat /\ To(i) \in Nat
  BY Geometry
<1>7. /\ s[b] \in Nat
      /\ \E i \in 1 .. Len(Regions) : From(i) <= b /\ b + s[b] <= To(i)
      /\ \A c \in DOMAIN s \cup Ends : b < c => b + s[b] <= c
  BY <1>5, BlockInRegion
<1>8. l.at = b + xHeapStructSize /\ l.at + l.bytes <= b + s[b]
  <2>1. xHeapStructSize \in Nat /\ s[b] \in Nat
    BY <1>6, <1>7
  <2> QED
    BY <1>1, <1>4, <2>1
<1>9. PICK i \in 1 .. Len(Regions) : From(i) <= b /\ b + s[b] <= To(i)
  BY <1>7
<1>10. From(i) <= l.at /\ l.at + l.bytes <= To(i)
  <2>1. From(i) \in Nat /\ To(i) \in Nat /\ xHeapStructSize \in Nat /\ s[b] \in Nat
    BY <1>6, <1>7
  <2> QED
    BY <1>4, <1>8, <1>9, <2>1
<1>11. ASSUME NEW c \in Blocks
       PROVE  l.at + l.bytes <= c \/ c + xHeapStructSize <= l.at
  <2>1. c \in Nat
    BY <1>5 DEF Tile
  <2>2. b < c => b + s[b] <= c
    BY <1>5, <1>7
  <2>3. xHeapStructSize \in Nat /\ s[b] \in Nat
    BY <1>6, <1>7
  <2> QED
    BY <1>4, <1>8, <2>1, <2>2, <2>3
<1> QED
  BY <1>1, <1>3, <1>4, <1>6, <1>10, <1>11

\* No byte is in two pieces of memory.
LEMMA NoByteTwice ==
    ASSUME HeapsAssumption, HeapsInv, NEW k \in live, NEW l \in live, k # l
    PROVE  Allocator!Bytes(k) \cap Allocator!Bytes(l) = {}
<1>1. /\ k.at \in Nat /\ l.at \in Nat /\ k.bytes \in Nat /\ l.bytes \in Nat /\ xHeapStructSize \in Nat
      /\ k.at - xHeapStructSize \in Taken /\ l.at - xHeapStructSize \in Taken
      /\ k.at # l.at /\ Initialised
  BY TakenBlock, InvariantParts DEF Apart
<1>2. Taken \subseteq Blocks
  BY <1>1, InvariantParts DEF Heaped, Sound, Blocks
<1>3. /\ k.at + k.bytes <= l.at - xHeapStructSize \/ l.at <= k.at
      /\ l.at + l.bytes <= k.at - xHeapStructSize \/ k.at <= l.at
  <2>1. k.at + k.bytes <= l.at - xHeapStructSize \/ (l.at - xHeapStructSize) + xHeapStructSize <= k.at
    BY <1>1, <1>2, TakenBlock
  <2>2. l.at + l.bytes <= k.at - xHeapStructSize \/ (k.at - xHeapStructSize) + xHeapStructSize <= l.at
    BY <1>1, <1>2, TakenBlock
  <2> QED
    BY <1>1, <2>1, <2>2
<1>4. k.at + k.bytes <= l.at \/ l.at + l.bytes <= k.at
  BY <1>1, <1>3
<1> QED
  BY <1>1, <1>4 DEF Allocator!Bytes

\* Each piece of memory lies in a region, apart from all the others.
Pieces ==
    /\ \A l \in live : /\ l.bytes \in Nat \ {0}
                       /\ \E i \in DOMAIN Regions : From(i) <= l.at /\ l.at + l.bytes <= To(i)
    /\ \A k, l \in live : k # l => Allocator!Bytes(k) \cap Allocator!Bytes(l) = {}

\* In a heap that is in order they are.
LEMMA PiecesApart ==
    ASSUME HeapsAssumption
    PROVE  HeapsInv => Pieces
  BY TakenBlock, NoByteTwice DEF Pieces

\* The blocks tile every region, without a gap and without an overlap.
THEOREM NoByteIsLost ==
    ASSUME HeapsAssumption, RegionsFit
    PROVE  Spec => []BlocksTile
<1>1. ASSUME HeapsInv, Initialised
      PROVE  BlocksTile
  <2>1. PICK s : s = Bare(heap.xBlockSize)
    OBVIOUS
  <2>2. Heaped(heap, Taken, Leaving)
    BY <1>1, InvariantParts
  <2>3. Tile(s) /\ DOMAIN s = Blocks /\ \A b \in Blocks : Size(b) = s[b]
    <3>1. \A b \in Blocks : heap.xBlockSize[b] >= Top <=> b \in Taken
      BY <2>2 DEF Heaped, Sound, Marked, Blocks
    <3> QED
      BY <2>1, <2>2, <3>1, BareIs DEF Heaped, Sound, Blocks, Size
  <2>4. ASSUME NEW i \in DOMAIN Regions
        PROVE  LET first == FirstBlock(Regions[i])
                   end == EndBlock(Regions[i])
                   Inside == {b \in Blocks : first <= b /\ b < end}
               IN  /\ first \in Inside
                   /\ \A b \in Inside : /\ b + Size(b) \in Inside \cup {end}
                                        /\ \A c \in Inside : ~(b < c /\ c < b + Size(b))
    <3> DEFINE Inside == {b \in Blocks : From(i) <= b /\ b < To(i)}
    <3>1. /\ i \in 1 .. Len(Regions) /\ From(i) \in Nat /\ To(i) \in Nat /\ From(i) < To(i)
      BY Geometry
    <3>2. From(i) \in Blocks /\ To(i) \in Ends /\ Blocks \subseteq Nat
      BY <2>3, <3>1, StartsAndEnds DEF Tile
    <3>3. From(i) \in Inside
      BY <3>1, <3>2
    <3>4. ASSUME NEW b \in Inside
          PROVE  /\ b + Size(b) \in Inside \cup {To(i)}
                 /\ \A c \in Inside : ~(b < c /\ c < b + Size(b))
      <4>1. b \in Nat /\ From(i) <= b /\ b < To(i) /\ b \in DOMAIN s
        BY <2>3, <3>2
      <4>2. b \notin Ends /\ \A c \in Ends : c <= b \/ To(i) <= c
        BY <3>1, <4>1, OneRegion
      <4>3. /\ s[b] \in Nat \ {0} /\ b + s[b] \in DOMAIN s \cup Ends
            /\ \A c \in DOMAIN s \cup Ends : b < c => b + s[b] <= c
        BY <2>3, <4>1, <4>2, BlockInRegion
      <4>4. b + s[b] <= To(i) /\ From(i) <= b + s[b]
        BY <3>1, <3>2, <4>1, <4>3
      <4>5. b + s[b] \in Inside \cup {To(i)}
        <5>1. CASE b + s[b] \in Ends
          <6>1. To(i) <= b + s[b]
            BY <4>1, <4>2, <4>3, <5>1
          <6> QED
            BY <3>1, <4>1, <4>3, <4>4, <6>1
        <5>2. CASE b + s[b] \in DOMAIN s
          BY <2>3, <3>1, <4>1, <4>3, <4>4, <5>2
        <5> QED
          BY <4>3, <5>1, <5>2
      <4>6. ASSUME NEW c \in Inside
            PROVE  ~(b < c /\ c < b + s[b])
        <5>1. c \in Nat /\ (b < c => b + s[b] <= c)
          BY <2>3, <3>2, <4>3
        <5> QED
          BY <4>1, <4>3, <5>1
      <4>7. Size(b) = s[b]
        BY <2>3, <4>1
      <4> QED
        BY <4>5, <4>6, <4>7
    <3> QED
      BY <3>3, <3>4 DEF From, To
  <2> QED
    BY <2>4 DEF BlocksTile
<1>2. HeapsInv => BlocksTile
  BY <1>1 DEF BlocksTile
<1> QED
  BY <1>2, HeapStaysInOrder, PTL

\* Writing all of the memory it was given, the application hurts no header.
THEOREM HeadersStayOutOfReach ==
    ASSUME HeapsAssumption, RegionsFit
    PROVE  Spec => []HeadersOutOfReach
<1>1. HeapsInv => HeadersOutOfReach
  BY TakenBlock DEF HeadersOutOfReach
<1> QED
  BY <1>1, HeapStaysInOrder, PTL

\* The heaps implement AllocatorSpec: what pvPortMalloc returns is in the heap,
\* and nobody else's until vPortFree.
THEOREM HeapsImplementAllocator ==
    ASSUME HeapsAssumption, RegionsFit
    PROVE  Spec => ImplementsAllocator
<1>1. Init => Allocator!Init
  BY DEF Init, Allocator!Init
<1>2. HeapsInv /\ HeapsInv' /\ [Next]_vars => [Allocator!Next]_live
  <2>1. SUFFICES ASSUME HeapsInv, HeapsInv', [Next]_vars
                 PROVE  [Allocator!Next]_live
    OBVIOUS
  <2>2. ASSUME NEW t \in Callers, NEW n \in Sizes, pvPortMalloc(t, n), live' # live
        PROVE  Allocator!Allocate
    <3>1. PICK l : live' = live \cup {l}
      BY <2>2 DEF pvPortMalloc
    <3>2. l \in live' \ live
      BY <2>2, <3>1
    <3>3. \A k \in live : k \in live' /\ k # l
      BY <3>2, <3>1
    <3>4. Pieces'
      <4>1. (HeapsInv => Pieces)'
        BY PiecesApart, PTL
      <4> QED
        BY <2>1, <4>1
    <3>5. /\ l.bytes \in Nat \ {0}
          /\ \E i \in DOMAIN Regions : From(i) <= l.at /\ l.at + l.bytes <= To(i)
      BY <2>1, <3>2, <3>4 DEF Pieces
    <3>6. \A k \in live : Allocator!Bytes(k) \cap Allocator!Bytes(l) = {}
      <4>1. \A k, m \in live' : k # m => Allocator!Bytes(k) \cap Allocator!Bytes(m) = {}
        BY <3>4 DEF Pieces, Allocator!Bytes
      <4> QED
        BY <3>2, <3>3, <4>1
    <3>7. \E s \in Spans : s.from <= l.at /\ l.at + l.bytes <= s.to
      <4>1. PICK i \in DOMAIN Regions : From(i) <= l.at /\ l.at + l.bytes <= To(i)
        BY <3>5
      <4>2. [from |-> FirstBlock(Regions[i]), to |-> EndBlock(Regions[i])] \in Spans
        BY DEF Spans
      <4> QED
        BY <4>1, <4>2 DEF From, To
    <3> QED
      BY <3>1, <3>2, <3>5, <3>6, <3>7 DEF Allocator!Allocate
  <2>3. ASSUME NEW t \in Callers, NEW l \in live, vPortFree(t, l)
        PROVE  Allocator!GiveBack
    BY <2>3 DEF vPortFree, Allocator!GiveBack
  <2>4. ASSUME NEW t \in Callers,
               vPortDefineHeapRegions(t) \/ Insert(t) \/ vPortGetHeapStats(t) \/ ReadCounters(t)
        PROVE  live' = live
    BY <2>4 DEF vPortDefineHeapRegions, Insert, vPortGetHeapStats, ReadCounters
  <2>5. UNCHANGED vars => live' = live
    BY DEF vars
  <2> QED
    BY <2>1, <2>2, <2>3, <2>4, <2>5 DEF Next, Allocator!Next
<1>3. HeapsInv /\ [Next]_vars => HeapsInv'
  BY EveryStep
<1>4. Init => HeapsInv
  BY InitialState
<1> QED
  BY <1>1, <1>2, <1>3, <1>4, PTL DEF Spec, ImplementsAllocator, Allocator!Spec

-----------------------------------------------------------------------------
(* The order of the free blocks.                                           *)

\* The place p of a sequence is right for t.
RightPlace(s, v, p, t) ==
    \A j \in 1 .. Len(s) : (j < p => v[s[j]] <= v[t]) /\ (p <= j => v[t] <= v[s[j]])

\* A sequence in order, with one more at the right place, is in order.
LEMMA InsertAtInOrder ==
    ASSUME NEW S, NEW s \in Seq(S), NEW v \in [S -> Nat], InOrder(s, v),
           NEW p \in 1 .. Len(s) + 1, NEW t \in S, RightPlace(s, v, p, t)
    PROVE  InOrder(InsertAt(s, p, t), v)
<1>1. Len(s) \in Nat /\ v[t] \in Nat /\ \A j \in 1 .. Len(s) : v[s[j]] \in Nat
  BY LenProperties, ElementOfSeq
<1>2. PICK new : InsertAt(s, p, t) = new
  OBVIOUS
<1>3. /\ Len(new) = Len(s) + 1
      /\ \A j \in 1 .. Len(s) + 1 :
             new[j] = IF j < p THEN s[j] ELSE IF j = p THEN t ELSE s[j - 1]
  <2>1. Len(InsertAt(s, p, t)) = Len(s) + 1
    BY InsertAtLength
  <2>2. ASSUME NEW j \in 1 .. Len(s) + 1
        PROVE  InsertAt(s, p, t)[j] = IF j < p THEN s[j] ELSE IF j = p THEN t ELSE s[j - 1]
    BY InsertAtItem
  <2> QED
    BY <1>2, <2>1, <2>2
<1>4. ASSUME NEW j \in 1 .. Len(s) + 1, NEW m \in 1 .. Len(s) + 1, j <= m
      PROVE  v[new[j]] <= v[new[m]]
  <2>1. j \in Nat /\ m \in Nat /\ p \in Nat
    BY <1>1
  <2>2. CASE m < p
    <3>1. j < p /\ j \in 1 .. Len(s) /\ m \in 1 .. Len(s)
      BY <1>1, <1>4, <2>1, <2>2
    <3> QED
      BY <1>3, <1>4, <2>2, <3>1 DEF InOrder
  <2>3. CASE j > p
    <3>1. /\ ~(j < p) /\ ~(m < p) /\ j # p /\ m # p /\ j - 1 <= m - 1
          /\ j - 1 \in 1 .. Len(s) /\ m - 1 \in 1 .. Len(s)
      BY <1>1, <1>4, <2>1, <2>3
    <3>2. v[s[j - 1]] <= v[s[m - 1]]
      BY <3>1 DEF InOrder
    <3> QED
      BY <1>3, <3>1, <3>2
  <2>4. CASE j <= p /\ p <= m
    <3>1. v[new[j]] <= v[t] /\ v[new[j]] \in Nat
      <4>1. CASE j < p
        <5>1. j \in 1 .. Len(s) /\ new[j] = s[j]
          BY <1>1, <1>3, <4>1
        <5> QED
          BY <1>1, <4>1, <5>1 DEF RightPlace
      <4>2. CASE j = p
        BY <1>1, <1>3, <4>2
      <4> QED
        BY <2>1, <2>4, <4>1, <4>2
    <3>2. v[t] <= v[new[m]] /\ v[new[m]] \in Nat
      <4>1. CASE p < m
        <5>1. m - 1 \in 1 .. Len(s) /\ p <= m - 1 /\ ~(m < p) /\ m # p
          BY <1>1, <2>1, <4>1
        <5>2. new[m] = s[m - 1]
          BY <1>3, <5>1
        <5> QED
          BY <1>1, <5>1, <5>2 DEF RightPlace
      <4>2. CASE m = p
        BY <1>1, <1>3, <4>2
      <4> QED
        BY <2>1, <2>4, <4>1, <4>2
    <3> QED
      BY <1>1, <3>1, <3>2
  <2> QED
    BY <2>1, <2>2, <2>3, <2>4
<1> QED
  BY <1>2, <1>3, <1>4 DEF InOrder

\* A sequence in order, less one, is in order.
LEMMA RemoveAtInOrder ==
    ASSUME NEW S, NEW s \in Seq(S), NEW v, InOrder(s, v), NEW p \in 1 .. Len(s)
    PROVE  InOrder(RemoveAt(s, p), v)
<1>1. Len(s) \in Nat
  BY LenProperties
<1>2. PICK new : RemoveAt(s, p) = new
  OBVIOUS
<1>3. /\ Len(new) = Len(s) - 1
      /\ \A j \in 1 .. Len(s) - 1 : new[j] = IF j < p THEN s[j] ELSE s[j + 1]
  BY <1>2, RemoveAtProperties
<1>4. ASSUME NEW j \in 1 .. Len(s) - 1, NEW m \in 1 .. Len(s) - 1, j <= m
      PROVE  v[new[j]] <= v[new[m]]
  <2>1. PICK i \in 1 .. Len(s) : new[j] = s[i] /\ i = IF j < p THEN j ELSE j + 1
    <3>1. j \in 1 .. Len(s) /\ j + 1 \in 1 .. Len(s)
      BY <1>1
    <3> QED
      BY <1>3, <3>1
  <2>2. PICK k \in 1 .. Len(s) : new[m] = s[k] /\ k = IF m < p THEN m ELSE m + 1
    <3>1. m \in 1 .. Len(s) /\ m + 1 \in 1 .. Len(s)
      BY <1>1
    <3> QED
      BY <1>3, <3>1
  <2>3. i <= k
    BY <1>1, <1>4, <2>1, <2>2
  <2>4. v[s[i]] <= v[s[k]]
    BY <2>3 DEF InOrder
  <2> QED
    BY <2>1, <2>2, <2>4
<1> QED
  BY <1>2, <1>3, <1>4 DEF InOrder

\* The order of the addresses.
ByAddress == [b \in Nat |-> b]

\* No free block ends where another begins, but at the marker of a region.
Separate(free, x) == \A b \in free \ Ends : b + x[b] \in free => b + x[b] \in Ends

\* The free blocks are in the order of their heap.
Ordered(list, x) ==
    IF Heap = 2 THEN InOrder(list, x)
    ELSE InOrder(list, ByAddress) /\ Separate(ToSet(list), x)

\* It depends on the sizes of the free blocks alone.
LEMMA OrderedAlike ==
    ASSUME NEW list, NEW x, NEW y, Ordered(list, x), Alike(x, y, ToSet(list)), DOMAIN list = 1 .. Len(list)
    PROVE  Ordered(list, y)
<1>1. \A j \in 1 .. Len(list) : y[list[j]] = x[list[j]]
  BY DEF Alike, ToSet
<1>2. CASE Heap = 2
  BY <1>1, <1>2 DEF Ordered, InOrder
<1>3. CASE Heap # 2
  BY <1>3 DEF Ordered, Separate, Alike
<1> QED
  BY <1>2, <1>3

\* The facts about a heap in order that its order rests on.
LEMMA HeapedFacts ==
    ASSUME HeapsAssumption, NEW h, NEW taken, NEW leaving, Heaped(h, taken, leaving)
    PROVE  /\ h.list \in Seq(Nat) /\ Len(h.list) \in Nat /\ DOMAIN h.list = 1 .. Len(h.list)
           /\ Distinct(h.list) /\ h.list[Len(h.list)] = pxEnd /\ Len(h.list) \in 1 .. Len(h.list)
           /\ DOMAIN h.xBlockSize = ToSet(h.list) \cup taken \cup leaving
           /\ ToSet(h.list) \cap (taken \cup leaving) = {}
           /\ \A c \in DOMAIN h.xBlockSize : c \in Nat /\ h.xBlockSize[c] \in Nat
           /\ \A j \in 1 .. Len(h.list) : h.list[j] \in ToSet(h.list)
           /\ \A c \in ToSet(h.list) : \E j \in 1 .. Len(h.list) : h.list[j] = c
           /\ \A c \in DOMAIN h.xBlockSize : c \in taken \/ Bare(h.xBlockSize)[c] = h.xBlockSize[c]
           /\ \A c \in DOMAIN h.xBlockSize \ taken : \A d \in DOMAIN h.xBlockSize :
                  c < d => c + h.xBlockSize[c] <= d
           /\ \A c \in DOMAIN h.xBlockSize \ (taken \cup Ends) : h.xBlockSize[c] > 0
           /\ Heap # 2 => \A c \in DOMAIN h.xBlockSize \cap Ends : c \in taken \/ h.xBlockSize[c] = 0
<1>1. PICK list : list = h.list
  OBVIOUS
<1>2. PICK x : x = h.xBlockSize
  OBVIOUS
<1>3. PICK s : s = Bare(x)
  OBVIOUS
<1>4. /\ list \in Seq(Nat) /\ list # <<>> /\ Distinct(list) /\ list[Len(list)] = pxEnd
      /\ DOMAIN x = ToSet(list) \cup taken \cup leaving
      /\ \A b \in taken : ~Occurs(list, b)
      /\ \A b \in leaving : ~Occurs(list, b)
      /\ Marked(x, taken) /\ Tile(s)
  BY <1>1, <1>2, <1>3 DEF Heaped, Sound
<1>5. Len(list) \in Nat /\ DOMAIN list = 1 .. Len(list) /\ Len(list) \in 1 .. Len(list)
  BY <1>4, LenProperties, EmptySeq
<1>6. /\ \A c : c \in ToSet(list) <=> Occurs(list, c)
      /\ \A c : c \in ToSet(list) <=> \E j \in 1 .. Len(list) : list[j] = c
  BY <1>5 DEF ToSet, Occurs
<1>7. DOMAIN s = DOMAIN x /\ \A c \in DOMAIN x : s[c] = IF x[c] >= Top THEN x[c] - Top ELSE x[c]
  BY <1>3, BareIs
<1>8. \A c \in DOMAIN x : /\ x[c] \in 0 .. heapSIZE_MAX
                          /\ x[c] >= Top <=> c \in taken
  BY <1>4 DEF Marked
<1>9. /\ \A c \in DOMAIN x : c \in Nat /\ s[c] \in Nat
      /\ \A c \in DOMAIN x \ Ends : s[c] > 0
      /\ \A c \in DOMAIN x : \A d \in DOMAIN x : c < d => c + s[c] <= d
      /\ \A c \in DOMAIN x \cap Ends : s[c] = IF Heap = 2 THEN SizeOfRegion(1) ELSE 0
  BY <1>4, <1>7 DEF Tile
<1>10. heapSIZE_MAX \in Nat
  BY Geometry DEF heapSIZE_MAX
<1>11. \A c \in DOMAIN x : c \in taken \/ s[c] = x[c]
  BY <1>7, <1>8
<1>12. \A c \in DOMAIN x : x[c] \in Nat
  BY <1>8, <1>10
<1>13. /\ \A c \in DOMAIN x \ taken : \A d \in DOMAIN x : c < d => c + x[c] <= d
       /\ \A c \in DOMAIN x \ (taken \cup Ends) : x[c] > 0
       /\ Heap # 2 => \A c \in DOMAIN x \cap Ends : c \in taken \/ x[c] = 0
  BY <1>9, <1>11
<1> QED
  BY <1>1, <1>2, <1>3, <1>4, <1>5, <1>6, <1>9, <1>11, <1>12, <1>13

\* The heap of prvHeapInit is in the order.
LEMMA InitOrdered ==
    ASSUME HeapsAssumption, RegionsFit
    PROVE  Ordered(prvHeapInit.list, prvHeapInit.xBlockSize)
<1>1. PICK n : n = Len(Regions)
  OBVIOUS
<1>2. PICK list : list = prvHeapInit.list
  OBVIOUS
<1>3. PICK x : x = prvHeapInit.xBlockSize
  OBVIOUS
<1>4. /\ n \in Nat \ {0} /\ DOMAIN Regions = 1 .. n
      /\ Heap = 2 => n = 1
      /\ xHeapStructSize \in Nat \ {0}
      /\ \A i \in 1 .. n : From(i) \in Nat \ {0} /\ To(i) \in Nat /\ From(i) < To(i)
      /\ \A i, j \in 1 .. n : i < j => To(i) + xHeapStructSize <= From(j)
  BY <1>1, Geometry
<1>5. /\ list = [j \in 1 .. 2 * n |-> IF j % 2 = 1 THEN From((j + 1) \div 2) ELSE To(j \div 2)]
      /\ x = [b \in Starts \cup Ends |->
                 IF b \in Starts
                 THEN SizeOfRegion(CHOOSE i \in DOMAIN Regions : FirstBlock(Regions[i]) = b)
                 ELSE IF Heap = 2 THEN SizeOfRegion(1) ELSE 0]
  BY <1>1, <1>2, <1>3 DEF prvHeapInit, Sleeping, From, To
<1>6. /\ Len(list) = 2 * n /\ ToSet(list) = Starts \cup Ends
      /\ list \in Seq(Nat) /\ DOMAIN list = 1 .. 2 * n
  BY <1>1, <1>2, <1>5, FirstList
<1>7. \A i \in 1 .. n : SizeOfRegion(i) = To(i) - From(i)
  BY DEF SizeOfRegion, From, To
<1>8. ASSUME NEW i \in 1 .. n PROVE From(i) \in Starts /\ x[From(i)] = To(i) - From(i)
  <2>1. From(i) \in Starts
    BY <1>1, StartsAndEnds
  <2>2. x[From(i)] = SizeOfRegion(CHOOSE j \in DOMAIN Regions : FirstBlock(Regions[j]) = From(i))
    BY <1>5, <2>1
  <2> QED
    BY <1>1, <1>7, <2>1, <2>2, FirstSizes
<1>9. CASE Heap = 2
  <2>1. n = 1 /\ 1 \in 1 .. n /\ SizeOfRegion(1) \in Nat /\ SizeOfRegion(1) = To(1) - From(1)
    BY <1>4, <1>7, <1>9
  <2>2. ASSUME NEW b \in ToSet(list) PROVE x[b] = SizeOfRegion(1)
    <3>1. CASE b \in Starts
      <4>1. PICK i \in 1 .. n : b = From(i)
        BY <1>1, <3>1, StartsAndEnds
      <4>2. i = 1
        BY <2>1
      <4> QED
        BY <1>8, <2>1, <4>1, <4>2
    <3>2. CASE b \notin Starts
      BY <1>5, <1>6, <1>9, <3>2
    <3> QED
      BY <3>1, <3>2
  <2>3. \A j \in 1 .. Len(list) : list[j] \in ToSet(list)
    BY <1>6 DEF ToSet
  <2>4. InOrder(list, x)
    BY <2>1, <2>2, <2>3 DEF InOrder
  <2> QED
    BY <1>2, <1>3, <1>9, <2>4 DEF Ordered
<1>10. CASE Heap # 2
  <2>1. ASSUME NEW j \in 1 .. 2 * n
        PROVE  \E i \in 1 .. n : \/ j = 2 * i - 1 /\ list[j] = From(i)
                                 \/ j = 2 * i /\ list[j] = To(i)
    <3>1. CASE j % 2 = 1
      <4>1. (j + 1) \div 2 \in 1 .. n /\ j = 2 * ((j + 1) \div 2) - 1
        <5>1. PICK k : k = j \div 2
          OBVIOUS
        <5>2. j \in Nat /\ k \in Nat /\ j = 2 * k + 1
          BY <1>4, <3>1, <5>1
        <5>3. (j + 1) \div 2 = k + 1
          BY <5>2
        <5>4. 2 * k + 1 <= 2 * n /\ n \in Nat
          BY <1>4, <5>2
        <5>5. k + 1 \in 1 .. n /\ j = 2 * (k + 1) - 1
          BY <5>2, <5>4
        <5> QED
          BY <5>3, <5>5
      <4>2. list[j] = From((j + 1) \div 2)
        BY <1>5, <3>1
      <4> QED
        BY <4>1, <4>2
    <3>2. CASE j % 2 # 1
      <4>1. j \div 2 \in 1 .. n /\ j = 2 * (j \div 2)
        BY <1>4, <3>2
      <4> QED
        BY <1>5, <3>2, <4>1
    <3> QED
      BY <3>1, <3>2
  <2>2. ASSUME NEW j \in 1 .. 2 * n, NEW m \in 1 .. 2 * n, j <= m
        PROVE  ByAddress[list[j]] <= ByAddress[list[m]]
    <3>1. PICK i \in 1 .. n : \/ j = 2 * i - 1 /\ list[j] = From(i)
                              \/ j = 2 * i /\ list[j] = To(i)
      BY <2>1
    <3>2. PICK k \in 1 .. n : \/ m = 2 * k - 1 /\ list[m] = From(k)
                              \/ m = 2 * k /\ list[m] = To(k)
      BY <2>1
    <3>3. /\ From(i) \in Nat /\ To(i) \in Nat /\ From(i) < To(i)
          /\ From(k) \in Nat /\ To(k) \in Nat /\ From(k) < To(k)
      BY <1>4
    <3>4. i < k \/ i = k
      BY <1>4, <2>2, <3>1, <3>2
    <3>5. list[j] <= list[m] /\ list[j] \in Nat /\ list[m] \in Nat
      <4>1. CASE i < k
        <5>1. To(i) + xHeapStructSize <= From(k) /\ xHeapStructSize \in Nat
          BY <1>4, <4>1
        <5>2. To(i) <= From(k)
          BY <3>3, <5>1
        <5>3. list[j] \in Nat /\ list[j] <= To(i)
          BY <3>1, <3>3
        <5>4. list[m] \in Nat /\ From(k) <= list[m]
          BY <3>2, <3>3
        <5> QED
          BY <3>3, <5>2, <5>3, <5>4
      <4>2. CASE i = k
        BY <1>4, <2>2, <3>1, <3>2, <3>3, <4>2
      <4> QED
        BY <3>4, <4>1, <4>2
    <3> QED
      BY <3>5 DEF ByAddress
  <2>3. InOrder(list, ByAddress)
    BY <1>6, <2>2 DEF InOrder
  <2>4. Separate(ToSet(list), x)
    <3>1. ASSUME NEW b \in ToSet(list) \ Ends PROVE b + x[b] \in Ends
      <4>1. PICK i \in 1 .. n : b = From(i)
        BY <1>1, <1>6, <3>1, StartsAndEnds
      <4>2. From(i) \in Nat /\ To(i) \in Nat
        BY <1>4
      <4>3. x[b] = To(i) - From(i)
        BY <1>8, <4>1
      <4>4. b + x[b] = To(i)
        BY <4>1, <4>2, <4>3
      <4> QED
        BY <1>1, <4>4, StartsAndEnds
    <3> QED
      BY <3>1 DEF Separate
  <2> QED
    BY <1>2, <1>3, <1>10, <2>3, <2>4 DEF Ordered
<1> QED
  BY <1>9, <1>10

\* In heap_2 what comes back finds its place by its size.
LEMMA InsertBySizeOrdered ==
    ASSUME HeapsAssumption, RegionsFit, Heap = 2, NEW h, NEW taken, NEW leaving, NEW b,
           b \notin leaving, Heaped(h, taken, leaving \cup {b}), InOrder(h.list, h.xBlockSize)
    PROVE  InOrder(InsertBySize(h, b).list, InsertBySize(h, b).xBlockSize)
<1>0. PICK all : all = leaving \cup {b}
  OBVIOUS
<1>1. PICK list : list = h.list
  OBVIOUS
<1>2. PICK x : x = h.xBlockSize
  OBVIOUS
<1>3. PICK new : new = InsertBySize(h, b).list
  OBVIOUS
<1>4. PICK p : p = SizePlace(h, b)
  OBVIOUS
<1>5. /\ list \in Seq(Nat) /\ Len(list) \in Nat
      /\ DOMAIN x = ToSet(list) \cup taken \cup all
      /\ \A c \in DOMAIN x : c \in Nat /\ x[c] \in Nat
      /\ \A j \in 1 .. Len(list) : list[j] \in ToSet(list)
  BY <1>0, <1>1, <1>2, HeapedFacts
<1>6. /\ Heaped(InsertBySize(h, b), taken, leaving)
      /\ InsertBySize(h, b).xBlockSize = x
      /\ new = InsertAt(list, p, b)
  <2>1. /\ Heaped(InsertBySize(h, b), taken, leaving)
        /\ InsertBySize(h, b).xBlockSize = h.xBlockSize
    BY InsertBySizeKeeps
  <2>2. InsertBySize(h, b).list = InsertAt(h.list, SizePlace(h, b), b)
    BY InsertBySizeIs DEF Heaped
  <2> QED
    BY <1>1, <1>2, <1>3, <1>4, <2>1, <2>2
<1>7. /\ Len(new) \in Nat /\ \A j \in 1 .. Len(new) : new[j] \in DOMAIN x
  <2>1. /\ new \in Seq(Nat) /\ DOMAIN x = ToSet(new) \cup taken \cup leaving
    BY <1>3, <1>6 DEF Heaped, Sound
  <2> QED
    BY <2>1, LenProperties DEF ToSet
<1>8. /\ p \in 1 .. Len(list) /\ x[list[p]] >= x[b]
      /\ \A j \in 1 .. Len(list) : x[list[j]] >= x[b] => p <= j
  <2>1. b \in all
    BY <1>0
  <2> QED
    BY <1>0, <1>1, <1>2, <1>4, <2>1, SizePlaceIs
<1>9. PICK S : S = Nat
  OBVIOUS
<1>10. PICK v : v = [c \in Nat |-> IF c \in DOMAIN x THEN x[c] ELSE 0]
  OBVIOUS
<1>11. v \in [S -> Nat] /\ \A c \in DOMAIN x : v[c] = x[c]
  BY <1>5, <1>9, <1>10
<1>12. b \in DOMAIN x /\ b \in S /\ \A j \in 1 .. Len(list) : list[j] \in DOMAIN x
  BY <1>0, <1>5, <1>9
<1>13. \A j, m \in 1 .. Len(list) : j <= m => x[list[j]] <= x[list[m]]
  BY <1>1, <1>2 DEF InOrder
<1>14. InOrder(list, v)
  BY <1>11, <1>12, <1>13 DEF InOrder
<1>15. RightPlace(list, v, p, b)
  <2>1. ASSUME NEW j \in 1 .. Len(list)
        PROVE  /\ j < p => x[list[j]] <= x[b]
               /\ p <= j => x[b] <= x[list[j]]
    <3>1. x[list[j]] \in Nat /\ x[b] \in Nat /\ x[list[p]] \in Nat
      BY <1>5, <1>8, <1>12
    <3>2. j < p => ~(x[list[j]] >= x[b])
      BY <1>5, <1>8
    <3>3. p <= j => x[list[p]] <= x[list[j]]
      BY <1>8, <1>13
    <3> QED
      BY <1>8, <3>1, <3>2, <3>3
  <2> QED
    BY <1>11, <1>12, <2>1 DEF RightPlace
<1>16. InOrder(new, v)
  <2>1. list \in Seq(S) /\ p \in 1 .. Len(list) + 1
    BY <1>5, <1>8, <1>9
  <2>2. v \in [S -> Nat] /\ b \in S
    BY <1>11, <1>12
  <2>3. InOrder(InsertAt(list, p, b), v)
    BY <1>14, <1>15, <2>1, <2>2, InsertAtInOrder
  <2> QED
    BY <1>6, <2>3
<1>17. InOrder(new, x)
  BY <1>7, <1>11, <1>16 DEF InOrder
<1> QED
  BY <1>3, <1>6, <1>17

\* What is in a list.
LEMMA InToSet ==
    ASSUME NEW S, NEW s \in Seq(S)
    PROVE  \A c : c \in ToSet(s) <=> Occurs(s, c)
<1>1. Len(s) \in Nat /\ DOMAIN s = 1 .. Len(s)
  BY LenProperties
<1> QED
  BY <1>1, OccursByLength DEF ToSet

\* Of fewer free blocks no more touch.
LEMMA FewerSeparate ==
    ASSUME NEW free, NEW x, Separate(free, x), NEW fewer, fewer \subseteq free
    PROVE  Separate(fewer, x)
  BY DEF Separate

\* A block leaves the list: what is left is in order.
LEMMA TakeOutOrdered ==
    ASSUME HeapsAssumption, NEW h, NEW taken, NEW leaving, Heaped(h, taken, leaving),
           Ordered(h.list, h.xBlockSize), NEW i \in 1 .. Len(h.list)
    PROVE  Ordered(RemoveAt(h.list, i), h.xBlockSize)
<1>1. PICK list : list = h.list
  OBVIOUS
<1>2. PICK x : x = h.xBlockSize
  OBVIOUS
<1>3. list \in Seq(Nat) /\ Distinct(list)
  BY <1>1 DEF Heaped, Sound
<1>4. PICK S : S = Nat
  OBVIOUS
<1>5. list \in Seq(S) /\ i \in 1 .. Len(list)
  BY <1>1, <1>3, <1>4
<1>6. PICK short : short = RemoveAt(list, i)
  OBVIOUS
<1>7. CASE Heap = 2
  <2>1. InOrder(list, x)
    BY <1>1, <1>2, <1>7 DEF Ordered
  <2>2. InOrder(RemoveAt(list, i), x)
    BY <1>5, <2>1, RemoveAtInOrder
  <2> QED
    BY <1>1, <1>2, <1>7, <2>2 DEF Ordered
<1>8. CASE Heap # 2
  <2>1. InOrder(list, ByAddress) /\ Separate(ToSet(list), x)
    BY <1>1, <1>2, <1>8 DEF Ordered
  <2>2. InOrder(RemoveAt(list, i), ByAddress)
    <3>1. PICK key : key = ByAddress
      OBVIOUS
    <3>2. InOrder(RemoveAt(list, i), key)
      BY <1>5, <2>1, <3>1, RemoveAtInOrder
    <3> QED
      BY <3>1, <3>2
  <2>3. ToSet(short) \subseteq ToSet(list)
    <3>1. short \in Seq(S) /\ \A c : Occurs(short, c) => Occurs(list, c)
      BY <1>3, <1>5, <1>6, RemoveAtOccurs, RemoveAtProperties
    <3> QED
      BY <1>5, <3>1, InToSet
  <2>4. Separate(ToSet(short), x)
    BY <2>1, <2>3, FewerSeparate
  <2> QED
    BY <1>1, <1>2, <1>6, <1>8, <2>2, <2>4 DEF Ordered
<1> QED
  BY <1>7, <1>8

\* The free blocks follow one another.
Following(free, x) == \A c \in free :
    /\ c \in Nat /\ x[c] \in Nat /\ (c \notin Ends => x[c] > 0)
    /\ \A e \in free : c < e => c + x[c] <= e

\* Those of a heap do.
LEMMA FreeFollow ==
    ASSUME HeapsAssumption, NEW h, NEW taken, NEW leaving, Heaped(h, taken, leaving)
    PROVE  Following(ToSet(h.list), h.xBlockSize)
<1>1. PICK free : free = ToSet(h.list)
  OBVIOUS
<1>2. PICK x : x = h.xBlockSize
  OBVIOUS
<1>3. /\ DOMAIN x = free \cup taken \cup leaving /\ free \cap (taken \cup leaving) = {}
      /\ \A c \in DOMAIN x : c \in Nat /\ x[c] \in Nat
      /\ \A c \in DOMAIN x \ taken : \A e \in DOMAIN x : c < e => c + x[c] <= e
      /\ \A c \in DOMAIN x \ (taken \cup Ends) : x[c] > 0
  BY <1>1, <1>2, HeapedFacts
<1> QED
  BY <1>1, <1>2, <1>3 DEF Following

\* The rest of a block that is cut touches what the block did.
LEMMA CutSeparate ==
    ASSUME NEW free, NEW x, Following(free, x), Separate(free, x), free \subseteq DOMAIN x,
           NEW b \in free, b \notin Ends, NEW n \in Nat, 0 < n, n < x[b],
           NEW d, b + n = d, d \notin free, NEW y, CutOff(x, y, b, n)
    PROVE  Separate((free \ {b}) \cup {d}, y)
<1>1. /\ b \in Nat /\ x[b] \in Nat /\ d \in Nat /\ y[d] = x[b] - n /\ d + y[d] = b + x[b] /\ d # d + y[d]
  BY DEF Following, CutOff
<1>2. ASSUME NEW c \in free, c # b, c \notin Ends
      PROVE  /\ c \in Nat /\ x[c] \in Nat /\ y[c] = x[c] /\ c + x[c] # d /\ c + x[c] \in Nat
  <2>1. c \in Nat /\ x[c] \in Nat /\ y[c] = x[c] /\ x[c] > 0
    BY <1>2 DEF Following, CutOff
  <2>2. CASE c < b
    <3>1. c + x[c] <= b
      BY <1>2, <2>2 DEF Following
    <3> QED
      BY <1>1, <2>1, <3>1
  <2>3. CASE c > b
    <3>1. b + x[b] <= c
      BY <1>1, <1>2, <2>1, <2>3 DEF Following
    <3> QED
      BY <1>1, <2>1, <3>1
  <2> QED
    BY <1>1, <1>2, <2>1, <2>2, <2>3
<1>3. ASSUME NEW c \in (free \ {b}) \cup {d}, c \notin Ends, c + y[c] \in (free \ {b}) \cup {d}
      PROVE  c + y[c] \in Ends
  <2>1. CASE c = d
    <3>1. b + x[b] \in free /\ c + y[c] = b + x[b]
      BY <1>1, <1>3, <2>1
    <3> QED
      BY <3>1 DEF Separate
  <2>2. CASE c # d
    <3>1. c \in free /\ c + y[c] = c + x[c] /\ c + x[c] # d
      BY <1>2, <1>3, <2>2
    <3> QED
      BY <1>3, <3>1 DEF Separate
  <2> QED
    BY <2>1, <2>2
<1> QED
  BY <1>3 DEF Separate

\* Where the rest of a block that is cut comes into the list: after every block
\* before it, and before every block behind it.
LEMMA CutPlace ==
    ASSUME NEW list \in Seq(Nat), Distinct(list), NEW x, Following(ToSet(list), x),
           InOrder(list, ByAddress),
           NEW i \in 1 .. Len(list), NEW b, list[i] = b, NEW n \in Nat, 0 < n, n < x[b],
           NEW d, b + n = d, NEW short, RemoveAt(list, i) = short
    PROVE  RightPlace(short, ByAddress, i, d)
<1>1. /\ Len(list) \in Nat /\ \A j \in 1 .. Len(list) : list[j] \in Nat /\ list[j] \in ToSet(list)
      /\ \A j, m \in 1 .. Len(list) : list[j] = list[m] => j = m
  BY LenProperties, OccursByLength, ElementOfSeq DEF ToSet
<1>2. /\ Len(short) = Len(list) - 1
      /\ \A j \in 1 .. Len(list) - 1 : short[j] = IF j < i THEN list[j] ELSE list[j + 1]
  <2>1. PICK S : S = Nat
    OBVIOUS
  <2>2. list \in Seq(S)
    BY <2>1
  <2>3. Len(RemoveAt(list, i)) = Len(list) - 1
    BY <2>2, RemoveAtLength
  <2>4. ASSUME NEW j \in 1 .. Len(list) - 1
        PROVE  RemoveAt(list, i)[j] = IF j < i THEN list[j] ELSE list[j + 1]
    BY <2>2, RemoveAtItem
  <2> QED
    BY <2>3, <2>4
<1>3. \A j, m \in 1 .. Len(list) : j <= m => list[j] <= list[m]
  BY <1>1 DEF InOrder, ByAddress
<1>4. b \in Nat /\ b \in ToSet(list) /\ x[b] \in Nat /\ d \in Nat /\ b < d /\ d < b + x[b]
  BY <1>1 DEF Following
<1>5. PICK end : end = b + x[b]
  OBVIOUS
<1>6. end \in Nat /\ d \in Nat /\ d < end
  BY <1>4, <1>5
<1>7. ASSUME NEW j \in 1 .. Len(short)
      PROVE  /\ short[j] \in Nat
             /\ j < i => short[j] <= d
             /\ i <= j => d <= short[j]
  <2>1. CASE j < i
    <3>1. j \in 1 .. Len(list) /\ j <= i /\ short[j] = list[j]
      BY <1>1, <1>2, <2>1
    <3>2. list[j] <= b /\ list[j] \in Nat
      BY <1>1, <1>3, <3>1
    <3> QED
      BY <1>4, <2>1, <3>1, <3>2
  <2>2. CASE ~(j < i)
    <3>1. j + 1 \in 1 .. Len(list) /\ i <= j + 1 /\ i # j + 1 /\ short[j] = list[j + 1]
      BY <1>1, <1>2, <2>2
    <3>2. b <= list[j + 1] /\ list[j + 1] # b /\ list[j + 1] \in Nat /\ list[j + 1] \in ToSet(list)
      BY <1>1, <1>3, <3>1
    <3>3. b < list[j + 1]
      BY <1>4, <3>2
    <3>4. end <= list[j + 1]
      BY <1>4, <1>5, <3>2, <3>3 DEF Following
    <3>5. d <= list[j + 1]
      BY <1>6, <3>2, <3>4
    <3> QED
      BY <2>2, <3>1, <3>2, <3>5
  <2> QED
    BY <2>1, <2>2
<1> QED
  BY <1>4, <1>7 DEF RightPlace, ByAddress

\* pvPortMalloc cuts a block: what is left in the list is in the order.
LEMMA SplitOrdered ==
    ASSUME HeapsAssumption, RegionsFit, NEW h, NEW taken, NEW leaving, Heaped(h, taken, leaving),
           Ordered(h.list, h.xBlockSize),
           NEW i \in 1 .. Len(h.list), NEW b, h.list[i] = b, b \notin Ends,
           NEW size \in Nat, 0 < size, h.xBlockSize[b] >= size
    PROVE  Ordered(Split(h, i, size).list, Split(h, i, size).xBlockSize)
<1>1. PICK list : list = h.list
  OBVIOUS
<1>2. PICK x : x = h.xBlockSize
  OBVIOUS
<1>3. PICK short : short = RemoveAt(list, i)
  OBVIOUS
<1>4. /\ list \in Seq(Nat) /\ Len(list) \in Nat /\ Distinct(list) /\ i \in 1 .. Len(list) /\ list[i] = b
      /\ DOMAIN x = ToSet(list) \cup taken \cup leaving
      /\ Sound(list, x, taken, leaving) /\ {"list", "xBlockSize"} \subseteq DOMAIN h
      /\ ToSet(list) \cap (taken \cup leaving) = {}
      /\ b \in ToSet(list)
  <2>1. /\ list \in Seq(Nat) /\ Len(list) \in Nat /\ i \in 1 .. Len(list) /\ list[i] = b
        /\ DOMAIN x = ToSet(list) \cup taken \cup leaving
        /\ ToSet(list) \cap (taken \cup leaving) = {}
        /\ \A j \in 1 .. Len(list) : list[j] \in ToSet(list)
    BY <1>1, <1>2, HeapedFacts
  <2> QED
    BY <1>1, <1>2, <2>1 DEF Heaped, Sound
<1>5. Following(ToSet(list), x)
  BY <1>1, <1>2, FreeFollow
<1>6. b \in Nat /\ x[b] \in Nat
  BY <1>4, <1>5 DEF Following
<1>7. Ordered(short, x)
  BY <1>1, <1>2, <1>3, TakeOutOrdered
<1>8. Sound(short, x, taken, leaving \cup {b}) /\ Len(short) = Len(list) - 1 /\ i # Len(list)
  <2>1. list[i] \notin Ends
    BY <1>4
  <2>2. /\ Sound(RemoveAt(list, i), x, taken, leaving \cup {list[i]})
        /\ i # Len(list) /\ Len(RemoveAt(list, i)) = Len(list) - 1
    BY <1>4, <2>1, TakeOut
  <2> QED
    BY <1>3, <1>4, <2>2
<1>9. heapMINIMUM_BLOCK_SIZE \in Nat
  BY Geometry DEF heapMINIMUM_BLOCK_SIZE
<1>10. CASE x[b] - size <= heapMINIMUM_BLOCK_SIZE
  <2>1. Split(h, i, size) = [h EXCEPT !.list = short]
    BY <1>1, <1>2, <1>3, <1>10 DEF Split
  <2>2. Split(h, i, size).list = short /\ Split(h, i, size).xBlockSize = x
    BY <1>2, <1>4, <2>1
  <2> QED
    BY <1>7, <2>2
<1>11. CASE ~(x[b] - size <= heapMINIMUM_BLOCK_SIZE)
  <2>1. size < x[b]
    BY <1>6, <1>9, <1>11
  <2>2. PICK d : b + size = d
    OBVIOUS
  <2>3. PICK y : y = Cut(h, b, size)
    OBVIOUS
  <2>4. d \notin DOMAIN x
    <3>1. \A c \in DOMAIN x \ taken : \A e \in DOMAIN x : c < e => c + x[c] <= e
      BY <1>2, HeapedFacts
    <3>2. b \in DOMAIN x \ taken
      BY <1>4
    <3>3. d \in DOMAIN x /\ b < d => b + x[b] <= d
      BY <3>1, <3>2
    <3> QED
      BY <1>6, <2>1, <2>2, <3>3
  <2>5. CutOff(x, y, b, size)
    BY <1>2, <1>4, <1>6, <2>1, <2>2, <2>3, <2>4 DEF Cut, CutOff
  <2>6. Sound(short, y, taken, leaving \cup {b} \cup {d})
    <3>1. b \in leaving \cup {b}
      OBVIOUS
    <3> QED
      BY <1>8, <2>1, <2>2, <2>5, <3>1, CutBlock
  <2>7. short \in Seq(Nat) /\ Distinct(short) /\ \A c \in ToSet(short) : c \in ToSet(list) /\ c # b /\ c # d
    <3>1. PICK S : S = Nat
      OBVIOUS
    <3>2. list \in Seq(S)
      BY <1>4, <3>1
    <3>3. short \in Seq(S) /\ Distinct(short)
      BY <1>3, <1>4, <3>2, RemoveAtOccurs, RemoveAtProperties
    <3>4. \A c : Occurs(short, c) <=> c # b /\ Occurs(list, c)
      BY <1>3, <1>4, <3>2, RemoveAtOccurs
    <3> QED
      BY <1>4, <2>4, <3>1, <3>2, <3>3, <3>4, InToSet
  <2>8. CASE Heap = 2
    <3>1. PICK g : g = [h EXCEPT !.list = short, !.xBlockSize = y]
      OBVIOUS
    <3>2. Split(h, i, size) = InsertBySize(g, d)
      BY <1>1, <1>2, <1>3, <1>11, <2>2, <2>3, <2>8, <3>1 DEF Split
    <3>3. g.list = short /\ g.xBlockSize = y /\ DOMAIN g = DOMAIN h
      BY <1>4, <3>1
    <3>4. PICK other : other = leaving \cup {b}
      OBVIOUS
    <3>5. Heaped(g, taken, other \cup {d}) /\ d \notin other
      BY <1>4, <2>4, <2>6, <3>3, <3>4 DEF Heaped
    <3>6. InOrder(g.list, g.xBlockSize)
      <4>1. \A j \in 1 .. Len(short) : y[short[j]] = x[short[j]]
        <5>1. DOMAIN short = 1 .. Len(short)
          BY <2>7, LenProperties
        <5> QED
          BY <1>4, <2>5, <2>7, <5>1 DEF CutOff, ToSet
      <4> QED
        BY <1>7, <2>8, <3>3, <4>1 DEF Ordered, InOrder
    <3>7. InOrder(InsertBySize(g, d).list, InsertBySize(g, d).xBlockSize)
      BY <2>8, <3>5, <3>6, InsertBySizeOrdered
    <3> QED
      BY <2>8, <3>2, <3>7 DEF Ordered
  <2>9. CASE Heap # 2
    <3>1. PICK new : new = ReplaceAt(list, i, d)
      OBVIOUS
    <3>2. Split(h, i, size).list = new /\ Split(h, i, size).xBlockSize = y
      <4>1. Split(h, i, size) = [h EXCEPT !.list = new, !.xBlockSize = y]
        BY <1>1, <1>2, <1>11, <2>2, <2>3, <2>9, <3>1 DEF Split
      <4> QED
        BY <1>4, <4>1
    <3>3. PICK S : S = Nat
      OBVIOUS
    <3>4. /\ list \in Seq(S) /\ short \in Seq(S) /\ d \in S /\ i \in 1 .. Len(short) + 1
          /\ ByAddress \in [S -> Nat]
      BY <1>4, <1>6, <1>8, <2>2, <2>7, <3>3 DEF ByAddress
    <3>5. new = InsertAt(short, i, d)
      BY <1>3, <1>4, <3>1, <3>4, ReplaceIsInsertion
    <3>6. InOrder(new, ByAddress)
      <4>1. InOrder(list, ByAddress) /\ InOrder(short, ByAddress)
        BY <1>1, <1>7, <2>9 DEF Ordered
      <4>2. RightPlace(short, ByAddress, i, d)
        BY <1>3, <1>4, <1>5, <2>1, <2>2, <4>1, CutPlace
      <4>3. PICK key : key = ByAddress
        OBVIOUS
      <4>4. InOrder(InsertAt(short, i, d), key)
        BY <3>4, <4>1, <4>2, <4>3, InsertAtInOrder
      <4> QED
        BY <3>5, <4>3, <4>4
    <3>7. Separate(ToSet(new), y)
      <4>1. \A c : Occurs(new, c) => c = d \/ Occurs(short, c)
        BY <3>4, <3>5, InsertAtOccurs
      <4>2. new \in Seq(S)
        BY <3>4, <3>5, InsertAtProperties
      <4>3. ToSet(new) \subseteq (ToSet(list) \ {b}) \cup {d}
        BY <2>7, <3>4, <4>1, <4>2, InToSet
      <4>4. PICK free : free = ToSet(list)
        OBVIOUS
      <4>5. PICK more : more = (free \ {b}) \cup {d}
        OBVIOUS
      <4>6. Separate(free, x)
        BY <1>1, <1>2, <2>9, <4>4 DEF Ordered
      <4>7. Following(free, x) /\ free \subseteq DOMAIN x /\ b \in free /\ d \notin free
        BY <1>4, <1>5, <2>4, <4>4
      <4>8. Separate(more, y)
        BY <2>1, <2>2, <2>5, <4>5, <4>6, <4>7, CutSeparate
      <4> QED
        BY <4>3, <4>4, <4>5, <4>8, FewerSeparate
    <3> QED
      BY <2>9, <3>2, <3>6, <3>7 DEF Ordered
  <2> QED
    BY <2>8, <2>9
<1> QED
  BY <1>10, <1>11

\* The neighbours of a block that comes back to heap_4 or heap_5: the blocks of
\* the list up to i are before it and the others behind, and no other of them
\* touches it.
LEMMA Neighbours ==
    ASSUME HeapsAssumption, Heap # 2, NEW h, NEW taken, NEW leaving, NEW b \in leaving,
           Heaped(h, taken, leaving), InOrder(h.list, ByAddress),
           NEW i, LastBelow(h, b) = i
    PROVE  /\ i \in Nat /\ i + 1 \in 1 .. Len(h.list)
           /\ b \in Nat /\ h.xBlockSize[b] \in Nat \ {0} /\ b \notin ToSet(h.list)
           /\ \A j \in 1 .. Len(h.list) : h.list[j] \in Nat /\ (j <= i <=> h.list[j] < b)
                                          /\ (i < j <=> h.list[j] > b)
           /\ (\E u \in ToSet(h.list) : u + h.xBlockSize[u] = b) => Touches(h, i, b)
           /\ b + h.xBlockSize[b] \in ToSet(h.list) => b + h.xBlockSize[b] = h.list[i + 1]
<1>1. PICK list : list = h.list
  OBVIOUS
<1>2. PICK x : x = h.xBlockSize
  OBVIOUS
<1>3. PICK free : free = ToSet(list)
  OBVIOUS
<1>4. /\ list \in Seq(Nat) /\ Len(list) \in Nat /\ DOMAIN list = 1 .. Len(list)
      /\ DOMAIN x = free \cup taken \cup leaving /\ free \cap (taken \cup leaving) = {}
      /\ \A c \in DOMAIN x : c \in Nat /\ x[c] \in Nat
      /\ \A j \in 1 .. Len(list) : list[j] \in free
      /\ \A c \in free : \E j \in 1 .. Len(list) : list[j] = c
      /\ \A c \in DOMAIN x \ taken : \A e \in DOMAIN x : c < e => c + x[c] <= e
      /\ \A c \in DOMAIN x \ (taken \cup Ends) : x[c] > 0
  <2>1. /\ list \in Seq(Nat) /\ Len(list) \in Nat /\ DOMAIN list = 1 .. Len(list)
        /\ DOMAIN x = free \cup taken \cup leaving /\ free \cap (taken \cup leaving) = {}
        /\ \A c \in DOMAIN x : c \in Nat /\ x[c] \in Nat
    BY <1>1, <1>2, <1>3, HeapedFacts
  <2>2. /\ \A j \in 1 .. Len(list) : list[j] \in free
        /\ \A c \in free : \E j \in 1 .. Len(list) : list[j] = c
    BY <1>3, <2>1 DEF ToSet
  <2>3. /\ \A c \in DOMAIN x \ taken : \A e \in DOMAIN x : c < e => c + x[c] <= e
        /\ \A c \in DOMAIN x \ (taken \cup Ends) : x[c] > 0
    BY <1>2, HeapedFacts
  <2> QED
    BY <2>1, <2>2, <2>3
<1>5. b \notin taken /\ b \notin Ends /\ b \in DOMAIN x
  BY <1>2, <1>4 DEF Heaped, Sound
<1>6. b \in Nat /\ x[b] \in Nat \ {0} /\ b \notin free
  BY <1>4, <1>5
<1>7. /\ i \in Nat /\ i + 1 \in 1 .. Len(list) /\ list[i + 1] > b
      /\ \A j \in 1 .. Len(list) : list[j] > b => i + 1 <= j
  BY <1>1, LastBelowIs
<1>8. \A j, m \in 1 .. Len(list) : j <= m => list[j] <= list[m]
  BY <1>1, <1>4 DEF InOrder, ByAddress
<1>9. ASSUME NEW j \in 1 .. Len(list)
      PROVE  /\ list[j] \in Nat /\ list[j] \in free
             /\ (j <= i <=> list[j] < b) /\ (i < j <=> list[j] > b)
  <2>1. list[j] \in Nat /\ list[j] \in free /\ list[j] # b /\ list[i + 1] \in Nat
    BY <1>4, <1>6, <1>7
  <2>2. CASE j <= i
    <3>1. ~(list[j] > b)
      BY <1>7, <2>2
    <3> QED
      BY <1>6, <1>7, <2>1, <2>2, <3>1
  <2>3. CASE i < j
    <3>1. list[i + 1] <= list[j]
      BY <1>7, <1>8, <2>3
    <3> QED
      BY <1>6, <1>7, <2>1, <2>3, <3>1
  <2> QED
    BY <1>7, <2>2, <2>3
<1>10. ASSUME NEW u \in free, u + x[u] = b
       PROVE  Touches(h, i, b)
  <2>1. u \in Nat /\ x[u] \in Nat /\ u # b /\ u < b
    BY <1>4, <1>6, <1>10
  <2>2. PICK j \in 1 .. Len(list) : list[j] = u
    BY <1>4
  <2>3. j <= i /\ i \in 1 .. Len(list) /\ i > 0
    BY <1>7, <1>9, <2>1, <2>2
  <2>4. u <= list[i] /\ list[i] < b /\ list[i] \in Nat /\ list[i] \in DOMAIN x
    BY <1>4, <1>8, <1>9, <2>2, <2>3
  <2>5. u = list[i]
    <3>1. CASE u < list[i]
      <4>1. u + x[u] <= list[i]
        BY <1>4, <2>4, <3>1
      <4> QED
        BY <1>6, <1>10, <2>1, <2>4, <4>1
    <3> QED
      BY <2>1, <2>4, <3>1
  <2> QED
    BY <1>1, <1>2, <1>10, <2>3, <2>5 DEF Touches
<1>11. ASSUME b + x[b] \in free PROVE b + x[b] = list[i + 1]
  <2>1. PICK j \in 1 .. Len(list) : list[j] = b + x[b]
    BY <1>4, <1>11
  <2>2. i + 1 <= j /\ list[i + 1] <= b + x[b]
    BY <1>6, <1>7, <1>8, <1>9, <2>1
  <2>3. list[i + 1] \in DOMAIN x /\ b < list[i + 1]
    BY <1>4, <1>7
  <2>4. b + x[b] <= list[i + 1]
    BY <1>4, <1>5, <2>3
  <2>5. list[i + 1] \in Nat
    BY <1>4, <2>3
  <2>6. b + x[b] \in Nat
    BY <1>6
  <2> QED
    BY <2>2, <2>4, <2>5, <2>6
<1> QED
  BY <1>1, <1>2, <1>3, <1>6, <1>7, <1>9, <1>10, <1>11

\* No free block ends where b begins.
Untouched(free, x, b) == \A u \in free : u + x[u] # b

\* The block that comes back and the blocks it is made one with: the block into,
\* which may be before it, up to the end of the block last, which may be behind.
LEMMA JoinSeparate ==
    ASSUME NEW free, NEW x, Separate(free, x), NEW b, NEW y, NEW new, new \subseteq free \cup {b},
           NEW into, NEW last, into + y[into] = last + x[last],
           last + x[last] \in new => last + x[last] \in Ends,
           Alike(x, y, new \ {into}), b \in new => into = b,
           b \in new => Untouched(free, x, b)
    PROVE  Separate(new, y)
<1>1. ASSUME NEW u \in new, u \notin Ends, u + y[u] \in new
      PROVE  u + y[u] \in Ends
  <2>1. CASE u = into
    BY <1>1, <2>1
  <2>2. CASE u # into
    <3>1. u \in free /\ y[u] = x[u]
      BY <2>2 DEF Alike
    <3>2. u + x[u] \in free
      BY <1>1, <3>1 DEF Untouched
    <3> QED
      BY <1>1, <3>1, <3>2 DEF Separate
  <2> QED
    BY <2>1, <2>2
<1> QED
  BY <1>1 DEF Separate

\* The place of a block by its address is right for it, and still is when the
\* next block is gone.
LEMMA AddressPlace ==
    ASSUME NEW list \in Seq(Nat), InOrder(list, ByAddress), NEW b \in Nat, NEW i \in Nat,
           i + 1 \in 1 .. Len(list),
           \A j \in 1 .. Len(list) : list[j] \in Nat /\ (j <= i <=> list[j] < b)
                                     /\ (i < j <=> list[j] > b)
    PROVE  /\ RightPlace(list, ByAddress, i + 1, b)
           /\ RightPlace(RemoveAt(list, i + 1), ByAddress, i + 1, b)
<1>1. RightPlace(list, ByAddress, i + 1, b)
  BY DEF RightPlace, ByAddress
<1>2. PICK short : short = RemoveAt(list, i + 1)
  OBVIOUS
<1>3. Len(list) \in Nat
  BY LenProperties
<1>4. /\ Len(short) = Len(list) - 1
      /\ \A j \in 1 .. Len(list) - 1 : short[j] = IF j < i + 1 THEN list[j] ELSE list[j + 1]
  <2>1. PICK S : S = Nat
    OBVIOUS
  <2>2. list \in Seq(S)
    BY <2>1
  <2>3. Len(RemoveAt(list, i + 1)) = Len(list) - 1
    BY <2>2, RemoveAtLength
  <2>4. ASSUME NEW j \in 1 .. Len(list) - 1
        PROVE  RemoveAt(list, i + 1)[j] = IF j < i + 1 THEN list[j] ELSE list[j + 1]
    BY <2>2, RemoveAtItem
  <2> QED
    BY <1>2, <2>3, <2>4
<1>5. ASSUME NEW j \in 1 .. Len(short)
      PROVE  /\ short[j] \in Nat
             /\ j < i + 1 => short[j] <= b
             /\ i + 1 <= j => b <= short[j]
  <2>1. CASE j < i + 1
    <3>1. j \in 1 .. Len(list) /\ j <= i /\ short[j] = list[j]
      BY <1>3, <1>4, <2>1
    <3> QED
      BY <2>1, <3>1
  <2>2. CASE ~(j < i + 1)
    <3>1. j + 1 \in 1 .. Len(list) /\ i < j + 1 /\ short[j] = list[j + 1]
      BY <1>3, <1>4, <2>2
    <3> QED
      BY <2>2, <3>1
  <2> QED
    BY <2>1, <2>2
<1>6. RightPlace(short, ByAddress, i + 1, b)
  BY <1>5 DEF RightPlace, ByAddress
<1> QED
  BY <1>1, <1>2, <1>6

\* In heap_4 and heap_5 what comes back finds its place by its address, and is
\* made one with what it touches there.
LEMMA InsertByAddressOrdered ==
    ASSUME HeapsAssumption, RegionsFit, Heap # 2, NEW h, NEW taken, NEW leaving, NEW b,
           b \notin leaving, Heaped(h, taken, leaving \cup {b}), Ordered(h.list, h.xBlockSize)
    PROVE  Ordered(InsertByAddress(h, b).list, InsertByAddress(h, b).xBlockSize)
<1>1. PICK list : list = h.list
  OBVIOUS
<1>2. PICK x : x = h.xBlockSize
  OBVIOUS
<1>3. PICK free : free = ToSet(list)
  OBVIOUS
<1>4. PICK all : all = leaving \cup {b}
  OBVIOUS
<1>5. PICK i : LastBelow(h, b) = i
  OBVIOUS
<1>6. PICK a, c : a = list[i] /\ c = list[i + 1]
  OBVIOUS
<1>7. PICK before \in BOOLEAN, after \in BOOLEAN :
          before = Touches(h, i, b) /\ after = Reaches(h, i, b)
  BY DEF Touches, Reaches
<1>8. PICK H : H = InsertByAddress(h, b)
  OBVIOUS
<1>9. InOrder(list, ByAddress) /\ Separate(free, x)
  BY <1>1, <1>2, <1>3 DEF Ordered
<1>10. b \in all /\ Heaped(h, taken, all)
  BY <1>4
<1>11. /\ list \in Seq(Nat) /\ Len(list) \in Nat /\ Distinct(list) /\ DOMAIN list = 1 .. Len(list)
       /\ DOMAIN x = free \cup taken \cup all /\ free \cap (taken \cup all) = {}
       /\ \A d \in DOMAIN x : d \in Nat /\ x[d] \in Nat
  BY <1>1, <1>2, <1>3, <1>10, HeapedFacts
<1>12. \A d \in DOMAIN x \cap Ends : d \in taken \/ x[d] = 0
  BY <1>2, <1>10, HeapedFacts
<1>13. /\ i \in Nat /\ i + 1 \in 1 .. Len(list)
       /\ b \in Nat /\ x[b] \in Nat \ {0} /\ b \notin free /\ b \in DOMAIN x
       /\ \A j \in 1 .. Len(list) : list[j] \in Nat /\ (j <= i <=> list[j] < b)
                                    /\ (i < j <=> list[j] > b)
       /\ (\E u \in free : u + x[u] = b) => before
       /\ b + x[b] \in free => b + x[b] = c
  <2>1. /\ i \in Nat /\ i + 1 \in 1 .. Len(h.list)
        /\ b \in Nat /\ h.xBlockSize[b] \in Nat \ {0} /\ b \notin ToSet(h.list)
        /\ \A j \in 1 .. Len(h.list) : h.list[j] \in Nat /\ (j <= i <=> h.list[j] < b)
                                       /\ (i < j <=> h.list[j] > b)
        /\ (\E u \in ToSet(h.list) : u + h.xBlockSize[u] = b) => Touches(h, i, b)
        /\ b + h.xBlockSize[b] \in ToSet(h.list) => b + h.xBlockSize[b] = h.list[i + 1]
    BY <1>1, <1>5, <1>9, <1>10, Neighbours
  <2>2. b \in DOMAIN x
    BY <1>10, <1>11
  <2> QED
    BY <1>1, <1>2, <1>3, <1>6, <1>7, <2>1, <2>2
<1>14. /\ before => i \in 1 .. Len(list) /\ a \in free /\ a + x[a] = b
       /\ after <=> b + x[b] = c /\ c # pxEnd
       /\ c \in free /\ c \in Nat /\ b < c /\ x[c] \in Nat
  <2>1. c \in free /\ c \in Nat /\ b < c
    BY <1>3, <1>6, <1>11, <1>13 DEF ToSet
  <2>2. before => i > 0 /\ a + x[a] = b
    BY <1>1, <1>2, <1>6, <1>7 DEF Touches
  <2>3. before => i \in 1 .. Len(list)
    BY <1>11, <1>13, <2>2
  <2>4. before => a \in free
    BY <1>3, <1>6, <1>11, <2>3 DEF ToSet
  <2>5. after <=> b + x[b] = c /\ c # pxEnd
    BY <1>1, <1>2, <1>6, <1>7 DEF Reaches
  <2> QED
    BY <1>11, <2>1, <2>2, <2>3, <2>4, <2>5
<1>15. PICK others : others = IF after THEN RemoveAt(list, i + 1) ELSE list
  OBVIOUS
<1>16. PICK new : new = IF before THEN others ELSE InsertAt(others, i + 1, b)
  OBVIOUS
<1>17. PICK into, last : /\ into = IF before THEN a ELSE b
                         /\ last = IF after THEN c ELSE b
  OBVIOUS
<1>18. PICK gone : gone = (IF before THEN {b} ELSE {}) \cup (IF after THEN {c} ELSE {})
  OBVIOUS
<1>19. PICK size : size = x[b] + (IF before THEN x[a] ELSE 0) + (IF after THEN x[c] ELSE 0)
  OBVIOUS
<1>20. PICK y : y = [d \in DOMAIN x \ gone |-> IF d = into THEN size ELSE x[d]]
  OBVIOUS
<1>21. H.list = new /\ H.xBlockSize = y
  <2>1. H = Joined(h, i, b, before, after)
    BY <1>5, <1>7, <1>8 DEF InsertByAddress
  <2>2. H = [h EXCEPT !.list = new, !.xBlockSize = y]
    BY <1>1, <1>2, <1>6, <1>15, <1>16, <1>17, <1>18, <1>19, <1>20, <2>1 DEF Joined
  <2> QED
    BY <1>1, <1>2, <2>2 DEF Heaped
<1>22. PICK S : S = Nat
  OBVIOUS
<1>23. PICK key : key = ByAddress
  OBVIOUS
<1>24. list \in Seq(S) /\ b \in S /\ key \in [S -> Nat]
  BY <1>11, <1>13, <1>22, <1>23 DEF ByAddress
<1>25. /\ others \in Seq(S) /\ i + 1 \in 1 .. Len(others) + 1
       /\ InOrder(others, key) /\ RightPlace(others, key, i + 1, b)
  <2>1. RightPlace(list, ByAddress, i + 1, b) /\ RightPlace(RemoveAt(list, i + 1), ByAddress, i + 1, b)
    BY <1>9, <1>11, <1>13, AddressPlace
  <2>2. RemoveAt(list, i + 1) \in Seq(S) /\ Len(RemoveAt(list, i + 1)) = Len(list) - 1
    BY <1>13, <1>24, RemoveAtProperties
  <2>3. InOrder(RemoveAt(list, i + 1), key)
    BY <1>9, <1>13, <1>23, <1>24, RemoveAtInOrder
  <2>4. CASE after
    <3>1. others = RemoveAt(list, i + 1)
      BY <1>15, <2>4
    <3>2. i + 1 \in 1 .. Len(others) + 1
      BY <1>11, <1>13, <2>2, <3>1
    <3> QED
      BY <1>23, <2>1, <2>2, <2>3, <3>1, <3>2
  <2>5. CASE ~after
    <3>1. others = list
      BY <1>15, <2>5
    <3>2. i + 1 \in 1 .. Len(others) + 1
      BY <1>11, <1>13, <3>1
    <3> QED
      BY <1>9, <1>23, <1>24, <2>1, <3>1, <3>2
  <2> QED
    BY <2>4, <2>5
<1>26. InOrder(new, ByAddress)
  <2>1. InOrder(InsertAt(others, i + 1, b), key)
    BY <1>24, <1>25, InsertAtInOrder
  <2> QED
    BY <1>16, <1>23, <1>25, <2>1
<1>27. /\ ToSet(new) \subseteq free \cup {b}
       /\ after => c \notin ToSet(new)
       /\ before => b \notin ToSet(new)
  <2>1. \A u : Occurs(others, u) => Occurs(list, u) /\ (after => u # c)
    <3>1. \A u : Occurs(RemoveAt(list, i + 1), u) <=> u # list[i + 1] /\ Occurs(list, u)
      BY <1>11, <1>13, <1>24, RemoveAtOccurs
    <3> QED
      BY <1>6, <1>15, <3>1
  <2>2. \A u : Occurs(InsertAt(others, i + 1, b), u) <=> u = b \/ Occurs(others, u)
    BY <1>24, <1>25, InsertAtOccurs
  <2>3. new \in Seq(S)
    <3>1. InsertAt(others, i + 1, b) \in Seq(S)
      BY <1>24, <1>25, InsertAtProperties
    <3> QED
      BY <1>16, <1>25, <3>1
  <2>4. \A u \in ToSet(new) : Occurs(new, u)
    BY <2>3, InToSet
  <2>5. \A u : Occurs(list, u) <=> u \in free
    BY <1>3, <1>24, InToSet
  <2>6. \A u \in ToSet(new) : (u = b /\ ~before) \/ (u \in free /\ (after => u # c))
    BY <1>16, <2>1, <2>2, <2>4, <2>5
  <2>7. b \notin free
    BY <1>13
  <2>8. b # c
    BY <1>13, <1>14
  <2>9. after => c \notin ToSet(new)
    BY <2>6, <2>8
  <2>10. before => b \notin ToSet(new)
    BY <2>6, <2>7
  <2> QED
    BY <2>6, <2>9, <2>10
<1>28. into + y[into] = last + x[last]
  <2>1. into \in DOMAIN x \ gone
    <3>1. CASE before
      <4>1. into = a /\ a \in free /\ a \in DOMAIN x /\ a \in Nat /\ x[a] \in Nat
        BY <1>11, <1>14, <1>17, <3>1
      <4>2. a # b
        BY <1>13, <4>1
      <4>3. a # c
        BY <1>13, <1>14, <3>1, <4>1
      <4> QED
        BY <1>18, <4>1, <4>2, <4>3
    <3>2. CASE ~before
      <4>1. into = b /\ b \in DOMAIN x /\ b # c
        BY <1>13, <1>14, <1>17, <3>2
      <4> QED
        BY <1>18, <3>2, <4>1
    <3> QED
      BY <3>1, <3>2
  <2>2. y[into] = size
    BY <1>20, <2>1
  <2>3. x[b] \in Nat /\ x[c] \in Nat /\ b \in Nat /\ c \in Nat
    BY <1>13, <1>14
  <2>4. before => a \in Nat /\ x[a] \in Nat /\ a + x[a] = b
    BY <1>11, <1>14
  <2>5. after => b + x[b] = c
    BY <1>14
  <2>6. CASE before /\ after
    BY <1>17, <1>19, <2>2, <2>3, <2>4, <2>5, <2>6
  <2>7. CASE before /\ ~after
    BY <1>17, <1>19, <2>2, <2>3, <2>4, <2>7
  <2>8. CASE ~before /\ after
    BY <1>17, <1>19, <2>2, <2>3, <2>5, <2>8
  <2>9. CASE ~before /\ ~after
    BY <1>17, <1>19, <2>2, <2>3, <2>9
  <2> QED
    BY <2>6, <2>7, <2>8, <2>9
<1>29. ASSUME last + x[last] \in ToSet(new) PROVE last + x[last] \in Ends
  <2>1. CASE after
    <3>1. last = c /\ c + x[c] \in free
      BY <1>13, <1>14, <1>17, <1>27, <1>29, <2>1
    <3>2. c \notin taken /\ c \in DOMAIN x
      BY <1>11, <1>14
    <3>3. c \notin Ends
      <4>1. CASE c \in Ends
        <5>1. x[c] = 0 /\ c + x[c] = c
          BY <1>12, <1>14, <3>2, <4>1
        <5> QED
          BY <1>27, <1>29, <2>1, <3>1, <5>1
      <4> QED
        BY <4>1
    <3> QED
      BY <1>9, <1>14, <3>1, <3>3 DEF Separate
  <2>2. CASE ~after
    <3>1. last = b /\ b + x[b] \in free
      BY <1>13, <1>17, <1>27, <1>29, <2>2
    <3>2. b + x[b] = pxEnd
      BY <1>13, <1>14, <2>2, <3>1
    <3> QED
      BY <3>1, <3>2, StartsAndEnds
  <2> QED
    BY <2>1, <2>2
<1>30. Alike(x, y, ToSet(new) \ {into})
  <2>1. \A u \in ToSet(new) : u \in DOMAIN x \ gone
    BY <1>11, <1>13, <1>18, <1>27
  <2> QED
    BY <1>20, <2>1 DEF Alike
<1>31. Separate(ToSet(new), y)
  <2>1. PICK left : left = ToSet(new)
    OBVIOUS
  <2>2. left \subseteq free \cup {b} /\ (b \in left => into = b)
    BY <1>17, <1>27, <2>1
  <2>3. b \in left => Untouched(free, x, b)
    BY <1>13, <1>27, <2>1 DEF Untouched
  <2>4. last + x[last] \in left => last + x[last] \in Ends
    BY <1>29, <2>1
  <2>5. Separate(left, y)
    BY <1>9, <1>28, <1>30, <2>1, <2>2, <2>3, <2>4, JoinSeparate
  <2> QED
    BY <2>1, <2>5
<1> QED
  BY <1>8, <1>21, <1>26, <1>31 DEF Ordered

\* The order of an initialised heap.
OrderInv == Initialised => Ordered(heap.list, heap.xBlockSize)

\* What pvPortMalloc leaves in the list is in the order.
LEMMA GivenOrdered ==
    ASSUME HeapsAssumption, RegionsFit, NEW h, NEW taken, NEW leaving, Heaped(h, taken, leaving),
           Ordered(h.list, h.xBlockSize),
           NEW i \in 1 .. Len(h.list), NEW b, h.list[i] = b, b \notin Ends,
           NEW size \in Nat, 0 < size, h.xBlockSize[b] >= size
    PROVE  Ordered(Given(h, i, size).list, Given(h, i, size).xBlockSize)
<1>1. PICK s : Split(h, i, size) = s
  OBVIOUS
<1>2. Ordered(s.list, s.xBlockSize)
  BY <1>1, SplitOrdered
<1>3. Heaped(s, taken, leaving \cup {b})
  <2>1. /\ Heaped(s, taken, leaving \cup {b}) /\ s.xBlockSize[b] >= size
        /\ Alike(h.xBlockSize, s.xBlockSize, taken \cup leaving)
    BY <1>1, SplitKeeps
  <2> QED
    BY <2>1
<1>4. PICK list : list = s.list
  OBVIOUS
<1>5. PICK x : x = s.xBlockSize
  OBVIOUS
<1>6. PICK g : g = Given(h, i, size)
  OBVIOUS
<1>7. PICK y : y = g.xBlockSize
  OBVIOUS
<1>8. PICK all : all = leaving \cup {b}
  OBVIOUS
<1>9. /\ {"list", "xBlockSize"} \subseteq DOMAIN s
      /\ DOMAIN list = 1 .. Len(list)
      /\ DOMAIN x = ToSet(list) \cup taken \cup all
      /\ ToSet(list) \cap (taken \cup all) = {}
  <2>1. Heaped(s, taken, all)
    BY <1>3, <1>8
  <2>2. /\ DOMAIN list = 1 .. Len(list)
        /\ DOMAIN x = ToSet(list) \cup taken \cup all
        /\ ToSet(list) \cap (taken \cup all) = {}
    BY <1>4, <1>5, <2>1, HeapedFacts
  <2> QED
    BY <1>3, <2>2 DEF Heaped
<1>10. \E v : g.list = list /\ y = [x EXCEPT ![b] = v]
  <2>1. PICK free, lowest, count, v :
            g = [s EXCEPT !.xBlockSize[b] = v,
                          !.xFreeBytesRemaining = free,
                          !.xMinimumEverFreeBytesRemaining = lowest,
                          !.xNumberOfSuccessfulAllocations = count]
    BY <1>1, <1>6 DEF Given
  <2>2. g.list = s.list /\ g.xBlockSize = [s.xBlockSize EXCEPT ![b] = v]
    BY <1>9, <2>1
  <2> QED
    BY <1>4, <1>5, <1>7, <2>2
<1>11. Alike(x, y, ToSet(list))
  BY <1>8, <1>9, <1>10 DEF Alike
<1>12. Ordered(list, y)
  BY <1>2, <1>4, <1>5, <1>9, <1>11, OrderedAlike
<1> QED
  BY <1>6, <1>7, <1>10, <1>12

\* What comes back finds its place, whichever heap it is.
LEMMA InsertOrdered ==
    ASSUME HeapsAssumption, RegionsFit, NEW h, NEW taken, NEW leaving, NEW b,
           b \notin leaving, Heaped(h, taken, leaving \cup {b}), Ordered(h.list, h.xBlockSize),
           NEW g, g = prvInsertBlockIntoFreeList(h, b)
    PROVE  Ordered(g.list, g.xBlockSize)
<1>1. CASE Heap = 2
  <2>1. InOrder(h.list, h.xBlockSize)
    BY <1>1 DEF Ordered
  <2>2. InOrder(InsertBySize(h, b).list, InsertBySize(h, b).xBlockSize)
    BY <1>1, <2>1, InsertBySizeOrdered
  <2> QED
    BY <1>1, <2>2 DEF Ordered, prvInsertBlockIntoFreeList
<1>2. CASE Heap # 2
  <2>1. Ordered(InsertByAddress(h, b).list, InsertByAddress(h, b).xBlockSize)
    BY <1>2, InsertByAddressOrdered
  <2> QED
    BY <1>2, <2>1 DEF prvInsertBlockIntoFreeList
<1> QED
  BY <1>1, <1>2

\* So is the heap once prvHeapInit is done.
LEMMA AwakeOrdered ==
    ASSUME HeapsAssumption, RegionsFit, OrderInv
    PROVE  Ordered(Awake.list, Awake.xBlockSize)
<1>1. CASE Initialised
  BY <1>1 DEF Awake, OrderInv
<1>2. CASE ~Initialised
  <2>1. Awake = prvHeapInit
    BY <1>2 DEF Awake
  <2> QED
    BY <2>1, InitOrdered
<1> QED
  BY <1>1, <1>2

\* pvPortMalloc keeps the order.
LEMMA MallocOrdered ==
    ASSUME HeapsAssumption, RegionsFit, HeapsInv, OrderInv, NEW t \in Callers, NEW n \in Sizes,
           pvPortMalloc(t, n)
    PROVE  Ordered(heap'.list, heap'.xBlockSize)
<1>1. PICK size : RequiredSize(n) = size
  OBVIOUS
<1>2. PICK h : h = Awake
  OBVIOUS
<1>3. Heaped(h, Taken, Leaving) /\ Ordered(h.list, h.xBlockSize)
  BY <1>2, AwakeHeaped, AwakeOrdered
<1>4. PICK i : i = FirstFit(h, size)
  OBVIOUS
<1>5. heap' = IF Address(h, size) = None THEN h ELSE Given(h, i, size)
  BY <1>1, <1>2, <1>4 DEF pvPortMalloc
<1>6. CASE Address(h, size) = None
  BY <1>3, <1>5, <1>6
<1>7. CASE Address(h, size) # None
  <2>1. PICK b : h.list[i] = b
    OBVIOUS
  <2>2. /\ i \in 1 .. Len(h.list) /\ b \notin Ends /\ h.xBlockSize[b] >= size
        /\ size \in Nat /\ 0 < size
    BY <1>1, <1>3, <1>4, <1>7, <2>1, AddressIs
  <2>3. Ordered(Given(h, i, size).list, Given(h, i, size).xBlockSize)
    BY <1>3, <2>1, <2>2, GivenOrdered
  <2> QED
    BY <1>5, <1>7, <2>3
<1> QED
  BY <1>6, <1>7

\* vPortFree changes no free block before the scheduler is suspended.
LEMMA FreeOrdered ==
    ASSUME HeapsAssumption, RegionsFit, HeapsInv, OrderInv, NEW t \in Callers, NEW l \in live,
           vPortFree(t, l)
    PROVE  Ordered(heap'.list, heap'.xBlockSize)
<1>1. PICK b : b = l.at - xHeapStructSize
  OBVIOUS
<1>2. PICK list : list = heap.list
  OBVIOUS
<1>3. PICK x : x = heap.xBlockSize
  OBVIOUS
<1>4. PICK y : y = heap'.xBlockSize
  OBVIOUS
<1>5. b \in Taken /\ Initialised
  BY <1>1, InvariantParts DEF Taken
<1>6. Heaped(heap, Taken, Leaving)
  BY <1>5, InvariantParts
<1>7. Ordered(list, x)
  BY <1>2, <1>3, <1>5 DEF OrderInv
<1>8. /\ DOMAIN list = 1 .. Len(list) /\ DOMAIN x = ToSet(list) \cup Taken \cup Leaving
      /\ ToSet(list) \cap (Taken \cup Leaving) = {}
  BY <1>2, <1>3, <1>6, HeapedFacts
<1>9. \E v : heap'.list = list /\ y = [x EXCEPT ![b] = v]
  <2>1. PICK v : heap' = [heap EXCEPT !.xBlockSize[b] = v]
    BY <1>1 DEF vPortFree
  <2>2. {"list", "xBlockSize"} \subseteq DOMAIN heap
    BY <1>6 DEF Heaped
  <2>3. heap'.list = heap.list /\ heap'.xBlockSize = [heap.xBlockSize EXCEPT ![b] = v]
    BY <2>1, <2>2
  <2> QED
    BY <1>2, <1>3, <1>4, <2>3
<1>10. Alike(x, y, ToSet(list))
  BY <1>5, <1>8, <1>9 DEF Alike
<1>11. Ordered(list, y)
  BY <1>7, <1>8, <1>10, OrderedAlike
<1> QED
  BY <1>4, <1>9, <1>11

\* The rest of vPortFree keeps the order.
LEMMA BackOrdered ==
    ASSUME HeapsAssumption, RegionsFit, HeapsInv, OrderInv, NEW t \in Callers, Insert(t)
    PROVE  Ordered(heap'.list, heap'.xBlockSize)
<1>1. PICK b : b = call[t].block
  OBVIOUS
<1>2. PICK others : others = Leaving \ {b}
  OBVIOUS
<1>3. b \in Leaving
  BY <1>1 DEF Insert, Leaving
<1>4. Initialised
  BY <1>3, InvariantParts
<1>5. Heaped(heap, Taken, others \cup {b}) /\ b \notin others
  <2>1. Leaving = others \cup {b}
    BY <1>2, <1>3
  <2> QED
    BY <1>2, <1>4, <2>1, InvariantParts
<1>6. PICK g : g = prvInsertBlockIntoFreeList(heap, b)
  OBVIOUS
<1>7. {"list", "xBlockSize"} \subseteq DOMAIN g
  <2>1. PICK h, taken : h = heap /\ taken = Taken
    OBVIOUS
  <2>2. Heaped(prvInsertBlockIntoFreeList(h, b), taken, others)
    BY <1>5, <2>1, InsertKeeps
  <2> QED
    BY <1>6, <2>1, <2>2 DEF Heaped
<1>8. Ordered(g.list, g.xBlockSize)
  <2>1. PICK h, taken : h = heap /\ taken = Taken
    OBVIOUS
  <2>2. Heaped(h, taken, others \cup {b}) /\ Ordered(h.list, h.xBlockSize)
    BY <1>4, <1>5, <2>1 DEF OrderInv
  <2>3. g = prvInsertBlockIntoFreeList(h, b)
    BY <1>6, <2>1
  <2> QED
    BY <1>5, <2>2, <2>3, InsertOrdered
<1>9. heap'.list = g.list /\ heap'.xBlockSize = g.xBlockSize
  <2>1. PICK count, frees :
            heap' = [g EXCEPT !.xFreeBytesRemaining = count, !.xNumberOfSuccessfulFrees = frees]
    BY <1>1, <1>6 DEF Insert
  <2> QED
    BY <1>7, <2>1
<1> QED
  BY <1>8, <1>9

\* Every step keeps the order.
LEMMA EveryStepOrdered ==
    ASSUME HeapsAssumption, RegionsFit, HeapsInv, OrderInv, [Next]_vars
    PROVE  OrderInv'
<1>1. ASSUME NEW t \in Callers, vPortDefineHeapRegions(t)
      PROVE  Ordered(heap'.list, heap'.xBlockSize)
  BY <1>1, InitOrdered DEF vPortDefineHeapRegions
<1>2. ASSUME NEW t \in Callers, NEW n \in Sizes, pvPortMalloc(t, n)
      PROVE  Ordered(heap'.list, heap'.xBlockSize)
  BY <1>2, MallocOrdered
<1>3. ASSUME NEW t \in Callers, NEW l \in live, vPortFree(t, l)
      PROVE  Ordered(heap'.list, heap'.xBlockSize)
  BY <1>3, FreeOrdered
<1>4. ASSUME NEW t \in Callers, Insert(t)
      PROVE  Ordered(heap'.list, heap'.xBlockSize)
  BY <1>4, BackOrdered
<1>5. ASSUME NEW t \in Callers, vPortGetHeapStats(t) \/ ReadCounters(t)
      PROVE  heap' = heap
  BY <1>5 DEF vPortGetHeapStats, ReadCounters
<1>6. UNCHANGED vars => heap' = heap
  BY DEF vars
<1>7. Ordered(heap'.list, heap'.xBlockSize) \/ heap' = heap
  BY <1>1, <1>2, <1>3, <1>4, <1>5, <1>6 DEF Next
<1>8. Ordered(heap'.list, heap'.xBlockSize) => OrderInv'
  BY DEF OrderInv, Ordered, InOrder, Separate
<1>9. heap' = heap => OrderInv'
  BY DEF OrderInv, Initialised, Ordered, InOrder, Separate
<1> QED
  BY <1>7, <1>8, <1>9

\* The free blocks are in their order, whatever is asked of the heap and given
\* back.
THEOREM FreeBlocksStayOrdered ==
    ASSUME HeapsAssumption, RegionsFit
    PROVE  Spec => []OrderInv
<1>1. Init => OrderInv
  BY DEF Init, Sleeping, OrderInv, Initialised
<1>2. HeapsInv /\ OrderInv /\ [Next]_vars => OrderInv'
  BY EveryStepOrdered
<1> QED
  BY <1>1, <1>2, HeapStaysInOrder, PTL DEF Spec

\* No two free blocks of heap_4 or heap_5 touch: whatever comes back has been
\* made one with its neighbours.
THEOREM NeighboursAreJoined ==
    ASSUME HeapsAssumption, RegionsFit, Heap # 2
    PROVE  Spec => []Coalesced
<1>1. ASSUME HeapsInv, OrderInv, Initialised
      PROVE  Coalesced
  <2>1. PICK list : list = heap.list
    OBVIOUS
  <2>2. PICK x : x = heap.xBlockSize
    OBVIOUS
  <2>3. PICK free : free = ToSet(list)
    OBVIOUS
  <2>4. Heaped(heap, Taken, Leaving)
    BY <1>1, InvariantParts
  <2>5. PICK h, taken, leaving : h = heap /\ taken = Taken /\ leaving = Leaving
    OBVIOUS
  <2>6. /\ Len(list) \in Nat /\ DOMAIN list = 1 .. Len(list) /\ Distinct(list)
        /\ DOMAIN x = free \cup taken \cup leaving /\ free \cap (taken \cup leaving) = {}
        /\ \A c \in DOMAIN x : c \in Nat /\ x[c] \in Nat
    BY <2>1, <2>2, <2>3, <2>4, <2>5, HeapedFacts
  <2>7. /\ \A c \in DOMAIN x \ taken : \A d \in DOMAIN x : c < d => c + x[c] <= d
        /\ \A c \in DOMAIN x \cap Ends : c \in taken \/ x[c] = 0
    BY <2>2, <2>4, <2>5, HeapedFacts
  <2>8. InOrder(list, ByAddress) /\ Separate(free, x)
    BY <1>1, <2>1, <2>2, <2>3 DEF OrderInv, Ordered
  <2>9. ASSUME NEW i \in 1 .. Len(list) - 2
        PROVE  \/ list[i] + x[list[i]] < list[i + 1]
               \/ list[i] + x[list[i]] = list[i + 1] /\ x[list[i] + x[list[i]]] = 0
    <3>1. PICK b, c : b = list[i] /\ c = list[i + 1]
      OBVIOUS
    <3>2. i \in 1 .. Len(list) /\ i + 1 \in 1 .. Len(list) /\ i <= i + 1 /\ i # i + 1
      BY <2>6
    <3>3. b \in free /\ c \in free
      BY <2>3, <2>6, <3>1, <3>2 DEF ToSet
    <3>4. /\ b \in Nat /\ c \in Nat /\ x[b] \in Nat /\ x[c] \in Nat
          /\ b \in DOMAIN x /\ c \in DOMAIN x /\ b \notin taken /\ c \notin taken
      BY <2>6, <3>3
    <3>5. b < c
      <4>1. b # c
        BY <2>6, <3>1, <3>2 DEF Distinct
      <4>2. b <= c
        BY <2>8, <3>1, <3>2, <3>4 DEF InOrder, ByAddress
      <4> QED
        BY <3>4, <4>1, <4>2
    <3>6. b + x[b] <= c
      BY <2>7, <3>4, <3>5
    <3>7. CASE b + x[b] = c
      <4>1. b \notin Ends
        <5>1. b \in Ends => x[b] = 0
          BY <2>7, <3>4
        <5> QED
          BY <3>4, <3>5, <3>7, <5>1
      <4>2. c \in Ends
        BY <2>8, <3>3, <3>7, <4>1 DEF Separate
      <4>3. x[c] = 0
        BY <2>7, <3>4, <4>2
      <4> QED
        BY <3>1, <3>7, <4>3
    <3> QED
      BY <3>1, <3>4, <3>6, <3>7
  <2> QED
    BY <2>1, <2>2, <2>9 DEF Coalesced
<1>2. HeapsInv /\ ~Initialised => Coalesced
  <2>1. ASSUME heap.list = <<>> PROVE Coalesced
    <3>1. Len(heap.list) = 0
      BY <2>1, EmptySeq
    <3> QED
      BY <3>1 DEF Coalesced
  <2> QED
    BY <2>1 DEF Initialised
<1>3. HeapsInv /\ OrderInv => Coalesced
  BY <1>1, <1>2
<1> QED
  BY <1>3, HeapStaysInOrder, FreeBlocksStayOrdered, PTL

\* The free blocks of heap_2 are in the order of their sizes: the first that is
\* large enough fits best.
THEOREM SmallestFitsFirst ==
    ASSUME HeapsAssumption, RegionsFit, Heap = 2
    PROVE  Spec => []OrderedBySize
<1>1. HeapsInv /\ OrderInv => OrderedBySize
  <2>1. CASE Initialised /\ HeapsInv /\ OrderInv
    <3>1. InOrder(heap.list, heap.xBlockSize)
      BY <2>1 DEF OrderInv, Ordered
    <3>2. Len(heap.list) \in Nat
      <4>1. heap.list \in Seq(Nat)
        BY <2>1 DEF HeapsInv, Sound
      <4> QED
        BY <4>1, LenProperties
    <3> QED
      BY <3>1, <3>2 DEF InOrder, OrderedBySize
  <2>2. CASE ~Initialised
    <3>1. Len(heap.list) = 0
      BY <2>2, EmptySeq DEF Initialised
    <3> QED
      BY <3>1 DEF OrderedBySize
  <2> QED
    BY <2>1, <2>2
<1> QED
  BY <1>1, HeapStaysInOrder, FreeBlocksStayOrdered, PTL
=============================================================================
