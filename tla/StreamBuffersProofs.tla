------------------------ MODULE StreamBuffersProofs ------------------------
(***************************************************************************)
(* Proofs about stream, batching and message buffers of any length, for a  *)
(* writer and a reader that are tasks or interrupts: no wake-up is lost,   *)
(* and the bytes of a stream arrive once and in order.  They are about     *)
(* buffers whose indices fit in one half of a size_t: those of more bytes  *)
(* are read through indices of which one half was stored.                  *)
(***************************************************************************)
EXTENDS StreamBuffers, TLAPS

\* At most 256 bytes of storage, on this processor.
StoredAtOnce == StreamAssumption /\ Base >= xLength

-----------------------------------------------------------------------------
(* The ring.                                                                *)

\* An index stored in two halves is there when the first is stored.
LEMMA LowHalfIsAll ==
    ASSUME StoredAtOnce, NEW old \in Indexes, NEW new \in Indexes
    PROVE  LowHalf(old, new) = new
<1>1. Base \in Nat /\ old \in 0 .. Base - 1 /\ new \in 0 .. Base - 1
  BY DEF StoredAtOnce, StreamAssumption, Indexes
<1>2. old \div Base = 0 /\ new % Base = new
  BY <1>1
<1> QED
  BY <1>1, <1>2 DEF LowHalf

\* The bytes between two indices, and the free space beside them.
LEMMA BytesAndSpaces ==
    ASSUME StreamAssumption, head \in Indexes, tail \in Indexes
    PROVE  /\ prvBytesInBuffer \in 0 .. xLength - 1
           /\ prvBytesInBuffer = IF head >= tail THEN head - tail ELSE head - tail + xLength
           /\ xStreamBufferSpacesAvailable = xLength - 1 - prvBytesInBuffer
           /\ xStreamBufferSpacesAvailable \in 0 .. xLength - 1
  BY DEF StreamAssumption, Indexes, prvBytesInBuffer, BytesBetween, xStreamBufferSpacesAvailable

\* The same of two indices that will be stored.
LEMMA SpacesAt ==
    ASSUME StreamAssumption, head' \in Indexes, tail' \in Indexes
    PROVE  xStreamBufferSpacesAvailable' = xLength - 1 - BytesBetween(tail', head')
<1>1. ASSUME NEW t \in Indexes, NEW h \in Indexes
      PROVE  (LET space == xLength + t - h - 1
              IN  IF space >= xLength THEN space - xLength ELSE space)
             = xLength - 1 - BytesBetween(t, h)
  BY DEF StreamAssumption, Indexes, BytesBetween
<1> QED
  BY <1>1 DEF xStreamBufferSpacesAvailable

\* An index moved on is an index, and moving on twice is moving on by the sum.
LEMMA AdvanceAdds ==
    ASSUME StreamAssumption, NEW i \in Indexes, NEW n \in 0 .. xLength
    PROVE  /\ Advance(i, n) \in Indexes
           /\ Advance(i, 0) = i
           /\ \A m \in 0 .. xLength : n + m <= xLength => Advance(Advance(i, n), m) = Advance(i, n + m)
           /\ \A m \in 0 .. xLength - 1 : n < xLength /\ Advance(i, n) = Advance(i, m) => n = m
  BY DEF StreamAssumption, Indexes, Advance

\* Bytes behind those in the buffer make it fuller by so many, bytes taken emptier.
LEMMA AdvanceCounts ==
    ASSUME StreamAssumption, NEW t \in Indexes, NEW h \in Indexes, NEW n \in Nat
    PROVE  /\ BytesBetween(t, h) \in 0 .. xLength - 1
           /\ Advance(t, BytesBetween(t, h)) = h
           /\ BytesBetween(t, h) + n < xLength =>
                 BytesBetween(t, Advance(h, n)) = BytesBetween(t, h) + n
           /\ n <= BytesBetween(t, h) =>
                 BytesBetween(Advance(t, n), h) = BytesBetween(t, h) - n
  BY DEF StreamAssumption, Indexes, Advance, BytesBetween

\* prvWriteBytesToBuffer puts the bytes from an index on, around the end of the
\* storage, and leaves the others alone.
LEMMA WrittenIs ==
    ASSUME StreamAssumption, storage \in [Indexes -> Bytes], NEW h \in Indexes,
           NEW data \in Seq(Bytes), Len(data) < xLength
    PROVE  /\ Written(data, h) \in [Indexes -> Bytes]
           /\ \A k \in 1 .. Len(data) : Written(data, h)[Advance(h, k - 1)] = data[k]
           /\ \A k \in Len(data) .. xLength - 1 :
                 Written(data, h)[Advance(h, k)] = storage[Advance(h, k)]
<1> DEFINE at(j) == IF j >= h THEN j - h + 1 ELSE j + xLength - h + 1
<1>1. \A j \in Indexes : at(j) \in 1 .. xLength
  BY DEF StreamAssumption, Indexes
<1>2. \A k \in 0 .. xLength - 1 : Advance(h, k) \in Indexes /\ at(Advance(h, k)) = k + 1
  BY DEF StreamAssumption, Indexes, Advance
<1>3. Written(data, h) = [j \in Indexes |-> IF at(j) <= Len(data) THEN data[at(j)] ELSE storage[j]]
  BY DEF Written
<1> HIDE DEF at
<1>4. Written(data, h) \in [Indexes -> Bytes]
  <2>1. \A j \in Indexes : at(j) <= Len(data) => data[at(j)] \in Bytes
    BY <1>1 DEF StreamAssumption
  <2> QED
    BY <1>3, <2>1
<1>5. ASSUME NEW k \in 1 .. Len(data)
      PROVE  Written(data, h)[Advance(h, k - 1)] = data[k]
  <2>1. k - 1 \in 0 .. xLength - 1 /\ (k - 1) + 1 = k
    BY DEF StreamAssumption
  <2>2. Advance(h, k - 1) \in Indexes /\ at(Advance(h, k - 1)) = k
    BY <1>2, <2>1
  <2> QED
    BY <1>3, <2>2
<1>6. ASSUME NEW k \in Len(data) .. xLength - 1
      PROVE  Written(data, h)[Advance(h, k)] = storage[Advance(h, k)]
  <2>1. k \in 0 .. xLength - 1 /\ ~ (k + 1 <= Len(data))
    BY DEF StreamAssumption
  <2> QED
    BY <1>2, <1>3, <2>1
<1> QED
  BY <1>4, <1>5, <1>6

\* The bytes between two indices stay when others are written behind them.
LEMMA WrittenElsewhere ==
    ASSUME StreamAssumption, storage \in [Indexes -> Bytes], NEW h \in Indexes, NEW t \in Indexes,
           NEW data \in Seq(Bytes), Len(data) + BytesBetween(t, h) < xLength,
           NEW k \in 1 .. BytesBetween(t, h)
    PROVE  Written(data, h)[Advance(t, k - 1)] = storage[Advance(t, k - 1)]
<1> DEFINE m == xLength - BytesBetween(t, h) + k - 1
<1>1. BytesBetween(t, h) \in 0 .. xLength - 1 /\ xLength \in Nat /\ Len(data) \in Nat
  BY AdvanceCounts DEF StreamAssumption
<1>2. m \in Len(data) .. xLength - 1 /\ Len(data) < xLength
  BY <1>1
<1>3. Advance(h, m) = Advance(t, k - 1)
  BY DEF StreamAssumption, Indexes, BytesBetween, Advance
<1> HIDE DEF m
<1> QED
  BY <1>2, <1>3, WrittenIs

\* prvReadBytesFromBuffer: the bytes from an index on.
LEMMA BytesFromIs ==
    ASSUME StreamAssumption, storage \in [Indexes -> Bytes], NEW i \in Indexes,
           NEW n \in 0 .. xLength
    PROVE  /\ BytesFrom(i, n) \in Seq(Bytes) /\ Len(BytesFrom(i, n)) = n
           /\ \A k \in 1 .. n : BytesFrom(i, n)[k] = storage[Advance(i, k - 1)]
<1>1. n \in Nat
  BY DEF StreamAssumption
<1>2. ASSUME NEW k \in 1 .. n
      PROVE  storage[Advance(i, k - 1)] \in Bytes
  <2>1. k - 1 \in 0 .. xLength
    BY DEF StreamAssumption
  <2>2. Advance(i, k - 1) \in Indexes
    BY <2>1, AdvanceAdds
  <2> QED
    BY <2>2
<1> DEFINE cell(k) == storage[Advance(i, k - 1)]
<1>3. BytesFrom(i, n) = [k \in 1 .. n |-> cell(k)]
  BY DEF BytesFrom
<1>4. \A k \in 1 .. n : cell(k) \in Bytes
  BY <1>2
<1> HIDE DEF cell
<1>5. /\ BytesFrom(i, n) \in Seq(Bytes) /\ Len(BytesFrom(i, n)) = n
      /\ \A k \in 1 .. n : BytesFrom(i, n)[k] = cell(k)
  BY <1>1, <1>3, <1>4
<1> QED
  BY <1>5 DEF cell

\* The bytes of the length of a message.
Overhead == IF Kind = "message" THEN sbBYTES_TO_STORE_MESSAGE_LENGTH ELSE 0

\* prvReadMessageFromBuffer takes no more than there is, and gives the reader what
\* it takes but the length of a message.
LEMMA TakenIs ==
    ASSUME StreamAssumption, storage \in [Indexes -> Bytes], tail \in Indexes,
           NEW room \in Nat, NEW available \in 0 .. xLength - 1,
           Kind = "message" => available > sbBYTES_TO_STORE_MESSAGE_LENGTH
    PROVE  /\ Taken(room, available) \in 0 .. available
           /\ Taken(room, available) # 0 =>
                 /\ Given(Taken(room, available)) \in Seq(Bytes)
                 /\ Len(Given(Taken(room, available))) + Overhead = Taken(room, available)
           /\ Kind # "message" =>
                 Given(Taken(room, available)) = BytesFrom(tail, Taken(room, available))
<1>1. xLength \in Nat /\ available \in Nat
  BY DEF StreamAssumption
<1>2. CASE Kind # "message"
  <2>1. Taken(room, available) \in 0 .. available
    BY <1>1, <1>2 DEF Taken
  <2>2. Taken(room, available) \in 0 .. xLength
    BY <1>1, <2>1
  <2>3. Given(Taken(room, available)) = BytesFrom(tail, Taken(room, available))
    BY <1>2 DEF Given
  <2> QED
    BY <1>1, <1>2, <2>1, <2>2, <2>3, BytesFromIs DEF Overhead
<1>3. CASE Kind = "message"
  <2>1. LengthAt(tail) \in Nat
    <3>1. 1 \in 0 .. xLength
      BY <1>1 DEF StreamAssumption
    <3>2. storage[tail] \in Bytes /\ storage[Advance(tail, 1)] \in Bytes
      BY <3>1, AdvanceAdds
    <3>3. storage[tail] \in Nat /\ storage[Advance(tail, 1)] \in Nat /\ Base \in Nat
      BY <3>2 DEF Bytes, StreamAssumption
    <3> QED
      BY <3>3 DEF LengthAt
  <2> DEFINE n == LengthAt(tail)
             rest == available - 2
             given == IF n < rest THEN n ELSE rest
  <2>2. Taken(room, available) = IF n > room THEN 0 ELSE 2 + given
    BY <1>3 DEF Taken, sbBYTES_TO_STORE_MESSAGE_LENGTH
  <2>3. rest \in Nat /\ rest > 0 /\ rest + 2 = available
    BY <1>1, <1>3 DEF sbBYTES_TO_STORE_MESSAGE_LENGTH
  <2>4. given \in Nat /\ given <= rest
    BY <2>1, <2>3
  <2> HIDE DEF n, rest, given
  <2>5. Taken(room, available) \in 0 .. available
    BY <1>1, <2>2, <2>3, <2>4
  <2>6. ASSUME Taken(room, available) # 0
        PROVE  /\ Given(Taken(room, available)) \in Seq(Bytes)
               /\ Len(Given(Taken(room, available))) + Overhead = Taken(room, available)
    <3>1. Taken(room, available) = 2 + given
      BY <2>2, <2>6
    <3>2. Given(Taken(room, available)) = BytesFrom(Advance(tail, 2), given)
      <4>1. Taken(room, available) - 2 = given
        BY <2>4, <3>1
      <4> QED
        BY <1>3, <4>1 DEF Given, sbBYTES_TO_STORE_MESSAGE_LENGTH
    <3>3. given \in 0 .. xLength /\ 2 \in 0 .. xLength
      BY <1>1, <2>3, <2>4
    <3>4. Advance(tail, 2) \in Indexes
      BY <3>3, AdvanceAdds
    <3>5. /\ BytesFrom(Advance(tail, 2), given) \in Seq(Bytes)
          /\ Len(BytesFrom(Advance(tail, 2), given)) = given
      BY <3>3, <3>4, BytesFromIs
    <3> QED
      BY <1>3, <2>4, <3>1, <3>2, <3>5 DEF Overhead, sbBYTES_TO_STORE_MESSAGE_LENGTH
  <2> QED
    BY <1>3, <2>5, <2>6
<1> QED
  BY <1>2, <1>3

\* prvWriteMessageToBuffer writes no more than there is room for: the first bytes of
\* the data, all of them behind their length if they are a message.
LEMMA ChunkIs ==
    ASSUME StoredAtOnce, NEW data \in Seq(Bytes), NEW space \in 0 .. xLength - 1
    PROVE  /\ Chunk(data, space) \in Seq(Bytes) /\ Len(Chunk(data, space)) <= space
           /\ Chunk(data, space) # <<>> =>
                 /\ Len(Chunk(data, space)) > 0
                 /\ Payload(Chunk(data, space)) \in 0 .. Len(data)
                 /\ Payload(Chunk(data, space)) + Overhead = Len(Chunk(data, space))
           /\ Kind # "message" =>
                 Chunk(data, space) = SubSeq(data, 1, Payload(Chunk(data, space)))
<1> DEFINE c == Chunk(data, space)
<1>1. xLength \in Nat /\ space \in Nat /\ Len(data) \in Nat /\ Base \in Nat \ {0, 1} /\ xLength <= Base
  BY DEF StoredAtOnce, StreamAssumption
<1>2. CASE Kind # "message"
  <2> DEFINE m == IF Len(data) < space THEN Len(data) ELSE space
  <2>1. c = SubSeq(data, 1, m) /\ Payload(c) = Len(c)
    BY <1>2 DEF Chunk, Payload
  <2>2. m \in 0 .. Len(data) /\ m <= space
    BY <1>1
  <2> HIDE DEF c, m
  <2>3. c \in Seq(Bytes) /\ Len(c) = m
    BY <1>1, <2>1, <2>2
  <2>4. c # <<>> => Len(c) > 0
    BY <2>3
  <2>5. Payload(c) + Overhead = Len(c) /\ Payload(c) \in 0 .. Len(data)
    BY <1>1, <1>2, <2>1, <2>2, <2>3 DEF Overhead
  <2>6. c = SubSeq(data, 1, Payload(c))
    BY <2>1, <2>3
  <2>7. Len(c) <= space
    BY <2>2, <2>3
  <2> QED
    BY <2>3, <2>4, <2>5, <2>6, <2>7 DEF c
<1>3. CASE Kind = "message"
  <2>1. CASE space >= Len(data) + 2
    <3>1. c = LengthAsBytes(Len(data)) \o data
      BY <1>3, <2>1 DEF Chunk, sbBYTES_TO_STORE_MESSAGE_LENGTH
    <3>2. Len(data) < Base
      BY <1>1, <2>1
    <3>3. Len(data) % Base \in Bytes /\ Len(data) \div Base \in Bytes
      <4>1. Len(data) % Base = Len(data) /\ Len(data) \div Base = 0
        BY <1>1, <3>2
      <4>2. Len(data) \in Bytes /\ 0 \in Bytes
        BY <1>1, <3>2 DEF Bytes
      <4> QED
        BY <4>1, <4>2
    <3> DEFINE low == Len(data) % Base
               high == Len(data) \div Base
    <3>4. c = <<low, high>> \o data /\ low \in Bytes /\ high \in Bytes
      BY <3>1, <3>3 DEF LengthAsBytes
    <3> HIDE DEF low, high, c
    <3>5. c \in Seq(Bytes) /\ Len(c) = 2 + Len(data)
      BY <3>4
    <3>6. c # <<>>
      BY <3>5
    <3>7. Payload(c) = Len(data)
      BY <1>1, <1>3, <3>5, <3>6 DEF Payload, sbBYTES_TO_STORE_MESSAGE_LENGTH
    <3>8. Overhead = 2
      BY <1>3 DEF Overhead, sbBYTES_TO_STORE_MESSAGE_LENGTH
    <3>9. /\ Len(c) <= space /\ Len(c) > 0 /\ Payload(c) \in 0 .. Len(data)
          /\ Payload(c) + Overhead = Len(c)
      BY <1>1, <2>1, <3>5, <3>7, <3>8
    <3> QED
      BY <1>3, <3>5, <3>9 DEF c
  <2>2. CASE ~ (space >= Len(data) + 2)
    <3>1. c = <<>>
      BY <1>3, <2>2 DEF Chunk, sbBYTES_TO_STORE_MESSAGE_LENGTH
    <3> QED
      BY <1>1, <1>3, <3>1
  <2> QED
    BY <2>1, <2>2
<1> QED
  BY <1>2, <1>3

-----------------------------------------------------------------------------
(* The invariant.                                                           *)

\* The locals of a call.
Records == [place: Places, wait: {"none"} \cup Waits, count: Nat, need: Nat,
            amount: 0 .. xLength - 1, next: Indexes, data: Seq(Bytes), late: BOOLEAN]

\* The index a side moves, and how far it moves it for the bytes in its hands.
Index(s) == IF s = Writer THEN head ELSE tail
Distance(s) == Len(call[s].data) + Overhead

\* The handle, the notification and the place of a side: its handle is stored from
\* the look at the ring until it is notified or clears it; it blocks only with the
\* handle stored, and does not if it was notified since.  Without a time-out it has
\* been notified before it clears the handle.
HandleOK(s) ==
    /\ waiting[s] \in {NULL, s, Torn}
    /\ waiting[s] = s => call[s].place \in {"wait", "blocked", "woken", "clear"}
    /\ waiting[s] = Torn => call[s].place = "cleared"
    /\ call[s].place = "wait" =>
          \/ waiting[s] = s /\ notify[s] = "not waiting"
          \/ waiting[s] = NULL /\ notify[s] = "received"
    /\ call[s].place = "blocked" => waiting[s] = s /\ notify[s] = "waiting"
    /\ notify[s] = "waiting" => call[s].place \in {"blocked", "woken"}
    /\ call[s].place \in {"woken", "clear", "cleared"} /\ call[s].wait # "ticks"
          => waiting[s] = NULL
    /\ s \in Interrupts => call[s].place = "idle"

\* What a side asks for: a stream's reader one byte, a message's more than its
\* length, and no writer more than the buffer holds before it waits.
NeedOK(s) ==
    /\ s = Reader /\ Kind = "stream" => call[s].need = 0
    /\ s = Reader /\ Kind = "message" /\ call[s].place \in {"check", "wait", "blocked", "woken", "clear", "cleared", "look", "copy"}
          => call[s].need = sbBYTES_TO_STORE_MESSAGE_LENGTH
    /\ s = Writer /\ call[s].place \in {"check", "wait", "blocked", "woken", "clear", "cleared", "again"}
          => call[s].need <= xLength - 1

\* What a side saw is there, for only the other adds to it, and the bytes in its
\* hands are those at its index.
AmountOK(s) ==
    /\ call[s].amount <= Amount(s)
    /\ s = Reader /\ call[s].place # "copy" => call[s].amount = 0
    /\ s = Reader /\ call[s].place = "copy" => call[s].amount > call[s].need
    /\ call[s].place \in {"idle", "low", "high"} => call[s].amount = 0
    /\ call[s].place = "high" => call[s].next = Index(s)
    /\ call[s].place = "low" =>
          /\ Distance(s) > 0 /\ Distance(s) <= Amount(s)
          /\ call[s].next = Advance(Index(s), Distance(s))
          /\ Kind # "message" =>
                 \A k \in 1 .. Len(call[s].data) :
                     storage[Advance(Index(s), k - 1)] = call[s].data[k]

\* What a side waits for is there, and whether the other is about to notify it.
Enough(s) ==
    IF s = Writer THEN xStreamBufferSpacesAvailable >= call[s].need
    ELSE prvBytesInBuffer > call[s].need /\ prvBytesInBuffer >= trigger

Notifies(s) == call[s].place \in IF s = Writer THEN {"high", "trigger", "completed"}
                                 ELSE {"high", "completed"}

\* Nobody is about to block, or blocked, with what it waits for before it, but when
\* it is notified next.
WakeOK(s) ==
    call[s].place \in {"wait", "blocked"} /\ waiting[s] = s /\ Enough(s) => Notifies(Other(s))

\* The inductive invariant.  That no wake-up is lost rests on the handles, and for
\* the notification to come on the amounts: a side that moves its index moves it.
Inv == TypeOK /\ \A s \in Sides : HandleOK(s) /\ NeedOK(s) /\ AmountOK(s) /\ WakeOK(s)

\* Two sides, neither of which is NULL or Torn.
LEMMA TwoSides ==
    ASSUME StreamAssumption, NEW s \in Sides
    PROVE  /\ Other(s) \in Sides /\ Other(s) # s /\ Other(Other(s)) = s
           /\ \A r \in Sides : r = s \/ r = Other(s)
           /\ s # NULL /\ s # Torn /\ NULL # Torn
<1>1. Writer # Reader /\ s \in {Writer, Reader} /\ {Writer, Reader} \cap {NULL, Torn} = {} /\ NULL # Torn
  BY DEF StreamAssumption, Sides
<1>2. s # NULL /\ s # Torn /\ NULL # Torn
  BY <1>1
<1>3. CASE s = Writer
  BY <1>1, <1>2, <1>3 DEF Sides, Other
<1>4. CASE s = Reader
  BY <1>1, <1>2, <1>4 DEF Sides, Other
<1> QED
  BY <1>1, <1>3, <1>4

\* The types, by name.
LEMMA Types ==
    TypeOK <=> /\ head \in Indexes /\ tail \in Indexes
               /\ storage \in [Indexes -> Bytes]
               /\ trigger \in Triggers
               /\ waiting \in [Sides -> Sides \cup {NULL, Torn}]
               /\ notify \in [Sides -> {"not waiting", "waiting", "received"}]
               /\ call \in [Sides -> Records]
               /\ stamp \in Bytes /\ wild \in BOOLEAN
  BY DEF TypeOK, Records

\* A call that only goes on to its next place.
LEMMA GoesOn ==
    ASSUME call \in [Sides -> Records], NEW s \in Sides, NEW p \in Places, Go(s, p)
    PROVE  /\ call' \in [Sides -> Records]
           /\ \A r \in Sides \ {s} : call'[r] = call[r]
           /\ call'[s].place = p /\ call'[s].wait = call[s].wait
           /\ call'[s].count = call[s].count /\ call'[s].need = call[s].need
           /\ call'[s].amount = call[s].amount /\ call'[s].next = call[s].next
           /\ call'[s].data = call[s].data /\ call'[s].late = call[s].late
  BY DEF Go, Records

\* A side in no call: it has nothing, and asks for nothing.
LEMMA IdleIs == Idle.place = "idle" /\ Idle.amount = 0 /\ Idle.need = 0 /\ Idle.data = <<>>
  BY DEF Idle

\* It is a record of a call.
LEMMA IdleIsRecord == StreamAssumption => Idle \in Records
  BY DEF StreamAssumption, Idle, Records, Indexes, Places

\* A call that ends.
LEMMA Returns ==
    ASSUME StreamAssumption, call \in [Sides -> Records], NEW s \in Sides, Return(s)
    PROVE  /\ call' \in [Sides -> Records]
           /\ \A r \in Sides \ {s} : call'[r] = call[r]
           /\ call'[s] = Idle
  BY IdleIsRecord DEF Return

\* The other side of a step that leaves the ring and the other side alone: what
\* holds of it still holds, but perhaps that it is about to be notified.
LEMMA OtherKeeps ==
    ASSUME StreamAssumption, NEW r \in Sides,
           HandleOK(r), NeedOK(r), AmountOK(r), WakeOK(r),
           UNCHANGED <<head, tail, storage, trigger>>,
           call'[r] = call[r], waiting'[r] = waiting[r], notify'[r] = notify[r],
           Notifies(Other(r)) /\ Enough(r) => Notifies(Other(r))'
    PROVE  HandleOK(r)' /\ NeedOK(r)' /\ AmountOK(r)' /\ WakeOK(r)'
<1>1. Amount(r)' = Amount(r) /\ Index(r)' = Index(r) /\ Distance(r)' = Distance(r)
  BY DEF Amount, Index, Distance, xStreamBufferSpacesAvailable, prvBytesInBuffer
<1>2. HandleOK(r)' /\ NeedOK(r)'
  BY DEF HandleOK, NeedOK
<1>3. AmountOK(r)'
  BY <1>1 DEF AmountOK
<1>4. Enough(r)' <=> Enough(r)
  BY DEF Enough, xStreamBufferSpacesAvailable, prvBytesInBuffer
<1>5. WakeOK(r)'
  BY <1>4 DEF WakeOK
<1> QED
  BY <1>2, <1>3, <1>5

\* A step that leaves the ring and the other side alone keeps the invariant if it
\* keeps it for its own side.
LEMMA OneSide ==
    ASSUME StreamAssumption, Inv, NEW s \in Sides,
           UNCHANGED <<head, tail, storage, trigger, stamp, wild>>,
           call' \in [Sides -> Records],
           waiting' \in [Sides -> Sides \cup {NULL, Torn}],
           notify' \in [Sides -> {"not waiting", "waiting", "received"}],
           call'[Other(s)] = call[Other(s)], waiting'[Other(s)] = waiting[Other(s)],
           notify'[Other(s)] = notify[Other(s)],
           Notifies(s) /\ Enough(Other(s)) => Notifies(s)',
           HandleOK(s)', NeedOK(s)', AmountOK(s)', WakeOK(s)'
    PROVE  Inv'
<1>1. Other(s) \in Sides /\ Other(Other(s)) = s
  BY TwoSides
<1>2. HandleOK(Other(s)) /\ NeedOK(Other(s)) /\ AmountOK(Other(s)) /\ WakeOK(Other(s))
  BY <1>1 DEF Inv
<1>3. Notifies(Other(Other(s))) /\ Enough(Other(s)) => Notifies(Other(Other(s)))'
  BY <1>1
<1>4. HandleOK(Other(s))' /\ NeedOK(Other(s))' /\ AmountOK(Other(s))' /\ WakeOK(Other(s))'
  BY <1>1, <1>2, <1>3, OtherKeeps
<1>5. TypeOK'
  BY Types DEF Inv, TypeOK, Records
<1>6. \A r \in Sides : HandleOK(r)' /\ NeedOK(r)' /\ AmountOK(r)' /\ WakeOK(r)'
  BY <1>4, TwoSides
<1> QED
  BY <1>5, <1>6 DEF Inv

-----------------------------------------------------------------------------
(* The steps that leave the ring and the other side alone.                  *)

\* What is known of a side.
LEMMA OfSide ==
    ASSUME StreamAssumption, Inv, NEW s \in Sides
    PROVE  /\ HandleOK(s) /\ NeedOK(s) /\ AmountOK(s) /\ WakeOK(s)
           /\ call[s] \in Records
           /\ waiting[s] \in Sides \cup {NULL, Torn}
           /\ notify[s] \in {"not waiting", "waiting", "received"}
           /\ Amount(s) \in 0 .. xLength - 1
           /\ Other(s) \in Sides /\ Other(s) # s
           /\ s # NULL /\ s # Torn /\ NULL # Torn
<1>1. head \in Indexes /\ tail \in Indexes /\ call \in [Sides -> Records]
      /\ waiting \in [Sides -> Sides \cup {NULL, Torn}]
      /\ notify \in [Sides -> {"not waiting", "waiting", "received"}]
  BY Types DEF Inv
<1>2. Amount(s) \in 0 .. xLength - 1
  BY <1>1, BytesAndSpaces DEF Amount
<1> QED
  BY <1>1, <1>2, TwoSides DEF Inv

\* The amounts a step leaves alone.
LEMMA SameAmount ==
    ASSUME NEW s, UNCHANGED <<head, tail>>
    PROVE  Amount(s)' = Amount(s) /\ Index(s)' = Index(s)
  BY DEF Amount, Index, xStreamBufferSpacesAvailable, prvBytesInBuffer

\* The trigger level is one the buffer can reach.
LEMMA TriggerIs ==
    ASSUME StreamAssumption, Inv
    PROVE  trigger \in Nat /\ trigger \in 1 .. xLength - 1
<1>1. trigger \in Triggers /\ Triggers \subseteq 1 .. xLength - 1 /\ xLength \in Nat
  BY DEF StreamAssumption, Inv, TypeOK
<1> QED
  BY <1>1

\* The bytes of a send are bytes.
LEMMA StampedBytes ==
    ASSUME StreamAssumption, Inv, NEW n \in Nat
    PROVE  /\ Stamped(n) \in Seq(Bytes) /\ Len(Stamped(n)) = n
           /\ \A k \in 1 .. n : Stamped(n)[k] = (stamp + k - 1) % Base
<1>1. Base \in Nat \ {0} /\ stamp \in Nat
  <2>1. stamp \in 0 .. Base - 1 /\ Base \in Nat \ {0}
    BY DEF StreamAssumption, Inv, TypeOK, Bytes
  <2> QED
    BY <2>1
<1>2. \A m \in Nat : m % Base \in 0 .. Base - 1
  BY <1>1
<1>3. ASSUME NEW k \in 1 .. n
      PROVE  (stamp + k - 1) % Base \in Bytes
  <2> DEFINE m == stamp + k - 1
  <2>1. m \in Nat
    BY <1>1
  <2> HIDE DEF m
  <2>2. m % Base \in Bytes
    BY <1>2, <2>1 DEF Bytes
  <2> QED
    BY <2>2 DEF m
<1> DEFINE byte(k) == (stamp + k - 1) % Base
<1>4. Stamped(n) = [k \in 1 .. n |-> byte(k)]
  BY DEF Stamped
<1>5. \A k \in 1 .. n : byte(k) \in Bytes
  BY <1>3
<1> HIDE DEF byte
<1>6. /\ Stamped(n) \in Seq(Bytes) /\ Len(Stamped(n)) = n
      /\ \A k \in 1 .. n : Stamped(n)[k] = byte(k)
  BY <1>4, <1>5
<1> QED
  BY <1>6 DEF byte

\* A side that has seen nothing, and one that goes on with what it saw.
LEMMA NothingSeen ==
    ASSUME StreamAssumption, Inv, NEW s \in Sides, UNCHANGED <<head, tail>>,
           call'[s].amount = 0, call'[s].place \notin {"copy", "low", "high"}
    PROVE  AmountOK(s)'
<1>1. Amount(s) \in 0 .. xLength - 1 /\ Amount(s)' = Amount(s)
  BY OfSide, SameAmount
<1>2. call'[s].amount <= Amount(s)'
  BY <1>1 DEF StreamAssumption
<1> QED
  BY <1>2 DEF AmountOK

\* A side that does not copy next can still rely on the amount it read: the
\* indices have not moved.
LEMMA StillSeen ==
    ASSUME StreamAssumption, Inv, NEW s \in Sides, UNCHANGED <<head, tail>>,
           call'[s].amount = call[s].amount, call[s].place # "copy",
           call'[s].place \notin {"idle", "copy", "low", "high"}
    PROVE  AmountOK(s)'
<1>1. AmountOK(s) /\ Amount(s)' = Amount(s)
  BY OfSide, SameAmount
<1> QED
  BY <1>1 DEF AmountOK

\* xStreamBufferSend begins.
LEMMA SendKeeps ==
    ASSUME StreamAssumption, Inv, NEW n \in 1 .. MaxSend, NEW wait \in Waits,
           xStreamBufferSend(n, wait)
    PROVE  Inv'
<1> DEFINE need == RequiredSpace(n)
           w == IF need > xLength - 1 THEN "none" ELSE wait
           rec == [Idle EXCEPT !.place = IF w = "none" THEN "look" ELSE "check",
                               !.wait = w, !.need = need, !.data = Stamped(n)]
<1>1. Writer \in Sides /\ Writer # Reader /\ n \in Nat /\ xLength \in Nat \ {0, 1}
  BY DEF StreamAssumption, Sides
<1>2. need \in Nat
  BY <1>1 DEF RequiredSpace, sbBYTES_TO_STORE_MESSAGE_LENGTH
<1>3. Stamped(n) \in Seq(Bytes)
  BY <1>1, StampedBytes
<1>4. /\ call' = [call EXCEPT ![Writer] = rec] /\ call[Writer].place = "idle"
      /\ Writer \notin Interrupts
      /\ UNCHANGED <<ring, trigger, waiting, notify, stamp, wild>>
  BY DEF xStreamBufferSend, At
<1>5. w \in {"none"} \cup Waits /\ (w # "none" => need <= xLength - 1)
  BY <1>1, <1>2
<1> HIDE DEF need, w
<1>6. /\ rec \in Records
      /\ rec.place \in {"look", "check"} /\ (rec.place = "check" => rec.need <= xLength - 1)
      /\ rec.amount = 0
  BY <1>2, <1>3, <1>5, IdleIsRecord DEF Idle, Records, Places
<1> HIDE DEF rec
<1>7. call \in [Sides -> Records]
  BY Types DEF Inv
<1>8. /\ call' \in [Sides -> Records] /\ call'[Writer] = rec
      /\ call'[Other(Writer)] = call[Other(Writer)]
  BY <1>1, <1>4, <1>6, <1>7, OfSide
<1>9. UNCHANGED <<head, tail, storage, trigger, waiting, notify, stamp, wild>>
  BY <1>4 DEF ring
<1>10. HandleOK(Writer)'
  BY <1>1, <1>4, <1>6, <1>8, <1>9, OfSide DEF HandleOK
<1>11. NeedOK(Writer)'
  BY <1>1, <1>6, <1>8 DEF NeedOK
<1>12. AmountOK(Writer)'
  <2>1. call'[Writer].amount = 0 /\ call'[Writer].place \notin {"copy", "low", "high"}
    BY <1>6, <1>8
  <2> QED
    BY <1>1, <1>9, <2>1, NothingSeen
<1>13. WakeOK(Writer)' /\ ~ Notifies(Writer)
  BY <1>1, <1>4, <1>6, <1>8 DEF WakeOK, Notifies
<1>14. /\ waiting' \in [Sides -> Sides \cup {NULL, Torn}]
       /\ notify' \in [Sides -> {"not waiting", "waiting", "received"}]
  BY <1>9, Types DEF Inv
<1> QED
  BY <1>1, <1>8, <1>9, <1>10, <1>11, <1>12, <1>13, <1>14, OneSide

\* xStreamBufferReceive begins.
LEMMA ReceiveKeeps ==
    ASSUME StreamAssumption, Inv, NEW n \in 1 .. MaxRead, NEW wait \in Waits,
           xStreamBufferReceive(n, wait)
    PROVE  Inv'
<1> DEFINE rec == [Idle EXCEPT !.place = IF wait = "none" THEN "look" ELSE "check",
                               !.wait = wait, !.count = n, !.need = MoreThan]
<1>1. Reader \in Sides /\ Writer # Reader /\ n \in Nat
  BY DEF StreamAssumption, Sides
<1>2. /\ MoreThan \in Nat /\ (Kind = "stream" => MoreThan = 0)
      /\ (Kind = "message" => MoreThan = sbBYTES_TO_STORE_MESSAGE_LENGTH)
  <2>1. trigger \in Nat /\ Kind \in {"stream", "batching", "message"}
    BY TriggerIs DEF Inv, StreamAssumption
  <2> QED
    BY <2>1 DEF MoreThan, sbBYTES_TO_STORE_MESSAGE_LENGTH
<1>3. /\ call' = [call EXCEPT ![Reader] = rec] /\ call[Reader].place = "idle"
      /\ Reader \notin Interrupts
      /\ UNCHANGED <<ring, trigger, waiting, notify, stamp, wild>>
  BY DEF xStreamBufferReceive, At
<1>4. /\ rec \in Records /\ rec.place \in {"look", "check"}
      /\ rec.amount = 0 /\ rec.need = MoreThan
  BY <1>1, <1>2, IdleIsRecord DEF Idle, Records, Places
<1> HIDE DEF rec
<1>5. call \in [Sides -> Records]
  BY Types DEF Inv
<1>6. /\ call' \in [Sides -> Records] /\ call'[Reader] = rec
      /\ call'[Other(Reader)] = call[Other(Reader)]
  BY <1>1, <1>3, <1>4, <1>5, OfSide
<1>7. UNCHANGED <<head, tail, storage, trigger, waiting, notify, stamp, wild>>
  BY <1>3 DEF ring
<1>8. HandleOK(Reader)'
  BY <1>1, <1>3, <1>4, <1>6, <1>7, OfSide DEF HandleOK
<1>9. NeedOK(Reader)'
  BY <1>1, <1>2, <1>4, <1>6 DEF NeedOK
<1>10. AmountOK(Reader)'
  <2>1. call'[Reader].amount = 0 /\ call'[Reader].place \notin {"copy", "low", "high"}
    BY <1>4, <1>6
  <2> QED
    BY <1>1, <1>7, <2>1, NothingSeen
<1>11. WakeOK(Reader)' /\ ~ Notifies(Reader)
  BY <1>1, <1>3, <1>4, <1>6 DEF WakeOK, Notifies
<1>12. /\ waiting' \in [Sides -> Sides \cup {NULL, Torn}]
       /\ notify' \in [Sides -> {"not waiting", "waiting", "received"}]
  BY <1>7, Types DEF Inv
<1> QED
  BY <1>1, <1>6, <1>7, <1>8, <1>9, <1>10, <1>11, <1>12, OneSide

\* The look before a wait.
LEMMA CheckKeeps ==
    ASSUME StreamAssumption, Inv, NEW s \in Sides, Check(s)
    PROVE  Inv'
<1>1. /\ call \in [Sides -> Records]
      /\ waiting \in [Sides -> Sides \cup {NULL, Torn}]
      /\ notify \in [Sides -> {"not waiting", "waiting", "received"}]
  BY Types DEF Inv
<1>2. call[s].place = "check" /\ UNCHANGED <<head, tail, storage, trigger, stamp, wild>>
  BY DEF Check, At, ring
<1>3. /\ HandleOK(s) /\ NeedOK(s) /\ AmountOK(s) /\ call[s] \in Records
      /\ Amount(s) \in 0 .. xLength - 1 /\ Other(s) \in Sides /\ Other(s) # s
      /\ s # NULL /\ s # Torn
  BY OfSide
<1>4. Amount(s)' = Amount(s)
  BY <1>2, SameAmount
<1>5. ~ Notifies(s)
  BY <1>2 DEF Notifies
<1>6. CASE Short(s, Amount(s))
  <2> DEFINE seen == IF s = Writer THEN Amount(s) ELSE 0
  <2>1. /\ notify' = [notify EXCEPT ![s] = "not waiting"]
        /\ waiting' = [waiting EXCEPT ![s] = s]
        /\ call' = [call EXCEPT ![s].place = "wait", ![s].amount = seen]
    BY <1>6 DEF Check
  <2>2. seen \in 0 .. xLength - 1 /\ (s = Reader => seen = 0) /\ seen <= Amount(s)
    BY <1>3 DEF StreamAssumption
  <2> HIDE DEF seen
  <2>3. /\ call' \in [Sides -> Records]
        /\ call'[s].place = "wait" /\ call'[s].amount = seen
        /\ call'[s].need = call[s].need /\ call'[s].wait = call[s].wait
        /\ call'[Other(s)] = call[Other(s)]
    BY <1>1, <1>3, <2>1, <2>2 DEF Records, Places
  <2>4. /\ waiting'[s] = s /\ waiting'[Other(s)] = waiting[Other(s)]
        /\ notify'[s] = "not waiting" /\ notify'[Other(s)] = notify[Other(s)]
        /\ waiting' \in [Sides -> Sides \cup {NULL, Torn}]
        /\ notify' \in [Sides -> {"not waiting", "waiting", "received"}]
    BY <1>1, <1>3, <2>1
  <2>5. HandleOK(s)' /\ NeedOK(s)'
    BY <1>2, <1>3, <2>3, <2>4 DEF HandleOK, NeedOK
  <2>6. AmountOK(s)'
    BY <1>4, <2>2, <2>3 DEF AmountOK
  <2>7. ~ Enough(s)'
    <3>1. CASE s = Writer
      <4>1. Amount(s) < call[s].need
        BY <1>6, <3>1 DEF Short
      <4>2. Amount(s) \in Nat /\ call[s].need \in Nat
        BY <1>3 DEF StreamAssumption, Records
      <4> QED
        BY <1>2, <2>3, <3>1, <4>1, <4>2 DEF Enough, Amount, xStreamBufferSpacesAvailable
    <3>2. CASE s # Writer
      <4>1. Amount(s) <= call[s].need
        BY <1>6, <3>2 DEF Short
      <4>2. Amount(s) \in Nat /\ call[s].need \in Nat
        BY <1>3 DEF StreamAssumption, Records
      <4> QED
        BY <1>2, <2>3, <3>2, <4>1, <4>2 DEF Enough, Amount, prvBytesInBuffer
    <3> QED
      BY <3>1, <3>2
  <2>8. WakeOK(s)'
    BY <2>7 DEF WakeOK
  <2> QED
    BY <1>2, <1>5, <2>3, <2>4, <2>5, <2>6, <2>8, OneSide
<1>7. CASE ~ Short(s, Amount(s))
  <2>1. /\ call' = [call EXCEPT ![s].place = "copy", ![s].amount = Amount(s)]
        /\ UNCHANGED <<waiting, notify>>
    BY <1>7 DEF Check
  <2>2. /\ call' \in [Sides -> Records]
        /\ call'[s].place = "copy" /\ call'[s].amount = Amount(s)
        /\ call'[s].need = call[s].need /\ call'[s].wait = call[s].wait
        /\ call'[Other(s)] = call[Other(s)]
    BY <1>1, <1>3, <2>1 DEF Records, Places
  <2>3. HandleOK(s)' /\ NeedOK(s)'
    BY <1>2, <1>3, <2>1, <2>2 DEF HandleOK, NeedOK
  <2>4. s = Reader => Amount(s) > call[s].need
    <3>1. Amount(s) \in Nat /\ call[s].need \in Nat
      BY <1>3 DEF StreamAssumption, Records
    <3> QED
      BY <1>7, <3>1 DEF Short, StreamAssumption
  <2>5. AmountOK(s)'
    <3>1. Amount(s) \in Nat
      BY <1>3 DEF StreamAssumption
    <3> QED
      BY <1>4, <2>2, <2>4, <3>1 DEF AmountOK
  <2>6. WakeOK(s)'
    BY <2>2 DEF WakeOK
  <2> QED
    BY <1>1, <1>2, <1>5, <2>1, <2>2, <2>3, <2>5, <2>6, OneSide
<1> QED
  BY <1>6, <1>7

\* The steps between a wait and the next look, at places where a side has nothing
\* in its hands: it goes on to another of them.
Waiting == {"check", "wait", "blocked", "woken", "clear", "cleared", "again", "look"}

\* A side that goes on, with the ring and the other side as they are, and is not
\* about to wait, or was not notified.
LEMMA GoesOnKeeps ==
    ASSUME StreamAssumption, Inv, NEW s \in Sides, NEW p \in Waiting, Go(s, p),
           call[s].place \in Waiting \ {"look"},
           p = "again" \/ call[s].place = "again" => s = Writer,
           UNCHANGED <<head, tail, storage, trigger, stamp, wild>>,
           waiting' \in [Sides -> Sides \cup {NULL, Torn}],
           notify' \in [Sides -> {"not waiting", "waiting", "received"}],
           waiting'[Other(s)] = waiting[Other(s)], notify'[Other(s)] = notify[Other(s)],
           HandleOK(s)',
           p \in {"wait", "blocked"} => call[s].place \in {"wait", "blocked"} /\ waiting'[s] = waiting[s]
    PROVE  Inv'
<1>1. call \in [Sides -> Records]
  BY Types DEF Inv
<1>2. p \in Places
  BY DEF Waiting, Places
<1>3. /\ call' \in [Sides -> Records]
      /\ call'[Other(s)] = call[Other(s)]
      /\ call'[s].place = p /\ call'[s].need = call[s].need
      /\ call'[s].amount = call[s].amount
  <2>1. Other(s) \in Sides \ {s}
    BY TwoSides
  <2> QED
    BY <1>1, <1>2, <2>1, GoesOn
<1>4. NeedOK(s) /\ WakeOK(s)
  BY OfSide
<1>5. NeedOK(s)'
  <2>1. call[s].place = "again" => s # Reader
    BY DEF StreamAssumption
  <2>2. call[s].place \in {"check", "wait", "blocked", "woken", "clear", "cleared", "again"}
    BY DEF Waiting
  <2> QED
    BY <1>3, <1>4, <2>1, <2>2 DEF NeedOK
<1>6. AmountOK(s)'
  <2>1. call'[s].place \notin {"idle", "copy", "low", "high"} /\ call[s].place # "copy"
    BY <1>3 DEF Waiting
  <2> QED
    BY <1>3, <2>1, StillSeen
<1>7. Enough(s)' <=> Enough(s)
  BY <1>3 DEF Enough, xStreamBufferSpacesAvailable, prvBytesInBuffer
<1>8. Notifies(Other(s))' <=> Notifies(Other(s))
  BY <1>3 DEF Notifies
<1>9. WakeOK(s)'
  BY <1>3, <1>4, <1>7, <1>8 DEF WakeOK
<1>10. ~ Notifies(s)
  BY DEF Notifies, Waiting
<1> QED
  BY <1>3, <1>5, <1>6, <1>9, <1>10, OneSide

\* The wait: the side blocks, unless it was notified.
LEMMA WaitKeeps ==
    ASSUME StreamAssumption, Inv, NEW s \in Sides, Wait(s)
    PROVE  Inv'
<1>1. /\ call[s].place = "wait"
      /\ UNCHANGED <<head, tail, storage, trigger, waiting, stamp, wild>>
  BY DEF Wait, At, ring
<1>2. /\ waiting \in [Sides -> Sides \cup {NULL, Torn}]
      /\ notify \in [Sides -> {"not waiting", "waiting", "received"}]
      /\ call \in [Sides -> Records]
  BY Types DEF Inv
<1>3. HandleOK(s) /\ Other(s) # s /\ Other(s) \in Sides /\ s # NULL /\ s # Torn
  BY OfSide
<1>4. CASE notify[s] = "received"
  <2>1. notify' = notify /\ Go(s, "woken")
    BY <1>4 DEF Wait
  <2>2. call'[s].place = "woken" /\ call'[s].wait = call[s].wait
    BY <1>2, <2>1, GoesOn DEF Places
  <2>3. HandleOK(s)'
    BY <1>1, <1>3, <1>4, <2>1, <2>2 DEF HandleOK
  <2> QED
    BY <1>1, <1>2, <2>1, <2>3, GoesOnKeeps DEF Waiting
<1>5. CASE notify[s] # "received"
  <2>1. notify' = [notify EXCEPT ![s] = "waiting"] /\ Go(s, "blocked")
    BY <1>5 DEF Wait
  <2>2. call'[s].place = "blocked" /\ call'[s].wait = call[s].wait
    BY <1>2, <2>1, GoesOn DEF Places
  <2>3. /\ notify'[s] = "waiting" /\ notify'[Other(s)] = notify[Other(s)]
        /\ notify' \in [Sides -> {"not waiting", "waiting", "received"}]
    BY <1>2, <1>3, <2>1
  <2>4. HandleOK(s)'
    BY <1>1, <1>3, <1>5, <2>2, <2>3 DEF HandleOK
  <2> QED
    BY <1>1, <1>2, <2>1, <2>3, <2>4, GoesOnKeeps DEF Waiting
<1> QED
  BY <1>4, <1>5

\* The block time is over.
LEMMA TimeOutKeeps ==
    ASSUME StreamAssumption, Inv, NEW s \in Sides, TimeOut(s)
    PROVE  Inv'
<1>1. /\ call[s].place = "blocked" /\ call[s].wait = "ticks"
      /\ call' = [call EXCEPT ![s].place = "woken", ![s].late = TRUE]
      /\ UNCHANGED <<head, tail, storage, trigger, waiting, notify, stamp, wild>>
  BY DEF TimeOut, At, ring
<1>2. /\ waiting \in [Sides -> Sides \cup {NULL, Torn}]
      /\ notify \in [Sides -> {"not waiting", "waiting", "received"}]
      /\ call \in [Sides -> Records]
  BY Types DEF Inv
<1>3. /\ HandleOK(s) /\ NeedOK(s) /\ Other(s) # s /\ Other(s) \in Sides
      /\ s # NULL /\ s # Torn
  BY OfSide
<1>4. /\ call' \in [Sides -> Records] /\ call'[Other(s)] = call[Other(s)]
      /\ call'[s].place = "woken" /\ call'[s].wait = call[s].wait
      /\ call'[s].need = call[s].need /\ call'[s].amount = call[s].amount
  <2> DEFINE rec == [call[s] EXCEPT !.place = "woken", !.late = TRUE]
  <2>1. call' = [call EXCEPT ![s] = rec] /\ call[s] \in Records
    BY <1>1, <1>2
  <2>2. /\ rec \in Records /\ rec.place = "woken" /\ rec.wait = call[s].wait
        /\ rec.need = call[s].need /\ rec.amount = call[s].amount
    BY <2>1 DEF Records, Places
  <2> HIDE DEF rec
  <2>3. call' \in [Sides -> Records] /\ call'[Other(s)] = call[Other(s)] /\ call'[s] = rec
    BY <1>2, <1>3, <2>1, <2>2
  <2> QED
    BY <2>2, <2>3
<1>5. HandleOK(s)'
  <2>1. waiting' = waiting /\ notify' = notify
    BY <1>1
  <2>2. waiting[s] = s /\ s \notin Interrupts
    BY <1>1, <1>3 DEF HandleOK
  <2>3. waiting'[s] = s /\ call'[s].place = "woken" /\ call'[s].wait = "ticks"
    BY <1>1, <1>4, <2>1, <2>2
  <2> QED
    BY <1>3, <2>2, <2>3 DEF HandleOK
<1>6. NeedOK(s)'
  <2>1. NeedOK(s) /\ call[s].place = "blocked"
    BY <1>1, <1>3
  <2> QED
    BY <1>4, <2>1 DEF NeedOK
<1>7. AmountOK(s)'
  BY <1>1, <1>4, StillSeen
<1>8. WakeOK(s)' /\ ~ Notifies(s)
  <2>1. call'[s].place = "woken" /\ call[s].place = "blocked"
    BY <1>1, <1>4
  <2> QED
    BY <2>1 DEF WakeOK, Notifies
<1> QED
  BY <1>1, <1>2, <1>4, <1>5, <1>6, <1>7, <1>8, OneSide

\* The wait is over.
LEMMA WokenKeeps ==
    ASSUME StreamAssumption, Inv, NEW s \in Sides, Woken(s)
    PROVE  Inv'
<1>1. /\ call[s].place = "woken" /\ Go(s, "clear")
      /\ notify' = [notify EXCEPT ![s] = "not waiting"]
      /\ UNCHANGED <<head, tail, storage, trigger, waiting, stamp, wild>>
  BY DEF Woken, At, ring
<1>2. /\ waiting \in [Sides -> Sides \cup {NULL, Torn}]
      /\ notify \in [Sides -> {"not waiting", "waiting", "received"}]
      /\ call \in [Sides -> Records]
  BY Types DEF Inv
<1>3. HandleOK(s) /\ Other(s) # s /\ Other(s) \in Sides /\ s # NULL /\ s # Torn
  BY OfSide
<1>4. call'[s].place = "clear" /\ call'[s].wait = call[s].wait
  BY <1>1, <1>2, GoesOn DEF Places
<1>5. /\ notify'[s] = "not waiting" /\ notify'[Other(s)] = notify[Other(s)]
      /\ notify' \in [Sides -> {"not waiting", "waiting", "received"}]
  BY <1>1, <1>2, <1>3
<1>6. HandleOK(s)'
  BY <1>1, <1>3, <1>4, <1>5 DEF HandleOK
<1> QED
  BY <1>1, <1>2, <1>5, <1>6, GoesOnKeeps DEF Waiting

\* The handle is cleared, in two halves.
LEMMA ClearKeeps ==
    ASSUME StreamAssumption, Inv, NEW s \in Sides, Clear(s) \/ Cleared(s)
    PROVE  Inv'
<1> DEFINE from == IF Clear(s) THEN "clear" ELSE "cleared"
           to == IF Clear(s) THEN "cleared" ELSE IF s = Writer THEN "again" ELSE "look"
           handle == IF Clear(s) /\ waiting[s] # NULL THEN Torn ELSE NULL
<1>1. /\ call[s].place = from /\ Go(s, to)
      /\ waiting' = [waiting EXCEPT ![s] = handle]
      /\ UNCHANGED <<head, tail, storage, trigger, notify, stamp, wild>>
  <2>1. CASE Clear(s)
    <3>1. waiting' = [waiting EXCEPT ![s] = IF waiting[s] = NULL THEN NULL ELSE Torn]
      BY <2>1 DEF Clear
    <3>2. (IF waiting[s] = NULL THEN NULL ELSE Torn) = handle
      BY <2>1
    <3> QED
      BY <2>1, <3>1, <3>2 DEF Clear, At, ring
  <2>2. CASE ~ Clear(s)
    BY <2>2 DEF Cleared, At, ring
  <2> QED
    BY <2>1, <2>2
<1>2. /\ from = "clear" => to = "cleared"
      /\ from = "cleared" => handle = NULL /\ to = IF s = Writer THEN "again" ELSE "look"
      /\ from \in {"clear", "cleared"} /\ to \in {"cleared", "again", "look"}
      /\ handle \in {NULL, Torn} /\ (waiting[s] = NULL => handle = NULL)
      /\ to = "again" => s = Writer
  OBVIOUS
<1> HIDE DEF from, to, handle
<1>3. /\ waiting \in [Sides -> Sides \cup {NULL, Torn}]
      /\ notify \in [Sides -> {"not waiting", "waiting", "received"}]
      /\ call \in [Sides -> Records]
  BY Types DEF Inv
<1>4. HandleOK(s) /\ Other(s) # s /\ Other(s) \in Sides /\ s # NULL /\ s # Torn /\ NULL # Torn
  BY OfSide
<1>5. call'[s].place = to /\ call'[s].wait = call[s].wait
  BY <1>1, <1>2, <1>3, GoesOn DEF Places
<1>6. /\ waiting'[s] = handle /\ waiting'[Other(s)] = waiting[Other(s)]
      /\ waiting' \in [Sides -> Sides \cup {NULL, Torn}]
  BY <1>1, <1>2, <1>3, <1>4
<1>7. HandleOK(s)'
  <2>1. CASE from = "clear"
    BY <1>1, <1>2, <1>4, <1>5, <1>6, <2>1 DEF HandleOK
  <2>2. CASE from = "cleared"
    <3>1. to \in {"again", "look"} /\ handle = NULL
      BY <1>2, <2>2
    <3> QED
      BY <1>1, <1>4, <1>5, <1>6, <2>2, <3>1 DEF HandleOK
  <2> QED
    BY <1>2, <2>1, <2>2
<1>8. to \in Waiting /\ call[s].place \in Waiting \ {"look", "again"}
      /\ to \notin {"wait", "blocked"}
  BY <1>1, <1>2 DEF Waiting
<1> QED
  BY <1>1, <1>2, <1>3, <1>6, <1>7, <1>8, GoesOnKeeps

\* The writer looks at the time.
LEMMA AgainKeeps ==
    ASSUME StreamAssumption, Inv, Again
    PROVE  Inv'
<1>1. Writer \in Sides
  BY DEF Sides
<1>2. PICK p \in {"look", "check"} : Go(Writer, p)
  BY DEF Again
<1>3. /\ call[Writer].place = "again"
      /\ UNCHANGED <<head, tail, storage, trigger, waiting, notify, stamp, wild>>
  BY DEF Again, At, ring
<1>4. /\ waiting \in [Sides -> Sides \cup {NULL, Torn}]
      /\ notify \in [Sides -> {"not waiting", "waiting", "received"}]
      /\ call \in [Sides -> Records]
  BY Types DEF Inv
<1>5. HandleOK(Writer) /\ Writer # NULL /\ Writer # Torn
  BY <1>1, OfSide
<1>6. call'[Writer].place = p
  BY <1>1, <1>2, <1>4, GoesOn DEF Places
<1>7. HandleOK(Writer)'
  BY <1>3, <1>5, <1>6 DEF HandleOK
<1>8. p \in Waiting /\ p \notin {"wait", "blocked"} /\ call[Writer].place \in Waiting \ {"look"}
  BY <1>3 DEF Waiting
<1> QED
  BY <1>1, <1>2, <1>3, <1>4, <1>7, <1>8, GoesOnKeeps

\* A call that ends, of a side that waits for nothing and is not about to notify the
\* other of what the other waits for.
LEMMA ReturnKeeps ==
    ASSUME StreamAssumption, Inv, NEW s \in Sides, Return(s),
           call[s].place \notin {"wait", "blocked", "woken", "clear", "cleared"},
           ~ (Notifies(s) /\ Enough(Other(s))),
           UNCHANGED <<head, tail, storage, trigger, waiting, notify, stamp, wild>>
    PROVE  Inv'
<1>1. /\ waiting \in [Sides -> Sides \cup {NULL, Torn}]
      /\ notify \in [Sides -> {"not waiting", "waiting", "received"}]
      /\ call \in [Sides -> Records]
  BY Types DEF Inv
<1>2. /\ HandleOK(s) /\ Other(s) \in Sides /\ Other(s) # s
      /\ s # NULL /\ s # Torn /\ NULL # Torn
  BY OfSide
<1>3. /\ call' \in [Sides -> Records] /\ call'[Other(s)] = call[Other(s)]
      /\ call'[s] = Idle
  BY <1>1, <1>2, Returns
<1>4. call'[s].place = "idle" /\ call'[s].amount = 0 /\ call'[s].need = 0
  BY <1>3, IdleIs
<1>5. HandleOK(s)'
  BY <1>2, <1>4 DEF HandleOK
<1>6. NeedOK(s)'
  BY <1>4 DEF NeedOK
<1>7. AmountOK(s)'
  BY <1>4, NothingSeen
<1>8. WakeOK(s)'
  BY <1>4 DEF WakeOK
<1> QED
  BY <1>1, <1>3, <1>5, <1>6, <1>7, <1>8, OneSide

\* The writer looks for space.
LEMMA LookForSpaceKeeps ==
    ASSUME StreamAssumption, Inv, LookForSpace
    PROVE  Inv'
<1> DEFINE seen == IF call[Writer].amount = 0 THEN Amount(Writer) ELSE call[Writer].amount
<1>1. /\ call[Writer].place = "look"
      /\ call' = [call EXCEPT ![Writer].place = "copy", ![Writer].amount = seen]
      /\ UNCHANGED <<head, tail, storage, trigger, waiting, notify, stamp, wild>>
      /\ Writer \in Sides /\ Writer # Reader
  BY DEF LookForSpace, At, ring, Sides, StreamAssumption
<1>2. /\ waiting \in [Sides -> Sides \cup {NULL, Torn}]
      /\ notify \in [Sides -> {"not waiting", "waiting", "received"}]
      /\ call \in [Sides -> Records]
  BY Types DEF Inv
<1>3. /\ HandleOK(Writer) /\ AmountOK(Writer) /\ Other(Writer) # Writer
      /\ Other(Writer) \in Sides /\ Amount(Writer) \in 0 .. xLength - 1
      /\ call[Writer] \in Records
  BY <1>1, OfSide
<1>4. seen \in 0 .. xLength - 1 /\ seen <= Amount(Writer)
  <2>1. Amount(Writer) \in Nat /\ call[Writer].amount \in 0 .. xLength - 1
    BY <1>3 DEF Records, StreamAssumption
  <2>2. call[Writer].amount <= Amount(Writer)
    BY <1>3 DEF AmountOK
  <2> QED
    BY <1>3, <2>1, <2>2
<1> HIDE DEF seen
<1>5. /\ call' \in [Sides -> Records] /\ call'[Other(Writer)] = call[Other(Writer)]
      /\ call'[Writer].place = "copy" /\ call'[Writer].amount = seen
      /\ call'[Writer].wait = call[Writer].wait
  BY <1>1, <1>2, <1>3, <1>4 DEF Records, Places
<1>6. HandleOK(Writer)'
  BY <1>1, <1>3, <1>5 DEF HandleOK
<1>7. NeedOK(Writer)'
  BY <1>1, <1>5 DEF NeedOK
<1>8. Amount(Writer)' = Amount(Writer)
  BY <1>1, SameAmount
<1>9. AmountOK(Writer)'
  BY <1>1, <1>4, <1>5, <1>8 DEF AmountOK
<1>10. WakeOK(Writer)' /\ ~ Notifies(Writer)
  BY <1>1, <1>5 DEF WakeOK, Notifies
<1> QED
  BY <1>1, <1>2, <1>5, <1>6, <1>7, <1>9, <1>10, OneSide

\* The reader looks for bytes.
LEMMA LookForBytesKeeps ==
    ASSUME StreamAssumption, Inv, LookForBytes
    PROVE  Inv'
<1>1. /\ call[Reader].place = "look"
      /\ UNCHANGED <<head, tail, storage, trigger, waiting, notify, stamp, wild>>
      /\ Reader \in Sides /\ Writer # Reader
  BY DEF LookForBytes, At, ring, Sides, StreamAssumption
<1>2. /\ waiting \in [Sides -> Sides \cup {NULL, Torn}]
      /\ notify \in [Sides -> {"not waiting", "waiting", "received"}]
      /\ call \in [Sides -> Records]
  BY Types DEF Inv
<1>3. /\ HandleOK(Reader) /\ NeedOK(Reader) /\ AmountOK(Reader) /\ Other(Reader) # Reader
      /\ Other(Reader) \in Sides /\ Amount(Reader) \in 0 .. xLength - 1
      /\ call[Reader] \in Records
  BY <1>1, OfSide
<1>4. ~ Notifies(Reader)
  BY <1>1 DEF Notifies
<1>5. CASE Short(Reader, Amount(Reader))
  <2>1. Return(Reader)
    BY <1>5 DEF LookForBytes
  <2> QED
    BY <1>1, <1>4, <2>1, ReturnKeeps
<1>6. CASE ~ Short(Reader, Amount(Reader))
  <2>1. call' = [call EXCEPT ![Reader].place = "copy", ![Reader].amount = Amount(Reader)]
    BY <1>6 DEF LookForBytes
  <2>2. /\ call' \in [Sides -> Records] /\ call'[Other(Reader)] = call[Other(Reader)]
        /\ call'[Reader].place = "copy" /\ call'[Reader].amount = Amount(Reader)
        /\ call'[Reader].wait = call[Reader].wait /\ call'[Reader].need = call[Reader].need
    BY <1>1, <1>2, <1>3, <2>1 DEF Records, Places
  <2>3. HandleOK(Reader)'
    BY <1>1, <1>3, <2>2 DEF HandleOK
  <2>4. NeedOK(Reader)'
    BY <1>1, <1>3, <2>2 DEF NeedOK
  <2>5. Amount(Reader)' = Amount(Reader)
    BY <1>1, SameAmount
  <2>6. Amount(Reader) \in Nat /\ call[Reader].need \in Nat
    BY <1>3 DEF Records, StreamAssumption
  <2>7. Amount(Reader) > call[Reader].need
    BY <1>1, <1>6, <2>6 DEF Short
  <2>8. AmountOK(Reader)'
    BY <2>2, <2>5, <2>6, <2>7 DEF AmountOK
  <2>9. WakeOK(Reader)'
    BY <2>2 DEF WakeOK
  <2> QED
    BY <1>1, <1>2, <1>4, <2>2, <2>3, <2>4, <2>8, <2>9, OneSide
<1> QED
  BY <1>5, <1>6

\* The reader copies what it saw, or has no room for the message.
LEMMA ReadMessageKeeps ==
    ASSUME StreamAssumption, Inv, ReadMessage
    PROVE  Inv'
<1> DEFINE taken == Taken(call[Reader].count, call[Reader].amount)
           rec == [Idle EXCEPT !.place = "low", !.data = Given(taken),
                               !.next = Advance(tail, taken)]
<1>1. /\ call[Reader].place = "copy"
      /\ UNCHANGED <<head, tail, storage, trigger, waiting, notify, stamp, wild>>
      /\ Reader \in Sides /\ Writer # Reader
  BY DEF ReadMessage, At, ring, Sides, StreamAssumption
<1>2. /\ waiting \in [Sides -> Sides \cup {NULL, Torn}]
      /\ notify \in [Sides -> {"not waiting", "waiting", "received"}]
      /\ call \in [Sides -> Records]
      /\ storage \in [Indexes -> Bytes] /\ tail \in Indexes
  BY Types DEF Inv
<1>3. /\ HandleOK(Reader) /\ NeedOK(Reader) /\ AmountOK(Reader) /\ Other(Reader) # Reader
      /\ Other(Reader) \in Sides /\ Amount(Reader) \in 0 .. xLength - 1
      /\ call[Reader] \in Records /\ Reader # NULL /\ Reader # Torn /\ NULL # Torn
  BY <1>1, OfSide
<1>4. ~ Notifies(Reader)
  BY <1>1 DEF Notifies
<1>5. /\ call[Reader].count \in Nat /\ call[Reader].amount \in 0 .. xLength - 1
      /\ call[Reader].need \in Nat
  BY <1>3 DEF Records
<1>6. call[Reader].amount > call[Reader].need /\ call[Reader].amount <= Amount(Reader)
  BY <1>1, <1>3 DEF AmountOK
<1>7. Kind = "message" => call[Reader].amount > sbBYTES_TO_STORE_MESSAGE_LENGTH
  BY <1>1, <1>3, <1>6 DEF NeedOK
<1>8. /\ taken \in 0 .. call[Reader].amount
      /\ taken # 0 => Given(taken) \in Seq(Bytes) /\ Len(Given(taken)) + Overhead = taken
      /\ Kind # "message" => Given(taken) = BytesFrom(tail, taken)
  BY <1>2, <1>5, <1>7, TakenIs
<1>9. CASE taken = 0
  <2>1. Return(Reader)
    BY <1>9 DEF ReadMessage
  <2> QED
    BY <1>1, <1>4, <2>1, ReturnKeeps
<1>10. CASE taken # 0
  <2>1. call' = [call EXCEPT ![Reader] = rec]
    BY <1>10 DEF ReadMessage
  <2> HIDE DEF taken
  <2>2. taken \in 0 .. xLength /\ taken > 0 /\ taken <= Amount(Reader)
    <3>1. Amount(Reader) \in Nat /\ call[Reader].amount \in Nat /\ xLength \in Nat
      BY <1>3, <1>5 DEF StreamAssumption
    <3> QED
      BY <1>3, <1>5, <1>6, <1>8, <1>10, <3>1
  <2>3. Advance(tail, taken) \in Indexes
    BY <1>2, <2>2, AdvanceAdds
  <2>4. /\ rec \in Records /\ rec.place = "low" /\ rec.amount = 0
        /\ rec.data = Given(taken) /\ rec.next = Advance(tail, taken)
    BY <1>8, <1>10, <2>3, IdleIsRecord DEF Idle, Records, Places
  <2> HIDE DEF rec
  <2>5. /\ call' \in [Sides -> Records] /\ call'[Other(Reader)] = call[Other(Reader)]
        /\ call'[Reader] = rec
    BY <1>1, <1>2, <1>3, <2>1, <2>4
  <2>6. HandleOK(Reader)'
    BY <1>1, <1>3, <2>4, <2>5 DEF HandleOK
  <2>7. NeedOK(Reader)'
    <3>1. Kind = "stream" => rec.need = 0
      BY DEF rec, Idle
    <3> QED
      BY <1>1, <2>4, <2>5, <3>1 DEF NeedOK
  <2>8. Amount(Reader)' = Amount(Reader) /\ Index(Reader)' = tail
    BY <1>1, SameAmount DEF Index
  <2>9. Distance(Reader)' = taken
    BY <1>8, <1>10, <2>4, <2>5 DEF Distance, Overhead
  <2>10. Kind # "message" =>
             \A k \in 1 .. Len(rec.data) : storage[Advance(tail, k - 1)] = rec.data[k]
    <3>1. /\ Len(BytesFrom(tail, taken)) = taken
          /\ \A k \in 1 .. taken : BytesFrom(tail, taken)[k] = storage[Advance(tail, k - 1)]
      BY <1>2, <2>2, BytesFromIs
    <3>2. Kind # "message" => rec.data = BytesFrom(tail, taken)
      BY <1>8, <2>4
    <3> QED
      BY <3>1, <3>2
  <2>11. 0 <= Amount(Reader)
    BY <1>3 DEF StreamAssumption
  <2>12. AmountOK(Reader)'
    BY <1>1, <2>2, <2>4, <2>5, <2>8, <2>9, <2>10, <2>11 DEF AmountOK
  <2>13. WakeOK(Reader)'
    BY <2>4, <2>5 DEF WakeOK
  <2> QED
    BY <1>1, <1>2, <1>4, <2>5, <2>6, <2>7, <2>12, <2>13, OneSide
<1> QED
  BY <1>9, <1>10

\* The writer looks at the trigger level.
LEMMA TriggerKeeps ==
    ASSUME StreamAssumption, Inv, Trigger
    PROVE  Inv'
<1>1. /\ call[Writer].place = "trigger" /\ Writer \in Sides /\ Writer # Reader
      /\ UNCHANGED <<head, tail, storage, trigger, waiting, notify, stamp, wild>>
  BY DEF Trigger, At, ring, Sides, StreamAssumption
<1>2. Other(Writer) = Reader
  BY DEF Other
<1>3. CASE prvBytesInBuffer >= trigger
  <2>1. Go(Writer, "completed")
    BY <1>3 DEF Trigger
  <2>2. /\ waiting \in [Sides -> Sides \cup {NULL, Torn}]
        /\ notify \in [Sides -> {"not waiting", "waiting", "received"}]
        /\ call \in [Sides -> Records]
    BY Types DEF Inv
  <2>3. /\ HandleOK(Writer) /\ AmountOK(Writer) /\ Reader \in Sides \ {Writer}
        /\ Writer # NULL /\ Writer # Torn /\ NULL # Torn
    BY <1>1, <1>2, OfSide
  <2>4. /\ call' \in [Sides -> Records] /\ call'[Reader] = call[Reader]
        /\ call'[Writer].place = "completed" /\ call'[Writer].amount = call[Writer].amount
    BY <1>1, <2>1, <2>2, <2>3, GoesOn DEF Places
  <2>5. HandleOK(Writer)'
    BY <1>1, <2>3, <2>4 DEF HandleOK
  <2>6. NeedOK(Writer)' /\ WakeOK(Writer)' /\ Notifies(Writer)'
    BY <1>1, <2>4 DEF NeedOK, WakeOK, Notifies
  <2>7. AmountOK(Writer)'
    BY <1>1, <2>4, StillSeen
  <2> QED
    BY <1>1, <1>2, <2>2, <2>4, <2>5, <2>6, <2>7, OneSide
<1>4. CASE ~ (prvBytesInBuffer >= trigger)
  <2>1. Return(Writer)
    BY <1>4 DEF Trigger
  <2>2. ~ Enough(Reader)
    BY <1>1, <1>4 DEF Enough
  <2> QED
    BY <1>1, <1>2, <2>1, <2>2, ReturnKeeps
<1> QED
  BY <1>3, <1>4

\* The new index was there when its first half was stored: the second store changes
\* nothing but the place.
LEMMA StoreHighKeeps ==
    ASSUME StreamAssumption, Inv, NEW s \in Sides,
           s = Writer => StoreHeadHigh, s = Reader => StoreTailHigh
    PROVE  Inv'
<1> DEFINE to == IF s = Writer THEN "trigger" ELSE "completed"
<1>1. s \in {Writer, Reader} /\ Writer # Reader
  BY DEF Sides, StreamAssumption
<1>2. call[s].place = "high" /\ Go(s, to)
  BY <1>1 DEF StoreHeadHigh, StoreTailHigh, At
<1>3. call[s].next = Index(s) /\ AmountOK(s) /\ HandleOK(s)
  BY <1>2, OfSide DEF AmountOK
<1>4. UNCHANGED <<head, tail, storage, trigger, waiting, notify, stamp, wild>>
  <2>1. CASE s = Writer
    BY <1>1, <1>3, <2>1 DEF StoreHeadHigh, Index
  <2>2. CASE s = Reader
    BY <1>1, <1>3, <2>2 DEF StoreTailHigh, Index
  <2> QED
    BY <1>1, <2>1, <2>2
<1>5. to \in {"trigger", "completed"} /\ (s # Writer => to = "completed")
  OBVIOUS
<1> HIDE DEF to
<1>6. /\ waiting \in [Sides -> Sides \cup {NULL, Torn}]
      /\ notify \in [Sides -> {"not waiting", "waiting", "received"}]
      /\ call \in [Sides -> Records]
  BY Types DEF Inv
<1>7. /\ Other(s) \in Sides \ {s} /\ s # NULL /\ s # Torn /\ NULL # Torn
  BY TwoSides, OfSide
<1>8. /\ call' \in [Sides -> Records] /\ call'[Other(s)] = call[Other(s)]
      /\ call'[s].place = to /\ call'[s].amount = call[s].amount
      /\ call'[s].need = call[s].need
  <2>1. to \in Places
    BY <1>5 DEF Places
  <2> QED
    BY <1>2, <1>6, <1>7, <2>1, GoesOn
<1>9. HandleOK(s)'
  BY <1>2, <1>3, <1>4, <1>5, <1>7, <1>8 DEF HandleOK
<1>10. NeedOK(s)'
  <2>1. NeedOK(s)
    BY OfSide
  <2> QED
    BY <1>5, <1>8, <2>1 DEF NeedOK
<1>11. AmountOK(s)'
  BY <1>2, <1>4, <1>5, <1>8, StillSeen
<1>12. WakeOK(s)' /\ Notifies(s)'
  BY <1>5, <1>8 DEF WakeOK, Notifies
<1> QED
  BY <1>4, <1>6, <1>8, <1>9, <1>10, <1>11, <1>12, OneSide

\* The level is set by a reader that is in no call.
LEMMA SetTriggerLevelKeeps ==
    ASSUME StreamAssumption, Inv, NEW level \in Triggers, xStreamBufferSetTriggerLevel(level)
    PROVE  Inv'
<1>1. /\ call[Reader].place = "idle" /\ trigger' = level
      /\ UNCHANGED <<head, tail, storage, waiting, notify, call, stamp, wild>>
  BY DEF xStreamBufferSetTriggerLevel, At, ring
<1>2. TypeOK'
  BY <1>1, Types DEF Inv, TypeOK
<1>3. ASSUME NEW s \in Sides
      PROVE  HandleOK(s)' /\ NeedOK(s)' /\ AmountOK(s)' /\ WakeOK(s)'
  <2>1. HandleOK(s) /\ NeedOK(s) /\ AmountOK(s) /\ WakeOK(s)
    BY DEF Inv
  <2>2. Amount(s)' = Amount(s) /\ Index(s)' = Index(s) /\ Distance(s)' = Distance(s)
    BY <1>1, SameAmount DEF Distance
  <2>3. HandleOK(s)' /\ NeedOK(s)'
    BY <1>1, <2>1 DEF HandleOK, NeedOK
  <2>4. AmountOK(s)'
    BY <1>1, <2>1, <2>2 DEF AmountOK
  <2>5. WakeOK(s)'
    <3>1. CASE s = Writer
      <4>1. Enough(s)' <=> Enough(s)
        BY <1>1, <3>1 DEF Enough, xStreamBufferSpacesAvailable
      <4>2. Notifies(Other(s))' <=> Notifies(Other(s))
        BY <1>1 DEF Notifies
      <4> QED
        BY <1>1, <2>1, <4>1, <4>2 DEF WakeOK
    <3>2. CASE s # Writer
      BY <1>1, <3>2 DEF WakeOK, Sides
    <3> QED
      BY <3>1, <3>2
  <2> QED
    BY <2>3, <2>4, <2>5
<1> QED
  BY <1>2, <1>3 DEF Inv

-----------------------------------------------------------------------------
(* The steps that move an index, write the storage or notify the other side. *)

\* How far an index is moved is a number of bytes.
LEMMA DistanceIsNat ==
    ASSUME NEW r \in Sides, call[r] \in Records
    PROVE  Distance(r) \in Nat /\ Len(call[r].data) \in Nat /\ Len(call[r].data) <= Distance(r)
<1>1. Len(call[r].data) \in Nat
  BY DEF Records
<1>2. Overhead \in Nat
  BY DEF Overhead, sbBYTES_TO_STORE_MESSAGE_LENGTH
<1>3. Distance(r) = Len(call[r].data) + Overhead
  BY DEF Distance
<1> QED
  BY <1>1, <1>2, <1>3

\* What a side saw and holds is there as long as there is no less of it and the
\* other writes elsewhere; and that side may be notified meanwhile.
LEMMA AmountKeeps ==
    ASSUME StreamAssumption, NEW r \in Sides, AmountOK(r), call[r] \in Records,
           call'[r].amount = call[r].amount, call'[r].need = call[r].need,
           call'[r].next = call[r].next, call'[r].data = call[r].data,
           \/ call'[r].place = call[r].place
           \/ call[r].place \in {"blocked", "woken"} /\ call'[r].place = "woken",
           Amount(r) \in Nat, Amount(r)' \in Nat, Amount(r) <= Amount(r)',
           Index(r)' = Index(r),
           \A k \in 1 .. Amount(r) :
               storage'[Advance(Index(r), k - 1)] = storage[Advance(Index(r), k - 1)]
    PROVE  AmountOK(r)'
<1>1. Distance(r)' = Distance(r) /\ Distance(r) \in Nat /\ Len(call[r].data) <= Distance(r)
      /\ Len(call[r].data) \in Nat
  <2>1. Distance(r)' = Distance(r)
    BY DEF Distance, Overhead
  <2> QED
    BY <2>1, DistanceIsNat
<1>2. call[r].amount <= Amount(r) /\ call[r].amount \in Nat
  BY DEF AmountOK, Records, StreamAssumption
<1>3. call'[r].amount <= Amount(r)'
  BY <1>2
<1>4. CASE call'[r].place # "low"
  BY <1>3, <1>4 DEF AmountOK
<1>5. CASE call'[r].place = "low"
  <2>1. call[r].place = "low"
    BY <1>5
  <2>2. /\ Distance(r) > 0 /\ Distance(r) <= Amount(r)
        /\ call[r].next = Advance(Index(r), Distance(r))
    BY <2>1 DEF AmountOK
  <2>3. Distance(r)' > 0 /\ Distance(r)' <= Amount(r)'
    BY <1>1, <2>2
  <2>4. ASSUME Kind # "message", NEW k \in 1 .. Len(call[r].data)
        PROVE  storage'[Advance(Index(r), k - 1)] = call[r].data[k]
    <3>1. k \in 1 .. Amount(r)
      BY <1>1, <2>2
    <3>2. storage[Advance(Index(r), k - 1)] = call[r].data[k]
      BY <2>1, <2>4 DEF AmountOK
    <3> QED
      BY <3>1, <3>2
  <2>5. call'[r].amount = 0 /\ (r = Reader => call'[r].amount = 0)
    BY <2>1 DEF AmountOK
  <2>6. call'[r].next = Advance(Index(r)', Distance(r)')
    BY <1>1, <2>2
  <2> QED
    BY <1>3, <1>5, <2>3, <2>4, <2>5, <2>6 DEF AmountOK
<1> QED
  BY <1>4, <1>5

\* A side that is notified: if its handle is stored it is, and the handle is gone.
LEMMA NotifiedKeeps ==
    ASSUME StreamAssumption, Inv, NEW s \in Sides, NEW c \in [Sides -> Records],
           c[s] = call[s], Notified(s, c)
    PROVE  /\ call' \in [Sides -> Records]
           /\ waiting' \in [Sides -> Sides \cup {NULL, Torn}]
           /\ notify' \in [Sides -> {"not waiting", "waiting", "received"}]
           /\ wild' \in BOOLEAN /\ (wild' => wild \/ waiting[s] = Torn)
           /\ call'[Other(s)] = c[Other(s)] /\ waiting'[Other(s)] = waiting[Other(s)]
           /\ notify'[Other(s)] = notify[Other(s)]
           /\ call'[s].amount = call[s].amount /\ call'[s].need = call[s].need
           /\ call'[s].next = call[s].next /\ call'[s].data = call[s].data
           /\ \/ call'[s].place = call[s].place
              \/ call[s].place \in {"blocked", "woken"} /\ call'[s].place = "woken"
           /\ HandleOK(s)' /\ NeedOK(s)' /\ WakeOK(s)'
<1>1. /\ waiting \in [Sides -> Sides \cup {NULL, Torn}]
      /\ notify \in [Sides -> {"not waiting", "waiting", "received"}]
      /\ wild \in BOOLEAN
  BY Types DEF Inv
<1>2. /\ HandleOK(s) /\ NeedOK(s) /\ Other(s) \in Sides /\ Other(s) # s
      /\ s # NULL /\ s # Torn /\ NULL # Torn /\ call[s] \in Records
  BY OfSide
<1>3. waiting' = [waiting EXCEPT ![s] = NULL] /\ wild' = (wild \/ waiting[s] = Torn)
  BY DEF Notified
<1>4. /\ waiting'[s] = NULL /\ waiting'[Other(s)] = waiting[Other(s)]
      /\ waiting' \in [Sides -> Sides \cup {NULL, Torn}]
  BY <1>1, <1>2, <1>3
<1>5. wild' \in BOOLEAN /\ (wild' => wild \/ waiting[s] = Torn)
  BY <1>1, <1>3
<1>6. WakeOK(s)'
  BY <1>2, <1>4 DEF WakeOK
<1>7. CASE waiting[s] # s
  <2>1. notify' = notify /\ call' = c
    BY <1>7 DEF Notified
  <2>2. call'[s] = call[s]
    BY <2>1
  <2>3. HandleOK(s)'
    BY <1>2, <1>4, <1>7, <2>1, <2>2 DEF HandleOK
  <2>4. NeedOK(s)'
    BY <1>2, <2>2 DEF NeedOK
  <2> QED
    BY <1>1, <1>4, <1>5, <1>6, <2>1, <2>2, <2>3, <2>4
<1>8. CASE waiting[s] = s
  <2>1. /\ notify' = [notify EXCEPT ![s] = "received"]
        /\ call' = IF notify[s] = "waiting" THEN [c EXCEPT ![s].place = "woken"] ELSE c
    BY <1>8 DEF Notified
  <2>2. /\ notify'[s] = "received" /\ notify'[Other(s)] = notify[Other(s)]
        /\ notify' \in [Sides -> {"not waiting", "waiting", "received"}]
    BY <1>1, <1>2, <2>1
  <2>3. call[s].place \in {"wait", "blocked", "woken", "clear"} /\ s \notin Interrupts
    BY <1>2, <1>8 DEF HandleOK
  <2>4. CASE notify[s] = "waiting"
    <3>1. call[s].place \in {"blocked", "woken"}
      BY <1>2, <2>4 DEF HandleOK
    <3>2. call' = [c EXCEPT ![s].place = "woken"]
      BY <2>1, <2>4
    <3>3. /\ call' \in [Sides -> Records] /\ call'[Other(s)] = c[Other(s)]
          /\ call'[s].place = "woken"
          /\ call'[s].amount = call[s].amount /\ call'[s].need = call[s].need
          /\ call'[s].next = call[s].next /\ call'[s].data = call[s].data
      BY <1>2, <3>2 DEF Records, Places
    <3>4. HandleOK(s)'
      BY <1>2, <1>4, <2>2, <2>3, <3>3 DEF HandleOK
    <3>5. NeedOK(s)'
      BY <1>2, <3>1, <3>3 DEF NeedOK
    <3> QED
      BY <1>4, <1>5, <1>6, <2>2, <3>1, <3>3, <3>4, <3>5
  <2>5. CASE notify[s] # "waiting"
    <3>1. call' = c
      BY <2>1, <2>5
    <3>2. call'[s] = call[s] /\ call'[Other(s)] = c[Other(s)]
      BY <3>1
    <3>3. call[s].place # "blocked"
      BY <1>2, <2>5 DEF HandleOK
    <3>4. HandleOK(s)'
      BY <1>2, <1>4, <2>2, <2>3, <3>2, <3>3 DEF HandleOK
    <3>5. NeedOK(s)'
      BY <1>2, <3>2 DEF NeedOK
    <3> QED
      BY <1>4, <1>5, <1>6, <2>2, <3>1, <3>2, <3>4, <3>5
  <2> QED
    BY <2>4, <2>5
<1> QED
  BY <1>7, <1>8

\* The other side has called, or one of the application's interrupts wakes a side.
LEMMA CompletedKeeps ==
    ASSUME StreamAssumption, Inv, NEW s \in Sides,
           Completed(Other(s)) \/ CompletedFromISR(s)
    PROVE  Inv'
<1> DEFINE c == IF Completed(Other(s)) THEN [call EXCEPT ![Other(s)] = Idle] ELSE call
<1>1. /\ Other(s) \in Sides /\ Other(s) # s /\ Other(Other(s)) = s
      /\ \A r \in Sides : r = s \/ r = Other(s)
  BY TwoSides
<1>2. /\ Notified(s, c)
      /\ Completed(Other(s)) => call[Other(s)].place = "completed"
      /\ UNCHANGED <<head, tail, storage, trigger, stamp>>
  BY <1>1 DEF Completed, CompletedFromISR, At, ring
<1>3. /\ call \in [Sides -> Records] /\ storage \in [Indexes -> Bytes]
      /\ head \in Indexes /\ tail \in Indexes
  BY Types DEF Inv
<1>4. /\ c \in [Sides -> Records] /\ c[s] = call[s]
      /\ c[Other(s)] = IF Completed(Other(s)) THEN Idle ELSE call[Other(s)]
  <2>1. CASE Completed(Other(s))
    BY <1>1, <1>3, <2>1, IdleIsRecord
  <2>2. CASE ~ Completed(Other(s))
    BY <1>3, <2>2
  <2> QED
    BY <2>1, <2>2
<1> HIDE DEF c
<1>5. /\ call' \in [Sides -> Records]
      /\ waiting' \in [Sides -> Sides \cup {NULL, Torn}]
      /\ notify' \in [Sides -> {"not waiting", "waiting", "received"}]
      /\ wild' \in BOOLEAN
      /\ call'[Other(s)] = c[Other(s)] /\ waiting'[Other(s)] = waiting[Other(s)]
      /\ notify'[Other(s)] = notify[Other(s)]
      /\ call'[s].amount = call[s].amount /\ call'[s].need = call[s].need
      /\ call'[s].next = call[s].next /\ call'[s].data = call[s].data
      /\ \/ call'[s].place = call[s].place
         \/ call[s].place \in {"blocked", "woken"} /\ call'[s].place = "woken"
      /\ HandleOK(s)' /\ NeedOK(s)' /\ WakeOK(s)'
  BY <1>2, <1>4, NotifiedKeeps
<1>6. AmountOK(s)'
  <2>1. Amount(s)' = Amount(s) /\ Index(s)' = Index(s) /\ Amount(s) \in Nat
    <3>1. Amount(s) \in 0 .. xLength - 1 /\ xLength \in Nat
      BY OfSide DEF StreamAssumption
    <3> QED
      BY <1>2, <3>1, SameAmount
  <2>2. AmountOK(s) /\ call[s] \in Records
    BY OfSide
  <2>3. Amount(s) <= Amount(s)' /\ Amount(s)' \in Nat
    BY <2>1
  <2> QED
    BY <1>2, <1>5, <2>1, <2>2, <2>3, AmountKeeps
<1>7. /\ HandleOK(Other(s)) /\ NeedOK(Other(s)) /\ AmountOK(Other(s)) /\ WakeOK(Other(s))
      /\ Other(s) # NULL /\ Other(s) # Torn /\ NULL # Torn
  BY <1>1, OfSide
<1>8. HandleOK(Other(s))' /\ NeedOK(Other(s))' /\ AmountOK(Other(s))' /\ WakeOK(Other(s))'
  <2>1. CASE Completed(Other(s))
    <3>1. /\ call'[Other(s)].place = "idle" /\ call'[Other(s)].amount = 0
          /\ call'[Other(s)].need = 0
      <4>1. call'[Other(s)] = Idle
        BY <1>4, <1>5, <2>1
      <4> QED
        BY <4>1, IdleIs
    <3>2. call[Other(s)].place = "completed"
      BY <1>2, <2>1
    <3>3. HandleOK(Other(s))'
      BY <1>5, <1>7, <3>1, <3>2 DEF HandleOK
    <3>4. NeedOK(Other(s))' /\ WakeOK(Other(s))'
      BY <3>1 DEF NeedOK, WakeOK
    <3>5. AmountOK(Other(s))'
      BY <1>1, <1>2, <3>1, NothingSeen
    <3> QED
      BY <3>3, <3>4, <3>5
  <2>2. CASE ~ Completed(Other(s))
    <3>1. call'[Other(s)] = call[Other(s)]
      BY <1>4, <1>5, <2>2
    <3>2. Notifies(s) => Notifies(s)'
      BY <1>5 DEF Notifies
    <3>3. Notifies(Other(Other(s))) => Notifies(Other(Other(s)))'
      BY <1>1, <3>2
    <3> QED
      BY <1>1, <1>2, <1>5, <1>7, <3>1, <3>3, OtherKeeps
  <2> QED
    BY <2>1, <2>2
<1>9. TypeOK'
  BY <1>2, <1>5, Types DEF Inv, TypeOK, Records
<1> QED
  BY <1>1, <1>5, <1>6, <1>8, <1>9 DEF Inv

\* The writer copies its bytes behind those in the buffer, or there is no room.
LEMMA WriteMessageKeeps ==
    ASSUME StoredAtOnce, Inv, WriteMessage
    PROVE  Inv'
<1> DEFINE chunk == Chunk(call[Writer].data, call[Writer].amount)
           sent == SubSeq(call[Writer].data, 1, Payload(chunk))
           rec == [Idle EXCEPT !.place = "low", !.next = Advance(head, Len(chunk)), !.data = sent]
<1>1. /\ call[Writer].place = "copy"
      /\ UNCHANGED <<head, tail, trigger, waiting, notify, stamp, wild>>
      /\ Writer \in Sides /\ Reader \in Sides /\ Writer # Reader
      /\ Other(Writer) = Reader /\ Other(Reader) = Writer
      /\ \A r \in Sides : r = Writer \/ r = Reader
  BY DEF WriteMessage, At, Sides, StoredAtOnce, StreamAssumption, Other
<1>2. /\ waiting \in [Sides -> Sides \cup {NULL, Torn}]
      /\ notify \in [Sides -> {"not waiting", "waiting", "received"}]
      /\ call \in [Sides -> Records]
      /\ storage \in [Indexes -> Bytes] /\ head \in Indexes /\ tail \in Indexes
  BY Types DEF Inv
<1>3. /\ HandleOK(Writer) /\ NeedOK(Writer) /\ AmountOK(Writer)
      /\ Amount(Writer) \in 0 .. xLength - 1 /\ call[Writer] \in Records
      /\ Writer # NULL /\ Writer # Torn /\ NULL # Torn
  BY <1>1, OfSide DEF StoredAtOnce
<1>4. ~ Notifies(Writer)
  BY <1>1 DEF Notifies
<1>5. /\ call[Writer].data \in Seq(Bytes) /\ call[Writer].amount \in 0 .. xLength - 1
      /\ call[Writer].amount <= Amount(Writer)
  BY <1>3 DEF Records, AmountOK
<1>6. /\ chunk \in Seq(Bytes) /\ Len(chunk) <= call[Writer].amount
      /\ chunk # <<>> =>
            /\ Len(chunk) > 0
            /\ Payload(chunk) \in 0 .. Len(call[Writer].data)
            /\ Payload(chunk) + Overhead = Len(chunk)
      /\ Kind # "message" => chunk = sent
  BY <1>5, ChunkIs
<1>7. CASE chunk = <<>>
  <2>1. Return(Writer) /\ storage' = storage
    BY <1>7 DEF WriteMessage
  <2> QED
    BY <1>1, <1>4, <2>1, ReturnKeeps DEF StoredAtOnce
<1>8. CASE chunk # <<>>
  <2>1. storage' = Written(chunk, head) /\ call' = [call EXCEPT ![Writer] = rec]
    BY <1>8 DEF WriteMessage
  <2> HIDE DEF chunk
  <2>2. /\ xLength \in Nat /\ Len(chunk) \in Nat /\ Len(chunk) <= Amount(Writer)
        /\ Len(chunk) < xLength /\ Len(chunk) \in 0 .. xLength
    <3>1. xLength \in Nat /\ Amount(Writer) \in Nat /\ call[Writer].amount \in Nat
      BY <1>3, <1>5 DEF StoredAtOnce, StreamAssumption
    <3>2. Len(chunk) \in Nat
      BY <1>6
    <3> QED
      BY <1>3, <1>5, <1>6, <3>1, <3>2
  <2>3. sent \in Seq(Bytes) /\ Len(sent) = Payload(chunk)
    <3>1. Len(call[Writer].data) \in Nat
      BY <1>5
    <3> QED
      BY <1>5, <1>6, <1>8, <3>1
  <2> HIDE DEF sent
  <2>4. Advance(head, Len(chunk)) \in Indexes
    BY <1>2, <2>2, AdvanceAdds DEF StoredAtOnce
  <2>5. /\ rec \in Records /\ rec.place = "low" /\ rec.amount = 0
        /\ rec.data = sent /\ rec.next = Advance(head, Len(chunk))
    BY <2>3, <2>4, IdleIsRecord DEF Idle, Records, Places, StoredAtOnce
  <2> HIDE DEF rec
  <2>6. /\ call' \in [Sides -> Records] /\ call'[Reader] = call[Reader]
        /\ call'[Writer] = rec
    BY <1>1, <1>2, <2>1, <2>5
  <2>7. /\ storage' \in [Indexes -> Bytes]
        /\ \A k \in 1 .. Len(chunk) : storage'[Advance(head, k - 1)] = chunk[k]
    BY <1>2, <1>6, <2>1, <2>2, WrittenIs DEF StoredAtOnce
  <2>8. HandleOK(Writer)'
    BY <1>1, <1>3, <2>5, <2>6 DEF HandleOK
  <2>9. NeedOK(Writer)' /\ WakeOK(Writer)'
    BY <1>1, <2>5, <2>6 DEF NeedOK, WakeOK
  <2>10. Amount(Writer)' = Amount(Writer) /\ Index(Writer)' = head
    BY <1>1, SameAmount DEF Index
  <2>11. Distance(Writer)' = Len(chunk)
    BY <1>6, <1>8, <2>3, <2>5, <2>6 DEF Distance, Overhead
  <2>12. Kind # "message" =>
             \A k \in 1 .. Len(rec.data) : storage'[Advance(head, k - 1)] = rec.data[k]
    <3>1. Kind # "message" => rec.data = chunk
      BY <1>6, <2>5
    <3> QED
      BY <2>7, <3>1
  <2>13. 0 <= Amount(Writer)
    BY <1>3, <2>2
  <2>14. AmountOK(Writer)'
    BY <1>1, <1>6, <1>8, <2>2, <2>5, <2>6, <2>10, <2>11, <2>12, <2>13 DEF AmountOK
  <2>15. /\ HandleOK(Reader) /\ NeedOK(Reader) /\ AmountOK(Reader) /\ WakeOK(Reader)
         /\ call[Reader] \in Records
    BY <1>1, OfSide DEF StoredAtOnce
  <2>16. Amount(Reader) = BytesBetween(tail, head) /\ Index(Reader) = tail
    BY <1>1 DEF Amount, Index, prvBytesInBuffer
  <2>17. \A k \in 1 .. Amount(Reader) :
             storage'[Advance(tail, k - 1)] = storage[Advance(tail, k - 1)]
    <3>1. Len(chunk) + BytesBetween(tail, head) < xLength
      <4>1. Amount(Writer) = xLength - 1 - BytesBetween(tail, head)
            /\ BytesBetween(tail, head) \in 0 .. xLength - 1
        BY <1>2, BytesAndSpaces DEF Amount, StoredAtOnce, prvBytesInBuffer
      <4> QED
        BY <2>2, <4>1
    <3>2. storage \in [Indexes -> Bytes] /\ head \in Indexes /\ tail \in Indexes /\ chunk \in Seq(Bytes)
      BY <1>2, <1>6
    <3>5. StreamAssumption
      BY DEF StoredAtOnce
    <3>3. ASSUME NEW k \in 1 .. BytesBetween(tail, head)
          PROVE  Written(chunk, head)[Advance(tail, k - 1)] = storage[Advance(tail, k - 1)]
      BY <3>1, <3>2, <3>5, WrittenElsewhere
    <3>4. storage' = Written(chunk, head) /\ Amount(Reader) = BytesBetween(tail, head)
      BY <2>1, <2>16
    <3> QED
      BY <3>3, <3>4
  <2>18. Amount(Reader)' = Amount(Reader) /\ Index(Reader)' = tail /\ Amount(Reader) \in Nat
    <3>1. Amount(Reader)' = Amount(Reader) /\ Index(Reader)' = Index(Reader)
      BY <1>1, SameAmount
    <3>2. Amount(Reader) \in 0 .. xLength - 1
      BY <1>1, OfSide DEF StoredAtOnce
    <3> QED
      BY <2>2, <2>16, <3>1, <3>2
  <2>19. AmountOK(Reader)'
    <3>1. Amount(Reader)' \in Nat /\ Amount(Reader) <= Amount(Reader)'
      BY <2>18
    <3>2. Index(Reader)' = Index(Reader)
          /\ \A k \in 1 .. Amount(Reader) :
              storage'[Advance(Index(Reader), k - 1)] = storage[Advance(Index(Reader), k - 1)]
      BY <2>16, <2>17, <2>18
    <3> QED
      BY <1>1, <2>6, <2>15, <2>18, <3>1, <3>2, AmountKeeps DEF StoredAtOnce
  <2>20. HandleOK(Reader)' /\ NeedOK(Reader)'
    BY <1>1, <2>6, <2>15 DEF HandleOK, NeedOK
  <2>21. WakeOK(Reader)'
    <3>1. Enough(Reader)' <=> Enough(Reader)
      BY <1>1, <2>6 DEF Enough, prvBytesInBuffer
    <3>2. ~ Notifies(Other(Reader))
      BY <1>1, <1>4
    <3> QED
      BY <1>1, <2>6, <2>15, <3>1, <3>2 DEF WakeOK
  <2>22. TypeOK'
    BY <1>1, <1>2, <2>6, <2>7, Types DEF Inv, TypeOK, Records
  <2> QED
    BY <1>1, <2>8, <2>9, <2>14, <2>19, <2>20, <2>21, <2>22 DEF Inv
<1> QED
  BY <1>7, <1>8

\* What the writer saw or waits for is there when the reader has taken bytes, and
\* what the reader saw or waits for when the writer has added some.
LEMMA SpacesGrow ==
    ASSUME StreamAssumption, head \in Indexes, tail \in Indexes,
           NEW n \in 0 .. Amount(Reader), tail' = Advance(tail, n), head' = head
    PROVE  /\ tail' \in Indexes
           /\ Amount(Writer)' = Amount(Writer) + n
           /\ Amount(Reader)' = Amount(Reader) - n
           /\ Amount(Writer) \in Nat /\ Amount(Reader) \in Nat
           /\ Amount(Writer)' \in Nat /\ Amount(Reader)' \in Nat
           /\ Amount(Writer) <= Amount(Writer)' /\ 0 <= Amount(Reader)' /\ n \in Nat
<1>1. Writer # Reader /\ xLength \in Nat
  BY DEF StreamAssumption
<1>2. Amount(Reader) = BytesBetween(tail, head) /\ Amount(Writer) = xStreamBufferSpacesAvailable
  BY <1>1 DEF Amount, prvBytesInBuffer
<1>3. /\ Amount(Reader)' = BytesBetween(tail', head')
      /\ Amount(Writer)' = xStreamBufferSpacesAvailable'
  BY <1>1 DEF Amount, prvBytesInBuffer
<1>4. /\ Amount(Reader) \in 0 .. xLength - 1
      /\ Amount(Writer) = xLength - 1 - Amount(Reader)
  BY <1>2, BytesAndSpaces DEF prvBytesInBuffer
<1>5. n \in 0 .. xLength /\ n \in Nat /\ n <= Amount(Reader)
  BY <1>1, <1>4
<1>6. tail' \in Indexes
  BY <1>5, AdvanceAdds
<1>7. Amount(Reader)' = Amount(Reader) - n
  BY <1>2, <1>3, <1>5, AdvanceCounts
<1>8. Amount(Writer)' = xLength - 1 - Amount(Reader)'
  BY <1>3, <1>6, SpacesAt DEF prvBytesInBuffer
<1> QED
  BY <1>1, <1>4, <1>5, <1>6, <1>7, <1>8

\* Moving the head by n turns n bytes of room into n bytes to read.
LEMMA BytesGrow ==
    ASSUME StreamAssumption, head \in Indexes, tail \in Indexes,
           NEW n \in 0 .. Amount(Writer), head' = Advance(head, n), tail' = tail
    PROVE  /\ head' \in Indexes
           /\ Amount(Reader)' = Amount(Reader) + n
           /\ Amount(Writer)' = Amount(Writer) - n
           /\ Amount(Writer) \in Nat /\ Amount(Reader) \in Nat
           /\ Amount(Writer)' \in Nat /\ Amount(Reader)' \in Nat
           /\ Amount(Reader) <= Amount(Reader)' /\ 0 <= Amount(Writer)' /\ n \in Nat
<1>1. Writer # Reader /\ xLength \in Nat
  BY DEF StreamAssumption
<1>2. Amount(Reader) = BytesBetween(tail, head) /\ Amount(Writer) = xStreamBufferSpacesAvailable
  BY <1>1 DEF Amount, prvBytesInBuffer
<1>3. /\ Amount(Reader)' = BytesBetween(tail', head')
      /\ Amount(Writer)' = xStreamBufferSpacesAvailable'
  BY <1>1 DEF Amount, prvBytesInBuffer
<1>4. /\ Amount(Reader) \in 0 .. xLength - 1
      /\ Amount(Writer) = xLength - 1 - Amount(Reader)
  BY <1>2, BytesAndSpaces DEF prvBytesInBuffer
<1>5. n \in 0 .. xLength /\ n \in Nat /\ Amount(Reader) + n < xLength
  BY <1>1, <1>4
<1>6. head' \in Indexes
  BY <1>5, AdvanceAdds
<1>7. Amount(Reader)' = Amount(Reader) + n
  BY <1>2, <1>3, <1>5, AdvanceCounts
<1>8. Amount(Writer)' = xLength - 1 - Amount(Reader)'
  BY <1>3, <1>6, SpacesAt DEF prvBytesInBuffer
<1> QED
  BY <1>1, <1>4, <1>5, <1>6, <1>7, <1>8

\* What the reader does to the writer when it moves its index, with bytes taken that
\* it saw, is notify it or have it notified.
LEMMA TakenKeeps ==
    ASSUME StreamAssumption, Inv, NEW n \in 0 .. Amount(Reader),
           tail' = Advance(tail, n), UNCHANGED <<head, storage, trigger, stamp>>,
           call' \in [Sides -> Records],
           waiting' \in [Sides -> Sides \cup {NULL, Torn}],
           notify' \in [Sides -> {"not waiting", "waiting", "received"}],
           wild' \in BOOLEAN,
           HandleOK(Writer)', NeedOK(Writer)', WakeOK(Writer)',
           call'[Writer].amount = call[Writer].amount, call'[Writer].need = call[Writer].need,
           call'[Writer].next = call[Writer].next, call'[Writer].data = call[Writer].data,
           \/ call'[Writer].place = call[Writer].place
           \/ call[Writer].place \in {"blocked", "woken"} /\ call'[Writer].place = "woken",
           HandleOK(Reader)', NeedOK(Reader)',
           \/ call'[Reader].place = "idle"
           \/ call'[Reader].place = "high" /\ call'[Reader].next = tail',
           call'[Reader].amount = 0
    PROVE  Inv'
<1>1. /\ Writer \in Sides /\ Reader \in Sides /\ Writer # Reader
      /\ \A r \in Sides : r = Writer \/ r = Reader
  BY DEF Sides, StreamAssumption
<1>2. head \in Indexes /\ tail \in Indexes
  BY Types DEF Inv
<1>3. /\ tail' \in Indexes
      /\ Amount(Writer)' = Amount(Writer) + n /\ n \in Nat
      /\ Amount(Writer) \in Nat /\ Amount(Writer)' \in Nat /\ Amount(Reader)' \in Nat
      /\ Amount(Writer) <= Amount(Writer)' /\ 0 <= Amount(Reader)'
  <2>1. head' = head
    OBVIOUS
  <2> QED
    BY <1>2, <2>1, SpacesGrow
<1>4. AmountOK(Writer)'
  <2>1. AmountOK(Writer) /\ call[Writer] \in Records
    BY <1>1, OfSide
  <2>2. Index(Writer)' = Index(Writer) /\ storage' = storage
    BY DEF Index
  <2> QED
    BY <1>1, <1>3, <2>1, <2>2, AmountKeeps
<1>5. AmountOK(Reader)'
  <2>1. Index(Reader)' = tail'
    BY <1>1 DEF Index
  <2> QED
    BY <1>1, <1>3, <2>1 DEF AmountOK
<1>6. WakeOK(Reader)'
  BY DEF WakeOK
<1>7. TypeOK'
  BY <1>3, Types DEF Inv, TypeOK, Records
<1> QED
  BY <1>1, <1>4, <1>5, <1>6, <1>7 DEF Inv

\* The reader stores its index: it is about to notify the writer.
LEMMA StoreTailLowKeeps ==
    ASSUME StoredAtOnce, Inv, StoreTailLow
    PROVE  Inv'
<1>1. /\ call[Reader].place = "low" /\ tail' = LowHalf(tail, call[Reader].next)
      /\ Go(Reader, "high") /\ UNCHANGED <<head, storage, trigger, waiting, notify, stamp, wild>>
      /\ Writer \in Sides /\ Reader \in Sides /\ Writer # Reader /\ StreamAssumption
  BY DEF StoreTailLow, At, Sides, StreamAssumption, StoredAtOnce
<1>2. /\ waiting \in [Sides -> Sides \cup {NULL, Torn}]
      /\ notify \in [Sides -> {"not waiting", "waiting", "received"}]
      /\ call \in [Sides -> Records] /\ wild \in BOOLEAN /\ tail \in Indexes
  BY Types DEF Inv
<1>3. /\ HandleOK(Reader) /\ NeedOK(Reader) /\ AmountOK(Reader) /\ call[Reader] \in Records
      /\ HandleOK(Writer) /\ NeedOK(Writer) /\ WakeOK(Writer)
      /\ Amount(Reader) \in 0 .. xLength - 1
  BY <1>1, OfSide
<1>4. tail' = call[Reader].next
  <2>1. call[Reader].next \in Indexes
    BY <1>3 DEF Records
  <2> QED
    BY <1>1, <1>2, <2>1, LowHalfIsAll
<1>5. /\ call' \in [Sides -> Records] /\ call'[Writer] = call[Writer]
      /\ call'[Reader].place = "high" /\ call'[Reader].amount = call[Reader].amount
      /\ call'[Reader].need = call[Reader].need /\ call'[Reader].next = call[Reader].next
  <2>1. "high" \in Places
    BY DEF Places
  <2>2. call \in [Sides -> Records] /\ Reader \in Sides /\ Go(Reader, "high")
    BY <1>1, <1>2
  <2>3. Writer \in Sides \ {Reader}
    BY <1>1
  <2> QED
    BY <2>1, <2>2, <2>3, GoesOn
<1> DEFINE n == Distance(Reader)
<1>6. /\ tail' = Advance(tail, n) /\ n <= Amount(Reader) /\ n > 0
      /\ call[Reader].amount = 0
  BY <1>1, <1>3, <1>4 DEF AmountOK, Index
<1>7. n \in 0 .. Amount(Reader)
  <2>1. n \in Nat
    BY <1>1, <1>3, DistanceIsNat
  <2>2. Amount(Reader) \in Nat
    BY <1>1, <1>3 DEF StreamAssumption
  <2> QED
    BY <1>6, <2>1, <2>2
<1> HIDE DEF n
<1>8. HandleOK(Writer)' /\ NeedOK(Writer)'
  BY <1>1, <1>3, <1>5 DEF HandleOK, NeedOK
<1>9. HandleOK(Reader)' /\ NeedOK(Reader)'
  <2>1. HandleOK(Reader)'
    BY <1>1, <1>3, <1>5 DEF HandleOK
  <2>2. NeedOK(Reader)'
    BY <1>1, <1>3, <1>5 DEF NeedOK
  <2> QED
    BY <2>1, <2>2
<1>10. WakeOK(Writer)'
  <2>1. Notifies(Other(Writer))'
    BY <1>1, <1>5 DEF Notifies, Other
  <2> QED
    BY <2>1 DEF WakeOK
<1> QED
  BY <1>1, <1>2, <1>4, <1>5, <1>6, <1>7, <1>8, <1>9, <1>10, TakenKeeps

\* An interrupt receives: the writer is notified.
LEMMA ReceiveFromISRKeeps ==
    ASSUME StreamAssumption, Inv, NEW room \in 1 .. MaxRead, xStreamBufferReceiveFromISR(room)
    PROVE  Inv'
<1> DEFINE taken == Taken(room, prvBytesInBuffer)
           c == [call EXCEPT ![Reader].data = Given(taken)]
<1>1. /\ Reader \in Interrupts /\ taken # 0 /\ tail' = Advance(tail, taken)
      /\ Notified(Writer, c) /\ UNCHANGED <<head, storage, trigger, stamp>>
      /\ Kind = "message" => prvBytesInBuffer > sbBYTES_TO_STORE_MESSAGE_LENGTH
  BY DEF xStreamBufferReceiveFromISR
<1>2. /\ Writer \in Sides /\ Reader \in Sides /\ Writer # Reader /\ Other(Writer) = Reader
      /\ room \in Nat /\ xLength \in Nat
  BY DEF Sides, StreamAssumption, Other
<1>3. /\ call \in [Sides -> Records] /\ storage \in [Indexes -> Bytes] /\ tail \in Indexes
      /\ head \in Indexes
  BY Types DEF Inv
<1>4. /\ HandleOK(Reader) /\ NeedOK(Reader) /\ AmountOK(Reader) /\ call[Reader] \in Records
      /\ Reader # NULL /\ Reader # Torn /\ NULL # Torn
  BY <1>2, OfSide
<1>5. prvBytesInBuffer \in 0 .. xLength - 1 /\ Amount(Reader) = prvBytesInBuffer
  BY <1>2, <1>3, BytesAndSpaces DEF Amount
<1>6. taken \in 0 .. Amount(Reader) /\ Given(taken) \in Seq(Bytes)
  BY <1>1, <1>2, <1>3, <1>5, TakenIs
<1> HIDE DEF taken
<1>7. /\ c \in [Sides -> Records] /\ c[Writer] = call[Writer]
      /\ c[Reader].place = call[Reader].place /\ c[Reader].amount = call[Reader].amount
      /\ c[Reader].need = call[Reader].need /\ c[Reader].wait = call[Reader].wait
  BY <1>2, <1>3, <1>4, <1>6 DEF Records
<1> HIDE DEF c
<1>8. /\ call' \in [Sides -> Records]
      /\ waiting' \in [Sides -> Sides \cup {NULL, Torn}]
      /\ notify' \in [Sides -> {"not waiting", "waiting", "received"}]
      /\ wild' \in BOOLEAN
      /\ call'[Reader] = c[Reader] /\ waiting'[Reader] = waiting[Reader]
      /\ notify'[Reader] = notify[Reader]
      /\ call'[Writer].amount = call[Writer].amount /\ call'[Writer].need = call[Writer].need
      /\ call'[Writer].next = call[Writer].next /\ call'[Writer].data = call[Writer].data
      /\ \/ call'[Writer].place = call[Writer].place
         \/ call[Writer].place \in {"blocked", "woken"} /\ call'[Writer].place = "woken"
      /\ HandleOK(Writer)' /\ NeedOK(Writer)' /\ WakeOK(Writer)'
  BY <1>1, <1>2, <1>7, NotifiedKeeps
<1>9. call[Reader].place = "idle" /\ call[Reader].amount = 0
  BY <1>1, <1>4 DEF HandleOK, AmountOK
<1>10. call'[Reader].place = "idle" /\ call'[Reader].amount = 0 /\ call'[Reader].need = call[Reader].need
  BY <1>7, <1>8, <1>9
<1>11. HandleOK(Reader)'
  BY <1>4, <1>8, <1>9, <1>10 DEF HandleOK
<1>12. NeedOK(Reader)'
  BY <1>2, <1>4, <1>10 DEF NeedOK
<1> QED
  BY <1>1, <1>6, <1>8, <1>10, <1>11, <1>12, TakenKeeps

\* The writer moves its index over what it wrote behind the bytes in the buffer: the
\* reader is notified, or will be, or is not yet to be.
LEMMA AddedKeeps ==
    ASSUME StreamAssumption, Inv, NEW n \in 0 .. Amount(Writer),
           head' = Advance(head, n), UNCHANGED <<tail, trigger>>,
           storage' \in [Indexes -> Bytes], stamp' \in Bytes,
           \A k \in 1 .. Amount(Reader) :
               storage'[Advance(tail, k - 1)] = storage[Advance(tail, k - 1)],
           call' \in [Sides -> Records],
           waiting' \in [Sides -> Sides \cup {NULL, Torn}],
           notify' \in [Sides -> {"not waiting", "waiting", "received"}],
           wild' \in BOOLEAN,
           HandleOK(Reader)', NeedOK(Reader)', WakeOK(Reader)',
           call'[Reader].amount = call[Reader].amount, call'[Reader].need = call[Reader].need,
           call'[Reader].next = call[Reader].next, call'[Reader].data = call[Reader].data,
           \/ call'[Reader].place = call[Reader].place
           \/ call[Reader].place \in {"blocked", "woken"} /\ call'[Reader].place = "woken",
           HandleOK(Writer)', NeedOK(Writer)',
           \/ call'[Writer].place = "idle"
           \/ call'[Writer].place = "high" /\ call'[Writer].next = head',
           call'[Writer].amount = 0
    PROVE  Inv'
<1>1. /\ Writer \in Sides /\ Reader \in Sides /\ Writer # Reader
      /\ \A r \in Sides : r = Writer \/ r = Reader
  BY DEF Sides, StreamAssumption
<1>2. head \in Indexes /\ tail \in Indexes
  BY Types DEF Inv
<1>3. /\ head' \in Indexes
      /\ Amount(Reader)' = Amount(Reader) + n /\ n \in Nat
      /\ Amount(Reader) \in Nat /\ Amount(Writer)' \in Nat /\ Amount(Reader)' \in Nat
      /\ Amount(Reader) <= Amount(Reader)' /\ 0 <= Amount(Writer)'
  <2>1. tail' = tail
    OBVIOUS
  <2> QED
    BY <1>2, <2>1, BytesGrow
<1>4. AmountOK(Reader)'
  <2>1. AmountOK(Reader) /\ call[Reader] \in Records
    BY <1>1, OfSide
  <2>2. Index(Reader) = tail /\ Index(Reader)' = Index(Reader)
    BY <1>1 DEF Index
  <2>3. \A k \in 1 .. Amount(Reader) :
            storage'[Advance(Index(Reader), k - 1)] = storage[Advance(Index(Reader), k - 1)]
    BY <2>2
  <2> QED
    BY <1>1, <1>3, <2>1, <2>2, <2>3, AmountKeeps
<1>5. AmountOK(Writer)'
  <2>1. Index(Writer)' = head'
    BY <1>1 DEF Index
  <2> QED
    BY <1>1, <1>3, <2>1 DEF AmountOK
<1>6. WakeOK(Writer)'
  BY DEF WakeOK
<1>7. TypeOK'
  <2>1. tail' \in Indexes /\ trigger' \in Triggers
    BY Types DEF Inv
  <2> QED
    BY <1>3, <2>1 DEF TypeOK, Records
<1> QED
  BY <1>1, <1>4, <1>5, <1>6, <1>7 DEF Inv

\* The byte the writer sends next is a byte.
LEMMA StampIsByte ==
    ASSUME StreamAssumption, Inv, NEW n \in Nat
    PROVE  (stamp + n) % Base \in Bytes
<1>1. stamp \in 0 .. Base - 1 /\ Base \in Nat \ {0}
  BY DEF StreamAssumption, Inv, TypeOK, Bytes
<1>2. \A m \in Nat : m % Base \in 0 .. Base - 1
  BY <1>1
<1> DEFINE m == stamp + n
<1>3. m \in Nat
  BY <1>1
<1> HIDE DEF m
<1>4. m % Base \in Bytes
  BY <1>2, <1>3 DEF Bytes
<1> QED
  BY <1>4 DEF m

\* The writer stores its index: it is about to look at the trigger level.
LEMMA StoreHeadLowKeeps ==
    ASSUME StoredAtOnce, Inv, StoreHeadLow
    PROVE  Inv'
<1>1. /\ call[Writer].place = "low" /\ head' = LowHalf(head, call[Writer].next)
      /\ Go(Writer, "high") /\ UNCHANGED <<tail, storage, trigger, waiting, notify, wild>>
      /\ stamp' = (stamp + Len(call[Writer].data)) % Base
      /\ Writer \in Sides /\ Reader \in Sides /\ Writer # Reader /\ StreamAssumption
  BY DEF StoreHeadLow, At, Sides, StreamAssumption, StoredAtOnce
<1>2. /\ waiting \in [Sides -> Sides \cup {NULL, Torn}]
      /\ notify \in [Sides -> {"not waiting", "waiting", "received"}]
      /\ call \in [Sides -> Records] /\ wild \in BOOLEAN /\ head \in Indexes
      /\ storage \in [Indexes -> Bytes]
  BY Types DEF Inv
<1>3. /\ HandleOK(Writer) /\ NeedOK(Writer) /\ AmountOK(Writer) /\ call[Writer] \in Records
      /\ HandleOK(Reader) /\ NeedOK(Reader) /\ WakeOK(Reader)
      /\ Amount(Writer) \in 0 .. xLength - 1
  BY <1>1, OfSide
<1>4. head' = call[Writer].next
  <2>1. call[Writer].next \in Indexes
    BY <1>3 DEF Records
  <2> QED
    BY <1>1, <1>2, <2>1, LowHalfIsAll
<1>5. /\ call' \in [Sides -> Records] /\ call'[Reader] = call[Reader]
      /\ call'[Writer].place = "high" /\ call'[Writer].amount = call[Writer].amount
      /\ call'[Writer].need = call[Writer].need /\ call'[Writer].next = call[Writer].next
  BY <1>1, <1>2, GoesOn DEF Places
<1> DEFINE n == Distance(Writer)
<1>6. /\ head' = Advance(head, n) /\ n <= Amount(Writer) /\ n > 0
      /\ call[Writer].amount = 0
  BY <1>1, <1>3, <1>4 DEF AmountOK, Index
<1>7. n \in 0 .. Amount(Writer) /\ Len(call[Writer].data) \in Nat
  <2>1. n \in Nat /\ Len(call[Writer].data) \in Nat
    BY <1>1, <1>3, DistanceIsNat
  <2>2. Amount(Writer) \in Nat
    BY <1>1, <1>3 DEF StreamAssumption
  <2> QED
    BY <1>6, <2>1, <2>2
<1> HIDE DEF n
<1>8. stamp' \in Bytes
  BY <1>1, <1>7, StampIsByte
<1>9. HandleOK(Reader)' /\ NeedOK(Reader)'
  BY <1>1, <1>3, <1>5 DEF HandleOK, NeedOK
<1>10. HandleOK(Writer)' /\ NeedOK(Writer)'
  <2>1. HandleOK(Writer)'
    BY <1>1, <1>3, <1>5 DEF HandleOK
  <2>2. NeedOK(Writer)'
    BY <1>1, <1>3, <1>5 DEF NeedOK
  <2> QED
    BY <2>1, <2>2
<1>11. WakeOK(Reader)'
  <2>1. Notifies(Other(Reader))'
    BY <1>1, <1>5 DEF Notifies, Other
  <2> QED
    BY <2>1 DEF WakeOK
<1> QED
  BY <1>1, <1>2, <1>4, <1>5, <1>6, <1>7, <1>8, <1>9, <1>10, <1>11, AddedKeeps

\* An interrupt sends: the reader is notified if the trigger level is reached.
LEMMA SendFromISRKeeps ==
    ASSUME StoredAtOnce, Inv, NEW n \in 1 .. MaxSend, xStreamBufferSendFromISR(n)
    PROVE  Inv'
<1> DEFINE chunk == Chunk(Stamped(n), xStreamBufferSpacesAvailable)
           next == Advance(head, Len(chunk))
<1>1. /\ Writer \in Interrupts /\ chunk # <<>> /\ storage' = Written(chunk, head)
      /\ head' = next /\ stamp' = (stamp + Payload(chunk)) % Base
      /\ UNCHANGED <<tail, trigger>>
      /\ BytesBetween(tail, next) >= trigger => Notified(Reader, call)
      /\ ~ (BytesBetween(tail, next) >= trigger) => UNCHANGED <<waiting, notify, call, wild>>
  BY DEF xStreamBufferSendFromISR
<1>2. /\ Writer \in Sides /\ Reader \in Sides /\ Writer # Reader /\ Other(Reader) = Writer
      /\ n \in Nat /\ xLength \in Nat /\ StreamAssumption
  BY DEF Sides, StreamAssumption, StoredAtOnce, Other
<1>3. /\ waiting \in [Sides -> Sides \cup {NULL, Torn}]
      /\ notify \in [Sides -> {"not waiting", "waiting", "received"}]
      /\ call \in [Sides -> Records] /\ wild \in BOOLEAN /\ head \in Indexes
      /\ storage \in [Indexes -> Bytes] /\ tail \in Indexes
  BY Types DEF Inv
<1>4. /\ HandleOK(Writer) /\ NeedOK(Writer) /\ AmountOK(Writer)
      /\ HandleOK(Reader) /\ NeedOK(Reader) /\ WakeOK(Reader)
      /\ Writer # NULL /\ Writer # Torn /\ NULL # Torn
  BY <1>2, OfSide
<1>5. /\ xStreamBufferSpacesAvailable \in 0 .. xLength - 1
      /\ Amount(Writer) = xStreamBufferSpacesAvailable
      /\ xStreamBufferSpacesAvailable = xLength - 1 - BytesBetween(tail, head)
      /\ BytesBetween(tail, head) \in 0 .. xLength - 1
      /\ Amount(Reader) = BytesBetween(tail, head)
  BY <1>2, <1>3, BytesAndSpaces DEF Amount, prvBytesInBuffer
<1>6. /\ chunk \in Seq(Bytes) /\ Len(chunk) <= xStreamBufferSpacesAvailable
      /\ Len(chunk) > 0 /\ Payload(chunk) \in 0 .. Len(Stamped(n))
  BY <1>1, <1>2, <1>5, StampedBytes, ChunkIs
<1> HIDE DEF chunk
<1>7. /\ Len(chunk) \in 0 .. Amount(Writer) /\ Len(chunk) < xLength
      /\ Len(chunk) + BytesBetween(tail, head) < xLength
  <2>1. Len(chunk) \in Nat
    BY <1>6
  <2> QED
    BY <1>2, <1>5, <1>6, <2>1
<1>8. stamp' \in Bytes
  <2>1. Payload(chunk) \in Nat
    BY <1>2, <1>6, StampedBytes
  <2> QED
    BY <1>1, <1>2, <2>1, StampIsByte
<1>9. /\ storage' \in [Indexes -> Bytes]
      /\ \A k \in 1 .. Amount(Reader) :
             storage'[Advance(tail, k - 1)] = storage[Advance(tail, k - 1)]
  <2>1. Written(chunk, head) \in [Indexes -> Bytes]
    BY <1>2, <1>3, <1>6, <1>7, WrittenIs
  <2>2. \A k \in 1 .. BytesBetween(tail, head) :
            Written(chunk, head)[Advance(tail, k - 1)] = storage[Advance(tail, k - 1)]
    BY <1>2, <1>3, <1>6, <1>7, WrittenElsewhere
  <2> QED
    BY <1>1, <1>5, <2>1, <2>2
<1>10. call[Writer].place = "idle" /\ call[Writer].amount = 0
  BY <1>1, <1>4 DEF HandleOK, AmountOK
<1>11. CASE BytesBetween(tail, next) >= trigger
  <2>1. /\ call' \in [Sides -> Records]
        /\ waiting' \in [Sides -> Sides \cup {NULL, Torn}]
        /\ notify' \in [Sides -> {"not waiting", "waiting", "received"}]
        /\ wild' \in BOOLEAN
        /\ call'[Writer] = call[Writer] /\ waiting'[Writer] = waiting[Writer]
        /\ notify'[Writer] = notify[Writer]
        /\ call'[Reader].amount = call[Reader].amount /\ call'[Reader].need = call[Reader].need
        /\ call'[Reader].next = call[Reader].next /\ call'[Reader].data = call[Reader].data
        /\ \/ call'[Reader].place = call[Reader].place
           \/ call[Reader].place \in {"blocked", "woken"} /\ call'[Reader].place = "woken"
        /\ HandleOK(Reader)' /\ NeedOK(Reader)' /\ WakeOK(Reader)'
    BY <1>1, <1>2, <1>3, <1>11, NotifiedKeeps
  <2>2. HandleOK(Writer)'
    BY <1>4, <2>1 DEF HandleOK
  <2>3. NeedOK(Writer)'
    BY <1>4, <2>1 DEF NeedOK
  <2>4. call'[Writer].place = "idle" /\ call'[Writer].amount = 0
    BY <1>10, <2>1
  <2> QED
    BY <1>1, <1>2, <1>7, <1>8, <1>9, <2>1, <2>2, <2>3, <2>4, AddedKeeps
<1>12. CASE ~ (BytesBetween(tail, next) >= trigger)
  <2>1. UNCHANGED <<waiting, notify, call, wild>>
    BY <1>1, <1>12
  <2>2. /\ HandleOK(Reader)' /\ NeedOK(Reader)'
        /\ HandleOK(Writer)' /\ NeedOK(Writer)'
    <3>1. HandleOK(Reader)' /\ HandleOK(Writer)'
      BY <1>4, <2>1 DEF HandleOK
    <3>2. NeedOK(Reader)' /\ NeedOK(Writer)'
      BY <1>4, <2>1 DEF NeedOK
    <3> QED
      BY <3>1, <3>2
  <2>3. ~ Enough(Reader)'
    <3>1. prvBytesInBuffer' = BytesBetween(tail, next) /\ trigger' = trigger
      BY <1>1 DEF prvBytesInBuffer
    <3> QED
      BY <1>2, <1>12, <3>1 DEF Enough
  <2>4. WakeOK(Reader)'
    BY <2>3 DEF WakeOK
  <2>5. call'[Writer].place = "idle" /\ call'[Writer].amount = 0
    BY <1>10, <2>1
  <2> QED
    BY <1>1, <1>2, <1>3, <1>7, <1>8, <1>9, <2>1, <2>2, <2>4, <2>5, AddedKeeps
<1> QED
  BY <1>11, <1>12

\* The buffer is reset between two calls.
LEMMA ResetKeeps ==
    ASSUME StreamAssumption, Inv, NEW s \in Sides, xStreamBufferReset(s)
    PROVE  Inv'
<1>1. /\ call[s].place = "idle" /\ call[Other(s)].place \in {"idle", "blocked"}
      /\ \A r \in Sides : waiting[r] = NULL
      /\ head' = 0 /\ tail' = 0 /\ waiting' = [r \in Sides |-> NULL]
      /\ UNCHANGED <<storage, trigger, notify, call, stamp, wild>>
  BY DEF xStreamBufferReset, At
<1>2. 0 \in Indexes
  BY DEF StreamAssumption, Indexes
<1>3. /\ waiting' \in [Sides -> Sides \cup {NULL, Torn}]
      /\ \A r \in Sides : waiting'[r] = NULL
  BY <1>1
<1>4. TypeOK'
  BY <1>1, <1>2, <1>3, Types DEF Inv, TypeOK, Records
<1>5. ASSUME NEW r \in Sides
      PROVE  HandleOK(r)' /\ NeedOK(r)' /\ AmountOK(r)' /\ WakeOK(r)'
  <2>1. HandleOK(r) /\ NeedOK(r) /\ AmountOK(r) /\ call[r] \in Records /\ r # NULL /\ NULL # Torn
    BY OfSide
  <2>2. call[r].place = "idle"
    <3>1. call[r].place \in {"idle", "blocked"}
      BY <1>1, TwoSides
    <3>2. call[r].place # "blocked"
      BY <1>1, <2>1 DEF HandleOK
    <3> QED
      BY <3>1, <3>2
  <2>3. call[r].amount = 0
    BY <2>1, <2>2 DEF AmountOK
  <2>4. HandleOK(r)'
    BY <1>1, <1>3, <2>1, <2>2 DEF HandleOK
  <2>5. NeedOK(r)'
    BY <1>1, <2>1 DEF NeedOK
  <2>6. AmountOK(r)'
    <3>1. Amount(r)' \in 0 .. xLength - 1
      <4>1. head' \in Indexes /\ tail' \in Indexes
        BY <1>1, <1>2
      <4>2. xLength \in Nat /\ BytesBetween(tail', head') \in 0 .. xLength - 1
        BY <4>1, AdvanceCounts DEF StreamAssumption
      <4>3. xStreamBufferSpacesAvailable' \in 0 .. xLength - 1
        BY <4>1, <4>2, SpacesAt
      <4> QED
        BY <4>2, <4>3 DEF Amount, prvBytesInBuffer
    <3>2. call'[r].amount <= Amount(r)'
      BY <1>1, <2>3, <3>1 DEF StreamAssumption
    <3> QED
      BY <1>1, <2>2, <2>3, <3>2 DEF AmountOK
  <2>7. WakeOK(r)'
    BY <1>1, <2>2 DEF WakeOK
  <2> QED
    BY <2>4, <2>5, <2>6, <2>7
<1> QED
  BY <1>4, <1>5 DEF Inv

-----------------------------------------------------------------------------
(* The theorems.                                                            *)

\* A new buffer: no handle is stored, and nobody is in a call.
LEMMA InvInit ==
    ASSUME StoredAtOnce, Init
    PROVE  Inv
<1>1. StreamAssumption /\ 0 \in Indexes /\ 0 \in Bytes
  BY DEF StoredAtOnce, StreamAssumption, Indexes, Bytes
<1>2. TypeOK
  <2>1. storage \in [Indexes -> Bytes] /\ stamp \in Bytes /\ wild \in BOOLEAN
    BY <1>1 DEF Init
  <2>2. call \in [Sides -> Records]
    BY <1>1, IdleIsRecord DEF Init
  <2>3. /\ waiting \in [Sides -> Sides \cup {NULL, Torn}]
        /\ notify \in [Sides -> {"not waiting", "waiting", "received"}]
    BY DEF Init
  <2>4. head \in Indexes /\ tail \in Indexes /\ trigger \in Triggers
    BY <1>1 DEF Init
  <2> QED
    BY <2>1, <2>2, <2>3, <2>4, Types
<1>3. ASSUME NEW s \in Sides
      PROVE  HandleOK(s) /\ NeedOK(s) /\ AmountOK(s) /\ WakeOK(s)
  <2>1. /\ waiting[s] = NULL /\ notify[s] = "not waiting" /\ call[s] = Idle
        /\ head = 0 /\ tail = 0
    BY DEF Init
  <2>2. call[s].place = "idle" /\ call[s].amount = 0 /\ call[s].need = 0
    BY <2>1, IdleIs
  <2>3. s # NULL /\ NULL # Torn
    BY <1>1, TwoSides
  <2>4. HandleOK(s)
    BY <2>1, <2>2, <2>3 DEF HandleOK
  <2>5. NeedOK(s) /\ WakeOK(s)
    BY <2>2 DEF NeedOK, WakeOK
  <2>6. AmountOK(s)
    <3>1. Amount(s) \in 0 .. xLength - 1
      BY <1>1, <2>1, BytesAndSpaces DEF Amount
    <3>2. call[s].amount <= Amount(s)
      BY <1>1, <2>2, <3>1 DEF StreamAssumption
    <3> QED
      BY <2>2, <3>2 DEF AmountOK
  <2> QED
    BY <2>4, <2>5, <2>6
<1> QED
  BY <1>2, <1>3 DEF Inv

\* Every step of a task or an interrupt keeps the invariant.
LEMMA InvInductive ==
    ASSUME StoredAtOnce, Inv, [Next]_vars
    PROVE  Inv'
<1>1. /\ StreamAssumption /\ Writer \in Sides /\ Reader \in Sides /\ Writer # Reader
  BY DEF StoredAtOnce, StreamAssumption, Sides
<1>2. CASE Send
  <2>1. PICK n \in 1 .. MaxSend :
            (\E w \in Waits : xStreamBufferSend(n, w)) \/ xStreamBufferSendFromISR(n)
    BY <1>2 DEF Send
  <2> QED
    BY <1>1, <2>1, SendKeeps, SendFromISRKeeps
<1>3. CASE Receive
  <2>1. PICK n \in 1 .. MaxRead :
            (\E w \in Waits : xStreamBufferReceive(n, w)) \/ xStreamBufferReceiveFromISR(n)
    BY <1>3 DEF Receive
  <2> QED
    BY <1>1, <2>1, ReceiveKeeps, ReceiveFromISRKeeps
<1>4. CASE \E level \in Triggers : xStreamBufferSetTriggerLevel(level)
  BY <1>1, <1>4, SetTriggerLevelKeeps
<1>5. ASSUME NEW s \in Sides,
             Proceed(s) \/ TimeOut(s) \/ CompletedFromISR(s) \/ xStreamBufferReset(s)
      PROVE  Inv'
  <2>1. CASE TimeOut(s) \/ xStreamBufferReset(s)
    BY <1>1, <2>1, TimeOutKeeps, ResetKeeps
  <2>2. CASE CompletedFromISR(s)
    BY <1>1, <2>2, CompletedKeeps
  <2>3. CASE Check(s) \/ Wait(s) \/ Woken(s) \/ Clear(s) \/ Cleared(s)
    BY <1>1, <2>3, CheckKeeps, WaitKeeps, WokenKeeps, ClearKeeps
  <2>4. CASE Completed(s)
    <3>1. Other(s) \in Sides /\ Completed(Other(Other(s)))
      BY <1>1, <2>4, TwoSides
    <3> QED
      BY <1>1, <3>1, CompletedKeeps
  <2>5. CASE s = Writer /\ (Again \/ LookForSpace \/ WriteMessage \/ StoreHeadLow
                             \/ StoreHeadHigh \/ Trigger)
    BY <1>1, <2>5, AgainKeeps, LookForSpaceKeeps, WriteMessageKeeps, StoreHeadLowKeeps,
       StoreHighKeeps, TriggerKeeps
  <2>6. CASE s = Reader /\ (LookForBytes \/ ReadMessage \/ StoreTailLow \/ StoreTailHigh)
    BY <1>1, <2>6, LookForBytesKeeps, ReadMessageKeeps, StoreTailLowKeeps, StoreHighKeeps
  <2> QED
    BY <1>5, <2>1, <2>2, <2>3, <2>4, <2>5, <2>6 DEF Proceed
<1>6. CASE UNCHANGED vars
  <2>1. UNCHANGED <<head, tail, storage, trigger, waiting, notify, call, stamp, wild>>
    BY <1>6 DEF vars
  <2>2. TypeOK'
    BY <2>1 DEF Inv, TypeOK
  <2>3. ASSUME NEW s \in Sides
        PROVE  HandleOK(s)' /\ NeedOK(s)' /\ AmountOK(s)' /\ WakeOK(s)'
    <3>1. HandleOK(s) /\ NeedOK(s) /\ AmountOK(s) /\ WakeOK(s)
      BY DEF Inv
    <3>2. Notifies(Other(s)) /\ Enough(s) => Notifies(Other(s))'
      BY <2>1 DEF Notifies
    <3> QED
      BY <1>1, <2>1, <3>1, <3>2, OtherKeeps
  <2> QED
    BY <2>2, <2>3 DEF Inv
<1> QED
  BY <1>2, <1>3, <1>4, <1>5, <1>6 DEF Next

\* The invariant always holds.
LEMMA Invariant == StoredAtOnce => (Spec => []Inv)
<1> SUFFICES ASSUME StoredAtOnce PROVE Spec => []Inv
  OBVIOUS
<1>1. Init => Inv
  BY InvInit
<1>2. Inv /\ [Next]_vars => Inv'
  BY InvInductive
<1> QED
  BY <1>1, <1>2, PTL DEF Spec

\* The variables keep their types: the indices stay within the storage, and a side
\* never counts more bytes, or more space, than the buffer holds.
THEOREM TypeCorrect == StoredAtOnce => (Spec => []TypeOK)
<1> SUFFICES ASSUME StoredAtOnce PROVE Spec => []TypeOK
  OBVIOUS
<1>1. Inv => TypeOK
  BY DEF Inv
<1> QED
  BY <1>1, Invariant, PTL

\* No wake-up is lost: if a side is blocked with what it waits for before it, the
\* other is about to notify it, whatever the two do at each other's every step.
THEOREM WakeupsAreNotLost == StoredAtOnce => (Spec => []NoLostWakeup)
<1> SUFFICES ASSUME StoredAtOnce PROVE Spec => []NoLostWakeup
  OBVIOUS
<1>1. ASSUME Inv PROVE NoLostWakeup
  <2>1. /\ StreamAssumption /\ Writer \in Sides /\ Reader \in Sides /\ Writer # Reader
        /\ Other(Writer) = Reader /\ Other(Reader) = Writer
    BY DEF StoredAtOnce, StreamAssumption, Sides, Other
  <2>2. ASSUME At(Reader, "blocked"), prvBytesInBuffer > call[Reader].need,
               prvBytesInBuffer >= trigger
        PROVE  call[Writer].place \in {"high", "trigger", "completed"}
    <3>1. HandleOK(Reader) /\ WakeOK(Reader)
      BY <1>1, <2>1, OfSide
    <3>2. call[Reader].place = "blocked" /\ Enough(Reader)
      BY <2>1, <2>2 DEF At, Enough
    <3>3. Notifies(Writer)
      BY <2>1, <3>1, <3>2 DEF HandleOK, WakeOK
    <3> QED
      BY <3>3 DEF Notifies
  <2>3. ASSUME At(Writer, "blocked"), xStreamBufferSpacesAvailable >= call[Writer].need
        PROVE  call[Reader].place \in {"high", "completed"}
    <3>1. HandleOK(Writer) /\ WakeOK(Writer)
      BY <1>1, <2>1, OfSide
    <3>2. call[Writer].place = "blocked" /\ Enough(Writer)
      BY <2>1, <2>3 DEF At, Enough
    <3>3. Notifies(Reader)
      BY <2>1, <3>1, <3>2 DEF HandleOK, WakeOK
    <3> QED
      BY <2>1, <3>3 DEF Notifies
  <2> QED
    BY <2>2, <2>3 DEF NoLostWakeup
<1> QED
  BY <1>1, Invariant, PTL

\* A stream buffer whose trigger level stays at one byte never leaves both sides
\* blocked: the reader waits for a byte of an empty buffer only, the writer for space
\* in one that is not empty.
THEOREM OneSideGoesOn ==
    StoredAtOnce /\ Kind = "stream" /\ Triggers = {1} => (Spec => []NeverBothBlocked)
<1> SUFFICES ASSUME StoredAtOnce, Kind = "stream", Triggers = {1}
             PROVE  Spec => []NeverBothBlocked
  OBVIOUS
<1>1. ASSUME Inv PROVE NeverBothBlocked
  <2>1. /\ StreamAssumption /\ Writer \in Sides /\ Reader \in Sides /\ Writer # Reader
        /\ Other(Writer) = Reader /\ Other(Reader) = Writer /\ xLength \in Nat
    BY DEF StoredAtOnce, StreamAssumption, Sides, Other
  <2>2. SUFFICES ASSUME call[Reader].place = "blocked", call[Writer].place = "blocked"
                 PROVE  FALSE
    BY DEF NeverBothBlocked, At
  <2>3. ~ Enough(Reader) /\ ~ Enough(Writer)
    <3>1. \A s \in Sides : HandleOK(s) /\ WakeOK(s)
      BY <1>1, <2>1, OfSide
    <3>2. waiting[Reader] = Reader /\ waiting[Writer] = Writer
      BY <2>1, <2>2, <3>1 DEF HandleOK
    <3>3. ~ Notifies(Reader) /\ ~ Notifies(Writer)
      BY <2>1, <2>2 DEF Notifies
    <3> QED
      BY <2>1, <2>2, <3>1, <3>2, <3>3 DEF WakeOK
  <2>4. call[Reader].need = 0 /\ call[Writer].need \in Nat /\ call[Writer].need <= xLength - 1
    <3>1. NeedOK(Reader) /\ NeedOK(Writer) /\ call[Writer] \in Records
      BY <1>1, <2>1, OfSide
    <3> QED
      BY <2>2, <3>1 DEF NeedOK, Records
  <2>5. trigger = 1
    BY <1>1 DEF Inv, TypeOK
  <2>6. /\ prvBytesInBuffer \in 0 .. xLength - 1
        /\ xStreamBufferSpacesAvailable = xLength - 1 - prvBytesInBuffer
    BY <1>1, <2>1, Types, BytesAndSpaces DEF Inv
  <2>7. ~ (prvBytesInBuffer > 0 /\ prvBytesInBuffer >= 1)
    BY <2>1, <2>3, <2>4, <2>5 DEF Enough
  <2>8. ~ (xStreamBufferSpacesAvailable >= call[Writer].need)
    BY <2>3 DEF Enough
  <2> QED
    BY <2>1, <2>4, <2>6, <2>7, <2>8
<1> QED
  BY <1>1, Invariant, PTL

\* If no wait has a time limit, a handle is cleared only when it is NULL already, and
\* nobody is notified through half a handle.
THEOREM HandlesAreWhole ==
    StoredAtOnce /\ "ticks" \notin Waits => (Spec => []OnlyTasksAreNotified)
<1> SUFFICES ASSUME StoredAtOnce, "ticks" \notin Waits PROVE Spec => []OnlyTasksAreNotified
  OBVIOUS
<1>1. Init => OnlyTasksAreNotified
  BY DEF Init, OnlyTasksAreNotified
<1>2. ASSUME Inv, OnlyTasksAreNotified, [Next]_vars
      PROVE  OnlyTasksAreNotified'
  <2>1. StreamAssumption
    BY DEF StoredAtOnce
  <2>2. \A s \in Sides : waiting[s] # Torn
    <3> SUFFICES ASSUME NEW s \in Sides PROVE waiting[s] # Torn
      OBVIOUS
    <3>1. HandleOK(s) /\ call[s] \in Records /\ NULL # Torn
      BY <1>2, <2>1, OfSide
    <3>2. call[s].wait # "ticks"
      BY <3>1 DEF Records
    <3> QED
      BY <3>1, <3>2 DEF HandleOK
  <2>3. ASSUME NEW s \in Sides, NEW c, Notified(s, c) PROVE wild' = wild
    <3>1. wild \in BOOLEAN
      BY <1>2, Types DEF Inv
    <3> QED
      BY <2>2, <2>3, <3>1 DEF Notified
  <2>4. wild' = wild
    <3>1. Writer \in Sides /\ Reader \in Sides /\ \A s \in Sides : Other(s) \in Sides
      BY <2>1, TwoSides DEF Sides
    <3>2. CASE Send
      BY <2>3, <3>1, <3>2 DEF Send, xStreamBufferSend, xStreamBufferSendFromISR
    <3>3. CASE Receive
      BY <2>3, <3>1, <3>3 DEF Receive, xStreamBufferReceive, xStreamBufferReceiveFromISR
    <3>4. ASSUME NEW s \in Sides,
                 Proceed(s) \/ TimeOut(s) \/ CompletedFromISR(s) \/ xStreamBufferReset(s)
          PROVE  wild' = wild
      <4>1. CASE Completed(s)
        BY <2>3, <3>1, <4>1 DEF Completed
      <4>2. CASE CompletedFromISR(s)
        BY <2>3, <3>1, <4>2 DEF CompletedFromISR
      <4>3. CASE TimeOut(s) \/ xStreamBufferReset(s)
        BY <4>3 DEF TimeOut, xStreamBufferReset
      <4>4. CASE Check(s) \/ Wait(s) \/ Woken(s) \/ Clear(s) \/ Cleared(s)
        BY <4>4 DEF Check, Wait, Woken, Clear, Cleared
      <4>5. CASE Again \/ LookForSpace \/ WriteMessage \/ StoreHeadLow \/ StoreHeadHigh \/ Trigger
        BY <4>5 DEF Again, LookForSpace, WriteMessage, StoreHeadLow, StoreHeadHigh, Trigger
      <4>6. CASE LookForBytes \/ ReadMessage \/ StoreTailLow \/ StoreTailHigh
        BY <4>6 DEF LookForBytes, ReadMessage, StoreTailLow, StoreTailHigh
      <4> QED
        BY <3>4, <4>1, <4>2, <4>3, <4>4, <4>5, <4>6 DEF Proceed
    <3>5. CASE \E level \in Triggers : xStreamBufferSetTriggerLevel(level)
      BY <3>5 DEF xStreamBufferSetTriggerLevel
    <3>6. CASE UNCHANGED vars
      BY <3>6 DEF vars
    <3> QED
      BY <1>2, <3>2, <3>3, <3>4, <3>5, <3>6 DEF Next
  <2> QED
    BY <1>2, <2>4 DEF OnlyTasksAreNotified
<1> QED
  BY <1>1, <1>2, Invariant, PTL DEF Spec

-----------------------------------------------------------------------------
(* The bytes of a stream or batching buffer are received as they were sent.  *)
(* The messages in a message buffer are what a recursive function reads out  *)
(* of its bytes.                                                             *)

\* The bytes in the buffer, one by one.
LEMMA ContentsIs ==
    ASSUME StreamAssumption, storage \in [Indexes -> Bytes], head \in Indexes, tail \in Indexes
    PROVE  /\ Contents \in Seq(Bytes) /\ Len(Contents) = BytesBetween(tail, head)
           /\ BytesBetween(tail, head) \in 0 .. xLength - 1
           /\ \A k \in 1 .. BytesBetween(tail, head) :
                  Contents[k] = storage[Advance(tail, k - 1)]
<1>1. BytesBetween(tail, head) \in 0 .. xLength - 1 /\ xLength \in Nat
  BY AdvanceCounts DEF StreamAssumption
<1>2. BytesBetween(tail, head) \in 0 .. xLength
  BY <1>1
<1>3. Contents = BytesFrom(tail, BytesBetween(tail, head))
  BY DEF Contents, prvBytesInBuffer
<1> QED
  BY <1>1, <1>2, <1>3, BytesFromIs

\* The same after a step, of the ring that the step leaves.
LEMMA ContentsWillBe ==
    ASSUME StreamAssumption, storage' \in [Indexes -> Bytes], head' \in Indexes, tail' \in Indexes
    PROVE  /\ Contents' \in Seq(Bytes) /\ Len(Contents') = BytesBetween(tail', head')
           /\ BytesBetween(tail', head') \in 0 .. xLength - 1
           /\ \A k \in 1 .. BytesBetween(tail', head') :
                  Contents'[k] = storage'[Advance(tail', k - 1)]
<1> DEFINE n == BytesBetween(tail', head')
           cell(k) == storage'[Advance(tail', k - 1)]
<1>1. n \in 0 .. xLength - 1 /\ xLength \in Nat /\ n \in Nat
  <2>1. BytesBetween(tail', head') \in 0 .. xLength - 1 /\ xLength \in Nat
    BY AdvanceCounts DEF StreamAssumption
  <2> QED
    BY <2>1
<1>2. Contents' = [k \in 1 .. n |-> cell(k)]
  BY DEF Contents, prvBytesInBuffer, BytesFrom
<1>3. \A k \in 1 .. n : cell(k) \in Bytes
  <2> SUFFICES ASSUME NEW k \in 1 .. n PROVE cell(k) \in Bytes
    OBVIOUS
  <2>1. k - 1 \in 0 .. xLength
    BY <1>1
  <2>2. Advance(tail', k - 1) \in Indexes
    BY <2>1, AdvanceAdds
  <2> QED
    BY <2>2
<1> HIDE DEF n, cell
<1>4. /\ Contents' \in Seq(Bytes) /\ Len(Contents') = n
      /\ \A k \in 1 .. n : Contents'[k] = cell(k)
  BY <1>1, <1>2, <1>3
<1> QED
  BY <1>1, <1>4 DEF n, cell

\* Sequences of bytes with the same bytes are the same, and the bytes of a part.
LEMMA SameBytes ==
    ASSUME NEW s \in Seq(Bytes), NEW t \in Seq(Bytes), Len(s) = Len(t),
           \A k \in 1 .. Len(s) : s[k] = t[k]
    PROVE  s = t
  OBVIOUS

\* The items of a part of a sequence.
LEMMA PartOf ==
    ASSUME NEW s \in Seq(Bytes), NEW m \in 1 .. Len(s) + 1, NEW n \in m - 1 .. Len(s)
    PROVE  /\ SubSeq(s, m, n) \in Seq(Bytes) /\ Len(SubSeq(s, m, n)) = n - m + 1
           /\ \A k \in 1 .. n - m + 1 : SubSeq(s, m, n)[k] = s[k + (m - 1)]
  OBVIOUS

\* The items of two sequences put together.
LEMMA Joined ==
    ASSUME NEW s \in Seq(Bytes), NEW t \in Seq(Bytes)
    PROVE  /\ s \o t \in Seq(Bytes) /\ Len(s \o t) = Len(s) + Len(t)
           /\ \A k \in 1 .. Len(s) : (s \o t)[k] = s[k]
           /\ \A k \in 1 .. Len(t) : (s \o t)[Len(s) + k] = t[k]
  OBVIOUS

\* Moving the tail takes the first bytes.
LEMMA TailTakes ==
    ASSUME StreamAssumption, storage \in [Indexes -> Bytes], head \in Indexes, tail \in Indexes,
           NEW n \in 1 .. BytesBetween(tail, head),
           tail' = Advance(tail, n), UNCHANGED <<head, storage>>
    PROVE  /\ n \in 1 .. Len(Contents)
           /\ BytesFrom(tail, n) = SubSeq(Contents, 1, n)
           /\ Contents' = SubSeq(Contents, n + 1, Len(Contents))
<1> DEFINE b == BytesBetween(tail, head)
<1>1. /\ Contents \in Seq(Bytes) /\ Len(Contents) = b /\ b \in 0 .. xLength - 1
      /\ \A k \in 1 .. b : Contents[k] = storage[Advance(tail, k - 1)]
  BY ContentsIs
<1>2. xLength \in Nat /\ b \in Nat /\ n \in Nat /\ n <= b /\ n > 0
  BY <1>1 DEF StreamAssumption
<1>3. n \in 0 .. xLength
  BY <1>1, <1>2
<1>4. Advance(tail, n) \in Indexes
  BY <1>3, AdvanceAdds
<1>5. BytesBetween(Advance(tail, n), head) = b - n
  BY <1>2, AdvanceCounts
<1>6. /\ Contents' \in Seq(Bytes) /\ Len(Contents') = b - n
      /\ \A k \in 1 .. b - n : Contents'[k] = storage[Advance(Advance(tail, n), k - 1)]
  <2>1. storage' = storage /\ head' = head
    OBVIOUS
  <2> QED
    BY <1>4, <1>5, <2>1, ContentsWillBe
<1>7. \A k \in 1 .. b - n : Contents'[k] = Contents[k + n]
  <2> SUFFICES ASSUME NEW k \in 1 .. b - n PROVE Contents'[k] = Contents[k + n]
    OBVIOUS
  <2>1. k + n \in 1 .. b /\ k - 1 \in 0 .. xLength /\ n + (k - 1) <= xLength /\ n + (k - 1) = (k + n) - 1
    BY <1>1, <1>2
  <2>2. Advance(Advance(tail, n), k - 1) = Advance(tail, n + (k - 1))
    BY <1>3, <2>1, AdvanceAdds
  <2> QED
    BY <1>1, <1>6, <2>1, <2>2
<1> HIDE DEF b
<1>8. Contents' = SubSeq(Contents, n + 1, Len(Contents))
  <2> DEFINE rest == SubSeq(Contents, n + 1, Len(Contents))
  <2> DEFINE c == Contents
  <2>0. c \in Seq(Bytes) /\ Len(c) = b /\ n + 1 \in 1 .. Len(c) + 1 /\ Len(c) \in (n + 1) - 1 .. Len(c)
        /\ (n + 1) - 1 = n /\ Len(c) - (n + 1) + 1 = b - n
    <3>1. c \in Seq(Bytes) /\ Len(c) = b
      BY <1>1
    <3> HIDE DEF c
    <3> QED
      BY <1>2, <3>1
  <2> HIDE DEF c
  <2>a. /\ SubSeq(c, n + 1, Len(c)) \in Seq(Bytes) /\ Len(SubSeq(c, n + 1, Len(c))) = b - n
        /\ \A k \in 1 .. b - n : SubSeq(c, n + 1, Len(c))[k] = c[k + n]
    BY <2>0, PartOf
  <2>1. /\ rest \in Seq(Bytes) /\ Len(rest) = b - n
        /\ \A k \in 1 .. b - n : rest[k] = Contents[k + n]
    BY <2>a DEF c
  <2> HIDE DEF rest
  <2>2. Contents' = rest
    BY <1>6, <1>7, <2>1, SameBytes
  <2> QED
    BY <2>2 DEF rest
<1>9. /\ BytesFrom(tail, n) \in Seq(Bytes) /\ Len(BytesFrom(tail, n)) = n
      /\ \A k \in 1 .. n : BytesFrom(tail, n)[k] = storage[Advance(tail, k - 1)]
  BY <1>3, BytesFromIs
<1>10. \A k \in 1 .. n : BytesFrom(tail, n)[k] = Contents[k]
  BY <1>1, <1>2, <1>9
<1>11. BytesFrom(tail, n) = SubSeq(Contents, 1, n)
  <2> DEFINE first == SubSeq(Contents, 1, n)
  <2>1. /\ first \in Seq(Bytes) /\ Len(first) = n
        /\ \A k \in 1 .. n : first[k] = Contents[k]
    BY <1>1, <1>2, PartOf
  <2> HIDE DEF first
  <2>2. BytesFrom(tail, n) = first
    BY <1>9, <1>10, <2>1, SameBytes
  <2> QED
    BY <2>2 DEF first
<1> QED
  BY <1>1, <1>2, <1>8, <1>11

\* Moving the head adds the bytes that stand there, behind those in the buffer.
LEMMA HeadAdds ==
    ASSUME StreamAssumption, storage \in [Indexes -> Bytes], head \in Indexes, tail \in Indexes,
           storage' \in [Indexes -> Bytes], NEW data \in Seq(Bytes),
           BytesBetween(tail, head) + Len(data) < xLength,
           head' = Advance(head, Len(data)), tail' = tail,
           \A k \in 1 .. BytesBetween(tail, head) :
               storage'[Advance(tail, k - 1)] = storage[Advance(tail, k - 1)],
           \A k \in 1 .. Len(data) : storage'[Advance(head, k - 1)] = data[k]
    PROVE  Contents' = Contents \o data
<1> DEFINE b == BytesBetween(tail, head)
           n == Len(data)
<1>1. /\ Contents \in Seq(Bytes) /\ Len(Contents) = b /\ b \in 0 .. xLength - 1
      /\ \A k \in 1 .. b : Contents[k] = storage[Advance(tail, k - 1)]
  BY ContentsIs
<1>2. xLength \in Nat /\ b \in Nat /\ n \in Nat /\ b + n < xLength
  BY <1>1 DEF StreamAssumption
<1>3. n \in 0 .. xLength /\ b \in 0 .. xLength
  BY <1>1, <1>2
<1>4. Advance(head, n) \in Indexes
  BY <1>3, AdvanceAdds
<1>5. BytesBetween(tail, Advance(head, n)) = b + n /\ Advance(tail, b) = head
  BY <1>2, AdvanceCounts
<1>6. /\ Contents' \in Seq(Bytes) /\ Len(Contents') = b + n
      /\ \A k \in 1 .. b + n : Contents'[k] = storage'[Advance(tail, k - 1)]
  BY <1>4, <1>5, ContentsWillBe
<1>7. \A k \in 1 .. b : Contents'[k] = Contents[k]
  BY <1>1, <1>2, <1>6
<1>8. \A k \in 1 .. n : Contents'[b + k] = data[k]
  <2> SUFFICES ASSUME NEW k \in 1 .. n PROVE Contents'[b + k] = data[k]
    OBVIOUS
  <2>1. /\ b + k \in 1 .. b + n /\ k - 1 \in 0 .. xLength /\ b + (k - 1) <= xLength
        /\ b + (k - 1) = (b + k) - 1
    BY <1>1, <1>2
  <2>2. Advance(Advance(tail, b), k - 1) = Advance(tail, b + (k - 1))
    BY <1>3, <2>1, AdvanceAdds
  <2>3. Contents'[b + k] = storage'[Advance(head, k - 1)]
    BY <1>5, <1>6, <2>1, <2>2
  <2> QED
    BY <2>3
<1> HIDE DEF b, n
<1>9. data \in Seq(Bytes) /\ Len(data) = n
  BY DEF n
<1> DEFINE both == Contents \o data
<1>10. /\ both \in Seq(Bytes) /\ Len(both) = b + n
       /\ \A k \in 1 .. b : both[k] = Contents[k]
       /\ \A k \in 1 .. n : both[b + k] = data[k]
  BY <1>1, <1>2, <1>9, Joined
<1> HIDE DEF both
<1>11. \A k \in 1 .. b + n : Contents'[k] = both[k]
  <2> SUFFICES ASSUME NEW k \in 1 .. b + n PROVE Contents'[k] = both[k]
    OBVIOUS
  <2>1. CASE k \in 1 .. b
    BY <1>7, <1>10, <2>1
  <2>2. CASE k \notin 1 .. b
    <3>1. k - b \in 1 .. n /\ b + (k - b) = k
      BY <1>2, <2>2
    <3> QED
      BY <1>8, <1>10, <3>1
  <2> QED
    BY <2>1, <2>2
<1>12. Contents' = both
  BY <1>6, <1>10, <1>11, SameBytes
<1> QED
  BY <1>12 DEF both

\* What is sent and received are bytes, and so is what is about to be sent.
LEMMA Mapped ==
    ASSUME Kind # "message"
    PROVE  /\ Abstract!Init <=> Sending \in Seq(Bytes) /\ Contents = <<>> /\ Received = <<>>
           /\ Abstract!Call <=> /\ Sending' \in Seq(Bytes)
                                /\ Contents' = Contents /\ Received' = Received
           /\ Abstract!Send <=> /\ \E n \in 1 .. Len(Sending) :
                                       Contents' = Contents \o SubSeq(Sending, 1, n)
                                /\ Sending' \in Seq(Bytes) /\ Received' = Received
           /\ Abstract!Receive <=> /\ \E n \in 1 .. Len(Contents) :
                                          /\ Received' = SubSeq(Contents, 1, n)
                                          /\ Contents' = SubSeq(Contents, n + 1, Len(Contents))
                                   /\ Sending' = Sending
           /\ Abstract!Forget <=> Received' = <<>> /\ Sending' = Sending /\ Contents' = Contents
           /\ Abstract!Reset <=> Contents' = <<>> /\ Sending' = Sending /\ Received' = Received
  BY DEF Abstract!Init, Abstract!Call, Abstract!Send, Abstract!Receive, Abstract!Forget,
         Abstract!Reset, AsItems

\* The values a sender writes are bytes.
LEMMA StampsAreBytes ==
    ASSUME StreamAssumption, NEW v \in Bytes, NEW n \in Nat
    PROVE  [k \in 1 .. n |-> (v + k - 1) % Base] \in Seq(Bytes)
<1>1. Base \in Nat \ {0} /\ v \in 0 .. Base - 1
  BY DEF StreamAssumption, Bytes
<1>2. \A m \in Nat : m % Base \in 0 .. Base - 1
  BY <1>1
<1> DEFINE byte(k) == (v + k - 1) % Base
<1>3. ASSUME NEW k \in 1 .. n PROVE byte(k) \in Bytes
  <2> DEFINE m == v + k - 1
  <2>1. m \in Nat
    BY <1>1
  <2> HIDE DEF m
  <2>2. m % Base \in Bytes
    BY <1>2, <2>1 DEF Bytes
  <2> QED
    BY <2>2 DEF m
<1> HIDE DEF byte
<1>4. [k \in 1 .. n |-> byte(k)] \in Seq(Bytes)
  BY <1>3
<1> QED
  BY <1>4 DEF byte

\* A step of the writer that leaves the ring is one of its call.
LEMMA IsCall ==
    ASSUME StreamAssumption, Kind # "message", Inv', Contents' = Contents, Received' = Received
    PROVE  Abstract!Call
<1>1. /\ call'[Writer].data \in Seq(Bytes) /\ stamp' \in Bytes
  <2>1. Writer \in Sides /\ call' \in [Sides -> Records] /\ stamp' \in Bytes
    BY DEF Inv, TypeOK, Records, Sides
  <2> QED
    BY <2>1 DEF Records
<1>2. Stamped(MaxSend)' \in Seq(Bytes)
  <2>1. MaxSend \in Nat
    BY DEF StreamAssumption
  <2> QED
    BY <1>1, <2>1, StampsAreBytes DEF Stamped
<1>3. Sending' \in Seq(Bytes)
  BY <1>1, <1>2 DEF Sending, AsItems
<1> QED
  BY <1>3, Mapped

\* What the reader was given last does not change while it neither stores its index
\* nor, in an interrupt, reads.
LEMMA SameReceived ==
    ASSUME \/ call'[Reader] = call[Reader]
           \/ /\ Reader \notin Interrupts
              /\ call[Reader].place # "high" /\ call'[Reader].place # "high"
           \/ /\ call'[Reader].data = call[Reader].data
              /\ \/ call'[Reader].place = call[Reader].place
                 \/ call[Reader].place \in {"blocked", "woken"} /\ call'[Reader].place = "woken"
    PROVE  Received' = Received
  BY DEF Received, At

\* Nor does what is in the buffer while the ring is left alone.
LEMMA SameContents == UNCHANGED <<head, tail, storage>> => Contents' = Contents
  BY DEF Contents, BytesFrom, prvBytesInBuffer

\* Steps of the writer's call, and of the reader's before and after it stores its
\* index: the ring holds what it held.
LEMMA QuietSteps ==
    ASSUME StreamAssumption, Kind # "message", Inv, Inv', NEW s \in Sides,
           \/ Check(s) \/ Wait(s) \/ Woken(s) \/ Clear(s) \/ Cleared(s) \/ TimeOut(s)
           \/ s = Writer /\ (Again \/ LookForSpace \/ Trigger)
           \/ s = Reader /\ (LookForBytes \/ ReadMessage)
    PROVE  Abstract!Call
<1>1. /\ call \in [Sides -> Records] /\ Writer # Reader /\ Reader \in Sides /\ Writer \in Sides
      /\ s \in {Writer, Reader}
  BY Types DEF Inv, StreamAssumption, Sides
<1>2. Contents' = Contents
  BY SameContents DEF ring, Check, Wait, Woken, Clear, Cleared, TimeOut, Again, LookForSpace,
     Trigger, LookForBytes, ReadMessage
<1>3. CASE s = Writer
  <2>1. call'[Reader] = call[Reader]
    BY <1>1, <1>3 DEF Check, Wait, Woken, Clear, Cleared, TimeOut, Again, LookForSpace, Trigger,
       Go, Return
  <2> QED
    BY <1>2, <2>1, SameReceived, IsCall
<1>4. CASE s = Reader
  <2>1. call[Reader].place \notin {"idle", "high"}
    BY <1>1, <1>4 DEF Check, Wait, Woken, Clear, Cleared, TimeOut, LookForBytes, ReadMessage, At
  <2>2. Reader \notin Interrupts
    <3>1. HandleOK(Reader)
      BY <1>1, OfSide
    <3> QED
      BY <2>1, <3>1 DEF HandleOK
  <2>3. call'[Reader].place # "high"
    <3>1. CASE Check(s) \/ TimeOut(s)
      <4>1. CASE TimeOut(s)
        BY <1>1, <1>4, <4>1 DEF TimeOut, Records
      <4>2. CASE Check(s) /\ Short(s, Amount(s))
        <5>1. call' = [call EXCEPT ![Reader].place = "wait", ![Reader].amount = 0]
          BY <1>1, <1>4, <4>2 DEF Check
        <5> QED
          BY <1>1, <5>1 DEF Records
      <4>3. CASE Check(s) /\ ~ Short(s, Amount(s))
        <5> DEFINE amount == Amount(Reader)
        <5>1. call' = [call EXCEPT ![Reader].place = "copy", ![Reader].amount = amount]
          BY <1>1, <1>4, <4>3 DEF Check
        <5> HIDE DEF amount
        <5> QED
          BY <1>1, <5>1 DEF Records
      <4> QED
        BY <3>1, <4>1, <4>2, <4>3
    <3>2. CASE Wait(s) \/ Woken(s) \/ Clear(s) \/ Cleared(s)
      <4>1. PICK p \in {"woken", "blocked", "clear", "cleared", "again", "look"} : Go(Reader, p)
        BY <1>4, <3>2 DEF Wait, Woken, Clear, Cleared
      <4> QED
        BY <1>1, <4>1, GoesOn DEF Places
    <3>3. CASE Return(Reader)
      BY <1>1, <3>3, IdleIs DEF Return
    <3>4. CASE LookForBytes /\ ~ Return(Reader)
      BY <1>1, <3>4 DEF LookForBytes, Records
    <3>5. CASE ReadMessage /\ ~ Return(Reader)
      <4> DEFINE taken == Taken(call[Reader].count, call[Reader].amount)
                 rec == [Idle EXCEPT !.place = "low", !.data = Given(taken),
                                     !.next = Advance(tail, taken)]
      <4>1. call' = [call EXCEPT ![Reader] = rec]
        BY <3>5 DEF ReadMessage
      <4>2. rec.place = "low"
        BY DEF Idle
      <4> HIDE DEF rec
      <4> QED
        BY <1>1, <4>1, <4>2
    <3> QED
      BY <1>1, <1>4, <3>1, <3>2, <3>3, <3>4, <3>5
  <2> QED
    BY <1>2, <2>1, <2>2, <2>3, SameReceived, IsCall
<1> QED
  BY <1>1, <1>3, <1>4

\* The steps in which a side is notified, and nothing else happens to the ring.
LEMMA NotifyingSteps ==
    ASSUME StreamAssumption, Kind # "message", Inv, Inv', NEW s \in Sides,
           Completed(s) \/ CompletedFromISR(s)
    PROVE  Abstract!Call
<1>1. /\ call \in [Sides -> Records] /\ Writer # Reader /\ Reader \in Sides /\ Writer \in Sides
      /\ s \in {Writer, Reader} /\ Other(Writer) = Reader /\ Other(Reader) = Writer
      /\ Idle \in Records
  BY Types, IdleIsRecord DEF Inv, StreamAssumption, Sides, Other
<1>2. Contents' = Contents
  BY SameContents DEF ring, Completed, CompletedFromISR
<1>3. CASE Completed(Writer)
  <2> DEFINE c == [call EXCEPT ![Writer] = Idle]
  <2>1. c \in [Sides -> Records] /\ c[Reader] = call[Reader] /\ Notified(Reader, c)
    BY <1>1, <1>3 DEF Completed
  <2> HIDE DEF c
  <2>2. /\ call'[Reader].data = call[Reader].data
        /\ \/ call'[Reader].place = call[Reader].place
           \/ call[Reader].place \in {"blocked", "woken"} /\ call'[Reader].place = "woken"
    BY <1>1, <2>1, NotifiedKeeps
  <2> QED
    BY <1>2, <2>2, SameReceived, IsCall
<1>4. CASE Completed(Reader)
  <2> DEFINE c == [call EXCEPT ![Reader] = Idle]
  <2>1. /\ c \in [Sides -> Records] /\ c[Writer] = call[Writer] /\ c[Reader] = Idle
        /\ Notified(Writer, c)
    BY <1>1, <1>4 DEF Completed
  <2> HIDE DEF c
  <2>2. call'[Reader] = Idle
    BY <1>1, <2>1, NotifiedKeeps
  <2>3. call[Reader].place = "completed" /\ call'[Reader].place # "high"
    BY <1>4, <2>2, IdleIs DEF Completed, At
  <2>4. Reader \notin Interrupts
    <3>1. HandleOK(Reader)
      BY <1>1, OfSide
    <3> QED
      BY <2>3, <3>1 DEF HandleOK
  <2> QED
    BY <1>2, <2>3, <2>4, SameReceived, IsCall
<1>5. CASE CompletedFromISR(s)
  <2>1. Notified(s, call)
    BY <1>5 DEF CompletedFromISR
  <2>2. CASE s = Reader
    <3>1. /\ call'[Reader].data = call[Reader].data
          /\ \/ call'[Reader].place = call[Reader].place
             \/ call[Reader].place \in {"blocked", "woken"} /\ call'[Reader].place = "woken"
      BY <1>1, <2>1, <2>2, NotifiedKeeps
    <3> QED
      BY <1>2, <3>1, SameReceived, IsCall
  <2>3. CASE s = Writer
    <3>1. call'[Reader] = call[Reader]
      BY <1>1, <2>1, <2>3, NotifiedKeeps
    <3> QED
      BY <1>2, <3>1, SameReceived, IsCall
  <2> QED
    BY <1>1, <2>2, <2>3
<1> QED
  BY <1>1, <1>3, <1>4, <1>5

\* The calls begin.
LEMMA CallsBegin ==
    ASSUME StreamAssumption, Kind # "message", Inv, Inv', NEW n \in Nat, NEW w,
           xStreamBufferSend(n, w) \/ xStreamBufferReceive(n, w)
    PROVE  Abstract!Call
<1>1. call \in [Sides -> Records] /\ Writer # Reader /\ Reader \in Sides /\ Writer \in Sides
  BY Types DEF Inv, StreamAssumption, Sides
<1>2. Contents' = Contents
  BY SameContents DEF ring, xStreamBufferSend, xStreamBufferReceive
<1>3. CASE xStreamBufferSend(n, w)
  <2>1. call'[Reader] = call[Reader]
    BY <1>1, <1>3 DEF xStreamBufferSend
  <2> QED
    BY <1>2, <2>1, SameReceived, IsCall
<1>4. CASE xStreamBufferReceive(n, w)
  <2> DEFINE p == IF w = "none" THEN "look" ELSE "check"
             rec == [Idle EXCEPT !.place = p, !.wait = w, !.count = n, !.need = MoreThan]
  <2>1. /\ call' = [call EXCEPT ![Reader] = rec] /\ call[Reader].place = "idle"
        /\ Reader \notin Interrupts
    BY <1>4 DEF xStreamBufferReceive, At
  <2>2. rec.place # "high"
    BY DEF Idle
  <2> HIDE DEF rec
  <2>3. call'[Reader].place # "high"
    BY <1>1, <2>1, <2>2
  <2> QED
    BY <1>2, <2>1, <2>3, SameReceived, IsCall
<1> QED
  BY <1>3, <1>4

\* The writer copies its bytes where the reader does not look yet.
LEMMA WritingIsCall ==
    ASSUME StoredAtOnce, Kind # "message", Inv, Inv', WriteMessage
    PROVE  Abstract!Call
<1> DEFINE chunk == Chunk(call[Writer].data, call[Writer].amount)
<1>1. /\ call \in [Sides -> Records] /\ Writer # Reader /\ Reader \in Sides /\ Writer \in Sides
      /\ storage \in [Indexes -> Bytes] /\ storage' \in [Indexes -> Bytes]
      /\ head \in Indexes /\ tail \in Indexes
      /\ StreamAssumption /\ xLength \in Nat /\ head' = head /\ tail' = tail
  BY DEF Inv, TypeOK, Records, StreamAssumption, Sides, StoredAtOnce, WriteMessage
<1>2. call'[Reader] = call[Reader]
  BY <1>1 DEF WriteMessage, Return
<1>3. CASE chunk = <<>>
  <2>1. storage' = storage
    BY <1>3 DEF WriteMessage
  <2>2. Contents' = Contents
    BY <1>1, <2>1, SameContents
  <2> QED
    BY <1>1, <1>2, <2>2, SameReceived, IsCall
<1>4. CASE chunk # <<>>
  <2>1. storage' = Written(chunk, head)
    BY <1>4 DEF WriteMessage
  <2>2. /\ AmountOK(Writer) /\ call[Writer] \in Records /\ Amount(Writer) \in 0 .. xLength - 1
    BY <1>1, OfSide
  <2>3. /\ call[Writer].data \in Seq(Bytes) /\ call[Writer].amount \in 0 .. xLength - 1
        /\ call[Writer].amount <= Amount(Writer)
    BY <2>2 DEF Records, AmountOK
  <2>4. chunk \in Seq(Bytes) /\ Len(chunk) <= call[Writer].amount
    BY <2>3, ChunkIs
  <2> HIDE DEF chunk
  <2>5. Len(chunk) + BytesBetween(tail, head) < xLength
    <3>1. Amount(Writer) = xLength - 1 - BytesBetween(tail, head)
          /\ BytesBetween(tail, head) \in 0 .. xLength - 1
      BY <1>1, BytesAndSpaces DEF Amount, prvBytesInBuffer
    <3>2. Len(chunk) \in Nat
      BY <2>4
    <3> QED
      BY <1>1, <2>3, <2>4, <3>1, <3>2
  <2>6. \A k \in 1 .. BytesBetween(tail, head) :
            storage'[Advance(tail, k - 1)] = storage[Advance(tail, k - 1)]
    BY <1>1, <2>1, <2>4, <2>5, WrittenElsewhere
  <2>7. /\ Contents \in Seq(Bytes) /\ Len(Contents) = BytesBetween(tail, head)
        /\ \A k \in 1 .. BytesBetween(tail, head) : Contents[k] = storage[Advance(tail, k - 1)]
    BY <1>1, ContentsIs
  <2>8. /\ Contents' \in Seq(Bytes) /\ Len(Contents') = BytesBetween(tail, head)
        /\ \A k \in 1 .. BytesBetween(tail, head) : Contents'[k] = storage'[Advance(tail, k - 1)]
    BY <1>1, ContentsWillBe
  <2>9. Contents' = Contents
    BY <2>6, <2>7, <2>8, SameBytes
  <2> QED
    BY <1>1, <1>2, <2>9, SameReceived, IsCall
<1> QED
  BY <1>3, <1>4

\* The first half of the head is the send: what the writer holds is in the buffer.
LEMMA StoringSends ==
    ASSUME StoredAtOnce, Kind # "message", Inv, Inv', StoreHeadLow
    PROVE  Abstract!Send
<1> DEFINE data == call[Writer].data
<1>1. /\ call \in [Sides -> Records] /\ Writer # Reader /\ Reader \in Sides /\ Writer \in Sides
      /\ storage \in [Indexes -> Bytes] /\ head \in Indexes /\ tail \in Indexes
      /\ StreamAssumption /\ xLength \in Nat /\ storage' = storage /\ tail' = tail
      /\ call[Writer].place = "low" /\ Go(Writer, "high")
      /\ head' = LowHalf(head, call[Writer].next)
  BY DEF Inv, TypeOK, Records, StreamAssumption, Sides, StoredAtOnce, StoreHeadLow, At
<1>2. /\ HandleOK(Writer) /\ AmountOK(Writer) /\ call[Writer] \in Records
      /\ Amount(Writer) \in 0 .. xLength - 1
  BY <1>1, OfSide
<1>3. call[Writer].next \in Indexes /\ data \in Seq(Bytes) /\ Len(data) \in Nat
  BY <1>2 DEF Records
<1>4. head' = call[Writer].next
  BY <1>1, <1>3, LowHalfIsAll
<1>5. Distance(Writer) = Len(data)
  BY <1>3 DEF Distance, Overhead
<1>6. /\ Len(data) > 0 /\ Len(data) <= Amount(Writer) /\ head' = Advance(head, Len(data))
      /\ \A k \in 1 .. Len(data) : storage[Advance(head, k - 1)] = data[k]
  <2>1. Index(Writer) = head
    BY DEF Index
  <2> QED
    BY <1>1, <1>2, <1>4, <1>5, <2>1 DEF AmountOK
<1> HIDE DEF data
<1>7. BytesBetween(tail, head) + Len(data) < xLength
  <2>1. Amount(Writer) = xLength - 1 - BytesBetween(tail, head)
        /\ BytesBetween(tail, head) \in 0 .. xLength - 1
    BY <1>1, BytesAndSpaces DEF Amount, prvBytesInBuffer
  <2> QED
    BY <1>1, <1>3, <1>6, <2>1
<1>8. Contents' = Contents \o data
  BY <1>1, <1>3, <1>6, <1>7, HeadAdds
<1>9. /\ call'[Reader] = call[Reader] /\ call'[Writer].place = "high"
  BY <1>1, GoesOn DEF Places
<1>10. Writer \notin Interrupts
  BY <1>1, <1>2 DEF HandleOK
<1>11. Sending = data /\ Sending' = <<>>
  BY <1>1, <1>9, <1>10 DEF Sending, AsItems, data
<1>12. Received' = Received
  BY <1>9, SameReceived
<1>13. Len(data) \in 1 .. Len(Sending) /\ Contents' = Contents \o SubSeq(Sending, 1, Len(data))
  BY <1>3, <1>6, <1>8, <1>11
<1>14. Sending' \in Seq(Bytes)
  BY <1>11
<1> QED
  BY <1>12, <1>13, <1>14, Mapped

\* The first half of the tail is the receipt: the reader was given what it copied.
LEMMA StoringReceives ==
    ASSUME StoredAtOnce, Kind # "message", Inv, StoreTailLow
    PROVE  Abstract!Receive
<1> DEFINE data == call[Reader].data
           n == Len(data)
<1>1. /\ call \in [Sides -> Records] /\ Writer # Reader /\ Reader \in Sides /\ Writer \in Sides
      /\ storage \in [Indexes -> Bytes] /\ head \in Indexes /\ tail \in Indexes
      /\ StreamAssumption /\ xLength \in Nat
      /\ storage' = storage /\ head' = head /\ stamp' = stamp
      /\ call[Reader].place = "low" /\ Go(Reader, "high")
      /\ tail' = LowHalf(tail, call[Reader].next)
  BY DEF Inv, TypeOK, Records, StreamAssumption, Sides, StoredAtOnce, StoreTailLow, At
<1>2. /\ AmountOK(Reader) /\ call[Reader] \in Records /\ Amount(Reader) = BytesBetween(tail, head)
  BY <1>1, OfSide DEF Amount, prvBytesInBuffer
<1>3. call[Reader].next \in Indexes /\ data \in Seq(Bytes) /\ n \in Nat
  BY <1>2 DEF Records
<1>4. tail' = call[Reader].next
  BY <1>1, <1>3, LowHalfIsAll
<1>5. Distance(Reader) = n
  BY <1>3 DEF Distance, Overhead
<1>6. /\ n > 0 /\ n <= BytesBetween(tail, head) /\ tail' = Advance(tail, n)
      /\ \A k \in 1 .. n : storage[Advance(tail, k - 1)] = data[k]
  <2>1. Index(Reader) = tail
    BY <1>1 DEF Index
  <2> QED
    BY <1>1, <1>2, <1>4, <1>5, <2>1 DEF AmountOK
<1>7. BytesBetween(tail, head) \in 0 .. xLength - 1
  BY <1>1, AdvanceCounts
<1>8. n \in 1 .. BytesBetween(tail, head) /\ n \in 0 .. xLength
  BY <1>1, <1>3, <1>6, <1>7
<1> HIDE DEF n
<1>9. /\ n \in 1 .. Len(Contents) /\ BytesFrom(tail, n) = SubSeq(Contents, 1, n)
      /\ Contents' = SubSeq(Contents, n + 1, Len(Contents))
  BY <1>1, <1>6, <1>8, TailTakes
<1>10. BytesFrom(tail, n) = data
  <2>1. /\ BytesFrom(tail, n) \in Seq(Bytes) /\ Len(BytesFrom(tail, n)) = n
        /\ \A k \in 1 .. n : BytesFrom(tail, n)[k] = storage[Advance(tail, k - 1)]
    BY <1>1, <1>8, BytesFromIs
  <2>2. Len(data) = n
    BY DEF n
  <2>3. \A k \in 1 .. n : BytesFrom(tail, n)[k] = data[k]
    BY <1>6, <2>1
  <2> HIDE DEF data
  <2> QED
    BY <1>3, <2>1, <2>2, <2>3, SameBytes
<1>11. /\ call'[Writer] = call[Writer] /\ call'[Reader].place = "high"
       /\ call'[Reader].data = data
  BY <1>1, GoesOn DEF Places
<1>12. Received' = data
  BY <1>11 DEF Received, At
<1>13. Sending' = Sending
  BY <1>1, <1>11 DEF Sending, Stamped, AsItems
<1>14. /\ Received' = SubSeq(Contents, 1, n)
       /\ Contents' = SubSeq(Contents, n + 1, Len(Contents))
  BY <1>9, <1>10, <1>12
<1> QED
  BY <1>9, <1>13, <1>14, Mapped

\* The second half is the end of what the reader was given.
LEMMA SecondHalves ==
    ASSUME StreamAssumption, Kind # "message", Inv, Inv', StoreHeadHigh \/ StoreTailHigh
    PROVE  Abstract!Call \/ Abstract!Forget
<1>1. /\ call \in [Sides -> Records] /\ Writer # Reader /\ Reader \in Sides /\ Writer \in Sides
  BY Types DEF Inv, StreamAssumption, Sides
<1>2. CASE StoreHeadHigh
  <2>1. call[Writer].place = "high" /\ AmountOK(Writer)
    BY <1>1, <1>2, OfSide DEF StoreHeadHigh, At
  <2>2. head' = head /\ tail' = tail /\ storage' = storage
    BY <1>2, <2>1 DEF StoreHeadHigh, AmountOK, Index
  <2>3. call'[Reader] = call[Reader]
    BY <1>1, <1>2, GoesOn DEF StoreHeadHigh, Places
  <2> QED
    BY <2>2, <2>3, SameContents, SameReceived, IsCall
<1>3. CASE StoreTailHigh
  <2>1. call[Reader].place = "high" /\ AmountOK(Reader) /\ HandleOK(Reader)
    BY <1>1, <1>3, OfSide DEF StoreTailHigh, At
  <2>2. head' = head /\ tail' = tail /\ storage' = storage /\ stamp' = stamp
    BY <1>1, <1>3, <2>1 DEF StoreTailHigh, AmountOK, Index
  <2>3. call'[Writer] = call[Writer] /\ call'[Reader].place = "completed"
    BY <1>1, <1>3, GoesOn DEF StoreTailHigh, Places
  <2>4. Received' = <<>>
    BY <2>1, <2>3 DEF HandleOK, Received, At
  <2>5. Sending' = Sending
    BY <2>2, <2>3 DEF Sending, Stamped, AsItems
  <2> QED
    BY <2>2, <2>4, <2>5, SameContents, Mapped
<1> QED
  BY <1>2, <1>3

\* An interrupt that sends, and one that receives.
LEMMA ISRSends ==
    ASSUME StoredAtOnce, Kind # "message", Inv, Inv', NEW n \in 1 .. MaxSend,
           xStreamBufferSendFromISR(n)
    PROVE  Abstract!Send
<1> DEFINE chunk == Chunk(Stamped(n), xStreamBufferSpacesAvailable)
           next == Advance(head, Len(chunk))
           m == Payload(chunk)
<1>1. /\ Writer \in Interrupts /\ chunk # <<>> /\ storage' = Written(chunk, head)
      /\ head' = next /\ tail' = tail
      /\ BytesBetween(tail, next) >= trigger => Notified(Reader, call)
      /\ ~ (BytesBetween(tail, next) >= trigger) => call' = call
  BY DEF xStreamBufferSendFromISR
<1>2. /\ Writer \in Sides /\ Reader \in Sides /\ Writer # Reader
      /\ n \in Nat /\ MaxSend \in Nat /\ n <= MaxSend /\ xLength \in Nat /\ StreamAssumption
  BY DEF Sides, StreamAssumption, StoredAtOnce
<1>3. /\ call \in [Sides -> Records] /\ head \in Indexes /\ stamp' \in Bytes
      /\ storage \in [Indexes -> Bytes] /\ storage' \in [Indexes -> Bytes] /\ tail \in Indexes
  BY DEF Inv, TypeOK, Records
<1>4. /\ xStreamBufferSpacesAvailable \in 0 .. xLength - 1
      /\ xStreamBufferSpacesAvailable = xLength - 1 - BytesBetween(tail, head)
      /\ BytesBetween(tail, head) \in 0 .. xLength - 1
  BY <1>2, <1>3, BytesAndSpaces DEF prvBytesInBuffer
<1>5. /\ Stamped(n) \in Seq(Bytes) /\ Len(Stamped(n)) = n
      /\ \A k \in 1 .. n : Stamped(n)[k] = (stamp + k - 1) % Base
      /\ Stamped(MaxSend) \in Seq(Bytes) /\ Len(Stamped(MaxSend)) = MaxSend
      /\ \A k \in 1 .. MaxSend : Stamped(MaxSend)[k] = (stamp + k - 1) % Base
  BY <1>2, StampedBytes
<1>6. /\ chunk \in Seq(Bytes) /\ Len(chunk) <= xStreamBufferSpacesAvailable
      /\ Len(chunk) > 0 /\ m \in 0 .. n /\ chunk = SubSeq(Stamped(n), 1, m)
      /\ m = Len(chunk)
  <2>1. Overhead = 0
    BY DEF Overhead
  <2>2. /\ chunk \in Seq(Bytes) /\ Len(chunk) <= xStreamBufferSpacesAvailable
        /\ Len(chunk) > 0 /\ m \in 0 .. Len(Stamped(n)) /\ chunk = SubSeq(Stamped(n), 1, m)
        /\ m + Overhead = Len(chunk)
    BY <1>1, <1>4, <1>5, ChunkIs
  <2> HIDE DEF chunk, m
  <2> QED
    BY <1>2, <1>5, <2>1, <2>2
<1> HIDE DEF chunk, m
<1>7. m \in 1 .. n /\ m \in 1 .. MaxSend /\ m \in Nat /\ BytesBetween(tail, head) + m < xLength
  BY <1>2, <1>4, <1>6
<1>8. chunk = SubSeq(Stamped(MaxSend), 1, m)
  <2> DEFINE whole == Stamped(MaxSend)
             part == Stamped(n)
  <2>1. \A k \in 1 .. n : whole[k] = part[k]
    BY <1>2, <1>5
  <2>2. whole \in Seq(Bytes) /\ Len(whole) = MaxSend /\ part \in Seq(Bytes) /\ Len(part) = n
    BY <1>5
  <2> HIDE DEF whole, part
  <2> DEFINE first == SubSeq(whole, 1, m)
             one == SubSeq(part, 1, m)
  <2>3. /\ first \in Seq(Bytes) /\ Len(first) = m /\ \A k \in 1 .. m : first[k] = whole[k]
    BY <1>7, <2>2, PartOf
  <2>4. /\ one \in Seq(Bytes) /\ Len(one) = m /\ \A k \in 1 .. m : one[k] = part[k]
    BY <1>7, <2>2, PartOf
  <2>5. chunk = one
    BY <1>6 DEF part
  <2> HIDE DEF first, one
  <2>6. one = first
    <3>1. \A k \in 1 .. m : one[k] = first[k]
      BY <1>7, <2>1, <2>3, <2>4
    <3> QED
      BY <2>3, <2>4, <3>1, SameBytes
  <2> QED
    BY <2>5, <2>6 DEF first, whole
<1>9. Contents' = Contents \o chunk
  <2>1. /\ Len(chunk) < xLength /\ Len(chunk) + BytesBetween(tail, head) < xLength
        /\ BytesBetween(tail, head) + Len(chunk) < xLength
    BY <1>2, <1>4, <1>6, <1>7
  <2>2. \A k \in 1 .. BytesBetween(tail, head) :
            storage'[Advance(tail, k - 1)] = storage[Advance(tail, k - 1)]
    BY <1>1, <1>2, <1>3, <1>6, <2>1, WrittenElsewhere
  <2>3. \A k \in 1 .. Len(chunk) : storage'[Advance(head, k - 1)] = chunk[k]
    BY <1>1, <1>2, <1>3, <1>6, <2>1, WrittenIs
  <2> QED
    BY <1>1, <1>2, <1>3, <1>6, <2>1, <2>2, <2>3, HeadAdds
<1>10. Sending = Stamped(MaxSend) /\ Sending' = Stamped(MaxSend)'
  BY <1>1 DEF Sending
<1>11. Sending' \in Seq(Bytes)
  BY <1>2, <1>3, <1>10, StampsAreBytes DEF Stamped
<1>12. Received' = Received
  <2>1. CASE BytesBetween(tail, next) >= trigger
    <3>1. Notified(Reader, call)
      BY <1>1, <2>1
    <3>2. /\ call'[Reader].data = call[Reader].data
          /\ \/ call'[Reader].place = call[Reader].place
             \/ call[Reader].place \in {"blocked", "woken"} /\ call'[Reader].place = "woken"
      BY <1>2, <1>3, <3>1, NotifiedKeeps
    <3> QED
      BY <3>2, SameReceived
  <2>2. CASE ~ (BytesBetween(tail, next) >= trigger)
    <3>1. call'[Reader] = call[Reader]
      BY <1>1, <2>2
    <3> QED
      BY <3>1, SameReceived
  <2> QED
    BY <2>1, <2>2
<1>13. m \in 1 .. Len(Sending) /\ Contents' = Contents \o SubSeq(Sending, 1, m)
  BY <1>5, <1>7, <1>8, <1>9, <1>10
<1> QED
  BY <1>11, <1>12, <1>13, Mapped

\* A read from an interrupt takes the oldest bytes of the abstract stream.
LEMMA ISRReceives ==
    ASSUME StoredAtOnce, Kind # "message", Inv, NEW room \in 1 .. MaxRead,
           xStreamBufferReceiveFromISR(room)
    PROVE  Abstract!Receive
<1> DEFINE taken == Taken(room, prvBytesInBuffer)
           given == Given(taken)
           c == [call EXCEPT ![Reader].data = given]
<1>1. /\ Reader \in Interrupts /\ taken # 0 /\ tail' = Advance(tail, taken)
      /\ Notified(Writer, c) /\ UNCHANGED <<head, storage, trigger, stamp>>
  BY DEF xStreamBufferReceiveFromISR
<1>2. /\ Writer \in Sides /\ Reader \in Sides /\ Writer # Reader /\ Other(Writer) = Reader
      /\ room \in Nat /\ xLength \in Nat /\ StreamAssumption
  BY DEF Sides, StreamAssumption, StoredAtOnce, Other
<1>3. /\ call \in [Sides -> Records] /\ storage \in [Indexes -> Bytes] /\ tail \in Indexes
      /\ head \in Indexes
  BY Types DEF Inv
<1>4. prvBytesInBuffer \in 0 .. xLength - 1 /\ prvBytesInBuffer = BytesBetween(tail, head)
  BY <1>2, <1>3, BytesAndSpaces DEF prvBytesInBuffer
<1>5. /\ taken \in 0 .. prvBytesInBuffer /\ given \in Seq(Bytes)
      /\ given = BytesFrom(tail, taken)
  BY <1>1, <1>2, <1>3, <1>4, TakenIs
<1> HIDE DEF taken, given
<1>6. taken \in 1 .. BytesBetween(tail, head)
  BY <1>1, <1>4, <1>5
<1>7. /\ taken \in 1 .. Len(Contents) /\ given = SubSeq(Contents, 1, taken)
      /\ Contents' = SubSeq(Contents, taken + 1, Len(Contents))
  BY <1>1, <1>2, <1>3, <1>5, <1>6, TailTakes
<1>8. c \in [Sides -> Records] /\ c[Writer] = call[Writer] /\ c[Reader].data = given
  <2>1. PICK old : old = call[Reader]
    OBVIOUS
  <2>2. PICK new : new = [old EXCEPT !.data = given]
    OBVIOUS
  <2>3. old \in Records /\ given \in Seq(Bytes)
    BY <1>2, <1>3, <1>5, <2>1
  <2>4. new \in Records /\ new.data = given
    BY <2>2, <2>3 DEF Records
  <2>5. c = [call EXCEPT ![Reader] = new]
    BY <2>1, <2>2
  <2> QED
    BY <1>2, <1>3, <2>4, <2>5
<1> HIDE DEF c
<1>9. /\ call'[Reader] = c[Reader] /\ call'[Writer].data = call[Writer].data
      /\ \/ call'[Writer].place = call[Writer].place
         \/ call[Writer].place \in {"blocked", "woken"} /\ call'[Writer].place = "woken"
  BY <1>1, <1>2, <1>8, NotifiedKeeps
<1>10. Received' = given
  BY <1>1, <1>8, <1>9 DEF Received
<1>11. Sending' = Sending
  <2>1. stamp' = stamp
    BY <1>1
  <2> QED
    BY <1>9, <2>1 DEF Sending, Stamped, AsItems
<1> QED
  BY <1>7, <1>10, <1>11, Mapped

\* Every step of the buffer is a step of the promise, or none.
LEMMA StepRefines ==
    ASSUME StoredAtOnce, Kind # "message", Inv, Inv', [Next]_vars
    PROVE  [Abstract!Next]_Abstract!vars
<1>1. StreamAssumption /\ Writer \in Sides /\ Reader \in Sides /\ Writer # Reader
  BY DEF StoredAtOnce, StreamAssumption, Sides
<1>2. CASE Send
  <2>1. PICK n \in 1 .. MaxSend :
            (\E w \in Waits : xStreamBufferSend(n, w)) \/ xStreamBufferSendFromISR(n)
    BY <1>2 DEF Send
  <2>2. n \in Nat
    BY <1>1 DEF StreamAssumption
  <2>3. Abstract!Call \/ Abstract!Send
    BY <1>1, <2>1, <2>2, CallsBegin, ISRSends
  <2> QED
    BY <2>3 DEF Abstract!Next
<1>3. CASE Receive
  <2>1. PICK n \in 1 .. MaxRead :
            (\E w \in Waits : xStreamBufferReceive(n, w)) \/ xStreamBufferReceiveFromISR(n)
    BY <1>3 DEF Receive
  <2>2. n \in Nat
    BY <1>1 DEF StreamAssumption
  <2>3. Abstract!Call \/ Abstract!Receive
    BY <1>1, <2>1, <2>2, CallsBegin, ISRReceives
  <2> QED
    BY <2>3 DEF Abstract!Next
<1>4. CASE \E level \in Triggers : xStreamBufferSetTriggerLevel(level)
  <2>1. UNCHANGED <<head, tail, storage, call, stamp>>
    BY <1>4 DEF xStreamBufferSetTriggerLevel, ring
  <2>2. Contents' = Contents
    BY <2>1, SameContents
  <2>3. call'[Reader] = call[Reader]
    BY <2>1
  <2>4. Received' = Received
    BY <2>3, SameReceived
  <2>5. Abstract!Call
    BY <1>1, <2>2, <2>4, IsCall
  <2> QED
    BY <2>5 DEF Abstract!Next
<1>5. ASSUME NEW s \in Sides,
             Proceed(s) \/ TimeOut(s) \/ CompletedFromISR(s) \/ xStreamBufferReset(s)
      PROVE  Abstract!Next
  <2>1. CASE TimeOut(s) \/ Check(s) \/ Wait(s) \/ Woken(s) \/ Clear(s) \/ Cleared(s)
             \/ (s = Writer /\ (Again \/ LookForSpace \/ Trigger))
             \/ (s = Reader /\ (LookForBytes \/ ReadMessage))
    <3>1. Abstract!Call
      BY <1>1, <2>1, QuietSteps
    <3> QED
      BY <3>1 DEF Abstract!Next
  <2>2. CASE Completed(s) \/ CompletedFromISR(s)
    <3>1. Abstract!Call
      BY <1>1, <2>2, NotifyingSteps
    <3> QED
      BY <3>1 DEF Abstract!Next
  <2>3. CASE xStreamBufferReset(s)
    <3>1. /\ head' = 0 /\ tail' = 0 /\ UNCHANGED <<storage, call, stamp>>
      BY <2>3 DEF xStreamBufferReset
    <3>2. storage' \in [Indexes -> Bytes] /\ head' \in Indexes /\ tail' \in Indexes
      BY DEF Inv, TypeOK
    <3>3. Contents' \in Seq(Bytes) /\ Len(Contents') = BytesBetween(0, 0)
      BY <1>1, <3>1, <3>2, ContentsWillBe
    <3>4. BytesBetween(0, 0) = 0
      BY <1>1 DEF BytesBetween, StreamAssumption
    <3>5. Contents' = <<>>
      BY <3>3, <3>4
    <3>6. Sending' = Sending /\ Received' = Received
      BY <3>1 DEF Sending, Received, Stamped, AsItems, At
    <3>7. Abstract!Reset
      BY <3>5, <3>6, Mapped
    <3> QED
      BY <3>7 DEF Abstract!Next
  <2>4. CASE s = Writer /\ (WriteMessage \/ StoreHeadLow \/ StoreHeadHigh)
    <3>1. Abstract!Call \/ Abstract!Send \/ Abstract!Forget
      BY <1>1, <2>4, WritingIsCall, StoringSends, SecondHalves
    <3> QED
      BY <3>1 DEF Abstract!Next
  <2>5. CASE s = Reader /\ (StoreTailLow \/ StoreTailHigh)
    <3>1. Abstract!Receive \/ Abstract!Call \/ Abstract!Forget
      BY <1>1, <2>5, StoringReceives, SecondHalves
    <3> QED
      BY <3>1 DEF Abstract!Next
  <2> QED
    BY <1>5, <2>1, <2>2, <2>3, <2>4, <2>5 DEF Proceed
<1>6. CASE UNCHANGED vars
  <2>1. UNCHANGED <<head, tail, storage, call, stamp>>
    BY <1>6 DEF vars
  <2>2. Sending' = Sending /\ Received' = Received /\ Contents' = Contents
    BY <2>1, SameContents DEF Sending, Received, Stamped, AsItems, At
  <2> QED
    BY <2>2 DEF Abstract!vars, AsItems
<1> QED
  BY <1>2, <1>3, <1>4, <1>5, <1>6 DEF Next

\* The reader of a stream or batching buffer gets the bytes as they were sent: none is
\* lost, doubled, reordered, made up or cut, although neither side excludes the other
\* from the ring, and either may be an interrupt.
THEOREM StreamArrives ==
    StoredAtOnce /\ Kind # "message" => (Spec => ImplementsStreamSpec)
<1> SUFFICES ASSUME StoredAtOnce, Kind # "message" PROVE Spec => ImplementsStreamSpec
  OBVIOUS
<1>1. ASSUME Init PROVE Abstract!Init
  <2>1. Inv
    BY <1>1, InvInit
  <2>2. /\ StreamAssumption /\ Writer \in Sides /\ Reader \in Sides
        /\ storage \in [Indexes -> Bytes] /\ head \in Indexes /\ tail \in Indexes
        /\ call[Writer] = Idle /\ call[Reader] = Idle /\ head = 0 /\ tail = 0
        /\ MaxSend \in Nat
    BY <1>1, <2>1, Types DEF StoredAtOnce, StreamAssumption, Sides, Init, Inv
  <2>3. Contents = <<>>
    <3>1. Contents \in Seq(Bytes) /\ Len(Contents) = BytesBetween(0, 0)
      BY <2>2, ContentsIs
    <3>2. BytesBetween(0, 0) = 0
      BY <2>2 DEF BytesBetween, StreamAssumption
    <3> QED
      BY <3>1, <3>2
  <2>4. Received = <<>>
    BY <2>2, IdleIs DEF Received, At
  <2>5. Sending \in Seq(Bytes)
    <3>1. Stamped(MaxSend) \in Seq(Bytes)
      BY <2>1, <2>2, StampedBytes
    <3>2. call[Writer].data \in Seq(Bytes) /\ <<>> \in Seq(Bytes)
      BY <2>2, IdleIs
    <3> QED
      BY <3>1, <3>2 DEF Sending, AsItems
  <2> QED
    BY <2>3, <2>4, <2>5, Mapped
<1>2. Inv /\ Inv' /\ [Next]_vars => [Abstract!Next]_Abstract!vars
  BY StepRefines
<1> QED
  BY <1>1, <1>2, Invariant, PTL DEF Spec, ImplementsStreamSpec, Abstract!Spec
=============================================================================
