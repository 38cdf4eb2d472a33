--------------------------- MODULE StreamBuffers ---------------------------
(***************************************************************************)
(* A stream, batching or message buffer: freertos/source/stream_buffer.c,  *)
(* with one writer and one reader, each a task or an interrupt.            *)
(*                                                                         *)
(* Nothing protects the ring.  The writer copies its bytes and then stores *)
(* xHead, the reader copies and then stores xTail, and the processor       *)
(* stores these 16 bits in two halves; so it does a task handle.  Every    *)
(* step of a task may be followed by a step of the other side; a critical  *)
(* section, and a section with the scheduler suspended in which only the   *)
(* other task could interfere, is one step, and so is an interrupt.        *)
(*                                                                         *)
(* Of the kernel there is what xTaskNotifyWait and xTaskNotify do with the *)
(* state of a notification; Tasks.tla has the whole of these functions.    *)
(***************************************************************************)
EXTENDS Integers, Sequences

CONSTANTS
    Writer, Reader,
    NULL,           \* no task
    Torn,           \* a task handle of which one half was cleared
    Kind,           \* "stream", "batching" or "message"
    xLength,        \* the bytes of the storage: one more than the buffer holds
    Triggers,       \* the trigger levels the application sets, the first among them
    Base,           \* the values of a byte, and of the low half of an index
    Interrupts,     \* those of the two sides that are interrupts
    Waits,          \* the waits of a task: some of "none", "ticks", "forever"
    MaxSend,        \* bound: the bytes of one send
    MaxRead,        \* bound: the bytes of one receive
    Prompted,       \* the sides that an interrupt of the application wakes
    Resetters       \* the tasks that reset the buffer while the other is not in a call

Sides == {Writer, Reader}

StreamAssumption ==
    /\ Writer # Reader
    /\ Sides \cap {NULL, Torn} = {}
    /\ NULL # Torn
    /\ Kind \in {"stream", "batching", "message"}
    /\ xLength \in Nat \ {0, 1}
    /\ Triggers # {}
    /\ Triggers \subseteq 1 .. xLength - 1
    /\ Base \in Nat \ {0, 1}
    /\ Interrupts \subseteq Sides
    /\ Waits \subseteq {"none", "ticks", "forever"}
    /\ MaxSend \in Nat \ {0}
    /\ MaxRead \in Nat \ {0}
    /\ Prompted \subseteq Sides
    /\ Resetters \subseteq Sides \ Interrupts

VARIABLES
    head, tail,     \* xHead, xTail
    storage,        \* pucBuffer
    trigger,        \* xTriggerLevelBytes
    waiting,        \* [Sides -> xTaskWaitingToSend or xTaskWaitingToReceive]
    notify,         \* [Sides -> ucNotifyState of the task]
    call,           \* [Sides -> where the side is in a call, and its locals]
    stamp,          \* history: the next byte the writer sends
    wild            \* history: a task was notified through a torn handle

ring == <<head, tail, storage>>
vars == <<head, tail, storage, trigger, waiting, notify, call, stamp, wild>>

Bytes == 0 .. Base - 1
Indexes == 0 .. xLength - 1

Other(s) == IF s = Writer THEN Reader ELSE Writer

\* sbBYTES_TO_STORE_MESSAGE_LENGTH: a size_t, whose low half comes first.
sbBYTES_TO_STORE_MESSAGE_LENGTH == 2

Places == {"idle", "check", "wait", "blocked", "woken", "clear", "cleared", "again",
           "look", "copy", "low", "high", "trigger", "completed"}

(* The locals of a call:                                                   *)
(*   wait      xTicksToWait                                                *)
(*   count     the bytes the reader has room for                           *)
(*   need      xRequiredSpace, or the bytes the reader needs more than     *)
(*   amount    xSpace, or xBytesAvailable                                  *)
(*   next      the new value of the index                                  *)
(*   data      the bytes to send, or those read; an interrupt that reads   *)
(*             keeps them until it reads again                             *)
(*   late      the block time is over                                      *)
Idle == [place |-> "idle", wait |-> "none", count |-> 0, need |-> 0, amount |-> 0,
         next |-> 0, data |-> <<>>, late |-> FALSE]

TypeOK ==
    /\ head \in Indexes
    /\ tail \in Indexes
    /\ storage \in [Indexes -> Bytes]
    /\ trigger \in Triggers
    /\ waiting \in [Sides -> Sides \cup {NULL, Torn}]
    /\ notify \in [Sides -> {"not waiting", "waiting", "received"}]
    /\ call \in [Sides -> [place: Places, wait: {"none"} \cup Waits, count: Nat, need: Nat,
                           amount: 0 .. xLength - 1, next: Indexes, data: Seq(Bytes),
                           late: BOOLEAN]]
    /\ stamp \in Bytes
    /\ wild \in BOOLEAN

\* prvInitialiseNewStreamBuffer, called when the buffer is created.
Init ==
    /\ head = 0
    /\ tail = 0
    /\ storage = [i \in Indexes |-> 0]
    /\ trigger \in Triggers
    /\ waiting = [s \in Sides |-> NULL]
    /\ notify = [s \in Sides |-> "not waiting"]
    /\ call = [s \in Sides |-> Idle]
    /\ stamp = 0
    /\ wild = FALSE

-----------------------------------------------------------------------------

\* The index n bytes after another.
Advance(i, n) == IF i + n >= xLength THEN i + n - xLength ELSE i + n

BytesBetween(t, h) ==
    LET count == xLength + h - t
    IN  IF count >= xLength THEN count - xLength ELSE count

prvBytesInBuffer == BytesBetween(tail, head)

\* The loop that reads xTail again makes the read of the two indexes one.
xStreamBufferSpacesAvailable ==
    LET space == xLength + tail - head - 1
    IN  IF space >= xLength THEN space - xLength ELSE space

\* The n bytes from an index on: prvReadBytesFromBuffer.
BytesFrom(i, n) == [k \in 1 .. n |-> storage[Advance(i, k - 1)]]

\* prvWriteBytesToBuffer.
Written(data, i) ==
    [j \in Indexes |->
        LET k == IF j >= i THEN j - i + 1 ELSE j + xLength - i + 1
        IN  IF k <= Len(data) THEN data[k] ELSE storage[j]]

LengthAsBytes(n) == <<n % Base, n \div Base>>
LengthAt(i) == storage[i] + Base * storage[Advance(i, 1)]

\* An index after its low half was stored.
LowHalf(old, new) == (old \div Base) * Base + (new % Base)

At(s, place) == call[s].place = place
Go(s, place) == call' = [call EXCEPT ![s].place = place]
Return(s) == call' = [call EXCEPT ![s] = Idle]

\* sbSEND_COMPLETED and sbRECEIVE_COMPLETED, also from an interrupt: a side that
\* waits is notified and forgotten.  c is the change the caller makes to call.
Notified(s, c) ==
    /\ waiting' = [waiting EXCEPT ![s] = NULL]
    /\ wild' = (wild \/ waiting[s] = Torn)
    /\ IF waiting[s] = s
       THEN /\ notify' = [notify EXCEPT ![s] = "received"]
            /\ call' = IF notify[s] = "waiting" THEN [c EXCEPT ![s].place = "woken"] ELSE c
       ELSE notify' = notify /\ call' = c

-----------------------------------------------------------------------------

\* The calls.  The space a send needs is what it waits for.
RequiredSpace(n) ==
    IF Kind = "message" THEN n + sbBYTES_TO_STORE_MESSAGE_LENGTH
    ELSE IF n > xLength - 1 THEN xLength - 1
    ELSE n

Stamped(n) == [k \in 1 .. n |-> (stamp + k - 1) % Base]

xStreamBufferSend(n, wait) ==
    /\ At(Writer, "idle")
    /\ Writer \notin Interrupts
    /\ LET need == RequiredSpace(n)
           w == IF need > xLength - 1 THEN "none" ELSE wait
       IN  call' = [call EXCEPT ![Writer] =
               [Idle EXCEPT !.place = IF w = "none" THEN "look" ELSE "check",
                            !.wait = w, !.need = need, !.data = Stamped(n)]]
    /\ UNCHANGED <<ring, trigger, waiting, notify, stamp, wild>>

\* xBytesToStoreMessageLength.
MoreThan ==
    CASE Kind = "message" -> sbBYTES_TO_STORE_MESSAGE_LENGTH
      [] Kind = "batching" -> trigger
      [] OTHER -> 0

xStreamBufferReceive(n, wait) ==
    /\ At(Reader, "idle")
    /\ Reader \notin Interrupts
    /\ call' = [call EXCEPT ![Reader] =
           [Idle EXCEPT !.place = IF wait = "none" THEN "look" ELSE "check",
                        !.wait = wait, !.count = n, !.need = MoreThan]]
    /\ UNCHANGED <<ring, trigger, waiting, notify, stamp, wild>>

-----------------------------------------------------------------------------

\* What a side looks at before it waits, and whether that makes it wait.
Amount(s) == IF s = Writer THEN xStreamBufferSpacesAvailable ELSE prvBytesInBuffer

Short(s, amount) ==
    IF s = Writer THEN amount < call[s].need ELSE amount <= call[s].need

\* The critical section before a wait.
Check(s) ==
    /\ At(s, "check")
    /\ IF Short(s, Amount(s))
       THEN /\ notify' = [notify EXCEPT ![s] = "not waiting"]
            /\ waiting' = [waiting EXCEPT ![s] = s]
            /\ call' = [call EXCEPT ![s].place = "wait",
                                    ![s].amount = IF s = Writer THEN Amount(s) ELSE 0]
       ELSE /\ call' = [call EXCEPT ![s].place = "copy", ![s].amount = Amount(s)]
            /\ UNCHANGED <<waiting, notify>>
    /\ UNCHANGED <<ring, trigger, stamp, wild>>

\* Mutant of Wait: a notification that came before the wait is not seen.
WaitAnyway(s) ==
    /\ At(s, "wait")
    /\ notify' = [notify EXCEPT ![s] = "waiting"]
    /\ Go(s, "blocked")
    /\ UNCHANGED <<ring, trigger, waiting, stamp, wild>>

\* xTaskGenericNotifyWait: the task blocks, unless it was notified meanwhile.
Wait(s) ==
    /\ At(s, "wait")
    /\ IF notify[s] = "received"
       THEN notify' = notify /\ Go(s, "woken")
       ELSE notify' = [notify EXCEPT ![s] = "waiting"] /\ Go(s, "blocked")
    /\ UNCHANGED <<ring, trigger, waiting, stamp, wild>>

\* The block time is over.
TimeOut(s) ==
    /\ At(s, "blocked")
    /\ call[s].wait = "ticks"
    /\ call' = [call EXCEPT ![s].place = "woken", ![s].late = TRUE]
    /\ UNCHANGED <<ring, trigger, waiting, notify, stamp, wild>>

\* xTaskGenericNotifyWait returns.
Woken(s) ==
    /\ At(s, "woken")
    /\ notify' = [notify EXCEPT ![s] = "not waiting"]
    /\ Go(s, "clear")
    /\ UNCHANGED <<ring, trigger, waiting, stamp, wild>>

\* NULL is stored over the handle, one half and then the other.
Clear(s) ==
    /\ At(s, "clear")
    /\ waiting' = [waiting EXCEPT ![s] = IF @ = NULL THEN NULL ELSE Torn]
    /\ Go(s, "cleared")
    /\ UNCHANGED <<ring, trigger, notify, stamp, wild>>

Cleared(s) ==
    /\ At(s, "cleared")
    /\ waiting' = [waiting EXCEPT ![s] = NULL]
    /\ Go(s, IF s = Writer THEN "again" ELSE "look")
    /\ UNCHANGED <<ring, trigger, notify, stamp, wild>>

\* xTaskCheckForTimeOut, by the writer only.
Again ==
    /\ At(Writer, "again")
    /\ \E late \in BOOLEAN :
          /\ call[Writer].late => late
          /\ late => call[Writer].wait = "ticks"
          /\ Go(Writer, IF late THEN "look" ELSE "check")
    /\ UNCHANGED <<ring, trigger, waiting, notify, stamp, wild>>

\* The writer looks again only if it has found no space, or has not looked; the
\* reader returns without data if there are not enough bytes.
LookForSpace ==
    /\ At(Writer, "look")
    /\ call' = [call EXCEPT ![Writer].place = "copy",
                            ![Writer].amount = IF @ = 0 THEN Amount(Writer) ELSE @]
    /\ UNCHANGED <<ring, trigger, waiting, notify, stamp, wild>>

LookForBytes ==
    /\ At(Reader, "look")
    /\ IF Short(Reader, Amount(Reader))
       THEN Return(Reader)
       ELSE call' = [call EXCEPT ![Reader].place = "copy", ![Reader].amount = Amount(Reader)]
    /\ UNCHANGED <<ring, trigger, waiting, notify, stamp, wild>>

-----------------------------------------------------------------------------

\* prvWriteMessageToBuffer: the bytes it puts in the ring for a send of some data
\* for which it saw so much space.
Chunk(data, space) ==
    IF Kind = "message"
    THEN IF space >= Len(data) + sbBYTES_TO_STORE_MESSAGE_LENGTH
         THEN LengthAsBytes(Len(data)) \o data ELSE <<>>
    ELSE SubSeq(data, 1, IF Len(data) < space THEN Len(data) ELSE space)

\* The bytes of the writer's data that are in a chunk.
Payload(chunk) ==
    IF Kind # "message" \/ chunk = <<>> THEN Len(chunk)
    ELSE Len(chunk) - sbBYTES_TO_STORE_MESSAGE_LENGTH

\* Mutant of WriteMessage: the space is taken for granted.
WriteAnyway ==
    /\ At(Writer, "copy")
    /\ LET chunk == Chunk(call[Writer].data, xLength - 1)
       IN  /\ storage' = Written(chunk, head)
           /\ call' = [call EXCEPT ![Writer] =
                  [Idle EXCEPT !.place = "low", !.next = Advance(head, Len(chunk)),
                               !.data = SubSeq(call[Writer].data, 1, Payload(chunk))]]
    /\ UNCHANGED <<head, tail, trigger, waiting, notify, stamp, wild>>

\* The bytes are copied; nothing is, and the call is over, if there is no room.
WriteMessage ==
    /\ At(Writer, "copy")
    /\ LET chunk == Chunk(call[Writer].data, call[Writer].amount)
       IN  IF chunk = <<>>
           THEN Return(Writer) /\ storage' = storage
           ELSE /\ storage' = Written(chunk, head)
                /\ call' = [call EXCEPT ![Writer] =
                       [Idle EXCEPT !.place = "low", !.next = Advance(head, Len(chunk)),
                                    !.data = SubSeq(call[Writer].data, 1, Payload(chunk))]]
    /\ UNCHANGED <<head, tail, trigger, waiting, notify, stamp, wild>>

\* prvReadMessageFromBuffer: the bytes of storage it takes, the length of a
\* message included, of so many available, with room for so many bytes.
Taken(room, available) ==
    IF Kind = "message"
    THEN LET n == LengthAt(tail)
             rest == available - sbBYTES_TO_STORE_MESSAGE_LENGTH
         IN  IF n > room THEN 0
             ELSE sbBYTES_TO_STORE_MESSAGE_LENGTH + IF n < rest THEN n ELSE rest
    ELSE IF room < available THEN room ELSE available

\* What the reader gets of them.
Given(taken) ==
    IF Kind = "message"
    THEN BytesFrom(Advance(tail, sbBYTES_TO_STORE_MESSAGE_LENGTH),
                   taken - sbBYTES_TO_STORE_MESSAGE_LENGTH)
    ELSE BytesFrom(tail, taken)

ReadMessage ==
    /\ At(Reader, "copy")
    /\ LET taken == Taken(call[Reader].count, call[Reader].amount)
       IN  IF taken = 0
           THEN Return(Reader)
           ELSE call' = [call EXCEPT ![Reader] =
                    [Idle EXCEPT !.place = "low", !.data = Given(taken),
                                 !.next = Advance(tail, taken)]]
    /\ UNCHANGED <<ring, trigger, waiting, notify, stamp, wild>>

\* The new index is stored, one half and then the other.
StoreHeadLow ==
    /\ At(Writer, "low")
    /\ head' = LowHalf(head, call[Writer].next)
    /\ stamp' = (stamp + Len(call[Writer].data)) % Base
    /\ Go(Writer, "high")
    /\ UNCHANGED <<tail, storage, trigger, waiting, notify, wild>>

StoreHeadHigh ==
    /\ At(Writer, "high")
    /\ head' = call[Writer].next
    /\ Go(Writer, "trigger")
    /\ UNCHANGED <<tail, storage, trigger, waiting, notify, stamp, wild>>

StoreTailLow ==
    /\ At(Reader, "low")
    /\ tail' = LowHalf(tail, call[Reader].next)
    /\ Go(Reader, "high")
    /\ UNCHANGED <<head, storage, trigger, waiting, notify, stamp, wild>>

StoreTailHigh ==
    /\ At(Reader, "high")
    /\ tail' = call[Reader].next
    /\ Go(Reader, "completed")
    /\ UNCHANGED <<head, storage, trigger, waiting, notify, stamp, wild>>

\* A reader that waits is notified if the trigger level is reached.
Trigger ==
    /\ At(Writer, "trigger")
    /\ IF prvBytesInBuffer >= trigger THEN Go(Writer, "completed") ELSE Return(Writer)
    /\ UNCHANGED <<ring, trigger, waiting, notify, stamp, wild>>

Completed(s) ==
    /\ At(s, "completed")
    /\ Notified(Other(s), [call EXCEPT ![s] = Idle])
    /\ UNCHANGED <<ring, trigger, stamp>>

-----------------------------------------------------------------------------

\* Mutant of xStreamBufferSendFromISR: nobody is notified.
SendFromISRSilently(n) ==
    LET chunk == Chunk(Stamped(n), xStreamBufferSpacesAvailable)
        next == Advance(head, Len(chunk))
    IN  /\ Writer \in Interrupts
        /\ chunk # <<>>
        /\ storage' = Written(chunk, head)
        /\ head' = next
        /\ stamp' = (stamp + Payload(chunk)) % Base
        /\ UNCHANGED <<tail, trigger, waiting, notify, call, wild>>

\* The calls of an interrupt.  It never waits, and a batching buffer gives it
\* what there is.
xStreamBufferSendFromISR(n) ==
    LET chunk == Chunk(Stamped(n), xStreamBufferSpacesAvailable)
        next == Advance(head, Len(chunk))
    IN  /\ Writer \in Interrupts
        /\ chunk # <<>>
        /\ storage' = Written(chunk, head)
        /\ head' = next
        /\ stamp' = (stamp + Payload(chunk)) % Base
        /\ IF BytesBetween(tail, next) >= trigger
           THEN Notified(Reader, call)
           ELSE UNCHANGED <<waiting, notify, call, wild>>
        /\ UNCHANGED <<tail, trigger>>

xStreamBufferReceiveFromISR(n) ==
    LET more == IF Kind = "message" THEN sbBYTES_TO_STORE_MESSAGE_LENGTH ELSE 0
        taken == Taken(n, prvBytesInBuffer)
    IN  /\ Reader \in Interrupts
        /\ prvBytesInBuffer > more
        /\ taken # 0
        /\ tail' = Advance(tail, taken)
        /\ Notified(Writer, [call EXCEPT ![Reader].data = Given(taken)])
        /\ UNCHANGED <<head, storage, trigger, stamp>>

\* xStreamBufferSendCompletedFromISR for the reader, xStreamBufferReceiveCompletedFromISR
\* for the writer: whoever calls them need not have sent or received anything.
CompletedFromISR(s) ==
    /\ s \in Prompted
    /\ waiting[s] # NULL
    /\ Notified(s, call)
    /\ UNCHANGED <<ring, trigger, stamp>>

\* The application resets while the other side is not in a call, or blocked in
\* one; the function refuses the latter.
xStreamBufferReset(s) ==
    /\ s \in Resetters
    /\ At(s, "idle")
    /\ Other(s) \notin Interrupts
    /\ call[Other(s)].place \in {"idle", "blocked"}
    /\ \A r \in Sides : waiting[r] = NULL
    /\ head' = 0
    /\ tail' = 0
    /\ waiting' = [r \in Sides |-> NULL]
    /\ UNCHANGED <<storage, trigger, notify, call, stamp, wild>>

\* The reader sets the level between two calls.
xStreamBufferSetTriggerLevel(level) ==
    /\ At(Reader, "idle")
    /\ level < xLength
    /\ trigger' = level
    /\ UNCHANGED <<ring, waiting, notify, call, stamp, wild>>

-----------------------------------------------------------------------------

\* The steps of a call that has begun.
Proceed(s) ==
    \/ Check(s) \/ Wait(s) \/ Woken(s) \/ Clear(s) \/ Cleared(s) \/ Completed(s)
    \/ s = Writer /\ (Again \/ LookForSpace \/ WriteMessage \/ StoreHeadLow
                       \/ StoreHeadHigh \/ Trigger)
    \/ s = Reader /\ (LookForBytes \/ ReadMessage \/ StoreTailLow \/ StoreTailHigh)

Send == \E n \in 1 .. MaxSend :
            (\E w \in Waits : xStreamBufferSend(n, w)) \/ xStreamBufferSendFromISR(n)

Receive == \E n \in 1 .. MaxRead :
               (\E w \in Waits : xStreamBufferReceive(n, w)) \/ xStreamBufferReceiveFromISR(n)

Next ==
    \/ Send
    \/ Receive
    \/ \E s \in Sides : Proceed(s) \/ TimeOut(s) \/ CompletedFromISR(s) \/ xStreamBufferReset(s)
    \/ \E level \in Triggers : xStreamBufferSetTriggerLevel(level)

Spec == Init /\ [][Next]_vars

\* A call that has begun goes on, and the reader calls again and again, for as many
\* bytes as any send has.
FairSpec ==
    /\ Spec
    /\ \A s \in Sides : WF_vars(Proceed(s))
    /\ \A s \in Sides : WF_vars(TimeOut(s))
    /\ WF_vars(\E w \in Waits : xStreamBufferReceive(MaxRead, w))

-----------------------------------------------------------------------------

\* The bytes in the ring, and the messages they make up.
Contents == BytesFrom(tail, prvBytesInBuffer)

Messages(cells) ==
    LET from[i \in 1 .. Len(cells) + 1] ==
            IF i >= Len(cells) THEN <<>>
            ELSE LET last == i + 1 + cells[i] + Base * cells[i + 1]
                 IN  IF last > Len(cells) THEN <<SubSeq(cells, i + 2, Len(cells))>>
                     ELSE <<SubSeq(cells, i + 2, last)>> \o from[last + 1]
    IN  from[1]

AsItems(data) ==
    IF Kind # "message" THEN data
    ELSE IF data = <<>> THEN <<>>
    ELSE <<data>>

\* What the writer's call has not put in the ring yet.
Sending ==
    IF Writer \in Interrupts THEN Stamped(MaxSend)
    ELSE IF call[Writer].place \in {"high", "trigger", "completed"} THEN <<>>
    ELSE AsItems(call[Writer].data)

\* What the reader's call took out of it last.
Received ==
    IF Reader \in Interrupts \/ At(Reader, "high") THEN call[Reader].data ELSE <<>>

Abstract == INSTANCE StreamSpec WITH
    Item <- IF Kind = "message" THEN Seq(Bytes) ELSE Bytes,
    sending <- Sending,
    items <- IF Kind = "message" THEN Messages(Contents) ELSE Contents,
    received <- AsItems(Received)

\* The reader gets the bytes of a stream buffer, or the messages of a message
\* buffer, as they were sent: none is lost, doubled, reordered, made up or cut,
\* although neither side excludes the other from the ring.
ImplementsStreamSpec == Abstract!Spec

\* A blocked side that could go on is about to be notified: the wake-up is not
\* lost between its look at the ring and its wait, nor between the store of the
\* other side and its look at the handle.
NoLostWakeup ==
    /\ (/\ At(Reader, "blocked")
        /\ prvBytesInBuffer > call[Reader].need
        /\ prvBytesInBuffer >= trigger)
       => call[Writer].place \in {"high", "trigger", "completed"}
    /\ (/\ At(Writer, "blocked")
        /\ xStreamBufferSpacesAvailable >= call[Writer].need)
       => call[Reader].place \in {"high", "completed"}

\* With a trigger level of one byte, or messages, the two sides never wait for each
\* other: a reader that found the buffer empty and a writer that found it full.
NeverBothBlocked == ~ (At(Reader, "blocked") /\ At(Writer, "blocked"))

\* Nobody is notified through a handle of which one half was cleared.
OnlyTasksAreNotified == ~ wild

\* A reader that said it waits as long as it takes comes back with data.
ReceiveWaits ==
    [][(call[Reader].wait = "forever" /\ At(Reader, "look")) => ~ At(Reader, "idle")']_vars

\* What reaches the trigger level is read, now and then at least.
ReadOrTooLittle ==
    prvBytesInBuffer < trigger \/ prvBytesInBuffer <= MoreThan \/ At(Reader, "low")
DataIsReceived == []<>ReadOrTooLittle

\* A writer that waits for space returns.
SenderReturns == []<>At(Writer, "idle")

=============================================================================
