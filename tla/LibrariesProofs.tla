-------------------------- MODULE LibrariesProofs --------------------------
(***************************************************************************)
(* Proofs about two of the libraries beside the kernel.                    *)
(*                                                                         *)
(* The HBIOS driver does what FatFs asks of a disk driver, for any number  *)
(* of drives, sectors, attempts, failed seeks and short transfers, but for *)
(* a RES_OK that stands for no block moved.                                *)
(*                                                                         *)
(* The co-processor of the FT80x executes what was sent through its        *)
(* command FIFO, for a ring of any size and buffers of any length: about   *)
(* programs that send CMD_LOGO or call GPU_HAL_WrCmdBuf, not both: that    *)
(* function leaves old words in the ring, and an old CMD_LOGO would be     *)
(* executed again.                                                         *)
(***************************************************************************)
EXTENDS DiskioHbios, CmdFifo, TLAPS

-----------------------------------------------------------------------------
(* DiskioHbios.                                                            *)


\* A call that DiskSpec knows, at a place of its loop.
CallOK ==
    /\ call \in [op: {"read", "write"}, d: Drives, start: LBA, n: Nat \ {0},
                 pc: {"seek", "move", "end"}, attempt: Nat, resp: Nat]
    /\ reported \in Nat
    /\ call.start + call.n - 1 \in LBA
    /\ DOMAIN mem = 1 .. call.n

DiskOK == DOMAIN disk = Drives /\ \A d \in Drives : DOMAIN disk[d] = LBA

\* The invariant the refinement rests on: the firmware moves blocks from where
\* the call begins; an attempt that ends with RES_OK has moved them all, or the
\* firmware has reported none; and while a seek may still fail, RES_OK is there
\* only because nothing was reported yet.
Inv ==
    /\ DiskOK
    /\ DOMAIN at = Drives
    /\ call # Idle => CallOK
    /\ call # Idle /\ call.pc = "move" => at[call.d] = call.start
    /\ call # Idle => result = "none"
    /\ call # Idle /\ call.pc = "seek" /\ call.resp = RES_OK => reported = 0
    /\ call # Idle /\ call.pc = "end" /\ call.resp = RES_OK /\ reported # 0 =>
           \A i \in 1 .. call.n : mem[i] = disk[call.d][call.start + i - 1]

\* A call in progress is not Idle, and the other way round.
LEMMA NotIdle == Inv => (call.op # "none" <=> call # Idle)
  BY DEF Inv, CallOK, Idle

\* Every step keeps the invariant: an attempt that the firmware cut short ends
\* with the number of blocks moved, which is not RES_OK unless it is none.
LEMMA InvInductive ==
    ASSUME HbiosAssumption, Inv, [Next]_vars
    PROVE  Inv'
<1>0. call.op # "none" <=> call # Idle
  BY NotIdle
<1>1. ASSUME NEW d \in Drives, NEW sector \in LBA, NEW count \in Counts, sector + count - 1 \in LBA,
             disk_read(d, sector, count) \/ disk_write(d, sector, count)
      PROVE  Inv'
  <2>1. count \in Nat \ {0}
    BY DEF HbiosAssumption
  <2>2. DOMAIN mem' = 1 .. count
    BY <1>1 DEF disk_read, disk_write, Start
  <2> QED
    <3>1. PICK op \in {"read", "write"}, attempts \in Nat \ {0} : Start(op, d, sector, count, attempts)
      BY <1>1 DEF disk_read, disk_write, HbiosAssumption
    <3>2. call' = [op |-> op, d |-> d, start |-> sector, n |-> count, pc |-> "seek",
                   attempt |-> attempts, resp |-> 0]
      BY <3>1 DEF Start, RES_OK
    <3>3. call' # Idle /\ CallOK' /\ result' = "none" /\ reported' = 0
      BY <1>1, <2>1, <2>2, <3>1, <3>2 DEF CallOK, Idle, Start
    <3> QED
      BY <3>1, <3>2, <3>3 DEF Start, Inv, DiskOK
<1>2. CASE Seek
  <2>1. call # Idle /\ CallOK /\ call.pc = "seek"
    BY <1>0, <1>2 DEF Seek, Inv
  <2>2. UNCHANGED <<disk, mem, result, reported>>
    BY <1>2 DEF Seek
  <2>3. CASE call' = [call EXCEPT !.pc = "move"] /\ at' = [at EXCEPT ![call.d] = call.start]
    <3>1. call' # Idle /\ CallOK'
      BY <2>1, <2>2, <2>3 DEF CallOK, Idle
    <3> QED
      BY <2>1, <2>2, <2>3, <3>1 DEF Inv, DiskOK, CallOK
  <2>4. CASE call' = [call EXCEPT !.pc = "end"] /\ UNCHANGED at
    <3>1. call' # Idle /\ CallOK'
      BY <2>1, <2>2, <2>4 DEF CallOK, Idle
    <3> QED
      BY <2>1, <2>2, <2>4, <3>1 DEF Inv, DiskOK, CallOK
  <2> QED
    BY <1>2, <2>3, <2>4 DEF Seek
<1>3. CASE Move
  <2>1. call # Idle /\ CallOK /\ call.pc = "move" /\ at[call.d] = call.start
    BY <1>0, <1>3 DEF Move, Inv
  <2>2. PICK blocks \in 0 .. call.n :
             /\ at' = [at EXCEPT ![call.d] = call.start + blocks]
             /\ IF call.op = "read"
                THEN /\ mem' = [i \in 1 .. call.n |->
                                   IF i <= blocks /\ call.start + i - 1 \in LBA
                                   THEN disk[call.d][call.start + i - 1] ELSE mem[i]]
                     /\ UNCHANGED disk
                ELSE /\ disk' = [disk EXCEPT ![call.d] =
                                    [s \in LBA |-> IF s \in call.start .. call.start + blocks - 1
                                                   THEN mem[s - call.start + 1] ELSE @[s]]]
                     /\ UNCHANGED mem
             /\ call' = [call EXCEPT !.pc = "end", !.resp = Answered(blocks)]
             /\ reported' = blocks
             /\ UNCHANGED result
    BY <1>3, <2>1 DEF Move
  <2>3. /\ call' # Idle /\ CallOK' /\ call'.pc = "end" /\ call'.resp = Answered(blocks)
        /\ call'.op = call.op /\ call'.d = call.d /\ call'.start = call.start /\ call'.n = call.n
    <3>1. Answered(blocks) \in Nat
      BY <2>1 DEF Answered, RES_OK, CallOK
    <3>2. DOMAIN mem' = 1 .. call.n /\ reported' \in Nat
      BY <2>1, <2>2 DEF CallOK
    <3> HIDE DEF Answered
    <3> QED
      BY <2>1, <2>2, <3>1, <3>2 DEF CallOK, Idle
  <2>4. DiskOK' /\ DOMAIN at' = Drives
    BY <2>1, <2>2 DEF Inv, CallOK, DiskOK
  <2>5. ASSUME Answered(blocks) = RES_OK, reported' # 0, NEW i \in 1 .. call.n
        PROVE  mem'[i] = disk'[call.d][call.start + i - 1]
    <3>1. blocks = call.n
      BY <2>1, <2>2, <2>5 DEF Answered, RES_OK, CallOK
    <3>2. call.start + i - 1 \in LBA /\ call.start + i - 1 \in call.start .. call.start + blocks - 1
      BY <2>1, <3>1 DEF CallOK, LBA, HbiosAssumption
    <3>3. (call.start + i - 1) - call.start + 1 = i
      BY <2>1 DEF CallOK, LBA, HbiosAssumption
    <3> QED
      BY <2>1, <2>2, <3>1, <3>2, <3>3 DEF Inv, DiskOK, CallOK
  <2>6. result' = "none"
    BY <2>1, <2>2 DEF Inv
  <2> QED
    BY <2>1, <2>3, <2>4, <2>5, <2>6 DEF Inv, CallOK
<1>4. CASE Attempt
  <2>1. call # Idle /\ CallOK
    BY <1>0, <1>4 DEF Attempt, Inv
  <2>2. CASE call.attempt > 1 /\ call.resp # RES_OK
    <3>1. call' # Idle /\ CallOK' /\ call'.pc = "seek"
      <4>1. call' = [call EXCEPT !.attempt = @ - 1, !.pc = "seek"] /\ UNCHANGED <<mem, reported, result>>
        BY <1>4, <2>2 DEF Attempt
      <4>2. call.attempt - 1 \in Nat
        BY <2>1, <2>2 DEF CallOK
      <4> QED
        BY <2>1, <4>1, <4>2 DEF CallOK, Idle
    <3>2. call'.resp # RES_OK /\ result' = "none"
      BY <1>4, <2>1, <2>2 DEF Attempt, Inv, CallOK
    <3> QED
      BY <1>4, <2>1, <3>1, <3>2 DEF Attempt, Inv, DiskOK
  <2>3. CASE ~ (call.attempt > 1 /\ call.resp # RES_OK)
    BY <1>4, <2>1, <2>3 DEF Attempt, Inv, DiskOK
  <2> QED
    BY <2>2, <2>3
<1>5. CASE UNCHANGED vars
  BY <1>5 DEF vars, Inv, DiskOK, CallOK
<1> QED
  BY <1>1, <1>2, <1>3, <1>4, <1>5 DEF Next

\* A step of the driver is a step of DiskSpec, or is not seen there.
LEMMA StepRefines ==
    ASSUME HbiosAssumption, Inv, [Next]_vars
    PROVE  [Disk!Next]_(Disk!vars)
<1> DEFINE answer == IF Hollow THEN "ERROR" ELSE result
<1> DEFINE seen(c) == IF c = Idle THEN Idle ELSE [op |-> c.op, d |-> c.d, start |-> c.start, n |-> c.n]
<1>0. call.op # "none" <=> call # Idle
  BY NotIdle
<1>1. ASSUME NEW d \in Drives, NEW sector \in LBA, NEW count \in Counts, sector + count - 1 \in LBA,
             disk_read(d, sector, count) \/ disk_write(d, sector, count)
      PROVE  Disk!Begin
  <2>1. count \in Nat \ {0}
    BY DEF HbiosAssumption
  <2>2. DOMAIN mem' = 1 .. count /\ call = Idle /\ answer' = "none" /\ UNCHANGED disk
    BY <1>1 DEF disk_read, disk_write, Start, Hollow
  <2>3. PICK op \in {"read", "write"} :
            call' # Idle /\ seen(call') = [op |-> op, d |-> d, start |-> sector, n |-> count]
    BY <1>1 DEF disk_read, disk_write, Start, Idle
  <2>4. seen(call') \in Disk!Calls
    BY <2>1, <2>3 DEF Disk!Calls
  <2> QED
    BY <2>2, <2>3, <2>4 DEF Disk!Begin, Disk!None, Idle
<1>2. CASE Seek
  <2>1. seen(call') = seen(call)
    BY <1>0, <1>2 DEF Seek, Faulty, Inv, CallOK, Idle
  <2>2. answer' = answer
    BY <1>2 DEF Seek, Hollow
  <2> QED
    BY <1>2, <2>1, <2>2 DEF Seek, Disk!vars
<1>3. CASE Move
  <2>1. call # Idle /\ CallOK /\ call.pc = "move" /\ at[call.d] = call.start
    BY <1>0, <1>3 DEF Move, Inv
  <2>2. PICK blocks \in 0 .. call.n :
             /\ IF call.op = "read"
                THEN /\ mem' = [i \in 1 .. call.n |->
                                   IF i <= blocks /\ call.start + i - 1 \in LBA
                                   THEN disk[call.d][call.start + i - 1] ELSE mem[i]]
                     /\ UNCHANGED disk
                ELSE /\ disk' = [disk EXCEPT ![call.d] =
                                    [s \in LBA |-> IF s \in call.start .. call.start + blocks - 1
                                                   THEN mem[s - call.start + 1] ELSE @[s]]]
                     /\ UNCHANGED mem
             /\ call' = [call EXCEPT !.pc = "end", !.resp = Answered(blocks)]
             /\ UNCHANGED result
    BY <1>3, <2>1 DEF Move
  <2>0. answer = "none" /\ answer' = "none"
    BY <2>1, <2>2 DEF Inv, Hollow
  <2>3. seen(call') = seen(call) /\ seen(call) = [op |-> call.op, d |-> call.d, start |-> call.start, n |-> call.n]
    BY <2>1, <2>2 DEF CallOK, Idle
  <2>4. CASE call.op = "read"
    BY <2>0, <2>1, <2>2, <2>3, <2>4 DEF Disk!Next, Disk!ReadSome, CallOK
  <2>5. CASE call.op = "write"
    <3>1. ASSUME NEW s \in LBA, s \in call.start .. call.start + blocks - 1
          PROVE  \E i \in 1 .. call.n : call.start + i - 1 = s /\ disk'[call.d][s] = mem[i]
      <4>1. s - call.start + 1 \in 1 .. call.n /\ call.start + (s - call.start + 1) - 1 = s
        BY <2>1, <3>1 DEF CallOK, LBA, HbiosAssumption
      <4>2. disk'[call.d][s] = mem[s - call.start + 1]
        BY <2>1, <2>2, <2>5, <3>1 DEF Inv, DiskOK, CallOK
      <4> QED
        BY <4>1, <4>2
    <3>2. ASSUME NEW s \in LBA, s \notin call.start .. call.start + blocks - 1
          PROVE  disk'[call.d][s] = disk[call.d][s]
      BY <2>1, <2>2, <2>5, <3>2 DEF Inv, DiskOK, CallOK
    <3>3. disk' = [disk EXCEPT ![call.d] =
                      [s \in LBA |-> IF \E i \in 1 .. call.n : call.start + i - 1 = s /\ disk'[call.d][s] = mem[i]
                                     THEN disk'[call.d][s] ELSE @[s]]]
      <4>1. [s \in LBA |-> IF s \in call.start .. call.start + blocks - 1
                           THEN mem[s - call.start + 1] ELSE disk[call.d][s]]
            = disk'[call.d]
        BY <2>1, <2>2, <2>5 DEF Inv, DiskOK, CallOK
      <4>2. ASSUME NEW s \in LBA
            PROVE  disk'[call.d][s] =
                   IF \E i \in 1 .. call.n : call.start + i - 1 = s /\ disk'[call.d][s] = mem[i]
                   THEN disk'[call.d][s] ELSE disk[call.d][s]
        BY <3>1, <3>2
      <4>3. disk'[call.d] = [s \in LBA |-> disk'[call.d][s]]
        BY <4>1
      <4>4. disk'[call.d] =
              [s \in LBA |-> IF \E i \in 1 .. call.n : call.start + i - 1 = s /\ disk'[call.d][s] = mem[i]
                             THEN disk'[call.d][s] ELSE disk[call.d][s]]
        BY <4>2, <4>3, Zenon
      <4>5. disk' = [disk EXCEPT ![call.d] = disk'[call.d]]
        BY <2>1, <2>2, <2>5 DEF Inv, DiskOK, CallOK
      <4> QED
        BY <4>4, <4>5, Zenon
    <3> QED
      BY <2>0, <2>2, <2>3, <2>5, <3>3 DEF Disk!Next, Disk!WriteSome, Disk!Asked
  <2> QED
    BY <2>1, <2>4, <2>5 DEF CallOK
<1>4. CASE Attempt
  <2>1. call # Idle /\ CallOK /\ call.pc = "end" /\ UNCHANGED <<disk, mem>>
    BY <1>0, <1>4 DEF Attempt, Inv
  <2>2. CASE call.attempt > 1 /\ call.resp # RES_OK
    <3>1. seen(call') = seen(call) /\ answer' = answer
      BY <1>4, <2>1, <2>2 DEF Attempt, CallOK, Idle, Hollow
    <3> QED
      BY <2>1, <3>1 DEF Disk!vars
  <2>3. CASE ~ (call.attempt > 1 /\ call.resp # RES_OK)
    <3>1. call' = Idle /\ answer' = IF call.resp = RES_OK /\ reported # 0 THEN "OK" ELSE "ERROR"
      BY <1>4, <2>3 DEF Attempt, Hollow
    <3>2. seen(call) = [op |-> call.op, d |-> call.d, start |-> call.start, n |-> call.n] /\ seen(call) # Idle
      BY <2>1 DEF CallOK, Idle
    <3>3. answer' = "OK" => Disk!Moved
      BY <2>1, <3>1, <3>2 DEF Inv, Disk!Moved, Disk!Asked
    <3> QED
      BY <2>1, <3>1, <3>2, <3>3 DEF Disk!Next, Disk!End, Disk!None, Idle
  <2> QED
    BY <2>2, <2>3
<1>5. CASE UNCHANGED vars
  BY <1>5 DEF vars, Disk!vars, Hollow
<1> QED
  BY <1>1, <1>2, <1>3, <1>4, <1>5 DEF Next, Disk!Next

-----------------------------------------------------------------------------

\* disk_read and disk_write touch no sector but those asked for, whichever seeks
\* fail and however few blocks the firmware moves; and RES_OK means that every one
\* of them was moved, unless the firmware's last report in the call was of no block,
\* or there was none (diskio_hbios.c).
THEOREM HbiosImplementsDisk ==
    ASSUME HbiosAssumption
    PROVE  Spec => ImplementsDiskSpec
<1>1. Init => Inv /\ Disk!Init
  BY DEF Init, Inv, DiskOK, Idle, Disk!Init, Disk!None, Hollow
<1>2. Inv /\ [Next]_vars => Inv'
  BY InvInductive
<1>3. Inv /\ [Next]_vars => [Disk!Next]_(Disk!vars)
  BY StepRefines
<1> QED
  BY <1>1, <1>2, <1>3, PTL DEF Spec, ImplementsDiskSpec, Disk!Spec

-----------------------------------------------------------------------------
(* CmdFifo.                                                                *)


Indexes == 0 .. Words - 1

\* The words between a read and a write pointer.
Between(r, w) == (w - r) % Words

\* Two sequences one behind the other.
LEMMA Joined ==
    ASSUME NEW S, NEW a \in Seq(S), NEW b \in Seq(S)
    PROVE  /\ a \o b \in Seq(S) /\ Len(a \o b) = Len(a) + Len(b)
           /\ \A i \in 1 .. Len(a) : (a \o b)[i] = a[i]
           /\ \A j \in 1 .. Len(b) : (a \o b)[Len(a) + j] = b[j]
  OBVIOUS

-----------------------------------------------------------------------------
(* Arithmetic of the ring.                                                 *)

\* A remainder of a difference or a sum of two places, without a division.
LEMMA RingArithmetic ==
    ASSUME CmdFifoAssumption, NEW a \in Indexes, NEW b \in Indexes
    PROVE  /\ (a - b) % Words = IF a >= b THEN a - b ELSE a - b + Words
           /\ (a + b) % Words = IF a + b < Words THEN a + b ELSE a + b - Words
  BY DEF CmdFifoAssumption, Indexes

\* The next place, one place up.
LEMMA NextPlace ==
    ASSUME CmdFifoAssumption, NEW a \in Indexes
    PROVE  (a + 1) % Words = IF a + 1 = Words THEN 0 ELSE a + 1
  BY RingArithmetic DEF CmdFifoAssumption, Indexes

\* The words between two places, without a division.
LEMMA BetweenIs ==
    ASSUME CmdFifoAssumption, NEW r \in Indexes, NEW w \in Indexes
    PROVE  Between(r, w) = IF w >= r THEN w - r ELSE w - r + Words
  BY RingArithmetic DEF Between

\* The words waiting fit between the pointers; there are none exactly when the
\* pointers are equal.
LEMMA BetweenBounds ==
    ASSUME CmdFifoAssumption, NEW r \in Indexes, NEW w \in Indexes
    PROVE  /\ Between(r, w) \in Indexes
           /\ Between(r, w) = 0 <=> r = w
  BY BetweenIs DEF CmdFifoAssumption, Indexes

\* Words published are waiting, as long as one place stays free.
LEMMA Published ==
    ASSUME CmdFifoAssumption, NEW r \in Indexes, NEW w \in Indexes,
           NEW n \in Nat, Between(r, w) + n < Words
    PROVE  /\ (w + n) % Words \in Indexes
           /\ Between(r, (w + n) % Words) = Between(r, w) + n
<1>0. Between(r, w) \in Indexes
  BY BetweenBounds
<1>1. n \in Indexes
  BY <1>0 DEF CmdFifoAssumption, Indexes
<1> DEFINE to == (w + n) % Words
<1>2. to = IF w + n < Words THEN w + n ELSE w + n - Words
  BY <1>1, RingArithmetic
<1> HIDE DEF to
<1>3. to \in Indexes
  BY <1>1, <1>2 DEF CmdFifoAssumption, Indexes
<1>4. Between(r, to) = IF to >= r THEN to - r ELSE to - r + Words
  BY <1>3, BetweenIs
<1>5. Between(r, to) = Between(r, w) + n
  BY <1>0, <1>2, <1>4, BetweenIs DEF CmdFifoAssumption, Indexes
<1> QED
  BY <1>3, <1>5 DEF to

\* A word executed waits no more.
LEMMA Executed ==
    ASSUME CmdFifoAssumption, NEW r \in Indexes, NEW w \in Indexes, r # w
    PROVE  /\ (r + 1) % Words \in Indexes
           /\ Between((r + 1) % Words, w) = Between(r, w) - 1
<1> DEFINE next_r == (r + 1) % Words
<1>1. next_r = IF r + 1 = Words THEN 0 ELSE r + 1
  BY NextPlace
<1> HIDE DEF next_r
<1>2. next_r \in Indexes
  BY <1>1 DEF CmdFifoAssumption, Indexes
<1>3. Between(next_r, w) = Between(r, w) - 1
  BY <1>1, <1>2, BetweenIs DEF CmdFifoAssumption, Indexes
<1> QED
  BY <1>2, <1>3 DEF next_r

\* The i-th place from a read pointer, and where the waiting words lie: the next
\* word sent goes behind the last of them and over none.
LEMMA Places ==
    ASSUME CmdFifoAssumption, NEW r \in Indexes, NEW w \in Indexes
    PROVE  /\ (r + (Between(r, w) + 1) - 1) % Words = w
           /\ \A i \in 1 .. Between(r, w) :
                  /\ (r + i - 1) % Words \in Indexes
                  /\ (r + i - 1) % Words # w
           /\ r # w => \A i \in 1 .. Between(r, w) - 1 :
                  (((r + 1) % Words) + i - 1) % Words = (r + (i + 1) - 1) % Words
           /\ (r + 1 - 1) % Words = r
<1> DEFINE place(i) == (r + i - 1) % Words
<1>0. Between(r, w) \in Indexes /\ Words \in Nat
  BY BetweenBounds DEF CmdFifoAssumption
<1>1. \A i \in 1 .. Words : place(i) = IF r + (i - 1) < Words THEN r + (i - 1) ELSE r + (i - 1) - Words
  <2> SUFFICES ASSUME NEW i \in 1 .. Words
               PROVE  (r + i - 1) % Words = IF r + (i - 1) < Words THEN r + (i - 1) ELSE r + (i - 1) - Words
    OBVIOUS
  <2>1. i - 1 \in Indexes /\ r + i - 1 = r + (i - 1)
    BY <1>0 DEF Indexes
  <2> QED
    BY <2>1, RingArithmetic
<1> HIDE DEF place
<1> DEFINE waiting == Between(r, w)
<1>6. waiting = (IF w >= r THEN w - r ELSE w - r + Words) /\ waiting \in Indexes
  BY <1>0, BetweenIs
<1> HIDE DEF waiting
<1>2. place(waiting + 1) = w
  <2>1. waiting + 1 \in 1 .. Words
    BY <1>0, <1>6 DEF Indexes
  <2>2. place(waiting + 1) = IF r + waiting < Words THEN r + waiting ELSE r + waiting - Words
    BY <1>0, <1>1, <1>6, <2>1 DEF Indexes
  <2> QED
    BY <1>0, <1>6, <2>2 DEF Indexes
<1>3. ASSUME NEW i \in 1 .. waiting
      PROVE  place(i) \in Indexes /\ place(i) # w
  <2>1. i \in 1 .. Words
    BY <1>0, <1>6 DEF Indexes
  <2>2. place(i) = IF r + (i - 1) < Words THEN r + (i - 1) ELSE r + (i - 1) - Words
    BY <1>1, <2>1
  <2> QED
    BY <1>0, <1>6, <2>2 DEF Indexes
<1>4. ASSUME r # w, NEW i \in 1 .. waiting - 1
      PROVE  (((r + 1) % Words) + i - 1) % Words = place(i + 1)
  <2> DEFINE next_r == (r + 1) % Words
  <2>1. next_r = IF r + 1 = Words THEN 0 ELSE r + 1
    BY NextPlace
  <2> HIDE DEF next_r
  <2>2. next_r \in Indexes /\ i - 1 \in Indexes /\ next_r + i - 1 = next_r + (i - 1)
    BY <1>0, <1>6, <2>1 DEF Indexes
  <2> DEFINE there == (next_r + i - 1) % Words
  <2>3. there = IF next_r + (i - 1) < Words THEN next_r + (i - 1) ELSE next_r + (i - 1) - Words
    BY <2>2, RingArithmetic
  <2> HIDE DEF there
  <2>4. there = place(i + 1)
    BY <1>0, <1>1, <1>6, <2>1, <2>3 DEF Indexes
  <2> QED
    BY <2>4 DEF there, next_r
<1>5. place(1) = r
  BY <1>0, <1>1 DEF Indexes
<1> QED
  BY <1>2, <1>3, <1>4, <1>5 DEF place, waiting

-----------------------------------------------------------------------------
(* The invariant.                                                           *)

\* What follows a wait: the call is over, or GPU_HAL_WrCmdBuf goes on.
Afterwards == {NoOrder} \cup [pc: {"space"}, left: Nat \ {0}]

Orders ==
    {NoOrder} \cup [pc: {"check", "write", "publish"}, word: Values \cup {Logo}]
    \cup [pc: {"space"}, left: Nat \ {0}]
    \cup [pc: {"portion"}, left: Nat \ {0}, now: Nat]
    \cup [pc: {"read", "adopt"}, then: Afterwards]
    \cup [pc: {"compare"}, read: Indexes, then: Afterwards]
    \cup [pc: {"logo"}] \cup [pc: {"logo2"}, read: Indexes]

\* The locals of a call: a word was given space before it is written, and a
\* portion when it was taken; only programs that send CMD_LOGO have it in a call,
\* only those that call GPU_HAL_WrCmdBuf are in it.
OrderOK ==
    /\ order \in Orders
    /\ order.pc \in {"write", "publish"} => Waiting + 1 < Words
    /\ order.pc = "publish" => ring[wp] = order.word
    /\ order.pc = "portion" => order.now <= order.left /\ Waiting + order.now < Words
    /\ order.pc \in {"check", "write", "publish"} /\ order.word = Logo => Logos
    /\ order.pc \in {"space", "portion"} => Buffers # {}
    /\ order.pc \in {"read", "compare", "adopt"} /\ order.then # NoOrder => Buffers # {}
    /\ order.pc \in {"logo", "logo2"} => Logos

\* CMD_LOGO is the last word sent, and the program waits for it; what it has read
\* of the registers while the word was not executed does not end its wait.
LogoLast ==
    \A i \in 1 .. Len(sent) :
        sent[i] = Logo => /\ i = Len(sent)
                          /\ order.pc \in {"logo", "logo2"}
                          /\ order.pc = "logo2" => order.read # REG_CMD_WRITE

NoLogo == ~Logos => \A p \in Indexes : ring[p] # Logo

\* The inductive invariant: FifoIsExact needs that words are published only into
\* space that was seen (OrderOK), and that the registers are put to 0 only when
\* nothing else is waiting and the program expects it (LogoLast, NoLogo).
FifoInv == FifoIsExact /\ OrderOK /\ LogoLast /\ NoLogo

\* What is given to a program: words, and the logo or buffers.
Programs == CmdFifoAssumption /\ (Buffers = {} \/ ~Logos)

\* The types of the pointers, and how many words wait.
LEMMA Pointers ==
    ASSUME Programs, FifoInv
    PROVE  /\ wp \in Indexes /\ REG_CMD_READ \in Indexes /\ REG_CMD_WRITE \in Indexes
           /\ Words \in Nat /\ Words > 1
           /\ Waiting = Between(REG_CMD_READ, REG_CMD_WRITE) /\ Waiting \in Indexes
           /\ Len(sent) = Waiting /\ Len(sent) \in Nat /\ sent \in Seq(Values \cup {Logo})
<1>1. wp \in Indexes /\ REG_CMD_READ \in Indexes /\ REG_CMD_WRITE \in Indexes
  BY DEF FifoInv, FifoIsExact, FifoTypeOK, Indexes
<1>2. Waiting = Between(REG_CMD_READ, REG_CMD_WRITE)
  BY DEF Waiting, Between
<1>3. Waiting \in Indexes
  BY <1>1, <1>2, BetweenBounds DEF Programs
<1> QED
  BY <1>1, <1>2, <1>3 DEF FifoInv, FifoIsExact, FifoTypeOK, NothingIsOvertaken, Programs, CmdFifoAssumption

\* Places, for the words that wait between the two registers.
LEMMA WaitingPlaces ==
    ASSUME Programs, FifoInv
    PROVE  /\ (REG_CMD_READ + (Len(sent) + 1) - 1) % Words = REG_CMD_WRITE
           /\ \A i \in 1 .. Len(sent) :
                  /\ (REG_CMD_READ + i - 1) % Words \in Indexes
                  /\ (REG_CMD_READ + i - 1) % Words # REG_CMD_WRITE
           /\ REG_CMD_READ # REG_CMD_WRITE => \A i \in 1 .. Len(sent) - 1 :
                  (((REG_CMD_READ + 1) % Words) + i - 1) % Words
                      = (REG_CMD_READ + (i + 1) - 1) % Words
           /\ (REG_CMD_READ + 1 - 1) % Words = REG_CMD_READ
<1>1. /\ REG_CMD_READ \in Indexes /\ REG_CMD_WRITE \in Indexes
      /\ Len(sent) = Between(REG_CMD_READ, REG_CMD_WRITE)
  BY Pointers
<1>2. CmdFifoAssumption
  BY DEF Programs
<1> DEFINE between == Between(REG_CMD_READ, REG_CMD_WRITE)
<1>3. /\ (REG_CMD_READ + (between + 1) - 1) % Words = REG_CMD_WRITE
      /\ \A i \in 1 .. between :
             /\ (REG_CMD_READ + i - 1) % Words \in Indexes
             /\ (REG_CMD_READ + i - 1) % Words # REG_CMD_WRITE
      /\ REG_CMD_READ # REG_CMD_WRITE => \A i \in 1 .. between - 1 :
             (((REG_CMD_READ + 1) % Words) + i - 1) % Words
                 = (REG_CMD_READ + (i + 1) - 1) % Words
      /\ (REG_CMD_READ + 1 - 1) % Words = REG_CMD_READ
  BY <1>1, <1>2, Places, Zenon
<1> QED
  BY <1>1, <1>3, Zenon

\* The space that a call sees is the space there is, but for the logo's animation.
LEMMA Freespace ==
    ASSUME Programs, FifoInv, order.pc \notin {"logo", "logo2"}
    PROVE  GPU_Cmdfifo_Freespace(REG_CMD_READ) = Words - 1 - Waiting
  BY Pointers DEF FifoInv, FifoIsExact, PointersAgree, GPU_Cmdfifo_Freespace, Waiting

\* The call in progress by its place.
LEMMA OrderCases ==
    ASSUME order \in Orders
    PROVE  /\ order.pc = "idle" <=> order = NoOrder
           /\ order.pc \in {"check", "write", "publish"} =>
                 order \in [pc: {"check", "write", "publish"}, word: Values \cup {Logo}]
           /\ order.pc = "space" => order \in [pc: {"space"}, left: Nat \ {0}]
           /\ order.pc = "portion" => order \in [pc: {"portion"}, left: Nat \ {0}, now: Nat]
           /\ order.pc \in {"read", "adopt"} => order \in [pc: {"read", "adopt"}, then: Afterwards]
           /\ order.pc = "compare" => order \in [pc: {"compare"}, read: Indexes, then: Afterwards]
           /\ order.pc = "logo" => order \in [pc: {"logo"}]
           /\ order.pc = "logo2" => order \in [pc: {"logo2"}, read: Indexes]
  BY DEF Orders, NoOrder

-----------------------------------------------------------------------------
(* The steps.                                                               *)

\* A step that changes nothing but the call keeps the invariant, if the call is
\* as it should be.
LEMMA OnlyTheOrder ==
    ASSUME Programs, FifoInv, UNCHANGED <<wp, REG_CMD_READ, REG_CMD_WRITE, ring, sent>>,
           next' \in Values, OrderOK',
           order.pc \in {"logo", "logo2"} <=> order'.pc \in {"logo", "logo2"},
           order.pc \in {"logo", "logo2"} => LogoLast'
    PROVE  FifoInv'
<1>1. FifoIsExact'
  BY DEF FifoInv, FifoIsExact, FifoTypeOK, PointersAgree, NothingIsOvertaken, RingHoldsWhatWasSent, Waiting
<1>2. LogoLast'
  BY DEF FifoInv, LogoLast
<1>3. NoLogo'
  BY DEF FifoInv, NoLogo
<1> QED
  BY <1>1, <1>2, <1>3 DEF FifoInv

\* The start of an operation keeps the invariant.
LEMMA BeginKeeps == ASSUME Programs, FifoInv, Begin PROVE FifoInv'
<1>0. UNCHANGED <<wp, REG_CMD_READ, REG_CMD_WRITE, ring, sent>> /\ order.pc = "idle" /\ next \in Values
  BY DEF Begin, chip, NoOrder, FifoInv, FifoIsExact, FifoTypeOK
<1>1. Words \in Nat /\ Words > 1
  BY Pointers
<1>2. (next + 1) % (Words + 1) \in Values
  BY <1>0, <1>1 DEF Values
<1>3. next' \in Values
  BY <1>0, <1>2 DEF Begin
<1>4. OrderOK' /\ order'.pc \notin {"logo", "logo2"}
  <2>1. CASE order' = [pc |-> "check", word |-> next]
    <3>1. next # Logo
      BY <1>0, <1>1 DEF Values, Logo
    <3> QED
      BY <1>0, <2>1, <3>1 DEF OrderOK, Orders
  <2>2. CASE Logos /\ order' = [pc |-> "check", word |-> Logo]
    BY <2>2 DEF OrderOK, Orders
  <2>3. ASSUME NEW n \in Buffers, order' = [pc |-> "space", left |-> n]
        PROVE  OrderOK' /\ order'.pc \notin {"logo", "logo2"}
    <3>1. n \in Nat \ {0}
      BY DEF Programs, CmdFifoAssumption
    <3> QED
      BY <2>3, <3>1 DEF OrderOK, Orders
  <2>4. CASE order' = [pc |-> "read", then |-> NoOrder]
    BY <2>4 DEF OrderOK, Orders, Afterwards
  <2> QED
    BY <2>1, <2>2, <2>3, <2>4 DEF Begin
<1> QED
  BY <1>0, <1>3, <1>4, OnlyTheOrder

\* A look at the room of the FIFO, GPU_HAL_CheckCmdBuffer, keeps the invariant.
LEMMA CheckKeeps == ASSUME Programs, FifoInv, GPU_HAL_CheckCmdBuffer PROVE FifoInv'
<1>0. /\ UNCHANGED <<wp, REG_CMD_READ, REG_CMD_WRITE, ring, sent>>
      /\ next' \in Values /\ order.pc = "check" /\ OrderOK
  BY DEF GPU_HAL_CheckCmdBuffer, chip, FifoInv, FifoIsExact, FifoTypeOK
<1>1. OrderOK' /\ order'.pc \notin {"logo", "logo2"}
  <2>1. order \in [pc: {"check", "write", "publish"}, word: Values \cup {Logo}]
    BY <1>0, OrderCases DEF OrderOK
  <2>2. CASE GPU_Cmdfifo_Freespace(REG_CMD_READ) < 1
    BY <1>0, <2>2 DEF GPU_HAL_CheckCmdBuffer, OrderOK, Waiting
  <2>3. CASE ~ (GPU_Cmdfifo_Freespace(REG_CMD_READ) < 1)
    <3>1. order' = [order EXCEPT !.pc = "write"]
      BY <2>3 DEF GPU_HAL_CheckCmdBuffer
    <3>2. order' \in Orders /\ order'.pc = "write" /\ order'.word = order.word
      BY <2>1, <3>1 DEF Orders
    <3>3. Waiting + 1 < Words
      BY <1>0, <2>3, Freespace, Pointers DEF Indexes
    <3>4. Waiting' = Waiting
      BY <1>0 DEF Waiting
    <3> QED
      BY <1>0, <3>2, <3>3, <3>4 DEF OrderOK
  <2> QED
    BY <2>2, <2>3
<1> QED
  BY <1>0, <1>1, OnlyTheOrder

\* A turn of the loop that waits for an empty FIFO keeps the invariant.
LEMMA WaitForEmptyKeeps == ASSUME Programs, FifoInv, GPU_HAL_WaitCmdfifo_empty PROVE FifoInv'
<1>0. OrderOK /\ REG_CMD_READ \in Indexes /\ next \in Values /\ PointersAgree
  BY Pointers DEF FifoInv, FifoIsExact, FifoTypeOK
<1>1. CASE order.pc = "read" /\ order' = [pc |-> "compare", read |-> REG_CMD_READ, then |-> order.then]
           /\ UNCHANGED <<wp, chip, sent, next>>
  <2>1. order \in [pc: {"read", "adopt"}, then: Afterwards]
    BY <1>0, <1>1, OrderCases DEF OrderOK
  <2>2. OrderOK'
    BY <1>0, <1>1, <2>1 DEF OrderOK, Orders
  <2> QED
    BY <1>0, <1>1, <2>2, OnlyTheOrder DEF chip
<1>2. CASE order.pc = "compare" /\ UNCHANGED <<wp, chip, sent, next>>
           /\ order' = IF order.read = REG_CMD_WRITE THEN [pc |-> "adopt", then |-> order.then]
                                                   ELSE [pc |-> "read", then |-> order.then]
  <2>1. order \in [pc: {"compare"}, read: Indexes, then: Afterwards]
    BY <1>0, <1>2, OrderCases DEF OrderOK
  <2>2. order' \in [pc: {"read", "adopt"}, then: Afterwards] /\ order'.then = order.then
    BY <1>2, <2>1
  <2>3. OrderOK'
    BY <1>0, <1>2, <2>1, <2>2 DEF OrderOK, Orders
  <2> QED
    BY <1>0, <1>2, <2>2, <2>3, OnlyTheOrder DEF chip
<1>3. CASE order.pc = "adopt" /\ wp' = REG_CMD_WRITE /\ order' = order.then /\ UNCHANGED <<chip, sent, next>>
  <2>1. order \in [pc: {"read", "adopt"}, then: Afterwards] /\ wp' = wp
    BY <1>0, <1>3, OrderCases DEF OrderOK, PointersAgree
  <2>2. order' \in Orders /\ order'.pc \in {"idle", "space"}
    BY <1>3, <2>1 DEF Orders, Afterwards, NoOrder
  <2>3. order'.pc = "space" => Buffers # {}
    BY <1>0, <1>3, <2>1 DEF OrderOK, NoOrder
  <2>4. OrderOK'
    BY <2>2, <2>3 DEF OrderOK
  <2> QED
    BY <1>0, <1>3, <2>1, <2>2, <2>4, OnlyTheOrder DEF chip
<1> QED
  BY <1>1, <1>2, <1>3 DEF GPU_HAL_WaitCmdfifo_empty

\* A turn of the loop that waits for the end of the logo keeps the invariant.
LEMMA WaitForLogoKeeps == ASSUME Programs, FifoInv, GPU_HAL_WaitLogo_Finish PROVE FifoInv'
<1>0. /\ OrderOK /\ REG_CMD_READ \in Indexes /\ next \in Values /\ LogoLast
      /\ UNCHANGED <<REG_CMD_READ, REG_CMD_WRITE, ring, sent, next>>
  BY Pointers DEF FifoInv, FifoIsExact, FifoTypeOK, GPU_HAL_WaitLogo_Finish, chip
<1>1. CASE order.pc = "logo" /\ order' = [pc |-> "logo2", read |-> REG_CMD_READ] /\ wp' = wp
  <2>1. OrderOK'
    BY <1>0, <1>1 DEF OrderOK, Orders
  <2>2. ASSUME NEW i \in 1 .. Len(sent), sent[i] = Logo
        PROVE  REG_CMD_READ # REG_CMD_WRITE
    BY Pointers, BetweenBounds DEF Programs
  <2>3. LogoLast'
    BY <1>0, <1>1, <2>2 DEF LogoLast
  <2> QED
    BY <1>0, <1>1, <2>1, <2>3, OnlyTheOrder
<1>2. CASE order.pc = "logo2" /\ order.read = REG_CMD_WRITE /\ order.read = 0 /\ wp' = 0 /\ order' = NoOrder
  <2>1. OrderOK'
    BY <1>2 DEF OrderOK, Orders, NoOrder
  <2>2. \A i \in 1 .. Len(sent) : sent[i] # Logo
    BY <1>0, <1>2 DEF LogoLast
  <2>3. FifoIsExact'
    BY <1>0, <1>2, Pointers
    DEF FifoInv, FifoIsExact, FifoTypeOK, PointersAgree, NothingIsOvertaken, RingHoldsWhatWasSent, Waiting, Indexes
  <2> QED
    BY <1>0, <2>1, <2>2, <2>3 DEF FifoInv, LogoLast, NoLogo
<1>3. CASE order.pc = "logo2" /\ order' = [pc |-> "logo"] /\ wp' = wp
  <2>1. OrderOK'
    BY <1>0, <1>3 DEF OrderOK, Orders
  <2>2. LogoLast'
    BY <1>0, <1>3 DEF LogoLast
  <2> QED
    BY <1>0, <1>3, <2>1, <2>2, OnlyTheOrder
<1> QED
  BY <1>1, <1>2, <1>3 DEF GPU_HAL_WaitLogo_Finish

\* The word goes to a place that no waiting word is in.
LEMMA WriteKeeps ==
    ASSUME Programs, FifoInv, GPU_HAL_WrCmd32, order.pc = "write"
    PROVE  FifoInv'
<1>0. /\ ring' = [ring EXCEPT ![wp] = order.word]
      /\ order' = [order EXCEPT !.pc = "publish"]
      /\ UNCHANGED <<wp, REG_CMD_READ, REG_CMD_WRITE, sent, next>>
  BY DEF GPU_HAL_WrCmd32
<1>1. /\ OrderOK /\ order \in [pc: {"check", "write", "publish"}, word: Values \cup {Logo}]
      /\ wp = REG_CMD_WRITE /\ ring \in [Indexes -> Values \cup {Logo}]
  BY OrderCases DEF FifoInv, OrderOK, FifoIsExact, FifoTypeOK, PointersAgree, Indexes
<1>2. /\ order' \in [pc: {"publish"}, word: Values \cup {Logo}] /\ order'.word = order.word
      /\ ring' \in [Indexes -> Values \cup {Logo}] /\ ring'[wp] = order.word
  BY <1>0, <1>1, Pointers
<1>3. OrderOK'
  BY <1>0, <1>1, <1>2 DEF OrderOK, Orders, Waiting
<1>4. FifoTypeOK' /\ PointersAgree' /\ NothingIsOvertaken'
  BY <1>0, <1>1, <1>2 DEF FifoInv, FifoIsExact, FifoTypeOK, PointersAgree, NothingIsOvertaken, Waiting, Indexes
<1>5. Buffers = {} => RingHoldsWhatWasSent'
  <2> SUFFICES ASSUME Buffers = {}
               PROVE  RingHoldsWhatWasSent'
    OBVIOUS
  <2>1. Waiting' = Waiting /\ RingHoldsWhatWasSent
    BY <1>0 DEF Waiting, FifoInv, FifoIsExact
  <2>2. ASSUME NEW i \in 1 .. Len(sent)
        PROVE  ring'[(REG_CMD_READ + i - 1) % Words] = sent[i]
    <3>1. /\ (REG_CMD_READ + i - 1) % Words \in Indexes
          /\ (REG_CMD_READ + i - 1) % Words # REG_CMD_WRITE
      BY WaitingPlaces
    <3> QED
      BY <1>0, <1>1, <2>1, <3>1 DEF RingHoldsWhatWasSent
  <2> QED
    BY <1>0, <2>1, <2>2 DEF RingHoldsWhatWasSent
<1>6. LogoLast'
  BY <1>0 DEF FifoInv, LogoLast
<1>7. NoLogo'
  BY <1>0, <1>1 DEF FifoInv, NoLogo, OrderOK
<1> QED
  BY <1>3, <1>4, <1>5, <1>6, <1>7 DEF FifoInv, FifoIsExact

\* The word joins those that wait, behind the last of them.
LEMMA PublishKeeps ==
    ASSUME Programs, FifoInv, GPU_HAL_WrCmd32, order.pc = "publish"
    PROVE  FifoInv'
<1>0. /\ wp' = (wp + 1) % Words /\ REG_CMD_WRITE' = (wp + 1) % Words
      /\ sent' = Append(sent, order.word)
      /\ order' = IF order.word = Logo THEN [pc |-> "logo"] ELSE NoOrder
      /\ UNCHANGED <<REG_CMD_READ, ring, next>>
  BY DEF GPU_HAL_WrCmd32, GPU_HAL_Updatecmdfifo
<1>1. /\ OrderOK /\ order \in [pc: {"check", "write", "publish"}, word: Values \cup {Logo}]
      /\ wp = REG_CMD_WRITE /\ ring[wp] = order.word /\ Waiting + 1 < Words
  BY OrderCases DEF FifoInv, OrderOK, FifoIsExact, PointersAgree
<1>2. wp' \in Indexes /\ Waiting' = Waiting + 1
  BY <1>0, <1>1, Pointers, Published DEF Programs, Waiting, Between
<1>3. /\ Len(sent') = Len(sent) + 1 /\ sent' \in Seq(Values \cup {Logo})
      /\ \A i \in 1 .. Len(sent) : sent'[i] = sent[i]
      /\ sent'[Len(sent) + 1] = order.word
  BY <1>0, <1>1, Pointers
<1>4. OrderOK'
  BY <1>0, <1>1 DEF OrderOK, Orders, NoOrder
<1>5. FifoTypeOK' /\ PointersAgree' /\ NothingIsOvertaken'
  <2>1. {wp', REG_CMD_READ', REG_CMD_WRITE'} \subseteq Indexes
    BY <1>0, <1>2, Pointers
  <2> QED
    BY <1>0, <1>2, <1>3, <2>1, Pointers
    DEF FifoInv, FifoIsExact, FifoTypeOK, PointersAgree, NothingIsOvertaken, Indexes
<1>6. Buffers = {} => RingHoldsWhatWasSent'
  <2> SUFFICES ASSUME Buffers = {}
               PROVE  RingHoldsWhatWasSent'
    OBVIOUS
  <2>1. RingHoldsWhatWasSent
    BY DEF FifoInv, FifoIsExact
  <2>2. ASSUME NEW i \in 1 .. Len(sent')
        PROVE  ring[(REG_CMD_READ + i - 1) % Words] = sent'[i]
    <3>1. CASE i \in 1 .. Len(sent)
      BY <1>3, <2>1, <3>1 DEF RingHoldsWhatWasSent
    <3>2. CASE i = Len(sent) + 1
      BY <1>1, <1>3, <3>2, WaitingPlaces
    <3> QED
      BY <1>3, <3>1, <3>2, Pointers DEF Indexes
  <2>3. Len(sent') = Waiting'
    BY <1>2, <1>3, Pointers
  <2> QED
    BY <1>0, <2>2, <2>3 DEF RingHoldsWhatWasSent
<1>7. LogoLast'
  <2>1. \A i \in 1 .. Len(sent) : sent[i] # Logo
    BY <1>1 DEF FifoInv, LogoLast
  <2> SUFFICES ASSUME NEW i \in 1 .. Len(sent'), sent'[i] = Logo
               PROVE  i = Len(sent') /\ order'.pc = "logo"
    BY DEF LogoLast
  <2>2. i = Len(sent) + 1
    BY <1>3, <2>1, Pointers DEF Indexes
  <2> QED
    BY <1>0, <1>3, <2>2
<1>8. NoLogo'
  BY <1>0 DEF FifoInv, NoLogo
<1> QED
  BY <1>4, <1>5, <1>6, <1>7, <1>8 DEF FifoInv, FifoIsExact

\* The words of a portion.
LEMMA PadIsWords ==
    ASSUME Words \in Nat, next \in Values, NEW n \in Nat
    PROVE  /\ Pad(n) \in Seq(Values \cup {Logo}) /\ Len(Pad(n)) = n
           /\ \A i \in 1 .. n : Pad(n)[i] \in Values
<1>1. \A i \in 1 .. n : (next + i - 1) % (Words + 1) \in Values
  BY DEF Values
<1>2. Pad(n) = [i \in 1 .. n |-> (next + i - 1) % (Words + 1)]
  BY DEF Pad
<1> DEFINE word(i) == (next + i - 1) % (Words + 1)
<1>3. Pad(n) = [i \in 1 .. n |-> word(i)] /\ \A i \in 1 .. n : word(i) \in Values
  BY <1>1, <1>2
<1> HIDE DEF word
<1> QED
  BY <1>3

\* A portion is no longer than the space seen, which does not shrink until it
\* is published.
LEMMA PortionKeeps == ASSUME Programs, FifoInv, GPU_HAL_WrCmdBuf PROVE FifoInv'
<1>0. OrderOK /\ PointersAgree /\ next \in Values
  BY DEF FifoInv, FifoIsExact, FifoTypeOK
<1>1. CASE order.pc = "space"
  <2>1. /\ order' = [pc |-> "portion", left |-> order.left, now |-> Portion]
        /\ UNCHANGED <<wp, REG_CMD_READ, REG_CMD_WRITE, ring, sent, next>>
    BY <1>1 DEF GPU_HAL_WrCmdBuf, chip
  <2>2. order \in [pc: {"space"}, left: Nat \ {0}] /\ Buffers # {}
    BY <1>0, <1>1, OrderCases DEF OrderOK
  <2>3. GPU_Cmdfifo_Freespace(REG_CMD_READ) = Words - 1 - Waiting
    BY <1>1, Freespace
  <2>4. Portion \in Nat /\ Portion <= order.left /\ Waiting + Portion < Words
    BY <2>2, <2>3, Pointers DEF Portion, Indexes
  <2>5. OrderOK'
    BY <2>1, <2>2, <2>4 DEF OrderOK, Orders, Waiting
  <2> QED
    BY <1>0, <1>1, <2>1, <2>5, OnlyTheOrder
<1>2. CASE order.pc = "portion"
  <2> DEFINE n == order.now
  <2>1. /\ wp' = (wp + n) % Words /\ REG_CMD_WRITE' = (wp + n) % Words
        /\ sent' = sent \o Pad(n)
        /\ next' = (next + n) % (Words + 1)
        /\ order' = IF order.left = n THEN NoOrder
                   ELSE [pc |-> "read", then |-> [pc |-> "space", left |-> order.left - n]]
        /\ UNCHANGED <<REG_CMD_READ, ring>>
    BY <1>2 DEF GPU_HAL_WrCmdBuf, GPU_HAL_Updatecmdfifo
  <2>2. /\ order \in [pc: {"portion"}, left: Nat \ {0}, now: Nat] /\ Buffers # {}
        /\ n <= order.left /\ Waiting + n < Words /\ wp = REG_CMD_WRITE /\ ~Logos
    BY <1>0, <1>2, OrderCases DEF OrderOK, PointersAgree, Programs
  <2>3. n \in Nat /\ Words \in Nat /\ Words > 1
    BY <2>2, Pointers
  <2>4. wp' \in Indexes /\ Waiting' = Waiting + n
    BY <2>1, <2>2, <2>3, Pointers, Published DEF Programs, Waiting, Between
  <2>5. next' \in Values
    BY <1>0, <2>1, <2>3 DEF Values
  <2>6. /\ Pad(n) \in Seq(Values \cup {Logo}) /\ Len(Pad(n)) = n
        /\ \A i \in 1 .. n : Pad(n)[i] \in Values
    BY <1>0, <2>3, PadIsWords
  <2>7. /\ sent' \in Seq(Values \cup {Logo}) /\ Len(sent') = Len(sent) + n
        /\ \A i \in 1 .. Len(sent) : sent'[i] = sent[i]
        /\ \A i \in Len(sent) + 1 .. Len(sent) + n : sent'[i] \in Values
    <3> DEFINE pad == Pad(n)
    <3>1. pad \in Seq(Values \cup {Logo}) /\ Len(pad) = n /\ \A i \in 1 .. n : pad[i] \in Values
      <4> HIDE DEF n
      <4> QED
        BY <2>6
    <3>2. sent' = sent \o pad
      BY <2>1
    <3> HIDE DEF n, pad
    <3>3. sent' \in Seq(Values \cup {Logo}) /\ Len(sent') = Len(sent) + n
      BY <3>1, <3>2, Joined, Pointers
    <3>4. ASSUME NEW i \in 1 .. Len(sent)
          PROVE  sent'[i] = sent[i]
      BY <3>1, <3>2, Joined, Pointers
    <3>5. ASSUME NEW i \in Len(sent) + 1 .. Len(sent) + n
          PROVE  sent'[i] \in Values
      <4>1. i - Len(sent) \in 1 .. n /\ i = Len(sent) + (i - Len(sent))
        BY <2>3, Pointers
      <4>2. \A j \in 1 .. n : sent'[Len(sent) + j] = pad[j]
        BY <3>1, <3>2, Joined, Pointers
      <4>3. sent'[i] = pad[i - Len(sent)]
        BY <4>1, <4>2
      <4> QED
        BY <3>1, <4>1, <4>3
    <3> QED
      BY <3>3, <3>4, <3>5
  <2>8. OrderOK'
    <3>1. CASE order.left = n
      BY <2>1, <3>1 DEF OrderOK, Orders, NoOrder
    <3>2. CASE order.left # n
      <4>1. order.left - n \in Nat \ {0}
        BY <2>2, <2>3, <3>2
      <4>2. order' = [pc |-> "read", then |-> [pc |-> "space", left |-> order.left - n]]
        BY <2>1, <3>2
      <4> HIDE DEF n
      <4> QED
        BY <2>2, <4>1, <4>2 DEF OrderOK, Orders, Afterwards
    <3> QED
      BY <3>1, <3>2
  <2>9. FifoTypeOK' /\ PointersAgree' /\ NothingIsOvertaken'
    <3>1. {wp', REG_CMD_READ', REG_CMD_WRITE'} \subseteq Indexes
      BY <2>1, <2>4, Pointers
    <3> QED
      BY <2>1, <2>4, <2>5, <2>7, <3>1, Pointers
      DEF FifoInv, FifoIsExact, FifoTypeOK, PointersAgree, NothingIsOvertaken, Indexes
  <2>10. LogoLast'
    <3>1. \A i \in 1 .. Len(sent) : sent[i] # Logo
      BY <1>2 DEF FifoInv, LogoLast
    <3>2. Logo \notin Values
      BY <2>3 DEF Logo, Values
    <3>3. ASSUME NEW i \in 1 .. Len(sent')
          PROVE  sent'[i] # Logo
      <4>1. i \in 1 .. Len(sent) \/ i \in Len(sent) + 1 .. Len(sent) + n
        BY <2>3, <2>7, Pointers
      <4> QED
        BY <2>7, <3>1, <3>2, <4>1
    <3> QED
      BY <3>3 DEF LogoLast
  <2>11. NoLogo'
    BY <2>1 DEF FifoInv, NoLogo
  <2> QED
    BY <2>1, <2>2, <2>8, <2>9, <2>10, <2>11 DEF FifoInv, FifoIsExact
<1> QED
  BY <1>1, <1>2 DEF GPU_HAL_WrCmdBuf

\* The first of the waiting words is executed; when it is CMD_LOGO, it is the
\* only one.
LEMMA ExecuteKeeps == ASSUME Programs, FifoInv, Execute PROVE FifoInv'
<1>0. /\ REG_CMD_READ # REG_CMD_WRITE
      /\ sent' = SubSeq(sent, 2, Len(sent))
      /\ UNCHANGED <<wp, order, ring, next>>
      /\ OrderOK /\ LogoLast /\ NoLogo
  BY DEF Execute, host, FifoInv
<1>1. Len(sent) >= 1 /\ Len(sent) = Between(REG_CMD_READ, REG_CMD_WRITE)
  BY <1>0, Pointers, BetweenBounds DEF Programs, Indexes
<1>2. /\ sent' \in Seq(Values \cup {Logo}) /\ Len(sent') = Len(sent) - 1
      /\ \A i \in 1 .. Len(sent) - 1 : sent'[i] = sent[i + 1]
  BY <1>0, <1>1, Pointers
<1>3. CASE ring[REG_CMD_READ] = Logo
  <2>1. REG_CMD_READ' = 0 /\ REG_CMD_WRITE' = 0
    BY <1>3 DEF Execute
  <2>2. Buffers = {} /\ RingHoldsWhatWasSent
    BY <1>0, <1>3, Pointers DEF NoLogo, Programs, FifoInv, FifoIsExact
  <2>3. sent[1] = Logo
    BY <1>1, <1>3, <2>2, Pointers, WaitingPlaces DEF RingHoldsWhatWasSent
  <2>4. Len(sent) = 1 /\ order.pc \in {"logo", "logo2"}
    BY <1>0, <1>1, <2>3 DEF LogoLast
  <2>5. 0 \in Indexes /\ Waiting' = 0
    BY <2>1, Pointers, BetweenBounds DEF Programs, Waiting, Between, Indexes
  <2>6. FifoTypeOK' /\ PointersAgree' /\ NothingIsOvertaken' /\ RingHoldsWhatWasSent'
    BY <1>0, <1>2, <2>1, <2>4, <2>5
    DEF FifoInv, FifoIsExact, FifoTypeOK, PointersAgree, NothingIsOvertaken, RingHoldsWhatWasSent, Indexes
  <2>7. OrderOK' /\ LogoLast' /\ NoLogo'
    BY <1>0, <1>2, <2>4 DEF OrderOK, LogoLast, NoLogo
  <2> QED
    BY <2>6, <2>7 DEF FifoInv, FifoIsExact
<1>4. CASE ring[REG_CMD_READ] # Logo
  <2>1. REG_CMD_READ' = (REG_CMD_READ + 1) % Words /\ REG_CMD_WRITE' = REG_CMD_WRITE
    BY <1>4 DEF Execute
  <2>2. REG_CMD_READ' \in Indexes /\ Waiting' = Waiting - 1
    BY <1>0, <2>1, Pointers, Executed DEF Programs, Waiting, Between
  <2>3. FifoTypeOK' /\ PointersAgree' /\ NothingIsOvertaken'
    <3>1. {wp', REG_CMD_READ', REG_CMD_WRITE'} \subseteq Indexes
      BY <1>0, <2>1, <2>2, Pointers
    <3> QED
      BY <1>0, <1>2, <2>1, <2>2, <3>1, Pointers
      DEF FifoInv, FifoIsExact, FifoTypeOK, PointersAgree, NothingIsOvertaken, Indexes
  <2>4. Buffers = {} => RingHoldsWhatWasSent'
    <3> SUFFICES ASSUME Buffers = {}
                 PROVE  RingHoldsWhatWasSent'
      OBVIOUS
    <3>1. RingHoldsWhatWasSent
      BY DEF FifoInv, FifoIsExact
    <3>2. ASSUME NEW i \in 1 .. Len(sent')
          PROVE  ring'[(REG_CMD_READ' + i - 1) % Words] = sent'[i]
      <4>1. i \in 1 .. Len(sent) - 1 /\ i + 1 \in 1 .. Len(sent)
        BY <1>2, Pointers DEF Indexes
      <4>2. (REG_CMD_READ' + i - 1) % Words = (REG_CMD_READ + (i + 1) - 1) % Words
        BY <1>0, <1>1, <2>1, <4>1, WaitingPlaces
      <4> QED
        BY <1>0, <1>2, <3>1, <4>1, <4>2 DEF RingHoldsWhatWasSent
    <3> QED
      BY <2>3, <3>2 DEF NothingIsOvertaken, RingHoldsWhatWasSent
  <2>5. OrderOK'
    <3>1. Waiting' < Waiting /\ Waiting \in Int /\ Words \in Int
      BY <2>2, Pointers DEF Indexes
    <3>2. order.pc = "portion" => order.now \in Nat
      BY <1>0, OrderCases DEF OrderOK
    <3>3. Waiting' \in Int
      BY <2>2, <3>1
    <3> QED
      <4>0. /\ order.pc \in {"write", "publish"} => Waiting + 1 < Words
            /\ order.pc = "portion" => Waiting + order.now < Words
        BY <1>0 DEF OrderOK
      <4>a. ASSUME NEW a \in Int, NEW b \in Int, NEW c \in Int, NEW n \in Int, a < b, b + n < c
            PROVE  a + n < c
        BY <4>a
      <4>1. ASSUME NEW n \in Int, Waiting + n < Words
            PROVE  Waiting' + n < Words
        BY <3>1, <3>3, <4>1, <4>a, Zenon
      <4>2. 1 \in Int /\ (order.pc = "portion" => order.now \in Int)
        BY <3>2
      <4> QED
        BY <1>0, <4>0, <4>1, <4>2 DEF OrderOK
  <2>6. LogoLast'
    <3> SUFFICES ASSUME NEW i \in 1 .. Len(sent'), sent'[i] = Logo
                 PROVE  /\ i = Len(sent') /\ order.pc \in {"logo", "logo2"}
                        /\ order.pc = "logo2" => order.read # REG_CMD_WRITE
      BY <1>0, <2>1 DEF LogoLast
    <3>1. i + 1 \in 1 .. Len(sent) /\ sent[i + 1] = Logo
      BY <1>2, Pointers DEF Indexes
    <3> QED
      BY <1>0, <1>2, <3>1, Pointers DEF LogoLast, Indexes
  <2>7. NoLogo'
    BY <1>0 DEF NoLogo
  <2> QED
    BY <2>3, <2>4, <2>5, <2>6, <2>7 DEF FifoInv, FifoIsExact
<1> QED
  BY <1>3, <1>4

-----------------------------------------------------------------------------

\* The words that GPU_HAL_WrCmd32 sends are executed once and in order, whatever the
\* size of the ring and wherever the co-processor is; GPU_HAL_WrCmdBuf publishes as
\* many as it is given and never overtakes the co-processor; and the program
\* knows where the next word goes, also after the logo (GPU_HAL.c).  Programs that do
\* both, send CMD_LOGO and call GPU_HAL_WrCmdBuf, are not promised this.
THEOREM FifoStaysExact ==
    ASSUME CmdFifoAssumption, Buffers = {} \/ ~Logos
    PROVE  FifoSpec => []FifoIsExact
<1>0. Programs
  BY DEF Programs
<1>1. FifoInit => FifoInv
  <2> SUFFICES ASSUME FifoInit
               PROVE  FifoInv
    OBVIOUS
  <2>1. 0 \in Indexes /\ Waiting = 0 /\ Words \in Nat /\ Words > 1
    BY RingArithmetic DEF FifoInit, Waiting, CmdFifoAssumption, Indexes
  <2>2. FifoTypeOK /\ OrderOK
    BY <2>1 DEF FifoInit, FifoTypeOK, OrderOK, Orders, NoOrder, Indexes, Values
  <2>3. LogoLast /\ NoLogo
    BY <2>1 DEF FifoInit, LogoLast, NoLogo, Logo, Indexes
  <2> QED
    BY <2>1, <2>2, <2>3
    DEF FifoInit, FifoInv, FifoIsExact, PointersAgree, NothingIsOvertaken, RingHoldsWhatWasSent
<1>2. FifoInv /\ [FifoNext]_fifoVars => FifoInv'
  <2> SUFFICES ASSUME FifoInv, [FifoNext]_fifoVars
               PROVE  FifoInv'
    OBVIOUS
  <2>1. CASE GPU_HAL_WrCmd32
    BY <1>0, <2>1, WriteKeeps, PublishKeeps DEF GPU_HAL_WrCmd32
  <2>2. CASE UNCHANGED fifoVars
    BY <2>2 DEF fifoVars, FifoInv, FifoIsExact, FifoTypeOK, PointersAgree, NothingIsOvertaken,
                RingHoldsWhatWasSent, OrderOK, LogoLast, NoLogo, Waiting
  <2> QED
    BY <1>0, <2>1, <2>2, BeginKeeps, CheckKeeps, WaitForEmptyKeeps, WaitForLogoKeeps,
       PortionKeeps, ExecuteKeeps DEF FifoNext, Proceed
<1>3. FifoInv => FifoIsExact
  BY DEF FifoInv
<1> QED
  BY <1>1, <1>2, <1>3, PTL DEF FifoSpec
=============================================================================
