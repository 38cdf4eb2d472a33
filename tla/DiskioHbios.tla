----------------------------- MODULE DiskioHbios -----------------------------
(****************************************************************************)
(* diskio_hbios.c: the driver of FatFs that calls the disk functions of the *)
(* HBIOS firmware.  An attempt seeks the first sector and moves the blocks; *)
(* the firmware reports how many it moved, which may be none.  The firmware *)
(* is external.                                                             *)
(****************************************************************************)
EXTENDS Integers

CONSTANTS
    Drives,
    Last,            \* the last sector of a drive
    Counts,          \* how many sectors are read or written in a call
    READ_ATTEMPTS,   \* 3 in the code
    WRITE_ATTEMPTS,  \* 3 in the code
    Faults,          \* subset of {"seek", "short"}
    MaxFaults,       \* bound: faults
    MaxCalls         \* bound: calls

LBA == 0 .. Last

HbiosAssumption ==
    /\ Last \in Nat /\ Counts \subseteq Nat \ {0}
    /\ READ_ATTEMPTS \in Nat \ {0} /\ WRITE_ATTEMPTS \in Nat \ {0}

VARIABLES
    disk,    \* the sectors of the drives
    at,      \* where the firmware will read or write next, by drive
    call,    \* the call in progress
    mem,     \* the caller's buffer, block by block
    result,  \* what the last call returned: "OK", "ERROR", or "none"
    reported,\* history: the blocks the firmware last said it moved in this call, or 0
    faults,  \* number of faults so far
    calls    \* number of calls so far

vars == <<disk, at, call, mem, result, reported, faults, calls>>

Idle == [op |-> "none"]
Nothing == -1
Given(i) == 100 * calls + i     \* the i-th block a caller writes in this call

RES_OK == 0

Start(op, d, sector, count, attempts) ==
    /\ call = Idle /\ calls < MaxCalls /\ calls' = calls + 1
    /\ mem' = [i \in 1 .. count |-> IF op = "read" THEN Nothing ELSE Given(i)]
    /\ call' = [op |-> op, d |-> d, start |-> sector, n |-> count, pc |-> "seek",
                attempt |-> attempts, resp |-> RES_OK]
    /\ result' = "none" /\ reported' = 0
    /\ UNCHANGED <<disk, at, faults>>

disk_read(d, sector, count) == Start("read", d, sector, count, READ_ATTEMPTS)
disk_write(d, sector, count) == Start("write", d, sector, count, WRITE_ATTEMPTS)

Faulty(kind) == kind \in Faults /\ faults < MaxFaults /\ faults' = faults + 1

\* Mutant of Seek: the second attempt goes on from where the first one ended.
SeekOnce ==
    /\ call.op # "none" /\ call.pc = "seek"
    /\ at' = IF call.resp = RES_OK THEN [at EXCEPT ![call.d] = call.start] ELSE at
    /\ call' = [call EXCEPT !.pc = "move"] /\ UNCHANGED faults
    /\ UNCHANGED <<disk, mem, result, reported, calls>>

\* BF_DIOSEEK: when it fails nothing is moved in this attempt, and resp stays.
Seek ==
    /\ call.op # "none" /\ call.pc = "seek"
    /\ \/ /\ at' = [at EXCEPT ![call.d] = call.start]
          /\ call' = [call EXCEPT !.pc = "move"] /\ UNCHANGED faults
       \/ /\ Faulty("seek") /\ UNCHANGED at
          /\ call' = [call EXCEPT !.pc = "end"]
    /\ UNCHANGED <<disk, mem, result, reported, calls>>

\* The number of blocks the firmware has moved is the result of the call,
\* unless it is all of them.
Answered(blocks) == IF blocks = call.n THEN RES_OK ELSE blocks

\* BF_DIOREAD and BF_DIOWRITE move all blocks, only the first of them, or none.
Move ==
    LET d == call.d
        here == at[d]
    IN /\ call.op # "none" /\ call.pc = "move"
       /\ \E blocks \in 0 .. call.n :
             /\ \/ blocks = call.n /\ UNCHANGED faults
                \/ blocks # call.n /\ Faulty("short")
             /\ at' = [at EXCEPT ![d] = here + blocks]
             /\ IF call.op = "read"
                THEN /\ mem' = [i \in 1 .. call.n |->
                                   IF i <= blocks /\ here + i - 1 \in LBA
                                   THEN disk[d][here + i - 1] ELSE mem[i]]
                     /\ UNCHANGED disk
                ELSE /\ disk' = [disk EXCEPT ![d] =
                                    [s \in LBA |-> IF s \in here .. here + blocks - 1
                                                   THEN mem[s - here + 1] ELSE @[s]]]
                     /\ UNCHANGED mem
             /\ call' = [call EXCEPT !.pc = "end", !.resp = Answered(blocks)]
             /\ reported' = blocks
       /\ UNCHANGED <<result, calls>>

\* The end of an attempt.
Attempt ==
    /\ call.op # "none" /\ call.pc = "end"
    /\ IF call.attempt > 1 /\ call.resp # RES_OK
       THEN call' = [call EXCEPT !.attempt = @ - 1, !.pc = "seek"] /\ UNCHANGED result
       ELSE call' = Idle /\ result' = IF call.resp = RES_OK THEN "OK" ELSE "ERROR"
    /\ UNCHANGED <<disk, at, mem, reported, faults, calls>>

Init ==
    /\ disk = [d \in Drives |-> [s \in LBA |-> s]]
    /\ at = [d \in Drives |-> 0]
    /\ call = Idle /\ mem = <<>> /\ result = "none" /\ reported = 0
    /\ faults = 0 /\ calls = 0

Next ==
    \/ \E d \in Drives, sector \in LBA, count \in Counts :
          sector + count - 1 \in LBA /\ (disk_read(d, sector, count) \/ disk_write(d, sector, count))
    \/ Seek \/ Move \/ Attempt

Spec == Init /\ [][Next]_vars

--------------------------------------------------------------------------
(* Properties.                                                             *)

\* RES_OK means nothing when the firmware moved no block in the last attempt
\* that it could seek, or could seek in none: 0 blocks and RES_OK are the same.
Hollow == result = "OK" /\ reported = 0

Disk == INSTANCE DiskSpec
        WITH call <- IF call = Idle THEN Idle
                     ELSE [op |-> call.op, d |-> call.d, start |-> call.start, n |-> call.n],
             result <- IF Hollow THEN "ERROR" ELSE result

\* The driver does what FatFs asks of one, whichever seeks fail and however few
\* blocks are moved in an attempt: RES_OK after a report of some blocks means that
\* every sector was moved, and no other sector is touched in any case.
ImplementsDiskSpec == Disk!Spec

\* What dread.html and dwrite.html say of RES_OK: the call succeeded.  (It is not
\* so: one seek that fails, or one report of no block, is enough to be Hollow.
\* See the disagreements in README.md.)
OkMeansMoved ==
    call # Idle /\ call.pc = "end" /\ call.resp = RES_OK =>
        \A i \in 1 .. call.n : mem[i] = disk[call.d][call.start + i - 1]
=============================================================================
