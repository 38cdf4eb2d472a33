------------------------------ MODULE DiskioSd ------------------------------
(****************************************************************************)
(* diskio_sd.c: the driver of FatFs for cards in SPI mode.  A call          *)
(* (disk_initialize, disk_read, disk_write, disk_ioctl with CTRL_SYNC) is a *)
(* sequence of steps, each of which sends one command or moves one block;   *)
(* the card may refuse a command, not answer it, send an error token in     *)
(* place of a block or reject a block, and the driver tries again.          *)
(*                                                                          *)
(* The card is external: it does what the driver expects of an MMC, an SD   *)
(* card of version 1, of version 2, or one that is addressed by blocks.     *)
(****************************************************************************)
EXTENDS Integers

CONSTANTS
    Kinds,           \* which cards the drives may hold: functions of the drives
    Last,            \* the last sector of a card
    BLOCK,           \* bytes of a sector: 512 in the code
    AddrMod,         \* 2^32: addresses are DWORDs
    CountMod,        \* 2^16: counts are UINTs
    READ_ATTEMPTS,   \* 10 in the code
    WRITE_ATTEMPTS,  \* 10 in the code
    Patience,        \* what a loop of disk_initialize adds to the timer
    IdlePolls,       \* polls until a card leaves the idle state
    TimeMod,         \* 2^32: the timer is a uint32_t
    StartTimes,      \* what the timer may show at first
    Counts,          \* how many sectors are read or written in a call
    Ops,             \* the calls: subset of {"read", "write", "sync"}
    Faults,          \* subset of {"refuse", "mute", "token", "reject"}
    MaxFaults,       \* bound: faults
    MaxCalls         \* bound: calls

Drives == DOMAIN (CHOOSE k \in Kinds : TRUE)
LBA == 0 .. Last

SdAssumption ==
    /\ Last \in Nat /\ BLOCK \in Nat \ {0} /\ AddrMod \in Nat \ {0} /\ CountMod \in Nat \ {0}
    /\ READ_ATTEMPTS \in Nat \ {0} /\ WRITE_ATTEMPTS \in Nat \ {0}
    /\ Patience \in Nat \ {0} /\ Patience < TimeMod /\ StartTimes \subseteq 0 .. TimeMod - 1
    /\ Counts \subseteq 1 .. CountMod - 1

VARIABLES
    Stat,      \* STA_NOINIT, of whatever drive was initialised last
    CardType,  \* of whatever drive was initialised last
    selected,  \* the drive whose CS# is low, or NoDrive
    now,       \* the timer of the firmware
    card,      \* the cards
    call,      \* the call in progress
    mem,       \* the caller's buffer, block by block
    result,    \* what the last call returned
    before,    \* history: the contents of the cards when the call began
    faults,    \* number of faults so far
    calls      \* number of calls so far

vars == <<Stat, CardType, selected, now, card, call, mem, result, before, faults, calls>>

NoDrive == -1
Nothing == -1
Given(i) == 100 + i       \* the i-th block a caller has written
Beyond == 99              \* what is in memory after the caller's buffer
CT_BLOCK == {"SDHC"}      \* CT_SD2 | CT_BLOCK
CT_SDC == {"SD1", "SD2", "SDHC"}

--------------------------------------------------------------------------
(* The card.                                                               *)

\* The block an address means; a misaligned one has none.
Block(c, arg) == IF c.kind = "SDHC" THEN arg
                 ELSE IF arg % BLOCK = 0 THEN arg \div BLOCK ELSE Last + 1

\* The answers R1 of a card to a command, and what it does to the card.
Answer(c, cmd, arg) ==
    LET poll == IF c.polls > 0 THEN [card |-> [c EXCEPT !.polls = @ - 1], resp |-> "idle"]
                ELSE [card |-> [c EXCEPT !.state = "ready"], resp |-> "ready"]
        illegal == [card |-> c, resp |-> "illegal"]
        state == [card |-> c, resp |-> c.state]
    IN CASE cmd = "CMD0" -> [card |-> [c EXCEPT !.state = "idle", !.polls = IdlePolls, !.at = Nothing],
                             resp |-> "idle"]
         [] cmd # "CMD0" /\ c.state = "off" -> [card |-> c, resp |-> "none"]
         [] cmd = "CMD8" -> IF c.kind \in {"SD2", "SDHC"} THEN state ELSE illegal
         [] cmd = "CMD55" -> IF c.kind = "MMC" THEN illegal ELSE state
         [] cmd = "CMD41" -> poll
         [] cmd = "CMD1" -> IF c.kind = "MMC" THEN poll ELSE illegal
         [] cmd \in {"CMD58", "CMD16", "CMD23"} -> IF c.state = "ready" THEN state ELSE illegal
         [] cmd = "CMD12" -> [card |-> [c EXCEPT !.at = Nothing], resp |-> "ready"]
         [] OTHER ->      \* the transfers
              IF c.state = "ready" /\ Block(c, arg) \in LBA
              THEN [card |-> [c EXCEPT !.at = Block(c, arg)], resp |-> "ready"]
              ELSE [card |-> c, resp |-> "error"]

Faulty(kind) == kind \in Faults /\ faults < MaxFaults

\* What may come back when a command is sent: only the selected card answers,
\* and it may refuse or keep silent.  fault counts what went wrong.
Replies(w, cmd, arg) ==
    IF w.selected = NoDrive THEN {[w EXCEPT !.resp = "none"]} ELSE
    LET d == w.selected
        a == Answer(w.card[d], cmd, arg)
        may == w.faults < MaxFaults
    IN {[w EXCEPT !.card[d] = a.card, !.resp = a.resp]}
       \cup (IF may /\ "refuse" \in Faults
             THEN {[w EXCEPT !.resp = "error", !.faults = @ + 1]} ELSE {})
       \cup (IF may /\ "mute" \in Faults
             THEN {[w EXCEPT !.resp = "none", !.faults = @ + 1]} ELSE {})

\* A command with CMD55 before it: when that is not accepted the card is
\* deselected and the command not sent.
AppReplies(w, cmd, arg) ==
    UNION {IF r.resp \in {"idle", "ready"} THEN Replies(r, cmd, arg)
           ELSE {[r EXCEPT !.selected = NoDrive, !.resp = "error"]} : r \in Replies(w, "CMD55", 0)}

Wire(sel) == [card |-> card, selected |-> sel, faults |-> faults, resp |-> "none"]

\* The end of the step that sent the commands.
After(w) == card' = w.card /\ selected' = w.selected /\ faults' = w.faults

\* wait_ready(true), before every command but CMD0 and CMD12.
IsReady == selected \notin {d \in Drives : card[d].busy}

--------------------------------------------------------------------------
(* disk_initialize.                                                        *)

Idle == [op |-> "none"]
NoResult == [op |-> "none"]

Begin(op) ==
    /\ call = Idle /\ calls < MaxCalls /\ calls' = calls + 1
    /\ before' = [d \in Drives |-> card[d].disk]
    /\ result' = NoResult

Deadline == (now + Patience) % TimeMod

disk_initialize(d) ==
    /\ Begin("init")
    /\ CardType' = "none" /\ Stat' = "NOINIT" /\ selected' = d
    /\ call' = [op |-> "init", d |-> d, pc |-> "CMD0", end |-> Deadline, tries |-> 0]
    /\ UNCHANGED <<now, card, mem, faults>>

Goto(pc) == call' = [call EXCEPT !.pc = pc, !.tries = 0, !.end = Deadline]

\* Mutant of TryAgain: the loop ends before the time is over.
TryOnce(giveup) ==
    /\ now' = (now + 1) % TimeMod
    /\ call' = [call EXCEPT !.pc = giveup, !.tries = 0, !.end = (now' + Patience) % TimeMod]

\* Mutant of TryAgain: the timer is not read again.
TryForever(giveup) == UNCHANGED now /\ call' = [call EXCEPT !.tries = Patience]

\* The end of a loop of disk_initialize: time passes, and while it is not over
\* the command is sent again.
TryAgain(giveup) ==
    /\ now' = (now + 1) % TimeMod
    /\ call' = IF call.end > now' THEN [call EXCEPT !.tries = @ + 1]
               ELSE [call EXCEPT !.pc = giveup, !.tries = 0, !.end = (now' + Patience) % TimeMod]

At(pc) == call.op = "init" /\ call.pc = pc

GoIdle ==
    /\ At("CMD0")
    /\ \E w \in Replies(Wire(selected), "CMD0", 0) :
          /\ After(w)
          /\ IF w.resp = "idle" THEN Goto("CMD8") /\ UNCHANGED now ELSE TryAgain("end")
    /\ UNCHANGED <<Stat, CardType, mem, result, before, calls>>

IfCond ==
    /\ At("CMD8") /\ IsReady
    /\ \E w \in Replies(Wire(selected), "CMD8", 0) :
          /\ After(w)
          /\ CASE w.resp = "idle" -> Goto("ACMD41 HCS")
               [] w.resp = "illegal" -> Goto("ACMD41")
               [] OTHER -> Goto("end")
    /\ UNCHANGED <<Stat, CardType, now, mem, result, before, calls>>

SendOpCondSDv2 ==
    /\ At("ACMD41 HCS") /\ IsReady
    /\ \E w \in AppReplies(Wire(selected), "CMD41", 0) :
          /\ After(w)
          /\ IF w.resp = "ready" THEN Goto("CMD58") /\ UNCHANGED now ELSE TryAgain("end")
    /\ UNCHANGED <<Stat, CardType, mem, result, before, calls>>

ReadOCR ==
    /\ At("CMD58") /\ IsReady
    /\ \E w \in Replies(Wire(selected), "CMD58", 0) :
          /\ After(w)
          /\ IF w.resp = "ready"
             THEN /\ CardType' = IF card[call.d].kind = "SDHC" THEN "SDHC" ELSE "SD2"
                  /\ Goto("CMD16")
             ELSE Goto("end") /\ UNCHANGED CardType
    /\ UNCHANGED <<Stat, now, mem, result, before, calls>>

SendOpCondSDv1 ==
    /\ At("ACMD41") /\ IsReady
    /\ \E w \in AppReplies(Wire(selected), "CMD41", 0) :
          /\ After(w)
          /\ IF w.resp = "ready"
             THEN Goto("CMD16") /\ CardType' = "SD1" /\ UNCHANGED now
             ELSE TryAgain("CMD1") /\ UNCHANGED CardType
    /\ UNCHANGED <<Stat, mem, result, before, calls>>

\* The loop ends when the card says that it is still idle.
SendOpCondMMC ==
    /\ At("CMD1") /\ IsReady
    /\ \E w \in Replies(Wire(selected), "CMD1", 0) :
          /\ After(w)
          /\ IF w.resp = "idle"
             THEN Goto("CMD16") /\ CardType' = "MMC" /\ UNCHANGED now
             ELSE TryAgain("end") /\ UNCHANGED CardType
    /\ UNCHANGED <<Stat, mem, result, before, calls>>

\* (CardType != CT_SD2|CT_BLOCK) is true of every type, so that this command
\* goes to every card.
SetBlockLen ==
    /\ At("CMD16") /\ IsReady
    /\ \E w \in Replies(Wire(selected), "CMD16", 0) :
          After(w) /\ CardType' = IF w.resp = "ready" THEN CardType ELSE "none"
    /\ Goto("end")
    /\ UNCHANGED <<Stat, now, mem, result, before, calls>>

Initialised ==
    /\ At("end")
    /\ selected' = NoDrive
    /\ Stat' = IF CardType # "none" THEN "OK" ELSE Stat
    /\ result' = [op |-> "init", d |-> call.d, res |-> Stat']
    /\ call' = Idle
    /\ UNCHANGED <<CardType, now, card, mem, before, faults, calls>>

--------------------------------------------------------------------------
(* disk_read and disk_write.                                               *)

Transfer(op, d, sector, count) ==
    [op |-> op, d |-> d, pc |-> "command", start |-> sector, n |-> count, sector |-> sector,
     count |-> count, buff |-> 1, multi |-> FALSE, accepted |-> FALSE, astray |-> FALSE,
     attempt |-> IF op = "read" THEN READ_ATTEMPTS ELSE WRITE_ATTEMPTS]

Start(op, d, sector, count) ==
    /\ Begin(op)
    /\ mem' = IF op = "read" THEN [i \in 1 .. count |-> Nothing] ELSE [i \in 1 .. count |-> Given(i)]
    /\ call' = IF Stat = "NOINIT" THEN Idle ELSE Transfer(op, d, sector, count)
    /\ UNCHANGED <<Stat, CardType, selected, now, card, faults>>

disk_read(d, sector, count) == "read" \in Ops /\ Start("read", d, sector, count)
disk_write(d, sector, count) == "write" \in Ops /\ Start("write", d, sector, count)

InCall(op, pc) == call.op = op /\ call.pc = pc

\* sector *= 512 at the top of every attempt.
Address(sector) == IF CardType \in CT_BLOCK THEN sector ELSE (sector * BLOCK) % AddrMod

\* History, in call.astray: a command that the card accepted is not for the whole
\* transfer that was asked for, as this card counts its sectors.  What makes it so
\* is an earlier attempt, or a CardType that is that of another drive.
Strays(addr) == \/ call.buff # 1 \/ call.count # call.n
                \/ Block(card[call.d], addr) # call.start

ReadCommand ==
    LET cmd == IF call.count > 1 THEN "CMD18" ELSE "CMD17" IN
    /\ InCall("read", "command") /\ ~card[call.d].busy
    /\ \E w \in Replies(Wire(call.d), cmd, Address(call.sector)) :
          /\ After(w)
          /\ call' = [call EXCEPT !.sector = Address(@), !.multi = call.count > 1,
                                  !.astray = @ \/ (w.resp = "ready" /\ Strays(Address(call.sector))),
                                  !.pc = IF w.resp = "ready" THEN "block" ELSE "attempt"]
    /\ UNCHANGED <<Stat, CardType, now, mem, result, before, calls>>

\* After the last block of a multiple read, or a bad one, comes CMD12.
StopReading(c) == IF call.multi THEN [c EXCEPT !.at = Nothing] ELSE c

ReadBlock ==
    LET d == call.d
        c == card[d]
        last == call.count = 1
    IN /\ InCall("read", "block") /\ c.at \in LBA
       /\ mem' = [mem EXCEPT ![call.buff] = c.disk[c.at]]
       /\ card' = [card EXCEPT ![d] = IF last THEN StopReading(c) ELSE [c EXCEPT !.at = @ + 1]]
       /\ call' = [call EXCEPT !.buff = @ + 1, !.count = @ - 1, !.accepted = TRUE,
                               !.pc = IF last THEN "attempt" ELSE "block"]
       /\ UNCHANGED <<Stat, CardType, selected, now, result, before, faults, calls>>

\* No data token comes, or an error token: past the last sector, or by a fault.
ReadNothing ==
    LET d == call.d
        c == card[d]
    IN /\ InCall("read", "block")
       /\ c.at \notin LBA \/ Faulty("token")
       /\ faults' = IF c.at \in LBA THEN faults + 1 ELSE faults
       /\ card' = [card EXCEPT ![d] = StopReading(c)]
       /\ call' = [call EXCEPT !.accepted = FALSE, !.pc = "attempt"]
       /\ UNCHANGED <<Stat, CardType, selected, now, mem, result, before, calls>>

\* One sector with CMD24, more of them with CMD25 and, on SD cards, ACMD23
\* before it, whose answer is not looked at.
WriteCommand ==
    LET single == call.count = 1
        addr == Address(call.sector)
        wire == Wire(call.d)
        told == IF CardType \in CT_SDC THEN AppReplies(wire, "CMD23", call.count) ELSE {wire}
    IN /\ InCall("write", "command") /\ ~card[call.d].busy
       /\ \E w \in IF single THEN Replies(wire, "CMD24", addr)
                   ELSE UNION {Replies(r, "CMD25", addr) : r \in told} :
             /\ After(w)
             /\ call' = [call EXCEPT !.sector = addr, !.multi = ~single,
                                     !.astray = @ \/ (w.resp = "ready" /\ Strays(addr)),
                                     !.pc = IF w.resp = "ready" THEN "block" ELSE "attempt"]
       /\ UNCHANGED <<Stat, CardType, now, mem, result, before, calls>>

InBuffer == IF call.buff \in DOMAIN mem THEN mem[call.buff] ELSE Beyond

\* write_sector; the card is busy writing afterwards.  A single block counts as
\* written whatever the card says of it.
WriteBlock ==
    LET d == call.d
        c == card[d]
        left == (call.count - 1) % CountMod
    IN /\ InCall("write", "block") /\ ~c.busy /\ c.at \in LBA
       /\ card' = [card EXCEPT ![d] = [c EXCEPT !.disk[c.at] = InBuffer, !.busy = TRUE,
                                                !.at = IF call.multi THEN @ + 1 ELSE Nothing]]
       /\ call' = IF call.multi
                  THEN [call EXCEPT !.buff = @ + 1, !.count = left, !.accepted = TRUE,
                           !.pc = CASE left # 0 -> "block"
                                    [] left = 0 /\ CardType \in CT_SDC -> "stop"
                                    [] OTHER -> "attempt"]
                  ELSE [call EXCEPT !.count = 0, !.accepted = TRUE, !.pc = "attempt"]
       /\ UNCHANGED <<Stat, CardType, selected, now, mem, result, before, faults, calls>>

\* (A single block that is rejected is not written, and counts as written: the
\* call is astray.)
WriteRejected ==
    LET d == call.d
        c == card[d]
    IN /\ InCall("write", "block") /\ ~c.busy
       /\ c.at \notin LBA \/ Faulty("reject")
       /\ faults' = IF c.at \in LBA THEN faults + 1 ELSE faults
       /\ call' = [call EXCEPT !.accepted = FALSE, !.pc = "attempt",
                               !.count = IF call.multi THEN @ ELSE 0,
                               !.astray = @ \/ ~call.multi]
       /\ UNCHANGED <<Stat, CardType, selected, now, card, mem, result, before, calls>>

\* The token STOP_TRAN after a multiple write.
StopTran ==
    /\ InCall("write", "stop") /\ ~card[call.d].busy
    /\ card' = [card EXCEPT ![call.d].at = Nothing, ![call.d].busy = TRUE]
    /\ call' = [call EXCEPT !.pc = "attempt"]
    /\ UNCHANGED <<Stat, CardType, selected, now, mem, result, before, faults, calls>>

\* Mutant of Attempt: a call that has run out of attempts reports success.
AttemptUnseen ==
    /\ call.op \in {"read", "write"} /\ call.pc = "attempt"
    /\ selected' = NoDrive
    /\ IF call.attempt > 1 /\ ~call.accepted
       THEN call' = [call EXCEPT !.attempt = @ - 1, !.pc = "command"] /\ UNCHANGED result
       ELSE /\ result' = [op |-> call.op, d |-> call.d, start |-> call.start, n |-> call.n,
                          astray |-> call.astray, res |-> "OK"]
            /\ call' = Idle
    /\ UNCHANGED <<Stat, CardType, now, card, mem, before, faults, calls>>

\* The end of an attempt.
Attempt ==
    LET ok == IF call.op = "read" THEN call.accepted ELSE call.count = 0 IN
    /\ call.op \in {"read", "write"} /\ call.pc = "attempt"
    /\ selected' = NoDrive
    /\ IF call.attempt > 1 /\ ~call.accepted
       THEN call' = [call EXCEPT !.attempt = @ - 1, !.pc = "command"] /\ UNCHANGED result
       ELSE /\ result' = [op |-> call.op, d |-> call.d, start |-> call.start, n |-> call.n,
                          astray |-> call.astray, res |-> IF ok THEN "OK" ELSE "ERROR"]
            /\ call' = Idle
    /\ UNCHANGED <<Stat, CardType, now, card, mem, before, faults, calls>>

\* disk_ioctl with CTRL_SYNC: nothing is waited for.
CtrlSync(d) ==
    /\ "sync" \in Ops /\ call = Idle /\ calls < MaxCalls /\ calls' = calls + 1
    /\ Stat # "NOINIT"
    /\ selected' = NoDrive
    /\ result' = [op |-> "sync", d |-> d, res |-> "OK"]
    /\ UNCHANGED <<Stat, CardType, now, card, call, mem, before, faults>>

\* The card has written what it was sent.
Programmed(d) ==
    /\ card[d].busy /\ card' = [card EXCEPT ![d].busy = FALSE]
    /\ UNCHANGED <<Stat, CardType, selected, now, call, mem, result, before, faults, calls>>

--------------------------------------------------------------------------
Init ==
    /\ Stat = "NOINIT" /\ CardType = "none" /\ selected = NoDrive /\ now \in StartTimes
    /\ \E kind \in Kinds :
          card = [d \in Drives |-> [kind |-> kind[d], state |-> "off", polls |-> 0, at |-> Nothing,
                                    busy |-> FALSE, disk |-> [s \in LBA |-> 10 * d + s]]]
    /\ call = Idle /\ mem = <<>> /\ result = NoResult
    /\ before = [d \in Drives |-> card[d].disk]
    /\ faults = 0 /\ calls = 0

Initialising ==
    GoIdle \/ IfCond \/ SendOpCondSDv2 \/ ReadOCR \/ SendOpCondSDv1 \/ SendOpCondMMC
           \/ SetBlockLen \/ Initialised
Reading == ReadCommand \/ ReadBlock \/ ReadNothing
Writing == WriteCommand \/ WriteBlock \/ WriteRejected \/ StopTran
Driver == Initialising \/ Reading \/ Writing \/ Attempt

Next ==
    \/ \E d \in Drives : disk_initialize(d) \/ CtrlSync(d) \/ Programmed(d)
    \/ \E d \in Drives, sector \in LBA, count \in Counts :
          sector + count - 1 \in LBA /\ (disk_read(d, sector, count) \/ disk_write(d, sector, count))
    \/ Driver

Spec == Init /\ [][Next]_vars

\* The driver runs on, and a card ends its writing.
FairSpec == Spec /\ WF_vars(Driver) /\ \A d \in Drives : WF_vars(Programmed(d))

--------------------------------------------------------------------------
(* Properties.                                                             *)

Types == {"none", "MMC", "SD1", "SD2", "SDHC"}

\* The variables hold what the code's variables and the cards can hold.
TypeOK ==
    /\ Stat \in {"NOINIT", "OK"} /\ CardType \in Types
    /\ selected \in Drives \cup {NoDrive} /\ now \in 0 .. TimeMod - 1
    /\ \A d \in Drives : /\ card[d].polls \in 0 .. IdlePolls /\ card[d].busy \in BOOLEAN
                         /\ card[d].state \in {"off", "idle", "ready"}
                         /\ DOMAIN card[d].disk = LBA
    /\ call.op \in {"none", "init", "read", "write"}
    /\ call.op \in {"read", "write"} => /\ call.count \in 0 .. CountMod - 1
                                        /\ call.attempt \in 1 .. READ_ATTEMPTS + WRITE_ATTEMPTS
                                        /\ call.sector \in 0 .. AddrMod - 1
    /\ faults \in 0 .. MaxFaults /\ calls \in 0 .. MaxCalls

Succeeded(op) == result.op = op /\ result.res = "OK"

Transferred ==
    \A i \in 1 .. result.n : mem[i] = card[result.d].disk[result.start + i - 1]

\* disk_read that returns RES_OK has put each sector asked for at its place in
\* the buffer, and disk_write each block at its place on the card.  (It is not so:
\* MCSdRejected shows one way, README.md the others.)
OkMeansTransferred == Succeeded("read") \/ Succeeded("write") => Transferred

\* So it is for every call that has not gone astray: whatever is refused, not
\* answered, lost or rejected, an attempt that starts again at the first block
\* makes good what went wrong before it.
StraightMeansTransferred ==
    (Succeeded("read") \/ Succeeded("write")) /\ ~result.astray => Transferred

\* What the current call has changed.
Changed == {p \in Drives \X LBA : card[p[1]].disk[p[2]] # before[p[1]][p[2]]}
AskedToWrite ==
    IF call.op = "write" THEN {call.d} \X (call.start .. call.start + call.n - 1) ELSE {}

\* No call changes a sector it was not asked to write, whatever it returns.  (It is
\* not so for one block, rejected once: see the disagreements in README.md.)
OnlyAskedSectorsChange == call.op # "none" => Changed \subseteq AskedToWrite

\* So it is for every call that has not gone astray; and no call ever changes the
\* card of another drive, and none but disk_write changes any.
StraightChangesOnlyAsked ==
    call.op # "none" /\ ~ (Changed \subseteq AskedToWrite) =>
        call.op = "write" /\ call.astray /\ \A p \in Changed : p[1] = call.d

Disk == INSTANCE DiskSpec
        WITH disk <- [d \in Drives |-> card[d].disk],
             call <- IF call.op \in {"read", "write"}
                     THEN [op |-> call.op, d |-> call.d, start |-> call.start, n |-> call.n]
                     ELSE [op |-> "none"],
             result <- IF result.op \in {"read", "write"} THEN result.res ELSE "none"

\* The driver does what FatFs asks of one, with cards that make no errors.
ImplementsDiskSpec == Disk!Spec

\* What disk_initialize accepts has left the idle state, and is addressed the
\* way it wants to be.
InitialisedIsReady ==
    Succeeded("init") => /\ card[result.d].state = "ready"
                         /\ (CardType \in CT_BLOCK) = (card[result.d].kind = "SDHC")

\* A card that answers every command as its kind does is accepted.
ReadyCardIsAccepted == result.op = "init" /\ faults = 0 => result.res = "OK"

\* A loop of disk_initialize gives up only after the time it was given.
GivesUpInTime ==
    (\/ \E pc \in {"CMD0", "ACMD41 HCS", "CMD1"} : At(pc) /\ call'.pc = "end"
     \/ At("ACMD41") /\ call'.pc = "CMD1")
    => call.tries + 1 >= Patience
TriesLongEnough == [][GivesUpInTime]_vars

\* When disk_ioctl(CTRL_SYNC) has returned the card has nothing left to write.
SyncedIsWritten == Succeeded("sync") => ~card[result.d].busy

\* Every call returns.
EveryCallEnds == call.op # "none" ~> call.op = "none"

=============================================================================
