----------------------------- MODULE MCLibraries -----------------------------
(* The libraries beside FreeRTOS and FatFs, for TLC: the disk drivers, the   *)
(* command FIFO of the FT80x, and the calendar.  They do not call each other *)
(* (FatFs, their caller, is MCFatFs): a behaviour picks one of the setups    *)
(* below and runs it, while the others stay as they start.                   *)
EXTENDS Integers, Sequences, TLC

VARIABLES
    setup,                                                \* what runs
    Stat, CardType, selected, now, card, before,          \* DiskioSd
    disk, at, reported,                                   \* DiskioHbios
    call, mem, result, faults, calls,                     \* both drivers
    wp, REG_CMD_READ, REG_CMD_WRITE, ring, order, sent, next,    \* CmdFifo
    day, today                                            \* Calendar

sd == <<Stat, CardType, selected, now, card, before>>
hbios == <<disk, at, reported>>
driver == <<call, mem, result, faults, calls>>
fifo == <<wp, REG_CMD_READ, REG_CMD_WRITE, ring, order, sent, next>>
calendar == <<day, today>>
vars == <<setup, sd, hbios, driver, fifo, calendar>>

\* Cards of a few sectors of 2 bytes.
One(kind) == (0 :> kind)
Two(kind, other) == (0 :> kind) @@ (1 :> other)

\* Cards of every kind that answer as they should.
Cards == INSTANCE DiskioSd
         WITH Kinds <- {One("SD1"), One("SD2"), One("SDHC")}, Last <- 3, BLOCK <- 2, AddrMod <- 64,
              CountMod <- 8, READ_ATTEMPTS <- 3, WRITE_ATTEMPTS <- 3, Patience <- 3, IdlePolls <- 1,
              TimeMod <- 64, StartTimes <- {0}, Counts <- {1, 2, 3}, Ops <- {"read", "write", "sync"},
              Faults <- {}, MaxFaults <- 0, MaxCalls <- 4

\* Two cards, addressed by bytes and by blocks, that refuse commands or do not
\* answer them.
Refuses == INSTANCE DiskioSd
           WITH Kinds <- {Two("SD1", "SDHC")}, Last <- 2, BLOCK <- 2, AddrMod <- 64,
                CountMod <- 8, READ_ATTEMPTS <- 3, WRITE_ATTEMPTS <- 3, Patience <- 3, IdlePolls <- 1,
                TimeMod <- 64, StartTimes <- {0}, Counts <- {1, 2}, Ops <- {"read", "write"},
                Faults <- {"refuse", "mute"}, MaxFaults <- 2, MaxCalls <- 4

\* Cards that send error tokens, before the first block or a later one, with a
\* timer that wraps around.
Tokens == INSTANCE DiskioSd
          WITH Kinds <- {One("SD1"), One("SDHC"), One("MMC")}, Last <- 2, BLOCK <- 2, AddrMod <- 64,
               CountMod <- 8, READ_ATTEMPTS <- 3, WRITE_ATTEMPTS <- 3, Patience <- 3, IdlePolls <- 1,
               TimeMod <- 64, StartTimes <- {0, 62}, Counts <- {1, 2}, Ops <- {"read", "write", "sync"},
               Faults <- {"refuse", "token"}, MaxFaults <- 3, MaxCalls <- 3

\* Cards that reject blocks, alone, first of several, or among them.
Rejects == INSTANCE DiskioSd
           WITH Kinds <- {One("SD1"), One("SDHC")}, Last <- 3, BLOCK <- 2, AddrMod <- 64,
                CountMod <- 8, READ_ATTEMPTS <- 3, WRITE_ATTEMPTS <- 3, Patience <- 3, IdlePolls <- 1,
                TimeMod <- 64, StartTimes <- {0}, Counts <- {1, 2, 3}, Ops <- {"write"},
                Faults <- {"refuse", "reject"}, MaxFaults <- 3, MaxCalls <- 3

\* Firmware that fails to seek, or moves fewer sectors than it was asked to, or none.
Hbios == INSTANCE DiskioHbios
         WITH Drives <- 0 .. 1, Last <- 3, Counts <- {1, 2, 3}, READ_ATTEMPTS <- 3,
              WRITE_ATTEMPTS <- 3, Faults <- {"seek", "short"}, MaxFaults <- 4, MaxCalls <- 2

\* Words one by one and the logo; and buffers longer than the ring.
Fifo == INSTANCE CmdFifo WITH Words <- 4, Buffers <- {}, Logos <- TRUE
Buffers == INSTANCE CmdFifo WITH Words <- 3, Buffers <- {4}, Logos <- FALSE

\* All the days of time_t; zones 12 hours west, and as far east as they go.
Dates == INSTANCE Calendar
         WITH Last <- 49710, Seconds <- {0, 1, 23295, 45296, 86399},
              Zones <- {-12 * 3600, 0, 3600, 14 * 3600}, MaxMonth <- 13

ASSUME Cards!SdAssumption /\ Refuses!SdAssumption /\ Tokens!SdAssumption /\ Rejects!SdAssumption
ASSUME Hbios!HbiosAssumption /\ Fifo!CmdFifoAssumption /\ Buffers!CmdFifoAssumption
ASSUME Dates!CalendarAssumption

SdSetups == {"cards", "refuses", "tokens", "rejects"}

Init ==
    /\ setup \in SdSetups \cup {"hbios", "fifo", "buffers", "dates"}
    /\ CASE setup = "cards" -> Cards!Init
         [] setup = "refuses" -> Refuses!Init
         [] setup = "tokens" -> Tokens!Init
         [] setup = "rejects" -> Rejects!Init
         [] OTHER -> /\ Stat = "NOINIT" /\ CardType = "none" /\ selected = -1 /\ now = 0
                     /\ card = <<>> /\ before = <<>>
    /\ IF setup = "hbios" THEN Hbios!Init ELSE disk = <<>> /\ at = <<>> /\ reported = 0
    /\ setup \notin SdSetups \cup {"hbios"} =>
          call = Hbios!Idle /\ mem = <<>> /\ result = "none" /\ faults = 0 /\ calls = 0
    /\ IF setup = "buffers" THEN Buffers!FifoInit ELSE Fifo!FifoInit
    /\ Dates!Init

SdNext ==
    /\ \/ setup = "cards" /\ Cards!Next
       \/ setup = "refuses" /\ Refuses!Next
       \/ setup = "tokens" /\ Tokens!Next
       \/ setup = "rejects" /\ Rejects!Next
    /\ UNCHANGED <<setup, hbios, fifo, calendar>>
HbiosNext == setup = "hbios" /\ Hbios!Next /\ UNCHANGED <<setup, sd, fifo, calendar>>
FifoNext ==
    /\ \/ setup = "fifo" /\ Fifo!FifoNext
       \/ setup = "buffers" /\ Buffers!FifoNext
    /\ UNCHANGED <<setup, sd, hbios, driver, calendar>>
DatesNext == setup = "dates" /\ Dates!Next /\ UNCHANGED <<setup, sd, hbios, driver, fifo>>

Next == SdNext \/ HbiosNext \/ FifoNext \/ DatesNext

\* The fairness of each library: a call goes on, a card ends its writing, and the
\* co-processor executes its words.
SdProceeds ==
    /\ \/ setup = "cards" /\ Cards!Driver
       \/ setup = "refuses" /\ Refuses!Driver
       \/ setup = "tokens" /\ Tokens!Driver
       \/ setup = "rejects" /\ Rejects!Driver
    /\ UNCHANGED <<setup, hbios, fifo, calendar>>
HbiosProceeds ==
    /\ setup = "hbios" /\ (Hbios!Seek \/ Hbios!Move \/ Hbios!Attempt)
    /\ UNCHANGED <<setup, sd, fifo, calendar>>
FifoProceeds ==
    /\ \/ setup = "fifo" /\ Fifo!Proceed
       \/ setup = "buffers" /\ Buffers!Proceed
    /\ UNCHANGED <<setup, sd, hbios, driver, calendar>>
Programmed(d) ==
    /\ setup \in SdSetups /\ d \in DOMAIN card
    /\ Cards!Programmed(d)
    /\ UNCHANGED <<setup, hbios, fifo, calendar>>
Execute ==
    /\ \/ setup = "fifo" /\ Fifo!Execute
       \/ setup = "buffers" /\ Buffers!Execute
    /\ UNCHANGED <<setup, sd, hbios, driver, calendar>>

Spec ==
    /\ Init /\ [][Next]_vars
    /\ WF_vars(SdProceeds \/ HbiosProceeds \/ FifoProceeds) /\ WF_vars(Execute)
    /\ \A d \in 0 .. 1 : WF_vars(Programmed(d))
-----------------------------------------------------------------------------
(* Properties.                                                               *)

\* disk_read and disk_write keep their promise to FatFs (DiskSpec): those of the
\* card driver with cards that make no errors, those of the HBIOS driver with
\* firmware that fails to seek, or moves fewer sectors than it was asked to, but
\* for a RES_OK that stands for no sector moved.
ImplementsDiskSpec ==
    /\ setup = "cards" => Cards!Disk!Init
    /\ setup = "hbios" => Hbios!Disk!Init
    /\ [][setup = "cards" => Cards!Disk!Next]_(Cards!Disk!vars)
    /\ [][setup = "hbios" => Hbios!Disk!Next]_(Hbios!Disk!vars)

\* Whatever cards refuse, leave unanswered, lose or reject, in calls of one sector
\* or several, RES_OK means that every sector was moved to its place, and no sector
\* changes that was not to be written, unless the call has gone astray: the driver
\* has sent, and the card accepted, a command for something else than was asked
\* for, or has counted a rejected block as written.  (Both happen, and then neither
\* is true: MCSdRejected, README.md.)  No card of another drive ever changes; and a card
\* that disk_initialize accepts is ready, and addressed as its kind wants to be.
TransfersAreExact ==
    /\ setup = "cards" => Cards!InitialisedIsReady /\ Cards!ReadyCardIsAccepted
    /\ setup = "refuses" => /\ Refuses!StraightMeansTransferred /\ Refuses!StraightChangesOnlyAsked
                            /\ Refuses!InitialisedIsReady
    /\ setup = "tokens" => Tokens!StraightMeansTransferred /\ Tokens!StraightChangesOnlyAsked
    /\ setup = "rejects" => Rejects!StraightMeansTransferred /\ Rejects!StraightChangesOnlyAsked

\* A loop of disk_initialize gives up only after the time it was given, while the
\* timer does not wrap around.
TriesLongEnough == [][setup = "refuses" => Refuses!GivesUpInTime]_vars

\* Every call of a disk driver returns, and every call of the HAL of the FT80x that
\* waits for space, for the end of the commands or for the logo.
EveryCallEnds == []<>(call.op = "none") /\ []<>(order = Fifo!NoOrder)

\* The co-processor executes the words that were sent, each once and in their
\* order, and the program and the chip agree on where the next one goes.
FifoIsExact ==
    /\ setup = "fifo" => Fifo!FifoIsExact
    /\ setup = "buffers" => Buffers!FifoIsExact

\* The dates of gmtime_r are those of the Gregorian calendar (CalendarSpec), day
\* by day until time_t ends; month_length and is_leap_year agree with them, and the
\* weeks of the year and of the month count the days on which a week starts.
ImplementsCalendar ==
    /\ Dates!ImplementsCalendar
    /\ Dates!MonthsEndInTime /\ Dates!LeapYearsAreLonger /\ Dates!WeeksAreCounted

\* mk_gmtime takes back what gmtime_r did; mktime what localtime_r did, in every
\* zone, with daylight saving and without; fatfs_system what system_fatfs did, to
\* two seconds; and iso_week_date_r gives the week of ISO 8601 but on the first two
\* days, January 1 and 2 of 2000, and around the century that is not leap.
DatesReturn ==
    setup = "dates" => /\ Dates!GmtimeReturns /\ Dates!LocaltimeReturns /\ Dates!FatStampReturns
                       /\ Dates!IsoWeekIsRightElsewhere
=============================================================================
