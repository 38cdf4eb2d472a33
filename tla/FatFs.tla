------------------------------- MODULE FatFs -------------------------------
(****************************************************************************)
(* The FAT file system of ff.c on one mounted volume: the sector window     *)
(* that the FAT, the directories and the FSInfo sector share, the cluster   *)
(* chains, the open file objects with their sector buffers, and what is on  *)
(* the disk when the power fails after any sector that was written, or when *)
(* one access to the disk fails.                                            *)
(*                                                                          *)
(* The functions of ff.c run one at a time to their end, so each API call   *)
(* is one action.  Inside it a record v is passed from call to call: the    *)
(* volume (FATFS), the file object at hand (v.fp) and the result code       *)
(* (v.res).  Do(v, Next) is "if (res == FR_OK)".  v.fault says after how    *)
(* many more accesses the disk fails, or the power.                         *)
(****************************************************************************)
EXTENDS Naturals, Sequences, FiniteSets

CONSTANTS
    Names,      \* the files of the volume, by path
    Root,       \* the root directory: the cluster of its sector
    DirOf,      \* the cluster of the directory that holds a name
    n_fatent,   \* clusters are numbered 2 .. n_fatent - 1
    PerSector,  \* entries of the FAT in one of its sectors
    n_fats,     \* copies of the FAT: 1 or 2
    csize,      \* sectors in a cluster, a power of two
    SS,         \* cells (bytes) in a sector
    Cells,      \* what a cell of a file may be written with
    Handles,    \* the file objects of the program
    Modes,      \* how the program opens files
    Lengths,    \* how much it reads or writes in a call
    Offsets,    \* where it seeks to
    Cuts,       \* where it truncates
    Extents,    \* sizes it asks f_expand for
    Moves,      \* pairs of names it renames
    Faults,     \* subset of {"power", "error"}: what may go wrong
    MaxSize,    \* bound: cells of a file
    MaxAccess,  \* bound: accesses to the disk before a fault in a call
    MaxCalls,   \* bound: API calls
    MaxFaults   \* bound: faults

Clusters == 2 .. n_fatent - 1
DirClusters == {Root} \cup {DirOf[f] : f \in Names}

VolumeAssumption ==
    /\ n_fats \in {1, 2} /\ csize \in {1, 2, 4} /\ SS > 0 /\ PerSector > 0
    /\ Root \in Clusters /\ DirOf \in [Names -> Clusters]

VARIABLES
    vol,      \* the volume: disk, sector window, allocation information
    fil,      \* the file objects
    out,      \* what the last call returned
    damaged,  \* history: files a fault hit while they were being changed
    owed,     \* history: contents a successful f_sync or f_close vouched for
    calls,    \* number of calls made
    faults    \* number of faults so far

vars == <<vol, fil, out, damaged, owed, calls, faults>>

FREE == 0
EOC == 1000          \* any value from n_fatent up ends a chain (0x0FFFFFFF)
Unknown == 9999      \* 0xFFFFFFFF: free_clst, last_clst not known
NoSector == <<"none">>
Absent == [sclust |-> Unknown, size |-> 0]

FatSector(c) == <<"fat", c \div PerSector>>
DirSector(d) == <<"dir", d>>
FsiSector == <<"fsi">>

\* A sector of the data area: i counts the sectors of cluster c from 0.
DataSector(c, i) == <<"data", c, i>>

FatSectors == {FatSector(c) : c \in Clusters}
Mirror(s) == <<"fat2", s[2]>>
DataSectors == {DataSector(c, i) : c \in Clusters \ DirClusters, i \in 0 .. csize - 1}

\* clst2sect: an invalid cluster has no sector.
clst2sect(c, i) == IF c \in Clusters THEN DataSector(c, i) ELSE NoSector

Bytes == csize * SS      \* the size of a cluster

BoundsAssumption ==
    /\ Lengths \subseteq Nat \ {0} /\ Offsets \subseteq Nat
    /\ Cuts \subseteq Nat /\ Extents \subseteq Nat \ {0}

Max2(a, b) == IF a >= b THEN a ELSE b
Min2(a, b) == IF a <= b THEN a ELSE b

Closed == [open |-> FALSE]

--------------------------------------------------------------------------
(* The disk below: disk_read, disk_write and disk_ioctl may fail.          *)

Do(v, Then(_)) == IF v.res = "OK" THEN Then(v) ELSE v
Fail(v, r) == [v EXCEPT !.res = r]
Ignored(v) == [v EXCEPT !.res = "OK"]

NoFault == [kind |-> "none", left |-> 0]
ErrorNow(v) == v.fault.kind = "error" /\ v.fault.left = 0
Countdown(v) == IF v.fault.left = 0 THEN v ELSE [v EXCEPT !.fault.left = @ - 1]

\* One sector is written as a whole or not at all; with the power gone
\* nothing is written any more.
disk_write(v, s, content) ==
    CASE ErrorNow(v) -> [v EXCEPT !.res = "DISK_ERR", !.fault = NoFault]
      [] v.fault.kind = "power" /\ v.fault.left = 0 -> v
      [] OTHER -> Countdown([v EXCEPT !.disk[s] = content])

disk_read(v, s) ==
    CASE ErrorNow(v) -> [v EXCEPT !.res = "DISK_ERR", !.fault = NoFault]
      [] v.fault.kind = "error" -> Countdown(v)
      [] OTHER -> v

ctrl_sync(v) == disk_read(v, NoSector)

--------------------------------------------------------------------------
(* The sector window.                                                      *)

sync_window(v) ==
    IF ~v.wflag THEN v ELSE
    Do(disk_write(v, v.winsect, v.win), LAMBDA a :
       LET b == [a EXCEPT !.wflag = FALSE] IN
       IF n_fats = 2 /\ b.winsect \in FatSectors
       THEN Ignored(disk_write(b, Mirror(b.winsect), b.win)) ELSE b)

move_window(v, s) ==
    IF s = v.winsect THEN v ELSE
    Do(sync_window(v), LAMBDA a :
       LET b == disk_read(a, s) IN
       IF b.res = "OK" THEN [b EXCEPT !.winsect = s, !.win = b.disk[s]]
                       ELSE [b EXCEPT !.winsect = NoSector])

\* The FSInfo sector is composed in the window; whether it could be written
\* is not looked at.
sync_fs(v) ==
    Do(sync_window(v), LAMBDA a :
       LET info == [free |-> a.free, last |-> a.last]
           b == IF a.fsi
                THEN Ignored(disk_write([a EXCEPT !.fsi = FALSE, !.win = info,
                                                  !.winsect = FsiSector],
                                        FsiSector, info))
                ELSE a
       IN ctrl_sync(b))

--------------------------------------------------------------------------
(* The FAT.  The two error values of get_fat become the result code.       *)

get_fat(v, c) ==
    IF c \notin Clusters THEN Fail(v, "INT_ERR") ELSE
    Do(move_window(v, FatSector(c)), LAMBDA a : [a EXCEPT !.val = a.win[c]])

put_fat(v, c, x) ==
    IF c \notin Clusters THEN Fail(v, "INT_ERR") ELSE
    Do(move_window(v, FatSector(c)), LAMBDA a : [a EXCEPT !.win[c] = x, !.wflag = TRUE])

FreeOne(v) == IF v.free < n_fatent - 2 THEN [v EXCEPT !.free = @ + 1, !.fsi = TRUE] ELSE v

RECURSIVE FreeFrom(_, _)
FreeFrom(v, c) ==
    Do(get_fat(v, c), LAMBDA a :
       IF a.val = FREE THEN a ELSE
       Do(put_fat(a, c, FREE), LAMBDA b :
          IF a.val < n_fatent THEN FreeFrom(FreeOne(b), a.val) ELSE FreeOne(b)))

remove_chain(v, c, prev) ==
    IF c \notin Clusters THEN Fail(v, "INT_ERR") ELSE
    Do(IF prev # 0 THEN put_fat(v, prev, EOC) ELSE v, LAMBDA a : FreeFrom(a, c))

\* The search for a free cluster after scl, around the end of the FAT and
\* back to scl; val 0 when there is none.
RECURSIVE FindFree(_, _, _)
FindFree(v, n, scl) ==
    LET wrap == n + 1 >= n_fatent
        ncl == IF wrap THEN 2 ELSE n + 1
    IN IF wrap /\ 2 > scl THEN [v EXCEPT !.val = 0] ELSE
       Do(get_fat(v, ncl), LAMBDA a :
          IF a.val = FREE THEN [a EXCEPT !.val = ncl]
          ELSE IF ncl = scl THEN [a EXCEPT !.val = 0] ELSE FindFree(a, ncl, scl))

TakeOne(v, ncl) ==
    LET a == [v EXCEPT !.last = ncl, !.val = ncl] IN
    IF a.free > 0 /\ a.free <= n_fatent - 2
    THEN [a EXCEPT !.free = @ - 1, !.fsi = TRUE] ELSE a

\* A new chain starts after last_clst; a chain is stretched at the cluster
\* after its last one or, when that is taken, after last_clst.
FindRoom(v, c) ==
    LET start == IF v.last = 0 \/ v.last >= n_fatent THEN 1 ELSE v.last
        hint == IF v.last \in Clusters THEN v.last ELSE c
        next == IF c + 1 >= n_fatent THEN 2 ELSE c + 1
    IN IF c = 0 THEN FindFree(v, start, start) ELSE
       Do(get_fat(v, next), LAMBDA a :
          IF a.val = FREE THEN [a EXCEPT !.val = next] ELSE FindFree(a, hint, hint))

Allocate(v, c) ==
    IF v.free = 0 THEN [v EXCEPT !.val = 0] ELSE
    Do(FindRoom(v, c), LAMBDA a :
       LET ncl == a.val IN
       IF ncl = 0 THEN a ELSE
       Do(put_fat(a, ncl, EOC), LAMBDA b :
          Do(IF c = 0 THEN b ELSE put_fat(b, c, ncl), LAMBDA d : TakeOne(d, ncl))))

create_chain(v, c) ==
    IF c = 0 THEN Allocate(v, 0) ELSE
    Do(get_fat(v, c), LAMBDA a :
       CASE a.val < 2 -> Fail(a, "INT_ERR")
         [] a.val \in Clusters -> a
         [] OTHER -> Allocate(a, c))

--------------------------------------------------------------------------
(* Directories: the sector of a directory, found from the root.            *)

follow_path(v, f) ==
    Do(move_window(v, DirSector(Root)), LAMBDA a : move_window(a, DirSector(DirOf[f])))

EntryIn(v, f) == v.win[f]
SetEntry(v, f, e) == [v EXCEPT !.win[f] = e, !.wflag = TRUE]

dir_register(v, f) ==
    Do(move_window(v, DirSector(DirOf[f])), LAMBDA a :
       SetEntry(a, f, [sclust |-> 0, size |-> 0]))

dir_remove(v, f) ==
    Do(move_window(v, DirSector(DirOf[f])), LAMBDA a : SetEntry(a, f, Absent))

--------------------------------------------------------------------------
(* Files.                                                                  *)

Abort(v) == IF v.res = "OK" THEN v ELSE [v EXCEPT !.fp.err = v.res]

\* The sector of the file position in its cluster.
SectorInCluster(fp) == (fp.fptr \div SS) % csize

WriteBack(v) ==
    IF ~v.fp.dirty THEN v ELSE
    Do(disk_write(v, v.fp.sect, v.fp.buf), LAMBDA a : [a EXCEPT !.fp.dirty = FALSE])

\* A sector of the file comes into the buffer.
Fill(v, s) ==
    IF s = NoSector THEN Fail(v, "INT_ERR") ELSE
    Do(disk_read(v, s), LAMBDA a : [a EXCEPT !.fp.buf = a.disk[s]])

\* The entry of an existing file is emptied before its clusters are freed; the
\* hint is set whether or not the entry came back into the window.
Empty(v, f) ==
    LET cl == EntryIn(v, f).sclust
        a == SetEntry(v, f, [sclust |-> 0, size |-> 0])
    IN IF cl = 0 THEN a ELSE
       Do(remove_chain(a, cl, 0), LAMBDA b :
          [move_window(b, DirSector(DirOf[f])) EXCEPT !.last = cl - 1])

\* FA_OPEN_APPEND: follow the chain to the end of the file.
RECURSIVE FollowTo(_, _, _)
FollowTo(v, c, ofs) ==
    IF ofs <= Bytes THEN [v EXCEPT !.fp.clust = c, !.val = ofs] ELSE
    Do(get_fat(v, c), LAMBDA a :
       IF a.val < 2 THEN Fail(a, "INT_ERR") ELSE FollowTo(a, a.val, ofs - Bytes))

SeekEnd(v) ==
    LET size == v.fp.size IN
    IF size = 0 THEN v ELSE
    Do(FollowTo([v EXCEPT !.fp.fptr = size], v.fp.sclust, size), LAMBDA a :
       IF a.val % SS = 0 THEN a ELSE
       LET s == clst2sect(a.fp.clust, a.val \div SS) IN
       Fill([a EXCEPT !.fp.sect = s], s))

NewFile(f, mode, e) ==
    [open |-> TRUE, name |-> f, write |-> mode.write, modified |-> FALSE, dirty |-> FALSE,
     err |-> "OK", fptr |-> 0, clust |-> 0, sclust |-> e.sclust, size |-> e.size,
     sect |-> NoSector, buf |-> [i \in 0 .. SS - 1 |-> 0]]

\* mode.create: "none" opens an existing file, "new" wants none to exist,
\* "open" takes either, "always" empties the file.
OpenEntry(v, f, mode) ==
    LET there == EntryIn(v, f) # Absent IN
    CASE ~there /\ mode.create = "none" -> Fail(v, "NO_FILE")
      [] ~there /\ mode.create # "none" ->
            Do(dir_register(v, f), LAMBDA a : [Empty(a, f) EXCEPT !.val = 1])
      [] there /\ mode.create = "new" -> Fail(v, "EXIST")
      [] there /\ mode.create = "always" -> [Empty(v, f) EXCEPT !.val = 1]
      [] OTHER -> [v EXCEPT !.val = 0]

f_open(v, f, mode) ==
    Do(follow_path(v, f), LAMBDA a :
       Do(OpenEntry(a, f, mode), LAMBDA b :
          LET d == [b EXCEPT !.fp = [NewFile(f, mode, EntryIn(b, f))
                                     EXCEPT !.modified = b.val = 1]]
          IN IF mode.append THEN SeekEnd(d) ELSE d))

\* The cluster of the next sector when a reader reaches a cluster boundary.
NextToRead(v) ==
    IF SectorInCluster(v.fp) # 0 THEN v ELSE
    Do(IF v.fp.fptr = 0 THEN [v EXCEPT !.val = v.fp.sclust] ELSE get_fat(v, v.fp.clust),
       LAMBDA a : IF a.val < 2 THEN Fail(a, "INT_ERR") ELSE [a EXCEPT !.fp.clust = a.val])

Sectors(fp, n) == [i \in 1 .. n |-> DataSector(fp.clust, SectorInCluster(fp) + i - 1)]

RECURSIVE Cat(_, _, _)
Cat(v, sects, i) ==      \* the cells of the sectors i, i + 1, ... one after the other
    IF i > Len(sects) THEN <<>>
    ELSE [k \in 1 .. SS |-> (IF v.fp.dirty /\ v.fp.sect = sects[i]
                             THEN v.fp.buf ELSE v.disk[sects[i]])[k - 1]]
         \o Cat(v, sects, i + 1)

\* Whole sectors go straight to the caller, with the dirty sector of the
\* buffer in place of the stale one.
ReadDirect(v, n) ==
    LET sects == Sectors(v.fp, n) IN
    Do(disk_read(v, sects[1]), LAMBDA a :
       [a EXCEPT !.data = @ \o Cat(a, sects, 1), !.fp.fptr = @ + n * SS])

ReadBuffered(v, n) ==
    LET at == v.fp.fptr % SS
        cnt == Min2(SS - at, n)
    IN [v EXCEPT !.data = @ \o [k \in 1 .. cnt |-> v.fp.buf[at + k - 1]],
                 !.fp.fptr = @ + cnt]

LoadForRead(v, s) ==
    IF v.fp.sect = s THEN v ELSE
    Do(WriteBack(v), LAMBDA a : Do(Fill(a, s), LAMBDA b : [b EXCEPT !.fp.sect = s]))

RECURSIVE ReadLoop(_, _)
ReadLoop(v, upto) ==
    LET n == upto - v.fp.fptr IN
    IF v.res # "OK" \/ n = 0 THEN v
    ELSE IF v.fp.fptr % SS # 0 THEN ReadLoop(ReadBuffered(v, n), upto)
    ELSE ReadLoop(
           Do(NextToRead(v), LAMBDA a :
              LET s == clst2sect(a.fp.clust, SectorInCluster(a.fp))
                  cc == Min2(n \div SS, csize - SectorInCluster(a.fp))
              IN IF s = NoSector THEN Fail(a, "INT_ERR")
                 ELSE IF cc > 0 THEN ReadDirect(a, cc)
                 ELSE Do(LoadForRead(a, s), LAMBDA b : ReadBuffered(b, n))),
           upto)

f_read(v, n) ==
    IF v.fp.err # "OK" THEN Fail(v, v.fp.err) ELSE
    Abort(ReadLoop(v, Min2(v.fp.fptr + n, Max2(v.fp.size, v.fp.fptr))))

\* The cluster of the next sector when a writer reaches a cluster boundary;
\* val 0 when the volume is full.
NextToWrite(v) ==
    IF SectorInCluster(v.fp) # 0 THEN [v EXCEPT !.val = 1] ELSE
    Do(CASE v.fp.fptr # 0 -> create_chain(v, v.fp.clust)
         [] v.fp.fptr = 0 /\ v.fp.sclust = 0 -> create_chain(v, 0)
         [] OTHER -> [v EXCEPT !.val = v.fp.sclust],
       LAMBDA a : IF a.val = 0 THEN a
                  ELSE [a EXCEPT !.fp.clust = a.val,
                                 !.fp.sclust = IF @ = 0 THEN a.val ELSE @])

Advance(v, n) ==
    [v EXCEPT !.fp.fptr = @ + n, !.fp.size = Max2(@, v.fp.fptr + n)]

SectorOf(d) == [k \in 0 .. SS - 1 |-> d[k + 1]]

\* Whole sectors go straight to the disk and, when the buffer held one of
\* them, into the buffer.
RECURSIVE WriteSectors(_, _, _)
WriteSectors(v, sects, d) ==
    IF sects = <<>> THEN v ELSE
    Do(disk_write(v, Head(sects), SectorOf(d)), LAMBDA a :
       WriteSectors(a, Tail(sects), SubSeq(d, SS + 1, Len(d))))

WriteDirect(v, d, n) ==
    LET sects == Sectors(v.fp, n) IN
    Do(WriteSectors(v, sects, d), LAMBDA a :
       Advance(IF \E i \in 1 .. n : sects[i] = a.fp.sect
               THEN [a EXCEPT !.fp.buf = a.disk[a.fp.sect], !.fp.dirty = FALSE]
               ELSE a, n * SS))

WriteBuffered(v, d) ==
    LET at == v.fp.fptr % SS
        cnt == Min2(SS - at, Len(d))
    IN Advance([v EXCEPT !.fp.dirty = TRUE,
                         !.fp.buf = [k \in 0 .. SS - 1 |->
                             IF k \in at .. at + cnt - 1 THEN d[k - at + 1] ELSE @[k]]], cnt)

LoadForWrite(v, s) ==
    Do(IF v.fp.sect # s /\ v.fp.fptr < v.fp.size THEN Fill(v, s) ELSE v,
       LAMBDA a : [a EXCEPT !.fp.sect = s])

RECURSIVE WriteLoop(_, _, _)
WriteLoop(v, d, top) ==      \* top: where the first cell of d goes in the file
    LET rest == SubSeq(d, v.fp.fptr - top + 1, Len(d)) IN
    IF v.res # "OK" \/ rest = <<>> THEN v
    ELSE IF v.fp.fptr % SS # 0 THEN WriteLoop(WriteBuffered(v, rest), d, top)
    ELSE LET a == NextToWrite(v) IN
         IF a.res = "OK" /\ a.val = 0 THEN a       \* disk full
         ELSE WriteLoop(
                Do(a, LAMBDA b : Do(WriteBack(b), LAMBDA e :
                   LET s == clst2sect(e.fp.clust, SectorInCluster(e.fp))
                       cc == Min2(Len(rest) \div SS, csize - SectorInCluster(e.fp))
                   IN IF s = NoSector THEN Fail(e, "INT_ERR")
                      ELSE IF cc > 0 THEN WriteDirect(e, rest, cc)
                      ELSE Do(LoadForWrite(e, s), LAMBDA g : WriteBuffered(g, rest)))),
                d, top)

f_write(v, d) ==
    CASE v.fp.err # "OK" -> Fail(v, v.fp.err)
      [] ~v.fp.write -> Fail(v, "DENIED")
      [] OTHER -> LET a == Abort(WriteLoop(v, d, v.fp.fptr)) IN
                  IF a.res = "OK" THEN [a EXCEPT !.fp.modified = TRUE] ELSE a

\* Mutant of f_sync: the directory entry stays in the window.
SyncInWindow(v) ==
    IF ~v.fp.modified THEN v ELSE
    Do(WriteBack(v), LAMBDA a :
       Do(move_window(a, DirSector(DirOf[a.fp.name])), LAMBDA b :
          LET e == [sclust |-> b.fp.sclust, size |-> b.fp.size] IN
          [SetEntry(b, b.fp.name, e) EXCEPT !.fp.modified = FALSE]))

f_sync(v) ==
    IF ~v.fp.modified THEN v ELSE
    Do(WriteBack(v), LAMBDA a :
       Do(move_window(a, DirSector(DirOf[a.fp.name])), LAMBDA b :
          LET e == [sclust |-> b.fp.sclust, size |-> b.fp.size] IN
          [sync_fs(SetEntry(b, b.fp.name, e)) EXCEPT !.fp.modified = FALSE]))

f_close(v) == Do(f_sync(v), LAMBDA a : [a EXCEPT !.fp = Closed])

\* Following the chain to the cluster of ofs; a file open for writing is
\* stretched on the way.  val: what remains of ofs, 0 when the volume is full.
RECURSIVE SeekLoop(_, _, _)
SeekLoop(v, c, ofs) ==
    IF ofs <= Bytes THEN [v EXCEPT !.fp.fptr = @ + ofs, !.fp.clust = c, !.val = ofs] ELSE
    LET a == [v EXCEPT !.fp.fptr = @ + Bytes]
        b == IF a.fp.write THEN create_chain(a, c) ELSE get_fat(a, c)
    IN Do(b, LAMBDA d :
          CASE d.val = 0 /\ d.fp.write -> [d EXCEPT !.val = 0]
            [] d.val \in Clusters -> SeekLoop([d EXCEPT !.fp.clust = d.val], d.val, ofs - Bytes)
            [] OTHER -> Fail(d, "INT_ERR"))

\* From the current cluster or, to go back, from the first one (which a file
\* without clusters is given first, whatever its mode).
SeekTo(v, ofs) ==
    LET at == v.fp.fptr
        here == ((at - 1) \div Bytes) * Bytes
    IN IF at > 0 /\ (ofs - 1) \div Bytes >= (at - 1) \div Bytes
       THEN SeekLoop([v EXCEPT !.fp.fptr = here], v.fp.clust, ofs - here)
       ELSE LET z == [v EXCEPT !.fp.fptr = 0] IN
            Do(IF v.fp.sclust # 0 THEN [z EXCEPT !.val = v.fp.sclust] ELSE create_chain(z, 0),
               LAMBDA a : LET b == [a EXCEPT !.fp.sclust = a.val, !.fp.clust = a.val] IN
                          IF a.val = 0 THEN b ELSE SeekLoop(b, a.val, ofs))

Settle(v) ==     \* size and buffer at the new position
    LET a == IF v.fp.fptr > v.fp.size
             THEN [v EXCEPT !.fp.size = v.fp.fptr, !.fp.modified = TRUE] ELSE v
        s == clst2sect(a.fp.clust, a.val \div SS)
    IN IF a.fp.fptr % SS = 0 \/ s = a.fp.sect THEN a ELSE
       Do(WriteBack(a), LAMBDA b : Do(Fill(b, s), LAMBDA d : [d EXCEPT !.fp.sect = s]))

f_lseek(v, to) ==
    LET ofs == IF v.fp.write THEN to ELSE Min2(to, v.fp.size) IN
    IF v.fp.err # "OK" THEN Fail(v, v.fp.err)
    ELSE IF ofs = 0 THEN [v EXCEPT !.fp.fptr = 0]
    ELSE Abort(Do(SeekTo(v, ofs), Settle))

\* Mutant of Cut: what is left of the chain does not end.
CutLoose(v) ==
    IF v.fp.fptr = 0
    THEN [remove_chain(v, v.fp.sclust, 0) EXCEPT !.fp.sclust = 0]
    ELSE Do(get_fat(v, v.fp.clust), LAMBDA a :
            IF a.val < n_fatent THEN remove_chain(a, a.val, 0) ELSE a)

Cut(v) ==
    IF v.fp.fptr = 0
    THEN [remove_chain(v, v.fp.sclust, 0) EXCEPT !.fp.sclust = 0]
    ELSE Do(get_fat(v, v.fp.clust), LAMBDA a :
            IF a.val < n_fatent THEN remove_chain(a, a.val, a.fp.clust) ELSE a)

f_truncate(v) ==
    CASE v.fp.err # "OK" -> Fail(v, v.fp.err)
      [] ~v.fp.write -> Fail(v, "DENIED")
      [] v.fp.fptr >= v.fp.size -> v
      [] OTHER -> LET a == [Cut(v) EXCEPT !.fp.size = v.fp.fptr, !.fp.modified = TRUE]
                  IN Abort(Do(a, WriteBack))

\* f_expand looks for n free clusters in a row from clst on, of which the
\* last have[2] starting at have[1] were free; around the FAT once, to stcl.
RECURSIVE FindRun(_, _, _, _, _)
FindRun(v, clst, stcl, have, n) ==
    Do(get_fat(v, clst), LAMBDA a :
       LET next == IF clst + 1 >= n_fatent THEN 2 ELSE clst + 1
           got == IF a.val = FREE THEN <<have[1], have[2] + 1>> ELSE <<next, 0>>
       IN CASE got[2] = n -> [a EXCEPT !.val = got[1]]
            [] got[2] # n /\ next = stcl -> Fail(a, "DENIED")
            [] OTHER -> FindRun(a, next, stcl, got, n))

RECURSIVE PutRun(_, _, _)
PutRun(v, c, n) ==
    Do(put_fat(v, c, IF n = 1 THEN EOC ELSE c + 1), LAMBDA a :
       IF n = 1 THEN a ELSE PutRun(a, c + 1, n - 1))

\* now: allocate at once, or only aim the next allocation at the block.
f_expand(v, fsz, now) ==
    LET n == (fsz + Bytes - 1) \div Bytes
        stcl == IF v.last \in Clusters THEN v.last ELSE 2
    IN CASE v.fp.err # "OK" -> Fail(v, v.fp.err)
         [] v.fp.size # 0 \/ ~v.fp.write -> Fail(v, "DENIED")
         [] OTHER ->
            Do(FindRun(v, stcl, stcl, <<stcl, 0>>, n), LAMBDA a :
               LET scl == a.val IN
               IF ~now THEN [a EXCEPT !.last = scl - 1] ELSE
               Do(PutRun(a, scl, n), LAMBDA b :
                  LET d == [b EXCEPT !.last = scl + n - 1, !.fp.sclust = scl,
                                     !.fp.size = fsz, !.fp.modified = TRUE] IN
                  IF d.free > n_fatent - 2 THEN d
                  ELSE [d EXCEPT !.free = IF @ < n THEN Unknown ELSE @ - n, !.fsi = TRUE]))

\* Mutant of f_unlink: the clusters are freed before the entry goes.
UnlinkLate(v, f) ==
    Do(follow_path(v, f), LAMBDA a :
       LET dclst == EntryIn(a, f).sclust IN
       IF EntryIn(a, f) = Absent THEN Fail(a, "NO_FILE") ELSE
       Do(IF dclst = 0 THEN a ELSE remove_chain(a, dclst, 0), LAMBDA b :
          Do(dir_remove(b, f), sync_fs)))

f_unlink(v, f) ==
    Do(follow_path(v, f), LAMBDA a :
       LET dclst == EntryIn(a, f).sclust IN
       IF EntryIn(a, f) = Absent THEN Fail(a, "NO_FILE") ELSE
       Do(dir_remove(a, f), LAMBDA b :
          Do(IF dclst = 0 THEN b ELSE remove_chain(b, dclst, 0), sync_fs)))

f_rename(v, f, g) ==
    Do(follow_path(v, f), LAMBDA a :
       LET e == EntryIn(a, f) IN
       IF e = Absent THEN Fail(a, "NO_FILE") ELSE
       Do(follow_path(a, g), LAMBDA b :
          IF EntryIn(b, g) # Absent THEN Fail(b, "EXIST") ELSE
          Do(dir_register(b, g), LAMBDA c :
             Do(dir_remove(SetEntry(c, g, e), f), sync_fs))))

\* The FAT is only read through when the count is not known.
RECURSIVE ScanFat(_, _)
ScanFat(v, c) ==
    IF c = n_fatent THEN [v EXCEPT !.free = v.val, !.fsi = TRUE] ELSE
    Do(move_window(v, FatSector(c)), LAMBDA a :
       ScanFat(IF a.win[c] = FREE THEN [a EXCEPT !.val = @ + 1] ELSE a, c + 1))

f_getfree(v) ==
    IF v.free <= n_fatent - 2 THEN v ELSE ScanFat([v EXCEPT !.val = 0], 2)

--------------------------------------------------------------------------
(* What the volume holds, as the driver sees it (through the window) and as *)
(* the next mount would find it (on the disk).                              *)

InWindow(s) == IF s = vol.winsect THEN vol.win ELSE vol.disk[s]
FatNow == [c \in Clusters |-> InWindow(FatSector(c))[c]]
FatOnDisk == [c \in Clusters |-> vol.disk[FatSector(c)][c]]
EntryNow(f) == InWindow(DirSector(DirOf[f]))[f]
EntryOnDisk(f) == vol.disk[DirSector(DirOf[f])][f]

\* The k-th cluster of a chain, from 0; EOC past its end.
Follow(fat, c, k) ==
    LET walk[i \in 0 .. k] ==
            IF i = 0 THEN c ELSE IF walk[i - 1] \in Clusters THEN fat[walk[i - 1]] ELSE EOC
    IN walk[k]
ChainOf(fat, c) == {Follow(fat, c, k) : k \in 0 .. Cardinality(Clusters)} \cap Clusters

Hole == 99      \* a cell of a file that no sector holds

\* The cells of a file, its sectors read by Read.
CellsOf(fat, sclust, size, Read(_)) ==
    [i \in 1 .. size |->
        LET s == clst2sect(Follow(fat, sclust, (i - 1) \div Bytes), ((i - 1) \div SS) % csize)
        IN IF s \in DataSectors THEN Read(s)[(i - 1) % SS] ELSE Hole]

OnDisk(f) ==
    LET e == EntryOnDisk(f) IN
    IF e = Absent THEN <<>> ELSE CellsOf(FatOnDisk, e.sclust, e.size, LAMBDA s : vol.disk[s])

WritersOf(f) == {h \in Handles : fil[h].open /\ fil[h].name = f /\ fil[h].write}
OpenOf(f) == {h \in Handles : fil[h].open /\ fil[h].name = f}

\* A file as its writer sees it, with the sector in its buffer; without a
\* writer, as its directory entry says.
Contents(f) ==
    IF WritersOf(f) # {}
    THEN LET fp == fil[CHOOSE h \in WritersOf(f) : TRUE] IN
         CellsOf(FatNow, fp.sclust, fp.size,
                 LAMBDA s : IF fp.dirty /\ fp.sect = s THEN fp.buf ELSE vol.disk[s])
    ELSE CellsOf(FatNow, EntryNow(f).sclust, EntryNow(f).size, LAMBDA s : vol.disk[s])

--------------------------------------------------------------------------
(* The calls.  An interrupted call leaves what was written of it, and the   *)
(* next thing that happens is f_mount.                                      *)

Begin(fp, fault) ==
    [disk |-> vol.disk, win |-> vol.win, winsect |-> vol.winsect, wflag |-> vol.wflag,
     free |-> vol.free, last |-> vol.last, fsi |-> vol.fsi,
     fp |-> fp, res |-> "OK", val |-> 0, data |-> <<>>, fault |-> fault]

Volume(v) ==
    [disk |-> v.disk, win |-> v.win, winsect |-> v.winsect, wflag |-> v.wflag,
     free |-> v.free, last |-> v.last, fsi |-> v.fsi]

\* f_mount: nothing in the window, the allocation information from FSInfo.
Mounted(disk) ==
    [disk |-> disk, win |-> disk[FsiSector], winsect |-> FsiSector, wflag |-> FALSE,
     free |-> disk[FsiSector].free, last |-> disk[FsiSector].last, fsi |-> FALSE]

Choices ==
    {NoFault} \cup (IF faults = MaxFaults THEN {}
                   ELSE [kind : Faults, left : 0 .. MaxAccess])

\* The power fails before the next sector is written, or one access to the
\* disk has failed.
PowerFails(fault, v) == fault.kind = "power" /\ v.fault.left = 0
Completes(fault, v) == fault = NoFault \/ (fault.kind = "error" /\ v.fault = NoFault)

PowerLoss(v, subjects, owes) ==
    /\ vol' = Mounted(v.disk)
    /\ fil' = [h \in Handles |-> Closed]
    /\ damaged' = damaged \cup subjects \cup {f \in Names : WritersOf(f) # {}}
    /\ owed' = owes
    /\ out' = [call |-> "power", asked |-> 0, data |-> <<>>]
    /\ faults' = faults + 1

Broken(v) == v.res \in {"DISK_ERR", "INT_ERR"}

Return(name, fault, v, asked, data, hurt, mended) ==
    /\ vol' = Volume(v)
    /\ out' = IF v.res = "OK" THEN [call |-> name, asked |-> asked, data |-> data]
              ELSE [call |-> "failed", asked |-> 0, data |-> <<>>]
    /\ faults' = IF fault = NoFault THEN faults ELSE faults + 1
    /\ damaged' = CASE v.res = "OK" -> mended [] Broken(v) -> hurt [] OTHER -> damaged

\* A call on file object h.  owes: what is owed when the call is begun on,
\* vouched: what is owed when it succeeds.  given: the data passed in.
OnFile(h, name, Op(_), asked, given, owes, vouched) ==
    /\ calls < MaxCalls /\ calls' = calls + 1
    /\ fil[h].open
    /\ \E fault \in Choices :
         LET v == Op(Begin(fil[h], fault)) IN
         \/ PowerFails(fault, v) /\ PowerLoss(v, {}, owes)
         \/ /\ Completes(fault, v)
            /\ Return(name, fault, v, asked, given \o v.data, damaged \cup {fil[h].name}, damaged)
            /\ fil' = [fil EXCEPT ![h] = v.fp]
            /\ owed' = IF v.res = "OK" THEN vouched ELSE owes

\* A call by path, about the files subject.  Until its entry has changed on
\* the disk a file is owed in full: Owes(w) when the disk is w.
ByPath(name, Op(_), subject, Owes(_), mended, Files(_)) ==
    /\ calls < MaxCalls /\ calls' = calls + 1
    /\ \E fault \in Choices :
         LET v == Op(Begin(Closed, fault)) IN
         \/ PowerFails(fault, v) /\ PowerLoss(v, subject, Owes(v.disk))
         \/ /\ Completes(fault, v)
            /\ Return(name, fault, v, 0, <<>>, damaged \cup subject, mended)
            /\ fil' = IF v.res = "OK" THEN Files(v) ELSE fil
            /\ owed' = Owes(v.disk)

Gone(disk, f) == disk[DirSector(DirOf[f])][f].size = 0
First(cells, n) == SubSeq(cells, 1, Min2(n, Len(cells)))

Open(h, f, mode) ==
    /\ ~fil[h].open
    /\ IF mode.write THEN OpenOf(f) = {} ELSE WritersOf(f) = {}
    /\ LET emptied == mode.create = "always" \/ EntryNow(f) = Absent IN
       ByPath("f_open", LAMBDA v : f_open(v, f, mode),
              IF mode.create = "none" THEN {} ELSE {f},
              LAMBDA w : [owed EXCEPT ![f] = IF Gone(w, f) \/ emptied THEN <<>> ELSE @],
              IF emptied THEN damaged \ {f} ELSE damaged,
              LAMBDA v : [fil EXCEPT ![h] = v.fp])

Read(h, n) == OnFile(h, "f_read", LAMBDA v : f_read(v, n), n, <<>>, owed, owed)

\* Overwriting gives up what was vouched for from there on.
Write(h, d) ==
    /\ fil[h].open /\ fil[h].write /\ fil[h].fptr + Len(d) <= MaxSize
    /\ LET kept == [owed EXCEPT ![fil[h].name] = First(@, fil[h].fptr)] IN
       OnFile(h, "f_write", LAMBDA v : f_write(v, d), Len(d), d, kept, kept)

Seek(h, ofs) == OnFile(h, "f_lseek", LAMBDA v : f_lseek(v, ofs), ofs, <<>>, owed, owed)

Truncate(h) ==
    /\ fil[h].open /\ fil[h].write /\ fil[h].fptr \in Cuts
    /\ LET kept == [owed EXCEPT ![fil[h].name] = First(@, fil[h].fptr)] IN
       OnFile(h, "f_truncate", f_truncate, 0, <<>>, kept, kept)

Expand(h, fsz, now) ==
    /\ fil[h].open /\ fil[h].write
    /\ OnFile(h, "f_expand", LAMBDA v : f_expand(v, fsz, now), fsz, <<>>, owed, owed)

\* A success vouches for the file as its writer sees it.
Vouched(h) ==
    IF fil[h].open /\ fil[h].write
    THEN [owed EXCEPT ![fil[h].name] = Contents(fil[h].name)] ELSE owed

Sync(h) == OnFile(h, "f_sync", f_sync, 0, <<>>, owed, Vouched(h))
Close(h) == OnFile(h, "f_close", f_close, 0, <<>>, owed, Vouched(h))

Unlink(f) ==
    /\ OpenOf(f) = {}
    /\ ByPath("f_unlink", LAMBDA v : f_unlink(v, f), {f},
              LAMBDA w : [owed EXCEPT ![f] = IF Gone(w, f) THEN <<>> ELSE @],
              damaged \ {f}, LAMBDA v : fil)

\* The new name takes over what is owed once the old one is gone.
Rename(f, g) ==
    /\ OpenOf(f) = {} /\ OpenOf(g) = {}
    /\ ByPath("f_rename", LAMBDA v : f_rename(v, f, g), {f, g},
              LAMBDA w : IF Gone(w, f) /\ ~Gone(w, g) /\ EntryNow(g) = Absent
                         THEN [owed EXCEPT ![f] = <<>>, ![g] = owed[f]] ELSE owed,
              (damaged \ {f, g}) \cup (IF f \in damaged THEN {g} ELSE {}), LAMBDA v : fil)

GetFree == ByPath("f_getfree", f_getfree, {}, LAMBDA w : owed, damaged, LAMBDA v : fil)

--------------------------------------------------------------------------
\* A volume as f_mkfs leaves it, with the allocation information or without.
NewFat == [c \in Clusters |-> IF c \in DirClusters THEN EOC ELSE FREE]

Init ==
    \E info \in {[free |-> n_fatent - 2 - Cardinality(DirClusters),
                 last |-> CHOOSE d \in DirClusters : \A e \in DirClusters : d >= e],
                [free |-> Unknown, last |-> Unknown]} :
    LET part(k) == [c \in {d \in Clusters : d \div PerSector = k} |-> NewFat[c]]
        dir(d) == [f \in {g \in Names : DirOf[g] = d} |-> Absent]
        blank == [s \in FatSectors \cup {Mirror(t) : t \in FatSectors}
                     \cup {DirSector(d) : d \in DirClusters} \cup {FsiSector} \cup DataSectors |->
                  CASE s[1] \in {"fat", "fat2"} -> part(s[2])
                    [] s[1] = "dir" -> dir(s[2])
                    [] s[1] = "fsi" -> info
                    [] OTHER -> [i \in 0 .. SS - 1 |-> 0]]
    IN /\ vol = Mounted(blank)
       /\ fil = [h \in Handles |-> Closed]
       /\ out = [call |-> "mount", asked |-> 0, data |-> <<>>]
       /\ damaged = {} /\ owed = [f \in Names |-> <<>>]
       /\ calls = 0 /\ faults = 0

Next ==
    \/ \E h \in Handles, f \in Names, mode \in Modes : Open(h, f, mode)
    \/ \E h \in Handles, n \in Lengths : Read(h, n)
    \/ \E h \in Handles, n \in Lengths, c \in Cells : Write(h, [i \in 1 .. n |-> c])
    \/ \E h \in Handles, ofs \in Offsets : Seek(h, ofs)
    \/ \E h \in Handles : Truncate(h)
    \/ \E h \in Handles, fsz \in Extents, now \in BOOLEAN : Expand(h, fsz, now)
    \/ \E h \in Handles : Sync(h)
    \/ \E h \in Handles : Close(h)
    \/ \E f \in Names : Unlink(f)
    \/ \E m \in Moves : Rename(m[1], m[2])
    \/ GetFree

Spec == Init /\ [][Next]_vars

--------------------------------------------------------------------------
(* Properties.                                                             *)

\* The variables hold what the code's structures can hold.
TypeOK ==
    /\ DOMAIN vol = {"disk", "win", "winsect", "wflag", "free", "last", "fsi"}
    /\ vol.wflag \in BOOLEAN /\ vol.fsi \in BOOLEAN
    /\ vol.winsect \in DOMAIN vol.disk \cup {NoSector}
    /\ \A c \in Clusters : FatNow[c] \in {FREE, EOC} \cup Clusters
    /\ \A h \in Handles : fil[h].open /\ fil[h].err = "OK" =>
          fil[h].fptr <= fil[h].size /\ fil[h].size <= MaxSize /\ fil[h].name \in Names
    /\ damaged \subseteq Names
    /\ calls \in 0 .. MaxCalls /\ faults \in 0 .. MaxFaults

\* What a file's chain starts with: its writer knows best.
HeadOf(f) == IF WritersOf(f) # {} THEN fil[CHOOSE h \in WritersOf(f) : TRUE].sclust
             ELSE IF EntryNow(f) = Absent THEN 0 ELSE EntryNow(f).sclust
SizeOf(f) == IF WritersOf(f) # {} THEN fil[CHOOSE h \in WritersOf(f) : TRUE].size
             ELSE EntryNow(f).size

\* No cluster is in the chains of two files or of a directory (create_chain,
\* remove_chain), and none in a chain is free to be given to another file.
NoCrossLink ==
    /\ \A f, g \in Names : f # g =>
          ChainOf(FatNow, HeadOf(f)) \cap ChainOf(FatNow, HeadOf(g)) = {}
    /\ \A f \in Names : \A c \in ChainOf(FatNow, HeadOf(f)) :
          c \notin DirClusters /\ FatNow[c] # FREE

\* The chain of a file that no fault has hit is long enough for its size, so
\* that f_read and f_lseek never run off its end.
ChainCoversFile ==
    \A f \in Names \ damaged : SizeOf(f) <= Bytes * Cardinality(ChainOf(FatNow, HeadOf(f)))

\* free_clst, when known, is the number of free clusters in the FAT: neither
\* a volume with room is refused as full nor the count runs below zero.
FreeCountExact ==
    faults = 0 => vol.free = Unknown \/ vol.free = Cardinality({c \in Clusters : FatNow[c] = FREE})

\* f_write takes less than it is given only when no cluster is free.
TakesAllOrIsFull ==
    out'.call = "f_write" /\ (\E h \in Handles : fil'[h].open /\ fil'[h] # fil[h]
                              /\ fil'[h].fptr < fil[h].fptr + out'.asked)
    => \A c \in Clusters : FatNow'[c] # FREE
FullMeansFull == [][TakesAllOrIsFull]_vars

\* Whatever a successful f_sync or f_close vouched for, and was not overwritten
\* or removed by a later call, is what the next mount finds on the disk, at
\* whichever write the power fails, in whichever call, on whichever file.  (Not so
\* when f_truncate cut the file to nothing and another got its clusters.)
VouchedIsOnDisk == \A f \in Names : First(OnDisk(f), Len(owed[f])) = owed[f]

\* Without faults no cluster gets lost: one that is not free is in the chain
\* of a file or a directory.
NoLostCluster ==
    faults = 0 => \A c \in Clusters \ DirClusters :
        FatNow[c] # FREE => \E f \in Names : c \in ChainOf(FatNow, HeadOf(f))

\* f_expand gives the file its size or, when there are not enough free clusters
\* in a row, takes none.
ExpandWhollyOrNotAtAll ==
    [][\A h \in Handles, fsz \in Extents :
          Expand(h, fsz, TRUE) /\ faults' = faults =>
             fil'[h].size = fsz \/ FatNow' = FatNow]_vars

\* Files behave as sequences of cells, and a fault harms no file but those
\* it found being changed.
Exists(f) == WritersOf(f) # {} \/ EntryNow(f) # Absent

File == INSTANCE FileSpec WITH
    contents <- [f \in Names |-> IF f \in damaged THEN [state |-> "damaged"]
                                 ELSE IF Exists(f) THEN [state |-> "file", cells |-> Contents(f)]
                                 ELSE [state |-> "none"]],
    handle <- [h \in Handles |-> IF fil[h].open
                                 THEN [open |-> TRUE, name |-> fil[h].name,
                                       write |-> fil[h].write, pos |-> fil[h].fptr]
                                 ELSE Closed]
ImplementsFileSpec == File!Spec

=============================================================================
