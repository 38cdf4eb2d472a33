------------------------------ MODULE FileSpec ------------------------------
(* What ff.c promises to a program: files are sequences of cells, each open *)
(* file has a position, and a fault harms at most the files that were being *)
(* changed.  out shows a call with what was asked for and the cells that    *)
(* went over the interface.                                                 *)
EXTENDS Naturals, Sequences

CONSTANTS Names, Handles

VARIABLES contents, handle, out

vars == <<contents, handle, out>>

NoFile == [state |-> "none"]
Damaged == [state |-> "damaged"]
File(cells) == [state |-> "file", cells |-> cells]
IsFile(x) == x.state = "file"
Shut == [open |-> FALSE]
Opened(f, write, pos) == [open |-> TRUE, name |-> f, write |-> write, pos |-> pos]

Upto(s, n) == SubSeq(s, 1, IF n < Len(s) THEN n ELSE Len(s))

\* The cells d over those of s from position pos on.
Over(s, pos, d) == Upto(s, pos) \o d \o SubSeq(s, pos + Len(d) + 1, Len(s))

Init ==
    /\ contents = [f \in Names |-> NoFile]
    /\ handle = [h \in Handles |-> Shut]
    /\ out = [call |-> "mount", asked |-> 0, data |-> <<>>]

Now(h) == contents[handle[h].name]
CellsNow(h) == Now(h).cells
Moved(h, pos) == handle' = [handle EXCEPT ![h].pos = pos]
Changed(h, s) == contents' = [contents EXCEPT ![handle[h].name] = File(s)]

Open(h, f) ==
    /\ out'.call = "f_open" /\ handle[h] = Shut
    /\ contents' \in {contents, [contents EXCEPT ![f] = File(<<>>)]}
    /\ contents'[f] # NoFile
    /\ \E write \in BOOLEAN :
         /\ write \/ contents' = contents
         /\ \E pos \in IF IsFile(contents'[f]) THEN {0, Len(contents'[f].cells)} ELSE 0 .. 99 :
              handle' = [handle EXCEPT ![h] = Opened(f, write, pos)]

Read(h) ==
    /\ out'.call = "f_read" /\ handle[h] # Shut /\ contents' = contents
    /\ Moved(h, handle'[h].pos)
    /\ IsFile(Now(h)) =>
         /\ out'.data = SubSeq(CellsNow(h), handle[h].pos + 1, handle'[h].pos)
         /\ handle'[h].pos = handle[h].pos + out'.asked \/ handle'[h].pos = Len(CellsNow(h))

\* A volume that is full may take less than asked for.
Write(h) ==
    /\ out'.call = "f_write" /\ handle[h] # Shut /\ handle[h].write
    /\ Moved(h, handle'[h].pos)
    /\ LET n == handle'[h].pos - handle[h].pos IN
         /\ handle'[h].pos >= handle[h].pos
         /\ IsFile(Now(h)) =>
              n <= out'.asked /\ Changed(h, Over(CellsNow(h), handle[h].pos, Upto(out'.data, n)))
         /\ ~IsFile(Now(h)) => contents' = contents

\* Beyond its end a file open for writing is extended, with no cells in
\* particular.
Seek(h) ==
    /\ out'.call = "f_lseek" /\ handle[h] # Shut
    /\ Moved(h, handle'[h].pos)
    /\ IF IsFile(Now(h))
       THEN LET s == contents'[handle[h].name].cells IN
            /\ Changed(h, s) /\ handle'[h].pos <= out'.asked
            /\ Upto(s, Len(CellsNow(h))) = CellsNow(h)
            /\ Len(s) = IF handle'[h].pos > Len(CellsNow(h)) THEN handle'[h].pos ELSE Len(CellsNow(h))
            /\ handle[h].write \/ s = CellsNow(h)
            /\ handle'[h].pos = out'.asked \/ handle'[h].pos >= Len(CellsNow(h))
       ELSE contents' = contents

Truncate(h) ==
    /\ out'.call = "f_truncate" /\ handle[h] # Shut /\ handle[h].write
    /\ handle' = handle
    /\ IF IsFile(Now(h)) THEN Changed(h, Upto(CellsNow(h), handle[h].pos)) ELSE contents' = contents

Expand(h) ==
    /\ out'.call = "f_expand" /\ handle[h] # Shut /\ handle[h].write /\ handle' = handle
    /\ IF IsFile(Now(h))
       THEN LET s == contents'[handle[h].name].cells IN
            CellsNow(h) = <<>> /\ Changed(h, s) /\ Len(s) \in {0, out'.asked}
       ELSE contents' = contents

Sync(h) == out'.call = "f_sync" /\ handle[h] # Shut /\ UNCHANGED <<contents, handle>>

Close(h) ==
    /\ out'.call = "f_close" /\ handle[h] # Shut
    /\ handle' = [handle EXCEPT ![h] = Shut] /\ contents' = contents

Unlink(f) ==
    /\ out'.call = "f_unlink" /\ contents[f] # NoFile /\ handle' = handle
    /\ contents' = [contents EXCEPT ![f] = NoFile]

Rename(f, g) ==
    /\ out'.call = "f_rename" /\ contents[f] # NoFile /\ contents[g] \in {NoFile, Damaged}
    /\ contents' = [contents EXCEPT ![f] = NoFile, ![g] = contents[f]]
    /\ handle' = handle

Refused == out'.call \in {"failed", "f_getfree"} /\ UNCHANGED <<contents, handle>>

\* The power fails: every file is closed, and only files that were open for
\* writing or that the interrupted call was about (at most two) are damaged.
PowerFails ==
    /\ out'.call = "power" /\ handle' = [h \in Handles |-> Shut]
    /\ \E about \in SUBSET Names :
         LET writers == {f \in Names : \E h \in Handles :
                            handle[h] # Shut /\ handle[h].name = f /\ handle[h].write}
             idle == {f \in about : \A h \in Handles : handle[h] # Shut => handle[h].name # f}
         IN /\ about \subseteq idle /\ \E f, g \in Names : about \subseteq {f, g}
            /\ contents' = [f \in Names |-> IF f \in writers \cup about THEN Damaged ELSE contents[f]]

\* An access to the disk fails: only the files the call was about suffer.
DiskFails ==
    /\ out'.call = "failed"
    /\ \E f, g \in Names :
         /\ contents' = [contents EXCEPT ![f] = Damaged, ![g] = Damaged]
         /\ \A h \in Handles : handle'[h] # handle[h] =>
              handle[h] # Shut /\ handle'[h] # Shut /\ handle[h].name \in {f, g}

Next ==
    \/ \E h \in Handles, f \in Names : Open(h, f)
    \/ \E h \in Handles : \/ Read(h) \/ Write(h) \/ Seek(h) \/ Truncate(h)
                          \/ Expand(h) \/ Sync(h) \/ Close(h)
    \/ \E f \in Names : Unlink(f)
    \/ \E f, g \in Names : Rename(f, g)
    \/ Refused \/ PowerFails \/ DiskFails

Spec == Init /\ [][Next]_vars
=============================================================================
