------------------------------- MODULE MCFatFs -------------------------------
(* FatFs for TLC: volumes of a few clusters, with the root directory in        *)
(* cluster 2 and a directory "sub" in cluster 3.  A behaviour runs on one of   *)
(* the volumes below.                                                          *)
EXTENDS FiniteSets, Naturals, Sequences, TLC

CONSTANTS f1, f2, h1, h2

VARIABLES
    setup,                                           \* the volume
    vol, fil, out, damaged, owed, calls, faults      \* FatFs

vars == <<setup, vol, fil, out, damaged, owed, calls, faults>>

Both == {f1, f2}
InRoot == [f \in Both |-> 2]

\* How files are opened: FA_READ, FA_READ | FA_WRITE, with FA_CREATE_NEW,
\* FA_CREATE_ALWAYS, and FA_OPEN_APPEND.
Reading == [write |-> FALSE, create |-> "none", append |-> FALSE]
Update == [write |-> TRUE, create |-> "none", append |-> FALSE]
CreateNew == [write |-> TRUE, create |-> "new", append |-> FALSE]
CreateAlways == [write |-> TRUE, create |-> "always", append |-> FALSE]
Appending == [write |-> TRUE, create |-> "open", append |-> TRUE]

\* Two files in two directories, on a volume that gets full.
Files == INSTANCE FatFs
         WITH Names <- Both, Root <- 2, DirOf <- [f \in Both |-> IF f = f1 THEN 2 ELSE 3],
              n_fatent <- 7, PerSector <- 5, n_fats <- 1, csize <- 1, SS <- 2, Cells <- {1},
              Handles <- {h1, h2}, Modes <- {Reading, Update, CreateNew, CreateAlways, Appending},
              Lengths <- {1, 3}, Offsets <- {0, 3}, Cuts <- {0, 1, 2, 3, 4}, Extents <- {3},
              Moves <- {<<f1, f2>>}, Faults <- {}, MaxSize <- 4, MaxAccess <- 12, MaxCalls <- 5,
              MaxFaults <- 0

\* One file, and clusters of two sectors.
Sectors == INSTANCE FatFs
           WITH Names <- {f1}, Root <- 2, DirOf <- [f \in {f1} |-> 2],
                n_fatent <- 5, PerSector <- 5, n_fats <- 1, csize <- 2, SS <- 2, Cells <- {1, 2},
                Handles <- {h1}, Modes <- {CreateAlways, Appending},
                Lengths <- {1, 5}, Offsets <- {0, 3, 5}, Cuts <- {0, 1, 2, 3, 4}, Extents <- {},
                Moves <- {}, Faults <- {}, MaxSize <- 8, MaxAccess <- 12, MaxCalls <- 5,
                MaxFaults <- 0

\* The power fails, once, before one of the writes.
Power == INSTANCE FatFs
         WITH Names <- Both, Root <- 2, DirOf <- InRoot,
              n_fatent <- 6, PerSector <- 4, n_fats <- 2, csize <- 1, SS <- 2, Cells <- {1},
              Handles <- {h1, h2}, Modes <- {Reading, Update, CreateNew, CreateAlways, Appending},
              Lengths <- {1, 3}, Offsets <- {0, 1, 4}, Cuts <- {1, 2, 3, 4}, Extents <- {3},
              Moves <- {<<f1, f2>>}, Faults <- {"power"}, MaxSize <- 4, MaxAccess <- 12,
              MaxCalls <- 4, MaxFaults <- 1

\* One access to the disk fails.
Error == INSTANCE FatFs
         WITH Names <- Both, Root <- 2, DirOf <- InRoot,
              n_fatent <- 6, PerSector <- 4, n_fats <- 2, csize <- 1, SS <- 2, Cells <- {1},
              Handles <- {h1, h2}, Modes <- {Reading, CreateAlways, Appending},
              Lengths <- {1, 3}, Offsets <- {0, 1, 4}, Cuts <- {0, 1, 2, 3, 4}, Extents <- {3},
              Moves <- {<<f1, f2>>}, Faults <- {"error"}, MaxSize <- 4, MaxAccess <- 12,
              MaxCalls <- 4, MaxFaults <- 1

\* The power fails after a cluster went from one file to another.
Reuse == INSTANCE FatFs
         WITH Names <- Both, Root <- 2, DirOf <- InRoot,
              n_fatent <- 5, PerSector <- 4, n_fats <- 1, csize <- 1, SS <- 1, Cells <- {1},
              Handles <- {h1, h2}, Modes <- {Update, CreateNew},
              Lengths <- {2}, Offsets <- {1}, Cuts <- {1}, Extents <- {},
              Moves <- {}, Faults <- {"power"}, MaxSize <- 2, MaxAccess <- 12,
              MaxCalls <- 7, MaxFaults <- 1

ASSUME /\ Files!VolumeAssumption /\ Files!BoundsAssumption
       /\ Sectors!VolumeAssumption /\ Sectors!BoundsAssumption
       /\ Power!VolumeAssumption /\ Power!BoundsAssumption
       /\ Error!VolumeAssumption /\ Error!BoundsAssumption
       /\ Reuse!VolumeAssumption /\ Reuse!BoundsAssumption

Init ==
    /\ setup \in {"files", "sectors", "power", "error", "reuse"}
    /\ CASE setup = "files" -> Files!Init
         [] setup = "sectors" -> Sectors!Init
         [] setup = "power" -> Power!Init
         [] setup = "error" -> Error!Init
         [] setup = "reuse" -> Reuse!Init

Next ==
    /\ \/ setup = "files" /\ Files!Next
       \/ setup = "sectors" /\ Sectors!Next
       \/ setup = "power" /\ Power!Next
       \/ setup = "error" /\ Error!Next
       \/ setup = "reuse" /\ Reuse!Next
    /\ UNCHANGED setup

Spec == Init /\ [][Next]_vars

Symmetric == Permutations({h1, h2})

-----------------------------------------------------------------------------
(* Properties.                                                               *)

\* Files behave as sequences of cells (FileSpec), and a failure of the power or of
\* one access to the disk harms no file but those it found being changed; and
\* f_write takes less than it is given only when no cluster is free.
ImplementsFileSpec ==
    /\ setup = "files" => Files!File!Init
    /\ setup = "sectors" => Sectors!File!Init
    /\ setup = "power" => Power!File!Init
    /\ setup = "error" => Error!File!Init
    /\ [][setup = "files" => Files!TakesAllOrIsFull]_vars
    /\ [][setup = "files" => Files!File!Next]_(Files!File!vars)
    /\ [][setup = "sectors" => Sectors!File!Next]_(Sectors!File!vars)
    /\ [][setup = "power" => Power!File!Next]_(Power!File!vars)
    /\ [][setup = "error" => Error!File!Next]_(Error!File!vars)

\* No cluster is in the chains of two files or of a directory, nor free, when the
\* power fails before any write, or an access, on volumes where f_truncate cuts no
\* file to nothing before the power fails; and while nothing does, a chain is long
\* enough for its file, the count of free clusters is right, and no cluster is lost.
ClustersAreSound ==
    /\ setup = "files" => /\ Files!TypeOK /\ Files!NoCrossLink /\ Files!ChainCoversFile
                          /\ Files!FreeCountExact /\ Files!NoLostCluster
    /\ setup = "power" => Power!NoCrossLink
    /\ setup = "error" => Error!NoCrossLink
    /\ setup = "reuse" => Reuse!NoCrossLink

\* Whatever a successful f_sync or f_close vouched for, and was not overwritten
\* or removed by a later call, is what the next mount finds on the disk, at
\* whichever write the power fails, in whichever call, on whichever file, where
\* f_truncate cuts no file to nothing.
VouchedIsOnDisk ==
    /\ setup = "power" => Power!VouchedIsOnDisk
    /\ setup = "reuse" => Reuse!VouchedIsOnDisk
=============================================================================
