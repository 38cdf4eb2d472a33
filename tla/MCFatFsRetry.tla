---------------------------- MODULE MCFatFsRetry ----------------------------
(* A volume on which one access to the disk fails, and a program that goes on *)
(* and calls again what failed.                                               *)
EXTENDS FatFs, TLC

CONSTANTS f1, f2, h1, h2

InRoot == [f \in Names |-> Root]
SomeModes == {[write |-> FALSE, create |-> "none", append |-> FALSE],
              [write |-> TRUE, create |-> "always", append |-> FALSE],
              [write |-> TRUE, create |-> "open", append |-> TRUE]}
None == {}
Symmetric == Permutations(Handles)
=============================================================================
