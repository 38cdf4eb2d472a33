------------------------------- MODULE DiskSpec -------------------------------
(****************************************************************************)
(* What FatFs asks of disk_read and disk_write of a driver: a call moves    *)
(* the sectors it is asked for, in any order, some of them more than once;  *)
(* it touches nothing else; and it returns RES_OK only when every one of    *)
(* them has been moved.                                                     *)
(****************************************************************************)
EXTENDS Integers

CONSTANTS Drives, LBA

VARIABLES
    disk,    \* what the sectors of the drives hold
    mem,     \* the caller's buffer, block by block
    call,    \* the call in progress, or None
    result   \* "OK" or "ERROR" of the call that returned last, else "none"

vars == <<disk, mem, call, result>>

None == [op |-> "none"]
Calls == [op : {"read", "write"}, d : Drives, start : LBA, n : Nat \ {0}]
Asked(i) == call.start + i - 1

Init == /\ DOMAIN disk = Drives /\ \A d \in Drives : DOMAIN disk[d] = LBA
        /\ mem = <<>> /\ call = None /\ result = "none"

\* A call begins, or is refused at once.
Begin ==
    /\ call = None
    /\ \/ call' = None
       \/ call' \in Calls /\ DOMAIN mem' = 1 .. call'.n
    /\ result' = "none"
    /\ UNCHANGED disk

ReadSome ==
    /\ call.op = "read"
    /\ DOMAIN mem' = DOMAIN mem
    /\ UNCHANGED <<disk, call, result>>

WriteSome ==
    /\ call.op = "write"
    /\ disk' = [disk EXCEPT ![call.d] =
                   [s \in LBA |-> IF \E i \in 1 .. call.n : Asked(i) = s /\ disk'[call.d][s] = mem[i]
                                  THEN disk'[call.d][s] ELSE @[s]]]
    /\ UNCHANGED <<mem, call, result>>

Moved == \A i \in 1 .. call.n : mem[i] = disk[call.d][Asked(i)]

End ==
    /\ call # None /\ call' = None
    /\ result' \in {"ERROR"} \cup (IF Moved THEN {"OK"} ELSE {})
    /\ UNCHANGED <<disk, mem>>

Next == Begin \/ ReadSome \/ WriteSome \/ End

Spec == Init /\ [][Next]_vars
=============================================================================
