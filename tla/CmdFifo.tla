------------------------------ MODULE CmdFifo ------------------------------
(****************************************************************************)
(* The command FIFO of the FT80x: a ring of 4-byte words in the memory of   *)
(* the graphics processor.  The program writes words at ft_cmd_fifo_wp and  *)
(* publishes them in REG_CMD_WRITE; the co-processor executes the word at   *)
(* REG_CMD_READ while the two registers differ.  Each register and each     *)
(* piece of memory is reached by one I2C transfer, and the co-processor     *)
(* runs between any two of them.  Addresses count words, not bytes.         *)
(*                                                                          *)
(* GPU_HAL_WrCmdBuf writes its data to GPU_ADDRESS, the I2C address of the  *)
(* chip, and not into the ring: the ring keeps what it held.                *)
(****************************************************************************)
EXTENDS Integers, Sequences

CONSTANTS
    Words,      \* CMD_FIFO_SIZE / 4
    Buffers,    \* the lengths, in words, of what the program gives to GPU_HAL_WrCmdBuf
    Logos       \* whether it sends CMD_LOGO

CmdFifoAssumption ==
    /\ Words \in Nat /\ Words > 1
    /\ Buffers \subseteq Nat \ {0}
    /\ Logos \in BOOLEAN

VARIABLES
    wp,             \* host->ft_cmd_fifo_wp
    REG_CMD_READ,
    REG_CMD_WRITE,
    ring,           \* RAM_CMD
    order,          \* the call the program is in
    sent,           \* what it sent and the co-processor has not executed
    next            \* the word it sends next

fifoVars == <<wp, REG_CMD_READ, REG_CMD_WRITE, ring, order, sent, next>>
host == <<wp, order>>
chip == <<REG_CMD_READ, REG_CMD_WRITE, ring>>

\* The words sent are told apart by a number that comes back only after the
\* ring is full once over.
Values == 0 .. Words
Logo == Words + 1
NoOrder == [pc |-> "idle"]
Pad(n) == [i \in 1 .. n |-> (next + i - 1) % (Words + 1)]

\* Mutant of GPU_Cmdfifo_Freespace: the last word is not kept free.
FreespaceAll(read) == Words - ((wp - read) % Words)

\* GPU_Cmdfifo_Freespace, for the REG_CMD_READ it has read: one word stays
\* free, for equal registers mean empty.
GPU_Cmdfifo_Freespace(read) == (Words - 1) - ((wp - read) % Words)

\* GPU_HAL_Updatecmdfifo: the pointer of the program, and then the register.
GPU_HAL_Updatecmdfifo(count) ==
    /\ wp' = (wp + count) % Words
    /\ REG_CMD_WRITE' = (wp + count) % Words

-----------------------------------------------------------------------------
\* The program calls one of the operations; after CMD_LOGO it waits for the
\* end of the animation.
Begin ==
    /\ order = NoOrder
    /\ \/ order' = [pc |-> "check", word |-> next] /\ next' = (next + 1) % (Words + 1)
       \/ Logos /\ order' = [pc |-> "check", word |-> Logo] /\ UNCHANGED next
       \/ \E n \in Buffers : order' = [pc |-> "space", left |-> n] /\ UNCHANGED next
       \/ order' = [pc |-> "read", then |-> NoOrder] /\ UNCHANGED next
    /\ UNCHANGED <<wp, chip, sent>>

\* GPU_HAL_CheckCmdBuffer: the register is read until there is space for a word.
GPU_HAL_CheckCmdBuffer ==
    /\ order.pc = "check"
    /\ order' = IF GPU_Cmdfifo_Freespace(REG_CMD_READ) < 1 THEN order ELSE [order EXCEPT !.pc = "write"]
    /\ UNCHANGED <<wp, chip, sent, next>>

\* The rest of GPU_HAL_WrCmd32: the word into the ring, and then the register.
GPU_HAL_WrCmd32 ==
    \/ /\ order.pc = "write"
       /\ ring' = [ring EXCEPT ![wp] = order.word]
       /\ order' = [order EXCEPT !.pc = "publish"]
       /\ UNCHANGED <<wp, REG_CMD_READ, REG_CMD_WRITE, sent, next>>
    \/ /\ order.pc = "publish"
       /\ GPU_HAL_Updatecmdfifo(1)
       /\ sent' = Append(sent, order.word)
       /\ order' = IF order.word = Logo THEN [pc |-> "logo"] ELSE NoOrder
       /\ UNCHANGED <<REG_CMD_READ, ring, next>>

\* As many words as there is space for, or as are left.
Portion ==
    LET space == GPU_Cmdfifo_Freespace(REG_CMD_READ)
    IN  IF space > order.left THEN order.left ELSE space

\* GPU_HAL_WrCmdBuf: a portion is taken that fits; GPU_HAL_WrMem leaves the ring
\* as it is; then the register, and while something is left, a wait for the
\* ring to be empty.
GPU_HAL_WrCmdBuf ==
    \/ /\ order.pc = "space"
       /\ order' = [pc |-> "portion", left |-> order.left, now |-> Portion]
       /\ UNCHANGED <<wp, chip, sent, next>>
    \/ /\ order.pc = "portion"
       /\ GPU_HAL_Updatecmdfifo(order.now)
       /\ sent' = sent \o Pad(order.now)
       /\ next' = (next + order.now) % (Words + 1)
       /\ order' = IF order.left = order.now THEN NoOrder
                   ELSE [pc |-> "read", then |-> [pc |-> "space", left |-> order.left - order.now]]
       /\ UNCHANGED <<REG_CMD_READ, ring>>

\* GPU_HAL_WaitCmdfifo_empty: REG_CMD_READ, then REG_CMD_WRITE, until they are
\* equal; then REG_CMD_WRITE once more, for the pointer of the program.
GPU_HAL_WaitCmdfifo_empty ==
    \/ /\ order.pc = "read"
       /\ order' = [pc |-> "compare", read |-> REG_CMD_READ, then |-> order.then]
       /\ UNCHANGED <<wp, chip, sent, next>>
    \/ /\ order.pc = "compare"
       /\ order' = IF order.read = REG_CMD_WRITE THEN [pc |-> "adopt", then |-> order.then]
                                                 ELSE [pc |-> "read", then |-> order.then]
       /\ UNCHANGED <<wp, chip, sent, next>>
    \/ /\ order.pc = "adopt"
       /\ wp' = REG_CMD_WRITE /\ order' = order.then
       /\ UNCHANGED <<chip, sent, next>>

\* GPU_HAL_WaitLogo_Finish: until the co-processor has put both registers to 0.
GPU_HAL_WaitLogo_Finish ==
    \/ /\ order.pc = "logo"
       /\ order' = [pc |-> "logo2", read |-> REG_CMD_READ]
       /\ UNCHANGED <<wp, chip, sent, next>>
    \/ /\ order.pc = "logo2"
       /\ IF order.read = REG_CMD_WRITE /\ order.read = 0
          THEN wp' = 0 /\ order' = NoOrder
          ELSE wp' = wp /\ order' = [pc |-> "logo"]
       /\ UNCHANGED <<chip, sent, next>>

\* The co-processor executes a word; at the end of CMD_LOGO it puts both
\* registers to 0.
Execute ==
    /\ REG_CMD_READ # REG_CMD_WRITE
    /\ IF ring[REG_CMD_READ] = Logo
       THEN REG_CMD_READ' = 0 /\ REG_CMD_WRITE' = 0
       ELSE REG_CMD_READ' = (REG_CMD_READ + 1) % Words /\ UNCHANGED REG_CMD_WRITE
    /\ sent' = SubSeq(sent, 2, Len(sent))
    /\ UNCHANGED <<host, ring, next>>

FifoInit ==
    /\ wp = 0 /\ REG_CMD_READ = 0 /\ REG_CMD_WRITE = 0
    /\ ring = [i \in 0 .. Words - 1 |-> 0]
    /\ order = NoOrder /\ sent = <<>> /\ next = 1

Proceed == \/ GPU_HAL_CheckCmdBuffer \/ GPU_HAL_WrCmd32 \/ GPU_HAL_WrCmdBuf
           \/ GPU_HAL_WaitCmdfifo_empty \/ GPU_HAL_WaitLogo_Finish

FifoNext == Begin \/ Proceed \/ Execute

FifoSpec == FifoInit /\ [][FifoNext]_fifoVars

\* The program goes on with a call, and the co-processor with its words.
FifoFairSpec == FifoSpec /\ WF_fifoVars(Proceed) /\ WF_fifoVars(Execute)

-----------------------------------------------------------------------------
Waiting == (REG_CMD_WRITE - REG_CMD_READ) % Words

FifoTypeOK ==
    /\ {wp, REG_CMD_READ, REG_CMD_WRITE} \subseteq 0 .. Words - 1
    /\ ring \in [0 .. Words - 1 -> Values \cup {Logo}]
    /\ sent \in Seq(Values \cup {Logo}) /\ next \in Values

\* The co-processor sees the words that GPU_HAL_WrCmd32 sent, all of them, each
\* once and in their order: the ring never overtakes it.
RingHoldsWhatWasSent ==
    /\ Len(sent) = Waiting
    /\ \A i \in 1 .. Len(sent) : ring[(REG_CMD_READ + i - 1) % Words] = sent[i]

\* What was sent and not executed is what lies between the two registers:
\* GPU_HAL_WrCmdBuf never publishes more than there is space for.
NothingIsOvertaken == Len(sent) = Waiting

\* But for the animation of the logo the program and the chip agree on the place
\* of the next word: the wait for the end of the animation does not end early.
PointersAgree == order.pc \notin {"logo", "logo2"} => wp = REG_CMD_WRITE

\* The co-processor executes the words that were sent, each once and in their
\* order, and the program and the chip agree on where the next one goes.  Of
\* what GPU_HAL_WrCmdBuf sends only the number of words is right.
FifoIsExact ==
    /\ FifoTypeOK /\ PointersAgree /\ NothingIsOvertaken
    /\ Buffers = {} => RingHoldsWhatWasSent

\* A call that waits for space, for the end of the commands or for the logo
\* returns, if the co-processor goes on.
EveryCallReturns == []<>(order = NoOrder)
=============================================================================
