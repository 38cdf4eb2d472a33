# TLA+ models of z88dk-libraries

The repository is a set of C libraries for Z80 and Z180 machines. Its one
concurrent program is the FreeRTOS port in `src/freertos` (kernel V11.1.0, Z180,
one core, preemptive, time-sliced, 16-bit ticks). The models are about that kernel
first: its lists, its clock, its scheduler, and what stands on it, which is queues,
semaphores and mutexes, event groups, software timers, stream buffers and the
heaps. Of the other libraries they take those whose correctness hangs on state,
failures or exact arithmetic: the FAT file system and its two disk drivers, the
calendar, and the command ring of the graphics processor.

Contents: [Inventory](#inventory), [Modules](#modules), [Runs](#runs),
[Bounds](#bounds), [Fairness](#fairness), [Proofs](#proofs),
[Disagreements](#disagreements-between-code-and-documents),
[Not modelled](#what-is-not-modelled-and-why), [Plan](#plan).

## Inventory

### What is built

`FreeRTOSConfig.h` settles what of the kernel exists: preemption, time slicing,
`configIDLE_SHOULD_YIELD`, `configMAX_PRIORITIES` 8, `TickType_t` of 16 bits at
256 ticks a second (a wrap every 256 s), mutexes, recursive mutexes, counting
semaphores and timers on; queue sets, static allocation, tickless idle and
`xTaskAbortDelay` off; one notification per task; one core. `BaseType_t` is an
`int8_t`, so `xNumOfOverflows` wraps after 256 wraps of the tick count.
`heap_3` is the heap. `configASSERT` expands to nothing: an assertion is a
statement about the program, not a guard in it.

Three facts of the port shape every interleaving. A critical section saves the
interrupt state on the stack of its task, so a yield inside one switches at
once and the other task runs with its own interrupt state. `timer_isr` switches
context after every tick, whatever `xTaskIncrementTick` returned. And
`vPortYieldFromISR` is defined nowhere, so an interrupt of the application that
wakes a task only leaves `xYieldPendings` set: the task gets the processor at
the next tick or the next call that yields.

### The components

**Lists** (`list.c`). State: for each list a count, a marker item and the walking
pointer `pxIndex`; for each item a value, two neighbours and the list it is in.
Operations: `vListInsert` (by value), `vListInsertEnd` (just behind `pxIndex`),
`uxListRemove`, and the macro that walks. Called by everything, always with
interrupts off or the scheduler suspended. Hard: removing the item `pxIndex`
points at, inserting at it, equal values. Correct when the ring is closed both
ways, sorted insertion keeps arrival order among equals, and the walk gives every
item its turn.

**Clock and time-outs** (`tasks.c`, parts). State: `xTickCount`, `xNumOfOverflows`,
a `TimeOut_t` and a remaining wait per caller. Hard: both counts wrap, and a
caller may ask any number of ticks late. Correct when no wait is cut short and,
within a wrap, answers are exact.

**Scheduler and tasks** (`tasks.c`). State: the ready list of each priority, two
delayed lists that trade places when the tick count wraps, the lists of suspended
tasks, of tasks to be freed, and of tasks readied by an interrupt while the
scheduler is suspended; a cached next wake time; the highest ready priority; the
count of `vTaskSuspendAll`; pended ticks and a pended yield; for each task its two
list items, two priorities, mutexes held and notification. Operations: delays,
suspension, priorities, creation, deletion, notifications, and the internal ones
that queues call. Interactions: the tick interrupt and the application's
interrupts change this state between any two critical sections; the idle task
frees what deleted tasks left. Hard: calls that decide under one critical section
and act in another, pended work replayed later, cached minima, the wrap. Correct
when each task is in one list, the highest ready task runs, nobody sleeps past its
tick, suspension lasts, no notification is lost and no freed block is used.

**Queues, semaphores, mutexes** (`queue.c`). State: item storage with two pointers
and a count, two event lists sorted by priority, two lock counts, and for a mutex
its holder and recursion count. Operations: blocking send, receive, peek, take,
with time-outs; reset; their forms for interrupts. Interactions: blocking goes
through the scheduler's event list functions, mutexes through its inheritance
functions; interrupts that find a queue locked count instead of waking. Hard: the
window between a failed attempt and blocking, a time-out that races a wake-up,
inheritance given back early or late. Correct when no task waits for what is
there, the mutex holder is known and inherits exactly as long as it must, and
items come out in order.

**Timers** (`timers.c`). State: two lists of active timers that trade places at the
wrap, a command queue, the time the daemon last saw, the block time of the daemon.
Operations: start, reset, stop, change of period, deletion, each a command stamped
by its sender and executed by the daemon; expiry and reload. Interactions: senders
are tasks, interrupts and the callbacks themselves. Hard: commands that arrive after
the wrap they were issued before; periods missed; a status byte written from two
tasks. Correct when a timer expires once a period, at or after its tick, never after
it was stopped, and the daemon is awake by then.

**Event groups** (`event_groups.c`). State: bits, and one unordered event list whose
item values hold the bits a task waits for and later those it was given. Operations:
set, clear, wait for any or all, rendezvous, deletion. Hard: the walk over the
waiters with interrupts on, clear on exit, a time-out that races a set, deletion
under waiters. Correct when no waiter is missed, each is told bits that satisfy it,
no bit is cleared for nobody, and a rendezvous releases all or none.

**Stream and message buffers** (`stream_buffer.c`). State: a ring of bytes, two
16-bit indices, one waiting reader and one waiting writer, a trigger level. Hard: no
lock between reader and writer, values of 16 bits stored in two halves by an 8-bit
processor, the window between a look at the ring and the wait. Correct when bytes,
or whole messages, arrive once and in order, and nobody waits for what is there.

**Port** (`port.c`, `portmacro.h`). The tick interrupt and the switch. Modelled as the
interleaving the tasks run under; register saves are assembly.

**Heaps** (`MemMang`). State: a list of free blocks linked through the memory itself,
a header before each block, three counters. Operations: `pvPortMalloc`, `vPortFree`,
`vPortGetHeapStats`. `heap_3`, which is built, wraps malloc in `vTaskSuspendAll` and is
in `Tasks` as a set of allocated control blocks; `heap_1`, `2`, `4` and `5` are the
alternatives a program may link in its place. Hard: splitting and joining at every
boundary, sums that wrap, work done outside the suspension of the scheduler. Correct
when no byte is given out twice or lost, neighbours are joined, the counters agree,
and a request is refused only when nothing fits.

**Hooks and demos**. Static memory for the idle and timer tasks, a stack overflow
report, small applications.

**ff** (FatFs R0.15). State: on the disk the FAT and its copy, FSInfo, directories and
clusters; in memory one sector window that FAT, directories and FSInfo share, the
allocation hints, and for each open file its position, chain and sector buffer. One
task, no re-entrancy. Operations: open, read, write, seek, truncate, expand, sync,
close, remove, rename. Interactions: `disk_read`, `disk_write` and `disk_ioctl` of a
driver. Hard: power lost between any two sector writes, one access that fails, the
window and the sector buffers in step, hints that are stale after a mount. Correct
when no cluster is in two chains, chains cover the files, what was synced is on the
disk, and a fault harms only the files being changed.

**diskio_sd** (SD cards over SPI). State: a status and a card type, one each for all
drives, the selected card, a timer. Operations: `disk_initialize`, `disk_read`,
`disk_write`, `CTRL_SYNC`. Hard: commands refused or unanswered, blocks with errors,
retries that begin where the last one stopped, a timer that wraps. Correct when
RES_OK means that the sectors, and only they, were moved, which is not so in every call
(see [Disagreements](#disagreements-between-code-and-documents)).

**diskio_hbios** (the same calls through the firmware). No state. Hard: a firmware that
moves fewer sectors than asked, or none, or fails to seek.

**time** (calendar and astronomy). Pure functions between time_t, struct tm, weeks and
FAT stamps; leap years, the end of time_t, weeks that straddle years. Correct when they
agree with the Gregorian calendar and take each other back. The astronomy is floating
point.

**ft80x** (graphics processor over I2C). State: the ring of commands in the memory of the
chip, its read register moved by the co-processor, its write register and the
program's own write pointer. Hard: the co-processor runs between any two transfers;
full and empty; a buffer larger than the ring. Correct when the co-processor executes
what was sent, in order, and every wait ends. The rest is a fixed sequence of register
transfers.

**3d** (vectors, matrices), **regis** (ReGIS escape sequences), **i2c_lcd** and **th02** (I2C
devices): no state of their own that outlives a call, but for static buffers whose
fate is decided by the I2C driver of z88dk.

**rebuild-all.sh**, compiled libraries, copies of headers: not a part of any program.

`PROJECT.json` has this list with the source files, and the list of hazards: each
thing in this code that a test would hardly reach, at the line where it bites,
with the properties that watch it.

## Modules

| module | models | rests on |
|---|---|---|
| `Lists` | the operations of `list.c` on a sequence and an index | |
| `ListSpec` | what the lists promise, as a state machine | `Lists` |
| `ListRing` | the pointers of `list.c`; implements `ListSpec` | `ListSpec` |
| `ListsLemmas` | lemmas about the operators of `Lists` | `Lists` |
| `TickCount` | tick arithmetic that wraps; the tests of `xTaskDelayUntil` and `xTaskCheckForTimeOut` | |
| `Timeouts` | the time-out protocol, with the true time as history | `TickCount` |
| `QueueSpec` | a bounded sequence of items | |
| `QueueBuffer` | the item storage of `queue.c`; implements `QueueSpec` | `QueueSpec` |
| `BasicsProofs` | the theorems about lists, time-outs and the storage of queues | `ListSpec`, `ListsLemmas`, `Timeouts`, `QueueBuffer` |
| `AllocatorSpec` | blocks that do not overlap | |
| `Heaps` | `heap_2`, `heap_4`, `heap_5`; implement `AllocatorSpec` | `AllocatorSpec` |
| `HeapsProofs` | the inductive invariant of `Heaps`, and its theorems with the refinement | `Heaps`, `ListsLemmas` |
| `HeapOnce` | `heap_1`; implements `AllocatorSpec` | `AllocatorSpec` |
| `Kernel` | the variables and internal functions of `tasks.c` | `Lists`, `TickCount` |
| `Tasks` | the task API, the tick interrupt, `xTaskResumeAll`, the idle task | `Kernel` |
| `KernelProofs` | what each function of `Kernel` does to sound lists, and the lists at the start | `Tasks`, `ListsLemmas` |
| `TasksProofs` | the inductive invariant of `Tasks`, and its theorems | `KernelProofs` |
| `Queues` | the blocking loops of `queue.c`, locks, mutexes, interrupts | `Tasks` |
| `QueuesProofs` | the inductive invariant of `Queues`, and its theorems | `Queues`, `KernelProofs` |
| `EventGroups` | `event_groups.c` on the scheduler; implements `Rendezvous` | `Tasks` |
| `Rendezvous` | what `xEventGroupSync` promises | |
| `Timers` | the daemon, its lists and commands; implements `TimerSpec` | `TickCount`, `Lists` |
| `TimerSpec` | what timers promise, in true time | |
| `StreamBuffers` | the ring, its two sides and their notifications; implements `StreamSpec` | |
| `StreamBuffersProofs` | its theorems, with the refinement | `StreamBuffers` |
| `StreamSpec` | items once and in order | |
| `FatFs` | `ff.c` on one mounted volume, with faults; implements `FileSpec` | |
| `FileSpec` | files as sequences of cells | |
| `DiskSpec` | what FatFs asks of a driver | |
| `DiskioSd` | `diskio_sd.c` and its cards; implements `DiskSpec` | |
| `DiskioHbios` | `diskio_hbios.c` and a firmware; implements `DiskSpec` | |
| `Calendar` | the calendar functions of `time`; implement `CalendarSpec` | |
| `CalendarSpec` | the Gregorian calendar, day by day | |
| `CmdFifo` | the command ring of the FT80x | |
| `LibrariesProofs` | the theorem about the ring, and the refinement of the HBIOS driver | `CmdFifo`, `DiskioHbios` |

What TLC checks are the modules whose names begin with `MC`:

| module | puts together |
|---|---|
| `MCTasks` | seven small applications of `Tasks` |
| `MCQueues` | applications of `Queues`, for safety, for liveness and for the two disagreements |
| `MCEventGroups` | applications of `EventGroups` |
| `MCBasics` | `Timeouts`, `QueueBuffer`, `ListRing`, and each heap in a memory of its own |
| `MCServices` | two sets of timers, four buffers |
| `MCFatFs` | five volumes |
| `MCLibraries` | four sets of cards, the HBIOS disk, two command rings, the calendar |
| `MCSdRejected`, `MCFatFsRetry` | one card, one volume: disagreements |

`MCBasics`, `MCServices`, `MCFatFs` and `MCLibraries` are sums, not products: a variable `setup`
says at the start which of the parts a behaviour is about, that part moves by its own
next-state relation, and the variables of the others stay as they were. So one run asks
the same question of several instances ("is what was sent what is received?", "does a heap
give a byte twice?"), and the number of its states is the sum of theirs. A property of the
run says `setup = "..." =>` before what it takes from a part. In `MCTasks`, `MCQueues` and
`MCEventGroups` the variable `app` does the same for applications of one kernel.

### How state and steps correspond to the code

`Kernel` keeps all file-scope variables of `tasks.c` and all fields of the control
blocks in one record `k`; the head of the module lists the fields with the names
they have in C. Each internal function is an operator from a record to a record, so
a critical section that calls several of them is still one step. What a list item is
worth is kept beside the lists (`wake`, `order`), the container pointer is the
list an item is found in. The value of a state list item is forgotten once the item
leaves its list, because no code reads it before setting it.

`Tasks` has the actions. A step is a stretch of code that no interrupt can split to
any effect: a critical section, the body of an interrupt, or code that only touches
what the running task owns. Under `vTaskSuspendAll` interrupts still run but touch
only the pending list, the pended ticks, the pended yield and notifications; code
there that touches none of these is one step too. What is left of the API call a
task is in is a sequence of work items, `todo[t]`: `vTaskDelay(5)` sets
`uxSchedulerSuspended` and leaves "delay 5", "resumeAll", "yield". Between any two
items a tick, another interrupt or another task may come. Loops with interrupts off
(the drain and the replay in `xTaskResumeAll`, the unblocking in
`xTaskIncrementTick`) are steps repeated under `k.cpu`; no other step is enabled
meanwhile.

`Queues` adds a record for each queue and one for each task with the parameters and
locals of the blocking call it is in. The turns of the blocking loop are `TryNow` or
`TryLater`, `Suspend`, `Lock`, `CheckForTimeOut`, `Test` or `TestAgain`, `Inherit`,
`Place`, `UnlockTx`, `UnlockRx`, then `xTaskResumeAll` and the yield from `Tasks`, and
again. In `Queues` the items are only counted; their storage is `QueueBuffer`, where
every operation is one step because in the code each runs in a critical section.

`EventGroups` is on `Tasks` in the same way. The scheduler is suspended in all of its
functions but `xEventGroupClearBits`, and interrupts do not touch event groups, so its
work items are few: the walk over the waiters ("walk", and "unblock" for a task that has
left the list of the group and not yet its state list, where an interrupt may find it
suspended), the test after a wait, the clearing of a bit that timed out. `k.order` says
only that the value of an event list item is in use; `item` holds it, `group` the bits,
`wait` the parameters and locals of the call a task is in.

`Timers` stands beside `Tasks`: the queue of commands is a bounded sequence, the block of
the daemon a number of ticks, because `Queues`, `QueueBuffer` and `Tasks` have shown what
these rest on. The record `daemon` says where the daemon is, and a step of it is what it
does between two moments at which a tick or a sender may come. `call` is a command that
was stamped with the tick count and not sent yet. The histories `since`, `late`, `left` and
`mode` hold true times and wishes; no guard of the code's steps reads them but for the
bounds.

`StreamBuffers` keeps for each side where in its call it is. Stores of `xHead`, `xTail` and
of a task handle are two steps, low half first; a load is one. With `Base` at least
`xLength` the high half is always 0, so that the passing runs have every behaviour of
loads in halves; with a smaller `Base` they have some, which is enough
to show a disagreement. `stamp` numbers the bytes, so that a byte lost, repeated or
made up is seen. `sbSEND_COMPLETED` and `sbRECEIVE_COMPLETED` run with the scheduler suspended and
are one step: the task on the other side cannot run in between, and an interrupt that notifies it
there too does nothing that they do not do.

`Heaps` keeps the list as the sequence of its addresses and the headers as a function from
block starts. `Heap` says which file is meant. `vPortFree` clears the top bit of a size
before it suspends the scheduler, and `vPortGetHeapStats` reads the counters after it
resumed it: these two are two steps, with the other task between. `HeapOnce` has sums
modulo `Width`, because requests near the largest `size_t` are what its checks are for.

`FatFs`: the functions of `ff.c` run to their end, so each API call is one action, and
inside it a record `v` goes from function to function: the volume, the file object at hand
and the result. `Do(v, Next)` is "if (res == FR_OK)". The order of the sector writes
inside a call is kept: `v.fault` says after how many accesses the disk fails or the power
is lost, so a crash may come between any two of them, and the mount that follows starts
from what is on the disk. Cells are bytes; names are model values with fixed directories;
the directory entries hold what `f_sync` writes, not names in 8.3. Files are opened as the
documents allow (one opens a file for writing only if nobody else has it open).
`damaged` and `owed` are histories: files a fault hit while they were being changed, and
contents that a successful `f_sync` or `f_close` vouched for.

`DiskioSd`: a call has a program counter, and each step sends one command or moves one
block. The card is external and does what the driver expects of its kind, unless it makes
one of the faults a run allows. `DiskioHbios` has three steps an attempt. In both, `mem` is
the caller's buffer and what lies behind it, block by block, and `DiskSpec` compares it with
the disk of the time of the call. Each has a history beside the code's state, so that a property
can name the calls in which the driver does not do what it should, and be checked of all others.
`astray` (`DiskioSd`): in this call the card accepted a command for another sector, for another
number of sectors or with the buffer moved on, or the driver counted a rejected single block as
written. `reported` (`DiskioHbios`): the number of blocks the firmware last reported in this
call, 0 before it reported any; `Hollow` is a RES_OK while it is 0.

`Calendar` is operators, one a function, and a state machine in which a day goes by, so that
the properties are about all days and about a day and the next. A time_t is a pair of day
and second: the 2^32 values are more than the model checker's integers hold. `CalendarSpec`
knows nothing of time_t: it counts days in months.

`CmdFifo` counts in words of 4 bytes. The co-processor is external: it executes the word at
the read register while the registers differ, between any two transfers of the program.

Where the code uses a control block after its critical section
(`prvAddNewTaskToReadyList` compares the priority of the new task once it may have
run, ended and been freed) the model reads the block if it is still allocated and
takes either outcome if it is not.

`Applications` are the programs that run on the kernel: which functions each task and
each interrupt calls and with which waits, who is ready at the start, and a bound on
pended ticks. `app` is the one that runs; it never changes. One run covers several
applications, each with the few functions that get in each other's way. The calls are
made in any order, at any time the program may make them. What the API demands of
callers is a guard: only the holder gives a mutex, a plain mutex is not taken twice,
only queues of length 1 are overwritten, no blocking call under `vTaskSuspendAll`.

Definitions whose comment begins with "Mutant of" are the named definition with a
plausible mistake in it (a step dropped, a comparison off by one, an order
exchanged). They are used by nothing here: put in the place of what they are mutants
of, each makes the run named in `PROJECT.json` fail at the property named there,
which shows that the property tells a right kernel from a wrong one.

## Runs

| run | asks | states |
|---|---|---|
| `MCTasks` | Do sleepers and periodic tasks wake at their very tick, with nested suspension of the scheduler, caught-up ticks and a tick count that wraps every four ticks? Is the cached next wake time never too late? Is each task in one list, is the highest ready one running, does suspension last until resumed, is a freed block never used? Is any notification lost between the test of the value and the moment the task blocks? | 707k |
| `MCQueues` | Does any task wait for an item or room that is there, with interrupts that find the queue locked, waits that time out, resets, peeks and a storm of interrupts? Is every task in an event list in a blocked call? Is the holder of a mutex always known, at the priority of its waiters, and back at its own when they are gone? Is no yield forgotten? | 591k |
| `MCQueuesLive` | Does every delay end, does time slicing reach every task, is what a deleted task owned freed, is the receiver of highest priority served? | 64k |
| `MCEventGroups` | Is any waiter missed by the walk of `xEventGroupSetBits`, told what it did not ask for, or a bit cleared for nobody, with time-outs, suspensions and deletions? Is `xEventGroupSync` a barrier that can be used again at once? | 147k |
| `MCServices` | Do timers expire at the true times that were asked for, with commands that come late, two lists that trade places and two timers that keep the daemon busy? Do bytes, batches and messages come out as they went in, and is nobody left waiting beside them, when a side may be an interrupt and neither locks the ring? | 928k |
| `MCFatFs` | Do files behave as sequences, on a volume that gets full, with clusters of several sectors, when the power fails before any write of any call, when an access fails, and when clusters go from file to file? Is what was synced found by the next mount? | 111k |
| `MCBasics` | Are time-outs exact over several wraps? Do the storage of queues and the pointers of lists behave as the sequences that `Queues` and `Kernel` take them for? Do the heaps give no byte twice, lose none, and refuse only what does not fit? | 168k |
| `MCLibraries` | When cards refuse commands, do not answer, lose data or reject blocks, does RES_OK mean that the sectors, and only they, were moved, unless a retry or a rejected single block led the call astray? Does the HBIOS driver keep its promise, whatever seeks fail and however few blocks are moved, unless RES_OK stands for a report of none? Does every call return? Does the co-processor execute what was sent? Are all days of time_t those of the Gregorian calendar, and does every conversion take back its inverse? | 573k |
| `MCQueuesSwitch` | Disagreement: does giving back the last mutex switch context? | |
| `MCQueuesOrder` | Disagreement: is the first waiter of an event list of the highest priority? | |
| `MCSdRejected` | Disagreement: has disk_write moved the sector when it answers RES_OK? | |
| `MCFatFsRetry` | Disagreement: is the file on the disk when f_close, called again after a failure, answers FR_OK? | |

Deadlock is checked where the system cannot stop: in all runs of the kernel and in
`MCServices`. It is not checked in `MCFatFs`, `MCBasics` and `MCLibraries`, whose behaviours
end after a bounded number of calls or with the last day.

The properties worth a word:

* `UnblockTimeIsEarly`, in `NobodyOversleeps`, is about a cached value that six functions
  maintain. It may be too early (the tick interrupt then looks in vain), never too late.
* `NoLostWakeup` of `Queues` says more than that nobody sleeps beside an item: the exceptions
  are named. Either the queue is locked, and `prvUnlockQueue` will see to it, or some task
  is on its way to try again. Where that task times out or takes the item, the
  invariant has to hold again.
* `HolderInherits` and `InheritanceEnds`, in `MutexesAreSound`, bound the holder's priority from
  both sides. The upper bound counts tasks that are about to return from a wait that timed
  out, since they are the ones who will take the inheritance back.
* `FirstReceiverIsServed` holds for tasks that share a queue, and fails as soon as an
  interrupt of the application may send to it: the task woken by the interrupt does not
  run until the next tick and the task that runs may take the item, again and again.
  That is how this port is; the run has no sending interrupt and says no more.
* `NoEventIsLost` looks at every bit that goes from 1 to 0 and asks who got it. A bit that is
  cleared after a walk was given to some waiter in that walk, however long ago it ran.
* `ImplementsTimerSpec` compares the wrapped arithmetic of the daemon with counters of true
  time: the time left of each timer runs down by one a tick and never wraps.
* `VouchedIsOnDisk` compares the disk, as a mount would find it, with what `f_sync` and
  `f_close` said: after each call, and after a power loss at any write of any call,
  whichever file that call is about.
* In `ImplementsFileSpec` a fault may harm the files that were being changed when it came and
  no other; which these are is what `damaged` keeps.

## Bounds

* `MaxDelay` 2 or 3: the largest tick count. Every run of the kernel crosses the wrap at each
  corner: with three or four tick values a delay can end just before, at and just after it,
  and a whole wrap fits in a wait. `OverflowCount` is 1 on the scheduler (the count of wraps is
  left out, which keeps the state space small; a time-out there cannot tell a whole wrap
  from none, so a wait may end late, which none of those runs is about). `Timeouts` has three
  values of it and is proved for all.
* Priorities: 2 to 4, tasks: the idle task and two or three more. Two tasks are enough
  for each race between a caller and a waiter; a third is needed, and there, for a
  mutex with a holder and two waiters, for the meetings of three and for two disagreements.
* `maxPended` 0 to 2: ticks that arrive under one suspension of the scheduler. Two of them
  make the replay loop turn and cross the wrap within a replay. It also bounds the
  interrupts' progress while a queue is locked.
* `MaxNesting` 2: nested `vTaskSuspendAll` by the application; the calls the kernel makes
  itself nest without a bound.
* `MaxNotified` 1: one bit tells set from clear, and `BitOr` is the operator `|` of C. The
  increment is not made when it would wrap: a 32-bit count of notifications does not.
* Applications: each is small so that all its interleavings can be looked at, and each is
  built around one race. Roles are fixed where symmetric roles only multiply states: in
  `pass` and `timed` one task sends and the other receives, while in `signal` and `serve`
  both do both; in `contend` the holder `c` is the one that inherits, so the two tasks above
  it keep the mutex when they get it, while in `share` and `switch` all give it back.
* Queues of length 1, where full and empty meet at once, the shortest way to every race;
  and one of length 2, where the counts of a locked queue pass one. `QueueBuffer` has lengths
  1 to 4 and is proved for all.
* `MaxRecursion` 2: a recursive mutex given back too early or too late shows at two.
* `MaxSince` in `Timeouts`: three and a half wraps between two questions.
* Event groups: one group, three bits, so that a meeting of three and "any of two while a
  third is set" both happen.
* Timers: `MaxLate` bounds how many ticks the daemon is behind (a task of the highest
  priority is, at most, kept from running by a few), `MaxSince` how old a command is when it
  is executed, which with a `MaxDelay` of 3 is up to a whole wrap.
* Stream buffers: 2 to 7 bytes of room, and calls of up to 3: each wraps, is full and is
  split at the end of the storage; the message buffer has two-byte lengths as in the code.
* Volumes: 3 to 5 clusters, of which one or two are directories, so that a volume gets full
  in two calls, clusters are used again, and the entries of the FAT lie in two sectors.
  `MaxCalls` 4 to 7 calls, any of them in any order; a program of `MCFatFs` that meets a fault
  has two or three calls before it and as many after. `MaxFaults` is 1. Each bound on a
  volume is there in one place in `MCFatFs`, next to the volume.
* Heaps: 46 to 56 bytes with headers of 4, `Top` 64 for the top bit of a size_t: requests
  that fit exactly, leave a remainder that is too small for a block, or wrap.
* Cards of 3 or 4 sectors, at most 3 faults, 3 attempts (the code has 10, and 3 for HBIOS: what an
  attempt leaves for the next shows at 3); a timer modulo 64, which wraps in one set. Every kind of
  fault meets transfers of one sector and of several, on a card addressed by bytes and on one
  addressed by blocks: a refusal or a silence two drives with a card of each kind, a token, before the first
  block or a later one, an SD1, an SDHC and an MMC, a rejected block an SD1 and an SDHC.
* The HBIOS disk: two drives of 4 sectors, 1 to 3 sectors a call, 0 to all of them moved in an attempt,
  and up to 4 faults in two calls, which is enough for every attempt of a call to fail.
* Calendar: all 49,711 days, five seconds of each, month offsets up to 13.
* Symmetry: `MCBasics` is checked up to permutation of lists, items and tasks, `MCFatFs` of file
  objects: neither the modules nor the properties tell them apart, and no liveness is
  checked there.

## Fairness

On the scheduler (`QueuesFairSpec`; `FairSpec` and `GroupsFairSpec` are alike):

* weak fairness of the loops with interrupts off: the processor executes them to the
  end;
* strong fairness of the tick interrupt: the timer requests it for ever and the request
  stays pending until interrupts are on, so if they are on again and again it is taken;
* strong fairness of what each task does next while it is the running one: a task that
  is given the processor again and again makes progress in the call it is in. It says
  nothing of a task that is not given the processor.

No fairness is assumed of new calls or of the application's interrupts: a task may stop
calling. Time slicing, wake-ups and the freeing of deleted tasks are then consequences
of the kernel's code, not of the assumption. The firmware of the SCZ180 may swallow
ticks (`port.c:143`): a finite number of them is a delayed tick, as in the model.

Elsewhere: the clock goes on and the timer daemon, a task of the highest priority, runs; the
two sides of a stream buffer go on with the call they are in, and in `DataIsReceived` the
reader calls again (which data in a buffer cannot bring about by itself); a disk driver
goes on, and a card ends the writing of a block it began; a program that waits for the
co-processor looks again, and the co-processor executes while there is something to
execute. FatFs and the heaps have no liveness: each of their calls is a step or a few.

## Proofs

The time-out protocol (`BasicsProofs`), for every width of the two counters (`TickAssumption`) and any bound on
the time between questions (`TimeoutsAssumption`):

* `TimeoutsTypeCorrect`, `ClockInvariant`: `TimeoutTypeOK` and `ClockInv` are invariants. `ClockInv` is what
  makes the rest inductive: the tick counts give the time passed since the `TimeOut_t`
  was set as long as a wrap has not passed; in that time an unchanged order of the tick
  counts means an unchanged count of wraps; and what is left of the wait is never more
  than the registers say, because each answer of "not yet" moves both.
* `WaitNeverCutShort`: no time-out before the wait is over, from `ClockInv`, which also keeps
  an expired wait expired.
* `ExactAnswers`: the action property, from the part of `ClockInv` that holds within a wrap.
* `DelayUntilExact`: the comparison of three wrapped counts in `xTaskDelayUntil` is right for
  every one of their orders.

The storage of queues (`BasicsProofs`), for every length of the queue and any data (`LengthAssumption`):

* `BufferTypeCorrect` and `PointersAlwaysAgree`: the conjunction of `BufferTypeOK` and `PointersAgree`
  is inductive. That the write pointer is as many slots after the oldest item as there are
  items is needed by the refinement, and by itself it does not follow from the count.
* `ImplementsSequence`: the storage implements `QueueSpec`. One lemma an operation
  (`BackIsAppended`, `FrontIsPrepended`, `OldestIsTaken`, `OldestIsSeen`, `OneIsReplaced`) says
  what the operation does to the sequence `Items`; the two proofs about going around the
  end of the storage are `AheadAndBack` and `AfterSlot`.

Lists (`ListsLemmas` and `BasicsProofs`), for any lists and items and every largest value that is a natural
number:

* `ListsTypeCorrect` and `NeverLinkedTwice`: together inductive. An insertion needs that the place
  `vListInsert` looks for exists (`SortedPositionFound`, from the first position of a larger
  value, `FirstPosition`) and that the item is in no list, which the code assumes of its
  callers; what the operations do position by position is in `InsertAtProperties` and
  `RemoveAtProperties`.
* `InsertKeepsOrder`: a list in the order of its values stays so.
* `WalkNeverSkips`: what `ImplementsListSpec` says of the walk of the pointers, of the sequences.
  One lemma an operation (`WalkAdvances`, `WalkAppends`, `WalkInserts`, `WalkRemoves`) compares
  the turns before and after position by position; that the item removed has one turn
  only is `NeverLinkedTwice`.

The scheduler (`KernelProofs` and `TasksProofs`), for any set of tasks, any number of priorities, any
width of the tick count, any `Applications` (each task calls what it likes, in any order, and
interrupts come wherever they are enabled), any nesting and any number of pended ticks, under
`KernelAssumption`, `TickAssumption` and `TasksAssumption` (the idle task exists, makes no API
calls and is ready at the start; the ready lists an application starts with hold a task once; `BitOr`
stays in the range of a notified value). All safety and action properties of the run `MCTasks`
are theorems:

* `InvariantHolds`: `IInv` is an invariant. Its parts are named for what they are about:
  `KernelInv` (the lists are `Sound`; `xNextTaskUnblockTime` is early; sleepers are in the future;
  the idle task is ready), `WorkInv` (the shape of what is left of a call, and who owns a control block
  that is not live), `SuspendInv` (the scheduler is suspended exactly when what the running task
  does next says so, and no other task is in the middle of such a stretch), `RunningInv` (the running
  task is ready or about to yield), `ParkedInv` (`xPendingReadyList`), `NotifyInv` (who waits for a
  notification is where a notification finds it) and `HighestInv`. None is inductive without the
  others: that `xTaskResumeAll` restores the priority order needs `ParkedInv`, which needs
  `SuspendInv`, which needs the shapes; that a notified task wakes needs that whoever is marked as
  waiting really sleeps, parks or is about to sleep, which is `NotifyInv` with the shape of a wait.
* `ListsStaySound`, `NobodyEverOversleeps`, `HighestAlwaysRuns` and `NotificationsArrive`: the invariants
  `ListsAreSound`, `NobodyOversleeps`, `HighestPriorityRuns` and `NoNotificationIsLost`.
* `SuspendedStaySo` and `DelaysStayExact`: the action properties `SuspendedUntilResumed` and
  `DelaysAreExact`. Every step leaves a task where it stands, rouses it from a list, or is a call
  about that task (`NextIsOrderly`); each kind of step rouses a suspended task only for a resumption, and
  wakes a sleeper only at its tick.

The argument goes in three layers. `KernelProofs` says of each function of `Kernel` what it does to
sound lists, as a relation between the records before and after (`Readied`, `PutToSleep`, `Switched`,
...), so that nothing above it looks into a list again. `TasksProofs` says what those relations do to
each part of `IInv` (`KernelWakes`, `KernelSleeps`, `RestQuiet`, `RestChosen`, ...), and has one
lemma for each action (`DrainPendingKeeps`, `NotifyKeeps`, ...), and the theorems. The bounds of the model
that are guards (`MaxNesting`, `maxPended`, the count that does not wrap) only
take steps away; the proofs hold for every value of them. TLC checked `IInv` on the
applications of `MCTasks` before it was proved.

`NoNotificationIsLost` is proved with the reading of the code that a task both suspended and notified
stays suspended (`MaySuspend`), and only for applications that call `vTaskSuspend`: in the others it
is ready or parked.

Queues, semaphores and mutexes (`QueuesProofs`), for any set of tasks, any number of priorities, any
queues of any length, any waits and any width of the tick count, under `OnlyQueues`:

* the tasks call the functions of `Queues` and `vTaskDelay`, and the interrupts those of `Queues`
  and the tick. An application that also suspends or deletes tasks, or changes their priorities, may
  spend the wake-up of a task that has not run yet, and is not promised what follows;
* there are at most 127 tasks, which the `int8_t` locks of a queue count (`queue.c:278`, the bound
  the code itself uses); beyond that a lock may forget wake-ups;
* where `xQueueReset` is called, the queues have length 1: with more room it is
  [a disagreement](#disagreements-between-code-and-documents).

All applications of the run `MCQueues` satisfy this. The theorems:

* `QueuesInvariantHolds`: `QueuesInv` is an invariant. Its parts: `KernelOk` (the lists are sound, and who
  is in an event list is live and not ready), `WorkOk` (the order of the steps a call has
  left), `Suspends` (the scheduler is suspended exactly for the steps that say so, and for no task but
  the running one), `Runs`, `LockInv` (a queue is locked exactly while a task is at one of the
  steps between locking and unlocking), `WaiterInv` (who waits will try again), `WakeInv`, `CallInv`
  (only the holder is in a call that gives a mutex) and `MutexInv`.
* `NoWakeupIsLost`, from `WakeInv`. `NoLostWakeup` by itself is not inductive, because one wake-up may be
  overtaken: of two tasks on their way to an item, one takes it and the other waits again. So the invariant
  counts. Whenever a task waits for items of a queue, or is about to, there are as many tasks on their
  way, with the wake-ups that its lock owes, as there are items; or the lock has counted up to the
  number of tasks, and `prvUnlockQueue` empties the event list. Each step that adds an item wakes one more
  task or counts one more; each that takes one ends one task's way. The same holds of room and senders.
* `QueuesStaySound`, from `LockInv`, `Suspends` and `WaiterInv`.
* `HoldersStayKnown`: `MutexHolderKnown`, from `MutexInv`, which adds that the holder is live and that one
  task at most is between taking a recursive mutex and counting it.

The proof rests on the relation `Eases`: a step of the kernel *eases* the waits if it keeps the lists
sound, leaves ready who is ready, and puts nobody into an event list. All functions of `Kernel` that the steps use
ease them but for `vTaskPlaceOnEventList`, `vTaskDelay` and a switch, so that most lemmas about a step only look at
the queue. TLC checked `QueuesInv` on the applications of `MCQueues` before it was proved.

Stream buffers (`StreamBuffersProofs`), for any length, trigger levels and data, and for sides that are tasks
or interrupts, with `StoredAtOnce`: the storage has at most `Base` (256) bytes, so that the second
half of a stored index is always 0. Beyond it the refinement is false, as the disagreements say.

* `WakeupsAreNotLost`, for all three kinds of buffer: `NoLostWakeup`. `Inv` has, for each side, what its
  handle, its notification and its place in the call say of each other (`HandleOK`), what it asks for
  (`NeedOK`), what it saw and may still rely on, since only the other side adds to it (`AmountOK`), and
  that a side beside what it waits for is notified next (`WakeOK`).
* `StreamArrives`: a stream or batching buffer implements `StreamSpec`. Each step of a copy either moves
  nothing that the other side can see, or takes or appends exactly the bytes in its hands
  (`HeadAdds`, `TailTakes`), across the end of the storage.
* `OneSideGoesOn` (trigger level 1: the two sides are never both blocked), `HandlesAreWhole` (without time
  limits no side is notified through half a handle), `TypeCorrect`.

That messages arrive whole is model-checked only: what is in a message buffer is a recursive function
of its bytes, and its value for every content would be proved by an induction over data.

The heaps (`HeapsProofs`), for `heap_2`, `heap_4` and `heap_5` with any number of regions, any alignment and size
of a header, any requests and any number of tasks, under `HeapsAssumption` (the regions are in the order of
their addresses and do not overlap, which `vPortDefineHeapRegions` asks of its caller) and `RegionsFit`: each region is
smaller than the top bit of a `size_t`. Without it `TypeOK` and `AllGivenBack` are false, as the disagreements say.

* `HeapStaysInOrder`: `HeapsInv` is an invariant. Its core is `Sound`, of the list, the headers, the blocks
  taken and those `vPortFree` is bringing back: these three kinds are apart and make up all the headers, the
  top bit is set in the sizes of the taken ones alone, and the sizes `Tile` every region. `Tile` says of every block but the end markers that it
  ends at a block or a marker and that nothing begins inside it; the marker itself may be gone, since `heap_5`
  joins the marker of an earlier region to the block before it. That each `vPortFree` in progress has a
  block of its own is part of the invariant, because between its two steps the block is neither in the list
  nor taken.
* One lemma says what each operation does to `Sound`: cutting a block (`CutTiles`, `CutBlock`), joining two (`MergeTiles`,
  `AbsorbNext`, `AbsorbInto`), taking one out of the list and putting one in (`TakeOut`, `PutIn`), setting and clearing
  the bit (`MarkBlock`, `UnmarkBlock`); `JoinedKeeps`, `SplitKeeps` and `GivenKeeps` compose them, and `InitKeeps` is
  `prvHeapInit`.
* `NoByteIsLost` and `HeadersStayOutOfReach`: `BlocksTile` and `HeadersOutOfReach`.
* `NeighboursAreJoined` (`heap_4`, `heap_5`) and `SmallestFitsFirst` (`heap_2`): `Coalesced` and `OrderedBySize`, from
  a second invariant beside `HeapsInv`, `OrderInv`: the list is in the order of the addresses, or of the sizes, and no block touches
  the next one unless that is an end marker. A block that comes back is put where its address or size belongs and joined to what
  it touches (`BackOrdered`); the rest of a cut block takes the place of the block, or in `heap_2` that of its size
  (`GivenOrdered`).
* `HeapsImplementAllocator`: the refinement of `AllocatorSpec`. What `pvPortMalloc` returns lies in one region and
  shares no byte with what else the application holds.

The command ring (`LibrariesProofs`): `FifoStaysExact`, for rings of any size and any co-processor speed: what
the registers say is waiting is what was sent and not executed, in order, nothing is overtaken, and the
program's pointer is the register's. The program sends CMD_LOGO or calls `GPU_HAL_WrCmdBuf`, not both:
the logo sets the registers to 0 and the buffer's waits do not expect it. The invariant adds what
the locals of a call say (a portion still fits when it is written) and that CMD_LOGO is the last word.

The HBIOS driver (`LibrariesProofs`): `HbiosImplementsDisk`, the refinement of `DiskSpec` for any
sectors and attempts, whichever seeks fail, and with 0 to all of the blocks moved in each attempt. The
answer RES_OK counts as success unless `reported` is 0, that is, unless the firmware reported no block
or was never asked: then RES_OK means nothing, which is a disagreement, and the theorem takes the call
for a failed one, so that it still says that no other sector was written. The invariant says that a
`resp` of RES_OK at the end of an attempt means that all blocks were moved, if `reported` is not 0, and
that it is 0 as long as an attempt begins with such a `resp`.

Only model-checked:

* of mutexes, the priorities: `HolderInherits` and `InheritanceEnds` hold of a task that holds one
  mutex, and `HighestPriorityRuns` not in every application of queues (`MCQueuesSwitch`);
* event groups, timers, the file system, the SD card driver and the calendar;
* that the pointers of `ListRing` implement `ListSpec`, which needs an induction along the ring, beyond
  this prover; what a recursive definition computes (the loops of the calendar and the file
  system, the messages of a buffer);
* of the heaps, what sums the sizes of blocks (`FreeBytesExact`, `AllGivenBack`, `RefusedOnlyForLackOfSpace`) or counts
  them (`CountersAgree`): a fold over a set is recursive, and a fact about it an induction over data; and `heap_1`;
* all liveness, which, like `ENABLED`, the prover does not treat.

`IInv` is about applications of `Tasks` alone: a queue changes priorities by inheritance, so `base = prio` and
`HighestInv` are not invariants of `QueuesSpec`, and `QueuesInv` is not an extension of `IInv`.

## Disagreements between code and documents

Four are runs:

* `MCQueuesSwitch` (`queue.c:1051`). `xTaskPriorityDisinherit` says in `tasks.c:6750` that a
  context switch should occur when the last mutex is returned whether a task is waiting
  on it or not. `xQueueGenericSend` acts on its result only if no task waits for the mutex.
  In the run, low `c` holds the mutex, low `b` waits for it and high `a` waits for it with a
  time to wait, so `c` runs at the priority of `a`. The wait of `a` ends in a tick interrupt;
  `a` is ready but time slicing lets `c`, now its equal, go first. `c` gives the mutex, falls
  back to its own priority, wakes `b`, which does not outrank it, and keeps the processor
  above `a` until the next tick.
* `MCQueuesOrder` (`tasks.c:2899`). Event lists are said to be in priority order
  (`queue.c:118`, `tasks.c:5354`). `vTaskPrioritySet` changes the sort value of a task that waits
  and leaves it where it is. The first task is then woken although another has a higher
  priority. Inheritance has the same effect on a holder that waits for something else.
* `MCSdRejected` (`diskio_sd.c:564`). A single write sets `count` to 0 whatever `write_sector`
  returned, and the result is made of `count` alone: a block that the card rejects at every
  attempt is answered with RES_OK ("The function succeeded", `dwrite.html:44`).
* `MCFatFsRetry` (`ff.c:4315`). `f_sync` clears `FA_MODIFIED` after `sync_fs` even when that failed.
  The entry is only in the sector window, yet an `f_sync` or `f_close` that is tried again
  finds nothing to do and returns FR_OK, and a power loss after that loses the file
  (`sync.html:63`).

The others need other constants than the runs have. Each is a property of its module that
TLC finds violated when the module is given the constants named here and otherwise those of
its passing instance.

Kernel:

* `NoLostWakeup` of `Queues`, with `ResetApplications` of `MCQueues` (`queue.c:333`): of two tasks that
  wait to send to a queue of two, `xQueueReset` wakes one ("one should be unblocked",
  `queue.c:329`), and the other waits, up to its time-out, beside a queue with room.
* `DeletedGroupIsNotRead` of `EventGroups`, with `DeleteApplications` of `MCEventGroups`
  (`event_groups.c:431`): a task whose block time ended has left the list of the group when a
  task of higher priority deletes the group and frees it; then it runs and reads the freed
  memory. `event_groups.h:851` says that it obtains 0.
* `ReloadModeIsKept` of `Timers`, with a timer in `ChangesMode` and in `AutoReload` (`timers.c:1008`, also
  743, 1020, 1037, 1042): the daemon changes its bit of `ucStatus` by `|=` and `&=` outside a
  critical section; if a task of its priority calls `vTimerSetReloadMode` between the read
  and the write, the mode it sets is lost (`timers.h:1306`).
* `DaemonWakesInTime` of `Timers`, with a first period of `MaxDelay` and `MaxSince` 4, `MaxLate` 1
  (`timers.c:882`): the daemon knows of a wrap only by a tick count lower than the last it saw.
  With an empty current list it sleeps until the count is 0. If it last saw 1, as when it
  just started a timer of the longest period there, and runs a tick late, it sees 1 again,
  does not switch the lists, and sleeps until the next wrap with a timer that is due, 256
  seconds late (`timers.c:855`).
* `ImplementsStreamSpec` of `StreamBuffers`, with `xLength` 6 and `Base` 4 (`stream_buffer.c:1053`):
  `xHead` and `xTail` are stored in two halves. In a buffer of more than 256 bytes the other
  side may run in between and compute with an index that was never stored: it reads bytes
  that were not sent (`stream_buffer.h:43` of sdcc: safe for "different tasks or interrupts").
* `OnlyTasksAreNotified` of `StreamBuffers`, with `Waits` "ticks" (`stream_buffer.c:1129`, and 905): a
  task whose wait timed out stores NULL over its handle in two halves, and the other side
  may find half a handle and notify it.
* `ReceiveWaits` of `StreamBuffers`, with `Waits` "forever" (`stream_buffer.c:1132`): a notification for
  bytes that were already taken ends the next wait, so `xStreamBufferReceive` returns 0
  with portMAX_DELAY (`stream_buffer.h:769`: "wait indefinitely"). And with `Kind` "batching" and a
  trigger level of 2 (`stream_buffer.c:928`): the writer notifies at the level, the reader takes
  only what exceeds it (`stream_buffer.h:298`), so at the level exactly it returns 0 early.
* `AllGivenBack` of `Heaps`, with a `heap_4` of more than `Top` bytes, a request for nearly all of
  it (`heap_4.c:312`): a block given out whole because 8 bytes or less would remain has a size
  with the top bit set, which means "allocated"; it comes back 0x8000 bytes shorter.
  `heap_4.c:238` says that the size is checked, and means the one asked for.
* `StatsAgree` of `Heaps` (`heap_4.c:600`): `vPortGetHeapStats` walks the list with the scheduler suspended and
  reads the counters after it was resumed, so that its largest block may be larger than its
  free space (`portable.h:161`).
* `MarkersAreNotCounted` of `Heaps`, `heap_5` with two regions (`heap_5.c:675`): the end markers of the
  regions count as free blocks (`portable.h:164`, `heap_5.c:682`: "not a real block").
* `RoomIsUsed` of `HeapOnce` (`heap_1.c:109`): the comparison is strict, and a request for exactly what
  `xPortGetFreeHeapSize` reports is refused.
* Of `Timeouts`: `xTaskCheckForTimeOut` asked a whole wrap of the tick count after it was last
  asked may say that time is left (two wraps counted, and the tick count below the one
  noted, `tasks.c:5575`), where `task.h:3644` says that the time-out has occurred if the
  ticks have passed. Nobody in the kernel asks that late unless a task is kept from
  running for 256 seconds; it is why `ExactWithinAWrap` is about a wrap.

File system and drivers:

* `FullMeansFull` of `FatFs`, with `n_fatent` 4, power loss and `MaxCalls` 8 (`ff.c:1592`): the free count of
  FSInfo is trusted after a mount. When the power failed before a removal was recorded, it
  is 0 though clusters are free, and `f_write` takes less than it is given (`write.html:55`).
* `VouchedIsOnDisk` of `FatFs`, with `n_fatent` 4, `Cuts` {0} and power loss, `MaxCalls` 12 (`ff.c:5086`):
  `f_truncate` frees a chain that the entry on the disk still points at; another file gets the
  cluster and is closed; the power fails; the first file, opened again, is written into
  the cluster of the other (`appnote.html:290`).
* `ExpandWhollyOrNotAtAll` of `FatFs`, with cluster 2 free, `Root` 3 and `Extents` {4} (`ff.c:5801`): the search
  of `f_expand` counts the last clusters and cluster 2 as contiguous; `put_fat` then fails and
  the clusters marked so far stay lost (`expand.html:53`).
* `OkMeansTransferred` of `DiskioSd`: with a card of version 1 that refuses a command once
  (`diskio_sd.c:509`: `sector *= 512` at every attempt); with an error token in the middle of a
  multiple read (516: `buff` and `count` have moved, `sector` has not); with cards of two kinds
  in two drives and no fault at all (102: `Stat` and `CardType` are one each). `dread.html:44`: the
  function succeeded.
* `OnlyAskedSectorsChange` of `DiskioSd`, with `Counts` {1} and a block rejected once (`diskio_sd.c:561`): the
  retry has a `count` of 0, takes the branch for several blocks, and writes the sectors
  behind from memory behind the buffer (`dwrite.html:35`). `TransfersAreExact` of `MCLibraries`
  has all of these calls in its setups, and excludes them, and no others, by `astray`.
* `SyncedIsWritten` of `DiskioSd` (`diskio_sd.c:627`): CTRL_SYNC does not wait for the card to end its
  writing, as its comment and `dioctl.html:58` say.
* `ReadyCardIsAccepted` of `DiskioSd`, with an MMC (`diskio_sd.c:429`): it refuses CMD55, is deselected, and
  never sees CMD1; the header of the file names MMCv3.
* `TriesLongEnough` of `DiskioSd` (`GivesUpInTime`), with a timer about to wrap (`diskio_sd.c:377`): the deadline lies in
  the past and the loop of four seconds (`diskio_sd.c:368`) ends after one try.
* `OkMeansMoved` of `DiskioHbios`, with `Faults` {"short"} (`diskio_hbios.c:104`, and 140): firmware that fails
  on the first block reports that it moved 0, which is RES_OK, so the loop ends, and `disk_read` and `disk_write`
  answer RES_OK with nothing moved (`dread.html:44`, `dwrite.html:44`: the function succeeded). And with
  `Faults` {"seek"} (98, 134): `resp` starts as RES_OK, so one seek that fails in the first attempt
  ends the loop in the same way.

Libraries:

* `IsoWeekIsRight` and `IsoWeekIsRightSince` of `Calendar` (`iso_week_date_r.c:60` and 66): on January 1 and 2,
  2000 the year before is 65535 in 16 bits; in 2100 the leap day that it does not have is
  counted (the comments at 38 and 39 say which week it is).
* `WeekOfYearInRange` of `Calendar` (`week_of_year.c:57`): a year that begins with a week has 53 of them,
  `time.h:376` says 0 to 52. `YearsSince2000` (`gmtime_r.c:98`): `tm_year` counts from 1900, `time.h:141`
  says 2000. `MonthsCarry` (`mk_gmtime.c:81`): month 12 is August and not the next January;
  `time.h:185` says that the elements are not restricted.
* `RingHoldsWhatWasSent` of `CmdFifo`, with `Buffers` {2} (`GPU_HAL.c:282`): `GPU_HAL_WrCmdBuf` writes to the
  I2C address of the chip instead of the place in the ring, and the co-processor executes
  what the ring held before (`GPU_SampleApp.c:1237`).

## What is not modelled and why

* Functions that only read (`eTaskGetState`, `uxTaskGetSystemState`, `xTimerGetExpiryTime`, ...), trace
  and statistics hooks: they change no state.
* What the configuration compiles out: see [What is built](#what-is-built).
* Queue sets (not built), the queue registry (a table of names), deletion of a queue in
  use (asserted not to happen).
* Assembly: that a switch saves and restores what it must.
* Suspending or deleting a task that was woken from a queue and has not run yet spends the
  wake-up; the runs of `Queues` have no such calls, and no document says whether an
  application may make them.
* A reset of a stream buffer while the other side is in the middle of a copy: the code
  does not refuse it and does not promise anything of it.
* Of FatFs: directories as such (`f_mkdir`, `f_readdir`, relative paths), attributes, time stamps,
  long names and code pages (`ffunicode.c` is tables), the packing of FAT12, exFAT (not
  configured), `f_mkfs` and `f_fdisk`, and the formatted text functions. `f_rename` into another
  directory under power loss may leave two names for one chain, which the source says
  itself (5354, 5381).
* `disk_ioctl` but for CTRL_SYNC: it reads registers of the card.
* Formatting of dates, and the floating point of sun, moon and sidereal time.
* Of the FT80x library all but the command ring: fixed sequences of register transfers.
  `GPU_CoPro_Cmds.c` is not in the list of what is built and calls functions that do not exist.
* `3d`, `regis`, `i2c_lcd`, `th02`, hooks, demos: as in the inventory, straight-line code whose results
  are floating point, escape sequences or transfers of a bus driver that is not in the
  repository.

## Plan

The components that keep state are modelled, and the scheduler, the queues, the stream buffers, the heaps, the command
ring and the HBIOS driver are proved. What would come next:

* `HolderInherits` and `InheritanceEnds` as theorems, for tasks that hold at most one mutex at a time.
* `EventsReachWaiters` for event groups, on the lemmas of `KernelProofs` as in `QueuesProofs`: a waiter is
  in the list of its group, on its way into it, or was told.
