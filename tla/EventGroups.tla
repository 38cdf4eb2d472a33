----------------------------- MODULE EventGroups -----------------------------
(***************************************************************************)
(* Event groups: freertos/source/event_groups.c above the scheduler of     *)
(* Tasks.tla.                                                              *)
(*                                                                         *)
(* Every function but xEventGroupClearBits works with the scheduler        *)
(* suspended.  Interrupts do not touch event groups, so that a stretch of  *)
(* such code is one step, except where it unblocks a task: the task leaves *)
(* the list of the group first and its state list second, and an interrupt *)
(* that comes between the two may find it suspended.                       *)
(*                                                                         *)
(* An event group keeps what a task waits for, and later what it got, in   *)
(* the value of the task's xEventListItem.  Here k.order says only that    *)
(* the value is in use, and item holds it.                                 *)
(***************************************************************************)
EXTENDS Tasks

CONSTANTS
    EventGroup,     \* the event groups
    EventBit,       \* the bits of an EventBits_t that the application uses
    Party,          \* the tasks that meet in a rendezvous, each with a bit of its own
    NULL            \* the end marker of a list

xTasksWaitingForBits(g) == <<"xTasksWaitingForBits", g>>
GroupLists == {xTasksWaitingForBits(g) : g \in EventGroup}

Mask == SUBSET EventBit

\* What a task asks for: the bits a rendezvous sets, the bits waited for, and
\* xClearOnExit and xWaitForAllBits.
Request == [sync: BOOLEAN, set: Mask, bits: Mask \ {{}}, clear: BOOLEAN, all: BOOLEAN]

\* An application says, for each task, what it asks for and the masks it sets
\* and clears.  A rendezvous waits for all of its bits and clears them.
ASSUME EventGroupsAssumption ==
    /\ NULL \notin Task
    /\ Party \subseteq Task
    /\ \A name \in DOMAIN Applications :
           /\ Applications[name].requests \in [Task -> SUBSET Request]
           /\ \A t \in Task : \A r \in Applications[name].requests[t] :
                  r.sync => r.clear /\ r.all
           /\ Applications[name].masks \in [Task -> SUBSET Mask]

VARIABLES
    group,  \* [EventGroup -> uxEventBits and whether the group can be used]
    item,   \* [Task -> the value of xEventListItem while it is in use]
    wait    \* [Task -> the parameters and locals of the call it is in]

groupVars == <<group, item, wait>>
everything == <<k, todo, value, previous, allocated, app, group, item, wait>>

GroupOps == {"walk", "unblock", "read", "test", "reset", "timedOut",
             "deleteWalk", "freeGroup"}

GroupStates == {"live", "deleting", "free"}

NoItem == [bits |-> {}, clear |-> FALSE, all |-> FALSE, set |-> FALSE]

NoWait == [group |-> CHOOSE g \in EventGroup : TRUE,
           request |-> [sync |-> FALSE, set |-> {}, bits |-> EventBit,
                        clear |-> FALSE, all |-> FALSE],
           ticks |-> 0, original |-> {}, toClear |-> {}, next |-> NULL]

GroupsTypeOK ==
    /\ TypeOK
    /\ group \in [EventGroup -> [bits: Mask, state: GroupStates]]
    /\ item \in [Task -> [bits: Mask, clear: BOOLEAN, all: BOOLEAN, set: BOOLEAN]]
    /\ wait \in [Task -> [group: EventGroup, request: Request, ticks: Tick,
                          original: Mask, toClear: Mask, next: Task \cup {NULL}]]

\* The groups were created before the scheduler was started.
GroupsInit ==
    /\ Init
    /\ group = [g \in EventGroup |-> [bits |-> {}, state |-> "live"]]
    /\ item = [t \in Task |-> NoItem]
    /\ wait = [t \in Task |-> NoWait]

-----------------------------------------------------------------------------
(* The wait condition.                                                     *)

prvTestWaitCondition(current, bits, all) ==
    IF all THEN bits \subseteq current ELSE bits \cap current # {}

This == wait[Me]
G == This.group
Waiters(g) == k.event[xTasksWaitingForBits(g)]

\* Mutant of After: the walk does not go on.
AfterNone(g, t) == NULL

\* listGET_NEXT
After(g, t) ==
    LET i == CHOOSE j \in DOMAIN Waiters(g) : Waiters(g)[j] = t
    IN  IF i = Len(Waiters(g)) THEN NULL ELSE Waiters(g)[i + 1]

\* The item of a task that waits matches the bits of the group.
Matches(t, bits) == prvTestWaitCondition(bits, item[t].bits, item[t].all)

\* The bits a task is to find in its item, with eventUNBLOCKED_DUE_TO_BIT_SET.
Unblocked(bits) == [bits |-> bits, clear |-> FALSE, all |-> FALSE, set |-> TRUE]

\* vTaskRemoveFromUnorderedEventList, its first half.
LeavesGroup(t, bits) ==
    /\ item' = [item EXCEPT ![t] = Unblocked(bits)]
    /\ k' = RemoveEvent(k, t)

\* Its second half.  The scheduler is suspended: a yield is left pending.
Unblock ==
    /\ Running("unblock")
    /\ k' = PendYieldIfHigher(MakeReady(k, Item.task), Item.task)
    /\ Done
    /\ UNCHANGED <<value, previous, allocated, app, group, item, wait>>

DoUnblock(t) == [Do("unblock") EXCEPT !.task = t]

-----------------------------------------------------------------------------
(* xEventGroupSetBits: the walk along the tasks that wait.                 *)

\* The bits are set and the walk starts at the head of the list.
Sets(g, bits) ==
    /\ group' = [group EXCEPT ![g].bits = @ \cup bits]
    /\ wait' = [wait EXCEPT ![Me].group = g,
                            ![Me].original = group[g].bits,
                            ![Me].toClear = {},
                            ![Me].next = IF Waiters(g) = <<>> THEN NULL ELSE Head(Waiters(g))]

\* Mutant of WalkMatch: the bits are cleared as soon as one task matches.
WalkMatchClears ==
    /\ Running("walk")
    /\ This.next # NULL
    /\ Matches(This.next, group[G].bits)
    /\ LeavesGroup(This.next, group[G].bits)
    /\ wait' = [wait EXCEPT ![Me].next = After(G, This.next)]
    /\ group' = [group EXCEPT ![G].bits = IF item[This.next].clear
                                          THEN @ \ item[This.next].bits ELSE @]
    /\ Continue(<<DoUnblock(This.next)>> \o todo[Me])
    /\ UNCHANGED <<value, previous, allocated, app>>

WalkMatch ==
    /\ Running("walk")
    /\ This.next # NULL
    /\ Matches(This.next, group[G].bits)
    /\ LeavesGroup(This.next, group[G].bits)
    /\ wait' = [wait EXCEPT
           ![Me].toClear = IF item[This.next].clear THEN @ \cup item[This.next].bits ELSE @,
           ![Me].next = After(G, This.next)]
    /\ Continue(<<DoUnblock(This.next)>> \o todo[Me])
    /\ UNCHANGED <<value, previous, allocated, app, group>>

WalkPast ==
    /\ Running("walk")
    /\ This.next # NULL
    /\ ~Matches(This.next, group[G].bits)
    /\ wait' = [wait EXCEPT ![Me].next = After(G, This.next)]
    /\ UNCHANGED <<k, todo, value, previous, allocated, app, group, item>>

\* The bits of the tasks that asked for it are cleared, when all are told.
WalkEnd ==
    /\ Running("walk")
    /\ This.next = NULL
    /\ group' = [group EXCEPT ![G].bits = @ \ This.toClear]
    /\ Done
    /\ UNCHANGED <<k, value, previous, allocated, app, item, wait>>

\* What xEventGroupSetBits returns is read after xTaskResumeAll.
ReadBits ==
    /\ Running("read")
    /\ Done
    /\ UNCHANGED <<k, value, previous, allocated, app, group, item, wait>>

-----------------------------------------------------------------------------
(* Waiting.                                                                *)

\* vTaskPlaceOnUnorderedEventList: the caller blocks.
Blocks(s, g, request, ticks) ==
    /\ k' = vTaskPlaceOnUnorderedEventList(s, xTasksWaitingForBits(g), ticks)
    /\ item' = [item EXCEPT ![Me] = [bits |-> request.bits, clear |-> request.clear,
                                     all |-> request.all, set |-> FALSE]]
    /\ Continue(<<Do("resumeAll"), Do("yield"), Do("reset")>>)

\* xEventGroupSync, after it has set its bits.  If they complete the
\* rendezvous nothing need be waited for.
TestSync ==
    /\ Running("test")
    /\ LET complete == This.request.bits \subseteq This.original \cup This.request.set
       IN  \/ /\ complete
              /\ group' = [group EXCEPT ![G].bits = @ \ This.request.bits]
              /\ Done
              /\ UNCHANGED <<k, item>>
           \/ /\ ~complete
              /\ This.ticks > 0
              /\ Blocks(k, G, This.request, This.ticks)
              /\ UNCHANGED group
           \/ /\ ~complete
              /\ This.ticks = 0
              /\ Done
              /\ UNCHANGED <<k, group, item>>
    /\ UNCHANGED <<value, previous, allocated, app, wait>>

\* The task runs again: its item says if the bits were set, or if it is for
\* another reason, such as the end of the block time.
Reset ==
    /\ Running("reset")
    /\ k' = uxTaskResetEventItemValue(k)
    /\ item' = [item EXCEPT ![Me] = NoItem]
    /\ Continue(IF item[Me].set THEN <<>> ELSE <<Do("timedOut")>>)
    /\ UNCHANGED <<value, previous, allocated, app, group, wait>>

\* Mutant of TimedOut: the bits are cleared whether the condition is met.
TimedOutClears ==
    /\ Running("timedOut")
    /\ group' = IF This.request.clear /\ group[G].state # "free"
                THEN [group EXCEPT ![G].bits = @ \ This.request.bits]
                ELSE group
    /\ Done
    /\ UNCHANGED <<k, value, previous, allocated, app, item, wait>>

\* The block time ended; the bits may have been set since.  A group that has
\* been freed by now is no group any more: what is read is anything, and the
\* memory that is written is another's.
TimedOut ==
    /\ Running("timedOut")
    /\ LET met == prvTestWaitCondition(group[G].bits, This.request.bits, This.request.all)
       IN  group' = IF met /\ This.request.clear /\ group[G].state # "free"
                    THEN [group EXCEPT ![G].bits = @ \ This.request.bits]
                    ELSE group
    /\ Done
    /\ UNCHANGED <<k, value, previous, allocated, app, item, wait>>

-----------------------------------------------------------------------------
(* vEventGroupDelete: the tasks that wait are told 0.                      *)

DeleteWalk ==
    /\ Running("deleteWalk")
    /\ \/ /\ Waiters(G) # <<>>
          /\ LeavesGroup(Head(Waiters(G)), {})
          /\ Continue(<<DoUnblock(Head(Waiters(G)))>> \o todo[Me])
       \/ /\ Waiters(G) = <<>>
          /\ Done
          /\ UNCHANGED <<k, item>>
    /\ UNCHANGED <<value, previous, allocated, app, group, wait>>

\* vPortFree
FreeGroup ==
    /\ Running("freeGroup")
    /\ k' = [k EXCEPT !.susp = @ + 1]
    /\ group' = [group EXCEPT ![G].state = "free"]
    /\ Done
    /\ UNCHANGED <<value, previous, allocated, app, item, wait>>

-----------------------------------------------------------------------------
(* API calls.  The application does not use a group once it has called     *)
(* vEventGroupDelete.                                                      *)

GroupCall(f, g) == CallsRunning(f) /\ group[g].state = "live"

\* pvPortMalloc, or a refusal: then nothing happens.
xEventGroupCreate(g) ==
    /\ CallsRunning("xEventGroupCreate")
    /\ group[g].state = "free"
    /\ group' = [group EXCEPT ![g] = [bits |-> {}, state |-> "live"]]
    /\ k' = [k EXCEPT !.susp = 1]
    /\ Continue(<<Do("resumeAll")>>)
    /\ UNCHANGED <<value, previous, allocated, app, item, wait>>

xEventGroupSetBits(g, bits) ==
    /\ GroupCall("xEventGroupSetBits", g)
    /\ k' = [k EXCEPT !.susp = 1]
    /\ Sets(g, bits)
    /\ Continue(<<Do("walk"), Do("resumeAll"), Do("read")>>)
    /\ UNCHANGED <<value, previous, allocated, app, item>>

xEventGroupClearBits(g, bits) ==
    /\ GroupCall("xEventGroupClearBits", g)
    /\ group' = [group EXCEPT ![g].bits = @ \ bits]
    /\ UNCHANGED <<k, todo, value, previous, allocated, app, item, wait>>

\* xEventGroupSetBits is called with the scheduler suspended already.
xEventGroupSync(g, request, n) ==
    /\ GroupCall("xEventGroupSync", g)
    /\ k' = [k EXCEPT !.susp = 2]
    /\ group' = [group EXCEPT ![g].bits = @ \cup request.set]
    /\ wait' = [wait EXCEPT ![Me] =
           [group |-> g, request |-> request, ticks |-> n,
            original |-> group[g].bits, toClear |-> {},
            next |-> IF Waiters(g) = <<>> THEN NULL ELSE Head(Waiters(g))]]
    /\ Continue(<<Do("walk"), Do("resumeAll"), Do("test"), Do("resumeAll")>>)
    /\ UNCHANGED <<value, previous, allocated, app, item>>

xEventGroupWaitBits(g, request, n) ==
    /\ GroupCall("xEventGroupWaitBits", g)
    /\ wait' = [wait EXCEPT ![Me] = [NoWait EXCEPT !.group = g, !.request = request,
                                                   !.ticks = n]]
    /\ LET met == prvTestWaitCondition(group[g].bits, request.bits, request.all)
           s == [k EXCEPT !.susp = 1]
       IN  \/ /\ met
              /\ group' = IF request.clear
                          THEN [group EXCEPT ![g].bits = @ \ request.bits]
                          ELSE group
              /\ k' = s
              /\ Continue(<<Do("resumeAll")>>)
              /\ UNCHANGED item
           \/ /\ ~met
              /\ n = 0
              /\ k' = s
              /\ Continue(<<Do("resumeAll")>>)
              /\ UNCHANGED <<group, item>>
           \/ /\ ~met
              /\ n > 0
              /\ Blocks(s, g, request, n)
              /\ UNCHANGED group
    /\ UNCHANGED <<value, previous, allocated, app>>

vEventGroupDelete(g) ==
    /\ GroupCall("vEventGroupDelete", g)
    /\ k' = [k EXCEPT !.susp = 1]
    /\ group' = [group EXCEPT ![g].state = "deleting"]
    /\ wait' = [wait EXCEPT ![Me] = [NoWait EXCEPT !.group = g]]
    /\ Continue(<<Do("deleteWalk"), Do("resumeAll"), Do("freeGroup"), Do("resumeAll")>>)
    /\ UNCHANGED <<value, previous, allocated, app, item>>

-----------------------------------------------------------------------------

GroupContinuation ==
    \/ Unblock \/ WalkMatch \/ WalkPast \/ WalkEnd \/ ReadBits
    \/ TestSync \/ Reset \/ TimedOut \/ DeleteWalk \/ FreeGroup

GroupCalls ==
    \E g \in EventGroup :
        \/ xEventGroupCreate(g) \/ vEventGroupDelete(g)
        \/ \E bits \in App.masks[Me] : xEventGroupSetBits(g, bits) \/ xEventGroupClearBits(g, bits)
        \/ \E request \in App.requests[Me], n \in App.ticks[Me] :
              IF request.sync THEN xEventGroupSync(g, request, n)
              ELSE xEventGroupWaitBits(g, request, n)

GroupsNext ==
    \/ Next /\ UNCHANGED groupVars
    \/ GroupContinuation
    \/ GroupCalls

GroupsSpec == GroupsInit /\ [][GroupsNext]_everything

GroupsFairness ==
    /\ WF_everything((TickLoop \/ ResumeAllLoop) /\ UNCHANGED groupVars)
    /\ SF_everything(TickInterrupt /\ UNCHANGED groupVars)
    /\ \A t \in Task :
          SF_everything(Me = t /\ ((Continuation /\ UNCHANGED groupVars) \/ GroupContinuation))

GroupsFairSpec == GroupsSpec /\ GroupsFairness

-----------------------------------------------------------------------------
(* Properties.                                                             *)

\* A task is inside xEventGroupWaitBits or xEventGroupSync.
InWait(t) == todo[t] # <<>> /\ Last(todo[t]).op \in {"reset", "timedOut"}

InSync(t) ==
    /\ todo[t] # <<>>
    /\ wait[t].request.sync
    /\ \/ InWait(t)
       \/ \E i \in DOMAIN todo[t] : todo[t][i].op \in {"test", "walk"}

\* The walk along the tasks that wait for group g is under way, and has not
\* passed t yet.
WalkWillReach(g, t) ==
    /\ todo[Me] # <<>>
    /\ Head(todo[Me]).op \in {"walk", "unblock"}
    /\ G = g
    /\ This.next # NULL
    /\ \E i, j \in DOMAIN Waiters(g) :
           i <= j /\ Waiters(g)[i] = This.next /\ Waiters(g)[j] = t

\* No event is missed: a task that waits in the list of a group waits for bits
\* that are not set, whatever bits were set, cleared and consumed by others,
\* unless the walk that follows the setting of bits has yet to reach it.
NoMissedEvent ==
    \A g \in EventGroup : \A i \in DOMAIN Waiters(g) :
        LET t == Waiters(g)[i]
        IN  Matches(t, group[g].bits) => WalkWillReach(g, t)

\* A task is told only what it asked for: the bits stored in its item by the
\* task that unblocked it meet its condition, or the group was deleted.
ToldWhatItAskedFor ==
    \A t \in k.live :
        InWait(t) /\ item[t].set /\ group[wait[t].group].state = "live"
            => prvTestWaitCondition(item[t].bits, wait[t].request.bits, wait[t].request.all)

\* A task in the list of a group is in a call that waits for the group, blocked,
\* and its item holds what it asked for; a task that leaves the list goes to a
\* ready list, is suspended, or is on its way from the one to the other.
GroupWaitersAreBlocked ==
    \A g \in EventGroup : \A i \in DOMAIN Waiters(g) :
        LET t == Waiters(g)[i]
        IN  /\ InWait(t) /\ wait[t].group = g
            /\ ~ReadyToRun(t)
            /\ ValueInUse(k, t)
            /\ ~item[t].set
            /\ item[t].bits = wait[t].request.bits

\* Events reach the tasks that wait for them, all of them and nobody else.
EventsReachWaiters ==
    GroupsTypeOK /\ NoMissedEvent /\ ToldWhatItAskedFor /\ GroupWaitersAreBlocked

\* Bits are cleared, other than on request of the application, only in favour
\* of a task that asked for it, and that was told of them or finds that its own
\* condition is met: an event that nobody has got is not lost.
GetsIt(t, b, g) ==
    /\ b \in wait'[t].request.bits
    /\ wait'[t].request.clear
    /\ wait'[t].group = g
    /\ \/ InWait(t) /\ item[t].set /\ b \in item[t].bits
       \/ /\ t = Me
          /\ prvTestWaitCondition(group[g].bits \cup wait'[t].original \cup wait'[t].request.set,
                                  wait'[t].request.bits, wait'[t].request.all)

NoEventIsLost ==
    [][\A g \in EventGroup : \A b \in group[g].bits \ group'[g].bits :
           \/ \E mask \in App.masks[Me] : xEventGroupClearBits(g, mask)
           \/ xEventGroupCreate(g)
           \/ \E t \in Task : GetsIt(t, b, g)]_everything

\* What event_groups.h says of vEventGroupDelete (lines 851 to 853): the tasks
\* that are blocked on the group obtain 0 as its value.  So none that is still
\* in its call when the group is freed goes on to look at the group.
DeletedGroupIsNotRead ==
    \A t \in k.live :
        InWait(t) /\ group[wait[t].group].state = "free" => item[t].set

\* The tasks that meet in a rendezvous, each setting a bit of its own,
\* as Rendezvous has it: a task is released when it, or the last one to come,
\* has set the last of the bits.
Released(t) ==
    \/ item[t].set
    \/ wait[t].request.bits \subseteq group[wait[t].group].bits
    \/ ~InWait(t) /\ wait[t].request.bits \subseteq wait[t].original \cup wait[t].request.set

Meeting ==
    INSTANCE Rendezvous WITH
        arrived <- {t \in Party : InSync(t) /\ ~Released(t)},
        leaving <- {t \in Party : InSync(t) /\ Released(t)}

\* xEventGroupSync is a rendezvous of the tasks that do nothing else and wait as
\* long as it takes: no task returns from it before all have
\* called it, whatever the order they run in, and none calls it twice before
\* all have returned.
Meets ==
    \A t \in Party :
        /\ App.api[t] = {"xEventGroupSync"}
        /\ App.ticks[t] = {MaxDelay}
        /\ \A request \in App.requests[t] : request.bits = EventBit

IsRendezvous == Meeting!Init /\ [][Meets => Meeting!Next]_(Meeting!vars)

=============================================================================
