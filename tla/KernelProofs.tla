---------------------------- MODULE KernelProofs ----------------------------
(***************************************************************************)
(* What the operators of Kernel.tla do to the kernel's lists, for any      *)
(* number of tasks, priorities and event lists: each keeps every task in   *)
(* at most one state list and one event list, the delayed lists ordered by *)
(* wake time, and touches no field but the ones it names.  And the lists   *)
(* as an application finds them when the scheduler starts.                 *)
(***************************************************************************)
EXTENDS Tasks, ListsLemmas

-----------------------------------------------------------------------------
(* What is kept of the lists. *)

\* The state lists and event lists are well formed: no item is in two lists
\* or twice in one, pxIndex is in its list, and does not move in the delayed
\* lists, which are ordered.
Linked(kk) ==
    /\ \A l \in StateLists : Distinct(kk.list[l]) /\ kk.index[l] <= Len(kk.list[l])
    /\ \A t \in Task : \A l, m \in StateLists : IsIn(kk, t, l) /\ IsIn(kk, t, m) => l = m
    /\ kk.index[Delayed] = 0 /\ InOrder(kk.list[Delayed], kk.wake)
    /\ kk.index[OverflowDelayed] = 0 /\ InOrder(kk.list[OverflowDelayed], kk.wake)
    /\ \A e \in EventLists : Distinct(kk.event[e])
    /\ \A t \in Task : \A e, f \in EventLists :
           Occurs(kk.event[e], t) /\ Occurs(kk.event[f], t) => e = f

\* The fields that the operators on state lists leave alone.
KeepsTasks(kk, r) ==
    /\ r.order = kk.order /\ r.prio = kk.prio /\ r.base = kk.base /\ r.held = kk.held
    /\ r.notify = kk.notify /\ r.live = kk.live

KeepsClock(kk, r) ==
    r.tick = kk.tick /\ r.overflows = kk.overflows /\ r.pended = kk.pended

KeepsProcessor(kk, r) == r.current = kk.current /\ r.susp = kk.susp /\ r.cpu = kk.cpu

Keeps(kk, r) == KeepsTasks(kk, r) /\ KeepsClock(kk, r) /\ KeepsProcessor(kk, r)

\* Task t leaves the state lists; task t is in list l, and the others are
\* where they were.
Leaves(kk, r, t) ==
    \A u \in Task, m \in StateLists : IsIn(r, u, m) <=> u # t /\ IsIn(kk, u, m)

Goes(kk, r, t, l) ==
    \A u \in Task, m \in StateLists :
        IsIn(r, u, m) <=> IF u = t THEN m = l ELSE IsIn(kk, u, m)

\* The names of the lists are not confused.
LEMMA ListNames ==
    /\ \A p \in Priority : Ready(p) \in StateLists
    /\ \A p, q \in Priority : Ready(p) = Ready(q) => p = q
    /\ \A p \in Priority : Ready(p) \notin {Delayed, OverflowDelayed, Suspended, Terminated}
    /\ {Delayed, OverflowDelayed, Suspended, Terminated} \subseteq StateLists
    /\ Delayed # OverflowDelayed /\ Delayed # Suspended /\ Delayed # Terminated
    /\ OverflowDelayed # Suspended /\ OverflowDelayed # Terminated
    /\ Suspended # Terminated
    /\ PendingReady \in EventLists /\ WaitLists \subseteq EventLists
    /\ PendingReady \notin WaitLists
    /\ \A l \in StateLists : \/ \E p \in Priority : l = Ready(p)
                             \/ l \in {Delayed, OverflowDelayed, Suspended, Terminated}
BY KernelAssumption
   DEF Ready, Delayed, OverflowDelayed, Suspended, Terminated, ReadyLists, StateLists,
       EventLists

\* The types of the fields.
LEMMA FieldTypes ==
    ASSUME NEW kk \in KernelState
    PROVE  /\ kk.list \in [StateLists -> Seq(Task)] /\ kk.index \in [StateLists -> Nat]
           /\ kk.event \in [EventLists -> Seq(Task)]
           /\ kk.wake \in [Task -> Tick] /\ kk.order \in [Task -> Nat]
           /\ kk.prio \in [Task -> Priority] /\ kk.base \in [Task -> Priority]
           /\ kk.held \in [Task -> Nat] /\ kk.notify \in [Task -> NotifyStates]
           /\ kk.live \subseteq Task /\ kk.current \in Task
           /\ kk.tick \in Tick /\ kk.next \in Tick /\ kk.overflows \in 0 .. OverflowCount - 1
           /\ kk.top \in Priority /\ kk.susp \in Nat /\ kk.pended \in Nat
           /\ kk.yield \in BOOLEAN /\ kk.cpu \in CpuModes
BY DEF KernelState

\* Tick counts and priorities are natural numbers, and portMAX_DELAY is the
\* last tick count.
LEMMA TickFacts ==
    /\ MaxDelay \in Nat /\ MaxDelay > 0 /\ 0 \in Tick /\ MaxDelay \in Tick
    /\ Tick \subseteq Nat /\ \A x \in Tick : x >= 0 /\ x <= MaxDelay
    /\ Priority \subseteq Nat /\ 0 \in Priority
BY TickAssumption, KernelAssumption DEF Tick, Priority

-----------------------------------------------------------------------------
(* Order in the delayed lists. *)

\* The order of a list depends on the values of its own items only.
LEMMA OrderOfSome ==
    ASSUME NEW S, NEW s \in Seq(S), NEW v \in [S -> Nat], InOrder(s, v),
           NEW w \in [S -> Nat], \A t \in S : Occurs(s, t) => w[t] = v[t]
    PROVE  InOrder(s, w)
<1>1. \A i \in 1 .. Len(s) : s[i] \in S /\ Occurs(s, s[i])
  BY OccursByLength
<1> QED  BY <1>1 DEF InOrder

\* uxListRemove leaves a list in order in order.
LEMMA RemoveKeepsOrder ==
    ASSUME NEW S, NEW s \in Seq(S), NEW v \in [S -> Nat], InOrder(s, v),
           NEW t, Occurs(s, t)
    PROVE  InOrder(uxListRemove(s, t), v)
<1> DEFINE p == Position(s, t)
           new == RemoveAt(s, p)
           n == Len(s)
           old(j) == IF j < p THEN j ELSE j + 1
<1>1. p \in 1 .. n
  BY PositionFound
<1>2. uxListRemove(s, t) = new
  BY DEF uxListRemove
<1> HIDE DEF p
<1>3. /\ new \in Seq(S) /\ Len(new) = n - 1
      /\ \A j \in 1 .. n - 1 : new[j] = IF j < p THEN s[j] ELSE s[j + 1]
  BY <1>1, RemoveAtProperties
<1>4. n \in Nat
  BY LenProperties
<1> HIDE DEF new, n
<1>5. \A j \in 1 .. n - 1 : old(j) \in 1 .. n /\ new[j] = s[old(j)]
  <2> TAKE j \in 1 .. n - 1
  <2>1. old(j) \in 1 .. n
    BY <1>1, <1>4
  <2>2. new[j] = s[old(j)]
    BY <1>3
  <2> QED  BY <2>1, <2>2
<1>6. \A i, j \in 1 .. n - 1 : i <= j => old(i) <= old(j)
  BY <1>1, <1>4
<1>7. DOMAIN s = 1 .. n /\ DOMAIN new = 1 .. n - 1
  BY <1>3, OccursByLength DEF n
<1> HIDE DEF old
<1>8. \A i, j \in 1 .. n : i <= j => v[s[i]] <= v[s[j]]
  BY DEF InOrder, n
<1>9. ASSUME NEW i \in 1 .. n - 1, NEW j \in 1 .. n - 1, i <= j
      PROVE  v[new[i]] <= v[new[j]]
  <2>1. /\ old(i) \in 1 .. n /\ old(j) \in 1 .. n
        /\ new[i] = s[old(i)] /\ new[j] = s[old(j)]
    BY <1>5
  <2>2. old(i) <= old(j)
    BY <1>6, <1>9
  <2> QED  BY <1>8, <2>1, <2>2
<1>10. InOrder(new, v)
  BY <1>3, <1>9 DEF InOrder
<1> QED  BY <1>2, <1>10

-----------------------------------------------------------------------------
(* One task moves between the state lists. *)

\* The state list a task is in is found by the pointer pxContainer.
LEMMA ContainerFound ==
    ASSUME NEW kk \in KernelState, Linked(kk), NEW t \in Task,
           NEW l \in StateLists, IsIn(kk, t, l)
    PROVE  Container(kk, t) = l
<1>1. Container(kk, t) \in StateLists /\ IsIn(kk, t, Container(kk, t))
  BY DEF Container
<1> QED  BY <1>1 DEF Linked

\* RemoveState: the task is in no state list.
Removed(kk, r, t) ==
    /\ r \in KernelState /\ Linked(r) /\ Keeps(kk, r) /\ Leaves(kk, r, t)
    /\ r.event = kk.event /\ r.wake = [kk.wake EXCEPT ![t] = 0]
    /\ r.next = kk.next /\ r.top = kk.top /\ r.yield = kk.yield

\* uxListRemove of a task's state list item takes it off the list it is on and
\* moves no other.
LEMMA RemoveStateRemoves ==
    ASSUME NEW kk \in KernelState, Linked(kk), NEW t \in Task,
           NEW l \in StateLists, IsIn(kk, t, l)
    PROVE  Removed(kk, RemoveState(kk, t), t)
<1> DEFINE s == uxListRemove(kk.list[l], t)
           x == IndexAfterRemove(kk.list[l], kk.index[l], t)
           r == RemoveState(kk, t)
<1>1. kk.list[l] \in Seq(Task) /\ kk.index[l] \in Nat /\ kk.wake \in [Task -> Nat]
  BY FieldTypes, TickFacts
<1>2. Distinct(kk.list[l]) /\ kk.index[l] <= Len(kk.list[l]) /\ Occurs(kk.list[l], t)
  BY DEF Linked, IsIn
<1>3. /\ s \in Seq(Task) /\ Len(s) = Len(kk.list[l]) - 1
      /\ \A u : Occurs(s, u) <=> u # t /\ Occurs(kk.list[l], u)
      /\ Distinct(s)
      /\ x \in Nat /\ x <= Len(kk.list[l]) - 1
      /\ kk.index[l] = 0 => x = 0
  <2> DEFINE q == kk.list[l]
             i == kk.index[l]
  <2>1. q \in Seq(Task) /\ i \in Nat /\ Distinct(q) /\ i <= Len(q) /\ Occurs(q, t)
    BY <1>1, <1>2
  <2> HIDE DEF q, i
  <2>2. /\ uxListRemove(q, t) \in Seq(Task) /\ Len(uxListRemove(q, t)) = Len(q) - 1
        /\ \A u : Occurs(uxListRemove(q, t), u) <=> u # t /\ Occurs(q, u)
        /\ Distinct(uxListRemove(q, t))
        /\ IndexAfterRemove(q, i, t) \in Nat /\ IndexAfterRemove(q, i, t) <= Len(q) - 1
        /\ i = 0 => IndexAfterRemove(q, i, t) = 0
    BY <2>1, RemoveProperties
  <2> QED  BY <2>2 DEF q, i
<1>4. InOrder(kk.list[l], kk.wake) => InOrder(s, kk.wake)
  BY <1>1, <1>2, RemoveKeepsOrder
<1>5. r = [kk EXCEPT !.list[l] = s, !.index[l] = x, !.wake[t] = 0]
  BY ContainerFound DEF RemoveState
<1> HIDE DEF s, x, r
<1>6. r \in KernelState
  BY <1>3, <1>5, TickFacts DEF KernelState
<1>7. /\ r.list = [kk.list EXCEPT ![l] = s] /\ r.index = [kk.index EXCEPT ![l] = x]
      /\ r.wake = [kk.wake EXCEPT ![t] = 0] /\ r.event = kk.event
      /\ r.next = kk.next /\ r.top = kk.top /\ r.yield = kk.yield
      /\ Keeps(kk, r)
  BY <1>5 DEF KernelState, Keeps, KeepsTasks, KeepsClock, KeepsProcessor
<1>8. /\ \A m \in StateLists : r.list[m] = IF m = l THEN s ELSE kk.list[m]
      /\ \A m \in StateLists : r.index[m] = IF m = l THEN x ELSE kk.index[m]
      /\ \A u \in Task : u # t => r.wake[u] = kk.wake[u]
  BY <1>7, FieldTypes
<1>9. Leaves(kk, r, t)
  <2> SUFFICES ASSUME NEW u \in Task, NEW m \in StateLists
               PROVE  IsIn(r, u, m) <=> u # t /\ IsIn(kk, u, m)
    BY DEF Leaves
  <2>1. CASE m = l
    BY <1>3, <1>8, <2>1 DEF IsIn
  <2>2. CASE m # l
    BY <1>8, <2>2 DEF IsIn, Linked
  <2> QED  BY <2>1, <2>2
<1>10. Linked(r)
  <2>1. \A m \in StateLists : Distinct(r.list[m]) /\ r.index[m] <= Len(r.list[m])
    <3> TAKE m \in StateLists
    <3>1. CASE m = l
      BY <1>3, <1>8, <3>1
    <3>2. CASE m # l
      BY <1>8, <3>2 DEF Linked
    <3> QED  BY <3>1, <3>2
  <2>2. \A u \in Task : \A m, n \in StateLists : IsIn(r, u, m) /\ IsIn(r, u, n) => m = n
    BY <1>9 DEF Linked, Leaves
  <2>3. ASSUME NEW m \in {Delayed, OverflowDelayed}
        PROVE  r.index[m] = 0 /\ InOrder(r.list[m], r.wake)
    <3>1. m \in StateLists /\ kk.index[m] = 0 /\ InOrder(kk.list[m], kk.wake)
      BY <2>3, ListNames DEF Linked
    <3>2. r.index[m] = 0
      BY <1>3, <1>8, <3>1
    <3>3. InOrder(r.list[m], kk.wake)
      BY <1>4, <1>8, <3>1
    <3>4. r.list[m] \in Seq(Task) /\ r.wake \in [Task -> Nat]
      BY <1>6, <3>1, FieldTypes, TickFacts
    <3>5. \A u \in Task : Occurs(r.list[m], u) => r.wake[u] = kk.wake[u]
      BY <1>8, <1>9, <3>1 DEF Leaves, IsIn
    <3>6. InOrder(r.list[m], r.wake)
      BY <1>1, <3>3, <3>4, <3>5, OrderOfSome
    <3> QED  BY <3>2, <3>6
  <2>4. /\ \A e \in EventLists : Distinct(r.event[e])
        /\ \A u \in Task : \A e, f \in EventLists :
               Occurs(r.event[e], u) /\ Occurs(r.event[f], u) => e = f
    BY <1>7 DEF Linked
  <2> QED  BY <2>1, <2>2, <2>3, <2>4 DEF Linked
<1> QED  BY <1>6, <1>7, <1>9, <1>10 DEF Removed, r

\* AppendState: a task that was in no state list is in list l.
Appended(kk, r, t, l) ==
    /\ r \in KernelState /\ Linked(r) /\ Keeps(kk, r) /\ Goes(kk, r, t, l)
    /\ r.event = kk.event /\ r.wake = kk.wake
    /\ r.next = kk.next /\ r.top = kk.top /\ r.yield = kk.yield

\* vListInsertEnd of a task's state list item puts it on that list and moves
\* no other.
LEMMA AppendStateAppends ==
    ASSUME NEW kk \in KernelState, Linked(kk), NEW t \in Task,
           \A m \in StateLists : ~IsIn(kk, t, m),
           NEW l \in StateLists, l \notin {Delayed, OverflowDelayed}
    PROVE  Appended(kk, AppendState(kk, l, t), t, l)
<1> DEFINE old == kk.list[l]
           i == kk.index[l]
           s == vListInsertEnd(old, i, t)
           x == IndexAfterInsertEnd(i)
           r == AppendState(kk, l, t)
<1>1. old \in Seq(Task) /\ i \in Nat
  BY FieldTypes
<1>2. Distinct(old) /\ i <= Len(old) /\ ~Occurs(old, t)
  BY DEF Linked, IsIn
<1>3. /\ s \in Seq(Task) /\ Len(s) = Len(kk.list[l]) + 1
      /\ \A u : Occurs(s, u) <=> u = t \/ Occurs(kk.list[l], u)
      /\ Distinct(s)
      /\ x \in Nat /\ x <= Len(kk.list[l]) + 1
  <2> HIDE DEF old, i
  <2>1. /\ s \in Seq(Task) /\ Len(s) = Len(old) + 1
        /\ \A u : Occurs(s, u) <=> u = t \/ Occurs(old, u)
        /\ Distinct(s)
        /\ x \in Nat /\ x <= Len(old) + 1
    BY <1>1, <1>2, InsertEndProperties
  <2> QED  BY <2>1 DEF old
<1>5. r = [kk EXCEPT !.list[l] = s, !.index[l] = x]
  BY DEF AppendState
<1> HIDE DEF s, x, r
<1>6. r \in KernelState
  BY <1>3, <1>5 DEF KernelState
<1>7. /\ r.list = [kk.list EXCEPT ![l] = s] /\ r.index = [kk.index EXCEPT ![l] = x]
      /\ r.wake = kk.wake /\ r.event = kk.event
      /\ r.next = kk.next /\ r.top = kk.top /\ r.yield = kk.yield
      /\ Keeps(kk, r)
  BY <1>5 DEF KernelState, Keeps, KeepsTasks, KeepsClock, KeepsProcessor
<1>8. /\ \A m \in StateLists : r.list[m] = IF m = l THEN s ELSE kk.list[m]
      /\ \A m \in StateLists : r.index[m] = IF m = l THEN x ELSE kk.index[m]
  BY <1>7, FieldTypes
<1>9. Goes(kk, r, t, l)
  <2> SUFFICES ASSUME NEW u \in Task, NEW m \in StateLists
               PROVE  IsIn(r, u, m) <=> IF u = t THEN m = l ELSE IsIn(kk, u, m)
    BY DEF Goes
  <2>1. CASE m = l
    BY <1>3, <1>8, <2>1 DEF IsIn
  <2>2. CASE m # l
    BY <1>8, <2>2 DEF IsIn
  <2> QED  BY <2>1, <2>2
<1>10. Linked(r)
  <2>1. \A m \in StateLists : Distinct(r.list[m]) /\ r.index[m] <= Len(r.list[m])
    <3> TAKE m \in StateLists
    <3>1. CASE m = l
      BY <1>3, <1>8, <3>1
    <3>2. CASE m # l
      BY <1>8, <3>2 DEF Linked
    <3> QED  BY <3>1, <3>2
  <2>2. \A u \in Task : \A m, n \in StateLists : IsIn(r, u, m) /\ IsIn(r, u, n) => m = n
    BY <1>9 DEF Linked, Goes
  <2>3. ASSUME NEW m \in {Delayed, OverflowDelayed}
        PROVE  r.index[m] = 0 /\ InOrder(r.list[m], r.wake)
    BY <1>7, <1>8, <2>3, ListNames DEF Linked
  <2>4. /\ \A e \in EventLists : Distinct(r.event[e])
        /\ \A u \in Task : \A e, f \in EventLists :
               Occurs(r.event[e], u) /\ Occurs(r.event[f], u) => e = f
    BY <1>7 DEF Linked
  <2> QED  BY <2>1, <2>2, <2>3, <2>4 DEF Linked
<1> QED  BY <1>6, <1>7, <1>9, <1>10 DEF Appended, r

\* A record that differs from kk in none of the lists.
SameLists(kk, r) ==
    r.list = kk.list /\ r.index = kk.index /\ r.event = kk.event /\ r.wake = kk.wake

SamePlaces(kk, r) ==
    \A u \in Task, m \in StateLists : IsIn(r, u, m) <=> IsIn(kk, u, m)

\* Whatever leaves the lists alone leaves every task where it is.
LEMMA SameListsLinked ==
    ASSUME NEW kk, NEW r, SameLists(kk, r)
    PROVE  (Linked(kk) => Linked(r)) /\ SamePlaces(kk, r)
BY DEF SameLists, Linked, SamePlaces, IsIn

\* AddToReady and MakeReady: the task is in the ready list of its priority,
\* and the search for the next task starts no lower than there.
Readied(kk, r, t) ==
    /\ r \in KernelState /\ Linked(r) /\ Keeps(kk, r)
    /\ Goes(kk, r, t, Ready(kk.prio[t]))
    /\ r.event = kk.event /\ \A u \in Task : u # t => r.wake[u] = kk.wake[u]
    /\ r.next = kk.next /\ r.yield = kk.yield
    /\ r.top >= kk.top /\ r.top >= kk.prio[t]

\* prvAddTaskToReadyList puts a task on no list on the ready list of its
\* priority.
LEMMA AddToReadyReadies ==
    ASSUME NEW kk \in KernelState, Linked(kk), NEW t \in Task,
           \A m \in StateLists : ~IsIn(kk, t, m)
    PROVE  Readied(kk, AddToReady(kk, t), t)
<1> DEFINE l == Ready(kk.prio[t])
           a == AppendState(kk, l, t)
           p == IF kk.prio[t] > a.top THEN kk.prio[t] ELSE a.top
           r == AddToReady(kk, t)
<1>1. kk.prio[t] \in Priority
  BY FieldTypes
<1>2. l \in StateLists /\ l \notin {Delayed, OverflowDelayed}
  BY <1>1, ListNames
<1>3. Appended(kk, a, t, l)
  BY <1>2, AppendStateAppends
<1>4. r = [a EXCEPT !.top = p]
  BY DEF AddToReady
<1> HIDE DEF l, a, r
<1>5. a \in KernelState /\ a.top = kk.top
  BY <1>3 DEF Appended
<1>6. p \in Priority /\ p >= a.top /\ p >= kk.prio[t]
  <2>1. kk.prio[t] \in Nat /\ a.top \in Nat /\ a.top \in Priority
    BY <1>1, <1>5, FieldTypes, TickFacts
  <2> QED  BY <1>1, <2>1
<1> HIDE DEF p
<1>7. r \in KernelState
  BY <1>4, <1>5, <1>6 DEF KernelState
<1>8. /\ SameLists(a, r) /\ Keeps(a, r)
      /\ r.next = a.next /\ r.yield = a.yield /\ r.top = p
  BY <1>4, <1>5 DEF KernelState, SameLists, Keeps, KeepsTasks, KeepsClock, KeepsProcessor
<1>9. Linked(r) /\ SamePlaces(a, r)
  BY <1>3, <1>8, SameListsLinked DEF Appended
<1>10. Keeps(kk, r)
  BY <1>3, <1>8 DEF Appended, Keeps, KeepsTasks, KeepsClock, KeepsProcessor
<1>11. Goes(kk, r, t, l)
  BY <1>3, <1>9 DEF Appended, Goes, SamePlaces
<1>12. /\ r.event = kk.event /\ r.wake = kk.wake /\ r.next = kk.next /\ r.yield = kk.yield
       /\ r.top >= kk.top /\ r.top >= kk.prio[t]
  BY <1>3, <1>5, <1>6, <1>8 DEF Appended, SameLists
<1> QED  BY <1>7, <1>9, <1>10, <1>11, <1>12 DEF Readied, r, l

\* Taken off its list and added to the ready list: a task is then ready, and
\* nothing else has moved.
LEMMA MakeReadyReadies ==
    ASSUME NEW kk \in KernelState, Linked(kk), NEW t \in Task,
           NEW l \in StateLists, IsIn(kk, t, l)
    PROVE  Readied(kk, MakeReady(kk, t), t)
<1> DEFINE a == RemoveState(kk, t)
           r == MakeReady(kk, t)
<1>1. Removed(kk, a, t)
  BY RemoveStateRemoves
<1>2. r = AddToReady(a, t)
  BY DEF MakeReady
<1> HIDE DEF a, r
<1>3. a \in KernelState /\ Linked(a) /\ \A m \in StateLists : ~IsIn(a, t, m)
  BY <1>1 DEF Removed, Leaves
<1>4. Readied(a, r, t)
  BY <1>2, <1>3, AddToReadyReadies
<1>5. a.prio = kk.prio /\ a.top = kk.top /\ a.next = kk.next /\ a.yield = kk.yield
  BY <1>1 DEF Removed, Keeps, KeepsTasks
<1>6. Keeps(kk, r)
  BY <1>1, <1>4 DEF Removed, Readied, Keeps, KeepsTasks, KeepsClock, KeepsProcessor
<1>7. Goes(kk, r, t, Ready(kk.prio[t]))
  BY <1>1, <1>4, <1>5 DEF Removed, Readied, Leaves, Goes
<1>8. \A u \in Task : u # t => r.wake[u] = kk.wake[u]
  BY <1>1, <1>4, FieldTypes DEF Removed, Readied
<1> QED  BY <1>1, <1>4, <1>5, <1>6, <1>7, <1>8 DEF Readied, Removed, r

-----------------------------------------------------------------------------
(* Event lists. *)

SameStates(kk, r) == r.list = kk.list /\ r.index = kk.index /\ r.wake = kk.wake

SameRest(kk, r) ==
    Keeps(kk, r) /\ r.next = kk.next /\ r.top = kk.top /\ r.yield = kk.yield

\* RemoveEvent: the task is in no event list.
Unlinked(kk, r, t) ==
    /\ r \in KernelState /\ Linked(r) /\ SameStates(kk, r) /\ SameRest(kk, r)
    /\ \A e \in EventLists, u \in Task :
           Occurs(r.event[e], u) <=> u # t /\ Occurs(kk.event[e], u)

\* A step on the event lists alone that keeps a task on at most one of them
\* keeps the lists sound.
LEMMA EventStepLinked ==
    ASSUME NEW kk, Linked(kk), NEW r, SameStates(kk, r),
           \A e \in EventLists : Distinct(r.event[e]),
           \A t \in Task : \A e, f \in EventLists :
               Occurs(r.event[e], t) /\ Occurs(r.event[f], t) => e = f
    PROVE  Linked(r) /\ SamePlaces(kk, r)
BY DEF SameStates, Linked, SamePlaces, IsIn

\* An event list loses the item of task t.
LEMMA EventListShrinks ==
    ASSUME NEW kk \in KernelState, Linked(kk), NEW t \in Task,
           NEW e \in EventLists, Occurs(kk.event[e], t),
           NEW s \in Seq(Task), Distinct(s),
           \A u : Occurs(s, u) <=> u # t /\ Occurs(kk.event[e], u)
    PROVE  Unlinked(kk, [kk EXCEPT !.event[e] = s], t)
<1> DEFINE r == [kk EXCEPT !.event[e] = s]
<1>1. r \in KernelState
  BY DEF KernelState
<1>2. SameStates(kk, r) /\ SameRest(kk, r) /\ r.event = [kk.event EXCEPT ![e] = s]
  BY DEF KernelState, SameStates, SameRest, Keeps, KeepsTasks, KeepsClock, KeepsProcessor
<1> HIDE DEF r
<1>3. \A f \in EventLists : r.event[f] = IF f = e THEN s ELSE kk.event[f]
  BY <1>2, FieldTypes
<1>4. \A f \in EventLists, u \in Task : Occurs(r.event[f], u) <=> u # t /\ Occurs(kk.event[f], u)
  <2> TAKE f \in EventLists, u \in Task
  <2>1. CASE f = e
    BY <1>3, <2>1
  <2>2. CASE f # e
    BY <1>3, <2>2 DEF Linked
  <2> QED  BY <2>1, <2>2
<1>5. \A f \in EventLists : Distinct(r.event[f])
  BY <1>3 DEF Linked
<1>6. \A u \in Task : \A f, g \in EventLists :
          Occurs(r.event[f], u) /\ Occurs(r.event[g], u) => f = g
  BY <1>4 DEF Linked
<1>7. Linked(r)
  BY <1>2, <1>5, <1>6, EventStepLinked
<1> QED  BY <1>1, <1>2, <1>4, <1>7 DEF Unlinked, r

\* Removing a task's event list item takes it off the event list it is on, and
\* moves no state list item.
LEMMA RemoveEventUnlinks ==
    ASSUME NEW kk \in KernelState, Linked(kk), NEW t \in Task
    PROVE  Unlinked(kk, RemoveEvent(kk, t), t)
<1>1. CASE Waits(kk, t)
  <2> DEFINE e == EventContainer(kk, t)
             s == uxListRemove(kk.event[e], t)
  <2>1. e \in EventLists /\ Occurs(kk.event[e], t)
    BY <1>1 DEF Waits, EventContainer
  <2>2. RemoveEvent(kk, t) = [kk EXCEPT !.event[e] = s]
    BY <1>1 DEF RemoveEvent
  <2> HIDE DEF e
  <2> DEFINE old == kk.event[e]
  <2>3. old \in Seq(Task) /\ Distinct(old) /\ Occurs(old, t)
    BY <2>1, FieldTypes DEF Linked
  <2> HIDE DEF old
  <2>4. 0 \in Nat /\ 0 <= Len(old)
    BY <2>3, LenProperties
  <2>5. /\ uxListRemove(old, t) \in Seq(Task) /\ Distinct(uxListRemove(old, t))
        /\ \A u : Occurs(uxListRemove(old, t), u) <=> u # t /\ Occurs(old, u)
    BY <2>3, <2>4, RemoveProperties
  <2>6. s \in Seq(Task) /\ Distinct(s) /\ \A u : Occurs(s, u) <=> u # t /\ Occurs(kk.event[e], u)
    BY <2>5 DEF old
  <2> HIDE DEF s
  <2> QED  BY <2>1, <2>2, <2>6, EventListShrinks
<1>2. CASE ~Waits(kk, t)
  <2>1. RemoveEvent(kk, t) = kk
    BY <1>2 DEF RemoveEvent
  <2>2. SameStates(kk, kk) /\ SameRest(kk, kk)
    BY DEF SameStates, SameRest, Keeps, KeepsTasks, KeepsClock, KeepsProcessor
  <2> QED  BY <1>2, <2>1, <2>2 DEF Unlinked, Waits
<1> QED  BY <1>1, <1>2

\* The first task leaves its event list, as xTaskRemoveFromEventList and
\* xTaskResumeAll do.
LEMMA EventHeadUnlinked ==
    ASSUME NEW kk \in KernelState, Linked(kk), NEW e \in EventLists, kk.event[e] # <<>>
    PROVE  /\ Head(kk.event[e]) \in Task /\ Occurs(kk.event[e], Head(kk.event[e]))
           /\ Unlinked(kk, [kk EXCEPT !.event[e] = Tail(kk.event[e])], Head(kk.event[e]))
<1> DEFINE old == kk.event[e]
<1>1. old \in Seq(Task) /\ Distinct(old) /\ old # <<>>
  BY FieldTypes DEF Linked
<1> HIDE DEF old
<1>2. /\ Tail(old) \in Seq(Task) /\ Distinct(Tail(old))
      /\ Head(old) \in Task /\ Occurs(old, Head(old))
      /\ \A u : Occurs(Tail(old), u) <=> u # Head(old) /\ Occurs(old, u)
  BY <1>1, TailOccurs
<1> DEFINE s == Tail(old)
           h == Head(old)
<1>3. s \in Seq(Task) /\ Distinct(s) /\ h \in Task /\ Occurs(kk.event[e], h)
      /\ \A u : Occurs(s, u) <=> u # h /\ Occurs(kk.event[e], u)
  BY <1>2 DEF old
<1> HIDE DEF s, h
<1>4. Unlinked(kk, [kk EXCEPT !.event[e] = s], h)
  BY <1>3, EventListShrinks
<1> QED  BY <1>3, <1>4 DEF s, h, old

\* A task that waits for nothing joins an event list.
LinkedTo(kk, r, t, e) ==
    /\ r \in KernelState /\ Linked(r) /\ SameStates(kk, r) /\ SameRest(kk, r)
    /\ \A f \in EventLists, u \in Task :
           Occurs(r.event[f], u) <=> IF u = t THEN f = e ELSE Occurs(kk.event[f], u)

\* An event list that gains a task on no event list stays sound.
LEMMA EventListGrows ==
    ASSUME NEW kk \in KernelState, Linked(kk), NEW t \in Task, ~Waits(kk, t),
           NEW e \in EventLists, NEW s \in Seq(Task), Distinct(s),
           \A u : Occurs(s, u) <=> u = t \/ Occurs(kk.event[e], u)
    PROVE  LinkedTo(kk, [kk EXCEPT !.event[e] = s], t, e)
<1> DEFINE r == [kk EXCEPT !.event[e] = s]
<1>1. r \in KernelState
  BY DEF KernelState
<1>2. SameStates(kk, r) /\ SameRest(kk, r) /\ r.event = [kk.event EXCEPT ![e] = s]
  BY DEF KernelState, SameStates, SameRest, Keeps, KeepsTasks, KeepsClock, KeepsProcessor
<1> HIDE DEF r
<1>3. \A f \in EventLists : r.event[f] = IF f = e THEN s ELSE kk.event[f]
  BY <1>2, FieldTypes
<1>4. \A f \in EventLists, u \in Task :
          Occurs(r.event[f], u) <=> IF u = t THEN f = e ELSE Occurs(kk.event[f], u)
  <2> TAKE f \in EventLists, u \in Task
  <2>1. CASE f = e
    BY <1>3, <2>1
  <2>2. CASE f # e
    BY <1>3, <2>2 DEF Waits
  <2> QED  BY <2>1, <2>2
<1>5. \A f \in EventLists : Distinct(r.event[f])
  BY <1>3 DEF Linked
<1>6. \A u \in Task : \A f, g \in EventLists :
          Occurs(r.event[f], u) /\ Occurs(r.event[g], u) => f = g
  BY <1>4 DEF Linked
<1>7. Linked(r)
  BY <1>2, <1>5, <1>6, EventStepLinked
<1> QED  BY <1>1, <1>2, <1>4, <1>7 DEF LinkedTo, r

\* xPendingReadyList gains the task at its end.
LEMMA AppendPendingLinks ==
    ASSUME NEW kk \in KernelState, Linked(kk), NEW t \in Task, ~Waits(kk, t)
    PROVE  LinkedTo(kk, AppendPending(kk, t), t, PendingReady)
<1> DEFINE old == kk.event[PendingReady]
<1>1. /\ PendingReady \in EventLists
      /\ old \in Seq(Task) /\ Distinct(old) /\ ~Occurs(old, t)
  BY ListNames, FieldTypes DEF Linked, Waits
<1>2. AppendPending(kk, t) = [kk EXCEPT !.event[PendingReady] = Append(old, t)]
  BY DEF AppendPending
<1>3. /\ Append(old, t) \in Seq(Task) /\ Distinct(Append(old, t))
      /\ \A u : Occurs(Append(old, t), u) <=> u = t \/ Occurs(old, u)
  <2> HIDE DEF old
  <2> QED  BY <1>1, AppendOccurs
<1> DEFINE s == Append(old, t)
<1>4. s \in Seq(Task) /\ Distinct(s)
      /\ \A u : Occurs(s, u) <=> u = t \/ Occurs(kk.event[PendingReady], u)
  BY <1>3
<1> HIDE DEF s
<1>5. LinkedTo(kk, [kk EXCEPT !.event[PendingReady] = s], t, PendingReady)
  BY <1>1, <1>4, EventListGrows
<1> QED  BY <1>2, <1>5 DEF s

-----------------------------------------------------------------------------
(* The delayed lists and the tick count. *)

\* xNextTaskUnblockTime is no later than the first wake time.
UnblockEarly(kk) == \A t \in Task : IsIn(kk, t, Delayed) => kk.next <= kk.wake[t]

\* Between ticks every sleeper is due later; in a tick the sleepers of the
\* delayed list may be due now.  Those of the overflow list are due after the
\* tick count has wrapped.
DueAfterWrap(kk) == \A t \in Task : IsIn(kk, t, OverflowDelayed) => kk.wake[t] < kk.tick

DueLater(kk) ==
    DueAfterWrap(kk) /\ \A t \in Task : IsIn(kk, t, Delayed) => kk.wake[t] > kk.tick

DueNowOrLater(kk) ==
    DueAfterWrap(kk) /\ \A t \in Task : IsIn(kk, t, Delayed) => kk.wake[t] >= kk.tick

\* A state list is empty iff no task is on it.
LEMMA EmptyMeansNone ==
    ASSUME NEW kk \in KernelState, NEW l \in StateLists
    PROVE  Empty(kk, l) <=> \A t \in Task : ~IsIn(kk, t, l)
<1> DEFINE s == kk.list[l]
<1>1. s \in Seq(Task)
  BY FieldTypes
<1> HIDE DEF s
<1>2. (s = <<>> <=> \A t : ~Occurs(s, t)) /\ \A t : Occurs(s, t) => t \in Task
  BY <1>1, EmptyIffNone, OccursByLength
<1> QED  BY <1>2 DEF s, Empty, IsIn

\* The head of the delayed list wakes first.
LEMMA HeadWakesFirst ==
    ASSUME NEW kk \in KernelState, Linked(kk), ~Empty(kk, Delayed)
    PROVE  /\ Head(kk.list[Delayed]) \in Task
           /\ IsIn(kk, Head(kk.list[Delayed]), Delayed)
           /\ HeadWake(kk) = kk.wake[Head(kk.list[Delayed])] /\ HeadWake(kk) \in Tick
           /\ \A t \in Task : IsIn(kk, t, Delayed) => HeadWake(kk) <= kk.wake[t]
<1> DEFINE s == kk.list[Delayed]
<1>1. s \in Seq(Task) /\ s # <<>> /\ InOrder(s, kk.wake)
  BY ListNames, FieldTypes DEF Linked, Empty
<1> HIDE DEF s
<1>2. Head(s) = s[1] /\ s[1] \in Task /\ Occurs(s, s[1]) /\ Len(s) > 0 /\ Len(s) \in Nat
  BY <1>1, EmptyIffNone, LenProperties
<1>3. \A t : Occurs(s, t) <=> \E i \in 1 .. Len(s) : s[i] = t
  BY <1>1, OccursByLength
<1>4. 1 \in 1 .. Len(s) /\ \A i \in 1 .. Len(s) : 1 <= i
  BY <1>2
<1>5. \A t : Occurs(s, t) => kk.wake[s[1]] <= kk.wake[t]
  BY <1>1, <1>3, <1>4 DEF InOrder
<1>6. kk.wake[s[1]] \in Tick
  BY <1>2, FieldTypes
<1> QED  BY <1>2, <1>5, <1>6 DEF HeadWake, IsIn, s

\* prvResetNextTaskUnblockTime.
NextReset(kk, r) ==
    /\ r \in KernelState /\ SameLists(kk, r) /\ Keeps(kk, r)
    /\ r.top = kk.top /\ r.yield = kk.yield /\ UnblockEarly(r)

\* prvResetNextTaskUnblockTime leaves xNextTaskUnblockTime no later than the
\* first wake time of the delayed list.
LEMMA ResetIsEarly ==
    ASSUME NEW kk \in KernelState, Linked(kk)
    PROVE  NextReset(kk, prvResetNextTaskUnblockTime(kk))
<1> DEFINE n == IF Empty(kk, Delayed) THEN MaxDelay ELSE HeadWake(kk)
           r == prvResetNextTaskUnblockTime(kk)
<1>1. n \in Tick
  BY HeadWakesFirst, TickFacts
<1>2. r = [kk EXCEPT !.next = n]
  BY DEF prvResetNextTaskUnblockTime
<1>3. \A t \in Task : IsIn(kk, t, Delayed) => n <= kk.wake[t]
  BY HeadWakesFirst, EmptyMeansNone, ListNames
<1> HIDE DEF n, r
<1>4. r \in KernelState
  BY <1>1, <1>2 DEF KernelState
<1>5. /\ SameLists(kk, r) /\ Keeps(kk, r) /\ r.next = n
      /\ r.top = kk.top /\ r.yield = kk.yield
  BY <1>2 DEF KernelState, SameLists, Keeps, KeepsTasks, KeepsClock, KeepsProcessor
<1>6. UnblockEarly(r)
  BY <1>3, <1>5 DEF UnblockEarly, SameLists, IsIn
<1> QED  BY <1>4, <1>5, <1>6 DEF NextReset, r

\* taskSWITCH_DELAYED_LISTS: the delayed lists are exchanged.
ListsSwitched(kk, r) ==
    /\ r \in KernelState /\ Linked(r) /\ KeepsTasks(kk, r) /\ KeepsProcessor(kk, r)
    /\ r.tick = kk.tick /\ r.pended = kk.pended
    /\ r.event = kk.event /\ r.wake = kk.wake /\ r.top = kk.top /\ r.yield = kk.yield
    /\ UnblockEarly(r)
    /\ \A u \in Task, m \in StateLists :
           IsIn(r, u, m) <=> IF m = Delayed THEN IsIn(kk, u, OverflowDelayed)
                             ELSE IF m = OverflowDelayed THEN IsIn(kk, u, Delayed)
                             ELSE IsIn(kk, u, m)

\* taskSWITCH_DELAYED_LISTS exchanges the two delayed lists and moves no task
\* between lists otherwise.
LEMMA SwitchSwitches ==
    ASSUME NEW kk \in KernelState, Linked(kk)
    PROVE  ListsSwitched(kk, SwitchDelayedLists(kk))
<1> DEFINE d == kk.list[Delayed]
           o == kk.list[OverflowDelayed]
           c == (kk.overflows + 1) % OverflowCount
           a == [kk EXCEPT !.list[Delayed] = o, !.list[OverflowDelayed] = d, !.overflows = c]
           r == SwitchDelayedLists(kk)
<1>1. d \in Seq(Task) /\ o \in Seq(Task) /\ Delayed \in StateLists /\ OverflowDelayed \in StateLists
      /\ Delayed # OverflowDelayed
  BY ListNames, FieldTypes
<1>2. c \in 0 .. OverflowCount - 1
  <2>1. kk.overflows \in 0 .. OverflowCount - 1
    BY FieldTypes
  <2> QED  BY <2>1, TickAssumption
<1>3. r = prvResetNextTaskUnblockTime(a)
  BY DEF SwitchDelayedLists
<1> HIDE DEF d, o, c, r
<1>4. a \in KernelState
  BY <1>1, <1>2 DEF KernelState
<1>5. /\ a.list = [[kk.list EXCEPT ![Delayed] = o] EXCEPT ![OverflowDelayed] = d]
      /\ a.index = kk.index /\ a.event = kk.event /\ a.wake = kk.wake
      /\ KeepsTasks(kk, a) /\ KeepsProcessor(kk, a)
      /\ a.tick = kk.tick /\ a.pended = kk.pended /\ a.top = kk.top /\ a.yield = kk.yield
  BY DEF KernelState, KeepsTasks, KeepsProcessor
<1> HIDE DEF a
<1>6. \A m \in StateLists : a.list[m] = IF m = Delayed THEN o
                                        ELSE IF m = OverflowDelayed THEN d
                                        ELSE kk.list[m]
  BY <1>1, <1>5, FieldTypes
<1>7. \A u \in Task, m \in StateLists :
          IsIn(a, u, m) <=> IF m = Delayed THEN IsIn(kk, u, OverflowDelayed)
                            ELSE IF m = OverflowDelayed THEN IsIn(kk, u, Delayed)
                            ELSE IsIn(kk, u, m)
  BY <1>6 DEF IsIn, d, o
<1>8. Linked(a)
  <2>1. \A m \in StateLists : Distinct(a.list[m]) /\ a.index[m] <= Len(a.list[m])
    <3> TAKE m \in StateLists
    <3>1. Distinct(d) /\ Distinct(o) /\ kk.index[Delayed] = 0 /\ kk.index[OverflowDelayed] = 0
      BY <1>1 DEF Linked, d, o
    <3>2. Len(d) \in Nat /\ Len(o) \in Nat
      BY <1>1, LenProperties
    <3>3. CASE m \in {Delayed, OverflowDelayed}
      BY <1>1, <1>5, <1>6, <3>1, <3>2, <3>3
    <3>4. CASE m \notin {Delayed, OverflowDelayed}
      BY <1>5, <1>6, <3>4 DEF Linked
    <3> QED  BY <3>3, <3>4
  <2>2. \A u \in Task : \A m, n \in StateLists : IsIn(a, u, m) /\ IsIn(a, u, n) => m = n
    BY <1>1, <1>7 DEF Linked
  <2>3. /\ a.index[Delayed] = 0 /\ InOrder(a.list[Delayed], a.wake)
        /\ a.index[OverflowDelayed] = 0 /\ InOrder(a.list[OverflowDelayed], a.wake)
    BY <1>1, <1>5, <1>6 DEF Linked, d, o
  <2>4. /\ \A e \in EventLists : Distinct(a.event[e])
        /\ \A u \in Task : \A e, f \in EventLists :
               Occurs(a.event[e], u) /\ Occurs(a.event[f], u) => e = f
    BY <1>5 DEF Linked
  <2> QED  BY <2>1, <2>2, <2>3, <2>4 DEF Linked
<1>9. NextReset(a, r)
  BY <1>3, <1>4, <1>8, ResetIsEarly
<1>10. Linked(r) /\ SamePlaces(a, r)
  BY <1>8, <1>9, SameListsLinked DEF NextReset
<1>11. /\ r \in KernelState /\ KeepsTasks(kk, r) /\ KeepsProcessor(kk, r)
       /\ r.tick = kk.tick /\ r.pended = kk.pended
       /\ r.event = kk.event /\ r.wake = kk.wake /\ r.top = kk.top /\ r.yield = kk.yield
       /\ UnblockEarly(r)
  BY <1>5, <1>9 DEF NextReset, SameLists, Keeps, KeepsTasks, KeepsClock, KeepsProcessor
<1>12. \A u \in Task, m \in StateLists :
           IsIn(r, u, m) <=> IF m = Delayed THEN IsIn(kk, u, OverflowDelayed)
                             ELSE IF m = OverflowDelayed THEN IsIn(kk, u, Delayed)
                             ELSE IsIn(kk, u, m)
  BY <1>7, <1>10 DEF SamePlaces
<1> QED  BY <1>10, <1>11, <1>12 DEF ListsSwitched, r

\* The head of xTaskIncrementTick: a tick has come, the sleepers of the
\* delayed list are due now or later.
SamePlacesButDelayed(kk, r) ==
    /\ \A u \in Task, m \in StateLists \ {Delayed, OverflowDelayed} :
           IsIn(r, u, m) <=> IsIn(kk, u, m)
    /\ \A u \in Task : IsIn(r, u, Delayed) \/ IsIn(r, u, OverflowDelayed)
                           <=> IsIn(kk, u, Delayed) \/ IsIn(kk, u, OverflowDelayed)

Ticked(kk, r) ==
    /\ r \in KernelState /\ Linked(r) /\ KeepsTasks(kk, r) /\ KeepsProcessor(kk, r)
    /\ r.tick = Later(kk.tick, 1) /\ r.pended = kk.pended
    /\ r.event = kk.event /\ r.wake = kk.wake /\ r.top = kk.top /\ r.yield = kk.yield
    /\ SamePlacesButDelayed(kk, r)
    /\ UnblockEarly(kk) /\ DueLater(kk) => UnblockEarly(r) /\ DueNowOrLater(r)

\* The tick count goes up by one, or wraps.
LEMMA NextTick ==
    ASSUME NEW x \in Tick
    PROVE  /\ Later(x, 1) \in Tick
           /\ \/ Later(x, 1) = 0 /\ x = MaxDelay
              \/ Later(x, 1) # 0 /\ Later(x, 1) = x + 1
BY TickAssumption DEF Later, Tick

\* The count of xTaskIncrementTick: the tick goes on by one, and the delayed
\* lists are exchanged iff it wraps.
LEMMA IncrementTickTicks ==
    ASSUME NEW kk \in KernelState, Linked(kk)
    PROVE  Ticked(kk, IncrementTick(kk))
<1> DEFINE now == Later(kk.tick, 1)
           a == [kk EXCEPT !.tick = now]
           r == IncrementTick(kk)
<1>1. kk.tick \in Tick /\ now \in Tick
      /\ \/ now = 0 /\ kk.tick = MaxDelay
         \/ now # 0 /\ now = kk.tick + 1
  <2>1. kk.tick \in Tick
    BY FieldTypes
  <2> QED  BY <2>1, NextTick
<1>2. r = IF now = 0 THEN SwitchDelayedLists(a) ELSE a
  BY DEF IncrementTick
<1> HIDE DEF now, r
<1>3. a \in KernelState
  BY <1>1 DEF KernelState
<1>4. /\ SameLists(kk, a) /\ KeepsTasks(kk, a) /\ KeepsProcessor(kk, a)
      /\ a.tick = now /\ a.pended = kk.pended /\ a.next = kk.next
      /\ a.top = kk.top /\ a.yield = kk.yield
  BY DEF KernelState, SameLists, KeepsTasks, KeepsProcessor
<1> HIDE DEF a
<1>5. Linked(a) /\ SamePlaces(kk, a)
  BY <1>4, SameListsLinked
<1>6. kk.wake \in [Task -> Tick] /\ \A t \in Task : kk.wake[t] \in Tick
  BY FieldTypes
<1>n. {Delayed, OverflowDelayed} \subseteq StateLists /\ Delayed # OverflowDelayed
  BY ListNames
<1>7. CASE now # 0
  <2>1. r = a
    BY <1>2, <1>7
  <2>2. SamePlacesButDelayed(kk, r)
    BY <1>5, <1>n, <2>1 DEF SamePlacesButDelayed, SamePlaces
  <2>3. ASSUME UnblockEarly(kk), DueLater(kk)
        PROVE  UnblockEarly(r) /\ DueNowOrLater(r)
    <3>1. UnblockEarly(r)
      BY <1>4, <1>5, <1>n, <2>1, <2>3 DEF UnblockEarly, SamePlaces, SameLists
    <3>2. ASSUME NEW t \in Task, IsIn(r, t, Delayed)
          PROVE  r.wake[t] >= r.tick
      <4>1. IsIn(kk, t, Delayed) /\ r.wake[t] = kk.wake[t] /\ r.tick = now
        BY <1>4, <1>5, <1>n, <2>1, <3>2 DEF SamePlaces, SameLists
      <4>2. kk.wake[t] > kk.tick /\ kk.wake[t] \in Nat /\ kk.tick \in Nat
        BY <1>1, <1>6, <2>3, <4>1, TickFacts DEF DueLater
      <4> QED  BY <1>1, <1>7, <4>1, <4>2
    <3>3. ASSUME NEW t \in Task, IsIn(r, t, OverflowDelayed)
          PROVE  r.wake[t] < r.tick
      <4>1. IsIn(kk, t, OverflowDelayed) /\ r.wake[t] = kk.wake[t] /\ r.tick = now
        BY <1>4, <1>5, <1>n, <2>1, <3>3 DEF SamePlaces, SameLists
      <4>2. kk.wake[t] < kk.tick /\ kk.wake[t] \in Nat /\ kk.tick \in Nat
        BY <1>1, <1>6, <2>3, <4>1, TickFacts DEF DueLater, DueAfterWrap
      <4> QED  BY <1>1, <1>7, <4>1, <4>2
    <3> QED  BY <3>1, <3>2, <3>3 DEF DueNowOrLater, DueAfterWrap
  <2> QED  BY <1>3, <1>4, <1>5, <2>1, <2>2, <2>3 DEF Ticked, SameLists, r, now
<1>8. CASE now = 0
  <2>1. ListsSwitched(a, r)
    BY <1>2, <1>3, <1>5, <1>8, SwitchSwitches
  <2>2. SamePlacesButDelayed(kk, r)
    BY <1>5, <1>n, <2>1 DEF SamePlacesButDelayed, SamePlaces, ListsSwitched
  <2>3. ASSUME UnblockEarly(kk), DueLater(kk)
        PROVE  UnblockEarly(r) /\ DueNowOrLater(r)
    <3>1. \A t \in Task : ~IsIn(kk, t, Delayed)
      <4>1. \A t \in Task : kk.wake[t] \in Nat /\ kk.wake[t] <= MaxDelay
        BY <1>6, TickFacts
      <4> QED  BY <1>1, <1>8, <2>3, <4>1, TickFacts DEF DueLater
    <3>2. \A t \in Task : ~IsIn(r, t, OverflowDelayed)
      BY <1>5, <1>n, <2>1, <3>1 DEF SamePlaces, ListsSwitched
    <3>3. \A t \in Task : r.wake[t] >= r.tick
      BY <1>4, <1>6, <1>8, <2>1, TickFacts DEF ListsSwitched, SameLists
    <3> QED  BY <2>1, <3>2, <3>3 DEF ListsSwitched, DueNowOrLater, DueAfterWrap
  <2>4. /\ r \in KernelState /\ Linked(r) /\ KeepsTasks(kk, r) /\ KeepsProcessor(kk, r)
        /\ r.tick = now /\ r.pended = kk.pended
        /\ r.event = kk.event /\ r.wake = kk.wake /\ r.top = kk.top /\ r.yield = kk.yield
    BY <1>4, <2>1 DEF ListsSwitched, SameLists, KeepsTasks, KeepsProcessor
  <2> QED  BY <2>2, <2>3, <2>4 DEF Ticked, r, now
<1> QED  BY <1>7, <1>8

\* The end of the loop of xTaskIncrementTick: whoever sleeps is due later.
LoopEnded(kk, r) ==
    /\ r \in KernelState /\ SameLists(kk, r) /\ Keeps(kk, r)
    /\ r.top = kk.top /\ r.yield = kk.yield
    /\ UnblockEarly(kk) => UnblockEarly(r)
    /\ UnblockEarly(kk) /\ DueAfterWrap(kk) /\ TickIsOver(kk) => DueLater(r)

\* The end of the loop of xTaskIncrementTick sets xNextTaskUnblockTime, and
\* asks for a switch when the running task shares its priority.
LEMMA TickLoopEnds ==
    ASSUME NEW kk \in KernelState, Linked(kk)
    PROVE  LoopEnded(kk, AfterTickLoop(kk))
<1> DEFINE r == AfterTickLoop(kk)
<1>1. NextReset(kk, prvResetNextTaskUnblockTime(kk))
  BY ResetIsEarly
<1>2. /\ r \in KernelState /\ SameLists(kk, r) /\ Keeps(kk, r) /\ r.top = kk.top
      /\ r.yield = kk.yield
      /\ UnblockEarly(kk) => UnblockEarly(r)
  <2>1. CASE kk.tick < kk.next
    <3>1. r = kk
      BY <2>1 DEF AfterTickLoop
    <3> QED  BY <3>1 DEF SameLists, Keeps, KeepsTasks, KeepsClock, KeepsProcessor
  <2>2. CASE ~(kk.tick < kk.next)
    <3>1. r = prvResetNextTaskUnblockTime(kk)
      BY <2>2 DEF AfterTickLoop
    <3> QED  BY <1>1, <3>1 DEF NextReset
  <2> QED  BY <2>1, <2>2
<1> HIDE DEF r
<1>3. ASSUME UnblockEarly(kk), DueAfterWrap(kk), TickIsOver(kk)
      PROVE  DueLater(r)
  <2>1. ASSUME NEW t \in Task, IsIn(kk, t, Delayed)
        PROVE  kk.wake[t] > kk.tick
    <3>1. kk.wake[t] \in Nat /\ kk.tick \in Nat /\ kk.next \in Nat
      BY FieldTypes, TickFacts
    <3>2. ~Empty(kk, Delayed) /\ HeadWake(kk) <= kk.wake[t] /\ HeadWake(kk) \in Nat
      BY <2>1, HeadWakesFirst, EmptyMeansNone, ListNames, TickFacts
    <3>3. kk.next <= kk.wake[t]
      BY <1>3, <2>1 DEF UnblockEarly
    <3>4. kk.tick < kk.next \/ kk.tick < HeadWake(kk)
      BY <1>3, <3>2 DEF TickIsOver
    <3> QED  BY <3>1, <3>2, <3>3, <3>4
  <2>2. SamePlaces(kk, r) /\ r.wake = kk.wake /\ r.tick = kk.tick
    BY <1>2, SameListsLinked DEF SameLists, Keeps, KeepsClock
  <2>3. {Delayed, OverflowDelayed} \subseteq StateLists
    BY ListNames
  <2> QED  BY <1>3, <2>1, <2>2, <2>3 DEF DueLater, DueAfterWrap, SamePlaces
<1> QED  BY <1>2, <1>3 DEF LoopEnded, r

\* One turn of the loop: the first sleeper is ready, and waits for nothing.
Unblocked(kk, r, t) ==
    /\ r \in KernelState /\ Linked(r) /\ Keeps(kk, r)
    /\ Goes(kk, r, t, Ready(kk.prio[t]))
    /\ \A e \in EventLists, u \in Task :
           Occurs(r.event[e], u) <=> u # t /\ Occurs(kk.event[e], u)
    /\ \A u \in Task : u # t => r.wake[u] = kk.wake[u]
    /\ r.next = kk.next /\ r.yield = kk.yield
    /\ r.top >= kk.top /\ r.top >= kk.prio[t]

\* The body of the loop of xTaskIncrementTick makes the first delayed task
\* ready and moves no other.
LEMMA UnblockHeadUnblocks ==
    ASSUME NEW kk \in KernelState, Linked(kk), ~Empty(kk, Delayed)
    PROVE  /\ Head(kk.list[Delayed]) \in Task
           /\ IsIn(kk, Head(kk.list[Delayed]), Delayed)
           /\ Unblocked(kk, UnblockHead(kk), Head(kk.list[Delayed]))
<1> DEFINE t == Head(kk.list[Delayed])
           a == RemoveState(kk, t)
           b == RemoveEvent(a, t)
           r == UnblockHead(kk)
<1>1. t \in Task /\ IsIn(kk, t, Delayed) /\ Delayed \in StateLists
  BY HeadWakesFirst, ListNames
<1>2. r = AddToReady(b, t)
  BY DEF UnblockHead
<1> HIDE DEF t, r
<1>3. Removed(kk, a, t)
  BY <1>1, RemoveStateRemoves
<1> HIDE DEF a
<1>4. Unlinked(a, b, t)
  BY <1>1, <1>3, RemoveEventUnlinks DEF Removed
<1> HIDE DEF b
<1>5. b \in KernelState /\ Linked(b) /\ \A m \in StateLists : ~IsIn(b, t, m)
  <2>1. b.list = a.list /\ b \in KernelState /\ Linked(b)
    BY <1>4 DEF Unlinked, SameStates
  <2>2. \A m \in StateLists : ~IsIn(a, t, m)
    BY <1>1, <1>3 DEF Removed, Leaves
  <2> QED  BY <2>1, <2>2 DEF IsIn
<1>6. Readied(b, r, t)
  BY <1>1, <1>2, <1>5, AddToReadyReadies
<1>7. Keeps(kk, b) /\ b.next = kk.next /\ b.top = kk.top /\ b.yield = kk.yield
  BY <1>3, <1>4 DEF Removed, Unlinked, SameRest, Keeps, KeepsTasks, KeepsClock, KeepsProcessor
<1>8. /\ Keeps(kk, r) /\ r.next = kk.next /\ r.yield = kk.yield
      /\ r.top >= kk.top /\ r.top >= kk.prio[t]
  BY <1>6, <1>7 DEF Readied, Keeps, KeepsTasks, KeepsClock, KeepsProcessor
<1>9. Goes(kk, r, t, Ready(kk.prio[t]))
  <2>1. \A u \in Task, m \in StateLists : IsIn(b, u, m) <=> IsIn(a, u, m)
    BY <1>4 DEF Unlinked, SameStates, IsIn
  <2>2. b.prio = kk.prio
    BY <1>7 DEF Keeps, KeepsTasks
  <2> QED  BY <1>3, <1>6, <2>1, <2>2 DEF Removed, Leaves, Readied, Goes
<1>10. \A e \in EventLists, u \in Task :
           Occurs(r.event[e], u) <=> u # t /\ Occurs(kk.event[e], u)
  BY <1>3, <1>4, <1>6 DEF Removed, Unlinked, Readied
<1>11. \A u \in Task : u # t => r.wake[u] = kk.wake[u]
  BY <1>3, <1>4, <1>6, FieldTypes DEF Removed, Unlinked, SameStates, Readied
<1> QED  BY <1>1, <1>6, <1>8, <1>9, <1>10, <1>11 DEF Unblocked, Readied, t, r

-----------------------------------------------------------------------------
(* The running task goes to sleep. *)

\* The wake time of a task in no state list is set.
LEMMA WakeSet ==
    ASSUME NEW kk \in KernelState, Linked(kk), NEW t \in Task,
           \A m \in StateLists : ~IsIn(kk, t, m), NEW w \in Tick,
           NEW r \in KernelState, r.wake = [kk.wake EXCEPT ![t] = w],
           r.list = kk.list, r.index = kk.index, r.event = kk.event
    PROVE  Linked(r) /\ SamePlaces(kk, r)
<1>1. ASSUME NEW l \in {Delayed, OverflowDelayed}
      PROVE  InOrder(r.list[l], r.wake)
  <2>1. l \in StateLists /\ kk.list[l] \in Seq(Task)
    BY ListNames, FieldTypes
  <2>2. kk.wake \in [Task -> Nat] /\ r.wake \in [Task -> Nat]
    BY FieldTypes, TickFacts
  <2>3. \A u \in Task : Occurs(kk.list[l], u) => r.wake[u] = kk.wake[u]
    BY <2>1, <2>2 DEF IsIn
  <2>4. InOrder(kk.list[l], kk.wake)
    BY <1>1 DEF Linked
  <2>5. InOrder(kk.list[l], r.wake)
    BY <2>1, <2>2, <2>3, <2>4, OrderOfSome
  <2> QED  BY <2>5
<1>2. /\ \A l \in StateLists : Distinct(r.list[l]) /\ r.index[l] <= Len(r.list[l])
      /\ \A u \in Task : \A l, m \in StateLists : IsIn(r, u, l) /\ IsIn(r, u, m) => l = m
      /\ r.index[Delayed] = 0 /\ r.index[OverflowDelayed] = 0
      /\ \A e \in EventLists : Distinct(r.event[e])
      /\ \A u \in Task : \A e, f \in EventLists :
             Occurs(r.event[e], u) /\ Occurs(r.event[f], u) => e = f
  BY DEF Linked, IsIn
<1>3. SamePlaces(kk, r)
  BY DEF SamePlaces, IsIn
<1> QED  BY <1>1, <1>2, <1>3 DEF Linked

\* A task in no state list is inserted into a delayed list by its wake time.
LEMMA DelayedInsert ==
    ASSUME NEW kk \in KernelState, Linked(kk), NEW t \in Task,
           \A m \in StateLists : ~IsIn(kk, t, m), NEW l \in {Delayed, OverflowDelayed}
    PROVE  /\ vListInsert(kk.list[l], kk.wake, t) \in Seq(Task)
           /\ \A r \in KernelState :
                  /\ r.list = [kk.list EXCEPT ![l] = vListInsert(kk.list[l], kk.wake, t)]
                  /\ r.index = kk.index /\ r.wake = kk.wake /\ r.event = kk.event
                  => Linked(r) /\ Goes(kk, r, t, l)
<1> DEFINE old == kk.list[l]
           s == vListInsert(old, kk.wake, t)
<1>1. /\ l \in StateLists /\ old \in Seq(Task) /\ kk.wake \in [Task -> Nat]
      /\ Distinct(old) /\ InOrder(old, kk.wake) /\ ~Occurs(old, t)
      /\ kk.index[l] = 0
  BY ListNames, FieldTypes, TickFacts DEF Linked, IsIn
<1>2. /\ s \in Seq(Task) /\ Len(s) = Len(old) + 1
      /\ \A u : Occurs(s, u) <=> u = t \/ Occurs(old, u)
      /\ Distinct(s)
  <2> HIDE DEF old
  <2> QED  BY <1>1, InsertOccurs
<1>3. InOrder(s, kk.wake)
  <2> HIDE DEF old
  <2> QED  BY <1>1, InsertKeepsOrder
<1>4. Len(s) \in Nat
  <2> HIDE DEF s
  <2> QED  BY <1>2, LenProperties
<1> HIDE DEF s
<1>5. ASSUME NEW r \in KernelState, r.list = [kk.list EXCEPT ![l] = s],
             r.index = kk.index, r.wake = kk.wake, r.event = kk.event
      PROVE  Linked(r) /\ Goes(kk, r, t, l)
  <2>1. \A m \in StateLists : r.list[m] = IF m = l THEN s ELSE kk.list[m]
    BY <1>5, FieldTypes
  <2>2. Goes(kk, r, t, l)
    <3> SUFFICES ASSUME NEW u \in Task, NEW m \in StateLists
                 PROVE  IsIn(r, u, m) <=> IF u = t THEN m = l ELSE IsIn(kk, u, m)
      BY DEF Goes
    <3>1. CASE m = l
      BY <1>2, <2>1, <3>1 DEF IsIn
    <3>2. CASE m # l
      BY <2>1, <3>2 DEF IsIn
    <3> QED  BY <3>1, <3>2
  <2>3. \A m \in StateLists : Distinct(r.list[m]) /\ r.index[m] <= Len(r.list[m])
    <3> TAKE m \in StateLists
    <3>1. CASE m = l
      BY <1>1, <1>2, <1>4, <1>5, <2>1, <3>1
    <3>2. CASE m # l
      BY <1>5, <2>1, <3>2 DEF Linked
    <3> QED  BY <3>1, <3>2
  <2>4. \A u \in Task : \A m, n \in StateLists : IsIn(r, u, m) /\ IsIn(r, u, n) => m = n
    BY <2>2 DEF Linked, Goes
  <2>5. ASSUME NEW m \in {Delayed, OverflowDelayed}
        PROVE  r.index[m] = 0 /\ InOrder(r.list[m], r.wake)
    <3>1. m \in StateLists /\ kk.index[m] = 0 /\ InOrder(kk.list[m], kk.wake)
      BY ListNames DEF Linked
    <3>2. CASE m = l
      BY <1>3, <1>5, <2>1, <3>1, <3>2
    <3>3. CASE m # l
      BY <1>5, <2>1, <3>1, <3>3
    <3> QED  BY <3>2, <3>3
  <2>6. /\ \A e \in EventLists : Distinct(r.event[e])
        /\ \A u \in Task : \A e, f \in EventLists :
               Occurs(r.event[e], u) /\ Occurs(r.event[f], u) => e = f
    BY <1>5 DEF Linked
  <2> QED  BY <2>2, <2>3, <2>4, <2>5, <2>6 DEF Linked
<1> QED  BY <1>2, <1>5 DEF s

\* Where prvAddCurrentTaskToDelayedList puts a task that asks for n ticks.
SleepList(kk, n, indefinitely) ==
    IF n = MaxDelay /\ indefinitely THEN Suspended
    ELSE IF Later(kk.tick, n) < kk.tick THEN OverflowDelayed ELSE Delayed

PutToSleep(kk, r, t, n, indefinitely) ==
    /\ r \in KernelState /\ Linked(r) /\ Keeps(kk, r)
    /\ Goes(kk, r, t, SleepList(kk, n, indefinitely))
    /\ r.event = kk.event /\ r.top = kk.top /\ r.yield = kk.yield
    /\ \A u \in Task : u # t => r.wake[u] = kk.wake[u]
    /\ SleepList(kk, n, indefinitely) # Suspended => r.wake[t] = Later(kk.tick, n)
    /\ UnblockEarly(kk) => UnblockEarly(r)
    /\ DueLater(kk) /\ n > 0 => DueLater(r)

\* Unsigned addition: the sum is later, or has wrapped.
LEMMA LaterFacts ==
    ASSUME NEW x \in Tick, NEW n \in Tick
    PROVE  /\ Later(x, n) \in Tick
           /\ n > 0 /\ ~(Later(x, n) < x) => Later(x, n) > x
BY TickAssumption DEF Later, Tick

\* prvAddCurrentTaskToDelayedList puts the running task on the list its wake
\* time calls for, and never leaves xNextTaskUnblockTime late.
LEMMA CurrentPutToSleep ==
    ASSUME NEW kk \in KernelState, Linked(kk), NEW n \in Tick, NEW b \in BOOLEAN,
           NEW m \in StateLists, IsIn(kk, kk.current, m)
    PROVE  PutToSleep(kk, prvAddCurrentTaskToDelayedList(kk, n, b), kk.current, n, b)
<1> DEFINE t == kk.current
           a == RemoveState(kk, t)
           w == Later(kk.tick, n)
           c == [a EXCEPT !.wake[t] = w]
           r == prvAddCurrentTaskToDelayedList(kk, n, b)
           dest == SleepList(kk, n, b)
<1>1. t \in Task /\ kk.tick \in Tick
  BY FieldTypes
<1>2. w \in Tick /\ (n > 0 /\ ~(w < kk.tick) => w > kk.tick)
  BY <1>1, LaterFacts
<1>3. r = IF n = MaxDelay /\ b
          THEN AppendState(a, Suspended, t)
          ELSE IF w < kk.tick
          THEN [c EXCEPT !.list[OverflowDelayed] = vListInsert(@, c.wake, t)]
          ELSE [c EXCEPT !.list[Delayed] = vListInsert(@, c.wake, t),
                         !.next = IF w < @ THEN w ELSE @]
  BY DEF prvAddCurrentTaskToDelayedList
<1>4. dest = IF n = MaxDelay /\ b THEN Suspended
             ELSE IF w < kk.tick THEN OverflowDelayed ELSE Delayed
  BY DEF SleepList
<1> HIDE DEF t, w, r, dest
<1>5. Removed(kk, a, t)
  BY <1>1, RemoveStateRemoves DEF t
<1> HIDE DEF a
<1>6. a \in KernelState /\ Linked(a) /\ \A l \in StateLists : ~IsIn(a, t, l)
  BY <1>1, <1>5 DEF Removed, Leaves
<1>7. UnblockEarly(kk) => UnblockEarly(a)
  BY <1>5, ListNames, FieldTypes DEF UnblockEarly, Removed, Leaves
<1>8. DueLater(kk) => DueLater(a)
  BY <1>5, ListNames, FieldTypes
     DEF DueLater, DueAfterWrap, Removed, Leaves, Keeps, KeepsClock
<1>n. {Delayed, OverflowDelayed, Suspended} \subseteq StateLists /\ Delayed # OverflowDelayed
      /\ Suspended # Delayed /\ Suspended # OverflowDelayed
  BY ListNames
<1>9. CASE n = MaxDelay /\ b
  <2>1. r = AppendState(a, Suspended, t) /\ dest = Suspended
    BY <1>3, <1>4, <1>9
  <2>2. Appended(a, r, t, Suspended)
    BY <1>1, <1>6, <1>n, <2>1, AppendStateAppends
  <2>3. Goes(kk, r, t, dest)
    BY <1>5, <2>1, <2>2 DEF Appended, Removed, Goes, Leaves
  <2>4. UnblockEarly(kk) => UnblockEarly(r)
    BY <1>7, <1>n, <2>2 DEF Appended, UnblockEarly, Goes
  <2>5. DueLater(kk) => DueLater(r)
    BY <1>8, <1>n, <2>2 DEF Appended, DueLater, DueAfterWrap, Goes, Keeps, KeepsClock
  <2>6. /\ r \in KernelState /\ Linked(r) /\ Keeps(kk, r)
        /\ r.event = kk.event /\ r.top = kk.top /\ r.yield = kk.yield
        /\ \A u \in Task : u # t => r.wake[u] = kk.wake[u]
    BY <1>5, <2>2, FieldTypes DEF Appended, Removed, Keeps, KeepsTasks, KeepsClock, KeepsProcessor
  <2> QED  BY <2>1, <2>3, <2>4, <2>5, <2>6 DEF PutToSleep, t, r, dest
<1>10. CASE ~(n = MaxDelay /\ b)
  <2>1. c \in KernelState
    BY <1>2, <1>6 DEF KernelState
  <2>2. /\ c.wake = [a.wake EXCEPT ![t] = w] /\ c.list = a.list /\ c.index = a.index
        /\ c.event = a.event /\ Keeps(a, c)
        /\ c.next = a.next /\ c.top = a.top /\ c.yield = a.yield
    BY <1>6 DEF KernelState, Keeps, KeepsTasks, KeepsClock, KeepsProcessor
  <2> HIDE DEF c
  <2>3. Linked(c) /\ SamePlaces(a, c)
    BY <1>1, <1>2, <1>6, <2>1, <2>2, WakeSet
  <2>4. \A l \in StateLists : ~IsIn(c, t, l)
    BY <1>1, <1>6, <2>3 DEF SamePlaces
  <2>5. /\ Keeps(kk, c) /\ c.event = kk.event /\ c.next = kk.next /\ c.top = kk.top
        /\ c.yield = kk.yield /\ c.wake[t] = w
        /\ \A u \in Task : u # t => c.wake[u] = kk.wake[u]
    <3>1. a.wake \in [Task -> Tick] /\ kk.wake \in [Task -> Tick]
      BY <1>6, FieldTypes
    <3> QED  BY <1>1, <1>5, <2>2, <3>1
             DEF Removed, Keeps, KeepsTasks, KeepsClock, KeepsProcessor
  <2>6. Leaves(kk, c, t)
    BY <1>5, <2>3 DEF Removed, Leaves, SamePlaces
  <2>7. dest \in {Delayed, OverflowDelayed}
        /\ (w < kk.tick <=> dest = OverflowDelayed)
    BY <1>4, <1>10, <1>n
  <2> DEFINE s == vListInsert(c.list[dest], c.wake, t)
             x == IF w < kk.tick THEN c.next ELSE IF w < c.next THEN w ELSE c.next
  <2>8. r = [c EXCEPT !.list[dest] = s, !.next = x]
    <3>1. CASE w < kk.tick
      <4>1. dest = OverflowDelayed /\ x = c.next
        BY <2>7, <3>1
      <4>2. r = [c EXCEPT !.list[OverflowDelayed] = vListInsert(c.list[OverflowDelayed], c.wake, t)]
        BY <1>3, <1>10, <3>1
      <4>3. [c EXCEPT !.list[dest] = s] = [c EXCEPT !.list[dest] = s, !.next = c.next]
        BY <2>1 DEF KernelState
      <4> QED  BY <4>1, <4>2, <4>3
    <3>2. CASE ~(w < kk.tick)
      <4>1. dest = Delayed
        BY <2>7, <3>2
      <4>2. x = IF w < c.next THEN w ELSE c.next
        BY <3>2
      <4> QED  BY <1>3, <1>10, <3>2, <4>1, <4>2
    <3> QED  BY <3>1, <3>2
  <2>9. s \in Seq(Task) /\ x \in Tick
    <3>1. c.next \in Tick
      BY <2>1, FieldTypes
    <3> QED  BY <1>1, <1>2, <2>1, <2>3, <2>4, <2>7, <3>1, DelayedInsert
  <2> HIDE DEF s, x
  <2>10. r \in KernelState
    BY <1>n, <2>1, <2>7, <2>8, <2>9 DEF KernelState
  <2>11. /\ r.list = [c.list EXCEPT ![dest] = s] /\ r.index = c.index /\ r.wake = c.wake
         /\ r.event = c.event /\ Keeps(c, r) /\ r.next = x /\ r.top = c.top
         /\ r.yield = c.yield
    BY <2>1, <2>8 DEF KernelState, Keeps, KeepsTasks, KeepsClock, KeepsProcessor
  <2>12. Linked(r) /\ Goes(c, r, t, dest)
    BY <1>1, <2>1, <2>3, <2>4, <2>7, <2>10, <2>11, DelayedInsert DEF s
  <2>13. Goes(kk, r, t, dest)
    BY <2>6, <2>12 DEF Goes, Leaves
  <2>14. /\ Keeps(kk, r) /\ r.event = kk.event /\ r.top = kk.top /\ r.yield = kk.yield
         /\ r.wake[t] = w
         /\ \A u \in Task : u # t => r.wake[u] = kk.wake[u]
    BY <2>5, <2>11 DEF Keeps, KeepsTasks, KeepsClock, KeepsProcessor
  <2>15. ASSUME UnblockEarly(kk)
         PROVE  UnblockEarly(r)
    <3> SUFFICES ASSUME NEW u \in Task, IsIn(r, u, Delayed)
                 PROVE  r.next <= r.wake[u]
      BY DEF UnblockEarly
    <3>1. c.next \in Nat /\ w \in Nat /\ kk.wake[u] \in Nat
      BY <1>2, <2>1, FieldTypes, TickFacts
    <3>2. r.next = x /\ x <= c.next /\ c.next = kk.next
      BY <2>5, <2>11, <3>1 DEF x
    <3>3. CASE u = t
      <4>1. dest = Delayed
        BY <1>n, <2>13, <3>3 DEF Goes
      <4>2. x <= w
        BY <1>n, <2>7, <3>1, <4>1 DEF x
      <4> QED  BY <2>14, <3>2, <3>3, <4>2
    <3>4. CASE u # t
      <4>1. IsIn(kk, u, Delayed) /\ r.wake[u] = kk.wake[u]
        BY <1>n, <2>13, <2>14, <3>4 DEF Goes
      <4>2. kk.next <= kk.wake[u]
        BY <2>15, <4>1 DEF UnblockEarly
      <4> QED  BY <3>1, <3>2, <4>1, <4>2, <2>9, TickFacts
    <3> QED  BY <3>3, <3>4
  <2>16. ASSUME DueLater(kk), n > 0
         PROVE  DueLater(r)
    <3>1. r.tick = kk.tick
      BY <2>14 DEF Keeps, KeepsClock
    <3>2. ASSUME NEW u \in Task, IsIn(r, u, OverflowDelayed)
          PROVE  r.wake[u] < r.tick
      <4>1. CASE u = t
        BY <1>n, <2>7, <2>13, <2>14, <3>1, <3>2, <4>1 DEF Goes
      <4>2. CASE u # t
        BY <1>n, <2>13, <2>14, <2>16, <3>1, <3>2, <4>2 DEF Goes, DueLater, DueAfterWrap
      <4> QED  BY <4>1, <4>2
    <3>3. ASSUME NEW u \in Task, IsIn(r, u, Delayed)
          PROVE  r.wake[u] > r.tick
      <4>1. CASE u = t
        BY <1>2, <1>n, <2>7, <2>13, <2>14, <2>16, <3>1, <3>3, <4>1 DEF Goes
      <4>2. CASE u # t
        BY <1>n, <2>13, <2>14, <2>16, <3>1, <3>3, <4>2 DEF Goes, DueLater
      <4> QED  BY <4>1, <4>2
    <3> QED  BY <3>2, <3>3 DEF DueLater, DueAfterWrap
  <2> QED  BY <2>10, <2>12, <2>13, <2>14, <2>15, <2>16 DEF PutToSleep, t, w, r, dest
<1> QED  BY <1>9, <1>10

-----------------------------------------------------------------------------
(* The choice of the next task. *)

\* A live task is in a state list, no other task is in any; a ready task is in
\* the list of its priority, and uxTopReadyPriority is no lower.
Listed(kk) == \A t \in Task : t \in kk.live <=> \E l \in StateLists : IsIn(kk, t, l)

ByPriority(kk) ==
    \A t \in Task, p \in Priority : IsIn(kk, t, Ready(p)) => kk.prio[t] = p

Covered(kk) ==
    \A t \in Task, p \in Priority : IsIn(kk, t, Ready(p)) => p <= kk.top

Sound(kk) ==
    kk \in KernelState /\ Linked(kk) /\ Listed(kk) /\ ByPriority(kk) /\ Covered(kk)

IsReady(kk, t) == IsIn(kk, t, Ready(kk.prio[t]))

\* A task on a ready list is on the one of its priority.
LEMMA ReadyMeansReady ==
    ASSUME NEW kk, Sound(kk), NEW t \in Task, NEW p \in Priority, IsIn(kk, t, Ready(p))
    PROVE  kk.prio[t] = p /\ IsReady(kk, t) /\ t \in kk.live
BY ListNames DEF Sound, ByPriority, Listed, IsReady

\* The search ends, at the highest priority of a ready task.
LEMMA HighestReadyFound ==
    ASSUME NEW kk, Sound(kk), NEW t \in Task, IsReady(kk, t)
    PROVE  /\ HighestReady(kk) \in Priority
           /\ ~Empty(kk, Ready(HighestReady(kk)))
           /\ \A u \in Task, p \in Priority :
                  IsIn(kk, u, Ready(p)) => p <= HighestReady(kk)
<1> DEFINE T == {p \in 0 .. kk.top : ~Empty(kk, Ready(p))}
           High(p) == /\ ~Empty(kk, Ready(p))
                      /\ \A q \in p + 1 .. kk.top : Empty(kk, Ready(q))
<1>1. kk \in KernelState /\ Covered(kk)
  BY DEF Sound
<1>2. kk.top \in Priority /\ kk.top \in Nat /\ kk.prio[t] \in Priority
  BY <1>1, FieldTypes, TickFacts
<1>3. \A q \in 0 .. kk.top : q \in Priority
  BY <1>2, KernelAssumption DEF Priority
<1>4. \A u \in Task, p \in Priority : IsIn(kk, u, Ready(p)) => p \in T
  <2> SUFFICES ASSUME NEW u \in Task, NEW p \in Priority, IsIn(kk, u, Ready(p))
               PROVE  p \in T
    OBVIOUS
  <2>1. ~Empty(kk, Ready(p))
    BY <1>1, EmptyMeansNone, ListNames
  <2>2. p \in Nat /\ p <= kk.top
    BY <1>1, TickFacts DEF Covered
  <2> QED  BY <1>2, <2>1, <2>2
<1>5. \E p \in T : \A q \in T : q <= p
  <2>1. T \in SUBSET (0 .. kk.top) /\ T # {}
    BY <1>2, <1>4 DEF IsReady
  <2> HIDE DEF T
  <2> QED  BY <1>2, <2>1, LastPosition
<1>6. PICK p \in T : \A q \in T : q <= p
  BY <1>5
<1>7. p \in 0 .. kk.top /\ High(p)
  <2>1. p \in 0 .. kk.top /\ ~Empty(kk, Ready(p))
    OBVIOUS
  <2>2. ASSUME NEW q \in p + 1 .. kk.top, ~Empty(kk, Ready(q))
        PROVE  FALSE
    <3>1. q \in 0 .. kk.top /\ ~(q <= p)
      BY <1>2, <2>1
    <3> QED  BY <1>6, <2>2, <3>1
  <2> QED  BY <2>1, <2>2
<1>8. HighestReady(kk) = CHOOSE q \in 0 .. kk.top : High(q)
  BY DEF HighestReady
<1>9. HighestReady(kk) \in 0 .. kk.top /\ High(HighestReady(kk))
  <2> HIDE DEF High
  <2> QED  BY <1>7, <1>8
<1>10. ASSUME NEW u \in Task, NEW q \in Priority, IsIn(kk, u, Ready(q))
       PROVE  q <= HighestReady(kk)
  <2>1. q \in 0 .. kk.top /\ ~Empty(kk, Ready(q))
    BY <1>4, <1>10
  <2>2. q \notin HighestReady(kk) + 1 .. kk.top
    BY <1>9, <2>1
  <2> QED  BY <1>2, <1>9, <2>1, <2>2
<1> QED  BY <1>3, <1>9, <1>10

\* vTaskSwitchContext: with the scheduler suspended a yield is left pending;
\* else the next task of the highest priority of a ready task runs.
Switched(kk, r) ==
    /\ Sound(r) /\ KeepsTasks(kk, r) /\ KeepsClock(kk, r)
    /\ SamePlaces(kk, r) /\ r.event = kk.event /\ r.wake = kk.wake
    /\ r.next = kk.next /\ r.susp = kk.susp /\ r.cpu = kk.cpu
    /\ kk.susp # 0 => r.current = kk.current /\ r.yield = TRUE
    /\ kk.susp = 0 =>
           /\ r.yield = FALSE /\ IsReady(r, r.current)
           /\ \A u \in Task, p \in Priority :
                  IsIn(r, u, Ready(p)) => p <= r.prio[r.current]

\* vTaskSwitchContext, when some task is ready, selects a ready task of the
\* highest ready priority.
LEMMA ContextSwitches ==
    ASSUME NEW kk, Sound(kk), NEW t \in Task, IsReady(kk, t)
    PROVE  Switched(kk, vTaskSwitchContext(kk))
<1> DEFINE r == vTaskSwitchContext(kk)
<1>1. kk \in KernelState /\ Linked(kk)
  BY DEF Sound
<1>2. CASE kk.susp # 0
  <2>1. r = [kk EXCEPT !.yield = TRUE]
    BY <1>2 DEF vTaskSwitchContext
  <2> HIDE DEF r
  <2>2. r \in KernelState
    BY <1>1, <2>1 DEF KernelState
  <2>3. /\ SameLists(kk, r) /\ Keeps(kk, r) /\ r.next = kk.next /\ r.top = kk.top
        /\ r.yield = TRUE
    BY <1>1, <2>1
       DEF KernelState, SameLists, Keeps, KeepsTasks, KeepsClock, KeepsProcessor
  <2>4. Linked(r) /\ SamePlaces(kk, r)
    BY <1>1, <2>3, SameListsLinked
  <2>5. Listed(r) /\ ByPriority(r) /\ Covered(r)
    BY <2>3, <2>4, ListNames
       DEF Sound, Listed, ByPriority, Covered, SamePlaces, Keeps, KeepsTasks
  <2> QED  BY <1>2, <2>2, <2>3, <2>4, <2>5
           DEF Switched, Sound, SameLists, Keeps, KeepsProcessor, r
<1>3. CASE kk.susp = 0
  <2> DEFINE h == HighestReady(kk)
             l == Ready(h)
             s == kk.list[l]
             i == NextIndex(s, kk.index[l])
             c == s[i]
  <2>1. /\ h \in Priority /\ ~Empty(kk, l)
        /\ \A u \in Task, p \in Priority : IsIn(kk, u, Ready(p)) => p <= h
    BY HighestReadyFound
  <2>2. r = [kk EXCEPT !.yield = FALSE, !.top = h, !.index[l] = i, !.current = c]
    BY <1>3 DEF vTaskSwitchContext
  <2> HIDE DEF h, r
  <2>3. l \in StateLists /\ l \notin {Delayed, OverflowDelayed}
    BY <2>1, ListNames
  <2> HIDE DEF l
  <2>4. s \in Seq(Task) /\ s # <<>> /\ kk.index[l] \in Nat /\ kk.index[l] <= Len(s)
    BY <1>1, <2>1, <2>3, FieldTypes DEF Linked, Empty
  <2>5. i \in 1 .. Len(s)
    <3>1. Len(s) \in Nat /\ Len(s) > 0
      <4> HIDE DEF s
      <4> QED  BY <2>4, EmptyIffNone, LenProperties
    <3> HIDE DEF s
    <3> QED  BY <2>4, <3>1 DEF NextIndex
  <2>6. c \in Task /\ IsIn(kk, c, l)
    <3>1. Occurs(s, s[i]) /\ s[i] \in Task
      <4> HIDE DEF s, i
      <4> QED  BY <2>4, <2>5, OccursByLength
    <3> QED  BY <3>1 DEF IsIn
  <2>7. i \in Nat /\ i <= Len(s)
    <3>1. Len(s) \in Nat
      <4> HIDE DEF s
      <4> QED  BY <2>4, LenProperties
    <3> HIDE DEF i
    <3> QED  BY <2>5, <3>1
  <2> HIDE DEF c, i
  <2>8. r \in KernelState
    BY <1>1, <2>1, <2>2, <2>3, <2>6, <2>7 DEF KernelState
  <2>9. /\ r.list = kk.list /\ r.index = [kk.index EXCEPT ![l] = i]
        /\ r.wake = kk.wake /\ r.event = kk.event
        /\ KeepsTasks(kk, r) /\ KeepsClock(kk, r) /\ r.next = kk.next
        /\ r.susp = kk.susp /\ r.cpu = kk.cpu
        /\ r.current = c /\ r.yield = FALSE /\ r.top = h
    BY <1>1, <2>2 DEF KernelState, KeepsTasks, KeepsClock
  <2>10. SamePlaces(kk, r)
    BY <2>9 DEF SamePlaces, IsIn
  <2>11. Linked(r)
    <3>1. \A m \in StateLists : r.index[m] = IF m = l THEN i ELSE kk.index[m]
      BY <1>1, <2>9, FieldTypes
    <3>2. \A m \in StateLists : Distinct(r.list[m]) /\ r.index[m] <= Len(r.list[m])
      BY <1>1, <2>7, <2>9, <3>1 DEF Linked
    <3>3. \A u \in Task : \A m, n \in StateLists : IsIn(r, u, m) /\ IsIn(r, u, n) => m = n
      BY <1>1, <2>10 DEF Linked, SamePlaces
    <3>4. /\ r.index[Delayed] = 0 /\ InOrder(r.list[Delayed], r.wake)
          /\ r.index[OverflowDelayed] = 0 /\ InOrder(r.list[OverflowDelayed], r.wake)
      BY <1>1, <2>3, <2>9, <3>1, ListNames DEF Linked
    <3>5. /\ \A e \in EventLists : Distinct(r.event[e])
          /\ \A u \in Task : \A e, f \in EventLists :
                 Occurs(r.event[e], u) /\ Occurs(r.event[f], u) => e = f
      BY <1>1, <2>9 DEF Linked
    <3> QED  BY <3>2, <3>3, <3>4, <3>5 DEF Linked
  <2>12. Listed(r) /\ ByPriority(r) /\ Covered(r)
    <3>1. Listed(r) /\ ByPriority(r)
      BY <2>9, <2>10, ListNames
         DEF Sound, Listed, ByPriority, SamePlaces, KeepsTasks
    <3>2. Covered(r)
      BY <2>1, <2>9, <2>10, ListNames DEF Covered, SamePlaces
    <3> QED  BY <3>1, <3>2
  <2>13. r.prio[c] = h
    BY <2>1, <2>6, <2>9 DEF Sound, ByPriority, KeepsTasks, l
  <2>14. IsReady(r, c)
    BY <2>3, <2>6, <2>10, <2>13 DEF IsReady, SamePlaces, l
  <2>15. \A u \in Task, p \in Priority : IsIn(r, u, Ready(p)) => p <= h
    BY <2>1, <2>10, ListNames DEF SamePlaces
  <2> QED  BY <1>3, <2>8, <2>9, <2>10, <2>11, <2>12, <2>13, <2>14, <2>15 DEF Switched, Sound, r
<1> QED  BY <1>2, <1>3, <1>1, FieldTypes

-----------------------------------------------------------------------------
(* Steps that keep the lists sound, and the sleepers in the future. *)

\* A change of fields that no list depends on.
LEMMA SoundSame ==
    ASSUME NEW kk, Sound(kk), NEW r \in KernelState, SameLists(kk, r),
           r.prio = kk.prio, r.live = kk.live, r.top = kk.top
    PROVE  Sound(r) /\ SamePlaces(kk, r)
<1>1. Linked(r) /\ SamePlaces(kk, r)
  BY SameListsLinked DEF Sound
<1> QED  BY <1>1, ListNames DEF Sound, Listed, ByPriority, Covered, SamePlaces

\* A live task moves to list l.
LEMMA SoundMoved ==
    ASSUME NEW kk, Sound(kk), NEW r \in KernelState, Linked(r),
           NEW t \in Task, t \in kk.live, NEW l \in StateLists, Goes(kk, r, t, l),
           r.live = kk.live, r.prio = kk.prio, r.top >= kk.top,
           \A p \in Priority : l = Ready(p) => p = kk.prio[t] /\ p <= r.top
    PROVE  Sound(r)
<1>1. Listed(r)
  BY DEF Sound, Listed, Goes
<1>2. ByPriority(r)
  BY ListNames DEF Sound, ByPriority, Goes
<1>3. Covered(r)
  <2> SUFFICES ASSUME NEW u \in Task, NEW p \in Priority, IsIn(r, u, Ready(p))
               PROVE  p <= r.top
    BY DEF Covered
  <2>1. Ready(p) \in StateLists
    BY ListNames
  <2>2. CASE u = t
    BY <2>1, <2>2 DEF Goes
  <2>3. CASE u # t
    <3>1. p <= kk.top
      BY <2>1, <2>3 DEF Goes, Sound, Covered
    <3>2. p \in Nat /\ kk.top \in Nat /\ r.top \in Nat
      BY FieldTypes, TickFacts DEF Sound
    <3> QED  BY <3>1, <3>2
  <2> QED  BY <2>2, <2>3
<1> QED  BY <1>1, <1>2, <1>3 DEF Sound

\* The sleepers of r are sleepers of kk.
LEMMA SleepersKept ==
    ASSUME NEW kk, NEW r, r.tick = kk.tick, r.next = kk.next,
           \A u \in Task, m \in {Delayed, OverflowDelayed} :
               IsIn(r, u, m) => IsIn(kk, u, m) /\ r.wake[u] = kk.wake[u]
    PROVE  /\ UnblockEarly(kk) => UnblockEarly(r)
           /\ DueLater(kk) => DueLater(r)
           /\ DueNowOrLater(kk) => DueNowOrLater(r)
BY DEF UnblockEarly, DueLater, DueNowOrLater, DueAfterWrap

\* The same when no task moves into a delayed list.
LEMMA AwakeKeepsSleepers ==
    ASSUME NEW kk, NEW r, r.tick = kk.tick, r.next = kk.next, NEW t \in Task,
           NEW l \in StateLists \ {Delayed, OverflowDelayed}, Goes(kk, r, t, l),
           \A u \in Task : u # t => r.wake[u] = kk.wake[u]
    PROVE  /\ UnblockEarly(kk) => UnblockEarly(r)
           /\ DueLater(kk) => DueLater(r)
           /\ DueNowOrLater(kk) => DueNowOrLater(r)
<1>1. \A u \in Task, m \in {Delayed, OverflowDelayed} :
          IsIn(r, u, m) => IsIn(kk, u, m) /\ r.wake[u] = kk.wake[u]
  BY ListNames DEF Goes
<1> QED  BY <1>1, SleepersKept

\* What MakeReady does to sound lists.
ReadiedSoundly(kk, r, t) ==
    /\ Readied(kk, r, t) /\ Sound(r) /\ IsReady(r, t)
    /\ UnblockEarly(kk) => UnblockEarly(r)
    /\ DueLater(kk) => DueLater(r)
    /\ DueNowOrLater(kk) => DueNowOrLater(r)

\* Making a live task ready keeps every fact of the lists.
LEMMA MakeReadySound ==
    ASSUME NEW kk, Sound(kk), NEW t \in kk.live
    PROVE  ReadiedSoundly(kk, MakeReady(kk, t), t)
<1> DEFINE r == MakeReady(kk, t)
           p == kk.prio[t]
<1>1. kk \in KernelState /\ Linked(kk) /\ t \in Task /\ p \in Priority
  BY FieldTypes DEF Sound
<1>2. PICK l \in StateLists : IsIn(kk, t, l)
  BY <1>1 DEF Sound, Listed
<1>3. Readied(kk, r, t)
  BY <1>1, <1>2, MakeReadyReadies
<1> HIDE DEF r, p
<1>4. /\ r \in KernelState /\ Linked(r) /\ Goes(kk, r, t, Ready(p))
      /\ r.live = kk.live /\ r.prio = kk.prio /\ r.top >= kk.top /\ r.top >= p
      /\ r.tick = kk.tick /\ r.next = kk.next
      /\ \A u \in Task : u # t => r.wake[u] = kk.wake[u]
  BY <1>3 DEF Readied, Keeps, KeepsTasks, KeepsClock, p
<1>5. Ready(p) \in StateLists \ {Delayed, OverflowDelayed}
      /\ \A q \in Priority : Ready(p) = Ready(q) => q = p
  BY <1>1, ListNames
<1>6. r.top \in Nat /\ p \in Nat
  BY <1>1, <1>4, FieldTypes, TickFacts
<1>7. Sound(r)
  <2>1. p <= r.top /\ p = kk.prio[t]
    BY <1>4, <1>6 DEF p
  <2> QED  BY <1>1, <1>4, <1>5, <2>1, SoundMoved
<1>8. IsReady(r, t)
  BY <1>1, <1>4, <1>5 DEF IsReady, Goes, p
<1>9. /\ UnblockEarly(kk) => UnblockEarly(r)
      /\ DueLater(kk) => DueLater(r)
      /\ DueNowOrLater(kk) => DueNowOrLater(r)
  BY <1>1, <1>4, <1>5, AwakeKeepsSleepers
<1> QED  BY <1>3, <1>7, <1>8, <1>9 DEF ReadiedSoundly, r

\* The same of a turn of the loop of xTaskIncrementTick.
UnblockedSoundly(kk, r, t) ==
    /\ Unblocked(kk, r, t) /\ Sound(r) /\ IsReady(r, t)
    /\ UnblockEarly(kk) => UnblockEarly(r)
    /\ DueLater(kk) => DueLater(r)
    /\ DueNowOrLater(kk) => DueNowOrLater(r)

\* The body of the loop of xTaskIncrementTick keeps every fact of the lists.
LEMMA UnblockHeadSound ==
    ASSUME NEW kk, Sound(kk), ~Empty(kk, Delayed)
    PROVE  /\ Head(kk.list[Delayed]) \in kk.live
           /\ IsIn(kk, Head(kk.list[Delayed]), Delayed)
           /\ UnblockedSoundly(kk, UnblockHead(kk), Head(kk.list[Delayed]))
<1> DEFINE t == Head(kk.list[Delayed])
           r == UnblockHead(kk)
           p == kk.prio[t]
<1>1. kk \in KernelState /\ Linked(kk)
  BY DEF Sound
<1>2. t \in Task /\ IsIn(kk, t, Delayed) /\ Unblocked(kk, r, t)
  BY <1>1, UnblockHeadUnblocks
<1> HIDE DEF t, r
<1>3. t \in kk.live /\ p \in Priority
  BY <1>1, <1>2, ListNames, FieldTypes DEF Sound, Listed
<1> HIDE DEF p
<1>4. /\ r \in KernelState /\ Linked(r) /\ Goes(kk, r, t, Ready(p))
      /\ r.live = kk.live /\ r.prio = kk.prio /\ r.top >= kk.top /\ r.top >= p
      /\ r.tick = kk.tick /\ r.next = kk.next
      /\ \A u \in Task : u # t => r.wake[u] = kk.wake[u]
  BY <1>2 DEF Unblocked, Keeps, KeepsTasks, KeepsClock, p
<1>5. Ready(p) \in StateLists \ {Delayed, OverflowDelayed}
      /\ \A q \in Priority : Ready(p) = Ready(q) => q = p
  BY <1>3, ListNames
<1>6. r.top \in Nat /\ p \in Nat
  BY <1>3, <1>4, FieldTypes, TickFacts
<1>7. Sound(r)
  <2>1. p <= r.top /\ p = kk.prio[t]
    BY <1>4, <1>6 DEF p
  <2> QED  BY <1>2, <1>3, <1>4, <1>5, <2>1, SoundMoved
<1>8. IsReady(r, t)
  BY <1>2, <1>4, <1>5 DEF IsReady, Goes, p
<1>9. /\ UnblockEarly(kk) => UnblockEarly(r)
      /\ DueLater(kk) => DueLater(r)
      /\ DueNowOrLater(kk) => DueNowOrLater(r)
  BY <1>2, <1>4, <1>5, AwakeKeepsSleepers
<1> QED  BY <1>2, <1>3, <1>7, <1>8, <1>9 DEF UnblockedSoundly, t, r

\* Of a new tick, of the end of its loop and of the unblock time.
LEMMA TickSound ==
    ASSUME NEW kk, Sound(kk)
    PROVE  Ticked(kk, IncrementTick(kk)) /\ Sound(IncrementTick(kk))
<1> DEFINE r == IncrementTick(kk)
<1>1. kk \in KernelState /\ Linked(kk)
  BY DEF Sound
<1>2. Ticked(kk, r)
  BY <1>1, IncrementTickTicks
<1> HIDE DEF r
<1>3. /\ r \in KernelState /\ Linked(r) /\ SamePlacesButDelayed(kk, r)
      /\ r.live = kk.live /\ r.prio = kk.prio /\ r.top = kk.top
  BY <1>2 DEF Ticked, KeepsTasks
<1>4. Listed(r)
  BY <1>3, ListNames DEF Sound, Listed, SamePlacesButDelayed
<1>5. ByPriority(r) /\ Covered(r)
  BY <1>3, ListNames DEF Sound, ByPriority, Covered, SamePlacesButDelayed
<1> QED  BY <1>2, <1>3, <1>4, <1>5 DEF Sound, r

\* The end of the loop of xTaskIncrementTick keeps every fact of the lists.
LEMMA LoopEndSound ==
    ASSUME NEW kk, Sound(kk)
    PROVE  /\ LoopEnded(kk, AfterTickLoop(kk)) /\ Sound(AfterTickLoop(kk))
           /\ SamePlaces(kk, AfterTickLoop(kk))
<1> DEFINE r == AfterTickLoop(kk)
<1>1. LoopEnded(kk, r)
  BY TickLoopEnds DEF Sound
<1> HIDE DEF r
<1>2. Sound(r) /\ SamePlaces(kk, r)
  BY <1>1, SoundSame DEF LoopEnded, Keeps, KeepsTasks
<1> QED  BY <1>1, <1>2 DEF r

\* prvResetNextTaskUnblockTime keeps every fact of the lists.
LEMMA ResetSound ==
    ASSUME NEW kk, Sound(kk)
    PROVE  /\ NextReset(kk, prvResetNextTaskUnblockTime(kk))
           /\ Sound(prvResetNextTaskUnblockTime(kk))
           /\ SamePlaces(kk, prvResetNextTaskUnblockTime(kk))
<1> DEFINE r == prvResetNextTaskUnblockTime(kk)
<1>1. NextReset(kk, r)
  BY ResetIsEarly DEF Sound
<1> HIDE DEF r
<1>2. Sound(r) /\ SamePlaces(kk, r)
  BY <1>1, SoundSame DEF NextReset, Keeps, KeepsTasks
<1> QED  BY <1>1, <1>2 DEF r

\* Of the running task's going to sleep.
LEMMA SleepSound ==
    ASSUME NEW kk, Sound(kk), kk.current \in kk.live, NEW n \in Tick, NEW b \in BOOLEAN
    PROVE  /\ PutToSleep(kk, prvAddCurrentTaskToDelayedList(kk, n, b), kk.current, n, b)
           /\ Sound(prvAddCurrentTaskToDelayedList(kk, n, b))
<1> DEFINE r == prvAddCurrentTaskToDelayedList(kk, n, b)
           t == kk.current
           l == SleepList(kk, n, b)
<1>1. kk \in KernelState /\ Linked(kk) /\ t \in Task
  BY FieldTypes DEF Sound
<1>2. PICK m \in StateLists : IsIn(kk, t, m)
  BY <1>1 DEF Sound, Listed
<1>3. PutToSleep(kk, r, t, n, b)
  BY <1>1, <1>2, CurrentPutToSleep
<1>4. l \in {Suspended, Delayed, OverflowDelayed}
  BY DEF SleepList
<1> HIDE DEF r, t, l
<1>5. l \in StateLists /\ \A p \in Priority : l # Ready(p)
  BY <1>4, ListNames
<1>6. /\ r \in KernelState /\ Linked(r) /\ Goes(kk, r, t, l)
      /\ r.live = kk.live /\ r.prio = kk.prio /\ r.top = kk.top /\ kk.top \in Nat
  BY <1>1, <1>3, FieldTypes, TickFacts DEF PutToSleep, Keeps, KeepsTasks, l
<1>7. Sound(r)
  BY <1>1, <1>5, <1>6, SoundMoved DEF t
<1> QED  BY <1>3, <1>7 DEF r, t

\* A task leaves its state list and its event list.
Detached(kk, r, t) ==
    /\ r \in KernelState /\ Linked(r) /\ SameRest(kk, r) /\ Leaves(kk, r, t)
    /\ \A e \in EventLists, u \in Task :
           Occurs(r.event[e], u) <=> u # t /\ Occurs(kk.event[e], u)
    /\ \A u \in Task : u # t => r.wake[u] = kk.wake[u]

\* vTaskSuspend and vTaskDelete first take the task off both its lists: it is
\* then on none.
LEMMA DetachDetaches ==
    ASSUME NEW kk, Sound(kk), NEW t \in kk.live
    PROVE  Detached(kk, RemoveEvent(RemoveState(kk, t), t), t)
<1> DEFINE a == RemoveState(kk, t)
           r == RemoveEvent(a, t)
<1>1. kk \in KernelState /\ Linked(kk) /\ t \in Task
  BY FieldTypes DEF Sound
<1>2. PICK l \in StateLists : IsIn(kk, t, l)
  BY <1>1 DEF Sound, Listed
<1>3. Removed(kk, a, t)
  BY <1>1, <1>2, RemoveStateRemoves
<1> HIDE DEF a
<1>4. Unlinked(a, r, t)
  BY <1>1, <1>3, RemoveEventUnlinks DEF Removed
<1> HIDE DEF r
<1>5. SameRest(kk, r)
  BY <1>3, <1>4 DEF Removed, Unlinked, SameRest, Keeps, KeepsTasks, KeepsClock, KeepsProcessor
<1>6. Leaves(kk, r, t)
  BY <1>3, <1>4 DEF Removed, Unlinked, SameStates, Leaves, IsIn
<1>7. /\ \A e \in EventLists, u \in Task :
             Occurs(r.event[e], u) <=> u # t /\ Occurs(kk.event[e], u)
      /\ \A u \in Task : u # t => r.wake[u] = kk.wake[u]
  BY <1>1, <1>3, <1>4, FieldTypes DEF Removed, Unlinked, SameStates
<1> QED  BY <1>4, <1>5, <1>6, <1>7 DEF Detached, Unlinked, a, r

\* A task goes to list l, which is neither a delayed nor a ready list, and
\* waits for nothing: vTaskSuspend, and vTaskDelete of the running task.
Shelved(kk, r, t, l) ==
    /\ Sound(r) /\ SameRest(kk, r) /\ Goes(kk, r, t, l)
    /\ \A e \in EventLists, u \in Task :
           Occurs(r.event[e], u) <=> u # t /\ Occurs(kk.event[e], u)
    /\ \A u \in Task : u # t => r.wake[u] = kk.wake[u]
    /\ UnblockEarly(kk) => UnblockEarly(r)
    /\ DueLater(kk) => DueLater(r)

\* Then it is put on the suspended list or the list of tasks that wait for
\* termination.
LEMMA ShelveShelves ==
    ASSUME NEW kk, Sound(kk), NEW t \in kk.live, NEW l \in {Suspended, Terminated}
    PROVE  Shelved(kk, AppendState(RemoveEvent(RemoveState(kk, t), t), l, t), t, l)
<1> DEFINE a == RemoveEvent(RemoveState(kk, t), t)
           r == AppendState(a, l, t)
<1>1. kk \in KernelState /\ t \in Task
  BY FieldTypes DEF Sound
<1>2. Detached(kk, a, t)
  BY DetachDetaches
<1> HIDE DEF a
<1>3. l \in StateLists \ {Delayed, OverflowDelayed} /\ \A p \in Priority : l # Ready(p)
  BY ListNames
<1>4. Appended(a, r, t, l)
  BY <1>1, <1>2, <1>3, AppendStateAppends DEF Detached, Leaves
<1> HIDE DEF r
<1>5. SameRest(kk, r)
  BY <1>2, <1>4 DEF Detached, Appended, SameRest, Keeps, KeepsTasks, KeepsClock, KeepsProcessor
<1>6. Goes(kk, r, t, l)
  BY <1>2, <1>4 DEF Detached, Appended, Leaves, Goes
<1>7. /\ \A e \in EventLists, u \in Task :
             Occurs(r.event[e], u) <=> u # t /\ Occurs(kk.event[e], u)
      /\ \A u \in Task : u # t => r.wake[u] = kk.wake[u]
  BY <1>2, <1>4 DEF Detached, Appended
<1>8. Sound(r)
  <2>1. /\ r \in KernelState /\ Linked(r) /\ r.live = kk.live /\ r.prio = kk.prio
        /\ r.top = kk.top /\ kk.top \in Nat
    BY <1>1, <1>4, <1>5, FieldTypes, TickFacts
       DEF Appended, SameRest, Keeps, KeepsTasks
  <2> QED  BY <1>1, <1>3, <1>6, <2>1, SoundMoved
<1>9. /\ UnblockEarly(kk) => UnblockEarly(r)
      /\ DueLater(kk) => DueLater(r)
  <2>1. r.tick = kk.tick /\ r.next = kk.next
    BY <1>5 DEF SameRest, Keeps, KeepsClock
  <2> QED  BY <1>1, <1>3, <1>6, <1>7, <2>1, AwakeKeepsSleepers
<1> QED  BY <1>5, <1>6, <1>7, <1>8, <1>9 DEF Shelved, a, r

\* A task that was detached is no longer live.
Dead(kk, r, t) ==
    /\ Sound(r) /\ Leaves(kk, r, t)
    /\ \A e \in EventLists, u \in Task :
           Occurs(r.event[e], u) <=> u # t /\ Occurs(kk.event[e], u)
    /\ \A u \in Task : u # t => r.wake[u] = kk.wake[u]
    /\ r.order = kk.order /\ r.prio = kk.prio /\ r.base = kk.base /\ r.held = kk.held
    /\ r.notify = kk.notify /\ r.live = kk.live \ {t}
    /\ KeepsClock(kk, r) /\ KeepsProcessor(kk, r)
    /\ r.next = kk.next /\ r.top = kk.top /\ r.yield = kk.yield
    /\ UnblockEarly(kk) => UnblockEarly(r)
    /\ DueLater(kk) => DueLater(r)

\* A task on no list may leave the live tasks.
LEMMA BuryDead ==
    ASSUME NEW kk, Sound(kk), NEW t \in kk.live, NEW a, Detached(kk, a, t)
    PROVE  Dead(kk, [a EXCEPT !.live = kk.live \ {t}], t)
<1> DEFINE d == kk.live \ {t}
           r == [a EXCEPT !.live = d]
<1>1. kk \in KernelState /\ kk.live \subseteq Task /\ t \in Task /\ a \in KernelState
  BY FieldTypes DEF Sound, Detached
<1>2. r \in KernelState
  BY <1>1 DEF KernelState
<1>3. /\ SameLists(a, r) /\ r.live = d
      /\ r.order = a.order /\ r.prio = a.prio /\ r.base = a.base /\ r.held = a.held
      /\ r.notify = a.notify /\ KeepsClock(a, r) /\ KeepsProcessor(a, r)
      /\ r.next = a.next /\ r.top = a.top /\ r.yield = a.yield
  BY <1>1 DEF KernelState, SameLists, KeepsClock, KeepsProcessor
<1> HIDE DEF r
<1>4. Linked(r) /\ SamePlaces(a, r)
  BY <1>3, SameListsLinked DEF Detached
<1>5. Leaves(kk, r, t)
  BY <1>4 DEF Detached, Leaves, SamePlaces
<1>6. Listed(r)
  BY <1>3, <1>5 DEF Listed, Leaves, Sound
<1>7. r.prio = kk.prio /\ r.top = kk.top
  BY <1>3 DEF Detached, SameRest, Keeps, KeepsTasks
<1>8. ByPriority(r) /\ Covered(r)
  BY <1>5, <1>7, ListNames DEF Sound, ByPriority, Covered, Leaves
<1>9. /\ r.order = kk.order /\ r.base = kk.base /\ r.held = kk.held
      /\ r.notify = kk.notify /\ KeepsClock(kk, r) /\ KeepsProcessor(kk, r)
      /\ r.next = kk.next /\ r.yield = kk.yield /\ r.wake = a.wake /\ r.event = a.event
  BY <1>3 DEF Detached, SameLists, SameRest, Keeps, KeepsTasks, KeepsClock, KeepsProcessor
<1>10. \A u \in Task : u # t => r.wake[u] = kk.wake[u]
  BY <1>9 DEF Detached
<1>11. /\ UnblockEarly(kk) => UnblockEarly(r)
       /\ DueLater(kk) => DueLater(r)
  <2>1. r.tick = kk.tick /\ r.next = kk.next
    BY <1>9 DEF KeepsClock
  <2>2. \A u \in Task, m \in {Delayed, OverflowDelayed} :
            IsIn(r, u, m) => IsIn(kk, u, m) /\ r.wake[u] = kk.wake[u]
    BY <1>5, <1>10, ListNames DEF Leaves
  <2> QED  BY <2>1, <2>2, SleepersKept
<1> QED  BY <1>2, <1>3, <1>4, <1>5, <1>6, <1>7, <1>8, <1>9, <1>10, <1>11
         DEF Dead, Sound, Detached, r

\* ChangePriority: the task takes priority p, in its ready list if it was in
\* one; the other tasks and the clock are left alone.
Reprioritised(kk, r, t, p) ==
    /\ Sound(r)
    /\ r.prio = [kk.prio EXCEPT ![t] = p]
    /\ r.base = kk.base /\ r.held = kk.held /\ r.notify = kk.notify /\ r.live = kk.live
    /\ KeepsClock(kk, r) /\ KeepsProcessor(kk, r)
    /\ r.event = kk.event /\ r.next = kk.next /\ r.yield = kk.yield
    /\ \A u \in Task : u # t => r.wake[u] = kk.wake[u]
    /\ IsReady(kk, t) => Goes(kk, r, t, Ready(p))
    /\ ~IsReady(kk, t) => SamePlaces(kk, r)
    /\ UnblockEarly(kk) => UnblockEarly(r)
    /\ DueLater(kk) => DueLater(r)

\* vTaskPrioritySet moves a ready task to the ready list of its new priority,
\* and leaves any other where it is.
LEMMA ChangeReprioritises ==
    ASSUME NEW kk, Sound(kk), NEW t \in kk.live, NEW p \in Priority, NEW v \in Nat
    PROVE  Reprioritised(kk, ChangePriority(kk, t, p, v), t, p)
<1> DEFINE o == IF ValueInUse(kk, t) THEN kk.order[t] ELSE v
           a == [kk EXCEPT !.prio[t] = p, !.order[t] = o]
           r == ChangePriority(kk, t, p, v)
<1>1. kk \in KernelState /\ Linked(kk) /\ t \in Task
  BY FieldTypes DEF Sound
<1>2. o \in Nat
  BY <1>1, FieldTypes
<1>3. r = IF IsReady(kk, t) THEN MakeReady(a, t) ELSE a
  BY DEF ChangePriority, IsReady
<1> HIDE DEF o, r
<1>4. a \in KernelState
  BY <1>1, <1>2 DEF KernelState
<1>5. /\ SameLists(kk, a) /\ a.prio = [kk.prio EXCEPT ![t] = p] /\ a.base = kk.base
      /\ a.held = kk.held /\ a.notify = kk.notify /\ a.live = kk.live
      /\ KeepsClock(kk, a) /\ KeepsProcessor(kk, a) /\ a.next = kk.next
      /\ a.yield = kk.yield /\ a.top = kk.top
  BY <1>1 DEF KernelState, SameLists, KeepsClock, KeepsProcessor
<1> HIDE DEF a
<1>6. Linked(a) /\ SamePlaces(kk, a)
  BY <1>1, <1>5, SameListsLinked
<1>7. a.prio[t] = p /\ \A u \in Task : u # t => a.prio[u] = kk.prio[u]
  BY <1>1, <1>5, FieldTypes
<1>8. Listed(a)
  BY <1>5, <1>6 DEF Sound, Listed, SamePlaces
<1>9. CASE ~IsReady(kk, t)
  <2>1. r = a
    BY <1>3, <1>9
  <2>2. \A q \in Priority : ~IsIn(kk, t, Ready(q))
    BY <1>1, <1>9, ReadyMeansReady
  <2>3. ByPriority(a) /\ Covered(a)
    BY <1>5, <1>6, <1>7, <2>2, ListNames DEF Sound, ByPriority, Covered, SamePlaces
  <2>4. /\ UnblockEarly(kk) => UnblockEarly(r)
        /\ DueLater(kk) => DueLater(r)
    <3>1. r.tick = kk.tick /\ r.next = kk.next
      BY <1>5, <2>1 DEF KeepsClock
    <3>2. \A u \in Task, m \in {Delayed, OverflowDelayed} :
              IsIn(r, u, m) => IsIn(kk, u, m) /\ r.wake[u] = kk.wake[u]
      BY <1>5, <1>6, <2>1, ListNames DEF SamePlaces, SameLists
    <3> QED  BY <3>1, <3>2, SleepersKept
  <2> QED  BY <1>4, <1>5, <1>6, <1>8, <1>9, <2>1, <2>3, <2>4
           DEF Reprioritised, Sound, SameLists, r
<1>10. CASE IsReady(kk, t)
  <2> DEFINE q == kk.prio[t]
  <2>1. r = MakeReady(a, t)
    BY <1>3, <1>10
  <2>2. Ready(q) \in StateLists /\ IsIn(a, t, Ready(q))
    BY <1>1, <1>6, <1>10, ListNames, FieldTypes DEF SamePlaces, IsReady
  <2>3. Readied(a, r, t)
    BY <1>1, <1>4, <1>6, <2>1, <2>2, MakeReadyReadies
  <2>4. /\ r \in KernelState /\ Linked(r) /\ Goes(a, r, t, Ready(p))
        /\ r.live = kk.live /\ r.prio = a.prio /\ r.top >= kk.top /\ r.top >= p
        /\ r.tick = kk.tick /\ r.next = kk.next
        /\ \A u \in Task : u # t => r.wake[u] = kk.wake[u]
    BY <1>5, <1>7, <2>3 DEF Readied, Keeps, KeepsTasks, KeepsClock, SameLists
  <2>5. Goes(kk, r, t, Ready(p))
    BY <1>6, <2>4 DEF Goes, SamePlaces
  <2>6. Ready(p) \in StateLists \ {Delayed, OverflowDelayed}
        /\ \A s \in Priority : Ready(p) = Ready(s) => s = p
    BY ListNames
  <2>7. Listed(r)
    BY <2>4, <2>5, <2>6 DEF Sound, Listed, Goes
  <2>8. ByPriority(r)
    BY <1>7, <2>4, <2>5, <2>6, ListNames DEF Sound, ByPriority, Goes
  <2>9. Covered(r)
    <3> SUFFICES ASSUME NEW u \in Task, NEW s \in Priority, IsIn(r, u, Ready(s))
                 PROVE  s <= r.top
      BY DEF Covered
    <3>1. r.top \in Nat /\ kk.top \in Nat /\ s \in Nat /\ p \in Nat
      BY <1>1, <2>4, FieldTypes, TickFacts
    <3>2. CASE u = t
      BY <2>4, <2>5, <2>6, <3>1, <3>2, ListNames DEF Goes
    <3>3. CASE u # t
      <4>1. s <= kk.top
        BY <2>5, <3>3, ListNames DEF Goes, Sound, Covered
      <4> QED  BY <2>4, <3>1, <4>1
    <3> QED  BY <3>2, <3>3
  <2>10. /\ UnblockEarly(kk) => UnblockEarly(r)
         /\ DueLater(kk) => DueLater(r)
    BY <1>1, <2>4, <2>5, <2>6, AwakeKeepsSleepers
  <2>11. /\ r.base = kk.base /\ r.held = kk.held /\ r.notify = kk.notify
         /\ KeepsClock(kk, r) /\ KeepsProcessor(kk, r)
         /\ r.event = kk.event /\ r.yield = kk.yield
    BY <1>5, <2>3
       DEF Readied, Keeps, KeepsTasks, KeepsClock, KeepsProcessor, SameLists
  <2> QED  BY <1>5, <1>10, <2>4, <2>5, <2>7, <2>8, <2>9, <2>10, <2>11
           DEF Reprioritised, Sound, r
<1> QED  BY <1>9, <1>10

-----------------------------------------------------------------------------
(* Work items, and the kernel when the scheduler starts. *)

\* What a task does next.
OpOf(s) == IF s = <<>> THEN "none" ELSE s[1].op

\* The constructors of work items make work items with the fields they were
\* given.
LEMMA ItemFacts ==
    /\ \A op \in Ops : Do(op) \in Work /\ Do(op).op = op /\ Do(op).task = Idle
    /\ \A op \in Ops, n \in Nat :
           DoFor(op, n) \in Work /\ DoFor(op, n).op = op /\ DoFor(op, n).n = n
    /\ \A op \in Ops, b \in BOOLEAN :
           DoWith(op, b) \in Work /\ DoWith(op, b).op = op
    /\ \A op \in Ops, t \in Task :
           /\ [Do(op) EXCEPT !.task = t] \in Work
           /\ [Do(op) EXCEPT !.task = t].op = op /\ [Do(op) EXCEPT !.task = t].task = t
    /\ \A op \in Ops, n \in Nat, t \in Task :
           /\ [DoFor(op, n) EXCEPT !.task = t] \in Work
           /\ [DoFor(op, n) EXCEPT !.task = t].op = op
           /\ [DoFor(op, n) EXCEPT !.task = t].task = t
           /\ [DoFor(op, n) EXCEPT !.task = t].n = n
    /\ \A op \in Ops, n \in Nat, b \in BOOLEAN :
           /\ [DoFor(op, n) EXCEPT !.flag = b] \in Work
           /\ [DoFor(op, n) EXCEPT !.flag = b].op = op
           /\ [DoFor(op, n) EXCEPT !.flag = b].n = n
BY TasksAssumption DEF Do, DoFor, DoWith, Work

\* What is left of a call after its first item.
LEMMA RestOf ==
    ASSUME NEW s \in Seq(Work), s # <<>>
    PROVE  /\ Tail(s) \in Seq(Work) /\ Len(Tail(s)) = Len(s) - 1
           /\ \A j \in 1 .. Len(s) - 1 : Tail(s)[j] = s[j + 1]
           /\ Head(s) = s[1] /\ s[1] \in Work /\ Len(s) \in Nat /\ Len(s) >= 1
           /\ Tail(s) = <<>> <=> Len(s) = 1
<1>1. Len(s) \in Nat /\ Len(s) > 0 /\ Head(s) = s[1] /\ s[1] \in Work
  BY EmptyIffNone, LenProperties
<1>2. /\ Tail(s) \in Seq(Work) /\ Len(Tail(s)) = Len(s) - 1
      /\ \A j \in 1 .. Len(s) - 1 : Tail(s)[j] = s[j + 1]
  BY HeadTailProperties
<1>3. Tail(s) = <<>> <=> Len(Tail(s)) = 0
  BY <1>2, EmptySeq
<1> QED  BY <1>1, <1>2, <1>3

\* The kernel's lists, and the tasks that run.
Ticking(kk) == kk.cpu \in {"tick", "replayTick"}

KernelInv(kk, handed) ==
    /\ Sound(kk)
    /\ UnblockEarly(kk)
    /\ Ticking(kk) => DueNowOrLater(kk)
    /\ ~Ticking(kk) => DueLater(kk)
    /\ kk.base = kk.prio
    /\ IsReady(kk, Idle) /\ kk.prio[Idle] = 0
    /\ kk.current \in kk.live
    /\ kk.live \subseteq handed
    /\ \A e \in WaitLists, t \in Task : ~Occurs(kk.event[e], t)

\* The ready lists of an application: no task is in two places, and one of the
\* lists holds the idle task.
LEMMA ReadyAtStartFacts ==
    ASSUME app \in DOMAIN Applications
    PROVE  /\ \A p \in Priority : App.ready[p] \in Seq(Task) /\ Distinct(App.ready[p])
           /\ \A p, q \in Priority, t \in Task :
                  ReadyAtStart(p, t) /\ ReadyAtStart(q, t) => p = q
           /\ ReadyAtStart(0, Idle)
<1>1. IsApplication(App)
  BY TasksAssumption DEF App
<1>2. App.ready \in [Priority -> Seq(Task)] /\ Occurs(App.ready[0], Idle)
  BY <1>1 DEF IsApplication
<1>3. \A p, q \in Priority : \A i \in DOMAIN App.ready[p], j \in DOMAIN App.ready[q] :
          App.ready[p][i] = App.ready[q][j] => p = q /\ i = j
  BY <1>1 DEF IsApplication
<1>4. \A p \in Priority : Distinct(App.ready[p])
  BY <1>3 DEF Distinct
<1>5. \A p, q \in Priority, t \in Task : ReadyAtStart(p, t) /\ ReadyAtStart(q, t) => p = q
  BY <1>3 DEF ReadyAtStart, Occurs
<1> QED  BY <1>2, <1>4, <1>5 DEF ReadyAtStart

\* Each task that is started has the priority of the ready list it is in.
LEMMA StartPriorityFacts ==
    ASSUME app \in DOMAIN Applications, NEW t \in Task
    PROVE  /\ StartPriority(t) \in Priority
           /\ \A p \in Priority : ReadyAtStart(p, t) => StartPriority(t) = p /\ t \in Started
           /\ t \in Started => ReadyAtStart(StartPriority(t), t)
<1>1. CASE t \in Started
  <2>1. StartPriority(t) = CHOOSE p \in Priority : ReadyAtStart(p, t)
    BY <1>1 DEF StartPriority
  <2>2. \E p \in Priority : ReadyAtStart(p, t)
    BY <1>1 DEF Started
  <2>3. StartPriority(t) \in Priority /\ ReadyAtStart(StartPriority(t), t)
    BY <2>1, <2>2
  <2> QED  BY <1>1, <2>3, ReadyAtStartFacts
<1>2. CASE t \notin Started
  <2>1. \A p \in Priority : ~ReadyAtStart(p, t)
    BY <1>2 DEF Started
  <2> QED  BY <1>2, <2>1, TickFacts DEF StartPriority
<1> QED  BY <1>1, <1>2

\* The task that runs first is the last of the highest list that has one.
LEMMA HighestStartFacts ==
    ASSUME app \in DOMAIN Applications
    PROVE  /\ HighestStart \in Priority
           /\ Last(App.ready[HighestStart]) \in Task
           /\ ReadyAtStart(HighestStart, Last(App.ready[HighestStart]))
           /\ \A p \in Priority, t \in Task : ReadyAtStart(p, t) => p <= HighestStart
<1> DEFINE High(p) == /\ App.ready[p] # <<>>
                      /\ \A q \in Priority : q > p => App.ready[q] = <<>>
           T == {p \in Priority : App.ready[p] # <<>>}
<1>1. \A p \in Priority : App.ready[p] \in Seq(Task)
  BY ReadyAtStartFacts
<1>2. \A p \in Priority, t \in Task : ReadyAtStart(p, t) => p \in T
  BY <1>1, EmptyIffNone DEF ReadyAtStart
<1>3. \E p \in T : \A q \in T : q <= p
  <2>1. T \in SUBSET (0 .. MaxPriority) /\ T # {} /\ MaxPriority \in Nat
    BY <1>2, ReadyAtStartFacts, TasksAssumption, TickFacts, KernelAssumption DEF Priority
  <2> HIDE DEF T
  <2> QED  BY <2>1, LastPosition
<1>4. \E p \in Priority : High(p)
  <2>1. PICK p \in T : \A q \in T : q <= p
    BY <1>3
  <2>2. ASSUME NEW q \in Priority, q > p
        PROVE  App.ready[q] = <<>>
    <3>1. q \notin T
      BY <2>1, <2>2, TickFacts
    <3> QED  BY <3>1
  <2> QED  BY <2>1, <2>2
<1>5. HighestStart = CHOOSE p \in Priority : High(p)
  BY DEF HighestStart
<1>6. HighestStart \in Priority /\ High(HighestStart)
  <2> HIDE DEF High
  <2> QED  BY <1>4, <1>5
<1> DEFINE h == HighestStart
           s == App.ready[h]
<1>7. h \in Priority /\ s \in Seq(Task) /\ s # <<>>
  BY <1>1, <1>6
<1>8. Last(s) \in Task /\ Occurs(s, Last(s))
  <2> HIDE DEF s
  <2>1. Len(s) \in 1 .. Len(s) /\ Last(s) = s[Len(s)]
    BY <1>7, EmptyIffNone, LenProperties DEF Last
  <2> QED  BY <1>7, <2>1, OccursByLength
<1>9. ASSUME NEW p \in Priority, NEW t \in Task, ReadyAtStart(p, t)
      PROVE  p <= h
  <2>1. p \in T /\ p \in Nat /\ h \in Nat
    BY <1>2, <1>7, <1>9, TickFacts
  <2>2. ~(p > h)
    BY <1>6, <2>1
  <2> QED  BY <2>1, <2>2
<1> QED  BY <1>7, <1>8, <1>9 DEF ReadyAtStart

\* The lists as the scheduler finds them.
LEMMA StartLists ==
    ASSUME Init
    PROVE  /\ k \in KernelState
           /\ \A p \in Priority : k.list[Ready(p)] = App.ready[p]
           /\ \A l \in {Delayed, OverflowDelayed, Suspended, Terminated} : k.list[l] = <<>>
           /\ \A t \in Task, p \in Priority : IsIn(k, t, Ready(p)) <=> ReadyAtStart(p, t)
           /\ \A t \in Task : ~IsIn(k, t, Delayed) /\ ~IsIn(k, t, OverflowDelayed)
                              /\ ~IsIn(k, t, Suspended) /\ ~IsIn(k, t, Terminated)
           /\ \A e \in EventLists : k.event[e] = <<>>
           /\ \A l \in StateLists : k.index[l] = 0
           /\ \A t \in Task : k.prio[t] = StartPriority(t)
           /\ k.base = k.prio /\ k.live = Started /\ Started \subseteq Task
           /\ k.current = Last(App.ready[HighestStart]) /\ k.top = HighestStart
           /\ k.notify = [t \in Task |-> "notWaiting"]
           /\ k.cpu = "task" /\ k.susp = 0
<1> DEFINE lists == [l \in StateLists |-> IF l \in ReadyLists THEN App.ready[l[2]] ELSE <<>>]
           orders == [t \in Task |-> EventValue(StartPriority(t))]
           first == Last(App.ready[HighestStart])
<1>1. app \in DOMAIN Applications
  BY DEF Init
<1>2. /\ k.list = lists /\ k.index = [l \in StateLists |-> 0]
      /\ k.event = [e \in EventLists |-> <<>>] /\ k.wake = [t \in Task |-> 0]
      /\ k.order = orders /\ k.prio = [t \in Task |-> StartPriority(t)] /\ k.base = k.prio
      /\ k.live = Started /\ k.current = first /\ k.top = HighestStart
      /\ k.notify = [t \in Task |-> "notWaiting"] /\ k.cpu = "task" /\ k.susp = 0
  BY DEF Init
<1>3. \A p \in Priority : Ready(p) \in ReadyLists /\ Ready(p) \in StateLists /\ Ready(p)[2] = p
  <2> TAKE p \in Priority
  <2>1. Ready(p) \in ReadyLists /\ Ready(p) \in StateLists
    BY ListNames DEF ReadyLists
  <2>2. Ready(p)[2] = p
    BY DEF Ready
  <2> QED  BY <2>1, <2>2
<1>4. \A l \in ReadyLists : l[2] \in Priority
  BY <1>3 DEF ReadyLists
<1>5. \A p \in Priority : k.list[Ready(p)] = App.ready[p]
  BY <1>2, <1>3
<1>6. ASSUME NEW l \in {Delayed, OverflowDelayed, Suspended, Terminated}
      PROVE  k.list[l] = <<>>
  <2>1. l \in StateLists /\ l \notin ReadyLists
    BY ListNames DEF ReadyLists
  <2> QED  BY <1>2, <2>1
<1>7. lists \in [StateLists -> Seq(Task)]
  <2>1. \A l \in ReadyLists : App.ready[l[2]] \in Seq(Task)
    BY <1>1, <1>4, ReadyAtStartFacts
  <2>2. <<>> \in Seq(Task)
    BY EmptyHoldsNone
  <2> QED  BY <2>1, <2>2
<1>8. orders \in [Task -> Nat]
  <2>1. ASSUME NEW t \in Task
        PROVE  EventValue(StartPriority(t)) \in Nat
    BY <1>1, StartPriorityFacts, KernelAssumption DEF EventValue, Priority
  <2> QED  BY <2>1
<1>9. first \in Task /\ HighestStart \in Priority /\ \A t \in Task : StartPriority(t) \in Priority
  BY <1>1, HighestStartFacts, StartPriorityFacts
<1>10. Started \subseteq Task
  BY DEF Started
<1>11. /\ "notWaiting" \in NotifyStates /\ "task" \in CpuModes /\ 0 \in 0 .. OverflowCount - 1
       /\ 0 \in Tick /\ MaxDelay \in Tick /\ 0 \in Nat
  BY TickFacts, TickAssumption DEF NotifyStates, CpuModes
<1>12. [t \in Task |-> StartPriority(t)] \in [Task -> Priority]
  BY <1>9
<1>13. <<>> \in Seq(Task)
  BY EmptyHoldsNone
<1>14. k \in KernelState
  <2>1. k = [list |-> lists,
             index |-> [l \in StateLists |-> 0],
             event |-> [e \in EventLists |-> <<>>],
             wake |-> [t \in Task |-> 0],
             order |-> orders,
             prio |-> [t \in Task |-> StartPriority(t)],
             base |-> [t \in Task |-> StartPriority(t)],
             held |-> [t \in Task |-> 0],
             notify |-> [t \in Task |-> "notWaiting"],
             live |-> Started,
             current |-> first,
             tick |-> 0, next |-> MaxDelay, overflows |-> 0,
             top |-> HighestStart,
             susp |-> 0, pended |-> 0, yield |-> FALSE, cpu |-> "task"]
    BY DEF Init
  <2> HIDE DEF lists, orders, first
  <2> QED  BY <1>7, <1>8, <1>9, <1>10, <1>11, <1>12, <1>13, <2>1 DEF KernelState
<1>15. \A t \in Task, p \in Priority : IsIn(k, t, Ready(p)) <=> ReadyAtStart(p, t)
  BY <1>5 DEF IsIn, ReadyAtStart
<1>16. \A t \in Task : ~IsIn(k, t, Delayed) /\ ~IsIn(k, t, OverflowDelayed)
                       /\ ~IsIn(k, t, Suspended) /\ ~IsIn(k, t, Terminated)
  BY <1>6, EmptyHoldsNone DEF IsIn
<1> HIDE DEF lists, orders, first
<1>17. /\ \A e \in EventLists : k.event[e] = <<>>
       /\ \A l \in StateLists : k.index[l] = 0
       /\ \A t \in Task : k.prio[t] = StartPriority(t)
  BY <1>2
<1> QED  BY <1>2, <1>5, <1>6, <1>10, <1>14, <1>15, <1>16, <1>17 DEF first

\* The kernel's part of the invariant when the scheduler starts.
LEMMA StartKernel ==
    ASSUME Init
    PROVE  KernelInv(k, allocated)
<1>1. app \in DOMAIN Applications /\ allocated = Started
  BY DEF Init
<1>2. \A l \in StateLists : Distinct(k.list[l]) /\ k.index[l] <= Len(k.list[l])
  <2> TAKE l \in StateLists
  <2>1. k.list[l] \in Seq(Task) /\ k.index[l] = 0
    BY StartLists, FieldTypes
  <2>2. 0 <= Len(k.list[l])
    BY <2>1, LenProperties
  <2>3. CASE \E p \in Priority : l = Ready(p)
    BY <1>1, <2>3, StartLists, ReadyAtStartFacts
  <2>4. CASE l \in {Delayed, OverflowDelayed, Suspended, Terminated}
    BY <2>4, StartLists, EmptyHoldsNone
  <2>5. Distinct(k.list[l])
    BY <2>3, <2>4, ListNames
  <2> QED  BY <2>1, <2>2, <2>5
<1>3. \A t \in Task, l \in StateLists :
          IsIn(k, t, l) <=> \E p \in Priority : l = Ready(p) /\ ReadyAtStart(p, t)
  <2> TAKE t \in Task, l \in StateLists
  <2>1. CASE \E p \in Priority : l = Ready(p)
    BY <2>1, StartLists, ListNames
  <2>2. CASE l \in {Delayed, OverflowDelayed, Suspended, Terminated}
    BY <2>2, StartLists, ListNames
  <2> QED  BY <2>1, <2>2, ListNames
<1>4. \A t \in Task : \A l, m \in StateLists : IsIn(k, t, l) /\ IsIn(k, t, m) => l = m
  BY <1>1, <1>3, ReadyAtStartFacts
<1>5. \A l \in {Delayed, OverflowDelayed} : k.index[l] = 0 /\ InOrder(k.list[l], k.wake)
  <2> TAKE l \in {Delayed, OverflowDelayed}
  <2>1. k.index[l] = 0 /\ k.list[l] = <<>>
    BY StartLists, ListNames
  <2>2. Len(<<>>) = 0 /\ 1 .. 0 = {}
    OBVIOUS
  <2> QED  BY <2>1, <2>2 DEF InOrder
<1>6. \A e \in EventLists : Distinct(k.event[e]) /\ \A t : ~Occurs(k.event[e], t)
  BY StartLists, EmptyHoldsNone
<1>7. Linked(k)
  BY <1>2, <1>4, <1>5, <1>6 DEF Linked
<1>8. Listed(k)
  <2>1. \A t \in Task : t \in Started <=> \E p \in Priority : ReadyAtStart(p, t)
    BY DEF Started
  <2> QED  BY <1>3, <2>1, StartLists, ListNames DEF Listed
<1>9. ByPriority(k)
  BY <1>1, StartLists, StartPriorityFacts DEF ByPriority
<1>10. Covered(k)
  BY <1>1, StartLists, HighestStartFacts DEF Covered
<1>11. Sound(k)
  BY <1>7, <1>8, <1>9, <1>10, StartLists DEF Sound
<1>12. UnblockEarly(k) /\ DueLater(k) /\ ~Ticking(k)
  BY StartLists DEF UnblockEarly, DueLater, DueAfterWrap, Ticking
<1>13. Idle \in Task /\ k.prio[Idle] = 0 /\ IsReady(k, Idle)
  BY <1>1, TasksAssumption, TickFacts, StartLists, StartPriorityFacts, ReadyAtStartFacts DEF IsReady
<1>14. k.current \in k.live
  <2> DEFINE t == Last(App.ready[HighestStart])
  <2>1. t \in Task /\ HighestStart \in Priority /\ ReadyAtStart(HighestStart, t)
    BY <1>1, HighestStartFacts
  <2> HIDE DEF t
  <2>2. t \in Started
    BY <1>1, <2>1, StartPriorityFacts
  <2> QED  BY <2>2, StartLists DEF t
<1>15. \A e \in WaitLists, t \in Task : ~Occurs(k.event[e], t)
  BY <1>6, ListNames
<1> QED  BY <1>1, <1>11, <1>12, <1>13, <1>14, <1>15, StartLists DEF KernelInv

\* The variables have their types when the scheduler starts.
LEMMA StartTyped ==
    ASSUME Init
    PROVE  TypeOK
<1>1. /\ app \in DOMAIN Applications /\ allocated = Started
      /\ todo = [t \in Task |-> <<>>] /\ value = [t \in Task |-> 0]
      /\ previous = [t \in Task |-> 0] /\ k.yield = FALSE
  BY DEF Init
<1>2. k \in KernelState
  BY StartLists
<1>3. <<>> \in Seq(Work)
  BY EmptyHoldsNone
<1>4. 0 \in NotifyValues /\ 0 \in Tick
  BY TickFacts, TasksAssumption DEF NotifyValues
<1>5. Started \subseteq Task
  BY DEF Started
<1> QED  BY <1>1, <1>2, <1>3, <1>4, <1>5 DEF TypeOK

=============================================================================
