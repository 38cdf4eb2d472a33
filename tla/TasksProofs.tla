---------------------------- MODULE TasksProofs ----------------------------
(***************************************************************************)
(* The task API of Tasks.tla is correct for every application: any number  *)
(* of tasks and priorities, any tick count width, any API calls in any     *)
(* order, interrupts wherever they are enabled.                            *)
(***************************************************************************)
EXTENDS KernelProofs

-----------------------------------------------------------------------------
(* The inductive invariant. *)

\* The work items a task may have: s[i] is the i-th.
SleepOps == {"delay", "delayUntil", "wait"}
CheckOps == {"take", "await"}
EndOps == {"takeEnd", "awaitEnd"}

\* The operations made while the scheduler is suspended.
SuspendedOps == SleepOps \cup CheckOps \cup {"catchUp"}

\* A call never has these but as its first item, these but as its last, and
\* xTaskResumeAll follows these.
FirstOps == SuspendedOps \cup {"unblockTime", "yieldTo", "idleYield"}
LastOps == EndOps \cup {"add", "allocTCB", "yieldTo", "idleYield"}
ResumedOps == SuspendedOps \cup {"free", "freeTCB"}

Shape(s) ==
    /\ \A i \in 1 .. Len(s) :
        /\ s[i].op \in FirstOps => i = 1
        /\ s[i].op \in LastOps => i = Len(s)
        /\ s[i].op \in ResumedOps => i < Len(s) /\ s[i + 1].op = "resumeAll"
        /\ s[i].op \in {"resumeAll", "yield", "unblockTime"} /\ i < Len(s)
               => s[i + 1].op # "resumeAll"
        /\ s[i].op \in SleepOps => 3 <= Len(s) /\ s[2].op = "resumeAll" /\ s[3].op = "yield"
        /\ s[i].op \in {"delay", "delayUntil"} => Len(s) = 3
        /\ s[i].op \in CheckOps => Len(s) = 3 /\ s[3].op \in EndOps
        /\ s[i].op \in SleepOps => s[i].n \in Tick /\ s[i].n > 0
        /\ s[i].op \in CheckOps => s[i].n \in Tick
        /\ s[i].op \in {"add", "allocTCB"} => s[i].n \in Priority

IdleShape(s) ==
    \A i \in 1 .. Len(s) : s[i].op \in {"free", "freeTCB", "resumeAll", "idleYield"}

\* The item names a control block that is allocated and not yet, or no longer, live.
Owns(s, i) == s[i].op \in {"add", "freeTCB"}

\* The parts of the invariant are stated of a kernel record kk and of the work
\* items td of the tasks, as a step may change the record more than once.
WorkInv(td, live, handed) ==
    /\ \A t \in Task : Shape(td[t])
    /\ IdleShape(td[Idle])
    /\ \A t \in Task : t \notin live => td[t] = <<>>
    /\ \A t \in Task : \A i \in 1 .. Len(td[t]) :
           Owns(td[t], i) => td[t][i].task \in handed \ live
    /\ \A t, u \in Task : \A i \in 1 .. Len(td[t]), j \in 1 .. Len(td[u]) :
           Owns(td[t], i) /\ Owns(td[u], j) /\ td[t][i].task = td[u][j].task
               => t = u /\ i = j

\* The scheduler is suspended exactly when what the running task does next
\* says so; an application may leave it suspended between two calls.
AtRest(s) == OpOf(s) \notin SuspendedOps \cup {"resumeAll"}

SuspendInv(kk, td) ==
    /\ \A t \in Task : t # kk.current => AtRest(td[t])
    /\ kk.cpu = "task" =>
           /\ OpOf(td[kk.current]) \in SuspendedOps => kk.susp = 1
           /\ OpOf(td[kk.current]) = "resumeAll"
                  => kk.susp > 0 /\ (Len(td[kk.current]) > 1 => kk.susp = 1)
           /\ OpOf(td[kk.current]) \notin SuspendedOps \cup {"resumeAll", "none"}
                  => kk.susp = 0
           /\ kk.current = Idle /\ AtRest(td[Idle]) => kk.susp = 0
           /\ kk.current = Idle /\ ~AtRest(td[Idle]) => kk.susp = 1
    /\ kk.cpu # "task" => kk.susp = 0
    /\ kk.cpu \notin {"task", "tick"} => OpOf(td[kk.current]) = "resumeAll"
    /\ kk.cpu = "tick" => AtRest(td[kk.current])
    /\ kk.cpu = "replayTick" => kk.pended > 0

\* The running task is ready, or on its way to a yield.
YieldsNext(s) ==
    /\ s # <<>>
    /\ \/ s[1].op = "yield"
       \/ s[1].op \in {"resumeAll", "unblockTime"} /\ Len(s) > 1 /\ s[2].op = "yield"

RunningInv(kk, td) ==
    kk.cpu # "tick" => IsReady(kk, kk.current) \/ YieldsNext(td[kk.current])

\* The tasks that interrupts readied while the scheduler was suspended.
Parked(kk, t) == Occurs(kk.event[PendingReady], t)

ParkedInv(kk) ==
    /\ kk.susp = 0 /\ kk.cpu \notin {"drain", "drainMore"} => \A t \in Task : ~Parked(kk, t)
    /\ \A t \in Task : Parked(kk, t) =>
           t \in kk.live /\ (kk.notify[t] = "received" \/ IsIn(kk, t, Suspended))

\* The tasks that wait for a notification; they may be suspended only if the
\* application calls vTaskSuspend.
EndsWait(s) == s # <<>> /\ s[Len(s)].op \in EndOps

Waiting(kk, td, t) == EndsWait(td[t]) /\ OpOf(td[t]) \notin CheckOps /\ ~Parked(kk, t)

Awake(kk, may, t) ==
    IsReady(kk, t) \/ Parked(kk, t) \/ (may /\ IsIn(kk, t, Suspended))

Notified(kk, td, may) ==
    /\ \A t \in kk.live : kk.notify[t] = "waiting" => Waiting(kk, td, t)
    /\ \A t \in kk.live : EndsWait(td[t]) /\ kk.notify[t] # "waiting" => Awake(kk, may, t)

NotifyInv(kk, td, may) ==
    /\ Notified(kk, td, may)
    /\ OpOf(td[kk.current]) \in CheckOps => ~Parked(kk, kk.current)
    /\ OpOf(td[kk.current]) = "wait" =>
           /\ EndsWait(td[kk.current])
           /\ kk.notify[kk.current] = "waiting" \/ Parked(kk, kk.current)

\* No ready task has a higher priority than the running one, unless a yield
\* is pending or it is a new task that its creator is about to yield to.
HighestInv(kk, td) ==
    kk.cpu # "tick" /\ ~kk.yield =>
        \A u \in Task :
            IsReady(kk, u) /\ kk.prio[u] > kk.prio[kk.current]
                => OpOf(td[kk.current]) = "yieldTo" /\ td[kk.current][1].task = u

RestInv(kk, td, may) ==
    /\ SuspendInv(kk, td)
    /\ RunningInv(kk, td)
    /\ ParkedInv(kk)
    /\ NotifyInv(kk, td, may)
    /\ HighestInv(kk, td)

IInv ==
    /\ TypeOK
    /\ KernelInv(k, allocated)
    /\ WorkInv(todo, k.live, allocated)
    /\ RestInv(k, todo, MaySuspend)

-----------------------------------------------------------------------------
(* Work items and sequences of them. *)

USE DEF SleepOps, CheckOps, EndOps, SuspendedOps, FirstOps, LastOps, ResumedOps

\* What is left of a call after its first item is a call.
LEMMA ShapeOfRest ==
    ASSUME NEW s \in Seq(Work), s # <<>>, Shape(s)
    PROVE  Shape(Tail(s))
<1> DEFINE r == Tail(s)
<1>1. /\ r \in Seq(Work) /\ Len(r) = Len(s) - 1 /\ Len(s) \in Nat
      /\ \A j \in 1 .. Len(s) - 1 : r[j] = s[j + 1]
  BY RestOf
<1> HIDE DEF r
<1>2. ASSUME NEW i \in 1 .. Len(r)
      PROVE  /\ r[i] = s[i + 1] /\ i + 1 \in 1 .. Len(s) /\ i + 1 # 1
             /\ i < Len(r) => r[i + 1] = s[(i + 1) + 1]
             /\ i < Len(r) <=> i + 1 < Len(s)
             /\ i = Len(r) <=> i + 1 = Len(s)
    BY <1>1
<1>3. ASSUME NEW i \in 1 .. Len(r)
      PROVE  /\ r[i].op \notin FirstOps
             /\ r[i].op \in LastOps => i = Len(r)
             /\ r[i].op \in ResumedOps => i < Len(r) /\ r[i + 1].op = "resumeAll"
             /\ r[i].op \in {"resumeAll", "yield", "unblockTime"} /\ i < Len(r)
                    => r[i + 1].op # "resumeAll"
             /\ r[i].op \in {"add", "allocTCB"} => r[i].n \in Priority
  <2>1. /\ s[i + 1].op \in FirstOps => i + 1 = 1
        /\ s[i + 1].op \in LastOps => i + 1 = Len(s)
        /\ s[i + 1].op \in ResumedOps => i + 1 < Len(s) /\ s[(i + 1) + 1].op = "resumeAll"
        /\ s[i + 1].op \in {"resumeAll", "yield", "unblockTime"} /\ i + 1 < Len(s)
                => s[(i + 1) + 1].op # "resumeAll"
        /\ s[i + 1].op \in {"add", "allocTCB"} => s[i + 1].n \in Priority
    BY <1>2 DEF Shape
  <2> QED  BY <1>2, <2>1
<1>4. Shape(r)
  BY <1>3 DEF Shape
<1> QED  BY <1>4 DEF r

\* The calls of one to four items that the API makes.
LEMMA ShapeOfOne ==
    ASSUME NEW a \in Work, a.op \notin ResumedOps,
           a.op \in {"add", "allocTCB"} => a.n \in Priority
    PROVE  <<a>> \in Seq(Work) /\ Shape(<<a>>)
<1> DEFINE s == <<a>>
<1>1. s \in Seq(Work) /\ Len(s) = 1 /\ s[1] = a
  OBVIOUS
<1> HIDE DEF s
<1>2. \A i \in 1 .. Len(s) : i = 1
  BY <1>1
<1>3. Shape(s)
  BY <1>1, <1>2 DEF Shape
<1> QED  BY <1>1, <1>3 DEF s

\* The calls of two items that the API makes.
LEMMA ShapeOfTwo ==
    ASSUME NEW a \in Work, NEW b \in Work,
           a.op \in {"resumeAll", "unblockTime", "catchUp"},
           b.op \in {"resumeAll", "yield", "add", "allocTCB"},
           a.op = "catchUp" <=> b.op = "resumeAll",
           b.op \in {"add", "allocTCB"} => b.n \in Priority
    PROVE  <<a, b>> \in Seq(Work) /\ Len(<<a, b>>) = 2 /\ Shape(<<a, b>>)
<1> DEFINE s == <<a, b>>
<1>1. s \in Seq(Work) /\ Len(s) = 2 /\ s[1] = a /\ s[2] = b
  OBVIOUS
<1> HIDE DEF s
<1>2. \A i \in 1 .. Len(s) : i = 1 \/ i = 2
  BY <1>1
<1>3. Shape(s)
  BY <1>1, <1>2 DEF Shape
<1> QED  BY <1>1, <1>3 DEF s

\* A sleep, a wait, a test for a notification, or a block that is freed.
LEMMA ShapeOfThree ==
    ASSUME NEW a \in Work, NEW b \in Work, NEW c \in Work,
           \/ a.op \in SleepOps /\ a.n > 0 /\ b.op = "resumeAll" /\ c.op = "yield"
           \/ a.op \in CheckOps /\ b.op = "resumeAll" /\ c.op \in EndOps
           \/ a.op = "resumeAll" /\ b.op = "free" /\ c.op = "resumeAll",
           a.op \in SleepOps \cup CheckOps => a.n \in Tick
    PROVE  <<a, b, c>> \in Seq(Work) /\ Len(<<a, b, c>>) = 3 /\ Shape(<<a, b, c>>)
<1> DEFINE s == <<a, b, c>>
<1>1. s \in Seq(Work) /\ Len(s) = 3 /\ s[1] = a /\ s[2] = b /\ s[3] = c
  OBVIOUS
<1> HIDE DEF s
<1>2. \A i \in 1 .. Len(s) : i = 1 \/ i = 2 \/ i = 3
  BY <1>1
<1>3. Shape(s)
  BY <1>1, <1>2 DEF Shape
<1> QED  BY <1>1, <1>3 DEF s

\* A wait for a notification that goes on, and the deletion of a task.
LEMMA ShapeOfFour ==
    ASSUME NEW a \in Work, NEW b \in Work, NEW c \in Work, NEW d \in Work,
           \/ /\ a.op = "wait" /\ b.op = "resumeAll" /\ c.op = "yield" /\ d.op \in EndOps
              /\ a.n \in Tick /\ a.n > 0
           \/ a.op = "free" /\ b.op = "resumeAll" /\ c.op = "freeTCB" /\ d.op = "resumeAll"
    PROVE  <<a, b, c, d>> \in Seq(Work) /\ Len(<<a, b, c, d>>) = 4 /\ Shape(<<a, b, c, d>>)
<1> DEFINE s == <<a, b, c, d>>
<1>1. /\ s \in Seq(Work) /\ Len(s) = 4
      /\ s[1] = a /\ s[2] = b /\ s[3] = c /\ s[4] = d
  OBVIOUS
<1> HIDE DEF s
<1>2. \A i \in 1 .. Len(s) : i = 1 \/ i = 2 \/ i = 3 \/ i = 4
  BY <1>1
<1>3. Shape(s)
  BY <1>1, <1>2 DEF Shape
<1> QED  BY <1>1, <1>3 DEF s

\* Task t goes on with the work items s; other tasks may have died.  A control
\* block it owns is not live, and nobody else's.
WorkStep(td, te, t, s, live, handed) ==
    /\ te[t] = s /\ t \in live /\ Shape(s) /\ (t = Idle => IdleShape(s))
    /\ \A u \in Task \ {t} : te[u] = td[u] \/ te[u] = <<>>
    /\ \A u \in Task \ {t} : u \notin live => te[u] = <<>>
    /\ \A u \in Task \ {t} : \A i \in 1 .. Len(te[u]) :
           Owns(te[u], i) => te[u][i].task \in handed \ live
    /\ \A i \in 1 .. Len(s) : Owns(s, i) =>
           /\ s[i].task \in handed \ live
           /\ \A u \in Task \ {t} : \A j \in 1 .. Len(te[u]) :
                  Owns(te[u], j) => te[u][j].task # s[i].task
           /\ \A j \in 1 .. Len(s) : Owns(s, j) /\ s[j].task = s[i].task => i = j

\* A step that changes the work of one task keeps the work in shape.
LEMMA WorkChanges ==
    ASSUME NEW td, NEW live, NEW handed, WorkInv(td, live, handed),
           NEW t \in Task, NEW s, NEW te, NEW live2, NEW handed2,
           WorkStep(td, te, t, s, live2, handed2)
    PROVE  WorkInv(te, live2, handed2)
<1>0. Idle \in Task
  BY TasksAssumption
<1>3. Len(<<>>) = 0 /\ \A i \in 1 .. 0 : FALSE
  OBVIOUS
<1>4. \A i \in 1 .. Len(<<>>) : FALSE
  BY <1>3
<1>5. Shape(<<>>) /\ IdleShape(<<>>)
  BY <1>4 DEF Shape, IdleShape
<1>6. \A u \in Task : Shape(te[u])
  BY <1>5 DEF WorkInv, WorkStep
<1>7. IdleShape(te[Idle])
  BY <1>0, <1>5 DEF WorkInv, WorkStep
<1>8. \A u \in Task : u \notin live2 => te[u] = <<>>
  BY DEF WorkStep
<1>9. \A u \in Task : \A i \in 1 .. Len(te[u]) : Owns(te[u], i) => te[u][i].task \in handed2 \ live2
  BY DEF WorkStep
<1>10. ASSUME NEW u \in Task, NEW v \in Task, NEW i \in 1 .. Len(te[u]), NEW j \in 1 .. Len(te[v]),
              Owns(te[u], i), Owns(te[v], j), te[u][i].task = te[v][j].task
       PROVE  u = v /\ i = j
  <2>2. CASE u = t /\ v = t
    BY <2>2, <1>10 DEF WorkStep
  <2>3. CASE u = t /\ v # t
    BY <2>3, <1>10 DEF WorkStep
  <2>4. CASE u # t /\ v = t
    <3>2. te[u][i].task # te[t][j].task
      BY <2>4, <1>10 DEF WorkStep
    <3> QED  BY <2>4, <3>2, <1>10
  <2>5. CASE u # t /\ v # t
    <3>1. te[u] = td[u] /\ te[v] = td[v]
      BY <2>5, <1>4, <1>10 DEF WorkStep
    <3> QED  BY <3>1, <1>10 DEF WorkInv
  <2> QED  BY <2>2, <2>3, <2>4, <2>5
<1> QED  BY <1>6, <1>7, <1>8, <1>9, <1>10 DEF WorkInv

\* The running task is through with its first item.
LEMMA WorkDone ==
    ASSUME NEW td \in [Task -> Seq(Work)], NEW live, NEW handed, WorkInv(td, live, handed),
           NEW t \in Task, td[t] # <<>>,
           NEW handed2,
           \/ handed2 = handed
           \/ td[t][1].op = "freeTCB" /\ handed2 = handed \ {td[t][1].task}
    PROVE  /\ [td EXCEPT ![t] = Tail(td[t])] \in [Task -> Seq(Work)]
           /\ WorkInv([td EXCEPT ![t] = Tail(td[t])], live, handed2)
<1> DEFINE te == [td EXCEPT ![t] = Tail(td[t])]
<1> DEFINE s == td[t]
<1> DEFINE r == Tail(s)
<1>1. /\ s \in Seq(Work) /\ r \in Seq(Work) /\ Len(r) = Len(s) - 1
      /\ Len(s) \in Nat /\ Len(s) >= 1
      /\ \A j \in 1 .. Len(s) - 1 : r[j] = s[j + 1]
  BY RestOf
<1>2. Shape(r)
  BY ShapeOfRest DEF WorkInv
<1>3. s = td[t] /\ te[t] = r /\ \A u \in Task \ {t} : te[u] = td[u]
  OBVIOUS
<1> HIDE DEF s, r, te
<1>4. \A i \in 1 .. Len(r) : i + 1 \in 1 .. Len(td[t]) /\ i + 1 # 1 /\ r[i] = td[t][i + 1]
  BY <1>1, <1>3
<1>5. 1 \in 1 .. Len(s)
  BY <1>1
<1>6. t = Idle => IdleShape(r)
  <2>1. IdleShape(td[Idle])
    BY DEF WorkInv
  <2> QED  BY <2>1, <1>4 DEF IdleShape
<1>7. t \in live
  BY <1>3 DEF WorkInv
<1>8. ASSUME NEW u \in Task, NEW i \in 1 .. Len(td[u]), Owns(td[u], i), u = t => i # 1
      PROVE  td[u][i].task \in handed2 \ live
  <2>1. td[u][i].task \in handed \ live
    BY <1>8 DEF WorkInv
  <2>2. CASE td[t][1].op = "freeTCB"
    <3>1. Owns(td[t], 1)
      BY <2>2 DEF Owns
    <3>2. td[u][i].task # td[t][1].task
      BY <1>3, <1>5, <1>8, <3>1 DEF WorkInv
    <3> QED  BY <2>1, <3>2
  <2> QED  BY <2>1, <2>2
<1>9. ASSUME NEW i \in 1 .. Len(r), Owns(r, i)
      PROVE  /\ r[i].task \in handed2 \ live
             /\ \A u \in Task \ {t} : \A j \in 1 .. Len(te[u]) :
                    Owns(te[u], j) => te[u][j].task # r[i].task
             /\ \A j \in 1 .. Len(r) : Owns(r, j) /\ r[j].task = r[i].task => i = j
  <2> DEFINE m == i + 1
  <2>1. m \in 1 .. Len(td[t]) /\ m # 1 /\ r[i] = td[t][m] /\ Owns(td[t], m)
    BY <1>4, <1>9 DEF Owns
  <2> HIDE DEF m
  <2>2. r[i].task \in handed2 \ live
    BY <1>8, <2>1
  <2>3. ASSUME NEW u \in Task \ {t}, NEW j \in 1 .. Len(te[u]), Owns(te[u], j)
        PROVE  te[u][j].task # r[i].task
    BY <1>3, <2>1, <2>3 DEF WorkInv
  <2>4. ASSUME NEW j \in 1 .. Len(r), Owns(r, j), r[j].task = r[i].task
        PROVE  i = j
    <3> DEFINE n == j + 1
    <3>1. n \in 1 .. Len(td[t]) /\ r[j] = td[t][n] /\ Owns(td[t], n)
      BY <1>4, <2>4 DEF Owns
    <3> HIDE DEF n
    <3>2. m = n
      BY <2>1, <2>4, <3>1 DEF WorkInv
    <3> QED  BY <1>1, <3>2 DEF m, n
  <2> QED  BY <2>2, <2>3, <2>4
<1>10. \A u \in Task \ {t} : \A i \in 1 .. Len(te[u]) :
           Owns(te[u], i) => te[u][i].task \in handed2 \ live
  BY <1>3, <1>8
<1>11. \A u \in Task \ {t} : u \notin live => te[u] = <<>>
  BY <1>3 DEF WorkInv
<1>12. WorkStep(td, te, t, r, live, handed2)
  BY <1>2, <1>3, <1>6, <1>7, <1>9, <1>10, <1>11 DEF WorkStep
<1>13. WorkInv(te, live, handed2)
  BY <1>12, WorkChanges
<1>14. te \in [Task -> Seq(Work)]
  BY <1>1, <1>3 DEF s, r, te
<1> QED  BY <1>13, <1>14 DEF te

\* A live task begins a call, or goes on with one, and owns no control block.
LEMMA WorkBegins ==
    ASSUME NEW td \in [Task -> Seq(Work)], NEW live, NEW handed, WorkInv(td, live, handed),
           NEW t \in Task, t \in live, NEW s \in Seq(Work), Shape(s),
           \A i \in 1 .. Len(s) : ~Owns(s, i), t = Idle => IdleShape(s),
           NEW te, te = [td EXCEPT ![t] = s]
    PROVE  te \in [Task -> Seq(Work)] /\ WorkInv(te, live, handed)
<1>1. te \in [Task -> Seq(Work)] /\ te[t] = s /\ \A u \in Task \ {t} : te[u] = td[u]
  OBVIOUS
<1>2. \A u \in Task \ {t} : \A i \in 1 .. Len(te[u]) :
          Owns(te[u], i) => te[u][i].task \in handed \ live
  BY <1>1 DEF WorkInv
<1>3. \A u \in Task \ {t} : u \notin live => te[u] = <<>>
  BY <1>1 DEF WorkInv
<1>4. WorkStep(td, te, t, s, live, handed)
  BY <1>1, <1>2, <1>3 DEF WorkStep
<1> QED  BY <1>1, <1>4, WorkChanges

\* prvCreateTask is given the control block u.
LEMMA WorkAllocates ==
    ASSUME NEW td \in [Task -> Seq(Work)], NEW live, NEW handed, WorkInv(td, live, handed),
           live \subseteq handed, NEW t \in live, t \in Task, t # Idle, td[t] # <<>>,
           td[t][1].op = "allocTCB",
           NEW u \in Task, u \notin handed, NEW n \in Priority
    PROVE  LET te == [td EXCEPT ![u] = <<>>,
                                ![t] = <<Do("resumeAll"), [DoFor("add", n) EXCEPT !.task = u]>>]
           IN  te \in [Task -> Seq(Work)] /\ WorkInv(te, live, handed \cup {u})
<1> DEFINE te == [td EXCEPT ![u] = <<>>,
                            ![t] = <<Do("resumeAll"), [DoFor("add", n) EXCEPT !.task = u]>>]
<1> DEFINE a == Do("resumeAll")
<1> DEFINE b == [DoFor("add", n) EXCEPT !.task = u]
<1> DEFINE s == <<a, b>>
<1>0. "resumeAll" \in Ops /\ "add" \in Ops /\ n \in Nat
  BY TickFacts DEF Ops
<1>1. /\ a \in Work /\ b \in Work /\ a.op = "resumeAll"
      /\ b.op = "add" /\ b.task = u /\ b.n = n
  BY <1>0, ItemFacts
<1>2. te = [td EXCEPT ![u] = <<>>, ![t] = s]
  OBVIOUS
<1> HIDE DEF a, b
<1>3. s \in Seq(Work) /\ Len(s) = 2 /\ Shape(s)
  BY <1>1, ShapeOfTwo
<1>4. s[1] = a /\ s[2] = b
  OBVIOUS
<1> HIDE DEF s
<1>5. t # u
  OBVIOUS
<1>6. te[t] = s /\ te[u] = <<>> /\ \A v \in Task \ {t, u} : te[v] = td[v]
  BY <1>2, <1>5
<1>11. te \in [Task -> Seq(Work)]
  BY <1>2, <1>3, EmptyHoldsNone
<1> HIDE DEF te
<1>12. td[u] = <<>> /\ \A v \in Task \ {t} : te[v] = td[v]
  BY <1>6 DEF WorkInv
<1>7. \A i \in 1 .. Len(s) : Owns(s, i) => i = 2
  BY <1>1, <1>3, <1>4 DEF Owns
<1>8. \A v \in Task : \A i \in 1 .. Len(td[v]) : Owns(td[v], i) => td[v][i].task \in handed \ live
  BY DEF WorkInv
<1>9. \A i \in 1 .. Len(s) : Owns(s, i) =>
          /\ s[i].task \in (handed \cup {u}) \ live
          /\ \A v \in Task \ {t} : \A j \in 1 .. Len(te[v]) :
                 Owns(te[v], j) => te[v][j].task # s[i].task
          /\ \A j \in 1 .. Len(s) : Owns(s, j) /\ s[j].task = s[i].task => i = j
  <2>1. s[2].task = u /\ u \in (handed \cup {u}) \ live
    BY <1>1, <1>4
  <2>2. \A v \in Task \ {t} : \A j \in 1 .. Len(te[v]) : Owns(te[v], j) => te[v][j].task # u
    <3>1. SUFFICES ASSUME NEW v \in Task \ {t}, NEW j \in 1 .. Len(td[v]), Owns(td[v], j)
                   PROVE  td[v][j].task # u
      BY <1>12
    <3>2. td[v][j].task \in handed
      BY <1>8, <3>1
    <3> QED  BY <3>2
  <2>3. \A i, j \in 1 .. Len(s) : Owns(s, i) /\ Owns(s, j) => i = 2 /\ j = 2
    BY <1>7
  <2> QED  BY <2>1, <2>2, <2>3
<1>10. \A v \in Task \ {t} : \A i \in 1 .. Len(te[v]) :
           Owns(te[v], i) => te[v][i].task \in (handed \cup {u}) \ live
  BY <1>8, <1>12
<1>13. \A v \in Task \ {t} : v \notin live => te[v] = <<>>
  BY <1>12 DEF WorkInv
<1>14. WorkStep(td, te, t, s, live, handed \cup {u})
  BY <1>3, <1>6, <1>9, <1>10, <1>12, <1>13 DEF WorkStep
<1> QED  BY <1>11, <1>14, WorkChanges DEF te

\* The new task is live, and its creator is about to yield to it.
LEMMA WorkAdds ==
    ASSUME NEW td \in [Task -> Seq(Work)], NEW live, NEW handed, WorkInv(td, live, handed),
           NEW t \in Task, t # Idle, td[t] # <<>>, td[t][1].op = "add",
           NEW te, te = [td EXCEPT ![t] = <<[Do("yieldTo") EXCEPT !.task = td[t][1].task]>>]
    PROVE  te \in [Task -> Seq(Work)] /\ WorkInv(te, live \cup {td[t][1].task}, handed)
<1> DEFINE u == td[t][1].task
<1> DEFINE a == [Do("yieldTo") EXCEPT !.task = u]
<1> DEFINE s == <<a>>
<1>0. Len(td[t]) \in Nat /\ Len(td[t]) >= 1 /\ td[t][1] \in Work
  BY RestOf
<1>1. a \in Work /\ a.op = "yieldTo"
  BY <1>0, ItemFacts DEF Ops, Work
<1>2. te[t] = s /\ \A v \in Task \ {t} : te[v] = td[v]
  OBVIOUS
<1> HIDE DEF a
<1>3. s \in Seq(Work) /\ Shape(s)
  BY <1>1, ShapeOfOne
<1>4. Len(s) = 1 /\ s[1] = a
  OBVIOUS
<1> HIDE DEF s
<1>5. \A i \in 1 .. Len(s) : ~Owns(s, i)
  BY <1>1, <1>4 DEF Owns
<1>6. Owns(td[t], 1) /\ 1 \in 1 .. Len(td[t])
  BY <1>0 DEF Owns
<1>7. \A v \in Task \ {t} : \A i \in 1 .. Len(te[v]) :
          Owns(te[v], i) => te[v][i].task \in handed \ (live \cup {u})
  BY <1>2, <1>6 DEF WorkInv
<1>8. t \in live \cup {u}
  BY DEF WorkInv
<1>9. \A v \in Task \ {t} : v \notin live \cup {u} => te[v] = <<>>
  BY <1>2 DEF WorkInv
<1>10. te \in [Task -> Seq(Work)]
  BY <1>2, <1>3
<1>11. WorkStep(td, te, t, s, live \cup {u}, handed)
  BY <1>2, <1>3, <1>5, <1>7, <1>8, <1>9 DEF WorkStep
<1>12. WorkInv(te, live \cup {u}, handed)
  BY <1>11, WorkChanges
<1> QED  BY <1>10, <1>12

\* Task u is dead, and t frees what it leaves.
LEMMA WorkDeletes ==
    ASSUME NEW td \in [Task -> Seq(Work)], NEW live, NEW handed, WorkInv(td, live, handed),
           live \subseteq handed, NEW t \in live, t \in Task, NEW u \in live, u \in Task, u # t,
           NEW te, te = [td EXCEPT ![u] = <<>>, ![t] = prvDeleteTCB(u)]
    PROVE  te \in [Task -> Seq(Work)] /\ WorkInv(te, live \ {u}, handed)
<1> DEFINE a == Do("free")
<1> DEFINE b == Do("resumeAll")
<1> DEFINE c == [Do("freeTCB") EXCEPT !.task = u]
<1> DEFINE s == <<a, b, c, b>>
<1>1. /\ a \in Work /\ b \in Work /\ c \in Work
      /\ a.op = "free" /\ b.op = "resumeAll" /\ c.op = "freeTCB" /\ c.task = u
  BY ItemFacts DEF Ops
<1>2. te = [td EXCEPT ![u] = <<>>, ![t] = s]
  BY DEF prvDeleteTCB
<1> HIDE DEF a, b, c
<1>3. s \in Seq(Work) /\ Len(s) = 4 /\ Shape(s)
  BY <1>1, ShapeOfFour
<1>4. s[1] = a /\ s[2] = b /\ s[3] = c /\ s[4] = b
  OBVIOUS
<1> HIDE DEF s
<1>5. te[t] = s /\ te[u] = <<>> /\ \A v \in Task \ {t, u} : te[v] = td[v]
  BY <1>2
<1>6. \A i \in 1 .. Len(s) : i = 1 \/ i = 2 \/ i = 3 \/ i = 4
  BY <1>3
<1>7. IdleShape(s)
  BY <1>1, <1>4, <1>6 DEF IdleShape
<1>8. \A i \in 1 .. Len(s) : Owns(s, i) => i = 3
  BY <1>1, <1>4, <1>6 DEF Owns
<1>9. \A v \in Task : \A i \in 1 .. Len(td[v]) : Owns(td[v], i) => td[v][i].task \in handed \ live
  BY DEF WorkInv
<1>13. \A i \in 1 .. Len(<<>>) : FALSE
  OBVIOUS
<1>10. \A i \in 1 .. Len(s) : Owns(s, i) =>
           /\ s[i].task \in handed \ (live \ {u})
           /\ \A v \in Task \ {t} : \A j \in 1 .. Len(te[v]) :
                  Owns(te[v], j) => te[v][j].task # s[i].task
           /\ \A j \in 1 .. Len(s) : Owns(s, j) /\ s[j].task = s[i].task => i = j
  <2>1. s[3].task = u /\ u \in handed \ (live \ {u})
    BY <1>1, <1>4
  <2>2. ASSUME NEW v \in Task \ {t}, NEW j \in 1 .. Len(te[v]), Owns(te[v], j)
        PROVE  te[v][j].task # u
    <3>1. te[v] # <<>>
      BY <2>2, <1>13
    <3>2. te[v] = td[v]
      BY <1>5, <3>1
    <3>3. te[v][j].task \notin live
      BY <1>9, <2>2, <3>2
    <3> QED  BY <3>3
  <2>3. \A i, j \in 1 .. Len(s) : Owns(s, i) /\ Owns(s, j) => i = 3 /\ j = 3
    BY <1>8
  <2>4. ASSUME NEW i \in 1 .. Len(s), Owns(s, i)
        PROVE  /\ s[i].task \in handed \ (live \ {u})
               /\ \A v \in Task \ {t} : \A j \in 1 .. Len(te[v]) :
                      Owns(te[v], j) => te[v][j].task # s[i].task
               /\ \A j \in 1 .. Len(s) : Owns(s, j) /\ s[j].task = s[i].task => i = j
    <3>1. i = 3 /\ \A j \in 1 .. Len(s) : Owns(s, j) => i = j
      BY <2>3, <2>4
    <3>2. s[i].task = u
      BY <2>1, <3>1
    <3>3. s[i].task \in handed \ (live \ {u})
      BY <2>1, <3>2
    <3>4. \A v \in Task \ {t} : \A j \in 1 .. Len(te[v]) :
              Owns(te[v], j) => te[v][j].task # s[i].task
      BY <2>2, <3>2
    <3> QED  BY <3>1, <3>3, <3>4
  <2> QED  BY <2>4
<1>11. \A v \in Task \ {t} : \A i \in 1 .. Len(te[v]) :
           Owns(te[v], i) => te[v][i].task \in handed \ (live \ {u})
  BY <1>5, <1>9, <1>13
<1>12. te \in [Task -> Seq(Work)]
  <2>1. <<>> \in Seq(Work)
    BY EmptyHoldsNone
  <2> QED  BY <1>2, <1>3, <2>1
<1>14. \A v \in Task \ {t} : v \notin live \ {u} => te[v] = <<>>
  BY <1>5 DEF WorkInv
<1>15. \A v \in Task \ {t} : te[v] = td[v] \/ te[v] = <<>>
  BY <1>5
<1>16. t \in live \ {u}
  OBVIOUS
<1>17. WorkStep(td, te, t, s, live \ {u}, handed)
  BY <1>3, <1>5, <1>7, <1>10, <1>11, <1>14, <1>15, <1>16 DEF WorkStep
<1> QED  BY <1>12, <1>17, WorkChanges

\* What a task does after its first item.
LEMMA AfterFirst ==
    ASSUME NEW s \in Seq(Work), s # <<>>, Shape(s)
    PROVE  /\ OpOf(s) = s[1].op /\ Head(s) = s[1]
           /\ OpOf(Tail(s)) \notin FirstOps
           /\ s[1].op \in ResumedOps => OpOf(Tail(s)) = "resumeAll" /\ ~YieldsNext(s)
           /\ s[1].op \in {"resumeAll", "yield", "unblockTime"} => AtRest(Tail(s))
           /\ s[1].op \in LastOps => Tail(s) = <<>>
           /\ s[1].op \in SleepOps => YieldsNext(Tail(s)) /\ Len(Tail(s)) > 1
           /\ s[1].op \in {"resumeAll", "unblockTime"} /\ YieldsNext(s) => YieldsNext(Tail(s))
           /\ YieldsNext(s) => s[1].op \in {"resumeAll", "unblockTime", "yield"}
           /\ s[1].op \notin EndOps => (EndsWait(Tail(s)) <=> EndsWait(s))
           /\ s[1].op \in EndOps => EndsWait(s) /\ ~EndsWait(Tail(s))
           /\ s[1].op \in CheckOps => EndsWait(s) /\ Len(s) = 3
<1> DEFINE r == Tail(s)
<1>1. /\ r \in Seq(Work) /\ Len(r) = Len(s) - 1
      /\ \A j \in 1 .. Len(s) - 1 : r[j] = s[j + 1]
      /\ Head(s) = s[1] /\ Len(s) \in Nat /\ Len(s) >= 1
      /\ r = <<>> <=> Len(s) = 1
  BY RestOf
<1> HIDE DEF r
<1>2. r # <<>> => 2 \in 1 .. Len(s) /\ r[1] = s[2] /\ Len(s) > 1
  BY <1>1
<1>3. /\ 1 \in 1 .. Len(s)
      /\ r # <<>> => r[1].op \notin FirstOps
      /\ s[1].op \in ResumedOps => 1 < Len(s) /\ s[2].op = "resumeAll"
      /\ s[1].op \in {"resumeAll", "yield", "unblockTime"} /\ 1 < Len(s) => s[2].op # "resumeAll"
      /\ s[1].op \in LastOps => Len(s) = 1
      /\ s[1].op \in SleepOps => 3 <= Len(s) /\ s[2].op = "resumeAll" /\ s[3].op = "yield"
      /\ s[1].op \in CheckOps => Len(s) = 3 /\ s[3].op \in EndOps
  BY <1>1, <1>2 DEF Shape
<1>4. OpOf(s) = s[1].op /\ OpOf(r) = IF r = <<>> THEN "none" ELSE r[1].op
  BY DEF OpOf
<1>5. s[1].op \in SleepOps => r[2] = s[3] /\ Len(r) > 1
  BY <1>1, <1>3
<1>6. r # <<>> => r[Len(r)] = s[Len(s)]
  BY <1>1
<1>7. r = <<>> => (EndsWait(s) <=> s[1].op \in EndOps) /\ ~EndsWait(r)
  BY <1>1 DEF EndsWait
<1>8. r # <<>> => (EndsWait(r) <=> EndsWait(s)) /\ s[1].op \notin EndOps
  BY <1>1, <1>2, <1>3, <1>6 DEF EndsWait
<1>9. /\ s[1].op \in ResumedOps => OpOf(r) = "resumeAll"
      /\ s[1].op \in {"resumeAll", "yield", "unblockTime"} => AtRest(r)
      /\ OpOf(r) \notin FirstOps
  BY <1>1, <1>2, <1>3, <1>4 DEF AtRest
<1>10. /\ s[1].op \in SleepOps => YieldsNext(r)
       /\ s[1].op \in ResumedOps => ~YieldsNext(s)
       /\ YieldsNext(s) => s[1].op \in {"resumeAll", "unblockTime", "yield"}
       /\ s[1].op \in {"resumeAll", "unblockTime"} /\ YieldsNext(s) => YieldsNext(r)
  BY <1>1, <1>2, <1>3, <1>5 DEF YieldsNext
<1>11. s[1].op \in CheckOps => EndsWait(s)
  BY <1>1, <1>3 DEF EndsWait
<1> QED  BY <1>1, <1>3, <1>4, <1>5, <1>7, <1>8, <1>9, <1>10, <1>11 DEF r

-----------------------------------------------------------------------------
(* What the rest of the kernel sees of a record. *)

SeenAlike(kk, r) ==
    /\ \A u \in Task, m \in StateLists \ {Delayed, OverflowDelayed} :
           IsIn(r, u, m) <=> IsIn(kk, u, m)
    /\ r.event = kk.event /\ r.prio = kk.prio /\ r.base = kk.base /\ r.live = kk.live

\* Steps that leave the lists alone change nothing that is said of where a
\* task is.
LEMMA AlikeFacts ==
    ASSUME NEW kk \in KernelState, NEW r, SeenAlike(kk, r)
    PROVE  /\ \A t \in Task : IsReady(r, t) <=> IsReady(kk, t)
           /\ \A t \in Task : Parked(r, t) <=> Parked(kk, t)
           /\ \A t \in Task : IsIn(r, t, Suspended) <=> IsIn(kk, t, Suspended)
           /\ \A may : \A t \in Task : Awake(r, may, t) <=> Awake(kk, may, t)
           /\ \A td : \A t \in Task : Waiting(r, td, t) <=> Waiting(kk, td, t)
<1>1. \A t \in Task : kk.prio[t] \in Priority
  BY FieldTypes
<1>2. \A t \in Task : IsReady(r, t) <=> IsReady(kk, t)
  BY <1>1, ListNames DEF SeenAlike, IsReady
<1>3. \A t \in Task : IsIn(r, t, Suspended) <=> IsIn(kk, t, Suspended)
  BY ListNames DEF SeenAlike
<1>4. \A t \in Task : Parked(r, t) <=> Parked(kk, t)
  BY DEF SeenAlike, Parked
<1>5. \A may : \A t \in Task : Awake(r, may, t) <=> Awake(kk, may, t)
  BY <1>2, <1>3, <1>4 DEF Awake
<1>6. \A td : \A t \in Task : Waiting(r, td, t) <=> Waiting(kk, td, t)
  BY <1>4 DEF Waiting
<1> QED  BY <1>2, <1>3, <1>4, <1>5, <1>6

\* The lists are the same, and the clock but for xNextTaskUnblockTime.
LEMMA KernelSame ==
    ASSUME NEW kk, NEW handed, KernelInv(kk, handed), NEW r \in KernelState,
           SameLists(kk, r), r.prio = kk.prio, r.base = kk.base, r.live = kk.live,
           r.tick = kk.tick, r.top = kk.top, r.next = kk.next \/ UnblockEarly(r),
           r.current \in r.live,
           (Ticking(r) <=> Ticking(kk)) \/ (~Ticking(r) /\ DueLater(kk))
    PROVE  KernelInv(r, handed) /\ SeenAlike(kk, r)
<1>1. Sound(kk)
  BY DEF KernelInv
<1>2. Sound(r) /\ SamePlaces(kk, r)
  BY <1>1, SoundSame
<1>3. kk \in KernelState
  BY <1>1 DEF Sound
<1>4. SeenAlike(kk, r)
  BY <1>2 DEF SeenAlike, SamePlaces, SameLists
<1>5. \A u \in Task, m \in {Delayed, OverflowDelayed} :
          IsIn(r, u, m) => IsIn(kk, u, m) /\ r.wake[u] = kk.wake[u]
  BY <1>2, ListNames DEF SamePlaces, SameLists
<1>6. UnblockEarly(kk) /\ (r.next = kk.next => UnblockEarly(r))
  BY <1>5 DEF KernelInv, UnblockEarly
<1>7. (DueLater(kk) => DueLater(r)) /\ (DueNowOrLater(kk) => DueNowOrLater(r))
  BY <1>5 DEF DueLater, DueNowOrLater, DueAfterWrap
<1>8. IsReady(r, Idle) /\ r.prio[Idle] = 0
  BY <1>3, <1>4, AlikeFacts, TasksAssumption DEF KernelInv
<1>9. /\ Ticking(r) => DueNowOrLater(r)
      /\ ~Ticking(r) => DueLater(r)
  BY <1>7 DEF KernelInv
<1>10. /\ r.base = r.prio
       /\ r.live \subseteq handed
       /\ \A e \in WaitLists, t \in Task : ~Occurs(r.event[e], t)
  BY DEF KernelInv, SameLists
<1> QED  BY <1>2, <1>4, <1>6, <1>8, <1>9, <1>10 DEF KernelInv

\* vTaskSwitchContext, the scheduler running.
LEMMA KernelSwitched ==
    ASSUME NEW kk, NEW handed, KernelInv(kk, handed)
    PROVE  /\ Switched(kk, vTaskSwitchContext(kk))
           /\ KernelInv(vTaskSwitchContext(kk), handed)
           /\ SeenAlike(kk, vTaskSwitchContext(kk))
           /\ DueLater(kk) => DueLater(vTaskSwitchContext(kk))
<1> DEFINE r == vTaskSwitchContext(kk)
<1>1. Sound(kk) /\ Idle \in Task /\ IsReady(kk, Idle)
  BY TasksAssumption DEF KernelInv
<1>2. Switched(kk, r)
  BY <1>1, ContextSwitches
<1> HIDE DEF r
<1>3. r \in KernelState /\ Sound(r) /\ kk \in KernelState
  BY <1>1, <1>2 DEF Switched, Sound
<1>4. SeenAlike(kk, r)
  BY <1>2 DEF Switched, SamePlaces, SeenAlike, KeepsTasks
<1>5. \A u \in Task, m \in {Delayed, OverflowDelayed} :
          IsIn(r, u, m) => IsIn(kk, u, m) /\ r.wake[u] = kk.wake[u]
  BY <1>2, ListNames DEF SamePlaces, Switched
<1>6. r.tick = kk.tick /\ r.next = kk.next
  BY <1>2 DEF Switched, KeepsClock
<1>7. /\ UnblockEarly(kk) => UnblockEarly(r)
      /\ DueLater(kk) => DueLater(r)
      /\ DueNowOrLater(kk) => DueNowOrLater(r)
  BY <1>5, <1>6, SleepersKept
<1>8. IsReady(r, Idle) /\ r.prio[Idle] = 0
  BY <1>3, <1>4, AlikeFacts, TasksAssumption DEF KernelInv, SeenAlike
<1>9. Ticking(r) <=> Ticking(kk)
  BY <1>2 DEF Switched, Ticking
<1>10. r.current \in r.live
  <2>1. CASE kk.susp # 0
    BY <2>1, <1>2 DEF Switched, KeepsTasks, KernelInv
  <2>2. CASE kk.susp = 0
    <3>1. r.current \in Task /\ IsReady(r, r.current) /\ r.prio[r.current] \in Priority
      BY <2>2, <1>2, <1>3, FieldTypes DEF Switched
    <3> QED  BY <1>3, <3>1, ReadyMeansReady DEF IsReady
  <2> QED  BY <2>1, <2>2
<1>11. /\ Ticking(r) => DueNowOrLater(r)
       /\ ~Ticking(r) => DueLater(r)
  BY <1>7, <1>9 DEF KernelInv
<1>12. /\ r.base = r.prio /\ r.live \subseteq handed
       /\ \A e \in WaitLists, t \in Task : ~Occurs(r.event[e], t)
  BY <1>4 DEF KernelInv, SeenAlike
<1>13. KernelInv(r, handed)
  BY <1>3, <1>7, <1>8, <1>10, <1>11, <1>12 DEF KernelInv
<1> QED  BY <1>2, <1>4, <1>7, <1>13 DEF r

\* The other tasks are as ready, and as suspended, as they were.
Elsewhere(kk, r, t) ==
    \A u \in Task : u # t =>
        /\ IsReady(r, u) <=> IsReady(kk, u)
        /\ IsIn(r, u, Suspended) <=> IsIn(kk, u, Suspended)

\* A task that goes to another list is where it was put, and every other where
\* it was.
LEMMA GoesElsewhere ==
    ASSUME NEW kk \in KernelState, NEW r, NEW t \in Task, NEW l \in StateLists,
           Goes(kk, r, t, l), \A u \in Task : u # t => r.prio[u] = kk.prio[u]
    PROVE  /\ Elsewhere(kk, r, t)
           /\ IsIn(r, t, Suspended) <=> l = Suspended
           /\ r.prio[t] \in Priority => (IsReady(r, t) <=> l = Ready(r.prio[t]))
<1>1. \A u \in Task : kk.prio[u] \in Priority
  BY FieldTypes
<1>2. ASSUME NEW u \in Task, u # t
      PROVE  /\ IsReady(r, u) <=> IsReady(kk, u)
             /\ IsIn(r, u, Suspended) <=> IsIn(kk, u, Suspended)
  BY <1>1, <1>2, ListNames DEF Goes, IsReady
<1>3. IsIn(r, t, Suspended) <=> l = Suspended
  BY ListNames DEF Goes
<1>4. r.prio[t] \in Priority => (IsReady(r, t) <=> l = Ready(r.prio[t]))
  BY ListNames DEF Goes, IsReady
<1> QED  BY <1>2, <1>3, <1>4 DEF Elsewhere

\* A tick begins.
LEMMA KernelTicks ==
    ASSUME NEW kk, NEW handed, KernelInv(kk, handed), ~Ticking(kk),
           NEW c \in {"tick", "replayTick"}
    PROVE  LET r == [IncrementTick(kk) EXCEPT !.cpu = c]
           IN  /\ KernelInv(r, handed) /\ SeenAlike(kk, r)
               /\ r.notify = kk.notify /\ r.current = kk.current /\ r.susp = kk.susp
               /\ r.yield = kk.yield /\ r.cpu = c /\ r.pended = kk.pended
               /\ r.tick = Later(kk.tick, 1) /\ r.wake = kk.wake
               /\ SamePlacesButDelayed(kk, r)
<1> DEFINE a == IncrementTick(kk)
<1> DEFINE r == [a EXCEPT !.cpu = c]
<1>1. Sound(kk) /\ UnblockEarly(kk) /\ DueLater(kk)
  BY DEF KernelInv
<1>2. Ticked(kk, a) /\ Sound(a)
  BY <1>1, TickSound
<1> HIDE DEF a
<1>3. a \in KernelState
  BY <1>2 DEF Sound
<1>4. r \in KernelState /\ SameLists(a, r) /\ Keeps(a, [r EXCEPT !.cpu = a.cpu]) /\ r.cpu = c
      /\ r.next = a.next /\ r.top = a.top /\ r.yield = a.yield /\ KeepsTasks(a, r)
      /\ r.current = a.current /\ r.susp = a.susp /\ KeepsClock(a, r)
  BY <1>3 DEF KernelState, CpuModes, SameLists, Keeps, KeepsTasks, KeepsClock, KeepsProcessor
<1> HIDE DEF r
<1>5. Sound(r) /\ SamePlaces(a, r)
  BY <1>2, <1>4, SoundSame DEF KeepsTasks
<1>6. \A u \in Task, m \in {Delayed, OverflowDelayed} :
          IsIn(r, u, m) => IsIn(a, u, m) /\ r.wake[u] = a.wake[u]
  BY <1>4, <1>5, ListNames DEF SamePlaces, SameLists
<1>7. UnblockEarly(a) /\ DueNowOrLater(a)
  BY <1>1, <1>2 DEF Ticked
<1>8. UnblockEarly(r) /\ DueNowOrLater(r)
  BY <1>4, <1>6, <1>7, SleepersKept DEF KeepsClock
<1>9. /\ r.prio = kk.prio /\ r.base = kk.base /\ r.live = kk.live /\ r.event = kk.event
      /\ r.notify = kk.notify /\ r.current = kk.current /\ r.susp = kk.susp
      /\ r.yield = kk.yield /\ r.pended = kk.pended /\ r.tick = Later(kk.tick, 1)
      /\ r.wake = kk.wake
  BY <1>2, <1>4 DEF Ticked, KeepsTasks, KeepsProcessor, SameLists, KeepsClock
<1>10. SamePlacesButDelayed(kk, r)
  BY <1>2, <1>5, ListNames DEF Ticked, SamePlacesButDelayed, SamePlaces
<1>11. SeenAlike(kk, r)
  BY <1>9, <1>10 DEF SeenAlike, SamePlacesButDelayed
<1>12. kk \in KernelState
  BY <1>1 DEF Sound
<1>13. IsReady(r, Idle) /\ r.prio[Idle] = 0
  BY <1>9, <1>11, <1>12, AlikeFacts, TasksAssumption DEF KernelInv
<1>14. Ticking(r)
  BY <1>4 DEF Ticking
<1>15. KernelInv(r, handed)
  BY <1>5, <1>8, <1>9, <1>13, <1>14 DEF KernelInv
<1> QED  BY <1>4, <1>9, <1>10, <1>11, <1>15 DEF r, a

\* Its loop ends.
LEMMA KernelLoopEnds ==
    ASSUME NEW kk, NEW handed, KernelInv(kk, handed), Ticking(kk), TickIsOver(kk)
    PROVE  LET r == AfterTickLoop(kk)
           IN  /\ KernelInv(r, handed) /\ SeenAlike(kk, r) /\ DueLater(r)
               /\ Keeps(kk, r) /\ r.yield = kk.yield /\ SamePlaces(kk, r) /\ r.wake = kk.wake
<1> DEFINE r == AfterTickLoop(kk)
<1>1. Sound(kk) /\ UnblockEarly(kk) /\ DueNowOrLater(kk)
  BY DEF KernelInv
<1>2. LoopEnded(kk, r) /\ SamePlaces(kk, r)
  BY <1>1, LoopEndSound
<1> HIDE DEF r
<1>3. DueLater(r) /\ UnblockEarly(r) /\ r \in KernelState /\ SameLists(kk, r) /\ Keeps(kk, r)
      /\ r.top = kk.top /\ r.yield = kk.yield
  BY <1>1, <1>2 DEF LoopEnded, DueNowOrLater
<1>4. /\ r.prio = kk.prio /\ r.base = kk.base /\ r.live = kk.live /\ r.current = kk.current
      /\ r.tick = kk.tick
  BY <1>3 DEF Keeps, KeepsTasks, KeepsClock, KeepsProcessor, Ticking
<1>5. /\ r.prio = kk.prio /\ r.base = kk.base /\ r.live = kk.live /\ r.current \in r.live
      /\ r.tick = kk.tick /\ r.live \subseteq handed
  BY <1>4 DEF KernelInv
<1>6. Ticking(r) <=> Ticking(kk)
  BY <1>3 DEF Keeps, KeepsProcessor, Ticking
<1>7. KernelInv(r, handed) /\ SeenAlike(kk, r)
  BY <1>3, <1>5, <1>6, KernelSame
<1> QED  BY <1>2, <1>3, <1>7 DEF r, SameLists

\* Task t wakes: it goes to its ready list.
Woken(kk, r, t) ==
    /\ Keeps(kk, r) /\ r.yield = kk.yield
    /\ Goes(kk, r, t, Ready(kk.prio[t])) /\ \A u \in Task : u # t => r.wake[u] = kk.wake[u]
    /\ Elsewhere(kk, r, t) /\ IsReady(r, t) /\ ~IsIn(r, t, Suspended)

\* Making a task ready keeps the kernel's part of the invariant.
LEMMA KernelWakes ==
    ASSUME NEW kk, NEW handed, KernelInv(kk, handed), NEW t \in kk.live, NEW r,
           Sound(r), Keeps(kk, r), r.next = kk.next, r.yield = kk.yield,
           Goes(kk, r, t, Ready(kk.prio[t])), \A u \in Task : u # t => r.wake[u] = kk.wake[u],
           \A e \in EventLists, u \in Task : Occurs(r.event[e], u) => Occurs(kk.event[e], u)
    PROVE  KernelInv(r, handed) /\ Woken(kk, r, t)
<1>1. kk \in KernelState /\ Sound(kk)
  BY DEF KernelInv, Sound
<1>2. t \in Task /\ kk.prio[t] \in Priority /\ Ready(kk.prio[t]) \in StateLists \ {Delayed, OverflowDelayed}
  BY <1>1, FieldTypes, ListNames
<1>3. /\ r.prio = kk.prio /\ r.base = kk.base /\ r.live = kk.live /\ r.current = kk.current
      /\ r.tick = kk.tick
  BY DEF Keeps, KeepsTasks, KeepsClock, KeepsProcessor
<1>4. /\ UnblockEarly(kk) => UnblockEarly(r)
      /\ DueLater(kk) => DueLater(r)
      /\ DueNowOrLater(kk) => DueNowOrLater(r)
  BY <1>2, <1>3, AwakeKeepsSleepers
<1>5. Elsewhere(kk, r, t) /\ IsReady(r, t) /\ ~IsIn(r, t, Suspended)
  BY <1>1, <1>2, <1>3, GoesElsewhere, ListNames
<1>6. Ticking(r) <=> Ticking(kk)
  BY DEF Keeps, KeepsProcessor, Ticking
<1>7. /\ Ticking(r) => DueNowOrLater(r)
      /\ ~Ticking(r) => DueLater(r)
      /\ UnblockEarly(r)
  BY <1>4, <1>6 DEF KernelInv
<1>8. IsReady(r, Idle) /\ r.prio[Idle] = 0
  BY <1>3, <1>5, TasksAssumption DEF KernelInv, Elsewhere
<1>9. \A e \in WaitLists, u \in Task : ~Occurs(r.event[e], u)
  BY ListNames DEF KernelInv
<1>10. r.base = r.prio /\ r.current \in r.live /\ r.live \subseteq handed
  BY <1>3 DEF KernelInv
<1>11. KernelInv(r, handed)
  BY <1>7, <1>8, <1>9, <1>10 DEF KernelInv
<1> QED  BY <1>5, <1>11 DEF Woken

\* So does prvAddTaskToReadyList after uxListRemove.
LEMMA KernelMakesReady ==
    ASSUME NEW kk, NEW handed, KernelInv(kk, handed), NEW t \in kk.live
    PROVE  /\ KernelInv(MakeReady(kk, t), handed) /\ Woken(kk, MakeReady(kk, t), t)
           /\ MakeReady(kk, t).event = kk.event
<1> DEFINE r == MakeReady(kk, t)
<1>1. Sound(kk) /\ t \in kk.live
  BY DEF KernelInv
<1>2. ReadiedSoundly(kk, r, t)
  BY <1>1, MakeReadySound
<1> HIDE DEF r
<1>3. /\ Sound(r) /\ Keeps(kk, r) /\ r.next = kk.next /\ r.yield = kk.yield /\ r.event = kk.event
      /\ Goes(kk, r, t, Ready(kk.prio[t])) /\ \A u \in Task : u # t => r.wake[u] = kk.wake[u]
  BY <1>2 DEF ReadiedSoundly, Readied
<1>4. KernelInv(r, handed) /\ Woken(kk, r, t)
  BY <1>3, KernelWakes
<1> QED  BY <1>3, <1>4 DEF r

\* The first sleeper is unblocked.
LEMMA KernelUnblocks ==
    ASSUME NEW kk, NEW handed, KernelInv(kk, handed), ~TickIsOver(kk)
    PROVE  LET t == Head(kk.list[Delayed])
               r == UnblockHead(kk)
           IN  /\ t \in kk.live /\ IsIn(kk, t, Delayed) /\ kk.wake[t] <= kk.tick
               /\ KernelInv(r, handed) /\ Woken(kk, r, t)
               /\ \A u \in Task : Parked(r, u) <=> u # t /\ Parked(kk, u)
<1> DEFINE t == Head(kk.list[Delayed])
<1> DEFINE r == UnblockHead(kk)
<1>1. Sound(kk) /\ ~Empty(kk, Delayed) /\ ~(kk.tick < HeadWake(kk))
  BY DEF KernelInv, TickIsOver
<1>2. t \in kk.live /\ IsIn(kk, t, Delayed) /\ UnblockedSoundly(kk, r, t)
  BY <1>1, UnblockHeadSound
<1>3. kk \in KernelState /\ Linked(kk)
  BY <1>1 DEF Sound
<1>4. HeadWake(kk) = kk.wake[t] /\ HeadWake(kk) \in Tick
  BY <1>1, <1>3, HeadWakesFirst
<1> HIDE DEF r, t
<1>5. kk.wake[t] <= kk.tick
  <2>1. kk.tick \in Nat /\ HeadWake(kk) \in Nat
    BY <1>3, <1>4, FieldTypes, TickFacts
  <2>2. \A x, y \in Nat : ~(x < y) => y <= x
    OBVIOUS
  <2>3. HeadWake(kk) <= kk.tick
    BY <1>1, <2>1, <2>2
  <2> QED  BY <1>4, <2>3
<1>6. /\ Sound(r) /\ Keeps(kk, r) /\ r.next = kk.next /\ r.yield = kk.yield
      /\ \A e \in EventLists, u \in Task : Occurs(r.event[e], u) <=> u # t /\ Occurs(kk.event[e], u)
      /\ Goes(kk, r, t, Ready(kk.prio[t])) /\ \A u \in Task : u # t => r.wake[u] = kk.wake[u]
  BY <1>2 DEF UnblockedSoundly, Unblocked
<1>7. KernelInv(r, handed) /\ Woken(kk, r, t)
  BY <1>2, <1>6, KernelWakes
<1>8. \A u \in Task : Parked(r, u) <=> u # t /\ Parked(kk, u)
  BY <1>6, ListNames DEF Parked
<1> QED  BY <1>2, <1>5, <1>7, <1>8 DEF r, t

\* An event list loses a task, or xPendingReadyList gets one.
LEMMA KernelEvents ==
    ASSUME NEW kk, NEW handed, KernelInv(kk, handed), NEW r \in KernelState, Linked(r),
           SameStates(kk, r), SameRest(kk, r),
           \A e \in WaitLists, t \in Task : ~Occurs(r.event[e], t)
    PROVE  /\ KernelInv(r, handed) /\ SamePlaces(kk, r)
           /\ \A u \in Task : /\ IsReady(r, u) <=> IsReady(kk, u)
                              /\ IsIn(r, u, Suspended) <=> IsIn(kk, u, Suspended)
<1>1. Sound(kk) /\ kk \in KernelState
  BY DEF KernelInv, Sound
<1>2. /\ r.prio = kk.prio /\ r.base = kk.base /\ r.live = kk.live /\ r.current = kk.current
      /\ r.tick = kk.tick /\ r.next = kk.next /\ r.top = kk.top /\ r.wake = kk.wake
      /\ r.list = kk.list
  BY DEF SameRest, SameStates, Keeps, KeepsTasks, KeepsClock, KeepsProcessor
<1>3. SamePlaces(kk, r)
  BY <1>2 DEF SamePlaces, IsIn
<1>4. Listed(r) /\ ByPriority(r) /\ Covered(r)
  BY <1>1, <1>2 DEF Sound, Listed, ByPriority, Covered, IsIn
<1>5. /\ UnblockEarly(kk) => UnblockEarly(r)
      /\ DueLater(kk) => DueLater(r)
      /\ DueNowOrLater(kk) => DueNowOrLater(r)
  BY <1>2 DEF UnblockEarly, DueLater, DueNowOrLater, DueAfterWrap, IsIn
<1>6. Ticking(r) <=> Ticking(kk)
  BY DEF SameRest, Keeps, KeepsProcessor, Ticking
<1>7. /\ Ticking(r) => DueNowOrLater(r)
      /\ ~Ticking(r) => DueLater(r)
      /\ UnblockEarly(r)
  BY <1>5, <1>6 DEF KernelInv
<1>8. \A u \in Task : /\ IsReady(r, u) <=> IsReady(kk, u)
                      /\ IsIn(r, u, Suspended) <=> IsIn(kk, u, Suspended)
  BY <1>2 DEF IsReady, IsIn
<1>9. KernelInv(r, handed)
  BY <1>2, <1>4, <1>7, <1>8, TasksAssumption DEF KernelInv, Sound
<1> QED  BY <1>3, <1>8, <1>9

\* An interrupt that notifies while the scheduler is suspended parks the task
\* on xPendingReadyList.
LEMMA KernelParks ==
    ASSUME NEW kk, NEW handed, KernelInv(kk, handed), NEW t \in Task, ~Parked(kk, t)
    PROVE  LET r == AppendPending(kk, t)
           IN  /\ KernelInv(r, handed) /\ SameRest(kk, r) /\ SamePlaces(kk, r) /\ r.wake = kk.wake
               /\ \A u \in Task : /\ IsReady(r, u) <=> IsReady(kk, u)
                                  /\ IsIn(r, u, Suspended) <=> IsIn(kk, u, Suspended)
                                  /\ Parked(r, u) <=> u = t \/ Parked(kk, u)
<1> DEFINE r == AppendPending(kk, t)
<1>1. kk \in KernelState /\ Linked(kk)
  BY DEF KernelInv, Sound
<1>2. ~Waits(kk, t)
  BY DEF KernelInv, Waits, EventLists, Parked
<1>3. LinkedTo(kk, r, t, PendingReady)
  BY <1>1, <1>2, AppendPendingLinks
<1> HIDE DEF r
<1>4. \A e \in WaitLists, u \in Task : ~Occurs(r.event[e], u)
  BY <1>3, ListNames DEF LinkedTo, KernelInv
<1>5. /\ r \in KernelState /\ Linked(r) /\ SameStates(kk, r) /\ SameRest(kk, r)
      /\ \A u \in Task : Parked(r, u) <=> u = t \/ Parked(kk, u)
  BY <1>3, ListNames DEF LinkedTo, Parked
<1>6. /\ KernelInv(r, handed) /\ SamePlaces(kk, r)
      /\ \A u \in Task : /\ IsReady(r, u) <=> IsReady(kk, u)
                         /\ IsIn(r, u, Suspended) <=> IsIn(kk, u, Suspended)
  BY <1>4, <1>5, KernelEvents
<1> QED  BY <1>5, <1>6 DEF r, SameStates

\* The running task goes to sleep.
Asleeping(kk, r, n, b) ==
    /\ Keeps(kk, r) /\ r.yield = kk.yield /\ r.event = kk.event
    /\ Goes(kk, r, kk.current, SleepList(kk, n, b))
    /\ \A u \in Task : u # kk.current => r.wake[u] = kk.wake[u]
    /\ SleepList(kk, n, b) # Suspended => r.wake[kk.current] = Later(kk.tick, n)
    /\ Elsewhere(kk, r, kk.current)

\* prvAddCurrentTaskToDelayedList keeps the kernel's part of the invariant,
\* and the running task is asleep.
LEMMA KernelSleeps ==
    ASSUME NEW kk, NEW handed, KernelInv(kk, handed), ~Ticking(kk), kk.current # Idle,
           NEW n \in Tick, n > 0, NEW b \in BOOLEAN
    PROVE  LET r == prvAddCurrentTaskToDelayedList(kk, n, b)
           IN  KernelInv(r, handed) /\ Asleeping(kk, r, n, b)
<1> DEFINE r == prvAddCurrentTaskToDelayedList(kk, n, b)
<1> DEFINE t == kk.current
<1> DEFINE l == SleepList(kk, n, b)
<1>1. Sound(kk) /\ t \in kk.live /\ UnblockEarly(kk) /\ DueLater(kk)
  BY DEF KernelInv
<1>2. PutToSleep(kk, r, t, n, b) /\ Sound(r)
  BY <1>1, SleepSound
<1>3. kk \in KernelState /\ t \in Task
  BY <1>1, FieldTypes DEF Sound
<1>4. l \in StateLists
  BY ListNames DEF SleepList
<1> HIDE DEF r, l
<1>5. /\ Keeps(kk, r) /\ Goes(kk, r, t, l) /\ r.event = kk.event /\ r.yield = kk.yield
      /\ \A u \in Task : u # t => r.wake[u] = kk.wake[u]
      /\ l # Suspended => r.wake[t] = Later(kk.tick, n)
      /\ UnblockEarly(r) /\ DueLater(r)
  BY <1>1, <1>2 DEF PutToSleep, l
<1>6. /\ r.prio = kk.prio /\ r.base = kk.base /\ r.live = kk.live /\ r.current = kk.current
      /\ r.tick = kk.tick /\ (Ticking(r) <=> Ticking(kk))
  BY <1>5 DEF Keeps, KeepsTasks, KeepsClock, KeepsProcessor, Ticking
<1>7. Elsewhere(kk, r, t)
  BY <1>3, <1>4, <1>5, <1>6, GoesElsewhere
<1>8. IsReady(r, Idle) /\ r.prio[Idle] = 0
  BY <1>6, <1>7, TasksAssumption DEF KernelInv, Elsewhere
<1>9. KernelInv(r, handed)
  BY <1>2, <1>5, <1>6, <1>8 DEF KernelInv
<1> QED  BY <1>5, <1>7, <1>9 DEF Asleeping, r, l

\* A task is suspended or deletes itself.
LEMMA KernelShelves ==
    ASSUME NEW kk, NEW handed, KernelInv(kk, handed), NEW t \in kk.live, t # Idle,
           NEW l \in {Suspended, Terminated}, ~Ticking(kk)
    PROVE  LET r == AppendState(RemoveEvent(RemoveState(kk, t), t), l, t)
           IN  /\ KernelInv(r, handed) /\ SameRest(kk, r) /\ Goes(kk, r, t, l)
               /\ \A u \in Task : u # t => r.wake[u] = kk.wake[u]
               /\ Elsewhere(kk, r, t) /\ ~IsReady(r, t) /\ ~Waits(r, t)
               /\ \A u \in Task : Parked(r, u) <=> u # t /\ Parked(kk, u)
<1> DEFINE r == AppendState(RemoveEvent(RemoveState(kk, t), t), l, t)
<1>1. Sound(kk) /\ kk \in KernelState /\ t \in Task
  BY FieldTypes DEF KernelInv, Sound
<1>2. Shelved(kk, r, t, l)
  BY <1>1, ShelveShelves
<1> HIDE DEF r
<1>3. /\ r.prio = kk.prio /\ r.base = kk.base /\ r.live = kk.live /\ r.current = kk.current
      /\ r.tick = kk.tick /\ (Ticking(r) <=> Ticking(kk))
  BY <1>2 DEF Shelved, SameRest, Keeps, KeepsTasks, KeepsClock, KeepsProcessor, Ticking
<1>4. l \in StateLists /\ kk.prio[t] \in Priority /\ Ready(kk.prio[t]) # l
  BY <1>1, FieldTypes, ListNames
<1>5. Goes(kk, r, t, l)
  BY <1>2 DEF Shelved
<1>6. Elsewhere(kk, r, t) /\ ~IsReady(r, t)
  BY <1>1, <1>3, <1>4, <1>5, GoesElsewhere
<1>7. /\ \A u \in Task : Parked(r, u) <=> u # t /\ Parked(kk, u)
      /\ ~Waits(r, t)
      /\ \A e \in WaitLists, u \in Task : ~Occurs(r.event[e], u)
  BY <1>1, <1>2, ListNames DEF Shelved, Parked, Waits, KernelInv
<1>8. IsReady(r, Idle) /\ r.prio[Idle] = 0
  BY <1>3, <1>6, TasksAssumption DEF KernelInv, Elsewhere
<1>9. KernelInv(r, handed)
  BY <1>2, <1>3, <1>7, <1>8 DEF KernelInv, Shelved
<1> QED  BY <1>2, <1>5, <1>6, <1>7, <1>9 DEF Shelved, r

\* A task that is not running is unlinked, and its control block is dead.
Buried(kk, r, t) ==
    /\ r.prio = kk.prio /\ r.notify = kk.notify /\ r.live = kk.live \ {t} /\ KeepsProcessor(kk, r)
    /\ r.yield = kk.yield /\ r.tick = kk.tick /\ r.pended = kk.pended
    /\ \A u \in Task : u # t => r.wake[u] = kk.wake[u]
    /\ Leaves(kk, r, t)
    /\ \A u \in Task : IsReady(r, u) <=> u # t /\ IsReady(kk, u)
    /\ \A u \in Task : IsIn(r, u, Suspended) <=> u # t /\ IsIn(kk, u, Suspended)
    /\ \A u \in Task : Parked(r, u) <=> u # t /\ Parked(kk, u)

\* A deleted task leaves the live tasks, and the kernel's part of the
\* invariant holds.
LEMMA KernelBuries ==
    ASSUME NEW kk, NEW handed, KernelInv(kk, handed), NEW t \in kk.live, t # Idle,
           t # kk.current, ~Ticking(kk), NEW a, Detached(kk, a, t)
    PROVE  LET r == [a EXCEPT !.live = kk.live \ {t}]
           IN  KernelInv(r, handed) /\ Buried(kk, r, t)
<1> DEFINE r == [a EXCEPT !.live = kk.live \ {t}]
<1>1. Sound(kk) /\ kk \in KernelState /\ t \in Task
  BY FieldTypes DEF KernelInv, Sound
<1>2. Dead(kk, r, t)
  BY <1>1, BuryDead
<1> HIDE DEF r
<1>3. /\ r.prio = kk.prio /\ r.base = kk.base /\ r.live = kk.live \ {t} /\ r.current = kk.current
      /\ r.tick = kk.tick /\ (Ticking(r) <=> Ticking(kk)) /\ Leaves(kk, r, t)
      /\ KeepsProcessor(kk, r) /\ r.notify = kk.notify /\ r.yield = kk.yield /\ r.pended = kk.pended
      /\ \A u \in Task : u # t => r.wake[u] = kk.wake[u]
  BY <1>2 DEF Dead, KeepsClock, KeepsProcessor, Ticking
<1>4. \A u \in Task : kk.prio[u] \in Priority
  BY <1>1, FieldTypes
<1>5. /\ \A u \in Task : IsReady(r, u) <=> u # t /\ IsReady(kk, u)
      /\ \A u \in Task : IsIn(r, u, Suspended) <=> u # t /\ IsIn(kk, u, Suspended)
  BY <1>3, <1>4, ListNames DEF Leaves, IsReady
<1>6. /\ \A u \in Task : Parked(r, u) <=> u # t /\ Parked(kk, u)
      /\ \A e \in WaitLists, u \in Task : ~Occurs(r.event[e], u)
  BY <1>1, <1>2, ListNames DEF Dead, Parked, KernelInv
<1>7. IsReady(r, Idle) /\ r.prio[Idle] = 0
  BY <1>3, <1>5, TasksAssumption DEF KernelInv
<1>8. KernelInv(r, handed)
  BY <1>2, <1>3, <1>6, <1>7 DEF KernelInv, Dead
<1> QED  BY <1>3, <1>5, <1>6, <1>8 DEF Buried, r

\* vTaskPrioritySet: the task keeps its state, and has priority p.
Ranked(kk, r, t, p) ==
    /\ r.prio = [kk.prio EXCEPT ![t] = p] /\ r.notify = kk.notify /\ r.live = kk.live
    /\ KeepsClock(kk, r) /\ KeepsProcessor(kk, r) /\ r.event = kk.event /\ r.yield = kk.yield
    /\ \A u \in Task : u # t => r.wake[u] = kk.wake[u]
    /\ \A u \in Task : IsReady(r, u) <=> IsReady(kk, u)
    /\ \A u \in Task, m \in StateLists \ ReadyLists : IsIn(r, u, m) <=> IsIn(kk, u, m)
    /\ \A u \in Task : IsIn(r, u, Suspended) <=> IsIn(kk, u, Suspended)

\* A change of a priority keeps the kernel's part of the invariant.
LEMMA KernelRanks ==
    ASSUME NEW kk, NEW handed, KernelInv(kk, handed), NEW t \in kk.live, t # Idle,
           NEW p \in Priority, NEW v \in Nat, ~Ticking(kk)
    PROVE  LET r == [ChangePriority(kk, t, p, v) EXCEPT !.base[t] = p]
           IN  KernelInv(r, handed) /\ Ranked(kk, r, t, p)
<1> DEFINE a == ChangePriority(kk, t, p, v)
<1> DEFINE b == [a.base EXCEPT ![t] = p]
<1> DEFINE r == [a EXCEPT !.base = b]
<1>1. Sound(kk) /\ kk \in KernelState /\ t \in Task
  BY FieldTypes DEF KernelInv, Sound
<1>2. Reprioritised(kk, a, t, p)
  BY <1>1, ChangeReprioritises
<1> HIDE DEF a
<1>3. /\ Sound(a) /\ a \in KernelState /\ a.prio = [kk.prio EXCEPT ![t] = p]
      /\ a.base = kk.base /\ a.notify = kk.notify /\ a.live = kk.live
      /\ KeepsClock(kk, a) /\ KeepsProcessor(kk, a)
      /\ a.event = kk.event /\ a.next = kk.next /\ a.yield = kk.yield
      /\ \A u \in Task : u # t => a.wake[u] = kk.wake[u]
      /\ UnblockEarly(kk) => UnblockEarly(a)
  BY <1>2 DEF Reprioritised, Sound
<1>4. /\ IsReady(kk, t) => Goes(kk, a, t, Ready(p))
      /\ ~IsReady(kk, t) => SamePlaces(kk, a)
      /\ UnblockEarly(a) /\ DueLater(a)
  BY <1>2 DEF Reprioritised, KernelInv
<1>5. b \in [Task -> Priority] /\ kk.base = kk.prio
  BY <1>1, <1>3, FieldTypes DEF KernelInv
<1>6. b = a.prio
  BY <1>3, <1>5
<1> HIDE DEF b
<1>7. r \in KernelState
  BY <1>3, <1>5 DEF KernelState
<1>8. /\ SameLists(a, r) /\ r.prio = a.prio /\ r.live = a.live /\ r.top = a.top /\ r.next = a.next
      /\ r.tick = a.tick /\ r.notify = a.notify /\ r.yield = a.yield /\ r.base = b
      /\ KeepsClock(a, r) /\ KeepsProcessor(a, r)
  BY <1>3 DEF KernelState, SameLists, KeepsClock, KeepsProcessor
<1> HIDE DEF r
<1>9. Sound(r) /\ SamePlaces(a, r)
  BY <1>3, <1>7, <1>8, SoundSame
<1>10. UnblockEarly(r) /\ DueLater(r)
  <2>1. \A u \in Task, m \in {Delayed, OverflowDelayed} :
            IsIn(r, u, m) => IsIn(a, u, m) /\ r.wake[u] = a.wake[u]
    BY <1>8, <1>9, ListNames DEF SamePlaces, SameLists
  <2> QED  BY <1>4, <1>8, <2>1, SleepersKept
<1>11. \A u \in Task, m \in StateLists : IsIn(r, u, m) <=> IsIn(a, u, m)
  BY <1>9 DEF SamePlaces
<1>12. /\ \A u \in Task : kk.prio[u] \in Priority
       /\ r.prio[t] = p /\ \A u \in Task : u # t => r.prio[u] = kk.prio[u]
  BY <1>1, <1>3, <1>8, FieldTypes
<1>13. ASSUME IsReady(kk, t)
       PROVE  /\ \A u \in Task : IsReady(r, u) <=> IsReady(kk, u)
              /\ \A u \in Task, m \in StateLists \ ReadyLists : IsIn(r, u, m) <=> IsIn(kk, u, m)
  <2>1. \A u \in Task, m \in StateLists : IsIn(r, u, m) <=> IF u = t THEN m = Ready(p) ELSE IsIn(kk, u, m)
    BY <1>4, <1>11, <1>13 DEF Goes
  <2>2. \A m \in StateLists : IsIn(kk, t, m) <=> m = Ready(kk.prio[t])
    BY <1>1, <1>12, <1>13, ListNames DEF IsReady, Sound, Linked
  <2>3. \A u \in Task : IsReady(r, u) <=> IsReady(kk, u)
    BY <1>12, <1>13, <2>1, ListNames DEF IsReady
  <2>4. \A m \in StateLists \ ReadyLists : m # Ready(p) /\ m # Ready(kk.prio[t])
    BY <1>1, <1>12 DEF ReadyLists
  <2>5. \A u \in Task, m \in StateLists \ ReadyLists : IsIn(r, u, m) <=> IsIn(kk, u, m)
    BY <2>1, <2>2, <2>4
  <2> QED  BY <2>3, <2>5
<1>14. ASSUME ~IsReady(kk, t)
       PROVE  /\ \A u \in Task : IsReady(r, u) <=> IsReady(kk, u)
              /\ \A u \in Task, m \in StateLists \ ReadyLists : IsIn(r, u, m) <=> IsIn(kk, u, m)
  <2>1. \A u \in Task, m \in StateLists : IsIn(r, u, m) <=> IsIn(kk, u, m)
    BY <1>4, <1>11, <1>14 DEF SamePlaces
  <2>2. ~IsIn(kk, t, Ready(p))
    BY <1>1, <1>14, ReadyMeansReady
  <2>3. ~IsReady(r, t)
    <3>1. Ready(p) \in StateLists /\ r.prio[t] = p
      BY <1>12, ListNames
    <3> QED  BY <1>1, <2>1, <2>2, <3>1 DEF IsReady
  <2>4. \A u \in Task : IsReady(r, u) <=> IsReady(kk, u)
    <3>1. SUFFICES ASSUME NEW u \in Task, u # t
                   PROVE  IsReady(r, u) <=> IsReady(kk, u)
      BY <1>14, <2>3
    <3>2. r.prio[u] = kk.prio[u] /\ Ready(kk.prio[u]) \in StateLists
      BY <1>12, <3>1, ListNames
    <3> QED  BY <2>1, <3>2 DEF IsReady
  <2> QED  BY <2>1, <2>4
<1>15. /\ \A u \in Task : IsReady(r, u) <=> IsReady(kk, u)
       /\ \A u \in Task, m \in StateLists \ ReadyLists : IsIn(r, u, m) <=> IsIn(kk, u, m)
       /\ \A u \in Task : IsIn(r, u, Suspended) <=> IsIn(kk, u, Suspended)
  <2>1. Suspended \in StateLists \ ReadyLists
    BY ListNames DEF ReadyLists
  <2>2. /\ \A u \in Task : IsReady(r, u) <=> IsReady(kk, u)
        /\ \A u \in Task, m \in StateLists \ ReadyLists : IsIn(r, u, m) <=> IsIn(kk, u, m)
    BY <1>13, <1>14
  <2> QED  BY <2>1, <2>2
<1>16. Ranked(kk, r, t, p)
  BY <1>3, <1>8, <1>15 DEF Ranked, KeepsClock, KeepsProcessor, SameLists
<1>17. IsReady(r, Idle) /\ r.prio[Idle] = 0
  BY <1>12, <1>15, TasksAssumption DEF KernelInv
<1>18. ~Ticking(r)
  BY <1>3, <1>8 DEF Ticking, KeepsProcessor
<1>19. /\ r.base = r.prio /\ r.current \in r.live /\ r.live \subseteq handed
       /\ \A e \in WaitLists, u \in Task : ~Occurs(r.event[e], u)
  BY <1>3, <1>6, <1>8 DEF KernelInv, KeepsProcessor, SameLists
<1>20. KernelInv(r, handed)
  BY <1>9, <1>10, <1>17, <1>18, <1>19 DEF KernelInv
<1>21. r = [a EXCEPT !.base[t] = p]
  BY <1>3 DEF r, b, KernelState
<1> QED  BY <1>16, <1>20, <1>21 DEF a

\* prvAddNewTaskToReadyList: a new task is live and ready.
Born(kk, r, t, p) ==
    /\ r.prio = [kk.prio EXCEPT ![t] = p] /\ r.notify = [kk.notify EXCEPT ![t] = "notWaiting"]
    /\ r.live = kk.live \cup {t}
    /\ KeepsClock(kk, r) /\ KeepsProcessor(kk, r) /\ r.event = kk.event /\ r.yield = kk.yield
    /\ \A u \in Task : u # t => r.wake[u] = kk.wake[u]
    /\ Goes(kk, r, t, Ready(p)) /\ Elsewhere(kk, r, t) /\ IsReady(r, t)

InitialTCBOf(kk, t, p) ==
    [kk EXCEPT !.prio[t] = p, !.base[t] = p, !.order[t] = EventValue(p),
               !.held[t] = 0, !.notify[t] = "notWaiting", !.wake[t] = 0,
               !.live = @ \cup {t}]

\* A created task joins the live ones, ready at its priority.
LEMMA KernelAdds ==
    ASSUME NEW kk, NEW handed, KernelInv(kk, handed), NEW t \in handed, t \in Task,
           t \notin kk.live, NEW p \in Priority, ~Ticking(kk)
    PROVE  LET r == AddToReady(InitialTCBOf(kk, t, p), t)
           IN  KernelInv(r, handed) /\ Born(kk, r, t, p)
<1> DEFINE prio == [kk.prio EXCEPT ![t] = p]
<1> DEFINE base == [kk.base EXCEPT ![t] = p]
<1> DEFINE order == [kk.order EXCEPT ![t] = EventValue(p)]
<1> DEFINE held == [kk.held EXCEPT ![t] = 0]
<1> DEFINE notify == [kk.notify EXCEPT ![t] = "notWaiting"]
<1> DEFINE wake == [kk.wake EXCEPT ![t] = 0]
<1> DEFINE live == kk.live \cup {t}
<1> DEFINE a == [kk EXCEPT !.prio = prio, !.base = base, !.order = order, !.held = held,
                           !.notify = notify, !.wake = wake, !.live = live]
<1> DEFINE r == AddToReady(a, t)
<1>1. Sound(kk) /\ kk \in KernelState /\ Linked(kk) /\ UnblockEarly(kk) /\ DueLater(kk)
  BY DEF KernelInv, Sound
<1>2. \A m \in StateLists : ~IsIn(kk, t, m)
  BY <1>1 DEF Sound, Listed
<1>3. EventValue(p) \in Nat
  BY KernelAssumption DEF EventValue, Priority
<1>4. /\ prio \in [Task -> Priority] /\ base \in [Task -> Priority] /\ order \in [Task -> Nat]
      /\ held \in [Task -> Nat] /\ notify \in [Task -> NotifyStates] /\ wake \in [Task -> Tick]
      /\ live \subseteq Task
  BY <1>1, <1>3, FieldTypes, TickFacts DEF NotifyStates
<1>5. a = InitialTCBOf(kk, t, p)
  BY <1>1 DEF InitialTCBOf, KernelState
<1>6. /\ prio[t] = p /\ \A u \in Task : u # t => prio[u] = kk.prio[u]
      /\ \A u \in Task : u # t => wake[u] = kk.wake[u]
      /\ base = prio
  BY <1>1, FieldTypes DEF KernelInv
<1>7. wake = [kk.wake EXCEPT ![t] = 0] /\ prio = [kk.prio EXCEPT ![t] = p]
      /\ notify = [kk.notify EXCEPT ![t] = "notWaiting"]
  OBVIOUS
<1> HIDE DEF prio, base, order, held, notify, wake
<1>8. a \in KernelState
  BY <1>1, <1>4 DEF KernelState
<1>9. /\ a.list = kk.list /\ a.index = kk.index /\ a.event = kk.event /\ a.wake = wake
      /\ a.prio = prio /\ a.base = base /\ a.notify = notify /\ a.live = live
      /\ a.next = kk.next /\ a.yield = kk.yield /\ a.top = kk.top
      /\ KeepsClock(kk, a) /\ KeepsProcessor(kk, a)
  BY <1>1 DEF KernelState, KeepsClock, KeepsProcessor
<1> HIDE DEF a
<1>10. Linked(a) /\ SamePlaces(kk, a)
  BY <1>1, <1>2, <1>7, <1>8, <1>9, TickFacts, WakeSet
<1>11. Readied(a, r, t)
  BY <1>2, <1>8, <1>10, AddToReadyReadies DEF SamePlaces
<1> HIDE DEF r
<1>12. /\ r \in KernelState /\ Linked(r) /\ Goes(a, r, t, Ready(p)) /\ r.event = kk.event
       /\ \A u \in Task : u # t => r.wake[u] = kk.wake[u]
       /\ r.next = kk.next /\ r.yield = kk.yield /\ r.top >= kk.top /\ r.top >= p
       /\ r.prio = prio /\ r.base = base /\ r.notify = notify /\ r.live = live
       /\ KeepsClock(kk, r) /\ KeepsProcessor(kk, r)
  BY <1>6, <1>9, <1>11 DEF Readied, Keeps, KeepsTasks, KeepsClock, KeepsProcessor
<1>13. Goes(kk, r, t, Ready(p))
  BY <1>10, <1>12 DEF Goes, SamePlaces
<1>14. Elsewhere(kk, r, t) /\ IsReady(r, t)
  BY <1>1, <1>6, <1>12, <1>13, GoesElsewhere, ListNames
<1>15. Listed(r)
  BY <1>1, <1>12, <1>13, ListNames DEF Listed, Goes, Sound
<1>16. ByPriority(r)
  BY <1>1, <1>6, <1>12, <1>13, ListNames DEF ByPriority, Goes, Sound
<1>17. Covered(r)
  <2>1. \A x, y, z \in Nat : x <= y /\ z >= y => x <= z
    OBVIOUS
  <2>2. r.top \in Nat /\ kk.top \in Nat /\ Priority \subseteq Nat
    BY <1>1, <1>12, FieldTypes, TickFacts
  <2>3. ASSUME NEW u \in Task, NEW q \in Priority, IsIn(r, u, Ready(q))
        PROVE  q <= r.top
    <3>1. CASE u = t
      <4>1. q = p
        BY <1>13, <2>3, <3>1, ListNames DEF Goes
      <4>2. \A x, y \in Nat : x >= y => y <= x
        OBVIOUS
      <4> QED  BY <1>12, <2>2, <4>1, <4>2
    <3>2. CASE u # t
      <4>1. q <= kk.top
        BY <1>1, <1>13, <2>3, <3>2, ListNames DEF Goes, Sound, Covered
      <4> QED  BY <1>12, <2>1, <2>2, <4>1
    <3> QED  BY <3>1, <3>2
  <2> QED  BY <2>3 DEF Covered
<1>18. UnblockEarly(r) /\ DueLater(r)
  <2>1. r.tick = kk.tick /\ Ready(p) \in StateLists \ {Delayed, OverflowDelayed}
    BY <1>12, ListNames DEF KeepsClock
  <2> QED  BY <1>1, <1>12, <1>13, <2>1, AwakeKeepsSleepers
<1>19. IsReady(r, Idle) /\ r.prio[Idle] = 0
  <2>1. Idle # t
    BY <1>1, <1>2, TasksAssumption, FieldTypes, ListNames DEF KernelInv, IsReady
  <2> QED  BY <1>6, <1>12, <1>14, <2>1, TasksAssumption DEF KernelInv, Elsewhere
<1>20. ~Ticking(r) /\ r.current \in r.live /\ r.live \subseteq handed
  BY <1>12 DEF KeepsProcessor, Ticking, KernelInv
<1>21. KernelInv(r, handed)
  BY <1>6, <1>12, <1>15, <1>16, <1>17, <1>18, <1>19, <1>20 DEF KernelInv, Sound
<1>22. Born(kk, r, t, p)
  BY <1>7, <1>12, <1>13, <1>14 DEF Born
<1> QED  BY <1>5, <1>21, <1>22 DEF r

-----------------------------------------------------------------------------
(* The rest of the invariant. *)

\* What the running task does next: ss after s.
GoesOn(kk, r, s, ss) ==
    /\ IsReady(kk, kk.current) \/ YieldsNext(ss)
    /\ \/ r.susp # 0 \/ r.cpu \in {"drain", "drainMore"}
       \/ \A t \in Task : ~Parked(kk, t)
    /\ EndsWait(s) => EndsWait(ss)
    /\ EndsWait(ss) => EndsWait(s) \/ IsReady(kk, kk.current)
    /\ \/ ss = s
       \/ OpOf(ss) \notin CheckOps \cup {"wait"}
       \/ OpOf(ss) \in CheckOps /\ ~EndsWait(s) /\ ~Parked(kk, kk.current)
    /\ r.yield \/ ~kk.yield
    /\ \/ ss = s \/ OpOf(s) # "yieldTo"
       \/ ~(IsReady(kk, s[1].task) /\ kk.prio[s[1].task] > kk.prio[kk.current])

\* The running task goes on, or another interrupt or loop takes a step: what
\* it does next fits, and no task changes place or notification state.
Carried(kk, r, td, te) ==
    /\ SeenAlike(kk, r) /\ r.notify = kk.notify /\ r.current = kk.current
    /\ \A u \in Task : u # kk.current => te[u] = td[u]
    /\ SuspendInv(r, te)
    /\ GoesOn(kk, r, td[kk.current], te[kk.current])

\* A step that carries every task along keeps what the invariant says of the
\* tasks at rest.
LEMMA RestQuiet ==
    ASSUME NEW kk \in KernelState, NEW td, NEW may, RestInv(kk, td, may), kk.cpu # "tick",
           NEW r, NEW te, Carried(kk, r, td, te)
    PROVE  RestInv(r, te, may)
<1> USE DEF Carried
<1> DEFINE c == kk.current
<1>0. c \in Task /\ kk.live \subseteq Task /\ r.live = kk.live /\ r.prio = kk.prio
  BY FieldTypes DEF SeenAlike
<1>1. /\ \A t \in Task : IsReady(r, t) <=> IsReady(kk, t)
      /\ \A t \in Task : Parked(r, t) <=> Parked(kk, t)
      /\ \A t \in Task : IsIn(r, t, Suspended) <=> IsIn(kk, t, Suspended)
      /\ \A t \in Task : Awake(r, may, t) <=> Awake(kk, may, t)
  BY AlikeFacts
<1>2. /\ RunningInv(kk, td) /\ ParkedInv(kk) /\ Notified(kk, td, may) /\ HighestInv(kk, td)
      /\ OpOf(td[c]) \in CheckOps => ~Parked(kk, c)
      /\ OpOf(td[c]) = "wait" => EndsWait(td[c]) /\ (kk.notify[c] = "waiting" \/ Parked(kk, c))
  BY DEF RestInv, NotifyInv
<1>3. RunningInv(r, te)
  BY <1>0, <1>1 DEF RunningInv, GoesOn
<1>4. ParkedInv(r)
  BY <1>0, <1>1, <1>2 DEF ParkedInv, GoesOn
<1>5. Notified(r, te, may)
  <2>1. ASSUME NEW t \in kk.live, kk.notify[t] = "waiting"
        PROVE  Waiting(r, te, t)
    <3>1. Waiting(kk, td, t)
      BY <1>2, <2>1 DEF Notified
    <3> QED  BY <1>0, <1>1, <2>1, <3>1 DEF Waiting, GoesOn
  <2>2. ASSUME NEW t \in kk.live, EndsWait(te[t]), kk.notify[t] # "waiting"
        PROVE  Awake(r, may, t)
    <3>1. Awake(kk, may, t)
      BY <1>0, <1>2, <2>2 DEF Notified, Awake, GoesOn
    <3> QED  BY <1>0, <1>1, <3>1
  <2> QED  BY <1>0, <2>1, <2>2 DEF Notified
<1>6. NotifyInv(r, te, may)
  BY <1>0, <1>1, <1>2, <1>5 DEF NotifyInv, GoesOn
<1>7. HighestInv(r, te)
  BY <1>0, <1>1, <1>2 DEF HighestInv, GoesOn
<1> QED  BY <1>3, <1>4, <1>6, <1>7 DEF RestInv

\* A task of the highest priority of the ready ones is chosen to run.
Chosen(kk, r) ==
    /\ SeenAlike(kk, r) /\ SamePlaces(kk, r) /\ r.wake = kk.wake /\ r.tick = kk.tick
    /\ r.notify = kk.notify /\ r.susp = 0 /\ r.cpu = "task" /\ ~r.yield
    /\ r.current \in Task /\ IsReady(r, r.current)
    /\ \A u \in Task : IsReady(r, u) => ~(r.prio[u] > r.prio[r.current])

\* vTaskSwitchContext keeps the kernel's part of the invariant and chooses the
\* highest ready task.
LEMMA SwitchChooses ==
    ASSUME NEW kk, NEW handed, KernelInv(kk, handed), kk.susp = 0, ~Ticking(kk) \/ DueLater(kk)
    PROVE  LET r == [vTaskSwitchContext(kk) EXCEPT !.cpu = "task"]
           IN  /\ KernelInv(r, handed) /\ Chosen(kk, r)
               /\ kk.cpu = "task" => r = vTaskSwitchContext(kk)
<1> DEFINE a == vTaskSwitchContext(kk)
<1> DEFINE r == [a EXCEPT !.cpu = "task"]
<1>1. /\ Switched(kk, a) /\ KernelInv(a, handed) /\ SeenAlike(kk, a)
      /\ DueLater(kk) => DueLater(a)
  BY KernelSwitched
<1> HIDE DEF a
<1>2. a \in KernelState
  BY <1>1 DEF Switched, Sound
<1>3. /\ r \in KernelState /\ SameLists(a, r) /\ r.prio = a.prio /\ r.base = a.base
      /\ r.live = a.live /\ r.tick = a.tick /\ r.top = a.top /\ r.next = a.next
      /\ r.current = a.current /\ r.notify = a.notify /\ r.susp = a.susp
      /\ r.yield = a.yield /\ r.cpu = "task"
  BY <1>2 DEF KernelState, CpuModes, SameLists
<1>4. kk.cpu = "task" => r = a
  BY <1>1, <1>2 DEF KernelState, Switched
<1> HIDE DEF r
<1>5. ~Ticking(r) /\ a.current \in a.live /\ a.live \subseteq handed /\ a.cpu = kk.cpu
  BY <1>1, <1>3 DEF Ticking, KernelInv, Switched
<1>6. (Ticking(r) <=> Ticking(a)) \/ (~Ticking(r) /\ DueLater(a))
  BY <1>1, <1>5 DEF Ticking
<1>7. KernelInv(r, handed) /\ SeenAlike(a, r)
  BY <1>1, <1>3, <1>5, <1>6, KernelSame
<1>8. /\ SamePlaces(a, r) /\ SamePlaces(kk, r) /\ r.wake = kk.wake /\ r.tick = kk.tick
      /\ r.notify = kk.notify /\ r.susp = 0 /\ ~r.yield
  BY <1>1, <1>3 DEF SamePlaces, SameLists, Switched, KeepsTasks, KeepsClock, IsIn
<1>9. SeenAlike(kk, r)
  BY <1>1, <1>7 DEF SeenAlike
<1>10. /\ r.current \in Task /\ \A u \in Task : r.prio[u] \in Priority
       /\ IsReady(r, r.current) <=> IsReady(a, a.current)
  BY <1>2, <1>3, <1>7, AlikeFacts, FieldTypes
<1>11. /\ IsReady(a, a.current)
       /\ \A u \in Task, p \in Priority : IsIn(a, u, Ready(p)) => p <= a.prio[a.current]
  BY <1>1 DEF Switched
<1>12. ASSUME NEW u \in Task, IsReady(r, u)
       PROVE  ~(r.prio[u] > r.prio[r.current])
  <2>1. IsIn(a, u, Ready(a.prio[u])) /\ a.prio[u] \in Priority
    BY <1>2, <1>3, <1>7, <1>10, <1>12, AlikeFacts DEF IsReady
  <2>2. a.prio[u] <= a.prio[a.current]
    BY <1>11, <2>1
  <2>3. \A x, y \in Nat : x <= y => ~(x > y)
    OBVIOUS
  <2>4. a.prio[u] \in Nat /\ a.prio[a.current] \in Nat
    BY <1>2, <1>3, <1>10, TickFacts
  <2> QED  BY <1>3, <2>2, <2>3, <2>4
<1>13. Chosen(kk, r)
  BY <1>3, <1>8, <1>9, <1>10, <1>11, <1>12 DEF Chosen
<1> QED  BY <1>4, <1>7, <1>13 DEF r, a

\* After it no task of a higher priority is ready.
LEMMA RestChosen ==
    ASSUME NEW kk \in KernelState, NEW r, Chosen(kk, r), NEW te, NEW may,
           \A u \in Task : AtRest(te[u]), \A t \in Task : ~Parked(kk, t), Notified(kk, te, may)
    PROVE  RestInv(r, te, may)
<1>1. /\ \A t \in Task : Parked(r, t) <=> Parked(kk, t)
      /\ \A t \in Task : Awake(r, may, t) <=> Awake(kk, may, t)
      /\ \A t \in Task : Waiting(r, te, t) <=> Waiting(kk, te, t)
      /\ r.live = kk.live /\ kk.live \subseteq Task
  BY AlikeFacts, FieldTypes DEF Chosen, SeenAlike
<1>2. AtRest(te[r.current]) /\ AtRest(te[Idle])
  BY TasksAssumption DEF Chosen
<1>3. SuspendInv(r, te)
  BY <1>2 DEF SuspendInv, AtRest, Chosen
<1>4. RunningInv(r, te) /\ HighestInv(r, te)
  BY DEF RunningInv, HighestInv, Chosen
<1>5. ParkedInv(r)
  BY <1>1 DEF ParkedInv
<1>6. Notified(r, te, may)
  BY <1>1 DEF Notified, Chosen
<1>7. NotifyInv(r, te, may)
  BY <1>2, <1>6 DEF NotifyInv, AtRest
<1> QED  BY <1>3, <1>4, <1>5, <1>7 DEF RestInv

-----------------------------------------------------------------------------
(* Facts for the steps. *)

\* What the invariant says, in the parts the proofs cite.
LEMMA StateFacts ==
    ASSUME IInv
    PROVE  /\ k \in KernelState /\ Sound(k) /\ KernelInv(k, allocated)
           /\ todo \in [Task -> Seq(Work)] /\ WorkInv(todo, k.live, allocated)
           /\ RestInv(k, todo, MaySuspend)
           /\ Me \in Task /\ Me \in k.live /\ k.live \subseteq Task /\ Idle \in Task
           /\ k.live \subseteq allocated /\ Idle \in k.live
           /\ \A u \in Task : u # Me => AtRest(todo[u])
           /\ \A u \in Task : Shape(todo[u]) /\ todo[u] \in Seq(Work)
           /\ SuspendInv(k, todo) /\ RunningInv(k, todo) /\ ParkedInv(k)
           /\ NotifyInv(k, todo, MaySuspend) /\ HighestInv(k, todo)
<1>1. k \in KernelState /\ Sound(k) /\ KernelInv(k, allocated) /\ IsReady(k, Idle)
  BY DEF IInv, KernelInv, Sound
<1>2. Idle \in Task /\ k.prio[Idle] \in Priority
  BY <1>1, FieldTypes, TasksAssumption
<1>3. Idle \in k.live
  BY <1>1, <1>2, ReadyMeansReady DEF IsReady
<1>4. SuspendInv(k, todo) /\ RestInv(k, todo, MaySuspend) /\ WorkInv(todo, k.live, allocated)
  BY DEF IInv, RestInv
<1>5. \A u \in Task : u # Me => AtRest(todo[u])
  BY <1>4 DEF SuspendInv, Me
<1>6. todo \in [Task -> Seq(Work)] /\ \A u \in Task : Shape(todo[u]) /\ todo[u] \in Seq(Work)
  BY <1>4 DEF WorkInv, IInv, TypeOK
<1>7. Me \in Task /\ Me \in k.live /\ k.live \subseteq Task /\ k.live \subseteq allocated
  BY <1>1, FieldTypes DEF KernelInv, Me
<1> QED  BY <1>1, <1>2, <1>3, <1>4, <1>5, <1>6, <1>7 DEF RestInv

\* The parts make the whole.
LEMMA Together ==
    ASSUME IInv, k' \in KernelState, KernelInv(k', allocated'), todo' \in [Task -> Seq(Work)],
           WorkInv(todo', k'.live, allocated'), RestInv(k', todo', MaySuspend),
           value' \in [Task -> NotifyValues], previous' \in [Task -> Tick],
           allocated' \in SUBSET Task, app' = app
    PROVE  IInv'
<1>1. MaySuspend' = MaySuspend
  BY DEF MaySuspend, App
<1>2. TypeOK'
  BY DEF IInv, TypeOK
<1> QED  BY <1>1, <1>2 DEF IInv

\* The running task is in a call.
LEMMA RunningFacts ==
    ASSUME IInv, NEW op, Running(op)
    PROVE  /\ k.cpu = "task" /\ ~Ticking(k) /\ todo[Me] # <<>> /\ OpOf(todo[Me]) = op
           /\ Item = todo[Me][1] /\ Item \in Work /\ Item.op = op
           /\ Rest = Tail(todo[Me]) /\ Rest \in Seq(Work) /\ Len(Rest) = Len(todo[Me]) - 1
           /\ Len(todo[Me]) \in Nat /\ Len(todo[Me]) >= 1 /\ (Rest = <<>> <=> Len(todo[Me]) = 1)
           /\ Me = Idle => op \in {"free", "freeTCB", "resumeAll", "idleYield"}
<1>1. todo[Me] \in Seq(Work) /\ todo[Me] # <<>> /\ Me \in Task /\ WorkInv(todo, k.live, allocated)
  BY StateFacts DEF Running
<1>2. /\ Rest \in Seq(Work) /\ Len(Rest) = Len(todo[Me]) - 1
      /\ Item = todo[Me][1] /\ Item \in Work
      /\ Len(todo[Me]) \in Nat /\ Len(todo[Me]) >= 1 /\ (Rest = <<>> <=> Len(todo[Me]) = 1)
  BY <1>1, RestOf DEF Rest, Item
<1>3. k.cpu = "task" /\ ~Ticking(k) /\ Item.op = op
  BY DEF Running, Item, Ticking
<1>4. OpOf(todo[Me]) = op
  BY <1>1, <1>2, <1>3 DEF OpOf
<1>5. 1 \in 1 .. Len(todo[Me])
  BY <1>2
<1>6. Me = Idle => op \in {"free", "freeTCB", "resumeAll", "idleYield"}
  BY <1>1, <1>2, <1>3, <1>5 DEF WorkInv, IdleShape
<1> QED  BY <1>1, <1>2, <1>3, <1>4, <1>6 DEF Rest

\* A task that is through with its item goes on with the rest of its call.
LEMMA DoneFacts ==
    ASSUME IInv, NEW op, Running(op), Done,
           \/ allocated' = allocated
           \/ op = "freeTCB" /\ allocated' = allocated \ {Item.task}
    PROVE  /\ todo' \in [Task -> Seq(Work)] /\ WorkInv(todo', k.live, allocated')
           /\ todo'[Me] = Rest /\ \A u \in Task : u # Me => todo'[u] = todo[u]
<1>1. /\ todo \in [Task -> Seq(Work)] /\ WorkInv(todo, k.live, allocated) /\ Me \in Task
      /\ todo[Me] # <<>> /\ Item = todo[Me][1] /\ Item.op = op
  BY StateFacts, RunningFacts
<1>2. todo' = [todo EXCEPT ![Me] = Tail(todo[Me])]
  BY DEF Done, Continue, Rest
<1>5. \/ allocated' = allocated
      \/ todo[Me][1].op = "freeTCB" /\ allocated' = allocated \ {todo[Me][1].task}
  BY <1>1
<1>3. todo' \in [Task -> Seq(Work)] /\ WorkInv(todo', k.live, allocated')
  BY <1>1, <1>2, <1>5, WorkDone
<1>4. todo'[Me] = Rest /\ \A u \in Task : u # Me => todo'[u] = todo[u]
  BY <1>1, <1>2 DEF Rest
<1> QED  BY <1>3, <1>4

\* A step that moves no task and changes no notification state.
Quietly(kk, r) ==
    /\ r \in KernelState /\ SameLists(kk, r)
    /\ r.prio = kk.prio /\ r.base = kk.base /\ r.live = kk.live /\ r.notify = kk.notify
    /\ r.current = kk.current /\ r.tick = kk.tick /\ r.top = kk.top
    /\ r.next = kk.next \/ UnblockEarly(r)

\* A step of the running task that moves no task keeps the invariant.
LEMMA QuietKeeps ==
    ASSUME IInv, Quietly(k, k'), ~Ticking(k), ~Ticking(k'),
           todo' \in [Task -> Seq(Work)], WorkInv(todo', k.live, allocated'),
           \A u \in Task : u # Me => todo'[u] = todo[u],
           SuspendInv(k', todo'), GoesOn(k, k', todo[Me], todo'[Me]),
           value' \in [Task -> NotifyValues], previous' \in [Task -> Tick],
           allocated' \in SUBSET Task, k.live \subseteq allocated', app' = app
    PROVE  IInv'
<1>1. /\ KernelInv(k, allocated) /\ k \in KernelState /\ RestInv(k, todo, MaySuspend)
      /\ Me \in k.live
  BY StateFacts
<1>2. KernelInv(k', allocated) /\ SeenAlike(k, k')
  <2>1. /\ k' \in KernelState /\ SameLists(k, k') /\ k'.prio = k.prio /\ k'.base = k.base
        /\ k'.live = k.live /\ k'.tick = k.tick /\ k'.top = k.top
        /\ k'.next = k.next \/ UnblockEarly(k')
    BY DEF Quietly
  <2>2. k'.current \in k'.live
    BY <1>1 DEF Quietly, Me
  <2>3. (Ticking(k') <=> Ticking(k)) \/ (~Ticking(k') /\ DueLater(k))
    OBVIOUS
  <2> QED  BY <1>1, <2>1, <2>2, <2>3, KernelSame
<1>3. RestInv(k', todo', MaySuspend)
  <2>1. k.cpu # "tick" /\ k'.notify = k.notify /\ k'.current = k.current
    BY DEF Ticking, Quietly
  <2>2. Carried(k, k', todo, todo')
    BY <1>2, <2>1 DEF Carried, Me
  <2> QED  BY <1>1, <2>1, <2>2, RestQuiet
<1>4. KernelInv(k', allocated')
  BY <1>2 DEF KernelInv, Quietly
<1> QED  BY <1>3, <1>4, Together DEF Quietly


-----------------------------------------------------------------------------
(* Every step keeps the invariant.  Steps that move no task. *)

\* The running task is through with its item, and no task moves.
LEMMA DoneKeeps ==
    ASSUME IInv, NEW op, Running(op), Done, Quietly(k, k'), k'.cpu = "task",
           k'.yield = k.yield,
           op = "yieldTo" => ~(IsReady(k, Item.task) /\ k.prio[Item.task] > k.prio[Me]),
           \/ allocated' = allocated
           \/ op = "freeTCB" /\ allocated' = allocated \ {Item.task},
           OpOf(Rest) \notin SuspendedOps,
           OpOf(Rest) = "resumeAll" => k'.susp = 1,
           OpOf(Rest) \notin {"none", "resumeAll"} => k'.susp = 0,
           Me = Idle => (IF OpOf(Rest) = "resumeAll" THEN k'.susp = 1 ELSE k'.susp = 0),
           k'.susp # 0 \/ k.susp = 0,
           IsReady(k, Me) \/ YieldsNext(Rest),
           EndsWait(Rest) <=> EndsWait(todo[Me]),
           UNCHANGED <<value, app>>,
           previous' = previous \/ previous' \in [Task -> Tick]
    PROVE  IInv'
<1>1. /\ k.cpu = "task" /\ ~Ticking(k) /\ OpOf(todo[Me]) = op
  BY RunningFacts
<1>2. /\ todo' \in [Task -> Seq(Work)] /\ WorkInv(todo', k.live, allocated')
      /\ todo'[Me] = Rest /\ \A u \in Task : u # Me => todo'[u] = todo[u]
  BY DoneFacts
<1>3. /\ ~Ticking(k') /\ k'.current = Me
  BY DEF Ticking, Quietly, Me
<1>4. SuspendInv(k', todo')
  <2>1. \A u \in Task : u # Me => AtRest(todo'[u])
    BY <1>2, StateFacts
  <2>2. OpOf(todo'[Me]) = OpOf(Rest) /\ (Me = Idle => todo'[Idle] = Rest)
    BY <1>2
  <2> QED  BY <1>3, <2>1, <2>2 DEF SuspendInv, AtRest
<1>5. GoesOn(k, k', todo[Me], todo'[Me])
  <2>1. ParkedInv(k)
    BY StateFacts
  <2>2. k.susp = 0 => \A t \in Task : ~Parked(k, t)
    BY <1>1, <2>1 DEF ParkedInv
  <2>3. \/ k'.susp # 0
        \/ \A t \in Task : ~Parked(k, t)
    BY <2>2
  <2>4. k'.yield \/ ~k.yield
    BY Zenon
  <2>5. /\ IsReady(k, Me) \/ YieldsNext(todo'[Me])
        /\ EndsWait(todo'[Me]) <=> EndsWait(todo[Me])
        /\ OpOf(todo'[Me]) \notin CheckOps \cup {"wait"}
        /\ \/ OpOf(todo[Me]) # "yieldTo"
           \/ ~(IsReady(k, todo[Me][1].task) /\ k.prio[todo[Me][1].task] > k.prio[Me])
    BY <1>1, <1>2, RunningFacts
  <2> QED  BY <2>3, <2>4, <2>5 DEF GoesOn, Me
<1>6. /\ value' \in [Task -> NotifyValues] /\ previous' \in [Task -> Tick] /\ app' = app
      /\ allocated \in SUBSET Task
  BY DEF IInv, TypeOK
<1>7. k.live \subseteq allocated' /\ allocated' \in SUBSET Task
  <2>1. CASE allocated' = allocated
    BY <1>6, <2>1, StateFacts
  <2>2. CASE op = "freeTCB" /\ allocated' = allocated \ {Item.task}
    <3>1. /\ Item = todo[Me][1] /\ 1 \in 1 .. Len(todo[Me]) /\ Owns(todo[Me], 1) /\ Me \in Task
      BY <2>2, RunningFacts, StateFacts DEF Owns
    <3>2. Item.task \notin k.live
      BY <3>1, StateFacts DEF WorkInv
    <3> QED  BY <1>6, <2>2, <3>2, StateFacts
  <2> QED  BY <2>1, <2>2
<1> QED  BY <1>1, <1>2, <1>3, <1>4, <1>5, <1>6, <1>7, QuietKeeps

\* A task that calls the API runs, and is in no other call.
LEMMA CallFacts ==
    ASSUME IInv, NEW f, Calls(f)
    PROVE  /\ k.cpu = "task" /\ ~Ticking(k) /\ todo[Me] = <<>> /\ Me # Idle /\ IsReady(k, Me)
           /\ OpOf(todo[Me]) = "none" /\ AtRest(todo[Me]) /\ ~EndsWait(todo[Me])
           /\ k.susp = 0 => \A t \in Task : ~Parked(k, t)
<1>1. k.cpu = "task" /\ todo[Me] = <<>> /\ f \in App.api[Me]
  BY DEF Calls
<1>2. App.api[Idle] = {}
  BY TasksAssumption DEF IsApplication, App, IInv, TypeOK
<1>3. OpOf(todo[Me]) = "none" /\ AtRest(todo[Me]) /\ ~EndsWait(todo[Me]) /\ ~YieldsNext(todo[Me])
  BY <1>1 DEF OpOf, AtRest, EndsWait, YieldsNext
<1>4. IsReady(k, Me)
  BY <1>1, <1>3, StateFacts DEF RunningInv, Me
<1>5. k.susp = 0 => \A t \in Task : ~Parked(k, t)
  BY <1>1, StateFacts DEF ParkedInv
<1> QED  BY <1>1, <1>2, <1>3, <1>4, <1>5 DEF Ticking

\* A call begins, with the scheduler suspended from its first step on.
LEMMA CallKeeps ==
    ASSUME IInv, NEW f, Calls(f), Quietly(k, k'), k'.cpu = "task", k'.yield = k.yield,
           NEW s \in Seq(Work), Continue(s), Shape(s), \A i \in 1 .. Len(s) : ~Owns(s, i),
           \/ k.susp = 0 /\ OpOf(s) \in SuspendedOps \cup {"resumeAll"} /\ k'.susp = 1
           \/ s = <<Do("resumeAll")>> /\ k'.susp = k.susp /\ k.susp > 0
           \/ s = <<>> /\ k'.susp = k.susp + 1,
           OpOf(s) # "wait",
           UNCHANGED <<value, previous, allocated, app>>
    PROVE  IInv'
<1>1. /\ ~Ticking(k) /\ todo[Me] = <<>> /\ Me # Idle /\ IsReady(k, Me)
      /\ OpOf(todo[Me]) = "none" /\ ~EndsWait(todo[Me])
      /\ k.susp = 0 => \A t \in Task : ~Parked(k, t)
  BY CallFacts
<1>2. /\ todo' \in [Task -> Seq(Work)] /\ WorkInv(todo', k.live, allocated')
      /\ todo'[Me] = s /\ \A u \in Task : u # Me => todo'[u] = todo[u]
  <2>1. /\ todo \in [Task -> Seq(Work)] /\ WorkInv(todo, k.live, allocated)
        /\ Me \in Task /\ Me \in k.live /\ allocated' = allocated
    BY StateFacts
  <2>2. todo' = [todo EXCEPT ![Me] = s]
    BY DEF Continue
  <2>3. todo' \in [Task -> Seq(Work)] /\ WorkInv(todo', k.live, allocated)
    BY <1>1, <2>1, <2>2, WorkBegins
  <2> QED  BY <2>1, <2>2, <2>3
<1>3. ~Ticking(k') /\ k'.current = Me
  BY DEF Ticking, Quietly, Me
<1>4. k.susp \in Nat
  BY StateFacts, FieldTypes
<1>5. /\ OpOf(s) \in SuspendedOps => k.susp = 0 /\ k'.susp = 1
      /\ OpOf(s) = "resumeAll" => k'.susp > 0 /\ (Len(s) > 1 => k'.susp = 1)
      /\ OpOf(s) \notin SuspendedOps \cup {"resumeAll", "none"} => k'.susp = 0
      /\ k'.susp # 0
  <2>1. CASE s = <<Do("resumeAll")>> /\ k'.susp = k.susp /\ k.susp > 0
    <3>1. OpOf(s) = "resumeAll" /\ Len(s) = 1
      BY <2>1 DEF OpOf, Do
    <3> QED  BY <1>4, <2>1, <3>1
  <2>2. CASE s = <<>> /\ k'.susp = k.susp + 1
    <3>1. OpOf(s) = "none"
      BY <2>2 DEF OpOf
    <3> QED  BY <1>4, <2>2, <3>1
  <2> QED  BY <2>1, <2>2
<1>6. SuspendInv(k', todo')
  <2>1. \A u \in Task : u # Me => AtRest(todo'[u])
    BY <1>2, StateFacts
  <2> QED  BY <1>1, <1>2, <1>3, <1>5, <2>1 DEF SuspendInv
<1>7. GoesOn(k, k', todo[Me], todo'[Me])
  <2>1. k'.yield \/ ~k.yield
    BY Zenon
  <2>2. OpOf(s) \in CheckOps => ~Parked(k, Me)
    BY <1>1, <1>5, StateFacts
  <2> QED  BY <1>1, <1>2, <1>5, <2>1, <2>2 DEF GoesOn, Me
<1>8. /\ value' \in [Task -> NotifyValues] /\ previous' \in [Task -> Tick] /\ app' = app
      /\ allocated' \in SUBSET Task /\ k.live \subseteq allocated'
  BY StateFacts DEF IInv, TypeOK
<1> QED  BY <1>1, <1>2, <1>3, <1>6, <1>7, <1>8, QuietKeeps

\* A step that only changes what the tasks own.
LEMMA DataKeeps ==
    ASSUME IInv, UNCHANGED <<k, todo, allocated, app>>,
           value' \in [Task -> NotifyValues], previous' \in [Task -> Tick]
    PROVE  IInv'
<1>1. MaySuspend' = MaySuspend
  BY DEF MaySuspend, App
<1>2. /\ KernelInv(k', allocated') /\ WorkInv(todo', k'.live, allocated')
      /\ RestInv(k', todo', MaySuspend)
  BY StateFacts
<1>3. TypeOK'
  BY DEF IInv, TypeOK
<1> QED  BY <1>1, <1>2, <1>3 DEF IInv

\* The loops of the processor: the task goes on with its item, no task moves
\* but between the delayed lists.
LEMMA LoopKeeps ==
    ASSUME IInv, KernelInv(k', allocated), SeenAlike(k, k'), k'.notify = k.notify,
           k'.current = k.current, k.cpu # "tick", SuspendInv(k', todo),
           k'.yield \/ ~k.yield,
           \/ k'.susp # 0 \/ k'.cpu \in {"drain", "drainMore"}
           \/ \A t \in Task : ~Parked(k, t),
           UNCHANGED <<todo, value, previous, allocated, app>>
    PROVE  IInv'
<1>1. /\ k \in KernelState /\ RestInv(k, todo, MaySuspend) /\ RunningInv(k, todo)
      /\ todo \in [Task -> Seq(Work)] /\ WorkInv(todo, k.live, allocated)
  BY StateFacts
<1>2. GoesOn(k, k', todo[k.current], todo[k.current])
  BY <1>1 DEF GoesOn, RunningInv
<1>3. Carried(k, k', todo, todo)
  BY <1>2 DEF Carried
<1>4. RestInv(k', todo, MaySuspend)
  BY <1>1, <1>3, RestQuiet
<1>5. k' \in KernelState /\ k'.live = k.live
  BY DEF KernelInv, Sound, SeenAlike
<1>6. todo' = todo /\ allocated' = allocated /\ app' = app
  OBVIOUS
<1>7. WorkInv(todo', k'.live, allocated') /\ KernelInv(k', allocated') /\ RestInv(k', todo', MaySuspend)
  BY <1>1, <1>4, <1>5, <1>6
<1>8. /\ value' \in [Task -> NotifyValues] /\ previous' \in [Task -> Tick]
      /\ allocated' \in SUBSET Task /\ todo' \in [Task -> Seq(Work)]
  BY <1>1 DEF IInv, TypeOK
<1> QED  BY <1>5, <1>6, <1>7, <1>8, Together

\* Task t is ready, and no longer parked; the others are where they were.  It
\* may have been notified.
Roused(kk, r, t) ==
    /\ r.prio = kk.prio /\ r.live = kk.live /\ r.current = kk.current
    /\ Elsewhere(kk, r, t) /\ IsReady(r, t) /\ ~IsIn(r, t, Suspended)
    /\ \A u \in Task : Parked(r, u) <=> u # t /\ Parked(kk, u)
    /\ \A u \in Task : u # t => r.notify[u] = kk.notify[u]
    /\ r.notify[t] \in {kk.notify[t], "received"}

\* A task made ready by the tick or a notification owes nothing to its
\* notification.
LEMMA NotifiedRoused ==
    ASSUME NEW kk \in KernelState, NEW td, NEW may, Notified(kk, td, may),
           NEW r, NEW t \in Task, Roused(kk, r, t)
    PROVE  Notified(r, td, may)
<1>1. kk.live \subseteq Task
  BY FieldTypes
<1>2. ASSUME NEW u \in kk.live, r.notify[u] = "waiting"
      PROVE  Waiting(r, td, u)
  BY <1>1, <1>2 DEF Notified, Roused, Waiting
<1>3. ASSUME NEW u \in kk.live, EndsWait(td[u]), r.notify[u] # "waiting"
      PROVE  Awake(r, may, u)
  BY <1>1, <1>3 DEF Notified, Roused, Awake, Elsewhere
<1> QED  BY <1>2, <1>3 DEF Notified, Roused

\* The running task yields to it, or a yield is pending, if its priority is higher.
LEMMA RestRoused ==
    ASSUME NEW kk \in KernelState, NEW td, NEW may, RestInv(kk, td, may),
           NEW r, NEW t \in Task, Roused(kk, r, t), SuspendInv(r, td),
           OpOf(td[kk.current]) \notin CheckOps \cup {"wait"},
           r.susp # 0 \/ r.cpu \in {"drain", "drainMore"} \/ \A u \in Task : ~Parked(kk, u),
           \/ r.cpu = "tick"
           \/ /\ kk.cpu # "tick"
              /\ r.yield \/ (~kk.yield /\ ~(kk.prio[t] > kk.prio[kk.current]))
    PROVE  RestInv(r, td, may)
<1>1. /\ RunningInv(kk, td) /\ ParkedInv(kk) /\ Notified(kk, td, may) /\ HighestInv(kk, td)
      /\ kk.current \in Task
  BY FieldTypes DEF RestInv, NotifyInv
<1>2. Notified(r, td, may)
  BY <1>1, NotifiedRoused
<1>3. RunningInv(r, td)
  BY <1>1 DEF RunningInv, Roused, Elsewhere
<1>4. ParkedInv(r)
  BY <1>1 DEF ParkedInv, Roused, Elsewhere
<1>5. NotifyInv(r, td, may)
  BY <1>2 DEF NotifyInv, Roused
<1>6. HighestInv(r, td)
  BY <1>1 DEF HighestInv, Roused, Elsewhere
<1> QED  BY <1>3, <1>4, <1>5, <1>6 DEF RestInv

\* The processor chooses a task to run.
LEMMA SwitchKeeps ==
    ASSUME IInv, NEW a, KernelInv(a, allocated'), a.susp = 0, ~Ticking(a) \/ DueLater(a),
           k' = [vTaskSwitchContext(a) EXCEPT !.cpu = "task"],
           todo' \in [Task -> Seq(Work)], WorkInv(todo', a.live, allocated'),
           \A u \in Task : AtRest(todo'[u]), \A u \in Task : ~Parked(a, u),
           Notified(a, todo', MaySuspend),
           value' \in [Task -> NotifyValues], previous' \in [Task -> Tick],
           allocated' \in SUBSET Task, app' = app
    PROVE  IInv'
<1>1. KernelInv(k', allocated') /\ Chosen(a, k')
  BY SwitchChooses
<1>2. k' \in KernelState /\ a \in KernelState
  BY <1>1 DEF KernelInv, Sound
<1>3. RestInv(k', todo', MaySuspend)
  BY <1>1, <1>2, RestChosen
<1>4. WorkInv(todo', k'.live, allocated')
  BY <1>1 DEF Chosen, SeenAlike
<1> QED  BY <1>1, <1>2, <1>3, <1>4, Together

\* A step of a loop of the processor that moves no task keeps the invariant.
LEMMA QuietLoopKeeps ==
    ASSUME IInv, Quietly(k, k'), ~Ticking(k), ~Ticking(k'), SuspendInv(k', todo),
           k'.yield \/ ~k.yield,
           \/ k'.susp # 0 \/ k'.cpu \in {"drain", "drainMore"}
           \/ \A t \in Task : ~Parked(k, t),
           UNCHANGED <<todo, value, previous, allocated, app>>
    PROVE  IInv'
<1>1. KernelInv(k, allocated)
  BY StateFacts
<1>2. /\ k' \in KernelState /\ SameLists(k, k') /\ k'.prio = k.prio /\ k'.base = k.base
      /\ k'.live = k.live /\ k'.tick = k.tick /\ k'.top = k.top
      /\ k'.notify = k.notify /\ k'.current = k.current
      /\ k'.next = k.next \/ UnblockEarly(k')
  BY DEF Quietly
<1>3. k'.current \in k'.live
  BY <1>1, <1>2 DEF KernelInv
<1>4. (Ticking(k') <=> Ticking(k)) \/ (~Ticking(k') /\ DueLater(k))
  OBVIOUS
<1>5. KernelInv(k', allocated) /\ SeenAlike(k, k')
  BY <1>1, <1>2, <1>3, <1>4, KernelSame
<1>6. k.cpu # "tick"
  BY DEF Ticking
<1> QED  BY <1>2, <1>5, <1>6, LoopKeeps

\* A step of a loop of the processor that makes a task ready keeps the
\* invariant.
LEMMA RousedKeeps ==
    ASSUME IInv, KernelInv(k', allocated), NEW t \in Task, Roused(k, k', t),
           SuspendInv(k', todo), OpOf(todo[Me]) \notin CheckOps \cup {"wait"},
           k'.susp # 0 \/ k'.cpu \in {"drain", "drainMore"} \/ \A u \in Task : ~Parked(k, u),
           \/ k'.cpu = "tick"
           \/ /\ k.cpu # "tick"
              /\ k'.yield \/ (~k.yield /\ ~(k.prio[t] > k.prio[Me])),
           UNCHANGED <<todo, previous, allocated, app>>, value' \in [Task -> NotifyValues]
    PROVE  IInv'
<1>1. /\ k \in KernelState /\ RestInv(k, todo, MaySuspend)
      /\ todo \in [Task -> Seq(Work)] /\ WorkInv(todo, k.live, allocated)
  BY StateFacts
<1>2. RestInv(k', todo, MaySuspend)
  BY <1>1, RestRoused DEF Me
<1>3. k' \in KernelState /\ k'.live = k.live
  BY DEF KernelInv, Sound, Roused
<1>4. todo' = todo /\ allocated' = allocated /\ app' = app
  OBVIOUS
<1>5. WorkInv(todo', k'.live, allocated') /\ KernelInv(k', allocated') /\ RestInv(k', todo', MaySuspend)
  BY <1>1, <1>2, <1>3, <1>4
<1>6. /\ previous' \in [Task -> Tick]
      /\ allocated' \in SUBSET Task /\ todo' \in [Task -> Seq(Work)]
  BY <1>1 DEF IInv, TypeOK
<1> QED  BY <1>3, <1>4, <1>5, <1>6, Together

-----------------------------------------------------------------------------
(* The tick interrupt. *)

\* The tick interrupt: it counts the tick, or counts it as pended.
LEMMA TickInterruptKeeps ==
    ASSUME IInv, TickInterrupt
    PROVE  IInv'
<1>1. /\ k.cpu = "task" /\ ~Ticking(k) /\ UNCHANGED <<todo, value, previous, allocated, app>>
      /\ k \in KernelState /\ KernelInv(k, allocated) /\ SuspendInv(k, todo) /\ ParkedInv(k)
  BY StateFacts DEF TickInterrupt, InterruptsOn, Ticking
<1>2. CASE k.susp = 0 /\ k' = [IncrementTick(k) EXCEPT !.cpu = "tick"]
  <2>1. /\ KernelInv(k', allocated) /\ SeenAlike(k, k') /\ k'.notify = k.notify
        /\ k'.current = k.current /\ k'.susp = k.susp /\ k'.yield = k.yield /\ k'.cpu = "tick"
    BY <1>1, <1>2, KernelTicks
  <2>2. SuspendInv(k', todo)
    BY <1>1, <1>2, <2>1 DEF SuspendInv, AtRest
  <2>3. \A t \in Task : ~Parked(k, t)
    BY <1>1, <1>2 DEF ParkedInv
  <2>4. k'.yield \/ ~k.yield
    BY <2>1, Zenon
  <2> QED  BY <1>1, <2>1, <2>2, <2>3, <2>4, LoopKeeps
<1>3. CASE k.susp # 0 /\ k' = vTaskSwitchContext([k EXCEPT !.pended = @ + 1])
  <2>1. k.pended + 1 \in Nat
    BY <1>1, FieldTypes
  <2>2. k' = [k EXCEPT !.pended = k.pended + 1, !.yield = TRUE]
    BY <1>1, <1>3 DEF vTaskSwitchContext, KernelState
  <2>3. k' \in KernelState /\ k'.yield = TRUE /\ k'.susp = k.susp /\ k'.cpu = k.cpu
    BY <1>1, <2>1, <2>2 DEF KernelState
  <2>4. Quietly(k, k')
    BY <1>1, <2>2, <2>3 DEF Quietly, SameLists, KernelState
  <2>5. SuspendInv(k', todo)
    BY <1>1, <2>3, <2>4 DEF SuspendInv, Quietly
  <2>6. ~Ticking(k')
    BY <1>1, <2>3 DEF Ticking
  <2> QED  BY <1>1, <1>3, <2>3, <2>4, <2>5, <2>6, QuietLoopKeeps
<1> QED  BY <1>2, <1>3 DEF TickInterrupt

\* The Roused of a task that wakes by itself.
LEMMA WokenIsRoused ==
    ASSUME NEW kk, NEW r, NEW t \in Task, Woken(kk, r, t),
           \A u \in Task : Parked(r, u) <=> u # t /\ Parked(kk, u)
    PROVE  Roused(kk, r, t)
BY DEF Woken, Roused, Keeps, KeepsTasks, KeepsProcessor

\* The tick interrupt readies the first sleeper.
LEMMA TickUnblocks ==
    ASSUME IInv, TickUnblock
    PROVE  LET t == Head(k.list[Delayed])
           IN  /\ t \in Task /\ t \in k.live /\ IsIn(k, t, Delayed) /\ k.wake[t] <= k.tick
               /\ KernelInv(k', allocated) /\ Roused(k, k', t)
               /\ k'.current = k.current /\ k'.susp = k.susp /\ k'.cpu = "tick"
<1> DEFINE t == Head(k.list[Delayed])
<1>1. t \in k.live => t \in Task
  BY StateFacts
<1>2. /\ t \in k.live /\ IsIn(k, t, Delayed) /\ k.wake[t] <= k.tick
      /\ KernelInv(k', allocated) /\ Woken(k, k', t)
      /\ \A u \in Task : Parked(k', u) <=> u # t /\ Parked(k, u)
  BY StateFacts, KernelUnblocks DEF TickUnblock
<1>3. k.cpu = "tick"
  BY DEF TickUnblock
<1> HIDE DEF t
<1>4. Roused(k, k', t) /\ k'.current = k.current /\ k'.susp = k.susp /\ k'.cpu = "tick"
  BY <1>1, <1>2, <1>3, WokenIsRoused DEF Woken, Keeps, KeepsProcessor
<1> QED  BY <1>1, <1>2, <1>4 DEF t

\* And the invariant holds after that.
LEMMA TickUnblockKeeps ==
    ASSUME IInv, TickUnblock
    PROVE  IInv'
<1> DEFINE t == Head(k.list[Delayed])
<1>1. /\ k.cpu = "tick" /\ UNCHANGED <<todo, value, previous, allocated, app>>
      /\ KernelInv(k, allocated) /\ SuspendInv(k, todo) /\ ParkedInv(k) /\ k.live \subseteq Task
  BY StateFacts DEF TickUnblock
<1>2. KernelInv(k', allocated)
  BY TickUnblocks
<1>3. t \in Task /\ Roused(k, k', t) /\ k'.current = k.current /\ k'.susp = k.susp /\ k'.cpu = "tick"
  BY TickUnblocks
<1> HIDE DEF t
<1>4. SuspendInv(k', todo)
  BY <1>1, <1>3 DEF SuspendInv
<1>5. OpOf(todo[Me]) \notin CheckOps \cup {"wait"}
  BY <1>1 DEF SuspendInv, AtRest, Me
<1>6. \A u \in Task : ~Parked(k, u)
  BY <1>1 DEF ParkedInv, SuspendInv
<1>7. value' \in [Task -> NotifyValues]
  BY <1>1 DEF IInv, TypeOK
<1> QED  BY <1>1, <1>2, <1>3, <1>4, <1>5, <1>6, <1>7, RousedKeeps

\* A step that leaves lists and notifications alone keeps what is said of the
\* notifications.
LEMMA NotifiedAlike ==
    ASSUME NEW kk \in KernelState, NEW td, NEW may, Notified(kk, td, may),
           NEW r, SeenAlike(kk, r), r.notify = kk.notify
    PROVE  Notified(r, td, may)
<1>1. /\ kk.live \subseteq Task /\ r.live = kk.live
      /\ \A t \in Task : Awake(r, may, t) <=> Awake(kk, may, t)
      /\ \A t \in Task : Waiting(r, td, t) <=> Waiting(kk, td, t)
  BY FieldTypes, AlikeFacts DEF SeenAlike
<1> QED  BY <1>1 DEF Notified

\* The end of the tick interrupt, with its context switch.
LEMMA TickEndKeeps ==
    ASSUME IInv, TickEnd
    PROVE  IInv'
<1> DEFINE a == AfterTickLoop(k)
<1>1. /\ k.cpu = "tick" /\ Ticking(k) /\ TickIsOver(k)
      /\ k' = [vTaskSwitchContext(a) EXCEPT !.cpu = "task"]
      /\ UNCHANGED <<todo, value, previous, allocated, app>>
      /\ k \in KernelState /\ KernelInv(k, allocated) /\ SuspendInv(k, todo) /\ ParkedInv(k)
      /\ NotifyInv(k, todo, MaySuspend) /\ todo \in [Task -> Seq(Work)]
      /\ WorkInv(todo, k.live, allocated)
  BY StateFacts DEF TickEnd, Ticking
<1>2. KernelInv(a, allocated) /\ SeenAlike(k, a) /\ DueLater(a) /\ Keeps(k, a)
  BY <1>1, KernelLoopEnds
<1> HIDE DEF a
<1>3. k.susp = 0 /\ a.susp = 0 /\ a.live = k.live /\ a.notify = k.notify
  BY <1>1, <1>2 DEF SuspendInv, Keeps, KeepsTasks, KeepsProcessor
<1>4. \A u \in Task : AtRest(todo[u])
  BY <1>1 DEF SuspendInv
<1>5. \A u \in Task : ~Parked(k, u)
  BY <1>1, <1>3 DEF ParkedInv
<1>6. \A u \in Task : ~Parked(a, u)
  BY <1>1, <1>2, <1>5, AlikeFacts
<1>7. Notified(a, todo, MaySuspend)
  BY <1>1, <1>2, <1>3, NotifiedAlike DEF NotifyInv
<1>8. todo' = todo /\ allocated' = allocated /\ app' = app
  BY <1>1
<1>9. /\ KernelInv(a, allocated') /\ todo' \in [Task -> Seq(Work)] /\ WorkInv(todo', a.live, allocated')
      /\ \A u \in Task : AtRest(todo'[u])
      /\ Notified(a, todo', MaySuspend)
  BY <1>1, <1>2, <1>3, <1>4, <1>7, <1>8
<1>10. /\ value' \in [Task -> NotifyValues] /\ previous' \in [Task -> Tick]
       /\ allocated' \in SUBSET Task
  BY <1>1 DEF IInv, TypeOK
<1> QED  BY <1>1, <1>2, <1>3, <1>6, <1>8, <1>9, <1>10, SwitchKeeps

-----------------------------------------------------------------------------
(* xTaskResumeAll. *)

\* xTaskResumeAll, up to its loops.
LEMMA ResumeAllKeeps ==
    ASSUME IInv, ResumeAll
    PROVE  IInv'
<1> DEFINE s == todo[Me]
<1>1. Running("resumeAll") /\ UNCHANGED <<value, previous, allocated, app>>
  BY DEF ResumeAll
<1>2. /\ k.cpu = "task" /\ ~Ticking(k) /\ s # <<>> /\ OpOf(s) = "resumeAll"
      /\ Rest = Tail(s) /\ Len(s) \in Nat /\ Len(s) >= 1
      /\ Rest = <<>> <=> Len(s) = 1
      /\ s \in Seq(Work) /\ Shape(s) /\ k \in KernelState
  BY <1>1, RunningFacts, StateFacts
<1>3. /\ s[1].op = "resumeAll"
      /\ EndsWait(Rest) <=> EndsWait(s)
      /\ AtRest(Rest) /\ (YieldsNext(s) => YieldsNext(Rest))
  BY <1>2, AfterFirst
<1>4. /\ k.susp > 0 /\ (Len(s) > 1 => k.susp = 1)
      /\ Me = Idle => k.susp = 1
      /\ SuspendInv(k, todo) /\ RunningInv(k, todo)
  BY <1>2, StateFacts DEF SuspendInv, AtRest, Me
<1>5. CASE k.susp = 1 /\ k' = [k EXCEPT !.susp = 0, !.cpu = "drain"] /\ todo' = todo
  <2>1. k' \in KernelState /\ k'.susp = 0 /\ k'.cpu = "drain" /\ k'.yield = k.yield
    BY <1>2, <1>5 DEF KernelState, CpuModes
  <2>2. Quietly(k, k')
    BY <1>2, <1>5, <2>1 DEF Quietly, SameLists, KernelState
  <2>3. SuspendInv(k', todo)
    BY <1>2, <1>4, <2>1, <2>2 DEF SuspendInv, Quietly, Me
  <2>4. ~Ticking(k')
    BY <2>1 DEF Ticking
  <2>5. k'.yield \/ ~k.yield
    BY <2>1, Zenon
  <2> QED  BY <1>1, <1>2, <1>5, <2>1, <2>2, <2>3, <2>4, <2>5, QuietLoopKeeps
<1>6. CASE k.susp > 1 /\ k' = [k EXCEPT !.susp = @ - 1] /\ Done
  <2> DEFINE n == k.susp - 1
  <2>1. Rest = <<>> /\ Len(s) = 1 /\ Me # Idle /\ n \in Nat /\ n # 0 /\ k' = [k EXCEPT !.susp = n]
    BY <1>2, <1>4, <1>6, FieldTypes
  <2> HIDE DEF n
  <2>2. k' \in KernelState /\ k'.susp # 0 /\ k'.cpu = "task" /\ k'.yield = k.yield
    BY <1>2, <2>1 DEF KernelState
  <2>3. Quietly(k, k')
    BY <1>2, <2>1, <2>2 DEF Quietly, SameLists, KernelState
  <2>4. OpOf(Rest) = "none"
    BY <2>1 DEF OpOf
  <2>5. IsReady(k, Me)
    BY <1>2, <1>3, <1>4, <2>1 DEF RunningInv, YieldsNext, Me
  <2> QED  BY <1>1, <1>3, <1>6, <2>1, <2>2, <2>3, <2>4, <2>5, DoneKeeps
<1> QED  BY <1>5, <1>6 DEF ResumeAll

\* In the critical section of xTaskResumeAll the work item is still there.
LEMMA ReplayFacts ==
    ASSUME IInv, k.cpu \in {"drain", "drainMore", "replay", "replayTick"}
    PROVE  /\ k \in KernelState /\ KernelInv(k, allocated) /\ k.susp = 0
           /\ OpOf(todo[Me]) = "resumeAll" /\ todo[Me] # <<>>
           /\ SuspendInv(k, todo) /\ ParkedInv(k) /\ k.cpu # "tick"
           /\ k.live \subseteq Task /\ Me \in Task
           /\ \A r : r.susp = 0 /\ r.cpu \in {"drain", "drainMore", "replay", "replayTick"}
                     /\ r.current = k.current /\ (r.cpu = "replayTick" => r.pended > 0)
                         => SuspendInv(r, todo)
           /\ k.cpu = "replayTick" => k.pended > 0
<1>1. /\ k \in KernelState /\ KernelInv(k, allocated) /\ SuspendInv(k, todo) /\ ParkedInv(k)
      /\ k.live \subseteq Task /\ Me \in Task
  BY StateFacts
<1>2. k.susp = 0 /\ OpOf(todo[Me]) = "resumeAll"
  BY <1>1 DEF SuspendInv, Me
<1>3. todo[Me] # <<>>
  BY <1>2 DEF OpOf
<1> QED  BY <1>1, <1>2, <1>3 DEF SuspendInv, Me

\* xTaskResumeAll readies the first task of xPendingReadyList.
LEMMA DrainReadies ==
    ASSUME IInv, DrainPending
    PROVE  LET t == Head(k.event[PendingReady])
           IN  /\ t \in Task /\ Parked(k, t) /\ KernelInv(k', allocated) /\ Roused(k, k', t)
               /\ k'.notify = k.notify /\ k'.cpu = "drainMore" /\ SuspendInv(k', todo)
               /\ k'.yield \/ (~k.yield /\ ~(k.prio[t] > k.prio[Me]))
<1> DEFINE t == Head(k.event[PendingReady])
<1> DEFINE a == [k EXCEPT !.event[PendingReady] = Tail(k.event[PendingReady])]
<1> DEFINE b == [a EXCEPT !.cpu = "drainMore"]
<1> DEFINE c == MakeReady(b, t)
<1> DEFINE y == c.yield \/ c.prio[t] > c.prio[c.current]
<1>1. /\ k.cpu \in {"drain", "drainMore"} /\ k.event[PendingReady] # <<>>
      /\ UNCHANGED <<todo, value, previous, allocated, app>>
  BY DEF DrainPending
<1>2. /\ k \in KernelState /\ KernelInv(k, allocated) /\ k.susp = 0 /\ ParkedInv(k)
      /\ OpOf(todo[Me]) = "resumeAll" /\ k.live \subseteq Task /\ ~Ticking(k)
      /\ \A r : r.susp = 0 /\ r.cpu \in {"drain", "drainMore", "replay", "replayTick"}
                /\ r.current = k.current /\ (r.cpu = "replayTick" => r.pended > 0)
                    => SuspendInv(r, todo)
  BY <1>1, ReplayFacts DEF Ticking
<1>3. t \in Task /\ Parked(k, t) /\ Unlinked(k, a, t)
  BY <1>1, <1>2, EventHeadUnlinked, ListNames DEF Parked, KernelInv, Sound
<1>4. k' = [c EXCEPT !.yield = y]
  <2>1. b = [k EXCEPT !.event[PendingReady] = Tail(@), !.cpu = "drainMore"]
    BY <1>2 DEF KernelState
  <2> QED  BY <2>1 DEF DrainPending, PendYieldIfHigher
<1> HIDE DEF t, a
<1>5. t \in k.live
  BY <1>2, <1>3 DEF ParkedInv
<1>6. KernelInv(a, allocated) /\ SameRest(k, a) /\ a \in KernelState /\ SamePlaces(k, a)
  <2>1. \A e \in WaitLists, u \in Task : ~Occurs(a.event[e], u)
    BY <1>2, <1>3, ListNames DEF Unlinked, KernelInv
  <2> QED  BY <1>2, <1>3, <2>1, KernelEvents DEF Unlinked
<1>7. /\ b \in KernelState /\ SameLists(a, b) /\ b.cpu = "drainMore"
      /\ b.prio = k.prio /\ b.base = k.base /\ b.live = k.live /\ b.current = k.current
      /\ b.tick = k.tick /\ b.top = k.top /\ b.next = k.next /\ b.yield = k.yield
      /\ b.notify = k.notify /\ b.susp = k.susp
      /\ a.prio = k.prio /\ a.base = k.base /\ a.live = k.live /\ a.current = k.current
      /\ a.tick = k.tick /\ a.top = k.top /\ a.next = k.next /\ a.cpu = k.cpu
  BY <1>6 DEF KernelState, CpuModes, SameLists, SameRest, Keeps, KeepsTasks, KeepsClock, KeepsProcessor
<1> HIDE DEF b
<1>8. KernelInv(b, allocated)
  <2>1. b.current \in b.live
    BY <1>2, <1>7 DEF KernelInv
  <2>2. (Ticking(b) <=> Ticking(a)) \/ (~Ticking(b) /\ DueLater(a))
    BY <1>1, <1>7 DEF Ticking
  <2> QED  BY <1>6, <1>7, <2>1, <2>2, KernelSame
<1>9. KernelInv(c, allocated) /\ Woken(b, c, t) /\ c.event = b.event
  BY <1>5, <1>7, <1>8, KernelMakesReady
<1> HIDE DEF c
<1>10. c \in KernelState /\ y \in BOOLEAN /\ c.prio = k.prio /\ c.current = k.current /\ c.yield = k.yield
       /\ c.cpu = "drainMore" /\ c.susp = 0 /\ c.live = k.live /\ c.notify = k.notify
  BY <1>2, <1>7, <1>9 DEF KernelInv, Sound, Woken, Keeps, KeepsTasks, KeepsProcessor
<1>11. y <=> k.yield \/ k.prio[t] > k.prio[Me]
  BY <1>10 DEF Me
<1> HIDE DEF y
<1>12. /\ k' \in KernelState /\ SameLists(c, k') /\ k'.prio = c.prio /\ k'.base = c.base
       /\ k'.live = c.live /\ k'.tick = c.tick /\ k'.top = c.top /\ k'.next = c.next
       /\ k'.current = c.current /\ k'.notify = c.notify /\ k'.susp = 0 /\ k'.cpu = "drainMore"
       /\ k'.yield = y
  BY <1>4, <1>10 DEF KernelState, SameLists
<1>13. KernelInv(k', allocated) /\ SeenAlike(c, k')
  <2>1. k'.current \in k'.live
    BY <1>9, <1>12 DEF KernelInv
  <2>2. Ticking(k') <=> Ticking(c)
    BY <1>10, <1>12 DEF Ticking
  <2> QED  BY <1>9, <1>12, <2>1, <2>2, KernelSame
<1>14. Roused(k, k', t)
  <2>1. \A u \in Task : /\ IsReady(k', u) <=> IsReady(c, u)
                        /\ IsIn(k', u, Suspended) <=> IsIn(c, u, Suspended)
    BY <1>10, <1>13, AlikeFacts
  <2>2. \A u \in Task : u # t =>
            /\ IsReady(c, u) <=> IsReady(b, u)
            /\ IsIn(c, u, Suspended) <=> IsIn(b, u, Suspended)
    BY <1>9 DEF Woken, Elsewhere
  <2>3. \A u \in Task : /\ IsReady(b, u) <=> IsReady(k, u)
                        /\ IsIn(b, u, Suspended) <=> IsIn(k, u, Suspended)
    BY <1>3, <1>7 DEF IsReady, IsIn, SameLists, Unlinked, SameStates
  <2>4. IsReady(k', t) /\ ~IsIn(k', t, Suspended)
    BY <1>3, <1>9, <2>1 DEF Woken
  <2>5. \A u \in Task : Parked(k', u) <=> u # t /\ Parked(k, u)
    BY <1>3, <1>7, <1>9, <1>12, ListNames DEF Parked, SameLists, Unlinked
  <2> QED  BY <1>10, <1>12, <2>1, <2>2, <2>3, <2>4, <2>5 DEF Roused, Elsewhere
<1>15. SuspendInv(k', todo)
  BY <1>2, <1>10, <1>12
<1>16. k'.yield \/ (~k.yield /\ ~(k.prio[t] > k.prio[Me]))
  BY <1>11, <1>12, Zenon
<1> QED  BY <1>3, <1>10, <1>12, <1>13, <1>14, <1>15, <1>16 DEF t

\* And the invariant holds after that.
LEMMA DrainPendingKeeps ==
    ASSUME IInv, DrainPending
    PROVE  IInv'
<1> DEFINE t == Head(k.event[PendingReady])
<1>1. /\ t \in Task /\ KernelInv(k', allocated) /\ Roused(k, k', t) /\ k'.cpu = "drainMore"
      /\ SuspendInv(k', todo)
      /\ k'.yield \/ (~k.yield /\ ~(k.prio[t] > k.prio[Me]))
  BY DrainReadies
<1> HIDE DEF t
<1>2. k.cpu \in {"drain", "drainMore"} /\ UNCHANGED <<todo, value, previous, allocated, app>>
  BY DEF DrainPending
<1>3. /\ value' \in [Task -> NotifyValues] /\ k.cpu # "tick"
      /\ OpOf(todo[Me]) \notin CheckOps \cup {"wait"}
  BY <1>2, ReplayFacts DEF IInv, TypeOK
<1>4. k'.yield \/ (~k.yield /\ ~(k.prio[t] > k.prio[Me]))
  BY <1>1, Zenon
<1> QED  BY <1>1, <1>2, <1>3, <1>4, RousedKeeps

\* The end of the loop over xPendingReadyList.
LEMMA DrainEndKeeps ==
    ASSUME IInv, DrainEnd
    PROVE  IInv'
<1> DEFINE a == prvResetNextTaskUnblockTime(k)
<1> DEFINE b == IF k.cpu = "drainMore" THEN a ELSE k
<1>1. /\ k.cpu \in {"drain", "drainMore"} /\ k.event[PendingReady] = <<>>
      /\ k' = [b EXCEPT !.cpu = "replay"]
      /\ UNCHANGED <<todo, value, previous, allocated, app>>
  BY DEF DrainEnd
<1>2. /\ k \in KernelState /\ KernelInv(k, allocated) /\ k.susp = 0 /\ ~Ticking(k)
      /\ \A r : r.susp = 0 /\ r.cpu \in {"drain", "drainMore", "replay", "replayTick"}
                /\ r.current = k.current /\ (r.cpu = "replayTick" => r.pended > 0)
                    => SuspendInv(r, todo)
  BY <1>1, ReplayFacts DEF Ticking
<1>3. NextReset(k, a)
  BY <1>2, ResetSound DEF KernelInv
<1>4. NextReset(k, b)
  BY <1>2, <1>3 DEF NextReset, SameLists, Keeps, KeepsTasks, KeepsClock, KeepsProcessor, KernelInv
<1> HIDE DEF a, b
<1>5. /\ k' \in KernelState /\ k'.list = b.list /\ k'.index = b.index /\ k'.event = b.event
      /\ k'.wake = b.wake /\ k'.prio = b.prio /\ k'.base = b.base /\ k'.live = b.live
      /\ k'.notify = b.notify /\ k'.current = b.current /\ k'.tick = b.tick /\ k'.top = b.top
      /\ k'.next = b.next /\ k'.cpu = "replay" /\ k'.susp = b.susp /\ k'.yield = b.yield
  BY <1>1, <1>4 DEF NextReset, KernelState, CpuModes
<1>6. Quietly(k, k')
  <2>1. UnblockEarly(k')
    BY <1>4, <1>5 DEF NextReset, UnblockEarly, IsIn
  <2> QED  BY <1>4, <1>5, <2>1
           DEF Quietly, NextReset, SameLists, Keeps, KeepsTasks, KeepsClock, KeepsProcessor
<1>7. k'.susp = 0 /\ k'.current = k.current /\ k'.yield = k.yield
  BY <1>2, <1>4, <1>5 DEF NextReset, Keeps, KeepsProcessor
<1>8. SuspendInv(k', todo) /\ ~Ticking(k')
  BY <1>2, <1>5, <1>7 DEF Ticking
<1>9. \A t \in Task : ~Parked(k, t)
  BY <1>1, EmptyHoldsNone DEF Parked
<1>10. k'.yield \/ ~k.yield
  BY <1>7, Zenon
<1> QED  BY <1>1, <1>2, <1>6, <1>8, <1>9, <1>10, QuietLoopKeeps

\* xTaskResumeAll counts a tick that pended.
LEMMA ReplayTickKeeps ==
    ASSUME IInv, ReplayTick
    PROVE  IInv'
<1>1. /\ k.cpu = "replay" /\ k' = [IncrementTick(k) EXCEPT !.cpu = "replayTick"]
      /\ UNCHANGED <<todo, value, previous, allocated, app>> /\ ~Ticking(k)
  BY DEF ReplayTick, Ticking
<1>2. /\ k \in KernelState /\ KernelInv(k, allocated) /\ k.susp = 0 /\ ParkedInv(k)
      /\ \A r : r.susp = 0 /\ r.cpu \in {"drain", "drainMore", "replay", "replayTick"}
                /\ r.current = k.current /\ (r.cpu = "replayTick" => r.pended > 0)
                    => SuspendInv(r, todo)
  BY <1>1, ReplayFacts
<1>3. /\ KernelInv(k', allocated) /\ SeenAlike(k, k') /\ k'.notify = k.notify
      /\ k'.current = k.current /\ k'.susp = k.susp /\ k'.yield = k.yield /\ k'.cpu = "replayTick"
      /\ k'.pended = k.pended /\ k.pended > 0
  <2>1. KernelInv(k, allocated) /\ ~Ticking(k) /\ "replayTick" \in {"tick", "replayTick"}
    BY <1>1, <1>2
  <2> DEFINE r == [IncrementTick(k) EXCEPT !.cpu = "replayTick"]
  <2>2. k' = r
    BY <1>1
  <2>3. /\ KernelInv(r, allocated) /\ SeenAlike(k, r) /\ r.notify = k.notify
        /\ r.current = k.current /\ r.susp = k.susp /\ r.yield = k.yield /\ r.cpu = "replayTick"
        /\ r.pended = k.pended
    BY <2>1, KernelTicks
  <2>4. k.pended > 0
    BY DEF ReplayTick
  <2> HIDE DEF r
  <2> QED  BY <2>2, <2>3, <2>4
<1>4. SuspendInv(k', todo)
  BY <1>2, <1>3
<1>5. \A t \in Task : ~Parked(k, t)
  BY <1>1, <1>2 DEF ParkedInv
<1>6. k'.yield \/ ~k.yield
  BY <1>3, Zenon
<1> QED  BY <1>1, <1>3, <1>4, <1>5, <1>6, LoopKeeps

\* A replayed tick readies the first sleeper.
LEMMA ReplayUnblocks ==
    ASSUME IInv, ReplayUnblock
    PROVE  LET t == Head(k.list[Delayed])
           IN  /\ t \in Task /\ t \in k.live /\ IsIn(k, t, Delayed) /\ k.wake[t] <= k.tick
               /\ k.cpu = "replayTick" /\ KernelInv(k', allocated) /\ Roused(k, k', t)
               /\ SuspendInv(k', todo)
               /\ k'.yield \/ (~k.yield /\ ~(k.prio[t] > k.prio[Me]))
<1> DEFINE t == Head(k.list[Delayed])
<1> DEFINE a == UnblockHead(k)
<1> DEFINE y == a.yield \/ a.prio[t] > a.prio[a.current]
<1>1. /\ k.cpu = "replayTick" /\ k' = [a EXCEPT !.yield = y] /\ ~TickIsOver(k)
      /\ UNCHANGED <<todo, value, previous, allocated, app>> /\ k.cpu # "tick"
  BY DEF ReplayUnblock, PendYieldIfHigher
<1>2. /\ k \in KernelState /\ KernelInv(k, allocated) /\ k.susp = 0 /\ ParkedInv(k)
      /\ k.live \subseteq Task /\ OpOf(todo[Me]) = "resumeAll" /\ k.pended > 0
      /\ \A r : r.susp = 0 /\ r.cpu \in {"drain", "drainMore", "replay", "replayTick"}
                /\ r.current = k.current /\ (r.cpu = "replayTick" => r.pended > 0)
                    => SuspendInv(r, todo)
  BY <1>1, ReplayFacts
<1>3. /\ t \in k.live /\ KernelInv(a, allocated) /\ Woken(k, a, t)
      /\ IsIn(k, t, Delayed) /\ k.wake[t] <= k.tick
      /\ \A u \in Task : Parked(a, u) <=> u # t /\ Parked(k, u)
  BY <1>1, <1>2, KernelUnblocks
<1> HIDE DEF t, a
<1>4. t \in Task /\ Roused(k, a, t)
  BY <1>2, <1>3, WokenIsRoused
<1>5. a \in KernelState /\ y \in BOOLEAN /\ a.prio = k.prio /\ a.current = k.current /\ a.yield = k.yield
      /\ a.cpu = "replayTick" /\ a.susp = 0 /\ a.live = k.live /\ a.pended = k.pended
  BY <1>1, <1>2, <1>3 DEF KernelInv, Sound, Woken, Keeps, KeepsTasks, KeepsProcessor, KeepsClock
<1>6. y <=> k.yield \/ k.prio[t] > k.prio[Me]
  BY <1>5 DEF Me
<1> HIDE DEF y
<1>7. /\ k' \in KernelState /\ SameLists(a, k') /\ k'.prio = a.prio /\ k'.base = a.base
      /\ k'.live = a.live /\ k'.tick = a.tick /\ k'.top = a.top /\ k'.next = a.next
      /\ k'.current = a.current /\ k'.notify = a.notify /\ k'.susp = 0 /\ k'.cpu = "replayTick"
      /\ k'.yield = y /\ k'.pended = a.pended
  BY <1>1, <1>5 DEF KernelState, SameLists
<1>8. KernelInv(k', allocated) /\ SeenAlike(a, k')
  <2>1. k'.current \in k'.live
    BY <1>3, <1>7 DEF KernelInv
  <2>2. Ticking(k') <=> Ticking(a)
    BY <1>5, <1>7 DEF Ticking
  <2> QED  BY <1>3, <1>7, <2>1, <2>2, KernelSame
<1>9. Roused(k, k', t)
  <2>1. \A u \in Task : /\ IsReady(k', u) <=> IsReady(a, u)
                        /\ IsIn(k', u, Suspended) <=> IsIn(a, u, Suspended)
                        /\ Parked(k', u) <=> Parked(a, u)
    BY <1>5, <1>8, AlikeFacts
  <2> QED  BY <1>4, <1>5, <1>7, <2>1 DEF Roused, Elsewhere
<1>10. SuspendInv(k', todo)
  BY <1>2, <1>5, <1>7
<1>11. k'.yield \/ (~k.yield /\ ~(k.prio[t] > k.prio[Me]))
  BY <1>6, <1>7, Zenon
<1> QED  BY <1>1, <1>3, <1>4, <1>8, <1>9, <1>10, <1>11 DEF t

\* And the invariant holds after that.
LEMMA ReplayUnblockKeeps ==
    ASSUME IInv, ReplayUnblock
    PROVE  IInv'
<1> DEFINE t == Head(k.list[Delayed])
<1>1. /\ t \in Task /\ k.cpu = "replayTick" /\ KernelInv(k', allocated) /\ Roused(k, k', t)
      /\ SuspendInv(k', todo)
      /\ k'.yield \/ (~k.yield /\ ~(k.prio[t] > k.prio[Me]))
  BY ReplayUnblocks
<1> HIDE DEF t
<1>2. UNCHANGED <<todo, value, previous, allocated, app>>
  BY DEF ReplayUnblock
<1>3. /\ value' \in [Task -> NotifyValues]
      /\ \A u \in Task : ~Parked(k, u)
      /\ OpOf(todo[Me]) \notin CheckOps \cup {"wait"}
  BY <1>1, <1>2, ReplayFacts DEF IInv, TypeOK, ParkedInv
<1>4. k'.yield \/ (~k.yield /\ ~(k.prio[t] > k.prio[Me]))
  BY <1>1, Zenon
<1> QED  BY <1>1, <1>2, <1>3, <1>4, RousedKeeps

\* The end of a pended tick.
LEMMA ReplayTickEndKeeps ==
    ASSUME IInv, ReplayTickEnd
    PROVE  IInv'
<1> DEFINE a == AfterTickLoop(k)
<1> DEFINE n == a.pended - 1
<1> DEFINE y == a.yield \/ SliceOver(k)
<1>1. /\ k.cpu = "replayTick" /\ TickIsOver(k) /\ Ticking(k) /\ k.cpu # "tick"
      /\ k' = [a EXCEPT !.cpu = "replay", !.pended = n, !.yield = y]
      /\ UNCHANGED <<todo, value, previous, allocated, app>>
  BY DEF ReplayTickEnd, Ticking
<1>2. /\ k \in KernelState /\ KernelInv(k, allocated) /\ k.susp = 0 /\ ParkedInv(k)
      /\ \A r : r.susp = 0 /\ r.cpu \in {"drain", "drainMore", "replay", "replayTick"}
                /\ r.current = k.current /\ (r.cpu = "replayTick" => r.pended > 0)
                    => SuspendInv(r, todo)
  BY <1>1, ReplayFacts
<1>3. /\ KernelInv(a, allocated) /\ SeenAlike(k, a) /\ DueLater(a) /\ Keeps(k, a) /\ a.yield = k.yield
  BY <1>1, <1>2, KernelLoopEnds
<1> HIDE DEF a
<1>4. a \in KernelState /\ a.cpu = "replayTick" /\ a.susp = 0 /\ a.current = k.current
      /\ a.notify = k.notify /\ a.pended = k.pended /\ y \in BOOLEAN
  BY <1>1, <1>2, <1>3
     DEF KernelInv, Sound, Keeps, KeepsTasks, KeepsProcessor, KeepsClock
<1>5. n \in Nat
  BY <1>1, <1>2, <1>4, ReplayFacts, FieldTypes
<1>6. y <=> k.yield \/ SliceOver(k)
  BY <1>3
<1> HIDE DEF n, y
<1>7. /\ k' \in KernelState /\ SameLists(a, k') /\ k'.prio = a.prio /\ k'.base = a.base
      /\ k'.live = a.live /\ k'.tick = a.tick /\ k'.top = a.top /\ k'.next = a.next
      /\ k'.current = a.current /\ k'.notify = a.notify /\ k'.susp = 0 /\ k'.cpu = "replay"
      /\ k'.yield = y
  BY <1>1, <1>4, <1>5 DEF KernelState, CpuModes, SameLists
<1>8. KernelInv(k', allocated) /\ SeenAlike(a, k')
  <2>1. k'.current \in k'.live
    BY <1>3, <1>7 DEF KernelInv
  <2>2. ~Ticking(k') /\ DueLater(a)
    BY <1>3, <1>7 DEF Ticking
  <2> QED  BY <1>3, <1>7, <2>1, <2>2, KernelSame
<1>9. SeenAlike(k, k')
  BY <1>3, <1>8 DEF SeenAlike
<1>10. SuspendInv(k', todo)
  BY <1>2, <1>4, <1>7
<1>11. \A t \in Task : ~Parked(k, t)
  BY <1>1, <1>2 DEF ParkedInv
<1>12. k'.yield \/ ~k.yield
  BY <1>6, <1>7, Zenon
<1>13. k'.notify = k.notify /\ k'.current = k.current
  BY <1>4, <1>7
<1> QED  BY <1>1, <1>8, <1>9, <1>10, <1>11, <1>12, <1>13, LoopKeeps

\* A task that goes on with its call keeps what is said of its notification.
LEMMA NotifiedGoesOn ==
    ASSUME NEW kk \in KernelState, NEW td, NEW may, Notified(kk, td, may),
           NEW te, NEW t \in Task, \A u \in Task : u # t => te[u] = td[u],
           EndsWait(te[t]) <=> EndsWait(td[t]), OpOf(te[t]) \notin CheckOps
    PROVE  Notified(kk, te, may)
<1>1. kk.live \subseteq Task
  BY FieldTypes
<1>2. ASSUME NEW u \in kk.live, kk.notify[u] = "waiting"
      PROVE  Waiting(kk, te, u)
  BY <1>1, <1>2 DEF Notified, Waiting
<1>3. ASSUME NEW u \in kk.live, EndsWait(te[u]), kk.notify[u] # "waiting"
      PROVE  Awake(kk, may, u)
  BY <1>1, <1>3 DEF Notified
<1> QED  BY <1>2, <1>3 DEF Notified

\* The running task goes on with s, and the processor chooses a task to run.
LEMMA YieldKeeps ==
    ASSUME IInv, k.susp = 0, k.cpu \in {"task", "replay"}, NEW s, todo'[Me] = s,
           k' = [vTaskSwitchContext(k) EXCEPT !.cpu = "task"],
           todo' \in [Task -> Seq(Work)], WorkInv(todo', k.live, allocated),
           \A u \in Task : u # Me => todo'[u] = todo[u],
           AtRest(s), EndsWait(s) <=> EndsWait(todo[Me]),
           UNCHANGED <<value, previous, allocated, app>>
    PROVE  IInv'
<1>1. /\ k \in KernelState /\ KernelInv(k, allocated) /\ ParkedInv(k) /\ Me \in Task
      /\ NotifyInv(k, todo, MaySuspend) /\ ~Ticking(k) /\ allocated' = allocated /\ app' = app
      /\ \A u \in Task : u # Me => AtRest(todo[u])
  BY StateFacts DEF Ticking
<1>2. \A u \in Task : ~Parked(k, u)
  BY <1>1 DEF ParkedInv
<1>3. \A u \in Task : AtRest(todo'[u])
  BY <1>1
<1>4. OpOf(s) \notin CheckOps
  BY DEF AtRest
<1>5. Notified(k, todo', MaySuspend)
  BY <1>1, <1>4, NotifiedGoesOn DEF NotifyInv
<1>6. /\ value' \in [Task -> NotifyValues] /\ previous' \in [Task -> Tick]
      /\ allocated' \in SUBSET Task
  BY <1>1 DEF IInv, TypeOK
<1>7. KernelInv(k, allocated') /\ WorkInv(todo', k.live, allocated')
  BY <1>1
<1> QED  BY <1>1, <1>2, <1>3, <1>5, <1>6, <1>7, SwitchKeeps

\* The end of xTaskResumeAll, with its yield.
LEMMA ResumeAllEndKeeps ==
    ASSUME IInv, ResumeAllEnd
    PROVE  IInv'
<1> DEFINE s == todo[Me]
<1>1. /\ k.cpu = "replay" /\ k.pended = 0 /\ ~Ticking(k)
      /\ UNCHANGED <<value, previous, allocated, app>>
  BY DEF ResumeAllEnd, Ticking
<1>2. /\ k \in KernelState /\ KernelInv(k, allocated) /\ k.susp = 0 /\ ParkedInv(k) /\ Me \in Task
      /\ OpOf(s) = "resumeAll" /\ s # <<>>
      /\ s \in Seq(Work) /\ Shape(s) /\ RunningInv(k, todo)
      /\ todo \in [Task -> Seq(Work)] /\ WorkInv(todo, k.live, allocated)
      /\ \A u \in Task : u # Me => AtRest(todo[u])
  BY <1>1, ReplayFacts, StateFacts
<1>3. /\ s[1].op = "resumeAll" /\ Rest = Tail(s) /\ Rest \in Seq(Work) /\ Shape(Rest)
      /\ EndsWait(Rest) <=> EndsWait(s)
      /\ AtRest(Rest) /\ (YieldsNext(s) => YieldsNext(Rest))
  BY <1>2, AfterFirst, RestOf, ShapeOfRest DEF Rest
<1>4. \A t \in Task : ~Parked(k, t)
  BY <1>1, <1>2 DEF ParkedInv
<1> DEFINE te == [todo EXCEPT ![Me] = Rest]
<1>5. /\ te \in [Task -> Seq(Work)] /\ WorkInv(te, k.live, allocated)
      /\ te[Me] = Rest /\ \A u \in Task : u # Me => te[u] = todo[u]
  <2>1. te = [todo EXCEPT ![Me] = Tail(todo[Me])]
    BY <1>3
  <2>2. te \in [Task -> Seq(Work)] /\ WorkInv(te, k.live, allocated)
    BY <1>2, <2>1, WorkDone
  <2> QED  BY <1>2, <2>2
<1> HIDE DEF te, s
<1>6. CASE ~k.yield /\ k' = [k EXCEPT !.cpu = "task"] /\ Done
  <2>1. k' \in KernelState /\ k'.cpu = "task" /\ k'.yield = k.yield /\ k'.susp = 0
    BY <1>2, <1>6 DEF KernelState, CpuModes
  <2>2. Quietly(k, k')
    BY <1>2, <1>6, <2>1 DEF Quietly, SameLists, KernelState
  <2>3. todo' = te
    BY <1>6 DEF Done, Continue, te
  <2>4. SuspendInv(k', todo')
    <3>1. \A u \in Task : AtRest(te[u])
      BY <1>2, <1>3, <1>5
    <3>2. k'.current = Me /\ Idle \in Task
      BY <2>2, TasksAssumption DEF Quietly, Me
    <3> QED  BY <1>2, <2>1, <2>3, <3>1, <3>2 DEF SuspendInv, AtRest
  <2>5. GoesOn(k, k', todo[Me], todo'[Me])
    <3>1. OpOf(Rest) \notin CheckOps \cup {"wait"}
      BY <1>3 DEF AtRest
    <3>2. IsReady(k, Me) \/ YieldsNext(Rest)
      BY <1>1, <1>2, <1>3 DEF RunningInv, Me, s
    <3>3. k'.yield \/ ~k.yield
      BY <1>6
    <3> QED  BY <1>2, <1>3, <1>4, <1>5, <2>3, <3>1, <3>2, <3>3 DEF GoesOn, Me, s
  <2>6. /\ value' \in [Task -> NotifyValues] /\ previous' \in [Task -> Tick] /\ app' = app
        /\ allocated' \in SUBSET Task /\ k.live \subseteq allocated' /\ ~Ticking(k')
        /\ WorkInv(todo', k.live, allocated') /\ todo' \in [Task -> Seq(Work)]
        /\ \A u \in Task : u # Me => todo'[u] = todo[u]
    BY <1>1, <1>2, <1>5, <2>1, <2>3 DEF IInv, TypeOK, Ticking, KernelInv
  <2> QED  BY <1>1, <2>2, <2>4, <2>5, <2>6, QuietKeeps
<1>7. ASSUME k.yield, k' = [vTaskSwitchContext(k) EXCEPT !.cpu = "task"],
             Continue(IF YieldIsNext THEN Tail(Rest) ELSE Rest)
      PROVE  IInv'
  <2>1. CASE YieldIsNext
    <3> DEFINE r == Tail(Rest)
    <3>1. Rest # <<>> /\ Rest[1].op = "yield" /\ todo' = [todo EXCEPT ![Me] = r]
      BY <1>3, <1>7, <2>1, RestOf DEF YieldIsNext, Continue
    <3>2. AtRest(r) /\ (EndsWait(r) <=> EndsWait(Rest))
      BY <1>3, <3>1, AfterFirst
    <3>3. todo' = [te EXCEPT ![Me] = Tail(te[Me])]
      BY <1>2, <1>5, <3>1 DEF te
    <3>4. te[Me] # <<>>
      BY <1>5, <3>1
    <3>5. todo' \in [Task -> Seq(Work)] /\ WorkInv(todo', k.live, allocated)
      BY <1>2, <1>5, <3>3, <3>4, WorkDone
    <3>6. todo'[Me] = r /\ \A u \in Task : u # Me => todo'[u] = todo[u]
      BY <1>2, <3>1
    <3> QED  BY <1>1, <1>2, <1>3, <1>7, <3>2, <3>5, <3>6, YieldKeeps DEF s
  <2>2. CASE ~YieldIsNext
    <3>1. todo' = te
      BY <1>7, <2>2 DEF te, Continue
    <3> QED  BY <1>1, <1>2, <1>3, <1>5, <1>7, <3>1, YieldKeeps DEF s
  <2> QED  BY <2>1, <2>2
<1> QED  BY <1>6, <1>7 DEF ResumeAllEnd

-----------------------------------------------------------------------------
(* What an API call does after its first step. *)

\* What Running( op ) means for the rest of the call.
LEMMA OpFacts ==
    ASSUME IInv, NEW op, Running(op), op # "none"
    PROVE  /\ op \in SuspendedOps => k.susp = 1
           /\ op \notin SuspendedOps \cup {"resumeAll"} =>
                  k.susp = 0 /\ \A t \in Task : ~Parked(k, t)
           /\ OpOf(Rest) \notin FirstOps /\ Shape(Rest)
           /\ op \in ResumedOps => OpOf(Rest) = "resumeAll"
           /\ op \in {"resumeAll", "yield", "unblockTime"} => AtRest(Rest)
           /\ op \in LastOps => Rest = <<>> /\ OpOf(Rest) = "none" /\ AtRest(Rest)
           /\ op \in SleepOps => YieldsNext(Rest) /\ Len(Rest) > 1
           /\ op \notin EndOps => (EndsWait(Rest) <=> EndsWait(todo[Me]))
           /\ op \in EndOps => ~EndsWait(Rest)
           /\ op \in CheckOps => EndsWait(todo[Me]) /\ Len(todo[Me]) = 3
           /\ IsReady(k, Me) \/ YieldsNext(Rest) \/ op = "yield"
           /\ op \notin {"resumeAll", "yield", "unblockTime"} => IsReady(k, Me)
           /\ Me # Idle \/ op \in {"free", "freeTCB", "resumeAll", "idleYield"}
<1> DEFINE s == todo[Me]
<1>1. /\ k.cpu = "task" /\ s # <<>> /\ OpOf(s) = op /\ Rest = Tail(s)
      /\ s \in Seq(Work) /\ Shape(s) /\ SuspendInv(k, todo) /\ RunningInv(k, todo) /\ ParkedInv(k)
      /\ Me # Idle \/ op \in {"free", "freeTCB", "resumeAll", "idleYield"}
  BY RunningFacts, StateFacts
<1>2. s[1].op = op /\ Shape(Rest)
  BY <1>1, AfterFirst, ShapeOfRest
<1>3. /\ op \in SuspendedOps => k.susp = 1
      /\ op \notin SuspendedOps \cup {"resumeAll"} => k.susp = 0
  <2>1. /\ OpOf(todo[k.current]) \in SuspendedOps => k.susp = 1
        /\ OpOf(todo[k.current]) \notin SuspendedOps \cup {"resumeAll", "none"} => k.susp = 0
    BY <1>1 DEF SuspendInv
  <2> QED  BY <1>1, <2>1 DEF Me
<1>4. op \notin SuspendedOps \cup {"resumeAll"} => \A t \in Task : ~Parked(k, t)
  BY <1>1, <1>3 DEF ParkedInv
<1>5. /\ OpOf(Rest) \notin FirstOps
      /\ op \in ResumedOps => OpOf(Rest) = "resumeAll" /\ ~YieldsNext(s)
      /\ op \in {"resumeAll", "yield", "unblockTime"} => AtRest(Rest)
      /\ op \in LastOps => Rest = <<>>
      /\ op \in SleepOps => YieldsNext(Rest) /\ Len(Rest) > 1
      /\ op \in {"resumeAll", "unblockTime"} /\ YieldsNext(s) => YieldsNext(Rest)
      /\ YieldsNext(s) => op \in {"resumeAll", "unblockTime", "yield"}
      /\ op \notin EndOps => (EndsWait(Rest) <=> EndsWait(s))
      /\ op \in EndOps => ~EndsWait(Rest)
      /\ op \in CheckOps => EndsWait(s) /\ Len(s) = 3
  BY <1>1, <1>2, AfterFirst
<1>6. op \in LastOps => OpOf(Rest) = "none" /\ AtRest(Rest)
  BY <1>5 DEF OpOf, AtRest
<1>7. IsReady(k, Me) \/ YieldsNext(s)
  BY <1>1 DEF RunningInv, Me
<1> QED  BY <1>1, <1>2, <1>3, <1>4, <1>5, <1>6, <1>7

\* Every yield: the running task gives up the processor for the highest ready
\* one.
LEMMA YieldStepKeeps ==
    ASSUME IInv, NEW op, Running(op), op \in {"yield", "idleYield", "yieldTo"}, Done,
           k' = vTaskSwitchContext(k), UNCHANGED <<value, previous, allocated, app>>
    PROVE  IInv'
<1>1. /\ k.cpu = "task" /\ k.susp = 0 /\ AtRest(Rest) /\ (EndsWait(Rest) <=> EndsWait(todo[Me]))
      /\ k \in KernelState /\ KernelInv(k, allocated) /\ ~Ticking(k)
  BY RunningFacts, StateFacts, OpFacts
<1>2. /\ todo' \in [Task -> Seq(Work)] /\ WorkInv(todo', k.live, allocated')
      /\ todo'[Me] = Rest /\ \A u \in Task : u # Me => todo'[u] = todo[u]
  BY DoneFacts
<1>3. k' = [vTaskSwitchContext(k) EXCEPT !.cpu = "task"]
  BY <1>1, SwitchChooses
<1> QED  BY <1>1, <1>2, <1>3, YieldKeeps

\* taskYIELD.
LEMMA YieldActionKeeps ==
    ASSUME IInv, Yield
    PROVE  IInv'
BY YieldStepKeeps DEF Yield

\* A step that leaves the kernel alone moves no task.
LEMMA UnchangedIsQuiet ==
    ASSUME IInv, k' = k
    PROVE  Quietly(k, k')
<1>1. k \in KernelState
  BY StateFacts
<1> QED  BY <1>1 DEF Quietly, SameLists

\* vTaskSuspend and vTaskDelete reset xNextTaskUnblockTime.
LEMMA UnblockTimeKeeps ==
    ASSUME IInv, UnblockTime
    PROVE  IInv'
<1>1. /\ Running("unblockTime") /\ k' = prvResetNextTaskUnblockTime(k) /\ Done
      /\ UNCHANGED <<value, previous, allocated, app>>
  BY DEF UnblockTime
<1>2. /\ k.susp = 0 /\ AtRest(Rest) /\ (EndsWait(Rest) <=> EndsWait(todo[Me]))
      /\ IsReady(k, Me) \/ YieldsNext(Rest)
      /\ Me # Idle /\ Sound(k) /\ k.cpu = "task"
  BY <1>1, OpFacts, StateFacts, RunningFacts
<1>3. NextReset(k, k')
  BY <1>1, <1>2, ResetSound
<1>4. Quietly(k, k') /\ k'.cpu = "task" /\ k'.yield = k.yield /\ k'.susp = 0
  BY <1>2, <1>3 DEF NextReset, Quietly, Keeps, KeepsTasks, KeepsClock, KeepsProcessor
<1>5. OpOf(Rest) \notin SuspendedOps \cup {"resumeAll"}
  BY <1>2 DEF AtRest
<1> QED  BY <1>1, <1>2, <1>4, <1>5, DoneKeeps

\* xTaskCatchUpTicks adds to the ticks that pend.
LEMMA CatchUpKeeps ==
    ASSUME IInv, CatchUp
    PROVE  IInv'
<1> DEFINE n == k.pended + Item.n
<1>1. /\ Running("catchUp") /\ k' = [k EXCEPT !.pended = n] /\ Done
      /\ UNCHANGED <<value, previous, allocated, app>>
  BY DEF CatchUp
<1>2. /\ k.susp = 1 /\ OpOf(Rest) = "resumeAll" /\ (EndsWait(Rest) <=> EndsWait(todo[Me]))
      /\ IsReady(k, Me) /\ Me # Idle /\ k \in KernelState /\ k.cpu = "task" /\ Item \in Work
  BY <1>1, OpFacts, StateFacts, RunningFacts
<1>3. n \in Nat
  BY <1>2, FieldTypes DEF Work
<1> HIDE DEF n
<1>4. k' \in KernelState /\ k'.cpu = "task" /\ k'.yield = k.yield /\ k'.susp = 1
  <2>1. n \in Nat
    BY <1>3
  <2>2. k' = [k EXCEPT !.pended = n]
    BY <1>1
  <2>3. k' \in KernelState /\ k'.cpu = k.cpu /\ k'.yield = k.yield /\ k'.susp = k.susp
    BY <1>2, <2>1, <2>2 DEF KernelState
  <2> QED  BY <1>2, <1>3, <2>3
<1>5. Quietly(k, k')
  BY <1>1, <1>2, <1>4 DEF Quietly, SameLists, KernelState
<1> QED  BY <1>1, <1>2, <1>4, <1>5, DoneKeeps

\* prvDeleteTCB frees the stack and the TCB.
LEMMA FreeKeeps ==
    ASSUME IInv, Free \/ FreeTCB
    PROVE  IInv'
<1> DEFINE n == k.susp + 1
<1>1. PICK op \in {"free", "freeTCB"} :
          /\ Running(op) /\ k' = [k EXCEPT !.susp = n] /\ Done
          /\ \/ allocated' = allocated
             \/ op = "freeTCB" /\ allocated' = allocated \ {Item.task}
          /\ UNCHANGED <<value, previous, app>>
  BY DEF Free, FreeTCB
<1>2. /\ k.susp = 0 /\ OpOf(Rest) = "resumeAll" /\ (EndsWait(Rest) <=> EndsWait(todo[Me]))
      /\ IsReady(k, Me) /\ k \in KernelState /\ k.cpu = "task"
  BY <1>1, OpFacts, StateFacts, RunningFacts
<1>3. n = 1
  BY <1>2
<1> HIDE DEF n
<1>4. k' \in KernelState /\ k'.cpu = "task" /\ k'.yield = k.yield /\ k'.susp = 1
  <2>1. n \in Nat
    BY <1>3
  <2>2. k' = [k EXCEPT !.susp = n]
    BY <1>1
  <2>3. k' \in KernelState /\ k'.cpu = k.cpu /\ k'.yield = k.yield /\ k'.susp = n
    BY <1>2, <2>1, <2>2 DEF KernelState
  <2> QED  BY <1>2, <1>3, <2>3
<1>5. Quietly(k, k')
  BY <1>1, <1>2, <1>4 DEF Quietly, SameLists, KernelState
<1> QED  BY <1>1, <1>2, <1>4, <1>5, DoneKeeps

\* The idle task yields when it shares its priority.
LEMMA IdleYieldKeeps ==
    ASSUME IInv, IdleYield
    PROVE  IInv'
<1>1. Running("idleYield") /\ Done /\ UNCHANGED <<value, previous, allocated, app>>
  BY DEF IdleYield
<1>2. CASE k' = vTaskSwitchContext(k)
  BY <1>1, <1>2, YieldStepKeeps
<1>3. CASE k' = k
  <2>1. /\ k.susp = 0 /\ OpOf(Rest) = "none" /\ (EndsWait(Rest) <=> EndsWait(todo[Me]))
        /\ IsReady(k, Me) /\ k.cpu = "task"
    BY <1>1, OpFacts, RunningFacts
  <2>2. Quietly(k, k')
    BY <1>3, UnchangedIsQuiet
  <2> QED  BY <1>1, <1>3, <2>1, <2>2, DoneKeeps
<1> QED  BY <1>2, <1>3 DEF IdleYield

\* A new task that has died is no longer ready.
LEMMA YieldToNewTaskKeeps ==
    ASSUME IInv, YieldToNewTask
    PROVE  IInv'
<1>1. Running("yieldTo") /\ Done /\ UNCHANGED <<value, previous, allocated, app>>
  BY DEF YieldToNewTask
<1>2. CASE k' = vTaskSwitchContext(k)
  BY <1>1, <1>2, YieldStepKeeps
<1>3. CASE k' = k /\ (Item.task \in allocated => ~(k.prio[Item.task] > k.prio[Me]))
  <2>1. /\ k.susp = 0 /\ OpOf(Rest) = "none" /\ (EndsWait(Rest) <=> EndsWait(todo[Me]))
        /\ IsReady(k, Me) /\ k.cpu = "task" /\ Me # Idle /\ Item \in Work
    BY <1>1, OpFacts, RunningFacts
  <2>2. Quietly(k, k')
    BY <1>3, UnchangedIsQuiet
  <2>3. Item.task \in Task /\ k.prio[Item.task] \in Priority
    BY <2>1, StateFacts, FieldTypes DEF Work
  <2>4. IsReady(k, Item.task) => Item.task \in allocated
    BY <2>3, StateFacts, ReadyMeansReady DEF IsReady
  <2> QED  BY <1>1, <1>3, <2>1, <2>2, <2>4, DoneKeeps
<1> QED  BY <1>2, <1>3 DEF YieldToNewTask, YieldIfHigher, Me

-----------------------------------------------------------------------------
(* Notifications. *)

\* The notification state of task t becomes v.
Marked(kk, r, t, v) ==
    /\ r \in KernelState /\ SeenAlike(kk, r) /\ SameLists(kk, r) /\ SamePlaces(kk, r)
    /\ r.current = kk.current /\ r.susp = kk.susp /\ r.cpu = kk.cpu
    /\ r.yield = kk.yield /\ r.pended = kk.pended /\ r.tick = kk.tick
    /\ r.notify[t] = v /\ \A u \in Task : u # t => r.notify[u] = kk.notify[u]

\* A change of a notification state moves no task.
LEMMA KernelMarks ==
    ASSUME NEW kk, NEW handed, KernelInv(kk, handed), NEW t \in Task, NEW v \in NotifyStates
    PROVE  LET r == [kk EXCEPT !.notify[t] = v]
           IN  KernelInv(r, handed) /\ Marked(kk, r, t, v)
<1> DEFINE notify == [kk.notify EXCEPT ![t] = v]
<1> DEFINE r == [kk EXCEPT !.notify = notify]
<1>1. Sound(kk) /\ kk \in KernelState /\ kk.current \in kk.live
  BY DEF KernelInv, Sound
<1>2. /\ notify \in [Task -> NotifyStates] /\ notify[t] = v
      /\ \A u \in Task : u # t => notify[u] = kk.notify[u]
  BY <1>1, FieldTypes
<1>3. r = [kk EXCEPT !.notify[t] = v]
  BY <1>1 DEF KernelState
<1> HIDE DEF notify
<1>4. /\ r \in KernelState /\ SameLists(kk, r) /\ r.prio = kk.prio /\ r.base = kk.base
      /\ r.live = kk.live /\ r.tick = kk.tick /\ r.top = kk.top /\ r.next = kk.next
      /\ r.current = kk.current /\ r.susp = kk.susp /\ r.cpu = kk.cpu
      /\ r.yield = kk.yield /\ r.pended = kk.pended /\ r.notify = notify
  BY <1>1, <1>2 DEF KernelState, SameLists
<1> HIDE DEF r
<1>5. Ticking(r) <=> Ticking(kk)
  BY <1>4 DEF Ticking
<1>6. KernelInv(r, handed) /\ SeenAlike(kk, r)
  BY <1>1, <1>4, <1>5, KernelSame
<1>7. SamePlaces(kk, r)
  BY <1>4 DEF SameLists, SamePlaces, IsIn
<1> QED  BY <1>2, <1>3, <1>4, <1>6, <1>7 DEF Marked

\* A notification that nobody waits for, or one that is forgotten.
LEMMA RestMarked ==
    ASSUME NEW kk \in KernelState, NEW td, NEW may, RestInv(kk, td, may),
           NEW t \in Task, NEW v \in {"received", "notWaiting"}, NEW r, Marked(kk, r, t, v),
           kk.notify[t] # "waiting", v = "received" \/ ~Parked(kk, t)
    PROVE  RestInv(r, td, may)
<1>1. /\ \A u \in Task : IsReady(r, u) <=> IsReady(kk, u)
      /\ \A u \in Task : Parked(r, u) <=> Parked(kk, u)
      /\ \A u \in Task : IsIn(r, u, Suspended) <=> IsIn(kk, u, Suspended)
      /\ \A u \in Task : Awake(r, may, u) <=> Awake(kk, may, u)
      /\ \A u \in Task : Waiting(r, td, u) <=> Waiting(kk, td, u)
  BY AlikeFacts DEF Marked
<1>2. r.live = kk.live /\ r.prio = kk.prio /\ kk.live \subseteq Task /\ kk.current \in Task
  BY FieldTypes DEF Marked, SeenAlike
<1>3. /\ SuspendInv(kk, td) /\ RunningInv(kk, td) /\ ParkedInv(kk) /\ HighestInv(kk, td)
      /\ NotifyInv(kk, td, may) /\ Notified(kk, td, may)
  BY DEF RestInv, NotifyInv
<1>4. SuspendInv(r, td) /\ RunningInv(r, td) /\ HighestInv(r, td)
  BY <1>1, <1>2, <1>3 DEF SuspendInv, RunningInv, HighestInv, Marked
<1>5. ParkedInv(r)
  BY <1>1, <1>2, <1>3 DEF ParkedInv, Marked
<1>6. Notified(r, td, may)
  BY <1>1, <1>2, <1>3 DEF Notified, Marked
<1>7. NotifyInv(r, td, may)
  BY <1>1, <1>2, <1>3, <1>6 DEF NotifyInv, Marked
<1> QED  BY <1>4, <1>5, <1>7 DEF RestInv

\* A notification or a clear for a task that does not wait keeps the
\* invariant.
LEMMA MarkKeeps ==
    ASSUME IInv, NEW t \in Task, NEW v \in {"received", "notWaiting"},
           k' = [k EXCEPT !.notify[t] = v],
           k.notify[t] # "waiting", v = "received" \/ ~Parked(k, t),
           UNCHANGED <<todo, previous, allocated, app>>, value' \in [Task -> NotifyValues]
    PROVE  IInv'
<1>1. /\ k \in KernelState /\ RestInv(k, todo, MaySuspend) /\ KernelInv(k, allocated)
      /\ todo \in [Task -> Seq(Work)] /\ WorkInv(todo, k.live, allocated)
  BY StateFacts
<1>2. KernelInv(k', allocated) /\ Marked(k, k', t, v)
  BY <1>1, KernelMarks DEF NotifyStates
<1>3. RestInv(k', todo, MaySuspend)
  BY <1>1, <1>2, RestMarked
<1>4. todo' = todo /\ allocated' = allocated /\ app' = app
  OBVIOUS
<1>5. k'.live = k.live /\ k' \in KernelState
  BY <1>2 DEF Marked, SeenAlike
<1>6. WorkInv(todo', k'.live, allocated') /\ KernelInv(k', allocated') /\ RestInv(k', todo', MaySuspend)
  BY <1>1, <1>2, <1>3, <1>4, <1>5
<1>7. /\ previous' \in [Task -> Tick]
      /\ allocated' \in SUBSET Task /\ todo' \in [Task -> Seq(Work)]
  BY <1>1 DEF IInv, TypeOK
<1> QED  BY <1>4, <1>5, <1>6, <1>7, Together

\* The running task begins to wait for a notification, or is done with it.
LEMMA OwnMarkKeeps ==
    ASSUME IInv, NEW op, Running(op), op \in CheckOps \cup EndOps,
           NEW v \in {"waiting", "notWaiting"}, k' = [k EXCEPT !.notify[Me] = v],
           NEW s \in Seq(Work), Continue(s), WorkInv(todo', k.live, allocated),
           v = "waiting" <=> EndsWait(s),
           k.susp = 1 => OpOf(s) \in {"wait", "resumeAll"},
           k.susp = 0 => OpOf(s) = "none",
           OpOf(s) = "wait" => v = "waiting",
           value' \in [Task -> NotifyValues], UNCHANGED <<previous, allocated, app>>
    PROVE  IInv'
<1>1. /\ k \in KernelState /\ RestInv(k, todo, MaySuspend) /\ KernelInv(k, allocated)
      /\ todo \in [Task -> Seq(Work)] /\ Me \in Task /\ Me \in k.live /\ k.live \subseteq Task
      /\ Idle \in Task
      /\ SuspendInv(k, todo) /\ ParkedInv(k) /\ HighestInv(k, todo) /\ NotifyInv(k, todo, MaySuspend)
      /\ Notified(k, todo, MaySuspend)
      /\ \A u \in Task : u # Me => AtRest(todo[u])
  BY StateFacts DEF NotifyInv
<1>2. /\ k.cpu = "task" /\ OpOf(todo[Me]) = op /\ Me # Idle /\ IsReady(k, Me)
      /\ op \in CheckOps => k.susp = 1
      /\ op \in EndOps => k.susp = 0
  BY RunningFacts, OpFacts
<1>3. ~Parked(k, Me)
  BY <1>1, <1>2 DEF NotifyInv, ParkedInv, Me
<1>4. KernelInv(k', allocated) /\ Marked(k, k', Me, v)
  BY <1>1, KernelMarks DEF NotifyStates
<1>5. /\ todo' \in [Task -> Seq(Work)] /\ todo'[Me] = s
      /\ \A u \in Task : u # Me => todo'[u] = todo[u]
  BY <1>1 DEF Continue
<1>6. /\ \A u \in Task : IsReady(k', u) <=> IsReady(k, u)
      /\ \A u \in Task : Parked(k', u) <=> Parked(k, u)
      /\ \A u \in Task : IsIn(k', u, Suspended) <=> IsIn(k, u, Suspended)
      /\ \A u \in Task : Awake(k', MaySuspend, u) <=> Awake(k, MaySuspend, u)
  <2>1. SeenAlike(k, k')
    BY <1>4 DEF Marked
  <2> QED  BY <1>1, <2>1, AlikeFacts
<1>7. /\ k'.live = k.live /\ k'.prio = k.prio /\ k'.current = Me /\ k'.susp = k.susp /\ k'.cpu = "task"
      /\ k'.notify[Me] = v /\ \A u \in Task : u # Me => k'.notify[u] = k.notify[u]
      /\ k'.yield = k.yield /\ k' \in KernelState
  BY <1>2, <1>4 DEF Marked, SeenAlike, Me
<1>8. OpOf(s) \notin CheckOps /\ OpOf(s) # "yieldTo" /\ (k.susp = 0 \/ k.susp = 1)
  BY <1>2
<1>9. SuspendInv(k', todo')
  <2>1. \A u \in Task : u # Me => AtRest(todo'[u])
    BY <1>1, <1>5
  <2> QED  BY <1>2, <1>5, <1>7, <1>8, <2>1 DEF SuspendInv
<1>10. RunningInv(k', todo')
  BY <1>2, <1>6, <1>7, <1>1 DEF RunningInv
<1>11. ParkedInv(k')
  BY <1>1, <1>2, <1>3, <1>6, <1>7 DEF ParkedInv
<1>12. Notified(k', todo', MaySuspend)
  <2>1. ASSUME NEW u \in k.live, k'.notify[u] = "waiting"
        PROVE  Waiting(k', todo', u)
    <3>1. CASE u = Me
      BY <1>1, <1>3, <1>5, <1>6, <1>7, <1>8, <2>1, <3>1 DEF Waiting
    <3>2. CASE u # Me
      BY <1>1, <1>5, <1>6, <1>7, <2>1, <3>2 DEF Waiting, Notified
    <3> QED  BY <3>1, <3>2
  <2>2. ASSUME NEW u \in k.live, EndsWait(todo'[u]), k'.notify[u] # "waiting"
        PROVE  Awake(k', MaySuspend, u)
    <3>1. CASE u = Me
      BY <1>1, <1>2, <1>6, <3>1 DEF Awake
    <3>2. CASE u # Me
      BY <1>1, <1>5, <1>6, <1>7, <2>2, <3>2 DEF Notified
    <3> QED  BY <3>1, <3>2
  <2> QED  BY <1>7, <2>1, <2>2 DEF Notified
<1>13. NotifyInv(k', todo', MaySuspend)
  BY <1>5, <1>7, <1>8, <1>12 DEF NotifyInv
<1>14. HighestInv(k', todo')
  BY <1>1, <1>2, <1>5, <1>6, <1>7 DEF HighestInv, Me
<1>15. RestInv(k', todo', MaySuspend)
  BY <1>9, <1>10, <1>11, <1>13, <1>14 DEF RestInv
<1>16. /\ WorkInv(todo', k'.live, allocated') /\ KernelInv(k', allocated')
       /\ previous' \in [Task -> Tick] /\ allocated' \in SUBSET Task /\ app' = app
  BY <1>4, <1>7 DEF IInv, TypeOK
<1> QED  BY <1>5, <1>7, <1>15, <1>16, Together

\* The wait is over: TakeEnd and AwaitEnd.
LEMMA NotifyEndKeeps ==
    ASSUME IInv, TakeEnd \/ AwaitEnd
    PROVE  IInv'
<1>1. PICK op \in EndOps :
          /\ Running(op) /\ k' = [k EXCEPT !.notify[Me] = "notWaiting"] /\ Done
          /\ value' \in [Task -> NotifyValues] /\ UNCHANGED <<previous, allocated, app>>
  <2>1. /\ value \in [Task -> NotifyValues] /\ Me \in Task /\ MaxNotified \in Nat
        /\ NotifyValues = 0 .. MaxNotified
    BY StateFacts, TasksAssumption DEF IInv, TypeOK, NotifyValues
  <2>2. ASSUME TakeEnd
        PROVE  value' \in [Task -> NotifyValues]
    BY <2>1, <2>2 DEF TakeEnd
  <2>3. ASSUME AwaitEnd
        PROVE  value' \in [Task -> NotifyValues]
    BY <2>1, <2>3 DEF AwaitEnd
  <2> QED  BY <2>2, <2>3 DEF TakeEnd, AwaitEnd
<1>2. /\ todo' \in [Task -> Seq(Work)] /\ WorkInv(todo', k.live, allocated)
      /\ Rest \in Seq(Work) /\ OpOf(Rest) = "none" /\ ~EndsWait(Rest) /\ Continue(Rest)
      /\ k.susp = 0
  BY <1>1, DoneFacts, RunningFacts, OpFacts DEF Done
<1> QED  BY <1>1, <1>2, OwnMarkKeeps

\* The rest of a call that looks for a notification: xTaskResumeAll, and the
\* end of the wait.
LEMMA CheckFacts ==
    ASSUME IInv, NEW op \in CheckOps, Running(op)
    PROVE  /\ Item.n \in Tick /\ OpOf(Rest) = "resumeAll" /\ EndsWait(Rest) /\ EndsWait(todo[Me])
           /\ \E d \in Work : d.op \in EndOps /\ Tail(Rest) = <<d>>
<1> DEFINE s == todo[Me]
<1>1. /\ s \in Seq(Work) /\ s # <<>> /\ Shape(s) /\ Item = s[1] /\ s[1].op = op /\ Rest = Tail(s)
      /\ Len(s) \in Nat /\ 1 \in 1 .. Len(s)
  BY RunningFacts, StateFacts
<1>2. Len(s) = 3 /\ s[3].op \in EndOps /\ s[1].n \in Tick
  BY <1>1 DEF Shape
<1>3. OpOf(Rest) = "resumeAll" /\ EndsWait(Rest) /\ EndsWait(s)
  BY <1>1, AfterFirst
<1> HIDE DEF s
<1>4. \A j \in 1 .. 2 : Rest[j] = s[j + 1]
  <2>1. \A j \in 1 .. Len(s) - 1 : Tail(s)[j] = s[j + 1]
    BY <1>1, RestOf
  <2>2. Len(s) - 1 = 2
    BY <1>2
  <2> QED  BY <1>1, <2>1, <2>2
<1>5. /\ Rest \in Seq(Work) /\ Len(Rest) = 2 /\ Rest[2] = s[3] /\ Rest # <<>> /\ s[3] \in Work
  <2>1. /\ 2 \in 1 .. 2 /\ 3 \in 1 .. Len(s) /\ 2 + 1 = 3
    BY <1>2
  <2>2. Rest[2] = s[3]
    BY <1>4, <2>1
  <2>3. s[3] \in Work
    BY <1>1, <2>1, ElementOfSeq
  <2>4. Rest \in Seq(Work) /\ Len(Rest) = 2 /\ Rest # <<>>
    BY <1>2, RunningFacts DEF s
  <2> QED  BY <2>2, <2>3, <2>4
<1> DEFINE r == Tail(Rest)
<1>6. r = <<s[3]>>
  <2>1. r \in Seq(Work) /\ Len(r) = 2 - 1 /\ \A j \in 1 .. 2 - 1 : r[j] = Rest[j + 1]
    BY <1>5, RestOf
  <2> HIDE DEF r
  <2>2. 1 \in 1 .. 2 - 1 /\ 1 + 1 = 2 /\ 2 - 1 = 1
    OBVIOUS
  <2>3. r \in Seq(Work) /\ Len(r) = 1 /\ r[1] = s[3]
    BY <1>5, <2>1, <2>2
  <2> QED  BY <1>5, <2>3
<1> QED  BY <1>1, <1>2, <1>3, <1>5, <1>6 DEF s, r

\* A task that begins to wait for a notification keeps the invariant.
LEMMA WaitForKeeps ==
    ASSUME IInv, NEW op \in CheckOps, Running(op), WaitFor(Item.n),
           value' \in [Task -> NotifyValues], UNCHANGED <<previous, allocated, app>>
    PROVE  IInv'
<1>1. /\ Item.n \in Tick /\ OpOf(Rest) = "resumeAll" /\ EndsWait(Rest)
      /\ k.susp = 1 /\ Rest \in Seq(Work) /\ Me # Idle /\ k' = [k EXCEPT !.notify[Me] = "waiting"]
  BY CheckFacts, OpFacts, RunningFacts DEF WaitFor
<1>2. CASE Item.n > 0
  <2> DEFINE n == Item.n
  <2>1. PICK d \in Work : d.op \in EndOps /\ Tail(Rest) = <<d>>
    BY CheckFacts
  <2> DEFINE a == DoFor("wait", n)
  <2> DEFINE b == Do("resumeAll")
  <2> DEFINE c == Do("yield")
  <2> DEFINE s == <<a, b, c, d>>
  <2>2. n \in Nat
    BY <1>1, TickFacts
  <2>3. "wait" \in Ops /\ "resumeAll" \in Ops /\ "yield" \in Ops
    BY DEF Ops
  <2>4. /\ a \in Work /\ a.op = "wait" /\ a.n = n /\ b \in Work /\ b.op = "resumeAll"
        /\ c \in Work /\ c.op = "yield"
    BY <2>2, <2>3, ItemFacts
  <2>5. Continue(<<a, b, c>> \o <<d>>)
    BY <1>2, <2>1 DEF WaitFor
  <2> HIDE DEF a, b, c, n
  <2>6. s \in Seq(Work) /\ Len(s) = 4 /\ Shape(s)
    BY <1>1, <1>2, <2>1, <2>4, ShapeOfFour DEF n
  <2>7. s[1] = a /\ s[2] = b /\ s[3] = c /\ s[4] = d /\ s = <<a, b, c>> \o <<d>> /\ s # <<>>
    BY <2>4
  <2> HIDE DEF s
  <2>8. OpOf(s) = "wait" /\ EndsWait(s) /\ Continue(s)
    BY <2>1, <2>4, <2>5, <2>6, <2>7 DEF OpOf, EndsWait
  <2>9. \A i \in 1 .. Len(s) : ~Owns(s, i)
    <3>1. \A i \in 1 .. Len(s) : i \in {1, 2, 3, 4}
      BY <2>6
    <3> QED  BY <2>1, <2>4, <2>7, <3>1 DEF Owns
  <2>10. WorkInv(todo', k.live, allocated)
    BY <1>1, <2>6, <2>8, <2>9, WorkBegins, StateFacts DEF Continue
  <2> QED  BY <1>1, <2>6, <2>8, <2>10, OwnMarkKeeps
<1>3. CASE ~(Item.n > 0)
  <2>1. Done
    BY <1>3 DEF WaitFor
  <2>2. WorkInv(todo', k.live, allocated) /\ Continue(Rest)
    BY <2>1, DoneFacts DEF Done
  <2> QED  BY <1>1, <2>2, OwnMarkKeeps
<1> QED  BY <1>2, <1>3

\* A notification has come: the wait goes on at once.
LEMMA NoWaitKeeps ==
    ASSUME IInv, NEW op \in CheckOps, Running(op), Done,
           UNCHANGED <<k, value, previous, allocated, app>>
    PROVE  IInv'
<1>1. /\ k.susp = 1 /\ OpOf(Rest) = "resumeAll" /\ (EndsWait(Rest) <=> EndsWait(todo[Me]))
      /\ IsReady(k, Me) /\ Me # Idle /\ k.cpu = "task"
  BY OpFacts, RunningFacts
<1>2. Quietly(k, k')
  BY UnchangedIsQuiet
<1> QED  BY <1>1, <1>2, DoneKeeps

\* The checks of ulTaskGenericNotifyTake and xTaskGenericNotifyWait.
LEMMA CheckKeeps ==
    ASSUME IInv, Take \/ Await
    PROVE  IInv'
<1>1. CASE Take
  <2>1. Running("take") /\ UNCHANGED <<value, previous, allocated, app>>
    BY <1>1 DEF Take
  <2>2. CASE WaitFor(Item.n)
    BY <2>1, <2>2, WaitForKeeps DEF IInv, TypeOK
  <2>3. CASE Done /\ UNCHANGED k
    BY <2>1, <2>3, NoWaitKeeps
  <2> QED  BY <1>1, <2>2, <2>3 DEF Take
<1>2. CASE Await
  <2>1. Running("await") /\ UNCHANGED <<previous, allocated, app>>
    BY <1>2 DEF Await
  <2>2. CASE WaitFor(Item.n) /\ value' = [value EXCEPT ![Me] = IF Item.flag THEN 0 ELSE @]
    <3>1. value \in [Task -> NotifyValues] /\ Me \in Task /\ 0 \in NotifyValues
      <4>1. MaxNotified \in Nat
        BY TasksAssumption
      <4> QED  BY <4>1, StateFacts DEF IInv, TypeOK, NotifyValues
    <3>2. value' \in [Task -> NotifyValues]
      BY <2>2, <3>1
    <3> QED  BY <2>1, <2>2, <3>2, WaitForKeeps
  <2>3. CASE Done /\ UNCHANGED <<k, value>>
    BY <2>1, <2>3, NoWaitKeeps
  <2> QED  BY <1>2, <2>2, <2>3 DEF Await
<1> QED  BY <1>1, <1>2

\* The value a notification leaves has 32 bits.
LEMMA NotifiedValue ==
    ASSUME IInv, NEW t \in Task, NEW a \in App.actions, NEW v \in NotifyValues, Notify(t, a, v)
    PROVE  value' \in [Task -> NotifyValues]
<1>1. /\ value \in [Task -> NotifyValues] /\ value[t] \in NotifyValues
      /\ NotifyValues = 0 .. MaxNotified /\ MaxNotified \in Nat \ {0}
      /\ \A x, y \in NotifyValues : BitOr(x, y) \in NotifyValues
  BY TasksAssumption DEF IInv, TypeOK, NotifyValues
<1>2. a \in eNotifyAction
  BY TasksAssumption DEF IInv, TypeOK, App, IsApplication
<1>3. value' = [value EXCEPT ![t] = Updated(t, a, v)] /\ CountFits(t, a)
  BY DEF Notify
<1>4. BitOr(value[t], v) \in NotifyValues
  BY <1>1
<1>5. CASE a = "eIncrement"
  <2> DEFINE m == MaxNotified + 1
  <2> DEFINE x == value[t] + 1
  <2>0. value[t] \in Nat /\ MaxNotified \in Nat
    BY <1>1
  <2>1. /\ x \in Nat /\ m \in Nat /\ m > 0 /\ m - 1 = MaxNotified
    BY <2>0
  <2>2. Updated(t, a, v) = x % m
    BY <1>5 DEF Updated
  <2> HIDE DEF m, x
  <2>3. x % m \in 0 .. m - 1
    BY <2>1
  <2>4. Updated(t, a, v) \in NotifyValues
    BY <1>1, <2>1, <2>2, <2>3
  <2> QED  BY <1>1, <1>3, <2>4
<1>6. CASE a # "eIncrement"
  <2>1. Updated(t, a, v) \in {value[t], BitOr(value[t], v), v}
    BY <1>2, <1>6 DEF Updated, eNotifyAction
  <2>2. Updated(t, a, v) \in NotifyValues
    BY <1>1, <1>4, <2>1
  <2> QED  BY <1>1, <1>3, <2>2
<1> QED  BY <1>5, <1>6

\* xTaskGenericNotifyStateClear.
LEMMA StateClearKeeps ==
    ASSUME IInv, NEW t \in Task, xTaskGenericNotifyStateClear(t)
    PROVE  IInv'
<1>1. /\ k.notify[t] = "received" /\ k' = [k EXCEPT !.notify[t] = "notWaiting"]
      /\ Calls("xTaskNotifyStateClear") /\ k.susp = 0
      /\ UNCHANGED <<todo, value, previous, allocated, app>>
  BY DEF xTaskGenericNotifyStateClear, CallsRunning
<1>2. ~Parked(k, t) /\ value' \in [Task -> NotifyValues]
  BY <1>1, CallFacts DEF IInv, TypeOK
<1> QED  BY <1>1, <1>2, MarkKeeps

\* ulTaskGenericNotifyValueClear.
LEMMA ValueClearKeeps ==
    ASSUME IInv, NEW t \in Task, ulTaskGenericNotifyValueClear(t)
    PROVE  IInv'
<1>1. value' = [value EXCEPT ![t] = 0] /\ UNCHANGED <<k, todo, previous, allocated, app>>
  BY DEF ulTaskGenericNotifyValueClear
<1>2. 0 \in NotifyValues
  BY TasksAssumption DEF NotifyValues
<1>3. value' \in [Task -> NotifyValues] /\ previous' \in [Task -> Tick]
  BY <1>1, <1>2 DEF IInv, TypeOK
<1> QED  BY <1>1, <1>3, DataKeeps

\* xTaskGetTickCount.
LEMMA GetTickCountKeeps ==
    ASSUME IInv, xTaskGetTickCount
    PROVE  IInv'
<1>1. previous' = [previous EXCEPT ![Me] = k.tick] /\ UNCHANGED <<k, todo, value, allocated, app>>
  BY DEF xTaskGetTickCount
<1>2. k.tick \in Tick
  BY StateFacts, FieldTypes
<1>3. value' \in [Task -> NotifyValues] /\ previous' \in [Task -> Tick]
  BY <1>1, <1>2 DEF IInv, TypeOK
<1> QED  BY <1>1, <1>3, DataKeeps

\* A call makes a task ready, and yields to it if its priority is higher.
LEMMA ReadyingKeeps ==
    ASSUME IInv, NEW f, CallsRunning(f), NEW t \in Task, NEW c,
           KernelInv(c, allocated), Roused(k, c, t), c.susp = 0, c.cpu = "task",
           c.yield = k.yield, k' = YieldIfHigher(c, t),
           UNCHANGED <<todo, previous, allocated, app>>, value' \in [Task -> NotifyValues]
    PROVE  IInv'
<1>1. /\ k.cpu = "task" /\ k.susp = 0 /\ OpOf(todo[Me]) = "none" /\ AtRest(todo[Me])
      /\ \A u \in Task : ~Parked(k, u)
  BY CallFacts DEF CallsRunning
<1>2. /\ c.prio = k.prio /\ c.live = k.live /\ c.current = Me /\ ~Ticking(c)
      /\ \A u \in Task : ~Parked(c, u)
  BY <1>1 DEF Roused, Me, Ticking
<1>3. /\ k \in KernelState /\ todo \in [Task -> Seq(Work)] /\ WorkInv(todo, k.live, allocated)
      /\ Notified(k, todo, MaySuspend) /\ SuspendInv(k, todo)
      /\ \A u \in Task : u # Me => AtRest(todo[u])
  BY StateFacts DEF NotifyInv
<1>4. CASE k.prio[t] > k.prio[Me]
  <2>1. k' = vTaskSwitchContext(c)
    BY <1>2, <1>4 DEF YieldIfHigher
  <2>2. vTaskSwitchContext(c) = [vTaskSwitchContext(c) EXCEPT !.cpu = "task"]
    BY <1>2, SwitchChooses
  <2>3. Notified(c, todo, MaySuspend)
    BY <1>3, NotifiedRoused
  <2>4. todo' = todo /\ allocated' = allocated /\ app' = app
    OBVIOUS
  <2>5. /\ KernelInv(c, allocated') /\ todo' \in [Task -> Seq(Work)]
        /\ WorkInv(todo', c.live, allocated')
        /\ Notified(c, todo', MaySuspend)
        /\ \A u \in Task : AtRest(todo'[u])
    BY <1>1, <1>2, <1>3, <2>3, <2>4
  <2>6. previous' \in [Task -> Tick] /\ allocated' \in SUBSET Task
    BY DEF IInv, TypeOK
  <2>7. k' = [vTaskSwitchContext(c) EXCEPT !.cpu = "task"]
    BY <2>1, <2>2
  <2> QED  BY <1>2, <2>4, <2>5, <2>6, <2>7, SwitchKeeps
<1>5. CASE ~(k.prio[t] > k.prio[Me])
  <2>1. k' = c
    BY <1>2, <1>5 DEF YieldIfHigher
  <2>2. SuspendInv(c, todo)
    BY <1>1, <1>2, <1>3 DEF SuspendInv, Me
  <2>3. c.yield \/ (~k.yield /\ ~(k.prio[t] > k.prio[Me]))
    <3>1. ~(k.prio[t] > k.prio[Me])
      BY <1>5
    <3>2. CASE k.yield
      BY <3>2, Zenon
    <3>3. CASE ~k.yield
      BY <3>1, <3>3
    <3> QED  BY <3>2, <3>3
  <2> QED  BY <1>1, <2>1, <2>2, <2>3, RousedKeeps
<1> QED  BY <1>4, <1>5

\* vTaskResume.
LEMMA ResumeKeeps ==
    ASSUME IInv, NEW t \in Task, vTaskResume(t)
    PROVE  IInv'
<1> DEFINE c == MakeReady(k, t)
<1>1. /\ CallsRunning("vTaskResume") /\ t \in k.live /\ k' = YieldIfHigher(c, t)
      /\ UNCHANGED <<todo, value, previous, allocated, app>>
  BY DEF vTaskResume, Handles
<1>2. /\ KernelInv(c, allocated) /\ Woken(k, c, t) /\ c.event = k.event
  BY <1>1, StateFacts, KernelMakesReady
<1>3. \A u \in Task : ~Parked(k, u)
  BY <1>1, CallFacts DEF CallsRunning
<1> HIDE DEF c
<1>4. /\ Roused(k, c, t) /\ c.susp = 0 /\ c.cpu = "task" /\ c.yield = k.yield
  <2>1. \A u \in Task : Parked(c, u) <=> u # t /\ Parked(k, u)
    BY <1>2, <1>3 DEF Parked
  <2> QED  BY <1>1, <1>2, <2>1, WokenIsRoused, CallFacts
           DEF CallsRunning, Woken, Keeps, KeepsProcessor
<1>5. value' \in [Task -> NotifyValues]
  BY <1>1 DEF IInv, TypeOK
<1> QED  BY <1>1, <1>2, <1>4, <1>5, ReadyingKeeps

\* The running task is in no delayed list or xSuspendedTaskList when it looks
\* for a notification, and it is not marked as waiting.
LEMMA CheckingIsReady ==
    ASSUME IInv, k.cpu = "task", OpOf(todo[Me]) \in CheckOps
    PROVE  /\ IsReady(k, Me) /\ ~IsIn(k, Me, Suspended) /\ k.notify[Me] # "waiting"
<1>1. RunningInv(k, todo) /\ NotifyInv(k, todo, MaySuspend) /\ Me \in Task /\ Me \in k.live
      /\ Sound(k)
  BY StateFacts
<1>2. todo[Me] # <<>> /\ todo[Me][1].op \in CheckOps
  BY DEF OpOf
<1>3. ~YieldsNext(todo[Me])
  BY <1>2 DEF YieldsNext
<1>4. IsReady(k, Me)
  BY <1>1, <1>3 DEF RunningInv, Me
<1>5. k.notify[Me] # "waiting"
  BY <1>1 DEF NotifyInv, Notified, Waiting
<1>6. ~IsIn(k, Me, Suspended)
  <2>1. k.prio[Me] \in Priority
    BY <1>1, FieldTypes DEF Sound
  <2>2. Linked(k) /\ Ready(k.prio[Me]) \in StateLists /\ Suspended \in StateLists
        /\ Ready(k.prio[Me]) # Suspended
    BY <1>1, <2>1, ListNames DEF Sound
  <2> QED  BY <1>1, <1>4, <2>2 DEF Linked, IsReady
<1> QED  BY <1>4, <1>5, <1>6

\* A task that waits for a notification gets it, and is ready.
LEMMA NotifiedIsRoused ==
    ASSUME IInv, NEW t \in k.live, k.notify[t] = "waiting"
    PROVE  LET b == Received(t)
               c == MakeReady(b, t)
           IN  /\ KernelInv(b, allocated) /\ Marked(k, b, t, "received") /\ ~Parked(k, t)
               /\ KernelInv(c, allocated) /\ Roused(k, c, t) /\ c \in KernelState
               /\ c.susp = k.susp /\ c.cpu = k.cpu /\ c.yield = k.yield
               /\ SeenAlike(k, b)
<1> DEFINE b == Received(t)
<1> DEFINE c == MakeReady(b, t)
<1>1. /\ k \in KernelState /\ KernelInv(k, allocated) /\ t \in Task
      /\ NotifyInv(k, todo, MaySuspend)
  BY StateFacts
<1>2. KernelInv(b, allocated) /\ Marked(k, b, t, "received")
  BY <1>1, KernelMarks DEF Received, NotifyStates
<1>3. ~Parked(k, t)
  BY <1>1 DEF NotifyInv, Notified, Waiting
<1> HIDE DEF b
<1>4. SeenAlike(k, b) /\ b.live = k.live /\ b.prio = k.prio /\ b.event = k.event
  BY <1>2 DEF Marked, SeenAlike
<1>5. KernelInv(c, allocated) /\ Woken(b, c, t) /\ c.event = b.event
  BY <1>1, <1>2, <1>4, KernelMakesReady
<1> HIDE DEF c
<1>6. /\ c.susp = k.susp /\ c.cpu = k.cpu /\ c.yield = k.yield /\ c.prio = k.prio
      /\ c.live = k.live /\ c.current = k.current /\ c.notify = b.notify /\ c \in KernelState
  BY <1>2, <1>4, <1>5
     DEF Woken, Keeps, KeepsTasks, KeepsProcessor, Marked, KernelInv, Sound
<1>7. Roused(k, c, t)
  <2>1. \A u \in Task : /\ IsReady(b, u) <=> IsReady(k, u)
                        /\ IsIn(b, u, Suspended) <=> IsIn(k, u, Suspended)
                        /\ Parked(b, u) <=> Parked(k, u)
    BY <1>1, <1>4, AlikeFacts
  <2>2. Elsewhere(k, c, t) /\ IsReady(c, t) /\ ~IsIn(c, t, Suspended)
    BY <1>5, <2>1 DEF Woken, Elsewhere
  <2>3. \A u \in Task : Parked(c, u) <=> u # t /\ Parked(k, u)
    BY <1>3, <1>5, <2>1 DEF Parked
  <2>4. /\ \A u \in Task : u # t => c.notify[u] = k.notify[u]
        /\ c.notify[t] = "received"
    BY <1>2, <1>6 DEF Marked
  <2> QED  BY <1>6, <2>2, <2>3, <2>4 DEF Roused
<1> QED  BY <1>2, <1>3, <1>4, <1>5, <1>6, <1>7 DEF b, c

\* xTaskGenericNotify by a task.
LEMMA NotifyKeeps ==
    ASSUME IInv, NEW t \in Task, NEW a \in App.actions, NEW v \in NotifyValues,
           xTaskGenericNotify(t, a, v)
    PROVE  IInv'
<1>1. /\ CallsRunning("xTaskNotify") /\ t \in k.live /\ Notify(t, a, v)
      /\ UNCHANGED <<todo, previous, allocated, app>>
  BY DEF xTaskGenericNotify, Handles
<1>2. value' \in [Task -> NotifyValues]
  BY <1>1, NotifiedValue
<1>3. CASE k.notify[t] = "waiting"
  <2> DEFINE c == MakeReady(Received(t), t)
  <2>1. k' = YieldIfHigher(c, t)
    BY <1>3 DEF xTaskGenericNotify
  <2>2. /\ KernelInv(c, allocated) /\ Roused(k, c, t) /\ c.susp = 0 /\ c.cpu = "task"
        /\ c.yield = k.yield
    BY <1>1, <1>3, NotifiedIsRoused, CallFacts DEF CallsRunning
  <2> HIDE DEF c
  <2> QED  BY <1>1, <1>2, <2>1, <2>2, ReadyingKeeps
<1>4. CASE k.notify[t] # "waiting"
  <2>1. k' = [k EXCEPT !.notify[t] = "received"]
    BY <1>4 DEF xTaskGenericNotify, Received
  <2> QED  BY <1>1, <1>2, <1>4, <2>1, MarkKeeps
<1> QED  BY <1>3, <1>4

-----------------------------------------------------------------------------
(* Interrupts. *)

\* With the scheduler suspended an interrupt leaves a task in
\* xPendingReadyList: it is notified, or was suspended.
ParkedFrom(kk, r, t) ==
    /\ r.prio = kk.prio /\ r.live = kk.live /\ r.current = kk.current
    /\ r.susp = kk.susp /\ r.susp # 0 /\ r.cpu = kk.cpu /\ r.cpu = "task"
    /\ \A u \in Task : /\ IsReady(r, u) <=> IsReady(kk, u)
                       /\ IsIn(r, u, Suspended) <=> IsIn(kk, u, Suspended)
                       /\ Parked(r, u) <=> u = t \/ Parked(kk, u)
    /\ \A u \in Task : u # t => r.notify[u] = kk.notify[u]
    /\ r.notify[t] # "waiting"
    /\ r.notify[t] = "received" \/ IsIn(kk, t, Suspended)
    /\ r.yield \/ ~kk.yield

\* A task parked on xPendingReadyList keeps what the invariant says of the
\* tasks at rest.
LEMMA RestParked ==
    ASSUME NEW kk \in KernelState, NEW td, NEW may, RestInv(kk, td, may),
           NEW t \in kk.live, NEW r, ParkedFrom(kk, r, t),
           OpOf(td[kk.current]) \in CheckOps => t # kk.current
    PROVE  RestInv(r, td, may)
<1>1. /\ SuspendInv(kk, td) /\ RunningInv(kk, td) /\ ParkedInv(kk) /\ HighestInv(kk, td)
      /\ NotifyInv(kk, td, may) /\ Notified(kk, td, may)
  BY DEF RestInv, NotifyInv
<1>2. /\ \A u \in Task : IsReady(r, u) <=> IsReady(kk, u)
      /\ \A u \in Task : IsIn(r, u, Suspended) <=> IsIn(kk, u, Suspended)
      /\ \A u \in Task : Parked(r, u) <=> u = t \/ Parked(kk, u)
      /\ kk.live \subseteq Task /\ kk.current \in Task /\ t \in Task
      /\ r.prio = kk.prio /\ r.live = kk.live /\ r.current = kk.current
      /\ r.susp = kk.susp /\ r.susp # 0 /\ r.cpu = kk.cpu /\ r.cpu = "task"
      /\ \A u \in Task : u # t => r.notify[u] = kk.notify[u]
      /\ r.notify[t] # "waiting"
      /\ r.notify[t] = "received" \/ IsIn(kk, t, Suspended)
  BY FieldTypes DEF ParkedFrom
<1>3. SuspendInv(r, td) /\ RunningInv(r, td)
  BY <1>1, <1>2 DEF SuspendInv, RunningInv
<1>4. ParkedInv(r)
  BY <1>1, <1>2 DEF ParkedInv
<1>5. Notified(r, td, may)
  <2>1. ASSUME NEW u \in kk.live, r.notify[u] = "waiting"
        PROVE  Waiting(r, td, u)
    BY <1>1, <1>2, <2>1 DEF Waiting, Notified
  <2>2. ASSUME NEW u \in kk.live, EndsWait(td[u]), r.notify[u] # "waiting"
        PROVE  Awake(r, may, u)
    BY <1>1, <1>2, <2>2 DEF Awake, Notified
  <2> QED  BY <1>2, <2>1, <2>2 DEF Notified
<1>6. NotifyInv(r, td, may)
  BY <1>1, <1>2, <1>5 DEF NotifyInv
<1>7. HighestInv(r, td)
  <2>1. CASE r.yield
    BY <2>1 DEF HighestInv
  <2>2. CASE ~kk.yield
    BY <1>1, <1>2, <2>2 DEF HighestInv
  <2> QED  BY <2>1, <2>2 DEF ParkedFrom
<1> QED  BY <1>3, <1>4, <1>6, <1>7 DEF RestInv

\* xYieldPendings is set.
LEMMA KernelPendsYield ==
    ASSUME NEW kk, NEW handed, KernelInv(kk, handed), NEW t \in Task
    PROVE  LET r == PendYieldIfHigher(kk, t)
           IN  /\ KernelInv(r, handed) /\ SeenAlike(kk, r) /\ r \in KernelState
               /\ r.notify = kk.notify /\ r.current = kk.current /\ r.susp = kk.susp
               /\ r.cpu = kk.cpu /\ r.list = kk.list /\ r.wake = kk.wake /\ r.tick = kk.tick
               /\ r.yield <=> kk.yield \/ kk.prio[t] > kk.prio[kk.current]
<1> DEFINE y == kk.yield \/ kk.prio[t] > kk.prio[kk.current]
<1> DEFINE r == [kk EXCEPT !.yield = y]
<1>1. kk \in KernelState /\ y \in BOOLEAN /\ kk.current \in kk.live
  BY DEF KernelInv, Sound, KernelState
<1>2. r = PendYieldIfHigher(kk, t)
  BY DEF PendYieldIfHigher
<1>3. y <=> kk.yield \/ kk.prio[t] > kk.prio[kk.current]
  OBVIOUS
<1> HIDE DEF y
<1>4. /\ r \in KernelState /\ SameLists(kk, r) /\ r.prio = kk.prio /\ r.base = kk.base
      /\ r.live = kk.live /\ r.tick = kk.tick /\ r.top = kk.top /\ r.next = kk.next
      /\ r.notify = kk.notify /\ r.current = kk.current /\ r.susp = kk.susp
      /\ r.cpu = kk.cpu /\ r.list = kk.list /\ r.wake = kk.wake /\ r.yield = y
  BY <1>1 DEF KernelState, SameLists
<1> HIDE DEF r
<1>5. Ticking(r) <=> Ticking(kk)
  BY <1>4 DEF Ticking
<1>6. KernelInv(r, handed) /\ SeenAlike(kk, r)
  BY <1>1, <1>4, <1>5, KernelSame
<1>7. r.yield <=> kk.yield \/ kk.prio[t] > kk.prio[kk.current]
  BY <1>3, <1>4, Zenon
<1> QED  BY <1>2, <1>4, <1>6, <1>7

\* What an interrupt finds when the scheduler runs.
LEMMA InterruptFacts ==
    ASSUME IInv, k.cpu = "task", k.susp = 0
    PROVE  /\ OpOf(todo[Me]) \notin CheckOps \cup {"wait"} /\ \A u \in Task : ~Parked(k, u)
           /\ \A r : r.susp = 0 /\ r.cpu = "task" /\ r.current = k.current => SuspendInv(r, todo)
<1>1. SuspendInv(k, todo) /\ ParkedInv(k)
  BY StateFacts
<1>2. OpOf(todo[Me]) \notin CheckOps \cup {"wait"}
  BY <1>1 DEF SuspendInv, Me
<1>3. \A u \in Task : ~Parked(k, u)
  BY <1>1 DEF ParkedInv
<1>4. ASSUME NEW r, r.susp = 0, r.cpu = "task", r.current = k.current
      PROVE  SuspendInv(r, todo)
  BY <1>1, <1>4 DEF SuspendInv
<1> QED  BY <1>2, <1>3, <1>4

\* Parking a task on xPendingReadyList keeps the invariant.
LEMMA ParkingKeeps ==
    ASSUME IInv, NEW t \in k.live, KernelInv(k', allocated), ParkedFrom(k, k', t),
           OpOf(todo[Me]) \in CheckOps => t # Me,
           UNCHANGED <<todo, previous, allocated, app>>, value' \in [Task -> NotifyValues]
    PROVE  IInv'
<1>1. /\ k \in KernelState /\ RestInv(k, todo, MaySuspend)
      /\ todo \in [Task -> Seq(Work)] /\ WorkInv(todo, k.live, allocated)
  BY StateFacts
<1>2. RestInv(k', todo, MaySuspend)
  BY <1>1, RestParked DEF Me
<1>3. k' \in KernelState /\ k'.live = k.live
  BY DEF KernelInv, Sound, ParkedFrom
<1>4. todo' = todo /\ allocated' = allocated /\ app' = app
  OBVIOUS
<1>5. WorkInv(todo', k'.live, allocated') /\ KernelInv(k', allocated') /\ RestInv(k', todo', MaySuspend)
  BY <1>1, <1>2, <1>3, <1>4
<1>6. /\ previous' \in [Task -> Tick]
      /\ allocated' \in SUBSET Task /\ todo' \in [Task -> Seq(Work)]
  BY <1>1 DEF IInv, TypeOK
<1> QED  BY <1>3, <1>4, <1>5, <1>6, Together

\* xTaskResumeFromISR readies the task, or leaves it for xTaskResumeAll.
LEMMA InterruptResumes ==
    ASSUME IInv, NEW t \in Task, xTaskResumeFromISR(t)
    PROVE  /\ k.cpu = "task" /\ t \in k.live /\ IsIn(k, t, Suspended)
           /\ KernelInv(k', allocated)
           /\ k.susp = 0 => /\ Roused(k, k', t) /\ SuspendInv(k', todo)
                            /\ k'.yield \/ (~k.yield /\ ~(k.prio[t] > k.prio[Me]))
           /\ k.susp # 0 => ParkedFrom(k, k', t)
<1>1. /\ k.cpu = "task" /\ t \in k.live /\ IsIn(k, t, Suspended) /\ ~Waits(k, t)
      /\ k.notify[t] # "waiting"
  BY DEF xTaskResumeFromISR, Interrupts, InterruptsOn, Handles, prvTaskIsTaskSuspended
<1>2. k \in KernelState /\ KernelInv(k, allocated)
  BY StateFacts
<1>3. CASE k.susp = 0
  <2> DEFINE p == PendYieldIfHigher(k, t)
  <2> DEFINE c == MakeReady(p, t)
  <2>1. k' = c
    BY <1>3 DEF xTaskResumeFromISR
  <2>2. /\ KernelInv(p, allocated) /\ SeenAlike(k, p) /\ p.notify = k.notify
        /\ p.current = k.current /\ p.susp = k.susp /\ p.cpu = k.cpu
        /\ p.yield <=> k.yield \/ k.prio[t] > k.prio[Me]
    BY <1>2, KernelPendsYield DEF Me
  <2> HIDE DEF p
  <2>3. p.live = k.live /\ p.prio = k.prio /\ p.event = k.event
    BY <2>2 DEF SeenAlike
  <2>4. KernelInv(c, allocated) /\ Woken(p, c, t) /\ c.event = p.event
    BY <1>1, <2>2, <2>3, KernelMakesReady
  <2> HIDE DEF c
  <2>5. /\ c.susp = 0 /\ c.cpu = "task" /\ c.yield = p.yield /\ c.prio = k.prio
        /\ c.live = k.live /\ c.current = k.current /\ c.notify = k.notify
    BY <1>1, <1>3, <2>2, <2>3, <2>4 DEF Woken, Keeps, KeepsTasks, KeepsProcessor
  <2>6. Roused(k, c, t)
    <3>1. \A u \in Task : /\ IsReady(p, u) <=> IsReady(k, u)
                          /\ IsIn(p, u, Suspended) <=> IsIn(k, u, Suspended)
                          /\ Parked(p, u) <=> Parked(k, u)
      BY <1>2, <2>2, AlikeFacts
    <3>2. Elsewhere(k, c, t) /\ IsReady(c, t) /\ ~IsIn(c, t, Suspended)
      BY <2>4, <3>1 DEF Woken, Elsewhere
    <3>3. \A u \in Task : Parked(c, u) <=> u # t /\ Parked(k, u)
      BY <1>1, <1>3, <2>3, <2>4, InterruptFacts DEF Parked
    <3> QED  BY <2>5, <3>2, <3>3 DEF Roused
  <2>7. c.yield \/ (~k.yield /\ ~(k.prio[t] > k.prio[Me]))
    BY <2>2, <2>5, Zenon
  <2>8. SuspendInv(c, todo)
    BY <1>1, <1>3, <2>5, InterruptFacts
  <2> QED  BY <1>1, <1>3, <2>1, <2>4, <2>6, <2>7, <2>8
<1>4. CASE k.susp # 0
  <2>1. k' = AppendPending(k, t)
    BY <1>4 DEF xTaskResumeFromISR
  <2>2. ~Parked(k, t)
    BY <1>1, ListNames DEF Waits, Parked
  <2>3. /\ KernelInv(k', allocated) /\ SameRest(k, k')
        /\ \A u \in Task : /\ IsReady(k', u) <=> IsReady(k, u)
                           /\ IsIn(k', u, Suspended) <=> IsIn(k, u, Suspended)
                           /\ Parked(k', u) <=> u = t \/ Parked(k, u)
    BY <1>2, <2>1, <2>2, KernelParks
  <2>4. k'.yield \/ ~k.yield
    <3>1. k'.yield = k.yield
      BY <2>3 DEF SameRest
    <3> QED  BY <3>1, Zenon
  <2>5. ParkedFrom(k, k', t)
    BY <1>1, <1>4, <2>3, <2>4 DEF ParkedFrom, SameRest, Keeps, KeepsTasks, KeepsProcessor
  <2> QED  BY <1>1, <1>4, <2>3, <2>5
<1> QED  BY <1>3, <1>4

\* And the invariant holds after that.
LEMMA ResumeFromISRKeeps ==
    ASSUME IInv, NEW t \in Task, xTaskResumeFromISR(t)
    PROVE  IInv'
<1>1. UNCHANGED <<todo, value, previous, allocated, app>>
  BY DEF xTaskResumeFromISR
<1>2. /\ k.cpu = "task" /\ t \in k.live /\ IsIn(k, t, Suspended) /\ KernelInv(k', allocated)
      /\ value' \in [Task -> NotifyValues]
  BY <1>1, InterruptResumes DEF IInv, TypeOK
<1>3. CASE k.susp = 0
  <2>1. k'.yield \/ (~k.yield /\ ~(k.prio[t] > k.prio[Me]))
    BY <1>3, InterruptResumes, Zenon
  <2>2. Roused(k, k', t) /\ SuspendInv(k', todo)
    BY <1>3, InterruptResumes
  <2>3. \A u \in Task : ~Parked(k, u)
    BY <1>2, <1>3, InterruptFacts
  <2> QED  BY <1>1, <1>2, <1>3, <2>1, <2>2, <2>3, InterruptFacts, RousedKeeps
<1>4. CASE k.susp # 0
  <2>1. ParkedFrom(k, k', t)
    BY <1>4, InterruptResumes
  <2>2. OpOf(todo[Me]) \in CheckOps => t # Me
    BY <1>2, CheckingIsReady
  <2> QED  BY <1>1, <1>2, <2>1, <2>2, ParkingKeeps
<1> QED  BY <1>3, <1>4

\* A notification from an interrupt readies the task that waits for it, or
\* leaves it for xTaskResumeAll.
LEMMA InterruptNotifies ==
    ASSUME IInv, NEW t \in Task, NEW a \in App.actions, NEW v \in NotifyValues,
           xTaskGenericNotifyFromISR(t, a, v), k.notify[t] = "waiting"
    PROVE  /\ k.cpu = "task" /\ t \in k.live
           /\ KernelInv(k', allocated) /\ k'.notify[t] = "received"
           /\ k.susp = 0 => /\ Roused(k, k', t) /\ SuspendInv(k', todo)
                            /\ k'.yield \/ (~k.yield /\ ~(k.prio[t] > k.prio[Me]))
           /\ k.susp # 0 => ParkedFrom(k, k', t)
<1>1. k.cpu = "task" /\ t \in k.live
  BY DEF xTaskGenericNotifyFromISR, Interrupts, InterruptsOn, Handles
<1>2. k \in KernelState /\ KernelInv(k, allocated)
  BY StateFacts
<1>4. CASE k.susp = 0
  <2> DEFINE b == Received(t)
  <2> DEFINE c == MakeReady(b, t)
  <2>1. /\ KernelInv(c, allocated) /\ Roused(k, c, t) /\ c.susp = k.susp
        /\ c.cpu = k.cpu /\ c.yield = k.yield /\ b.susp = k.susp /\ c \in KernelState
    BY <1>1, <1>4, NotifiedIsRoused DEF Marked
  <2>2. k' = PendYieldIfHigher(c, t)
    BY <1>4, <2>1 DEF xTaskGenericNotifyFromISR, MakeReadyOrPend
  <2> HIDE DEF b, c
  <2>3. c.prio = k.prio /\ c.current = k.current /\ c.live = k.live
    BY <2>1 DEF Roused
  <2>4. /\ KernelInv(k', allocated) /\ SeenAlike(c, k') /\ k'.notify = c.notify
        /\ k'.current = k.current /\ k'.susp = 0 /\ k'.cpu = "task"
        /\ k'.yield <=> k.yield \/ k.prio[t] > k.prio[Me]
    BY <1>1, <1>4, <2>1, <2>2, <2>3, KernelPendsYield DEF Me
  <2>5. Roused(k, k', t)
    <3>1. \A u \in Task : /\ IsReady(k', u) <=> IsReady(c, u)
                          /\ IsIn(k', u, Suspended) <=> IsIn(c, u, Suspended)
                          /\ Parked(k', u) <=> Parked(c, u)
      BY <2>1, <2>4, AlikeFacts
    <3>2. k'.prio = k.prio /\ k'.live = k.live
      BY <2>3, <2>4 DEF SeenAlike
    <3> QED  BY <2>1, <2>4, <3>1, <3>2 DEF Roused, Elsewhere
  <2>6. SuspendInv(k', todo)
    BY <1>1, <1>4, <2>4, InterruptFacts
  <2>7. k'.yield \/ (~k.yield /\ ~(k.prio[t] > k.prio[Me]))
    BY <2>4, Zenon
  <2>8. k'.notify[t] = "received"
    <3>1. c.notify[t] = "received"
      <4>1. c = MakeReady(Received(t), t)
        BY DEF b, c
      <4>2. Marked(k, Received(t), t, "received")
        BY <1>1, NotifiedIsRoused
      <4>3. Received(t).live = k.live /\ KernelInv(Received(t), allocated)
        BY <1>1, <4>2, NotifiedIsRoused DEF Marked, SeenAlike
      <4>4. Woken(Received(t), c, t)
        BY <1>1, <4>1, <4>3, KernelMakesReady
      <4> QED  BY <4>2, <4>4 DEF Marked, Woken, Keeps, KeepsTasks
    <3> QED  BY <2>4, <3>1
  <2> QED  BY <1>1, <1>4, <2>4, <2>5, <2>6, <2>7, <2>8
<1>5. CASE k.susp # 0
  <2> DEFINE b == Received(t)
  <2> DEFINE c == AppendPending(b, t)
  <2>1. /\ KernelInv(b, allocated) /\ Marked(k, b, t, "received") /\ ~Parked(k, t)
        /\ SeenAlike(k, b)
    BY <1>1, <1>5, NotifiedIsRoused
  <2>2. b.susp = k.susp /\ b.prio = k.prio /\ b.live = k.live /\ b.event = k.event
    BY <2>1 DEF Marked, SeenAlike
  <2>3. k' = PendYieldIfHigher(c, t)
    BY <1>5, <2>2 DEF xTaskGenericNotifyFromISR, MakeReadyOrPend
  <2> HIDE DEF b
  <2>4. ~Parked(b, t)
    BY <2>1, <2>2 DEF Parked
  <2>5. /\ KernelInv(c, allocated) /\ SameRest(b, c)
        /\ \A u \in Task : /\ IsReady(c, u) <=> IsReady(b, u)
                           /\ IsIn(c, u, Suspended) <=> IsIn(b, u, Suspended)
                           /\ Parked(c, u) <=> u = t \/ Parked(b, u)
    BY <2>1, <2>4, KernelParks
  <2> HIDE DEF c
  <2>6. /\ c \in KernelState /\ c.prio = k.prio /\ c.live = k.live /\ c.current = k.current
        /\ c.susp = k.susp /\ c.cpu = k.cpu /\ c.notify = b.notify /\ c.yield = k.yield
    BY <2>1, <2>2, <2>5
       DEF SameRest, Keeps, KeepsTasks, KeepsProcessor, Marked, KernelInv, Sound
  <2>7. /\ KernelInv(k', allocated) /\ SeenAlike(c, k') /\ k'.notify = c.notify
        /\ k'.current = k.current /\ k'.susp = k.susp /\ k'.cpu = k.cpu
        /\ k'.yield <=> k.yield \/ k.prio[t] > k.prio[Me]
    BY <2>3, <2>5, <2>6, KernelPendsYield DEF Me
  <2>8. \A u \in Task : /\ IsReady(k', u) <=> IsReady(k, u)
                        /\ IsIn(k', u, Suspended) <=> IsIn(k, u, Suspended)
                        /\ Parked(k', u) <=> u = t \/ Parked(k, u)
    <3>1. \A u \in Task : /\ IsReady(b, u) <=> IsReady(k, u)
                          /\ IsIn(b, u, Suspended) <=> IsIn(k, u, Suspended)
                          /\ Parked(b, u) <=> Parked(k, u)
      BY <1>2, <2>1, AlikeFacts
    <3>2. \A u \in Task : /\ IsReady(k', u) <=> IsReady(c, u)
                          /\ IsIn(k', u, Suspended) <=> IsIn(c, u, Suspended)
                          /\ Parked(k', u) <=> Parked(c, u)
      BY <2>6, <2>7, AlikeFacts
    <3> QED  BY <2>5, <3>1, <3>2
  <2>9. k'.yield \/ ~k.yield
    BY <2>7, Zenon
  <2>10. /\ \A u \in Task : u # t => k'.notify[u] = k.notify[u]
         /\ k'.notify[t] = "received"
    BY <2>1, <2>6, <2>7 DEF Marked
  <2>11. ParkedFrom(k, k', t)
    BY <1>1, <1>5, <2>6, <2>7, <2>8, <2>9, <2>10 DEF ParkedFrom, SeenAlike
  <2> QED  BY <1>1, <1>5, <2>7, <2>10, <2>11
<1> QED  BY <1>4, <1>5

\* And the invariant holds after a notification from an interrupt.
LEMMA NotifyFromISRKeeps ==
    ASSUME IInv, NEW t \in Task, NEW a \in App.actions, NEW v \in NotifyValues,
           xTaskGenericNotifyFromISR(t, a, v)
    PROVE  IInv'
<1>1. /\ k.cpu = "task" /\ t \in k.live /\ Notify(t, a, v)
      /\ UNCHANGED <<todo, previous, allocated, app>>
  BY DEF xTaskGenericNotifyFromISR, Interrupts, InterruptsOn, Handles
<1>2. value' \in [Task -> NotifyValues]
  BY <1>1, NotifiedValue
<1>3. CASE k.notify[t] # "waiting"
  <2>1. k' = [k EXCEPT !.notify[t] = "received"]
    BY <1>3 DEF xTaskGenericNotifyFromISR, Received
  <2> QED  BY <1>1, <1>2, <1>3, <2>1, MarkKeeps
<1>4. CASE k.notify[t] = "waiting" /\ k.susp = 0
  <2>1. k'.yield \/ (~k.yield /\ ~(k.prio[t] > k.prio[Me]))
    BY <1>4, InterruptNotifies, Zenon
  <2>2. KernelInv(k', allocated) /\ Roused(k, k', t) /\ SuspendInv(k', todo)
    BY <1>4, InterruptNotifies
  <2>3. \A u \in Task : ~Parked(k, u)
    BY <1>1, <1>4, InterruptFacts
  <2> QED  BY <1>1, <1>2, <1>4, <2>1, <2>2, <2>3, InterruptFacts, RousedKeeps
<1>5. CASE k.notify[t] = "waiting" /\ k.susp # 0
  <2>1. KernelInv(k', allocated) /\ ParkedFrom(k, k', t)
    BY <1>5, InterruptNotifies
  <2>2. OpOf(todo[Me]) \in CheckOps => t # Me
    BY <1>1, <1>5, CheckingIsReady
  <2> QED  BY <1>1, <1>2, <2>1, <2>2, ParkingKeeps
<1> QED  BY <1>3, <1>4, <1>5

-----------------------------------------------------------------------------
(* Calls. *)

\* None of the items of a call that begins owns a control block.
LEMMA NoneOwned ==
    /\ OpOf(<<>>) = "none" /\ Shape(<<>>) /\ <<>> \in Seq(Work)
    /\ \A i \in 1 .. Len(<<>>) : ~Owns(<<>>, i)
    /\ \A a \in Work : OpOf(<<a>>) = a.op
    /\ \A a \in Work : a.op \notin {"add", "freeTCB"} =>
           \A i \in 1 .. Len(<<a>>) : ~Owns(<<a>>, i)
    /\ \A a, b \in Work : OpOf(<<a, b>>) = a.op
    /\ \A a, b \in Work : a.op \notin {"add", "freeTCB"} /\ b.op \notin {"add", "freeTCB"} =>
           \A i \in 1 .. Len(<<a, b>>) : ~Owns(<<a, b>>, i)
    /\ \A a, b, c \in Work : OpOf(<<a, b, c>>) = a.op
    /\ \A a, b, c \in Work :
           a.op \notin {"add", "freeTCB"} /\ b.op \notin {"add", "freeTCB"}
           /\ c.op \notin {"add", "freeTCB"} =>
               \A i \in 1 .. Len(<<a, b, c>>) : ~Owns(<<a, b, c>>, i)
<1>1. /\ OpOf(<<>>) = "none" /\ Shape(<<>>) /\ <<>> \in Seq(Work)
      /\ \A i \in 1 .. Len(<<>>) : ~Owns(<<>>, i)
  <2>1. Len(<<>>) = 0 /\ \A i \in 1 .. 0 : FALSE
    OBVIOUS
  <2>2. \A i \in 1 .. Len(<<>>) : FALSE
    BY <2>1
  <2> QED  BY <2>2 DEF OpOf, Shape
<1>2. ASSUME NEW a \in Work
      PROVE  /\ OpOf(<<a>>) = a.op
             /\ a.op \notin {"add", "freeTCB"} =>
                    \A i \in 1 .. Len(<<a>>) : ~Owns(<<a>>, i)
  <2> DEFINE s == <<a>>
  <2>1. Len(s) = 1 /\ s[1] = a /\ s # <<>>
    OBVIOUS
  <2> HIDE DEF s
  <2>2. \A i \in 1 .. Len(s) : i = 1
    BY <2>1
  <2>3. OpOf(s) = a.op /\ (a.op \notin {"add", "freeTCB"} => \A i \in 1 .. Len(s) : ~Owns(s, i))
    BY <2>1, <2>2 DEF OpOf, Owns
  <2> QED  BY <2>3 DEF s
<1>3. ASSUME NEW a \in Work, NEW b \in Work
      PROVE  /\ OpOf(<<a, b>>) = a.op
             /\ a.op \notin {"add", "freeTCB"} /\ b.op \notin {"add", "freeTCB"} =>
                    \A i \in 1 .. Len(<<a, b>>) : ~Owns(<<a, b>>, i)
  <2> DEFINE s == <<a, b>>
  <2>1. Len(s) = 2 /\ s[1] = a /\ s[2] = b /\ s # <<>>
    OBVIOUS
  <2> HIDE DEF s
  <2>2. \A i \in 1 .. Len(s) : i = 1 \/ i = 2
    BY <2>1
  <2>3. /\ OpOf(s) = a.op
        /\ a.op \notin {"add", "freeTCB"} /\ b.op \notin {"add", "freeTCB"}
               => \A i \in 1 .. Len(s) : ~Owns(s, i)
    BY <2>1, <2>2 DEF OpOf, Owns
  <2> QED  BY <2>3 DEF s
<1>4. ASSUME NEW a \in Work, NEW b \in Work, NEW c \in Work
      PROVE  /\ OpOf(<<a, b, c>>) = a.op
             /\ a.op \notin {"add", "freeTCB"} /\ b.op \notin {"add", "freeTCB"}
                /\ c.op \notin {"add", "freeTCB"} =>
                    \A i \in 1 .. Len(<<a, b, c>>) : ~Owns(<<a, b, c>>, i)
  <2> DEFINE s == <<a, b, c>>
  <2>1. Len(s) = 3 /\ s[1] = a /\ s[2] = b /\ s[3] = c /\ s # <<>>
    OBVIOUS
  <2> HIDE DEF s
  <2>2. \A i \in 1 .. Len(s) : i = 1 \/ i = 2 \/ i = 3
    BY <2>1
  <2>3. /\ OpOf(s) = a.op
        /\ a.op \notin {"add", "freeTCB"} /\ b.op \notin {"add", "freeTCB"}
           /\ c.op \notin {"add", "freeTCB"} => \A i \in 1 .. Len(s) : ~Owns(s, i)
    BY <2>1, <2>2 DEF OpOf, Owns
  <2> QED  BY <2>3 DEF s
<1> QED  BY <1>1, <1>2, <1>3, <1>4

\* The scheduler is suspended, once more.
LEMMA SuspendIsQuiet ==
    ASSUME IInv, k.cpu = "task", NEW n \in Nat, k' = [k EXCEPT !.susp = n]
    PROVE  Quietly(k, k') /\ k'.cpu = "task" /\ k'.yield = k.yield /\ k'.susp = n
<1>1. k \in KernelState
  BY StateFacts
<1>2. k' \in KernelState /\ k'.cpu = "task" /\ k'.yield = k.yield /\ k'.susp = n
  BY <1>1 DEF KernelState
<1> QED  BY <1>1, <1>2 DEF Quietly, SameLists, KernelState

\* vTaskSuspendAll.
LEMMA SuspendAllKeeps ==
    ASSUME IInv, vTaskSuspendAll
    PROVE  IInv'
<1> DEFINE n == k.susp + 1
<1>1. /\ Calls("vTaskSuspendAll") /\ k' = [k EXCEPT !.susp = n]
      /\ UNCHANGED <<todo, value, previous, allocated, app>>
  BY DEF vTaskSuspendAll
<1>2. k.cpu = "task" /\ todo[Me] = <<>> /\ n \in Nat /\ todo \in [Task -> Seq(Work)] /\ Me \in Task
  BY <1>1, StateFacts, FieldTypes DEF Calls
<1>3. n = k.susp + 1
  OBVIOUS
<1> HIDE DEF n
<1>4. Quietly(k, k') /\ k'.cpu = "task" /\ k'.yield = k.yield /\ k'.susp = k.susp + 1
  BY <1>1, <1>2, <1>3, SuspendIsQuiet
<1>5. Continue(<<>>)
  BY <1>1, <1>2 DEF Continue
<1>6. OpOf(<<>>) # "wait"
  BY NoneOwned
<1> QED  BY <1>1, <1>4, <1>5, <1>6, NoneOwned, CallKeeps

\* A call of xTaskResumeAll.
LEMMA CallResumeAllKeeps ==
    ASSUME IInv, xTaskResumeAll
    PROVE  IInv'
<1> DEFINE a == Do("resumeAll")
<1>1. /\ Calls("vTaskSuspendAll") /\ k.susp > 0 /\ Continue(<<a>>) /\ k' = k
      /\ UNCHANGED <<value, previous, allocated, app>>
  BY DEF xTaskResumeAll
<1>2. "resumeAll" \in Ops
  BY DEF Ops
<1>3. a \in Work /\ a.op = "resumeAll"
  BY <1>2, ItemFacts
<1>4. k.cpu = "task" /\ Quietly(k, k') /\ k'.yield = k.yield /\ k'.cpu = "task" /\ k'.susp = k.susp
  BY <1>1, UnchangedIsQuiet DEF Calls
<1>5. <<a>> = <<Do("resumeAll")>>
  OBVIOUS
<1> HIDE DEF a
<1>6. <<a>> \in Seq(Work) /\ Shape(<<a>>)
  BY <1>3, ShapeOfOne
<1>7. OpOf(<<a>>) # "wait" /\ \A i \in 1 .. Len(<<a>>) : ~Owns(<<a>>, i)
  BY <1>3, NoneOwned
<1> QED  BY <1>1, <1>4, <1>5, <1>6, <1>7, CallKeeps

\* A call that suspends the scheduler in its first step.
LEMMA SuspendingCallKeeps ==
    ASSUME IInv, NEW f, CallsRunning(f), k' = [k EXCEPT !.susp = 1],
           NEW s \in Seq(Work), Continue(s), Shape(s), \A i \in 1 .. Len(s) : ~Owns(s, i),
           OpOf(s) \in SuspendedOps \cup {"resumeAll"}, OpOf(s) # "wait",
           UNCHANGED <<value, previous, allocated, app>>
    PROVE  IInv'
<1>1. Calls(f) /\ k.susp = 0 /\ k.cpu = "task"
  BY DEF CallsRunning, Calls
<1>2. Quietly(k, k') /\ k'.cpu = "task" /\ k'.yield = k.yield /\ k'.susp = 1
  BY <1>1, SuspendIsQuiet
<1> QED  BY <1>1, <1>2, CallKeeps

\* A call of three items: a sleep, or a test for a notification.
LEMMA CallOfThreeKeeps ==
    ASSUME IInv, NEW f, CallsRunning(f), k' = [k EXCEPT !.susp = 1],
           NEW a \in Work, NEW b \in Work, NEW c \in Work, Continue(<<a, b, c>>),
           \/ a.op \in {"delay", "delayUntil"} /\ a.n > 0 /\ b.op = "resumeAll" /\ c.op = "yield"
           \/ a.op \in CheckOps /\ b.op = "resumeAll" /\ c.op \in EndOps,
           a.n \in Tick,
           UNCHANGED <<value, previous, allocated, app>>
    PROVE  IInv'
<1> DEFINE s == <<a, b, c>>
<1>1. s \in Seq(Work) /\ Shape(s)
  BY ShapeOfThree
<1>2. OpOf(s) = a.op /\ \A i \in 1 .. Len(s) : ~Owns(s, i)
  BY NoneOwned
<1>3. Continue(s)
  OBVIOUS
<1> HIDE DEF s
<1> QED  BY <1>1, <1>2, <1>3, SuspendingCallKeeps

\* A time to wait is a tick count.
LEMMA TicksAreTicks ==
    ASSUME IInv, NEW n \in App.ticks[Me]
    PROVE  n \in Tick /\ n \in Nat
<1>1. App.ticks \in [Task -> SUBSET Tick] /\ Me \in Task
  BY StateFacts, TasksAssumption DEF IInv, TypeOK, App, IsApplication
<1>2. n \in Tick
  BY <1>1
<1> QED  BY <1>2, TickFacts

\* The calls of vTaskDelay and xTaskDelayUntil.
LEMMA DelayCallKeeps ==
    ASSUME IInv, NEW n \in App.ticks[Me], vTaskDelay(n) \/ xTaskDelayUntil(n)
    PROVE  IInv'
<1>0. n \in Tick /\ n \in Nat
  BY TicksAreTicks
<1>1. ASSUME NEW op \in {"delay", "delayUntil"}, n > 0, NEW f, CallsRunning(f),
             k' = [k EXCEPT !.susp = 1],
             Continue(<<DoFor(op, n), Do("resumeAll"), Do("yield")>>),
             UNCHANGED <<value, previous, allocated, app>>
      PROVE  IInv'
  <2> DEFINE a == DoFor(op, n)
  <2> DEFINE b == Do("resumeAll")
  <2> DEFINE c == Do("yield")
  <2>1. op \in Ops /\ "resumeAll" \in Ops /\ "yield" \in Ops
    BY <1>1 DEF Ops
  <2>2. /\ a \in Work /\ a.op = op /\ a.n = n /\ b \in Work /\ b.op = "resumeAll"
        /\ c \in Work /\ c.op = "yield"
    BY <1>0, <2>1, ItemFacts
  <2>3. Continue(<<a, b, c>>)
    BY <1>1
  <2> HIDE DEF a, b, c
  <2> QED  BY <1>0, <1>1, <2>2, <2>3, CallOfThreeKeeps
<1>2. CASE xTaskDelayUntil(n)
  BY <1>1, <1>2 DEF xTaskDelayUntil
<1>3. CASE vTaskDelay(n) /\ n > 0
  BY <1>1, <1>3 DEF vTaskDelay
<1>4. CASE vTaskDelay(n) /\ ~(n > 0)
  <2>1. /\ CallsRunning("vTaskDelay") /\ k' = vTaskSwitchContext(k)
        /\ UNCHANGED <<todo, value, previous, allocated, app>>
    BY <1>4 DEF vTaskDelay
  <2>2. /\ k.susp = 0 /\ k.cpu = "task" /\ AtRest(todo[Me]) /\ ~Ticking(k)
    BY <2>1, CallFacts DEF CallsRunning
  <2>3. /\ todo \in [Task -> Seq(Work)] /\ WorkInv(todo, k.live, allocated)
        /\ KernelInv(k, allocated) /\ todo' = todo
    BY <2>1, StateFacts
  <2>4. k' = [vTaskSwitchContext(k) EXCEPT !.cpu = "task"]
    BY <2>1, <2>2, <2>3, SwitchChooses
  <2> DEFINE s == todo[Me]
  <2>5. /\ todo'[Me] = s /\ \A u \in Task : u # Me => todo'[u] = todo[u]
        /\ EndsWait(s) <=> EndsWait(todo[Me])
        /\ todo' \in [Task -> Seq(Work)] /\ WorkInv(todo', k.live, allocated)
        /\ AtRest(s)
    BY <2>2, <2>3
  <2> HIDE DEF s
  <2> QED  BY <2>1, <2>2, <2>4, <2>5, YieldKeeps
<1> QED  BY <1>2, <1>3, <1>4

\* A call of xTaskCatchUpTicks.
LEMMA CatchUpTicksKeeps ==
    ASSUME IInv, NEW n \in App.ticks[Me], xTaskCatchUpTicks(n)
    PROVE  IInv'
<1> DEFINE a == DoFor("catchUp", n)
<1> DEFINE b == Do("resumeAll")
<1>0. n \in Nat
  BY TicksAreTicks
<1>1. /\ CallsRunning("xTaskCatchUpTicks") /\ k' = [k EXCEPT !.susp = 1]
      /\ Continue(<<a, b>>) /\ UNCHANGED <<value, previous, allocated, app>>
  BY DEF xTaskCatchUpTicks
<1>2. "catchUp" \in Ops /\ "resumeAll" \in Ops
  BY DEF Ops
<1>3. a \in Work /\ a.op = "catchUp" /\ b \in Work /\ b.op = "resumeAll"
  BY <1>0, <1>2, ItemFacts
<1> HIDE DEF a, b
<1> DEFINE s == <<a, b>>
<1>4. s \in Seq(Work) /\ Shape(s) /\ OpOf(s) = "catchUp" /\ \A i \in 1 .. Len(s) : ~Owns(s, i)
  BY <1>3, ShapeOfTwo, NoneOwned
<1>5. Continue(s)
  BY <1>1
<1> HIDE DEF s
<1> QED  BY <1>1, <1>4, <1>5, SuspendingCallKeeps

\* A call of xTaskCreate.
LEMMA CreateKeeps ==
    ASSUME IInv, NEW p \in Priority, xTaskCreate(p)
    PROVE  IInv'
<1> DEFINE a == Do("resumeAll")
<1> DEFINE b == DoFor("allocTCB", p)
<1>0. p \in Nat
  BY KernelAssumption DEF Priority
<1>1. /\ CallsRunning("xTaskCreate") /\ k' = [k EXCEPT !.susp = 1]
      /\ Continue(<<a, b>>) \/ Continue(<<a>>)
      /\ UNCHANGED <<value, previous, allocated, app>>
  BY DEF xTaskCreate
<1>2. "allocTCB" \in Ops /\ "resumeAll" \in Ops
  BY DEF Ops
<1>3. a \in Work /\ a.op = "resumeAll" /\ b \in Work /\ b.op = "allocTCB" /\ b.n = p
  BY <1>0, <1>2, ItemFacts
<1> HIDE DEF a, b
<1>4. ASSUME NEW s \in {<<a, b>>, <<a>>}, Continue(s)
      PROVE  IInv'
  <2>1. s \in Seq(Work) /\ Shape(s) /\ OpOf(s) = "resumeAll" /\ \A i \in 1 .. Len(s) : ~Owns(s, i)
    <3>1. CASE s = <<a, b>>
      BY <1>3, <3>1, ShapeOfTwo, NoneOwned
    <3>2. CASE s = <<a>>
      BY <1>3, <3>2, ShapeOfOne, NoneOwned
    <3> QED  BY <1>4, <3>1, <3>2
  <2> QED  BY <1>1, <1>4, <2>1, SuspendingCallKeeps
<1> QED  BY <1>1, <1>4

\* The calls of ulTaskGenericNotifyTake and xTaskGenericNotifyWait.
LEMMA NotifyCallKeeps ==
    ASSUME IInv, NEW n \in App.ticks[Me], NEW b \in App.clears, NEW c \in App.clears,
           ulTaskGenericNotifyTake(b, n) \/ xTaskGenericNotifyWait(b, c, n)
    PROVE  IInv'
<1>0. n \in Tick /\ n \in Nat /\ b \in BOOLEAN /\ c \in BOOLEAN
  BY TicksAreTicks, TasksAssumption DEF IInv, TypeOK, App, IsApplication
<1>1. "take" \in Ops /\ "await" \in Ops /\ "resumeAll" \in Ops /\ "takeEnd" \in Ops /\ "awaitEnd" \in Ops
  BY DEF Ops
<1> DEFINE r == Do("resumeAll")
<1>2. r \in Work /\ r.op = "resumeAll"
  BY <1>1, ItemFacts
<1>3. CASE ulTaskGenericNotifyTake(b, n)
  <2> DEFINE x == DoFor("take", n)
  <2> DEFINE y == DoWith("takeEnd", b)
  <2>1. x \in Work /\ x.op = "take" /\ x.n = n /\ y \in Work /\ y.op = "takeEnd"
    BY <1>0, <1>1, ItemFacts
  <2>2. /\ CallsRunning("ulTaskNotifyTake") /\ k' = [k EXCEPT !.susp = 1]
        /\ Continue(<<x, r, y>>) /\ UNCHANGED <<value, previous, allocated, app>>
    BY <1>3 DEF ulTaskGenericNotifyTake
  <2> HIDE DEF x, y, r
  <2> QED  BY <1>0, <1>2, <2>1, <2>2, CallOfThreeKeeps
<1>4. CASE xTaskGenericNotifyWait(b, c, n)
  <2> DEFINE x == [DoFor("await", n) EXCEPT !.flag = b]
  <2> DEFINE y == DoWith("awaitEnd", c)
  <2>1. x \in Work /\ x.op = "await" /\ x.n = n /\ y \in Work /\ y.op = "awaitEnd"
    BY <1>0, <1>1, ItemFacts
  <2>2. /\ CallsRunning("xTaskNotifyWait") /\ k' = [k EXCEPT !.susp = 1]
        /\ Continue(<<x, r, y>>) /\ UNCHANGED <<value, previous, allocated, app>>
    BY <1>4 DEF xTaskGenericNotifyWait
  <2> HIDE DEF x, y, r
  <2> QED  BY <1>0, <1>2, <2>1, <2>2, CallOfThreeKeeps
<1> QED  BY <1>3, <1>4

-----------------------------------------------------------------------------
(* The running task goes to sleep. *)

\* What a task that is about to sleep has next.
LEMMA SleepFacts ==
    ASSUME IInv, NEW op \in SleepOps, Running(op)
    PROVE  /\ Item.n \in Tick /\ Item.n > 0
           /\ op # "wait" => ~EndsWait(todo[Me])
           /\ IsReady(k, Me) /\ ~IsIn(k, Me, Suspended)
<1> DEFINE s == todo[Me]
<1>1. /\ s \in Seq(Work) /\ s # <<>> /\ Shape(s) /\ Item = s[1] /\ s[1].op = op
      /\ Len(s) \in Nat /\ 1 \in 1 .. Len(s)
  BY RunningFacts, StateFacts
<1>2. Item.n \in Tick /\ Item.n > 0 /\ 3 <= Len(s) /\ s[3].op = "yield" /\ (op # "wait" => Len(s) = 3)
  BY <1>1 DEF Shape
<1>3. op # "wait" => ~EndsWait(s)
  BY <1>2 DEF EndsWait
<1>4. IsReady(k, Me) /\ Sound(k) /\ Me \in Task
  BY OpFacts, StateFacts
<1>5. ~IsIn(k, Me, Suspended)
  <2>1. k.prio[Me] \in Priority
    BY <1>4, FieldTypes DEF Sound
  <2>2. Linked(k) /\ Ready(k.prio[Me]) \in StateLists /\ Suspended \in StateLists
        /\ Ready(k.prio[Me]) # Suspended
    BY <1>4, <2>1, ListNames DEF Sound
  <2> QED  BY <1>4, <2>2 DEF Linked, IsReady
<1> QED  BY <1>2, <1>3, <1>4, <1>5

\* The running task goes to sleep while the scheduler is suspended.
LEMMA SleepKeeps ==
    ASSUME IInv, NEW op \in SleepOps, Running(op), Done,
           NEW n \in Tick, n > 0, NEW b \in BOOLEAN,
           k' = prvAddCurrentTaskToDelayedList(k, n, b),
           previous' \in [Task -> Tick], UNCHANGED <<value, allocated, app>>
    PROVE  IInv'
<1>1. /\ k \in KernelState /\ KernelInv(k, allocated) /\ Me \in Task /\ Me \in k.live
      /\ ParkedInv(k) /\ HighestInv(k, todo) /\ NotifyInv(k, todo, MaySuspend)
      /\ Notified(k, todo, MaySuspend) /\ k.live \subseteq Task
      /\ \A u \in Task : u # Me => AtRest(todo[u])
  BY StateFacts DEF NotifyInv
<1>2. /\ k.cpu = "task" /\ ~Ticking(k) /\ OpOf(todo[Me]) = op /\ Me # Idle /\ k.susp = 1
      /\ OpOf(Rest) = "resumeAll" /\ YieldsNext(Rest)
      /\ EndsWait(Rest) <=> EndsWait(todo[Me])
      /\ IsReady(k, Me) /\ ~IsIn(k, Me, Suspended)
      /\ op # "wait" => ~EndsWait(todo[Me])
  BY RunningFacts, OpFacts, SleepFacts
<1>3. /\ todo' \in [Task -> Seq(Work)] /\ WorkInv(todo', k.live, allocated')
      /\ todo'[Me] = Rest /\ \A u \in Task : u # Me => todo'[u] = todo[u]
  BY DoneFacts
<1>4. KernelInv(k', allocated) /\ Asleeping(k, k', n, b)
  BY <1>1, <1>2, KernelSleeps DEF Me
<1>5. /\ k'.prio = k.prio /\ k'.live = k.live /\ k'.notify = k.notify /\ k'.current = Me
      /\ k'.susp = 1 /\ k'.cpu = "task" /\ k'.yield = k.yield /\ k'.event = k.event
      /\ Elsewhere(k, k', Me) /\ k' \in KernelState
  BY <1>2, <1>4 DEF Asleeping, Keeps, KeepsTasks, KeepsProcessor, Me, KernelInv, Sound
<1>6. \A u \in Task : Parked(k', u) <=> Parked(k, u)
  BY <1>5 DEF Parked
<1>7. SuspendInv(k', todo')
  <2>1. \A u \in Task : u # Me => AtRest(todo'[u])
    BY <1>1, <1>3
  <2> QED  BY <1>2, <1>3, <1>5, <2>1 DEF SuspendInv
<1>8. RunningInv(k', todo')
  BY <1>2, <1>3, <1>5 DEF RunningInv
<1>9. ParkedInv(k')
  BY <1>1, <1>2, <1>5, <1>6 DEF ParkedInv, Elsewhere
<1>10. Notified(k', todo', MaySuspend)
  <2>1. ASSUME NEW u \in k.live, k.notify[u] = "waiting"
        PROVE  Waiting(k', todo', u)
    BY <1>1, <1>2, <1>3, <1>6, <2>1 DEF Waiting, Notified
  <2>2. ASSUME NEW u \in k.live, EndsWait(todo'[u]), k.notify[u] # "waiting"
        PROVE  Awake(k', MaySuspend, u)
    <3>1. CASE u = Me
      <4>1. op = "wait"
        BY <1>2, <1>3, <2>2, <3>1
      <4>2. Parked(k, Me)
        BY <1>1, <1>2, <2>2, <3>1, <4>1 DEF NotifyInv, Me
      <4> QED  BY <1>1, <1>6, <3>1, <4>2 DEF Awake
    <3>2. CASE u # Me
      BY <1>1, <1>3, <1>5, <1>6, <2>2, <3>2 DEF Awake, Notified, Elsewhere
    <3> QED  BY <3>1, <3>2
  <2> QED  BY <1>5, <2>1, <2>2 DEF Notified
<1>11. NotifyInv(k', todo', MaySuspend)
  BY <1>2, <1>3, <1>5, <1>10 DEF NotifyInv
<1>12. HighestInv(k', todo')
  <2>1. ASSUME ~k.yield, NEW u \in Task, IsReady(k', u), k.prio[u] > k.prio[Me]
        PROVE  FALSE
    <3>1. u # Me
      <4>1. k.prio[Me] \in Nat
        BY <1>1, FieldTypes, TickFacts
      <4> QED  BY <2>1, <4>1
    <3>2. IsReady(k, u)
      BY <1>5, <2>1, <3>1 DEF Elsewhere
    <3> QED  BY <1>1, <1>2, <2>1, <3>2 DEF HighestInv, Me
  <2> QED  BY <1>5, <2>1 DEF HighestInv
<1>13. RestInv(k', todo', MaySuspend)
  BY <1>7, <1>8, <1>9, <1>11, <1>12 DEF RestInv
<1>14. /\ allocated' = allocated /\ app' = app
       /\ value' \in [Task -> NotifyValues] /\ allocated' \in SUBSET Task
  BY DEF IInv, TypeOK
<1>15. KernelInv(k', allocated') /\ WorkInv(todo', k'.live, allocated')
  BY <1>3, <1>4, <1>5, <1>14
<1> QED  BY <1>3, <1>5, <1>13, <1>14, <1>15, Together

\* The sleeps of vTaskDelay and of a wait for a notification.
LEMMA DelayKeeps ==
    ASSUME IInv, Delay \/ Wait
    PROVE  IInv'
<1>1. PICK op \in {"delay", "wait"}, b \in BOOLEAN :
          /\ Running(op) /\ k' = prvAddCurrentTaskToDelayedList(k, Item.n, b)
          /\ Done /\ UNCHANGED <<value, previous, allocated, app>>
  BY DEF Delay, Wait
<1>2. Item.n \in Tick /\ Item.n > 0 /\ previous' \in [Task -> Tick]
  BY <1>1, SleepFacts DEF IInv, TypeOK
<1> DEFINE n == Item.n
<1>3. n \in Tick /\ n > 0 /\ k' = prvAddCurrentTaskToDelayedList(k, n, b)
  BY <1>1, <1>2
<1> HIDE DEF n
<1> QED  BY <1>1, <1>2, <1>3, SleepKeeps

\* xTaskDelayUntil: how long a task still sleeps.
LEMMA DelayUntilTicks ==
    ASSUME NEW last \in Tick, NEW now \in Tick, NEW n \in Tick, n > 0
    PROVE  /\ Later(last, n) \in Tick
           /\ ShouldDelay(last, now, n) <=> Elapsed(last, now) < n
           /\ ShouldDelay(last, now, n) =>
                  /\ Elapsed(now, Later(last, n)) \in Tick
                  /\ Elapsed(now, Later(last, n)) > 0
                  /\ Later(now, Elapsed(now, Later(last, n))) = Later(last, n)
BY TickAssumption DEF Tick, Later, Elapsed, ShouldDelay

\* The sleep of xTaskDelayUntil, if the wake time is ahead.
LEMMA DelayUntilKeeps ==
    ASSUME IInv, DelayUntil
    PROVE  IInv'
<1> DEFINE last == previous[Me]
<1> DEFINE n == Item.n
<1> DEFINE w == Later(last, n)
<1> DEFINE e == Elapsed(k.tick, w)
<1>1. /\ Running("delayUntil") /\ Done /\ previous' = [previous EXCEPT ![Me] = w]
      /\ k' = IF ShouldDelay(last, k.tick, n) THEN prvAddCurrentTaskToDelayedList(k, e, FALSE) ELSE k
      /\ UNCHANGED <<value, allocated, app>>
  BY DEF DelayUntil
<1>2. n \in Tick /\ n > 0 /\ last \in Tick /\ k.tick \in Tick /\ previous \in [Task -> Tick]
  BY <1>1, SleepFacts, StateFacts, FieldTypes DEF IInv, TypeOK
<1>3. w \in Tick /\ (ShouldDelay(last, k.tick, n) => e \in Tick /\ e > 0)
  BY <1>2, DelayUntilTicks
<1> HIDE DEF w, e, n, last
<1>4. previous' \in [Task -> Tick]
  BY <1>1, <1>2, <1>3
<1>5. CASE ShouldDelay(last, k.tick, n)
  BY <1>1, <1>3, <1>4, <1>5, SleepKeeps
<1>6. CASE ~ShouldDelay(last, k.tick, n)
  <2>1. k' = k
    BY <1>1, <1>6
  <2>2. /\ k.susp = 1 /\ OpOf(Rest) = "resumeAll" /\ (EndsWait(Rest) <=> EndsWait(todo[Me]))
        /\ IsReady(k, Me) /\ Me # Idle /\ k.cpu = "task"
    BY <1>1, OpFacts, RunningFacts
  <2>3. Quietly(k, k')
    BY <2>1, UnchangedIsQuiet
  <2>4. /\ OpOf(Rest) \notin {"delay", "delayUntil", "wait"} \cup {"take", "await"} \cup {"catchUp"}
        /\ OpOf(Rest) = "resumeAll" => k'.susp = 1
        /\ OpOf(Rest) \notin {"none", "resumeAll"} => k'.susp = 0
        /\ Me = Idle => (IF OpOf(Rest) = "resumeAll" THEN k'.susp = 1 ELSE k'.susp = 0)
        /\ k'.susp # 0 \/ k.susp = 0
    BY <2>1, <2>2
  <2>5. k'.cpu = "task" /\ k'.yield = k.yield
    BY <2>1, <2>2
  <2>6. IsReady(k, Me) \/ YieldsNext(Rest)
    BY <2>2
  <2>7. EndsWait(Rest) <=> EndsWait(todo[Me])
    BY <2>2
  <2>8. Running("delayUntil") /\ Done /\ allocated' = allocated /\ app' = app /\ value' = value
    BY <1>1
  <2>9. value' \in [Task -> NotifyValues] /\ "delayUntil" # "yieldTo"
    BY <2>8 DEF IInv, TypeOK
  <2> QED  BY <1>4, <2>3, <2>4, <2>5, <2>6, <2>7, <2>8, <2>9, DoneKeeps
<1> QED  BY <1>5, <1>6

-----------------------------------------------------------------------------
(* The idle task. *)

\* Between two calls of the idle task nothing is pending.
LEMMA IdleFacts ==
    ASSUME IInv, k.cpu = "task", Me = Idle, todo[Idle] = <<>>
    PROVE  /\ k.susp = 0 /\ ~Ticking(k) /\ IsReady(k, Me) /\ \A u \in Task : ~Parked(k, u)
           /\ OpOf(todo[Me]) = "none" /\ ~EndsWait(todo[Me]) /\ \A u \in Task : AtRest(todo[u])
<1>1. OpOf(todo[Me]) = "none" /\ ~EndsWait(todo[Me]) /\ AtRest(todo[Me])
  BY DEF OpOf, EndsWait, AtRest
<1>2. k.susp = 0
  BY <1>1, StateFacts DEF SuspendInv, Me
<1>3. IsReady(k, Me) /\ \A u \in Task : ~Parked(k, u)
  BY <1>2, StateFacts DEF KernelInv, ParkedInv
<1> QED  BY <1>1, <1>2, <1>3, StateFacts DEF Ticking

\* The idle task begins its loop again.
LEMMA IdleLoopKeeps ==
    ASSUME IInv, IdleLoop
    PROVE  IInv'
<1> DEFINE s == <<Do("idleYield")>>
<1>1. /\ k.cpu = "task" /\ Me = Idle /\ todo[Idle] = <<>> /\ todo' = [todo EXCEPT ![Me] = s]
      /\ UNCHANGED <<k, value, previous, allocated, app>>
  BY DEF IdleLoop, Continue
<1>2. /\ k.susp = 0 /\ ~Ticking(k) /\ IsReady(k, Me) /\ \A u \in Task : ~Parked(k, u)
      /\ OpOf(todo[Me]) = "none" /\ ~EndsWait(todo[Me]) /\ \A u \in Task : AtRest(todo[u])
  BY <1>1, IdleFacts
<1>3. /\ s \in Seq(Work) /\ Shape(s) /\ Len(s) = 1 /\ s[1].op = "idleYield" /\ OpOf(s) = "idleYield"
  <2>1. Do("idleYield") \in Work /\ Do("idleYield").op = "idleYield"
    BY ItemFacts DEF Ops
  <2> HIDE DEF Do
  <2>2. s \in Seq(Work) /\ Shape(s)
    BY <2>1, ShapeOfOne
  <2> QED  BY <2>1, <2>2 DEF OpOf
<1> HIDE DEF s
<1>4. \A i \in 1 .. Len(s) : i = 1
  BY <1>3
<1>5. /\ IdleShape(s) /\ ~EndsWait(s) /\ s # <<>>
      /\ \A i \in 1 .. Len(s) : ~Owns(s, i)
  BY <1>3, <1>4 DEF IdleShape, EndsWait, Owns, OpOf
<1>6. /\ todo' \in [Task -> Seq(Work)] /\ WorkInv(todo', k.live, allocated)
      /\ todo'[Me] = s /\ \A u \in Task : u # Me => todo'[u] = todo[u]
  <2>1. /\ todo \in [Task -> Seq(Work)] /\ WorkInv(todo, k.live, allocated)
        /\ Me \in Task /\ Me \in k.live
    BY StateFacts
  <2> QED  BY <1>1, <1>3, <1>5, <2>1, WorkBegins
<1>7. Quietly(k, k')
  BY <1>1, UnchangedIsQuiet
<1>8. SuspendInv(k', todo')
  <2>1. \A u \in Task : u # Me => AtRest(todo'[u])
    BY <1>6, StateFacts
  <2>2. k'.susp = 0 /\ k'.cpu = "task" /\ k'.current = Me
    BY <1>1, <1>2 DEF Me
  <2> QED  BY <1>1, <1>3, <1>6, <2>1, <2>2 DEF SuspendInv, AtRest
<1>9. GoesOn(k, k', todo[Me], todo'[Me])
  <2>1. k'.yield \/ ~k.yield
    BY <1>1, Zenon
  <2> QED  BY <1>2, <1>3, <1>5, <1>6, <2>1 DEF GoesOn, Me
<1>10. /\ value' \in [Task -> NotifyValues] /\ previous' \in [Task -> Tick] /\ app' = app
       /\ allocated' = allocated /\ allocated' \in SUBSET Task /\ k.live \subseteq allocated'
  BY <1>1, StateFacts DEF IInv, TypeOK
<1>11. ~Ticking(k') /\ WorkInv(todo', k.live, allocated')
  BY <1>1, <1>2, <1>6, <1>10
<1> QED  BY <1>2, <1>6, <1>7, <1>8, <1>9, <1>10, <1>11, QuietKeeps

-----------------------------------------------------------------------------
(* vTaskSuspend. *)

\* Task t is suspended: it is not ready, nor parked, nor waiting.
Stopped(kk, r, t) ==
    /\ r.prio = kk.prio /\ r.live = kk.live /\ r.current = kk.current
    /\ r.susp = kk.susp /\ r.cpu = kk.cpu /\ r.yield = kk.yield
    /\ Goes(kk, r, t, Suspended) /\ Elsewhere(kk, r, t) /\ ~IsReady(r, t) /\ ~Waits(r, t)
    /\ \A u \in Task : Parked(r, u) <=> u # t /\ Parked(kk, u)
    /\ \A u \in Task : u # t => r.notify[u] = kk.notify[u]
    /\ r.notify[t] # "waiting"

\* The critical section of vTaskSuspend.
LEMMA KernelStops ==
    ASSUME IInv, NEW t \in k.live, t # Idle, ~Ticking(k)
    PROVE  KernelInv(SuspendTask(t), allocated) /\ Stopped(k, SuspendTask(t), t)
<1> DEFINE a == AppendState(RemoveEvent(RemoveState(k, t), t), Suspended, t)
<1> DEFINE v == IF a.notify[t] = "waiting" THEN "notWaiting" ELSE a.notify[t]
<1> DEFINE r == [a EXCEPT !.notify[t] = v]
<1>1. KernelInv(k, allocated) /\ t \in Task
  BY StateFacts
<1>2. /\ KernelInv(a, allocated) /\ SameRest(k, a) /\ Goes(k, a, t, Suspended)
      /\ Elsewhere(k, a, t) /\ ~IsReady(a, t) /\ ~Waits(a, t)
      /\ \A u \in Task : Parked(a, u) <=> u # t /\ Parked(k, u)
  BY <1>1, KernelShelves
<1>3. SuspendTask(t) = [a EXCEPT !.notify[t] = IF @ = "waiting" THEN "notWaiting" ELSE @]
  BY DEF SuspendTask
<1> HIDE DEF a
<1>4. a \in KernelState
  BY <1>2 DEF KernelInv, Sound
<1>5. r = SuspendTask(t)
  BY <1>1, <1>3, <1>4 DEF KernelState
<1>6. v \in NotifyStates /\ v # "waiting"
  BY <1>1, <1>4, FieldTypes DEF NotifyStates
<1> HIDE DEF v
<1>7. KernelInv(r, allocated) /\ Marked(a, r, t, v)
  BY <1>1, <1>2, <1>6, KernelMarks
<1> HIDE DEF r
<1>8. /\ a.prio = k.prio /\ a.live = k.live /\ a.current = k.current /\ a.notify = k.notify
      /\ a.susp = k.susp /\ a.cpu = k.cpu /\ a.yield = k.yield
  BY <1>2 DEF SameRest, Keeps, KeepsTasks, KeepsProcessor
<1>9. /\ r.prio = a.prio /\ r.live = a.live /\ r.current = a.current /\ r.event = a.event
      /\ r.susp = a.susp /\ r.cpu = a.cpu /\ r.yield = a.yield
      /\ r.notify[t] = v /\ \A u \in Task : u # t => r.notify[u] = a.notify[u]
      /\ SamePlaces(a, r) /\ SeenAlike(a, r)
  BY <1>7 DEF Marked, SeenAlike
<1>10. /\ \A u \in Task : IsReady(r, u) <=> IsReady(a, u)
       /\ \A u \in Task : Parked(r, u) <=> Parked(a, u)
       /\ \A u \in Task : IsIn(r, u, Suspended) <=> IsIn(a, u, Suspended)
  BY <1>4, <1>9, AlikeFacts
<1>11. Goes(k, r, t, Suspended) /\ ~Waits(r, t)
  BY <1>2, <1>9 DEF Goes, SamePlaces, Waits
<1>12. Elsewhere(k, r, t) /\ ~IsReady(r, t)
  BY <1>1, <1>2, <1>10 DEF Elsewhere
<1> QED  BY <1>2, <1>5, <1>6, <1>7, <1>8, <1>9, <1>10, <1>11, <1>12 DEF Stopped

\* What is left of vTaskSuspend then: a task that suspended itself yields.
LEMMA SuspendItems ==
    ASSUME NEW self \in BOOLEAN
    PROVE  LET s == <<Do("unblockTime")>> \o IF self THEN <<Do("yield")>> ELSE <<>>
           IN  /\ s \in Seq(Work) /\ Shape(s) /\ OpOf(s) = "unblockTime" /\ ~EndsWait(s)
               /\ \A i \in 1 .. Len(s) : ~Owns(s, i)
               /\ self => YieldsNext(s)
<1> DEFINE a == Do("unblockTime")
<1> DEFINE b == Do("yield")
<1> DEFINE s == <<a>> \o IF self THEN <<b>> ELSE <<>>
<1>1. /\ a \in Work /\ b \in Work /\ a.op = "unblockTime" /\ b.op = "yield"
  BY ItemFacts DEF Ops
<1> HIDE DEF a, b
<1>2. CASE self
  <2> DEFINE z == <<a, b>>
  <2>1. s = z
    <3>1. /\ <<a>> \in Seq(Work) /\ <<a, b>> \in Seq(Work) /\ Append(<<a>>, b) \in Seq(Work)
          /\ Len(<<a>>) = 1 /\ Len(<<a, b>>) = 2 /\ <<a>>[1] = a
      BY <1>1
    <3>3. /\ Len(Append(<<a>>, b)) = 2 /\ Append(<<a>>, b)[1] = a /\ Append(<<a>>, b)[2] = b
      BY <1>1, <3>1, AppendProperties
    <3>4. \A i \in 1 .. 2 : Append(<<a>>, b)[i] = <<a, b>>[i]
      BY <3>3
    <3>5. Append(<<a>>, b) = <<a, b>>
      BY <3>1, <3>3, <3>4, SeqEqual
    <3>2. <<a>> \o <<b>> = <<a, b>>
      BY <1>1, <3>1, <3>5, AppendIsConcat
    <3> QED  BY <1>2, <3>2
  <2>2. z \in Seq(Work) /\ Len(z) = 2 /\ Shape(z)
    BY <1>1, ShapeOfTwo
  <2>3. OpOf(z) = "unblockTime" /\ \A i \in 1 .. Len(z) : ~Owns(z, i)
    BY <1>1, NoneOwned
  <2>4. z[1] = a /\ z[2] = b /\ z # <<>>
    OBVIOUS
  <2> HIDE DEF z
  <2>5. YieldsNext(z) /\ ~EndsWait(z)
    BY <1>1, <2>2, <2>4 DEF YieldsNext, EndsWait
  <2> QED  BY <2>1, <2>2, <2>3, <2>5 DEF a, b
<1>3. CASE ~self
  <2> DEFINE z == <<a>>
  <2>1. s = z
    BY <1>1, <1>3
  <2>2. z \in Seq(Work) /\ Shape(z)
    BY <1>1, ShapeOfOne
  <2>3. OpOf(z) = "unblockTime" /\ \A i \in 1 .. Len(z) : ~Owns(z, i)
    BY <1>1, NoneOwned
  <2>4. z[1] = a /\ Len(z) = 1 /\ z # <<>>
    OBVIOUS
  <2> HIDE DEF z
  <2>5. ~EndsWait(z)
    BY <1>1, <2>4 DEF EndsWait
  <2> QED  BY <1>3, <2>1, <2>2, <2>3, <2>5 DEF a, b
<1> QED  BY <1>2, <1>3

\* The rest of the kernel, when task t is suspended and s is left to do.
LEMMA RestStopped ==
    ASSUME IInv, NEW f, CallsRunning(f), MaySuspend, NEW t \in Task,
           NEW r \in KernelState, Stopped(k, r, t),
           NEW te, NEW s, te[Me] = s, \A u \in Task : u # Me => te[u] = todo[u],
           OpOf(s) = "unblockTime", ~EndsWait(s), t = Me => YieldsNext(s)
    PROVE  RestInv(r, te, MaySuspend)
<1>1. /\ k \in KernelState /\ Me \in Task /\ Me \in k.live /\ k.live \subseteq Task
      /\ HighestInv(k, todo) /\ Notified(k, todo, MaySuspend)
      /\ \A u \in Task : u # Me => AtRest(todo[u])
  BY StateFacts DEF NotifyInv
<1>2. /\ k.cpu = "task" /\ k.susp = 0 /\ OpOf(todo[Me]) = "none" /\ ~EndsWait(todo[Me]) /\ Me # Idle
      /\ IsReady(k, Me) /\ \A u \in Task : ~Parked(k, u)
  BY CallFacts DEF CallsRunning
<1>3. /\ r.prio = k.prio /\ r.live = k.live /\ r.current = Me /\ r.susp = 0 /\ r.cpu = "task"
      /\ r.yield = k.yield /\ Elsewhere(k, r, t) /\ ~IsReady(r, t) /\ IsIn(r, t, Suspended)
      /\ \A u \in Task : ~Parked(r, u)
      /\ \A u \in Task : u # t => r.notify[u] = k.notify[u]
      /\ r.notify[t] # "waiting"
  BY <1>2, ListNames DEF Stopped, Goes, Me
<1>4. SuspendInv(r, te)
  BY <1>1, <1>2, <1>3 DEF SuspendInv
<1>5. RunningInv(r, te)
  BY <1>1, <1>2, <1>3 DEF RunningInv, Elsewhere
<1>6. ParkedInv(r)
  BY <1>3 DEF ParkedInv
<1>7. Notified(r, te, MaySuspend)
  <2>1. ASSUME NEW u \in k.live, r.notify[u] = "waiting"
        PROVE  Waiting(r, te, u)
    BY <1>1, <1>2, <1>3, <2>1 DEF Waiting, Notified
  <2>2. ASSUME NEW u \in k.live, EndsWait(te[u]), r.notify[u] # "waiting"
        PROVE  Awake(r, MaySuspend, u)
    <3>1. CASE u = t
      BY <1>3, <3>1 DEF Awake
    <3>2. CASE u # t
      BY <1>1, <1>2, <1>3, <2>2, <3>2 DEF Awake, Notified, Elsewhere
    <3> QED  BY <3>1, <3>2
  <2> QED  BY <1>3, <2>1, <2>2 DEF Notified
<1>8. NotifyInv(r, te, MaySuspend)
  BY <1>3, <1>7 DEF NotifyInv
<1>9. HighestInv(r, te)
  <2>1. ASSUME ~k.yield, NEW u \in Task, IsReady(r, u), k.prio[u] > k.prio[Me]
        PROVE  FALSE
    <3>1. u # t /\ IsReady(k, u)
      BY <1>3, <2>1 DEF Elsewhere
    <3> QED  BY <1>1, <1>2, <2>1, <3>1 DEF HighestInv, Me
  <2> QED  BY <1>3, <2>1 DEF HighestInv
<1> QED  BY <1>4, <1>5, <1>6, <1>8, <1>9 DEF RestInv

\* vTaskSuspend, of itself or of another task.
LEMMA SuspendKeeps ==
    ASSUME IInv, NEW t \in Task, vTaskSuspend(t)
    PROVE  IInv'
<1> DEFINE s == <<Do("unblockTime")>> \o IF t = Me THEN <<Do("yield")>> ELSE <<>>
<1>1. /\ CallsRunning("vTaskSuspend") /\ t \in k.live /\ t # Idle /\ k' = SuspendTask(t)
      /\ todo' = [todo EXCEPT ![Me] = s] /\ UNCHANGED <<value, previous, allocated, app>>
  BY DEF vTaskSuspend, Handles, Continue
<1>2. /\ s \in Seq(Work) /\ Shape(s) /\ OpOf(s) = "unblockTime" /\ ~EndsWait(s)
      /\ \A i \in 1 .. Len(s) : ~Owns(s, i)
      /\ t = Me => YieldsNext(s)
  <2>1. (t = Me) \in BOOLEAN
    OBVIOUS
  <2> QED  BY <2>1, SuspendItems
<1> HIDE DEF s
<1>3. MaySuspend /\ Me # Idle /\ ~Ticking(k)
  <2>1. Me \in Task /\ "vTaskSuspend" \in App.api[Me]
    BY <1>1, StateFacts DEF CallsRunning, Calls
  <2> QED  BY <1>1, <2>1, CallFacts DEF MaySuspend, CallsRunning
<1>4. KernelInv(k', allocated) /\ Stopped(k, k', t)
  BY <1>1, <1>3, KernelStops
<1>5. k' \in KernelState /\ k'.live = k.live
  BY <1>4 DEF KernelInv, Sound, Stopped
<1>6. /\ todo' \in [Task -> Seq(Work)] /\ WorkInv(todo', k.live, allocated)
      /\ todo'[Me] = s /\ \A u \in Task : u # Me => todo'[u] = todo[u]
  <2>1. /\ todo \in [Task -> Seq(Work)] /\ WorkInv(todo, k.live, allocated)
        /\ Me \in Task /\ Me \in k.live
    BY StateFacts
  <2> QED  BY <1>1, <1>2, <1>3, <2>1, WorkBegins
<1>7. RestInv(k', todo', MaySuspend)
  BY <1>1, <1>2, <1>3, <1>4, <1>5, <1>6, RestStopped
<1>8. /\ value' \in [Task -> NotifyValues] /\ previous' \in [Task -> Tick] /\ app' = app
      /\ allocated' = allocated /\ allocated' \in SUBSET Task
  BY <1>1 DEF IInv, TypeOK
<1>9. KernelInv(k', allocated') /\ WorkInv(todo', k'.live, allocated')
  BY <1>4, <1>5, <1>6, <1>8
<1> QED  BY <1>5, <1>6, <1>7, <1>8, <1>9, Together

-----------------------------------------------------------------------------
(* vTaskDelete and the idle task's cleaning up. *)

\* A task deletes itself: its control block waits for the idle task.
LEMMA DeleteSelfKeeps ==
    ASSUME IInv, vTaskDelete(Me), Me \in k.live, Me # Idle,
           k' = AppendState(RemoveEvent(RemoveState(k, Me), Me), Terminated, Me),
           Continue(<<Do("yield")>>)
    PROVE  IInv'
<1> DEFINE s == <<Do("yield")>>
<1>1. /\ CallsRunning("vTaskDelete") /\ todo' = [todo EXCEPT ![Me] = s]
      /\ UNCHANGED <<value, previous, allocated, app>>
  BY DEF vTaskDelete, Continue
<1>2. /\ k \in KernelState /\ KernelInv(k, allocated) /\ Me \in Task /\ k.live \subseteq Task
      /\ HighestInv(k, todo) /\ Notified(k, todo, MaySuspend)
      /\ todo \in [Task -> Seq(Work)] /\ WorkInv(todo, k.live, allocated)
      /\ \A u \in Task : u # Me => AtRest(todo[u])
  BY StateFacts DEF NotifyInv
<1>3. /\ k.cpu = "task" /\ ~Ticking(k) /\ k.susp = 0 /\ OpOf(todo[Me]) = "none"
      /\ ~EndsWait(todo[Me]) /\ \A u \in Task : ~Parked(k, u)
  BY <1>1, CallFacts DEF CallsRunning
<1>4. /\ s \in Seq(Work) /\ Shape(s) /\ OpOf(s) = "yield" /\ YieldsNext(s) /\ ~EndsWait(s)
      /\ \A i \in 1 .. Len(s) : ~Owns(s, i)
  <2> DEFINE a == Do("yield")
  <2>1. a \in Work /\ a.op = "yield"
    BY ItemFacts DEF Ops
  <2> HIDE DEF a
  <2>2. <<a>> \in Seq(Work) /\ Shape(<<a>>)
    BY <2>1, ShapeOfOne
  <2>3. OpOf(<<a>>) = "yield" /\ \A i \in 1 .. Len(<<a>>) : ~Owns(<<a>>, i)
    BY <2>1, NoneOwned
  <2>4. YieldsNext(<<a>>) /\ ~EndsWait(<<a>>)
    BY <2>1 DEF YieldsNext, EndsWait
  <2> QED  BY <2>2, <2>3, <2>4 DEF a
<1> HIDE DEF s
<1>5. /\ KernelInv(k', allocated) /\ SameRest(k, k') /\ Elsewhere(k, k', Me) /\ ~IsReady(k', Me)
      /\ \A u \in Task : Parked(k', u) <=> u # Me /\ Parked(k, u)
  <2> DEFINE t == Me
  <2>1. t \in k.live /\ t # Idle /\ k' = AppendState(RemoveEvent(RemoveState(k, t), t), Terminated, t)
    OBVIOUS
  <2> HIDE DEF t
  <2>2. /\ KernelInv(k', allocated) /\ SameRest(k, k') /\ Elsewhere(k, k', t) /\ ~IsReady(k', t)
        /\ \A u \in Task : Parked(k', u) <=> u # t /\ Parked(k, u)
    BY <1>2, <1>3, <2>1, KernelShelves
  <2> QED  BY <2>2 DEF t
<1>6. /\ k' \in KernelState /\ k'.live = k.live /\ k'.prio = k.prio /\ k'.notify = k.notify
      /\ k'.current = Me /\ k'.susp = 0 /\ k'.cpu = "task" /\ k'.yield = k.yield
      /\ \A u \in Task : ~Parked(k', u)
  BY <1>3, <1>5 DEF KernelInv, Sound, SameRest, Keeps, KeepsTasks, KeepsProcessor, Me
<1>7. /\ todo' \in [Task -> Seq(Work)] /\ WorkInv(todo', k.live, allocated)
      /\ todo'[Me] = s /\ \A u \in Task : u # Me => todo'[u] = todo[u]
  BY <1>1, <1>2, <1>4, WorkBegins
<1>8. SuspendInv(k', todo') /\ RunningInv(k', todo') /\ ParkedInv(k')
  BY <1>2, <1>3, <1>4, <1>6, <1>7 DEF SuspendInv, RunningInv, ParkedInv
<1>9. Notified(k', todo', MaySuspend)
  <2>1. ASSUME NEW u \in k.live, k.notify[u] = "waiting"
        PROVE  Waiting(k', todo', u)
    BY <1>2, <1>3, <1>6, <1>7, <2>1 DEF Waiting, Notified
  <2>2. ASSUME NEW u \in k.live, EndsWait(todo'[u]), k.notify[u] # "waiting"
        PROVE  Awake(k', MaySuspend, u)
    BY <1>2, <1>3, <1>4, <1>5, <1>6, <1>7, <2>2 DEF Awake, Notified, Elsewhere
  <2> QED  BY <1>6, <2>1, <2>2 DEF Notified
<1>10. NotifyInv(k', todo', MaySuspend)
  BY <1>4, <1>6, <1>7, <1>9 DEF NotifyInv
<1>11. HighestInv(k', todo')
  <2>1. ASSUME ~k.yield, NEW u \in Task, IsReady(k', u), k.prio[u] > k.prio[Me]
        PROVE  FALSE
    <3>1. u # Me /\ IsReady(k, u)
      BY <1>5, <2>1 DEF Elsewhere
    <3> QED  BY <1>2, <1>3, <2>1, <3>1 DEF HighestInv, Me
  <2> QED  BY <1>6, <2>1 DEF HighestInv
<1>12. RestInv(k', todo', MaySuspend)
  BY <1>8, <1>10, <1>11 DEF RestInv
<1>13. /\ value' \in [Task -> NotifyValues] /\ previous' \in [Task -> Tick] /\ app' = app
       /\ allocated' = allocated /\ allocated' \in SUBSET Task
  BY <1>1 DEF IInv, TypeOK
<1>14. KernelInv(k', allocated') /\ WorkInv(todo', k'.live, allocated')
  BY <1>5, <1>6, <1>7, <1>13
<1> QED  BY <1>6, <1>7, <1>12, <1>13, <1>14, Together

\* Freeing a control block does not wait, and leaves the scheduler running.
LEMMA DeleteItems ==
    ASSUME NEW t \in Task
    PROVE  /\ OpOf(prvDeleteTCB(t)) = "free" /\ ~EndsWait(prvDeleteTCB(t))
           /\ ~YieldsNext(prvDeleteTCB(t))
<1> DEFINE a == Do("free")
<1> DEFINE b == Do("resumeAll")
<1> DEFINE c == [Do("freeTCB") EXCEPT !.task = t]
<1> DEFINE s == <<a, b, c, b>>
<1>1. a.op = "free" /\ b.op = "resumeAll" /\ s = prvDeleteTCB(t)
  BY DEF Do, prvDeleteTCB
<1> HIDE DEF a, b, c
<1>2. s[1] = a /\ s[4] = b /\ Len(s) = 4 /\ s # <<>>
  OBVIOUS
<1> HIDE DEF s
<1> QED  BY <1>1, <1>2 DEF OpOf, EndsWait, YieldsNext

\* The running task deletes another one, or the idle task frees a dead one.
LEMMA BuriedKeeps ==
    ASSUME IInv, k.cpu = "task", k.susp = 0, OpOf(todo[Me]) = "none", ~EndsWait(todo[Me]),
           IsReady(k, Me), \A u \in Task : ~Parked(k, u),
           NEW t \in k.live, t # Me, t # Idle, KernelInv(k', allocated), Buried(k, k', t),
           todo' = [todo EXCEPT ![t] = <<>>, ![Me] = prvDeleteTCB(t)],
           UNCHANGED <<value, previous, allocated, app>>
    PROVE  IInv'
<1> DEFINE s == prvDeleteTCB(t)
<1>1. /\ k \in KernelState /\ Me \in Task /\ Me \in k.live /\ k.live \subseteq Task
      /\ k.live \subseteq allocated
      /\ HighestInv(k, todo) /\ Notified(k, todo, MaySuspend)
      /\ todo \in [Task -> Seq(Work)] /\ WorkInv(todo, k.live, allocated)
      /\ \A u \in Task : u # Me => AtRest(todo[u])
  BY StateFacts DEF NotifyInv
<1>2. t \in Task /\ OpOf(s) = "free" /\ ~EndsWait(s)
  BY <1>1, DeleteItems
<1>3. /\ k' \in KernelState /\ k'.live = k.live \ {t} /\ k'.prio = k.prio /\ k'.notify = k.notify
      /\ k'.current = Me /\ k'.susp = 0 /\ k'.cpu = "task" /\ k'.yield = k.yield
      /\ \A u \in Task : ~Parked(k', u)
      /\ \A u \in Task : IsReady(k', u) <=> u # t /\ IsReady(k, u)
      /\ \A u \in Task : IsIn(k', u, Suspended) <=> u # t /\ IsIn(k, u, Suspended)
  BY DEF KernelInv, Sound, Buried, KeepsProcessor, Me
<1>4. todo' \in [Task -> Seq(Work)] /\ WorkInv(todo', k'.live, allocated)
  <2> DEFINE live == k.live
  <2> DEFINE me == Me
  <2>1. /\ todo \in [Task -> Seq(Work)] /\ WorkInv(todo, live, allocated) /\ live \subseteq allocated
        /\ me \in live /\ me \in Task /\ t \in live /\ t \in Task /\ t # me
        /\ todo' = [todo EXCEPT ![t] = <<>>, ![me] = prvDeleteTCB(t)]
    BY <1>1, <1>2
  <2> HIDE DEF live, me
  <2>2. todo' \in [Task -> Seq(Work)] /\ WorkInv(todo', live \ {t}, allocated)
    BY <2>1, WorkDeletes
  <2> QED  BY <1>3, <2>2 DEF live
<1>5. /\ todo'[Me] = s /\ todo'[t] = <<>>
      /\ \A u \in Task : u # Me /\ u # t => todo'[u] = todo[u]
  BY <1>1, <1>2
<1> HIDE DEF s
<1>6. AtRest(<<>>) /\ ~EndsWait(<<>>)
  BY DEF AtRest, EndsWait, OpOf
<1>7. \A u \in Task : u # Me => AtRest(todo'[u])
  BY <1>1, <1>5, <1>6
<1>8. SuspendInv(k', todo')
  BY <1>2, <1>3, <1>5, <1>7 DEF SuspendInv, AtRest
<1>9. RunningInv(k', todo') /\ ParkedInv(k')
  BY <1>1, <1>3 DEF RunningInv, ParkedInv
<1>10. Notified(k', todo', MaySuspend)
  <2>1. ASSUME NEW u \in k.live \ {t}, k.notify[u] = "waiting"
        PROVE  Waiting(k', todo', u)
    BY <1>1, <1>3, <1>5, <2>1 DEF Waiting, Notified
  <2>2. ASSUME NEW u \in k.live \ {t}, EndsWait(todo'[u]), k.notify[u] # "waiting"
        PROVE  Awake(k', MaySuspend, u)
    BY <1>1, <1>2, <1>3, <1>5, <2>2 DEF Awake, Notified
  <2> QED  BY <1>3, <2>1, <2>2 DEF Notified
<1>11. NotifyInv(k', todo', MaySuspend)
  BY <1>2, <1>3, <1>5, <1>10 DEF NotifyInv
<1>12. HighestInv(k', todo')
  <2>1. ASSUME ~k.yield, NEW u \in Task, IsReady(k', u), k.prio[u] > k.prio[Me]
        PROVE  FALSE
    BY <1>1, <1>3, <2>1 DEF HighestInv, Me
  <2> QED  BY <1>3, <2>1 DEF HighestInv
<1>13. RestInv(k', todo', MaySuspend)
  BY <1>8, <1>9, <1>11, <1>12 DEF RestInv
<1>14. /\ value' \in [Task -> NotifyValues] /\ previous' \in [Task -> Tick] /\ app' = app
       /\ allocated' = allocated /\ allocated' \in SUBSET Task
  BY DEF IInv, TypeOK
<1>15. KernelInv(k', allocated') /\ WorkInv(todo', k'.live, allocated')
  BY <1>4, <1>14
<1> QED  BY <1>3, <1>4, <1>13, <1>14, <1>15, Together

\* prvResetNextTaskUnblockTime: the unblock time is early.
LEMMA KernelResets ==
    ASSUME NEW kk, NEW handed, KernelInv(kk, handed)
    PROVE  LET r == prvResetNextTaskUnblockTime(kk)
           IN  /\ KernelInv(r, handed) /\ NextReset(kk, r) /\ SamePlaces(kk, r)
<1> DEFINE r == prvResetNextTaskUnblockTime(kk)
<1>1. NextReset(kk, r) /\ SamePlaces(kk, r)
  BY ResetSound DEF KernelInv
<1> HIDE DEF r
<1>2. /\ r \in KernelState /\ SameLists(kk, r) /\ r.prio = kk.prio /\ r.base = kk.base
      /\ r.live = kk.live /\ r.tick = kk.tick /\ r.top = kk.top /\ UnblockEarly(r)
      /\ r.current = kk.current /\ (Ticking(r) <=> Ticking(kk))
  BY <1>1 DEF NextReset, Keeps, KeepsTasks, KeepsClock, KeepsProcessor, Ticking
<1>3. r.current \in r.live
  BY <1>2 DEF KernelInv
<1>4. KernelInv(r, handed)
  BY <1>2, <1>3, KernelSame
<1> QED  BY <1>1, <1>4 DEF r

\* vTaskDelete of another task takes it out of every list.
LEMMA DeleteBuries ==
    ASSUME IInv, NEW t \in Task, vTaskDelete(t), t # Me
    PROVE  /\ t \in k.live /\ t # Idle /\ KernelInv(k', allocated) /\ Buried(k, k', t)
           /\ k.cpu = "task" /\ k.susp = 0 /\ OpOf(todo[Me]) = "none"
           /\ ~EndsWait(todo[Me]) /\ IsReady(k, Me) /\ \A u \in Task : ~Parked(k, u)
<1> DEFINE a == RemoveEvent(RemoveState(k, t), t)
<1>0. /\ t \in k.live /\ t # Idle
      /\ k' = prvResetNextTaskUnblockTime([a EXCEPT !.live = @ \ {t}])
  BY DEF vTaskDelete, Handles
<1> DEFINE b == [a EXCEPT !.live = k.live \ {t}]
<1>1. CallsRunning("vTaskDelete") /\ UNCHANGED <<value, previous, allocated, app>>
  BY DEF vTaskDelete
<1>2. /\ k.cpu = "task" /\ ~Ticking(k) /\ k.susp = 0 /\ OpOf(todo[Me]) = "none"
      /\ ~EndsWait(todo[Me]) /\ IsReady(k, Me) /\ \A u \in Task : ~Parked(k, u)
  BY <1>1, CallFacts DEF CallsRunning
<1>3. Sound(k) /\ KernelInv(k, allocated)
  BY StateFacts
<1>4. Detached(k, a, t)
  BY <1>0, <1>3, DetachDetaches
<1> HIDE DEF a
<1>5. a \in KernelState /\ a.live = k.live
  BY <1>4 DEF Detached, SameRest, Keeps, KeepsTasks
<1>6. k' = prvResetNextTaskUnblockTime(b)
  BY <1>0, <1>5
<1>7. KernelInv(b, allocated) /\ Buried(k, b, t)
  BY <1>0, <1>2, <1>3, <1>4, KernelBuries DEF Me
<1> HIDE DEF b
<1>8. KernelInv(k', allocated) /\ NextReset(b, k') /\ SamePlaces(b, k')
  BY <1>6, <1>7, KernelResets
<1>9. /\ k'.prio = b.prio /\ k'.notify = b.notify /\ k'.live = b.live /\ KeepsProcessor(b, k')
      /\ k'.yield = b.yield /\ k'.tick = b.tick /\ k'.pended = b.pended /\ k'.wake = b.wake
      /\ k'.list = b.list /\ k'.event = b.event
  BY <1>8 DEF NextReset, Keeps, KeepsTasks, KeepsClock, SameLists
<1>10. Buried(k, k', t)
  BY <1>7, <1>9 DEF Buried, KeepsProcessor, Leaves, IsReady, IsIn, Parked
<1> QED  BY <1>0, <1>2, <1>8, <1>10

\* And the invariant holds after that.
LEMMA DeleteOtherKeeps ==
    ASSUME IInv, NEW t \in Task, vTaskDelete(t), t # Me
    PROVE  IInv'
<1>1. /\ todo' = [todo EXCEPT ![t] = <<>>, ![Me] = prvDeleteTCB(t)]
      /\ UNCHANGED <<value, previous, allocated, app>>
  BY DEF vTaskDelete
<1> QED  BY <1>1, DeleteBuries, BuriedKeeps

\* vTaskDelete, of itself or of another task.
LEMMA DeleteKeeps ==
    ASSUME IInv, NEW t \in Task, vTaskDelete(t)
    PROVE  IInv'
<1>1. t \in k.live /\ t # Idle
  BY DEF vTaskDelete, Handles
<1>2. CASE t = Me
  BY <1>1, <1>2, DeleteSelfKeeps DEF vTaskDelete
<1>3. CASE t # Me
  BY <1>3, DeleteOtherKeeps
<1> QED  BY <1>2, <1>3

\* The idle task takes a task out of xTasksWaitingTermination.
LEMMA CleanUpBuries ==
    ASSUME IInv, IdleCleanUp
    PROVE  LET t == Head(k.list[Terminated])
           IN  /\ t \in Task /\ t \in k.live /\ t # Me /\ IsIn(k, t, Terminated)
               /\ KernelInv(k', allocated) /\ Buried(k, k', t)
               /\ k.susp = 0 /\ IsReady(k, Me) /\ \A u \in Task : ~Parked(k, u)
               /\ OpOf(todo[Me]) = "none" /\ ~EndsWait(todo[Me])
<1> DEFINE t == Head(k.list[Terminated])
<1> DEFINE a == RemoveState(k, t)
<1>1. /\ k.cpu = "task" /\ Me = Idle /\ todo[Idle] = <<>> /\ ~Empty(k, Terminated)
      /\ k' = [a EXCEPT !.live = @ \ {t}]
      /\ todo' = [todo EXCEPT ![t] = <<>>, ![Idle] = prvDeleteTCB(t)]
      /\ UNCHANGED <<value, previous, allocated, app>>
  BY DEF IdleCleanUp
<1>2. /\ k.susp = 0 /\ ~Ticking(k) /\ IsReady(k, Me) /\ \A u \in Task : ~Parked(k, u)
      /\ OpOf(todo[Me]) = "none" /\ ~EndsWait(todo[Me])
  BY <1>1, IdleFacts
<1>3. /\ k \in KernelState /\ Sound(k) /\ KernelInv(k, allocated) /\ Linked(k) /\ Me \in Task
  BY StateFacts DEF Sound
<1>4. IsIn(k, t, Terminated) /\ t \in Task
  <2>1. k.list[Terminated] \in Seq(Task) /\ k.list[Terminated] # <<>>
    BY <1>1, <1>3, FieldTypes, ListNames DEF Empty
  <2> QED  BY <2>1, EmptyIffNone DEF IsIn
<1>5. t \in k.live
  BY <1>3, <1>4, ListNames DEF Sound, Listed
<1>6. t # Me
  <2>1. k.prio[Me] \in Priority
    BY <1>3, FieldTypes
  <2>2. IsIn(k, Me, Ready(k.prio[Me])) /\ Ready(k.prio[Me]) \in StateLists
        /\ Ready(k.prio[Me]) # Terminated /\ Terminated \in StateLists
    BY <1>2, <2>1, ListNames DEF IsReady
  <2> QED  BY <1>3, <1>4, <2>2 DEF Linked
<1>7. Removed(k, a, t)
  BY <1>3, <1>4, RemoveStateRemoves, ListNames
<1> HIDE DEF a, t
<1>8. a \in KernelState /\ a.live = k.live
  BY <1>7 DEF Removed, Keeps, KeepsTasks
<1>9. Detached(k, a, t)
  <2>1. \A e \in EventLists, u \in Task : ~Occurs(k.event[e], u)
    BY <1>2, <1>3 DEF KernelInv, Parked, EventLists
  <2>2. k.wake \in [Task -> Tick] /\ a.event = k.event
    BY <1>3, <1>7, FieldTypes DEF Removed
  <2>3. \A u \in Task : u # t => a.wake[u] = k.wake[u]
    BY <1>4, <1>7, <2>2 DEF Removed
  <2> QED  BY <1>7, <2>1, <2>2, <2>3 DEF Removed, Detached, SameRest
<1>10. k' = [a EXCEPT !.live = k.live \ {t}]
  BY <1>1, <1>8
<1>11. KernelInv(k', allocated) /\ Buried(k, k', t)
  BY <1>1, <1>2, <1>3, <1>5, <1>6, <1>9, <1>10, KernelBuries DEF Me
<1> QED  BY <1>2, <1>4, <1>5, <1>6, <1>11 DEF t

\* And the invariant holds after that.
LEMMA IdleCleanUpKeeps ==
    ASSUME IInv, IdleCleanUp
    PROVE  IInv'
<1> DEFINE t == Head(k.list[Terminated])
<1>1. /\ k.cpu = "task" /\ Me = Idle
      /\ todo' = [todo EXCEPT ![t] = <<>>, ![Me] = prvDeleteTCB(t)]
      /\ UNCHANGED <<value, previous, allocated, app>>
  BY DEF IdleCleanUp
<1>2. /\ t \in Task /\ t \in k.live /\ t # Me
      /\ KernelInv(k', allocated) /\ Buried(k, k', t)
      /\ k.susp = 0 /\ IsReady(k, Me) /\ \A u \in Task : ~Parked(k, u)
      /\ OpOf(todo[Me]) = "none" /\ ~EndsWait(todo[Me])
  BY CleanUpBuries
<1> HIDE DEF t
<1> QED  BY <1>1, <1>2, BuriedKeeps

-----------------------------------------------------------------------------
(* vTaskPrioritySet. *)

\* The tasks wait, and are awake, as they were.
LEMMA NotifiedRanked ==
    ASSUME NEW kk, NEW td, NEW may, Notified(kk, td, may), kk.live \subseteq Task,
           NEW r, NEW t \in Task, NEW p, Ranked(kk, r, t, p)
    PROVE  Notified(r, td, may) /\ \A u \in Task : Parked(r, u) <=> Parked(kk, u)
BY DEF Notified, Ranked, Waiting, Awake, Parked

\* Without a yield the running task is still of the highest priority.
LEMMA RanksBelow ==
    ASSUME NEW prio \in [Task -> Priority], NEW me \in Task, NEW t \in Task, NEW p \in Priority,
           ~(IF p > prio[t] THEN t # me /\ p > prio[me] ELSE t = me), prio[t] # p,
           NEW u \in Task, ~(prio[u] > prio[me])
    PROVE  ~([prio EXCEPT ![t] = p][u] > [prio EXCEPT ![t] = p][me])
<1> DEFINE q == [prio EXCEPT ![t] = p]
<1>1. p \in Nat /\ prio[t] \in Nat /\ prio[u] \in Nat /\ prio[me] \in Nat
  BY TickFacts
<1>2. q[t] = p /\ \A v \in Task : v # t => q[v] = prio[v]
  OBVIOUS
<1> HIDE DEF q
<1>3. CASE u = me
  BY <1>1, <1>2, <1>3
<1>4. CASE u # me /\ t = me
  <2>1. q[me] = p /\ q[u] = prio[u] /\ p > prio[me]
    BY <1>2, <1>4
  <2> QED  BY <1>1, <2>1
<1>5. CASE u # me /\ t = u
  <2>1. q[me] = prio[me] /\ q[u] = p
    BY <1>2, <1>5
  <2> QED  BY <1>1, <1>5, <2>1
<1>6. CASE t # u /\ t # me
  BY <1>2, <1>6
<1> QED  BY <1>3, <1>4, <1>5, <1>6 DEF q

\* vTaskPrioritySet.
LEMMA PrioritySetKeeps ==
    ASSUME IInv, NEW t \in Task, NEW p \in Priority, vTaskPrioritySet(t, p)
    PROVE  IInv'
<1> DEFINE c == [ChangePriority(k, t, p, EventValue(p)) EXCEPT !.base[t] = p]
<1> DEFINE yields == IF p > k.prio[t] THEN t # Me /\ p > k.prio[Me] ELSE t = Me
<1>1. /\ k \in KernelState /\ KernelInv(k, allocated) /\ Me \in Task /\ k.live \subseteq Task
      /\ todo \in [Task -> Seq(Work)] /\ WorkInv(todo, k.live, allocated)
      /\ HighestInv(k, todo) /\ Notified(k, todo, MaySuspend) /\ SuspendInv(k, todo)
      /\ \A u \in Task : u # Me => AtRest(todo[u])
  BY StateFacts DEF NotifyInv
<1>2. k.base = k.prio
  BY <1>1 DEF KernelInv
<1>3. /\ CallsRunning("vTaskPrioritySet") /\ t \in k.live /\ t # Idle /\ k.prio[t] # p
      /\ k' = IF yields THEN vTaskSwitchContext(c) ELSE c
      /\ UNCHANGED <<todo, value, previous, allocated, app>>
  BY <1>2 DEF vTaskPrioritySet, Handles
<1>4. /\ k.cpu = "task" /\ ~Ticking(k) /\ k.susp = 0 /\ OpOf(todo[Me]) = "none"
      /\ AtRest(todo[Me]) /\ IsReady(k, Me) /\ \A u \in Task : ~Parked(k, u)
  BY <1>3, CallFacts DEF CallsRunning
<1>5. EventValue(p) \in Nat
  BY KernelAssumption DEF EventValue, Priority
<1>6. KernelInv(c, allocated) /\ Ranked(k, c, t, p)
  BY <1>1, <1>3, <1>4, <1>5, KernelRanks
<1> HIDE DEF c
<1>7. Notified(c, todo, MaySuspend) /\ \A u \in Task : ~Parked(c, u)
  BY <1>1, <1>4, <1>6, NotifiedRanked
<1>8. /\ c.susp = 0 /\ c.cpu = "task" /\ c.current = Me /\ ~Ticking(c) /\ c.live = k.live
      /\ c.yield = k.yield
  BY <1>4, <1>6 DEF Ranked, KeepsProcessor, Ticking, Me
<1>9. /\ value' \in [Task -> NotifyValues] /\ previous' \in [Task -> Tick] /\ app' = app
      /\ allocated' = allocated /\ allocated' \in SUBSET Task /\ todo' = todo
  BY <1>3 DEF IInv, TypeOK
<1>10. CASE yields
  <2>1. k' = [vTaskSwitchContext(c) EXCEPT !.cpu = "task"]
    <3>1. vTaskSwitchContext(c) = [vTaskSwitchContext(c) EXCEPT !.cpu = "task"]
      BY <1>6, <1>8, SwitchChooses
    <3> QED  BY <1>3, <1>10, <3>1
  <2>2. /\ KernelInv(c, allocated') /\ todo' \in [Task -> Seq(Work)]
        /\ WorkInv(todo', c.live, allocated') /\ Notified(c, todo', MaySuspend)
        /\ \A u \in Task : AtRest(todo'[u])
    BY <1>1, <1>4, <1>6, <1>7, <1>8, <1>9
  <2> HIDE DEF yields
  <2> QED  BY <1>7, <1>8, <1>9, <2>1, <2>2, SwitchKeeps
<1>11. CASE ~yields
  <2>1. k' = c
    BY <1>3, <1>11
  <2>2. SuspendInv(c, todo) /\ RunningInv(c, todo) /\ ParkedInv(c) /\ NotifyInv(c, todo, MaySuspend)
    <3>1. SuspendInv(c, todo)
      BY <1>1, <1>4, <1>8 DEF SuspendInv
    <3>2. IsReady(c, Me)
      BY <1>1, <1>4, <1>6 DEF Ranked
    <3> QED  BY <1>4, <1>7, <1>8, <3>1, <3>2 DEF RunningInv, ParkedInv, NotifyInv
  <2>3. HighestInv(c, todo)
    <3>1. ASSUME ~k.yield, NEW u \in Task, IsReady(c, u), c.prio[u] > c.prio[Me]
          PROVE  FALSE
      <4>1. IsReady(k, u) /\ c.prio = [k.prio EXCEPT ![t] = p] /\ k.prio \in [Task -> Priority]
        BY <1>1, <1>6, <3>1, FieldTypes DEF Ranked
      <4>2. ~(k.prio[u] > k.prio[Me])
        BY <1>1, <1>4, <3>1, <4>1 DEF HighestInv, Me
      <4>3. ~(c.prio[u] > c.prio[Me])
        <5> DEFINE prio == k.prio
        <5> DEFINE me == Me
        <5>1. /\ prio \in [Task -> Priority] /\ me \in Task /\ prio[t] # p
              /\ ~(IF p > prio[t] THEN t # me /\ p > prio[me] ELSE t = me)
              /\ ~(prio[u] > prio[me])
          BY <1>1, <1>3, <1>11, <4>1, <4>2
        <5> HIDE DEF prio, me
        <5>2. ~([prio EXCEPT ![t] = p][u] > [prio EXCEPT ![t] = p][me])
          BY <5>1, RanksBelow
        <5> QED  BY <4>1, <5>2 DEF prio, me
      <4> QED  BY <3>1, <4>3
    <3> QED  BY <1>8, <3>1 DEF HighestInv
  <2>4. RestInv(k', todo', MaySuspend)
    BY <1>9, <2>1, <2>2, <2>3 DEF RestInv
  <2>5. /\ KernelInv(k', allocated') /\ k' \in KernelState /\ WorkInv(todo', k'.live, allocated')
        /\ todo' \in [Task -> Seq(Work)]
    BY <1>1, <1>6, <1>8, <1>9, <2>1 DEF KernelInv, Sound
  <2> QED  BY <1>9, <2>4, <2>5, Together
<1> QED  BY <1>10, <1>11

-----------------------------------------------------------------------------
(* xTaskCreate, once it has the stack. *)

\* A task about to create another is ready and alone; the priority is one.
LEMMA CreatingFacts ==
    ASSUME IInv, NEW op \in {"allocTCB", "add"}, Running(op)
    PROVE  /\ k.cpu = "task" /\ ~Ticking(k) /\ k.susp = 0 /\ Me # Idle /\ IsReady(k, Me)
           /\ \A u \in Task : ~Parked(k, u)
           /\ ~EndsWait(todo[Me]) /\ OpOf(todo[Me]) = op /\ todo[Me] # <<>> /\ todo[Me][1].op = op
           /\ Item = todo[Me][1] /\ Item.n \in Priority /\ Item.task \in Task
<1>1. /\ todo[Me] # <<>> /\ OpOf(todo[Me]) = op /\ Item = todo[Me][1] /\ Item.op = op
      /\ Item \in Work /\ Len(todo[Me]) \in Nat /\ Len(todo[Me]) >= 1 /\ k.cpu = "task" /\ ~Ticking(k)
  BY RunningFacts
<1>2. /\ k.susp = 0 /\ IsReady(k, Me) /\ Me # Idle /\ \A u \in Task : ~Parked(k, u)
      /\ Rest = <<>> /\ (EndsWait(Rest) <=> EndsWait(todo[Me]))
  BY OpFacts
<1>3. ~EndsWait(todo[Me])
  BY <1>2 DEF EndsWait
<1>4. 1 \in 1 .. Len(todo[Me]) /\ Shape(todo[Me])
  BY <1>1, StateFacts
<1>5. Item.n \in Priority /\ Item.task \in Task
  BY <1>1, <1>4 DEF Shape, Work
<1> QED  BY <1>1, <1>2, <1>3, <1>5

\* The items that allocTCB leaves: with a control block, and without.
LEMMA AllocatedItems ==
    ASSUME NEW t \in Task, NEW n \in Nat
    PROVE  LET s == <<Do("resumeAll"), [DoFor("add", n) EXCEPT !.task = t]>>
               r == <<Do("resumeAll"), Do("free"), Do("resumeAll")>>
           IN  /\ OpOf(s) = "resumeAll" /\ ~EndsWait(s)
               /\ r \in Seq(Work) /\ Shape(r) /\ OpOf(r) = "resumeAll" /\ ~EndsWait(r)
               /\ \A i \in 1 .. Len(r) : ~Owns(r, i)
<1> DEFINE a == Do("resumeAll")
<1> DEFINE b == [DoFor("add", n) EXCEPT !.task = t]
<1> DEFINE c == Do("free")
<1> DEFINE s == <<a, b>>
<1> DEFINE r == <<a, c, a>>
<1>1. a \in Work /\ c \in Work /\ a.op = "resumeAll" /\ c.op = "free"
  BY ItemFacts DEF Ops
<1>2. b \in Work /\ b.op = "add"
  <2>1. "add" \in Ops
    BY DEF Ops
  <2> QED  BY <2>1, ItemFacts
<1> HIDE DEF a, b, c
<1>3. r \in Seq(Work) /\ Shape(r)
  BY <1>1, ShapeOfThree
<1>4. OpOf(r) = "resumeAll" /\ OpOf(s) = "resumeAll" /\ \A i \in 1 .. Len(r) : ~Owns(r, i)
  BY <1>1, <1>2, NoneOwned
<1>5. Len(s) = 2 /\ s[2] = b /\ Len(r) = 3 /\ r[3] = a
  OBVIOUS
<1> HIDE DEF s, r
<1>6. ~EndsWait(s) /\ ~EndsWait(r)
  BY <1>1, <1>2, <1>5 DEF EndsWait
<1> QED  BY <1>3, <1>4, <1>6 DEF a, b, c, s, r

\* xTaskCreate gets its TCB, or fails and frees the stack.
LEMMA AllocTCBKeeps ==
    ASSUME IInv, AllocTCB
    PROVE  IInv'
<1> DEFINE n == k.susp + 1
<1>1. Running("allocTCB") /\ k' = [k EXCEPT !.susp = n] /\ UNCHANGED <<value, previous, app>>
  BY DEF AllocTCB
<1>2. /\ k.cpu = "task" /\ ~Ticking(k) /\ k.susp = 0 /\ Me # Idle /\ IsReady(k, Me)
      /\ \A u \in Task : ~Parked(k, u)
      /\ ~EndsWait(todo[Me]) /\ OpOf(todo[Me]) = "allocTCB" /\ todo[Me] # <<>>
      /\ todo[Me][1].op = "allocTCB" /\ Item.n \in Priority
  BY <1>1, CreatingFacts
<1>3. /\ todo \in [Task -> Seq(Work)] /\ WorkInv(todo, k.live, allocated) /\ Me \in Task /\ Me \in k.live
      /\ k.live \subseteq allocated
      /\ \A u \in Task : u # Me => AtRest(todo[u])
  BY StateFacts
<1>4. PICK s :
          /\ todo' \in [Task -> Seq(Work)] /\ WorkInv(todo', k.live, allocated')
          /\ todo'[Me] = s /\ \A u \in Task : u # Me => todo'[u] = todo[u]
          /\ OpOf(s) = "resumeAll" /\ ~EndsWait(s)
          /\ allocated' \in SUBSET Task /\ allocated \subseteq allocated'
  <2>1. CASE \E t \in Task \ allocated :
                 /\ allocated' = allocated \cup {t}
                 /\ todo' = [todo EXCEPT
                        ![t] = <<>>,
                        ![Me] = <<Do("resumeAll"), [DoFor("add", Item.n) EXCEPT !.task = t]>>]
    <3>1. PICK t \in Task \ allocated :
              /\ allocated' = allocated \cup {t}
              /\ todo' = [todo EXCEPT
                     ![t] = <<>>,
                     ![Me] = <<Do("resumeAll"), [DoFor("add", Item.n) EXCEPT !.task = t]>>]
      BY <2>1
    <3> DEFINE s == <<Do("resumeAll"), [DoFor("add", Item.n) EXCEPT !.task = t]>>
    <3>2. todo' \in [Task -> Seq(Work)] /\ WorkInv(todo', k.live, allocated \cup {t})
      <4> DEFINE m == Item.n
      <4>1. m \in Priority /\ todo' = [todo EXCEPT
                ![t] = <<>>, ![Me] = <<Do("resumeAll"), [DoFor("add", m) EXCEPT !.task = t]>>]
        BY <1>2, <3>1
      <4> HIDE DEF m
      <4> QED  BY <1>2, <1>3, <4>1, WorkAllocates
    <3>3. OpOf(s) = "resumeAll" /\ ~EndsWait(s)
      BY <1>2, AllocatedItems, TickFacts
    <3>4. t # Me /\ todo[t] = <<>>
      BY <1>3 DEF WorkInv
    <3> HIDE DEF s
    <3>5. todo'[Me] = s /\ \A u \in Task : u # Me => todo'[u] = todo[u]
      BY <1>3, <3>1, <3>4 DEF s
    <3> QED  BY <3>1, <3>2, <3>3, <3>5 DEF IInv, TypeOK
  <2>2. CASE allocated' = allocated /\ Continue(<<Do("resumeAll"), Do("free"), Do("resumeAll")>>)
    <3> DEFINE s == <<Do("resumeAll"), Do("free"), Do("resumeAll")>>
    <3>1. /\ s \in Seq(Work) /\ Shape(s) /\ OpOf(s) = "resumeAll" /\ ~EndsWait(s)
          /\ \A i \in 1 .. Len(s) : ~Owns(s, i)
      BY <1>3, AllocatedItems
    <3>2. todo' = [todo EXCEPT ![Me] = s]
      BY <2>2 DEF Continue
    <3> HIDE DEF s
    <3>3. todo' \in [Task -> Seq(Work)] /\ WorkInv(todo', k.live, allocated)
      BY <1>2, <1>3, <3>1, <3>2, WorkBegins
    <3>4. todo'[Me] = s /\ \A u \in Task : u # Me => todo'[u] = todo[u]
      BY <1>3, <3>2
    <3> QED  BY <2>2, <3>1, <3>3, <3>4 DEF IInv, TypeOK
  <2> QED  BY <2>1, <2>2 DEF AllocTCB
<1>5. n = 1 /\ n \in Nat
  BY <1>2
<1> HIDE DEF n
<1>6. Quietly(k, k') /\ k'.cpu = "task" /\ k'.yield = k.yield /\ k'.susp = 1 /\ k'.current = Me
  BY <1>1, <1>2, <1>5, SuspendIsQuiet DEF Quietly, Me
<1>7. SuspendInv(k', todo')
  <2>1. \A u \in Task : u # Me => AtRest(todo'[u])
    BY <1>3, <1>4
  <2> QED  BY <1>2, <1>4, <1>6, <2>1 DEF SuspendInv
<1>8. GoesOn(k, k', todo[Me], todo'[Me])
  <2>1. k'.yield \/ ~k.yield
    BY <1>6, Zenon
  <2> QED  BY <1>2, <1>4, <2>1 DEF GoesOn, Me
<1>9. value' \in [Task -> NotifyValues] /\ previous' \in [Task -> Tick] /\ app' = app
  BY <1>1 DEF IInv, TypeOK
<1>10. ~Ticking(k') /\ k.live \subseteq allocated'
  BY <1>3, <1>4, <1>6 DEF Ticking
<1> QED  BY <1>2, <1>4, <1>6, <1>7, <1>8, <1>9, <1>10, QuietKeeps

\* prvAddNewTaskToReadyList puts a new task in a ready list.
LEMMA AddBears ==
    ASSUME IInv, AddNewTaskToReadyList
    PROVE  /\ Item.task \in allocated /\ Item.task \notin k.live
           /\ Item.task \in Task /\ Item.n \in Priority
           /\ KernelInv(k', allocated) /\ Born(k, k', Item.task, Item.n)
<1> DEFINE t == Item.task
<1> DEFINE p == Item.n
<1>1. Running("add") /\ k' = AddToReady(InitialTCBOf(k, t, p), t)
  BY DEF AddNewTaskToReadyList, InitialTCB, InitialTCBOf
<1>2. /\ ~Ticking(k) /\ todo[Me] # <<>> /\ todo[Me][1].op = "add"
      /\ t = todo[Me][1].task /\ p \in Priority /\ t \in Task
  BY <1>1, CreatingFacts
<1>3. /\ KernelInv(k, allocated) /\ Me \in Task /\ WorkInv(todo, k.live, allocated)
  BY StateFacts
<1>4. t \in allocated /\ t \notin k.live
  <2>1. 1 \in 1 .. Len(todo[Me]) /\ Owns(todo[Me], 1)
    BY <1>1, <1>2, RunningFacts DEF Owns
  <2> QED  BY <1>2, <1>3, <2>1 DEF WorkInv
<1> HIDE DEF t, p
<1>5. KernelInv(k', allocated) /\ Born(k, k', t, p)
  BY <1>1, <1>2, <1>3, <1>4, KernelAdds
<1> QED  BY <1>2, <1>4, <1>5 DEF t, p

\* And the invariant holds after that.
LEMMA AddKeeps ==
    ASSUME IInv, AddNewTaskToReadyList
    PROVE  IInv'
<1> DEFINE t == Item.task
<1> DEFINE p == Item.n
<1> DEFINE s == <<[Do("yieldTo") EXCEPT !.task = t]>>
<1>1. /\ Running("add") /\ k' = AddToReady(InitialTCBOf(k, t, p), t)
      /\ value' = [value EXCEPT ![t] = 0] /\ todo' = [todo EXCEPT ![Me] = s]
      /\ UNCHANGED <<previous, allocated, app>>
  BY DEF AddNewTaskToReadyList, InitialTCB, InitialTCBOf, Continue
<1>2. /\ k.cpu = "task" /\ ~Ticking(k) /\ k.susp = 0 /\ Me # Idle /\ IsReady(k, Me)
      /\ \A u \in Task : ~Parked(k, u)
      /\ ~EndsWait(todo[Me]) /\ OpOf(todo[Me]) = "add" /\ todo[Me] # <<>> /\ todo[Me][1].op = "add"
      /\ t = todo[Me][1].task /\ p \in Priority /\ t \in Task
  BY <1>1, CreatingFacts
<1>3. /\ k \in KernelState /\ KernelInv(k, allocated) /\ Me \in Task /\ Me \in k.live
      /\ k.live \subseteq Task /\ HighestInv(k, todo) /\ Notified(k, todo, MaySuspend)
      /\ todo \in [Task -> Seq(Work)] /\ WorkInv(todo, k.live, allocated)
      /\ \A u \in Task : u # Me => AtRest(todo[u])
  BY StateFacts DEF NotifyInv
<1>4. /\ t \in allocated /\ t \notin k.live
      /\ KernelInv(k', allocated) /\ Born(k, k', t, p)
  BY AddBears
<1>5. t # Me /\ todo[t] = <<>>
  BY <1>2, <1>3, <1>4 DEF WorkInv
<1>6. OpOf(s) = "yieldTo" /\ s[1].task = t /\ ~EndsWait(s)
  <2> DEFINE a == [Do("yieldTo") EXCEPT !.task = t]
  <2>1. a \in Work /\ a.op = "yieldTo" /\ a.task = t
    BY <1>2, ItemFacts DEF Ops
  <2> HIDE DEF a
  <2>2. OpOf(<<a>>) = "yieldTo" /\ <<a>>[1].task = t /\ ~EndsWait(<<a>>)
    BY <2>1 DEF OpOf, EndsWait
  <2> QED  BY <2>2 DEF a
<1>7. todo' \in [Task -> Seq(Work)] /\ WorkInv(todo', k.live \cup {t}, allocated)
  <2>1. todo' = [todo EXCEPT ![Me] = <<[Do("yieldTo") EXCEPT !.task = todo[Me][1].task]>>]
    BY <1>1, <1>2
  <2> DEFINE me == Me
  <2>2. me \in Task /\ me # Idle /\ todo[me] # <<>> /\ todo[me][1].op = "add"
        /\ todo' = [todo EXCEPT ![me] = <<[Do("yieldTo") EXCEPT !.task = todo[me][1].task]>>]
        /\ t = todo[me][1].task
    BY <1>2, <1>3, <2>1
  <2> HIDE DEF me, t
  <2> QED  BY <1>3, <2>2, WorkAdds
<1> HIDE DEF s
<1>8. todo'[Me] = s /\ \A u \in Task : u # Me => todo'[u] = todo[u]
  BY <1>1, <1>3
<1> HIDE DEF t, p
<1>9. KernelInv(k', allocated) /\ Born(k, k', t, p)
  BY <1>4
<1>10. /\ k' \in KernelState /\ k'.live = k.live \cup {t} /\ k'.prio = [k.prio EXCEPT ![t] = p]
       /\ k'.notify = [k.notify EXCEPT ![t] = "notWaiting"] /\ k'.yield = k.yield
       /\ k'.current = Me /\ k'.susp = 0 /\ k'.cpu = "task" /\ Elsewhere(k, k', t)
       /\ \A u \in Task : ~Parked(k', u)
  BY <1>2, <1>9 DEF Born, KernelInv, Sound, KeepsProcessor, Parked, Me
<1>11. /\ \A u \in Task : u # t => k'.prio[u] = k.prio[u] /\ k'.notify[u] = k.notify[u]
       /\ k'.notify[t] = "notWaiting"
  BY <1>2, <1>3, <1>10, FieldTypes
<1>12. SuspendInv(k', todo')
  BY <1>2, <1>3, <1>6, <1>8, <1>10 DEF SuspendInv
<1>13. RunningInv(k', todo') /\ ParkedInv(k')
  BY <1>2, <1>3, <1>5, <1>10 DEF RunningInv, ParkedInv, Elsewhere
<1>14. Notified(k', todo', MaySuspend)
  <2>1. ~EndsWait(<<>>)
    BY DEF EndsWait
  <2>2. ASSUME NEW u \in k.live \cup {t}, k'.notify[u] = "waiting"
        PROVE  Waiting(k', todo', u)
    BY <1>2, <1>3, <1>8, <1>10, <1>11, <2>2 DEF Waiting, Notified
  <2>3. ASSUME NEW u \in k.live \cup {t}, EndsWait(todo'[u]), k'.notify[u] # "waiting"
        PROVE  Awake(k', MaySuspend, u)
    BY <1>2, <1>3, <1>5, <1>6, <1>8, <1>10, <1>11, <2>1, <2>3 DEF Awake, Notified, Elsewhere
  <2> QED  BY <1>10, <2>2, <2>3 DEF Notified
<1>15. NotifyInv(k', todo', MaySuspend)
  BY <1>6, <1>8, <1>10, <1>14 DEF NotifyInv
<1>16. HighestInv(k', todo')
  <2>1. ASSUME ~k.yield, NEW u \in Task, IsReady(k', u), k'.prio[u] > k'.prio[Me], u # t
        PROVE  FALSE
    <3>1. IsReady(k, u) /\ k.prio[u] > k.prio[Me]
      BY <1>3, <1>5, <1>10, <1>11, <2>1 DEF Elsewhere
    <3> QED  BY <1>2, <1>3, <2>1, <3>1 DEF HighestInv, Me
  <2> QED  BY <1>6, <1>8, <1>10, <2>1 DEF HighestInv
<1>17. RestInv(k', todo', MaySuspend)
  BY <1>12, <1>13, <1>15, <1>16 DEF RestInv
<1>18. /\ value' \in [Task -> NotifyValues] /\ previous' \in [Task -> Tick] /\ app' = app
       /\ allocated' = allocated /\ allocated' \in SUBSET Task
  <2>1. 0 \in NotifyValues
    BY TasksAssumption DEF NotifyValues
  <2> QED  BY <1>1, <2>1 DEF IInv, TypeOK
<1>19. KernelInv(k', allocated') /\ WorkInv(todo', k'.live, allocated')
  BY <1>7, <1>9, <1>10, <1>18
<1> QED  BY <1>7, <1>10, <1>17, <1>18, <1>19, Together

-----------------------------------------------------------------------------
(* The invariant holds. *)

\* A step that changes nothing.
LEMMA StutterKeeps ==
    ASSUME IInv, UNCHANGED vars
    PROVE  IInv'
<1>1. UNCHANGED <<k, todo, allocated, app>> /\ value' = value /\ previous' = previous
  BY DEF vars
<1>2. value' \in [Task -> NotifyValues] /\ previous' \in [Task -> Tick]
  BY <1>1 DEF IInv, TypeOK
<1> QED  BY <1>1, <1>2, DataKeeps

\* What the processor does of itself.
LEMMA StepKeeps ==
    ASSUME IInv, Step
    PROVE  IInv'
<1>1. CASE TickLoop
  BY <1>1, TickUnblockKeeps, TickEndKeeps DEF TickLoop
<1>2. CASE ResumeAllLoop
  BY <1>2, DrainPendingKeeps, DrainEndKeeps, ReplayTickKeeps, ReplayUnblockKeeps,
     ReplayTickEndKeeps, ResumeAllEndKeeps DEF ResumeAllLoop
<1>3. CASE Continuation
  <2>1. CASE ResumeAll \/ Yield \/ Delay \/ DelayUntil \/ Wait \/ UnblockTime \/ CatchUp
    BY <2>1, ResumeAllKeeps, YieldActionKeeps, DelayKeeps, DelayUntilKeeps,
       UnblockTimeKeeps, CatchUpKeeps
  <2>2. CASE AllocTCB \/ AddNewTaskToReadyList \/ YieldToNewTask \/ Free \/ FreeTCB
    BY <2>2, AllocTCBKeeps, AddKeeps, YieldToNewTaskKeeps, FreeKeeps
  <2>3. CASE Take \/ TakeEnd \/ Await \/ AwaitEnd
    BY <2>3, CheckKeeps, NotifyEndKeeps
  <2>4. CASE IdleCleanUp \/ IdleLoop \/ IdleYield
    BY <2>4, IdleCleanUpKeeps, IdleLoopKeeps, IdleYieldKeeps
  <2> QED  BY <1>3, <2>1, <2>2, <2>3, <2>4 DEF Continuation
<1> QED  BY <1>1, <1>2, <1>3 DEF Step

\* The calls of the application.
LEMMA ApplicationKeeps ==
    ASSUME IInv, Call
    PROVE  IInv'
<1>1. CASE vTaskSuspendAll \/ xTaskResumeAll \/ xTaskGetTickCount
  BY <1>1, SuspendAllKeeps, CallResumeAllKeeps, GetTickCountKeeps
<1>2. ASSUME NEW n \in App.ticks[Me],
             vTaskDelay(n) \/ xTaskDelayUntil(n) \/ xTaskCatchUpTicks(n)
      PROVE  IInv'
  BY <1>2, DelayCallKeeps, CatchUpTicksKeeps
<1>3. ASSUME NEW n \in App.ticks[Me], NEW b \in App.clears,
             \/ ulTaskGenericNotifyTake(b, n)
             \/ \E c \in App.clears : xTaskGenericNotifyWait(b, c, n)
      PROVE  IInv'
  BY <1>3, NotifyCallKeeps
<1>4. ASSUME NEW p \in Priority, xTaskCreate(p)
      PROVE  IInv'
  BY <1>4, CreateKeeps
<1>5. ASSUME NEW t \in Task, vTaskSuspend(t) \/ vTaskResume(t) \/ vTaskDelete(t)
      PROVE  IInv'
  BY <1>5, SuspendKeeps, ResumeKeeps, DeleteKeeps
<1>6. ASSUME NEW t \in Task, NEW p \in Priority, vTaskPrioritySet(t, p)
      PROVE  IInv'
  BY <1>6, PrioritySetKeeps
<1>7. ASSUME NEW t \in Task,
             xTaskGenericNotifyStateClear(t) \/ ulTaskGenericNotifyValueClear(t)
      PROVE  IInv'
  BY <1>7, StateClearKeeps, ValueClearKeeps
<1>8. ASSUME NEW t \in Task, NEW a \in App.actions, NEW v \in NotifyValues,
             xTaskGenericNotify(t, a, v)
      PROVE  IInv'
  BY <1>8, NotifyKeeps
<1> QED  BY <1>1, <1>2, <1>3, <1>4, <1>5, <1>6, <1>7, <1>8 DEF Call

\* Every step keeps the invariant.
LEMMA NextKeeps ==
    ASSUME IInv, [Next]_vars
    PROVE  IInv'
<1>1. CASE TickInterrupt
  BY <1>1, TickInterruptKeeps
<1>2. CASE Step
  BY <1>2, StepKeeps
<1>3. CASE Call
  BY <1>3, ApplicationKeeps
<1>4. CASE Interrupt
  BY <1>4, ResumeFromISRKeeps, NotifyFromISRKeeps DEF Interrupt
<1>5. CASE UNCHANGED vars
  BY <1>5, StutterKeeps
<1> QED  BY <1>1, <1>2, <1>3, <1>4, <1>5 DEF Next

-----------------------------------------------------------------------------
(* The scheduler starts. *)

\* The invariant holds when the scheduler starts.
LEMMA InitHolds ==
    ASSUME Init
    PROVE  IInv
<1>1. /\ app \in DOMAIN Applications /\ allocated = Started
      /\ todo = [t \in Task |-> <<>>] /\ value = [t \in Task |-> 0]
      /\ previous = [t \in Task |-> 0] /\ k.yield = FALSE
  BY DEF Init
<1>2. k \in KernelState /\ k.cpu = "task" /\ k.susp = 0 /\ ~Ticking(k) /\ k.current \in Task
  BY StartLists, FieldTypes DEF Ticking
<1>3. TypeOK
  BY StartTyped
<1>4. \A t \in Task : /\ todo[t] = <<>> /\ OpOf(todo[t]) = "none" /\ AtRest(todo[t])
                      /\ ~EndsWait(todo[t])
  BY <1>1 DEF OpOf, AtRest, EndsWait
<1>5. WorkInv(todo, k.live, allocated)
  <2>1. Len(<<>>) = 0 /\ 1 .. 0 = {}
    OBVIOUS
  <2>2. \A t \in Task : \A i \in 1 .. Len(todo[t]) : FALSE
    BY <1>4, <2>1
  <2>3. Idle \in Task
    BY TasksAssumption
  <2> QED  BY <1>4, <2>2, <2>3 DEF WorkInv, Shape, IdleShape
<1>6. \A t \in Task : ~Parked(k, t)
  BY StartLists, ListNames, EmptyHoldsNone DEF Parked
<1>7. SuspendInv(k, todo)
  BY <1>2, <1>4, TasksAssumption DEF SuspendInv
<1> DEFINE first == Last(App.ready[HighestStart])
<1>8. /\ first \in Task /\ k.current = first /\ k.prio[first] = HighestStart
      /\ HighestStart \in Priority /\ IsReady(k, first)
  <2>1. first \in Task /\ HighestStart \in Priority /\ ReadyAtStart(HighestStart, first)
    BY <1>1, HighestStartFacts
  <2> HIDE DEF first
  <2>2. k.prio[first] = HighestStart
    BY <1>1, <2>1, StartLists, StartPriorityFacts
  <2>3. IsReady(k, first)
    BY <2>1, <2>2, StartLists DEF IsReady
  <2> QED  BY <2>1, <2>2, <2>3, StartLists DEF first
<1> HIDE DEF first
<1>9. RunningInv(k, todo)
  BY <1>8 DEF RunningInv
<1>10. ParkedInv(k)
  BY <1>6 DEF ParkedInv
<1>11. \A t \in k.live : k.notify[t] # "waiting"
  BY <1>2, StartLists
<1>12. NotifyInv(k, todo, MaySuspend)
  BY <1>2, <1>4, <1>6, <1>11, StartLists DEF NotifyInv, Notified
<1>13. HighestInv(k, todo)
  <2> SUFFICES ASSUME NEW u \in Task, IsReady(k, u), k.prio[u] > k.prio[k.current]
               PROVE  FALSE
    BY DEF HighestInv
  <2>1. k.prio[u] \in Priority
    BY <1>2, FieldTypes
  <2>2. ReadyAtStart(k.prio[u], u)
    BY <2>1, StartLists DEF IsReady
  <2>3. k.prio[u] <= HighestStart
    BY <1>1, <2>1, <2>2, HighestStartFacts
  <2>4. k.prio[u] > HighestStart
    BY <1>8
  <2>5. k.prio[u] \in Nat /\ HighestStart \in Nat
    BY <1>8, <2>1, TickFacts
  <2> QED  BY <2>3, <2>4, <2>5
<1> QED  BY <1>3, <1>5, <1>7, <1>9, <1>10, <1>12, <1>13, StartKernel DEF IInv, RestInv

\* The invariant holds in every state of every application.
THEOREM InvariantHolds == Spec => []IInv
<1>1. Init => IInv
  BY InitHolds
<1>2. IInv /\ [Next]_vars => IInv'
  BY NextKeeps
<1> QED  BY <1>1, <1>2, PTL DEF Spec

-----------------------------------------------------------------------------
(* The safety properties follow. *)

\* The item at any place of a list is in the list.
LEMMA InList ==
    ASSUME NEW kk \in KernelState, NEW l \in StateLists, NEW i \in DOMAIN kk.list[l]
    PROVE  kk.list[l][i] \in Task /\ IsIn(kk, kk.list[l][i], l)
<1>1. kk.list[l] \in Seq(Task)
  BY FieldTypes
<1>2. Occurs(kk.list[l], kk.list[l][i])
  BY DEF Occurs
<1> QED  BY <1>1, <1>2, OccursByLength DEF IsIn

\* The lists of the kernel are sound.
LEMMA InvariantMeansLists ==
    ASSUME IInv
    PROVE  ListsAreSound
<1>1. /\ k \in KernelState /\ Linked(k) /\ Listed(k) /\ ByPriority(k) /\ Covered(k)
      /\ KernelInv(k, allocated) /\ WorkInv(todo, k.live, allocated) /\ ParkedInv(k)
  BY StateFacts DEF Sound
<1>2. OneStateList
  <2>1. \A l \in StateLists : \A i \in DOMAIN k.list[l] : k.list[l][i] \in k.live
    BY <1>1, InList DEF Listed
  <2>2. \A t \in k.live : \E l \in StateLists : IsIn(k, t, l)
    BY <1>1, FieldTypes DEF Listed
  <2>3. ASSUME NEW l \in StateLists, NEW m \in StateLists,
               NEW i \in DOMAIN k.list[l], NEW j \in DOMAIN k.list[m],
               k.list[l][i] = k.list[m][j]
        PROVE  l = m /\ i = j
    <3> DEFINE t == k.list[l][i]
    <3>1. t \in Task /\ IsIn(k, t, l) /\ IsIn(k, t, m)
      BY <1>1, <2>3, InList
    <3>2. l = m
      BY <1>1, <3>1 DEF Linked
    <3> QED  BY <1>1, <2>3, <3>2 DEF Linked, Distinct
  <2> QED  BY <2>1, <2>2, <2>3 DEF OneStateList, EachInOneList
<1>3. ReadyListsSound
  <2>1. ReadyByPriority(k)
    BY <1>1, InList, ListNames DEF ReadyByPriority, ByPriority
  <2>2. TopCoversReady(k)
    BY <1>1, EmptyMeansNone, ListNames DEF TopCoversReady, Covered
  <2>3. IsIn(k, Idle, Ready(0))
    BY <1>1 DEF KernelInv, IsReady
  <2> QED  BY <2>1, <2>2, <2>3 DEF ReadyListsSound
<1>4. PendingReadyIsDrained
  <2> DEFINE s == k.event[PendingReady]
  <2>1. s \in Seq(Task)
    BY <1>1, FieldTypes, ListNames
  <2>2. \A i \in DOMAIN s : s[i] \in Task /\ Parked(k, s[i])
    BY <2>1, OccursByLength DEF Occurs, Parked
  <2>3. \A i \in DOMAIN s : k.notify[s[i]] = "received" \/ IsIn(k, s[i], Suspended)
    BY <1>1, <2>2 DEF ParkedInv
  <2>4. k.susp = 0 /\ k.cpu \notin {"drain", "drainMore"} => s = <<>>
    <3>1. s = <<>> <=> \A t : ~Occurs(s, t)
      BY <2>1, EmptyIffNone
    <3>2. \A t : Occurs(s, t) => t \in Task
      BY <2>1, OccursByLength
    <3> QED  BY <1>1, <3>1, <3>2 DEF ParkedInv, Parked
  <2> QED  BY <2>3, <2>4 DEF PendingReadyIsDrained
<1>5. NoUseAfterFree
  <2>1. k.current \in allocated /\ k.live \subseteq allocated
    BY <1>1 DEF KernelInv
  <2>2. ASSUME NEW t \in k.live, NEW i \in DOMAIN todo[t], todo[t][i].op \in {"add", "freeTCB"}
        PROVE  todo[t][i].task \in allocated \ k.live
    <3>1. t \in Task /\ todo[t] \in Seq(Work)
      BY StateFacts
    <3>2. i \in 1 .. Len(todo[t])
      BY <2>2, <3>1, LenProperties
    <3> QED  BY <1>1, <2>2, <3>1, <3>2 DEF WorkInv, Owns
  <2> QED  BY <2>1, <2>2 DEF NoUseAfterFree
<1> QED  BY <1>2, <1>3, <1>4, <1>5 DEF ListsAreSound, IInv

\* No sleeper is passed over.
LEMMA InvariantMeansWaking ==
    ASSUME IInv
    PROVE  NobodyOversleeps
<1>1. k \in KernelState /\ Linked(k) /\ KernelInv(k, allocated) /\ UnblockEarly(k)
  BY StateFacts DEF Sound, KernelInv
<1>2. UnblockTimeSound(k)
  BY <1>1, InList, ListNames DEF UnblockTimeSound, UnblockEarly
<1>3. DelayedInOrder(k)
  <2> SUFFICES ASSUME NEW l \in {Delayed, OverflowDelayed},
                      NEW i \in DOMAIN k.list[l], NEW j \in DOMAIN k.list[l], i < j
               PROVE  k.wake[k.list[l][i]] <= k.wake[k.list[l][j]]
    BY DEF DelayedInOrder
  <2>1. l \in StateLists /\ InOrder(k.list[l], k.wake)
    BY <1>1, ListNames DEF Linked
  <2>2. k.list[l] \in Seq(Task)
    BY <1>1, <2>1, FieldTypes
  <2>3. i \in 1 .. Len(k.list[l]) /\ j \in 1 .. Len(k.list[l])
    BY <2>2, LenProperties
  <2>4. i <= j
    BY <2>2, <2>3, LenProperties
  <2> QED  BY <2>1, <2>3, <2>4 DEF InOrder
<1>4. SleepersInFuture(k)
  <2>1. /\ \A i \in DOMAIN k.list[Delayed] :
               k.list[Delayed][i] \in Task /\ IsIn(k, k.list[Delayed][i], Delayed)
        /\ \A i \in DOMAIN k.list[OverflowDelayed] :
               /\ k.list[OverflowDelayed][i] \in Task
               /\ IsIn(k, k.list[OverflowDelayed][i], OverflowDelayed)
    BY <1>1, InList, ListNames
  <2>2. CASE Ticking(k)
    <3>1. DueNowOrLater(k)
      BY <1>1, <2>2 DEF KernelInv
    <3> QED  BY <2>1, <2>2, <3>1 DEF Ticking, DueNowOrLater, DueAfterWrap, SleepersInFuture
  <2>3. CASE ~Ticking(k)
    <3>1. DueLater(k)
      BY <1>1, <2>3 DEF KernelInv
    <3> QED  BY <2>1, <2>3, <3>1 DEF Ticking, DueLater, DueAfterWrap, SleepersInFuture
  <2> QED  BY <2>2, <2>3
<1> QED  BY <1>2, <1>3, <1>4 DEF NobodyOversleeps, UnblockTimeIsEarly, NoOverdueSleeper

\* No task of a higher priority is left ready.
LEMMA InvariantMeansHighest ==
    ASSUME IInv
    PROVE  HighestPriorityRuns
<1> SUFFICES ASSUME k.cpu = "task", k.susp = 0, ~k.yield, ~AboutToYield,
                    NEW p \in Priority, p > k.prio[Me], ~Empty(k, Ready(p))
             PROVE  FALSE
  BY DEF HighestPriorityRuns
<1>1. k \in KernelState /\ Sound(k) /\ HighestInv(k, todo) /\ Ready(p) \in StateLists
  BY StateFacts, ListNames
<1>2. PICK t \in Task : IsIn(k, t, Ready(p))
  BY <1>1, EmptyMeansNone
<1>3. k.prio[t] = p /\ IsReady(k, t)
  BY <1>1, <1>2, ReadyMeansReady
<1>4. OpOf(todo[Me]) = "yieldTo"
  BY <1>1, <1>3 DEF HighestInv, Me
<1>5. todo[Me] # <<>> /\ todo[Me][1].op = "yieldTo"
  BY <1>4 DEF OpOf
<1>6. Head(todo[Me]) = todo[Me][1]
  BY <1>5, StateFacts, RestOf
<1> QED  BY <1>5, <1>6 DEF AboutToYield

\* No task waits for a notification it has got.
LEMMA InvariantMeansNotified ==
    ASSUME IInv
    PROVE  NoNotificationIsLost
<1>1. /\ k \in KernelState /\ KernelInv(k, allocated) /\ Notified(k, todo, MaySuspend)
      /\ ParkedInv(k) /\ k.live \subseteq Task
  BY StateFacts DEF NotifyInv
<1>2. \A t \in Task : Waits(k, t) <=> Parked(k, t)
  BY <1>1 DEF KernelInv, Waits, Parked, EventLists
<1>3. \A t \in Task : WaitsForNotification(t) <=> EndsWait(todo[t])
  BY DEF WaitsForNotification, EndsWait, Last
<1>4. NotifiedTaskWakes
  <2> SUFFICES ASSUME NEW t \in k.live, WaitsForNotification(t), k.notify[t] = "received"
               PROVE  \/ ReadyToRun(t) \/ Occurs(k.event[PendingReady], t)
                      \/ MaySuspend /\ prvTaskIsTaskSuspended(t)
    BY DEF NotifiedTaskWakes
  <2>1. Awake(k, MaySuspend, t)
    BY <1>1, <1>3 DEF Notified
  <2> QED  BY <1>1, <1>2, <2>1 DEF Awake, IsReady, ReadyToRun, Parked, prvTaskIsTaskSuspended
<1>5. WaitingTaskHasNoEvent
  <2> SUFFICES ASSUME NEW t \in Task, k.notify[t] = "waiting", Parked(k, t)
               PROVE  FALSE
    BY <1>2 DEF WaitingTaskHasNoEvent
  <2>1. t \in k.live
    BY <1>1 DEF ParkedInv
  <2> QED  BY <1>1, <2>1 DEF Notified, Waiting
<1> QED  BY <1>4, <1>5 DEF NoNotificationIsLost

\* The kernel's lists are sound, and no freed control block is in use, whatever
\* the tasks call and whenever interrupts come.
THEOREM ListsStaySound == Spec => []ListsAreSound
BY InvariantHolds, InvariantMeansLists, PTL

\* xTaskIncrementTick wakes every sleeper in its tick, across the wraps of the
\* tick count, for any width of it.
THEOREM NobodyEverOversleeps == Spec => []NobodyOversleeps
BY InvariantHolds, InvariantMeansWaking, PTL

\* The scheduler never leaves a ready task of a higher priority waiting.
THEOREM HighestAlwaysRuns == Spec => []HighestPriorityRuns
BY InvariantHolds, InvariantMeansHighest, PTL

\* A notification reaches the task that waits for it, also one that comes
\* between the test and the sleep, or while the scheduler is suspended.
THEOREM NotificationsArrive == Spec => []NoNotificationIsLost
BY InvariantHolds, InvariantMeansNotified, PTL

-----------------------------------------------------------------------------
(* Who wakes, and who stays suspended.  A step that leaves a task where it *)
(* was wakes it in time, trivially, and keeps it suspended; the steps that *)
(* move a task are looked at one by one.                                   *)

Sleeps(kk, t) == IsIn(kk, t, Delayed) \/ IsIn(kk, t, OverflowDelayed)

Resting(kk, t) == IsIn(kk, t, Suspended) /\ ~Parked(kk, t) /\ kk.notify[t] # "waiting"

InTime(kk, r, t) ==
    Sleeps(kk, t) /\ IsReady(r, t) /\ r.notify[t] # "received" => kk.tick = kk.wake[t]

RestsOn(kk, r, t) == Resting(kk, t) => Resting(r, t)

\* The step from kk to r leaves t where it was.
Stands(kk, r, t) ==
    /\ IsReady(r, t) <=> IsReady(kk, t)
    /\ IsIn(r, t, Suspended) <=> IsIn(kk, t, Suspended)
    /\ Parked(r, t) <=> Parked(kk, t)
    /\ r.notify[t] = kk.notify[t]

\* A task that is asleep is not ready, nor suspended.
LEMMA OnePlace ==
    ASSUME NEW kk, Sound(kk), NEW t \in Task
    PROVE  /\ Sleeps(kk, t) => ~IsReady(kk, t) /\ ~IsIn(kk, t, Suspended)
           /\ IsReady(kk, t) => ~IsIn(kk, t, Suspended) /\ ~IsIn(kk, t, Terminated)
           /\ IsIn(kk, t, Terminated) => ~IsIn(kk, t, Suspended)
<1>1. kk \in KernelState /\ Linked(kk)
  BY DEF Sound
<1>2. Ready(kk.prio[t]) \in StateLists \ {Delayed, OverflowDelayed, Suspended, Terminated}
  BY <1>1, FieldTypes, ListNames
<1> QED  BY <1>1, <1>2, ListNames DEF Linked, Sleeps, IsReady

\* A task that stays where it is is neither roused from a suspension nor
\* woken.
LEMMA StandingIsOrderly ==
    ASSUME NEW kk, Sound(kk), NEW t \in Task, NEW r, Stands(kk, r, t)
    PROVE  InTime(kk, r, t) /\ RestsOn(kk, r, t)
BY OnePlace DEF Stands, InTime, RestsOn, Resting

\* A step that leaves lists and notifications alone leaves every task where it
\* is.
LEMMA AlikeStands ==
    ASSUME NEW kk \in KernelState, NEW r, SeenAlike(kk, r), r.notify = kk.notify
    PROVE  \A t \in Task : Stands(kk, r, t)
<1>1. /\ \A t \in Task : IsReady(r, t) <=> IsReady(kk, t)
      /\ \A t \in Task : IsIn(r, t, Suspended) <=> IsIn(kk, t, Suspended)
      /\ \A t \in Task : Parked(r, t) <=> Parked(kk, t)
  BY AlikeFacts
<1> QED  BY <1>1 DEF Stands

\* Records with the same lists.
SameFields(kk, r) ==
    r.list = kk.list /\ r.event = kk.event /\ r.prio = kk.prio /\ r.notify = kk.notify

\* So does one that changes other fields of the kernel only.
LEMMA SameFieldsStand ==
    ASSUME NEW kk, NEW r, SameFields(kk, r)
    PROVE  \A t \in Task : Stands(kk, r, t)
BY DEF SameFields, Stands, IsReady, IsIn, Parked

\* vTaskSwitchContext moves no task.
LEMMA SwitchStands ==
    ASSUME NEW kk, NEW handed, KernelInv(kk, handed), NEW r, r = vTaskSwitchContext(kk)
    PROVE  \A t \in Task : Stands(kk, r, t)
<1>1. kk \in KernelState /\ Switched(kk, r) /\ SeenAlike(kk, r)
  BY KernelSwitched DEF KernelInv, Sound
<1>2. r.notify = kk.notify
  BY <1>1 DEF Switched, KeepsTasks
<1> QED  BY <1>1, <1>2, AlikeStands

\* Two steps that leave a task where it is do so together.
LEMMA StandsOn ==
    ASSUME NEW kk, NEW a, NEW r, NEW t \in Task, Stands(kk, a, t), Stands(a, r, t)
    PROVE  Stands(kk, r, t)
BY DEF Stands

\* The steps that change neither a list of tasks nor a notification state.
LEMMA FieldSteps ==
    ASSUME IInv,
           \/ ResumeAll \/ CatchUp \/ AllocTCB \/ Free \/ FreeTCB
           \/ IdleLoop \/ vTaskSuspendAll \/ xTaskResumeAll \/ xTaskGetTickCount
           \/ \E n : xTaskDelayUntil(n) \/ xTaskCatchUpTicks(n)
           \/ \E b, n : ulTaskGenericNotifyTake(b, n)
           \/ \E b, c, n : xTaskGenericNotifyWait(b, c, n)
           \/ \E p : xTaskCreate(p)
           \/ \E t : ulTaskGenericNotifyValueClear(t)
    PROVE  SameFields(k, k')
<1>1. k \in KernelState
  BY StateFacts
<1>2. CASE k' = k
  BY <1>2 DEF SameFields
<1>3. CASE \E n : k' = [k EXCEPT !.susp = n]
  BY <1>1, <1>3 DEF SameFields, KernelState
<1>4. CASE k' = [k EXCEPT !.susp = 0, !.cpu = "drain"]
  BY <1>1, <1>4 DEF SameFields, KernelState
<1>5. CASE \E n : k' = [k EXCEPT !.pended = n]
  BY <1>1, <1>5 DEF SameFields, KernelState
<1>6. CASE ResumeAll
  BY <1>3, <1>4, <1>6 DEF ResumeAll
<1>7. CASE CatchUp
  BY <1>5, <1>7 DEF CatchUp
<1>8. CASE AllocTCB \/ Free \/ FreeTCB \/ vTaskSuspendAll
  BY <1>3, <1>8 DEF AllocTCB, Free, FreeTCB, vTaskSuspendAll
<1>9. CASE IdleLoop \/ xTaskResumeAll \/ xTaskGetTickCount
           \/ \E t : ulTaskGenericNotifyValueClear(t)
  BY <1>2, <1>9 DEF IdleLoop, xTaskResumeAll, xTaskGetTickCount, ulTaskGenericNotifyValueClear
<1>10. ASSUME NEW n, NEW b, NEW c,
              \/ xTaskDelayUntil(n) \/ xTaskCatchUpTicks(n) \/ ulTaskGenericNotifyTake(b, n)
              \/ xTaskGenericNotifyWait(b, c, n) \/ xTaskCreate(n)
       PROVE  SameFields(k, k')
  BY <1>3, <1>10 DEF xTaskDelayUntil, xTaskCatchUpTicks, ulTaskGenericNotifyTake,
                     xTaskGenericNotifyWait, xTaskCreate
<1> QED  BY <1>6, <1>7, <1>8, <1>9, <1>10

\* The steps of the tick interrupt, of xTaskResumeAll and of the calls that
\* leave every task where it was.
LEMMA TicksStand ==
    ASSUME IInv, TickInterrupt \/ TickEnd \/ ReplayTick \/ ReplayTickEnd
    PROVE  \A t \in Task : Stands(k, k', t)
<1>1. k \in KernelState /\ KernelInv(k, allocated)
  BY StateFacts
<1>2. CASE TickInterrupt
  <2>1. CASE k.susp = 0 /\ k' = [IncrementTick(k) EXCEPT !.cpu = "tick"]
    <3>1. ~Ticking(k)
      BY <1>2 DEF TickInterrupt, InterruptsOn, Ticking
    <3>2. SeenAlike(k, k') /\ k'.notify = k.notify
      BY <1>1, <2>1, <3>1, KernelTicks
    <3> QED  BY <1>1, <3>2, AlikeStands
  <2>2. CASE k.susp # 0 /\ k' = vTaskSwitchContext([k EXCEPT !.pended = @ + 1])
    <3>1. SameFields(k, k')
      BY <1>1, <2>2 DEF vTaskSwitchContext, SameFields, KernelState
    <3> QED  BY <3>1, SameFieldsStand
  <2> QED  BY <1>2, <2>1, <2>2 DEF TickInterrupt
<1>3. CASE ReplayTick
  <2>1. ~Ticking(k) /\ k' = [IncrementTick(k) EXCEPT !.cpu = "replayTick"]
    BY <1>3 DEF ReplayTick, Ticking
  <2>2. SeenAlike(k, k') /\ k'.notify = k.notify
    BY <1>1, <2>1, KernelTicks
  <2> QED  BY <1>1, <2>2, AlikeStands
<1> DEFINE a == AfterTickLoop(k)
<1>4. ASSUME Ticking(k), TickIsOver(k)
      PROVE  /\ a \in KernelState /\ KernelInv(a, allocated) /\ DueLater(a)
             /\ \A t \in Task : Stands(k, a, t)
  <2>1. KernelInv(a, allocated) /\ SeenAlike(k, a) /\ DueLater(a) /\ Keeps(k, a)
    BY <1>1, <1>4, KernelLoopEnds
  <2>2. a.notify = k.notify
    BY <2>1 DEF Keeps, KeepsTasks
  <2>3. a \in KernelState
    BY <2>1 DEF KernelInv, Sound
  <2> QED  BY <1>1, <2>1, <2>2, <2>3, AlikeStands
<1>5. CASE TickEnd
  <2>1. /\ Ticking(k) /\ TickIsOver(k) /\ k' = [vTaskSwitchContext(a) EXCEPT !.cpu = "task"]
    BY <1>5 DEF TickEnd, Ticking
  <2>2. a \in KernelState /\ KernelInv(a, allocated) /\ \A t \in Task : Stands(k, a, t)
    BY <1>4, <2>1
  <2> HIDE DEF a
  <2> DEFINE b == vTaskSwitchContext(a)
  <2>3. \A t \in Task : Stands(a, b, t)
    BY <2>2, SwitchStands
  <2>4. b \in KernelState
    BY <2>2, KernelSwitched DEF Switched, Sound
  <2> HIDE DEF b
  <2>5. SameFields(b, k')
    BY <2>1, <2>4 DEF SameFields, KernelState, b
  <2>6. \A t \in Task : Stands(b, k', t)
    BY <2>5, SameFieldsStand
  <2> QED  BY <2>2, <2>3, <2>6 DEF Stands
<1>6. CASE ReplayTickEnd
  <2>1. /\ Ticking(k) /\ TickIsOver(k)
        /\ k' = [a EXCEPT !.cpu = "replay", !.pended = @ - 1, !.yield = @ \/ SliceOver(k)]
    BY <1>6 DEF ReplayTickEnd, Ticking
  <2>2. a \in KernelState /\ \A t \in Task : Stands(k, a, t)
    BY <1>4, <2>1
  <2> HIDE DEF a
  <2>3. SameFields(a, k')
    BY <2>1, <2>2 DEF SameFields, KernelState
  <2>4. \A t \in Task : Stands(a, k', t)
    BY <2>3, SameFieldsStand
  <2> QED  BY <2>2, <2>4 DEF Stands
<1> QED  BY <1>2, <1>3, <1>5, <1>6

\* The switches and the steps beside the lists leave every task where it is.
LEMMA SwitchesStand ==
    ASSUME IInv,
           \/ DrainEnd \/ ResumeAllEnd \/ Yield \/ UnblockTime \/ YieldToNewTask \/ IdleYield
           \/ \E n : vTaskDelay(n)
    PROVE  \A t \in Task : Stands(k, k', t)
<1>1. k \in KernelState /\ Sound(k) /\ KernelInv(k, allocated)
  BY StateFacts
<1>2. CASE SameFields(k, k')
  BY <1>2, SameFieldsStand
<1>3. CASE k' = vTaskSwitchContext(k)
  BY <1>1, <1>3, SwitchStands
<1>4. CASE k' = [vTaskSwitchContext(k) EXCEPT !.cpu = "task"]
  <2> DEFINE b == vTaskSwitchContext(k)
  <2>1. \A t \in Task : Stands(k, b, t)
    BY <1>1, SwitchStands
  <2>2. b \in KernelState
    BY <1>1, KernelSwitched DEF Switched, Sound
  <2> HIDE DEF b
  <2>3. SameFields(b, k')
    BY <1>4, <2>2 DEF SameFields, KernelState, b
  <2>4. \A t \in Task : Stands(b, k', t)
    BY <2>3, SameFieldsStand
  <2> QED  BY <2>1, <2>4 DEF Stands
<1>5. SameFields(k, prvResetNextTaskUnblockTime(k)) /\ prvResetNextTaskUnblockTime(k) \in KernelState
  <2>1. NextReset(k, prvResetNextTaskUnblockTime(k))
    BY <1>1, ResetSound
  <2> QED  BY <2>1 DEF NextReset, SameLists, Keeps, KeepsTasks, SameFields
<1>6. CASE DrainEnd
  <2> DEFINE b == IF k.cpu = "drainMore" THEN prvResetNextTaskUnblockTime(k) ELSE k
  <2>1. b \in KernelState /\ SameFields(k, b)
    BY <1>1, <1>5 DEF SameFields
  <2>2. k' = [b EXCEPT !.cpu = "replay"]
    BY <1>6 DEF DrainEnd
  <2> HIDE DEF b
  <2>3. SameFields(k, k')
    BY <2>1, <2>2 DEF SameFields, KernelState
  <2> QED  BY <1>2, <2>3
<1>7. CASE ResumeAllEnd
  <2>1. ASSUME k' = [k EXCEPT !.cpu = "task"]
        PROVE  SameFields(k, k')
    BY <1>1, <2>1 DEF SameFields, KernelState
  <2> QED  BY <1>2, <1>4, <1>7, <2>1 DEF ResumeAllEnd
<1>8. CASE UnblockTime
  BY <1>2, <1>5, <1>8 DEF UnblockTime
<1>9. ASSUME k' = k
      PROVE  SameFields(k, k')
  BY <1>9 DEF SameFields
<1>10. CASE Yield \/ YieldToNewTask \/ IdleYield
  <2>1. k' = k \/ k' = vTaskSwitchContext(k)
    BY <1>10 DEF Yield, YieldToNewTask, YieldIfHigher, IdleYield
  <2> QED  BY <1>2, <1>3, <1>9, <2>1
<1>11. ASSUME NEW n, vTaskDelay(n)
       PROVE  \A t \in Task : Stands(k, k', t)
  <2>1. ASSUME k' = [k EXCEPT !.susp = 1]
        PROVE  SameFields(k, k')
    BY <1>1, <2>1 DEF SameFields, KernelState
  <2> QED  BY <1>2, <1>3, <1>11, <2>1 DEF vTaskDelay
<1> QED  BY <1>6, <1>7, <1>8, <1>10, <1>11

\* A step after which a task wakes in time and stays suspended.
Orderly(kk, r, t) == InTime(kk, r, t) /\ RestsOn(kk, r, t)

\* A change of one notification state.
LEMMA MarkIsOrderly ==
    ASSUME NEW kk, Sound(kk), NEW r, NEW t \in Task, NEW v, Marked(kk, r, t, v),
           v # "waiting" \/ IsReady(kk, t)
    PROVE  \A u \in Task : Orderly(kk, r, u)
<1>1. kk \in KernelState /\ SeenAlike(kk, r)
  BY DEF Sound, Marked
<1>2. /\ \A u \in Task : IsReady(r, u) <=> IsReady(kk, u)
      /\ \A u \in Task : IsIn(r, u, Suspended) <=> IsIn(kk, u, Suspended)
      /\ \A u \in Task : Parked(r, u) <=> Parked(kk, u)
  BY <1>1, AlikeFacts
<1>3. r.notify[t] = v /\ \A u \in Task : u # t => r.notify[u] = kk.notify[u]
  BY DEF Marked
<1> SUFFICES ASSUME NEW u \in Task
             PROVE  Orderly(kk, r, u)
  OBVIOUS
<1>4. CASE u # t
  <2>1. Stands(kk, r, u)
    BY <1>2, <1>3, <1>4 DEF Stands
  <2> QED  BY <2>1, StandingIsOrderly DEF Orderly
<1>5. CASE u = t
  <2>1. InTime(kk, r, t)
    BY <1>2, OnePlace DEF InTime
  <2>2. RestsOn(kk, r, t)
    BY <1>2, <1>3, OnePlace DEF RestsOn, Resting
  <2> QED  BY <1>5, <2>1, <2>2 DEF Orderly
<1> QED  BY <1>4, <1>5

\* A task that is readied was due, or was notified, or was not asleep; and it
\* was not one that stays suspended.
LEMMA RousedIsOrderly ==
    ASSUME NEW kk, Sound(kk), NEW r, NEW t \in Task, Roused(kk, r, t),
           Sleeps(kk, t) => kk.tick = kk.wake[t] \/ r.notify[t] = "received"
    PROVE  /\ \A u \in Task : u # t => Orderly(kk, r, u)
           /\ InTime(kk, r, t)
           /\ ~Resting(kk, t) => Orderly(kk, r, t)
<1>1. ASSUME NEW u \in Task, u # t
      PROVE  Orderly(kk, r, u)
  <2>1. Stands(kk, r, u)
    BY <1>1 DEF Roused, Elsewhere, Stands
  <2> QED  BY <2>1, StandingIsOrderly DEF Orderly
<1>2. InTime(kk, r, t)
  BY DEF InTime
<1> QED  BY <1>1, <1>2 DEF Orderly, RestsOn

\* What follows such a step moves no task, and leaves wake times alone.
LEMMA OrderlyOn ==
    ASSUME NEW kk, NEW a, NEW r, NEW t \in Task, Stands(a, r, t)
    PROVE  /\ Orderly(kk, a, t) => Orderly(kk, r, t)
           /\ InTime(kk, a, t) => InTime(kk, r, t)
BY DEF Stands, Orderly, InTime, RestsOn, Resting

\* The steps that change the notification state of the running task.
LEMMA OwnMarksOrderly ==
    ASSUME IInv, TakeEnd \/ AwaitEnd \/ Take \/ Await
    PROVE  \A u \in Task : Orderly(k, k', u)
<1>1. Sound(k) /\ KernelInv(k, allocated) /\ Me \in Task
  BY StateFacts
<1>2. CASE k' = k
  BY <1>1, <1>2, StandingIsOrderly DEF Stands, Orderly
<1>3. ASSUME NEW v \in NotifyStates, k' = [k EXCEPT !.notify[Me] = v],
             v # "waiting" \/ IsReady(k, Me)
      PROVE  \A u \in Task : Orderly(k, k', u)
  <2>1. Marked(k, k', Me, v)
    BY <1>1, <1>3, KernelMarks
  <2> QED  BY <1>1, <1>3, <2>1, MarkIsOrderly
<1>4. "waiting" \in NotifyStates /\ "notWaiting" \in NotifyStates
  BY DEF NotifyStates
<1>5. CASE TakeEnd \/ AwaitEnd
  <2>1. k' = [k EXCEPT !.notify[Me] = "notWaiting"]
    BY <1>5 DEF TakeEnd, AwaitEnd
  <2> QED  BY <1>3, <1>4, <2>1
<1>6. CASE Take \/ Await
  <2>1. k' = k \/ k' = [k EXCEPT !.notify[Me] = "waiting"]
    BY <1>6 DEF Take, Await, WaitFor
  <2>2. PICK op \in CheckOps : Running(op)
    BY <1>6 DEF Take, Await, CheckOps
  <2>3. k.cpu = "task" /\ OpOf(todo[Me]) \in CheckOps
    BY <2>2, RunningFacts
  <2>4. IsReady(k, Me)
    BY <2>3, CheckingIsReady
  <2> QED  BY <1>2, <1>3, <1>4, <2>1, <2>4
<1> QED  BY <1>5, <1>6

\* The ticks wake the first sleeper, which is due by then: and no sleeper was
\* due before.
LEMMA UnblocksOrderly ==
    ASSUME IInv, TickUnblock \/ ReplayUnblock
    PROVE  \A u \in Task : Orderly(k, k', u)
<1> DEFINE t == Head(k.list[Delayed])
<1>1. Sound(k) /\ KernelInv(k, allocated)
  BY StateFacts
<1>2. /\ t \in Task /\ IsIn(k, t, Delayed) /\ k.wake[t] <= k.tick /\ Roused(k, k', t)
      /\ Ticking(k)
  BY TickUnblocks, ReplayUnblocks DEF Ticking, TickUnblock
<1> HIDE DEF t
<1>3. k.wake[t] >= k.tick
  BY <1>1, <1>2 DEF KernelInv, DueNowOrLater
<1>4. k.wake[t] \in Nat /\ k.tick \in Nat
  BY <1>1, <1>2, FieldTypes, TickFacts DEF Sound
<1>5. k.wake[t] = k.tick
  BY <1>2, <1>3, <1>4
<1>6. ~Resting(k, t)
  BY <1>1, <1>2, OnePlace DEF Resting, Sleeps
<1>7. /\ \A u \in Task : u # t => Orderly(k, k', u)
      /\ ~Resting(k, t) => Orderly(k, k', t)
  BY <1>1, <1>2, <1>5, RousedIsOrderly
<1> QED  BY <1>6, <1>7

\* A task in xPendingReadyList that still sleeps was notified.
LEMMA DrainOrderly ==
    ASSUME IInv, DrainPending
    PROVE  \A u \in Task : Orderly(k, k', u)
<1> DEFINE t == Head(k.event[PendingReady])
<1>1. Sound(k) /\ ParkedInv(k)
  BY StateFacts
<1>2. t \in Task /\ Parked(k, t) /\ Roused(k, k', t) /\ k'.notify = k.notify
  BY DrainReadies
<1> HIDE DEF t
<1>3. Sleeps(k, t) => k'.notify[t] = "received"
  BY <1>1, <1>2, OnePlace DEF ParkedInv
<1>4. ~Resting(k, t)
  BY <1>2 DEF Resting
<1>5. /\ \A u \in Task : u # t => Orderly(k, k', u)
      /\ ~Resting(k, t) => Orderly(k, k', t)
  BY <1>1, <1>2, <1>3, RousedIsOrderly
<1> QED  BY <1>4, <1>5

\* A task is left in xPendingReadyList.
LEMMA ParkingOrderly ==
    ASSUME NEW kk, Sound(kk), NEW r, NEW t \in Task, ParkedFrom(kk, r, t)
    PROVE  /\ \A u \in Task : u # t => Orderly(kk, r, u)
           /\ InTime(kk, r, t)
           /\ ~Resting(kk, t) => Orderly(kk, r, t)
<1>1. ASSUME NEW u \in Task, u # t
      PROVE  Orderly(kk, r, u)
  <2>1. Stands(kk, r, u)
    BY <1>1 DEF ParkedFrom, Stands
  <2> QED  BY <2>1, StandingIsOrderly DEF Orderly
<1>2. InTime(kk, r, t)
  BY OnePlace DEF InTime, ParkedFrom
<1> QED  BY <1>1, <1>2 DEF Orderly, RestsOn

\* The yield after a task was readied.
LEMMA YieldStands ==
    ASSUME NEW c, NEW handed, KernelInv(c, handed), NEW t
    PROVE  \A u \in Task : Stands(c, YieldIfHigher(c, t), u)
<1>1. \A u \in Task : Stands(c, c, u)
  BY DEF Stands
<1>2. \A u \in Task : Stands(c, vTaskSwitchContext(c), u)
  BY SwitchStands
<1> QED  BY <1>1, <1>2 DEF YieldIfHigher

\* A notification wakes the task that waits for it, or marks the task.
LEMMA NotifyOrderly ==
    ASSUME IInv, NEW t \in Task, NEW a \in App.actions, NEW v \in NotifyValues,
           xTaskGenericNotify(t, a, v) \/ xTaskGenericNotifyFromISR(t, a, v)
    PROVE  \A u \in Task : Orderly(k, k', u)
<1>1. Sound(k) /\ KernelInv(k, allocated) /\ t \in k.live
  BY StateFacts DEF xTaskGenericNotify, xTaskGenericNotifyFromISR, Handles
<1>2. CASE k.notify[t] # "waiting"
  <2>1. k' = [k EXCEPT !.notify[t] = "received"] /\ "received" \in NotifyStates
    BY <1>2 DEF xTaskGenericNotify, xTaskGenericNotifyFromISR, Received, NotifyStates
  <2>2. Marked(k, k', t, "received")
    BY <1>1, <2>1, KernelMarks
  <2> QED  BY <1>1, <2>2, MarkIsOrderly
<1>3. ASSUME k.notify[t] = "waiting"
      PROVE  ~Resting(k, t)
  BY <1>3 DEF Resting
<1>4. CASE k.notify[t] = "waiting" /\ xTaskGenericNotify(t, a, v)
  <2> DEFINE b == Received(t)
  <2> DEFINE c == MakeReady(b, t)
  <2>1. k' = YieldIfHigher(c, t)
    BY <1>4 DEF xTaskGenericNotify
  <2>2. /\ KernelInv(b, allocated) /\ Marked(k, b, t, "received")
        /\ KernelInv(c, allocated) /\ Roused(k, c, t)
    BY <1>1, <1>4, NotifiedIsRoused
  <2> HIDE DEF b
  <2>3. t \in b.live
    BY <1>1, <2>2 DEF Marked, SeenAlike
  <2>4. Woken(b, c, t)
    BY <2>2, <2>3, KernelMakesReady
  <2> HIDE DEF c
  <2>5. c.notify[t] = "received"
    BY <2>2, <2>4 DEF Marked, Woken, Keeps, KeepsTasks
  <2>6. \A u \in Task : Orderly(k, c, u)
    BY <1>1, <1>3, <1>4, <2>2, <2>5, RousedIsOrderly
  <2>7. \A u \in Task : Stands(c, k', u)
    BY <2>1, <2>2, YieldStands
  <2> QED  BY <2>6, <2>7, OrderlyOn
<1>5. CASE k.notify[t] = "waiting" /\ xTaskGenericNotifyFromISR(t, a, v)
  <2>1. /\ k'.notify[t] = "received" /\ (k.susp = 0 => Roused(k, k', t))
        /\ k.susp # 0 => ParkedFrom(k, k', t)
    BY <1>5, InterruptNotifies
  <2> QED  BY <1>1, <1>3, <1>5, <2>1, RousedIsOrderly, ParkingOrderly
<1> QED  BY <1>2, <1>4, <1>5

\* Resumed: the other tasks are left where they are.
LEMMA ResumeOrderly ==
    ASSUME IInv, NEW t \in Task, vTaskResume(t) \/ xTaskResumeFromISR(t)
    PROVE  /\ \A u \in Task : InTime(k, k', u)
           /\ \A u \in Task : u # t => RestsOn(k, k', u)
<1>1. Sound(k) /\ KernelInv(k, allocated)
  BY StateFacts
<1>2. ~Sleeps(k, t) /\ t \in k.live
  BY <1>1, OnePlace DEF vTaskResume, xTaskResumeFromISR, prvTaskIsTaskSuspended, Handles
<1>3. CASE vTaskResume(t)
  <2> DEFINE c == MakeReady(k, t)
  <2>1. k' = YieldIfHigher(c, t) /\ CallsRunning("vTaskResume")
    BY <1>3 DEF vTaskResume
  <2>2. KernelInv(c, allocated) /\ Woken(k, c, t) /\ c.event = k.event
    BY <1>1, <1>2, KernelMakesReady
  <2> HIDE DEF c
  <2>3. \A u \in Task : ~Parked(k, u)
    BY <2>1, CallFacts DEF CallsRunning
  <2>4. Roused(k, c, t)
    BY <2>2, <2>3, WokenIsRoused DEF Parked
  <2>5. /\ \A u \in Task : u # t => Orderly(k, c, u)
        /\ InTime(k, c, t)
    BY <1>1, <1>2, <2>4, RousedIsOrderly
  <2>6. \A u \in Task : Stands(c, k', u)
    BY <2>1, <2>2, YieldStands
  <2>7. /\ \A u \in Task : u # t => Orderly(k, k', u)
        /\ InTime(k, k', t)
    BY <2>5, <2>6, OrderlyOn
  <2> QED  BY <2>7 DEF Orderly
<1>4. CASE xTaskResumeFromISR(t)
  <2>1. /\ k.susp = 0 => Roused(k, k', t)
        /\ k.susp # 0 => ParkedFrom(k, k', t)
    BY <1>4, InterruptResumes
  <2>2. /\ \A u \in Task : u # t => Orderly(k, k', u)
        /\ InTime(k, k', t)
    BY <1>1, <1>2, <2>1, RousedIsOrderly, ParkingOrderly
  <2> QED  BY <2>2 DEF Orderly
<1> QED  BY <1>3, <1>4

\* The running task goes to sleep, or ends up in xSuspendedTaskList for good.
LEMMA AsleepOrderly ==
    ASSUME IInv, NEW n, NEW b, Asleeping(k, k', n, b), IsReady(k, Me)
    PROVE  \A u \in Task : Orderly(k, k', u)
<1>1. Sound(k) /\ Me \in Task /\ k.current = Me
  BY StateFacts DEF Me
<1>2. Elsewhere(k, k', Me) /\ k'.notify = k.notify /\ k'.event = k.event
  BY <1>1 DEF Asleeping, Keeps, KeepsTasks
<1>3. ASSUME NEW u \in Task, u # Me
      PROVE  Orderly(k, k', u)
  <2>1. Stands(k, k', u)
    BY <1>2, <1>3 DEF Stands, Elsewhere, Parked
  <2> QED  BY <1>1, <2>1, StandingIsOrderly DEF Orderly
<1>4. Orderly(k, k', Me)
  BY <1>1, OnePlace DEF Orderly, InTime, RestsOn, Resting
<1> QED  BY <1>3, <1>4

\* vTaskDelay, xTaskDelayUntil and a wait for a notification.
LEMMA SleepOrderly ==
    ASSUME IInv, Delay \/ Wait \/ DelayUntil
    PROVE  \A u \in Task : Orderly(k, k', u)
<1>1. Sound(k) /\ KernelInv(k, allocated) /\ Me \in Task /\ k.current = Me
  BY StateFacts DEF Me
<1>2. PICK op \in SleepOps : Running(op)
  BY DEF Delay, Wait, DelayUntil
<1>3. Item.n \in Tick /\ Item.n > 0 /\ IsReady(k, Me) /\ ~Ticking(k) /\ Me # Idle
  <2>1. Item.n \in Tick /\ Item.n > 0 /\ IsReady(k, Me)
    BY <1>2, SleepFacts
  <2> QED  BY <1>2, <2>1, RunningFacts
<1>4. ASSUME NEW n \in Tick, n > 0, NEW b \in BOOLEAN,
             k' = prvAddCurrentTaskToDelayedList(k, n, b)
      PROVE  \A u \in Task : Orderly(k, k', u)
  <2>1. Asleeping(k, k', n, b)
    BY <1>1, <1>3, <1>4, KernelSleeps
  <2> QED  BY <1>3, <2>1, AsleepOrderly
<1>5. CASE Delay \/ Wait
  <2>1. PICK b \in BOOLEAN : k' = prvAddCurrentTaskToDelayedList(k, Item.n, b)
    BY <1>5 DEF Delay, Wait
  <2> QED  BY <1>3, <1>4, <2>1
<1>6. CASE DelayUntil
  <2> DEFINE w == Later(previous[Me], Item.n)
  <2> DEFINE e == Elapsed(k.tick, w)
  <2>1. k' = IF ShouldDelay(previous[Me], k.tick, Item.n)
             THEN prvAddCurrentTaskToDelayedList(k, e, FALSE) ELSE k
    BY <1>6 DEF DelayUntil
  <2>2. previous[Me] \in Tick /\ k.tick \in Tick
    BY <1>1, FieldTypes DEF IInv, TypeOK, Sound
  <2>3. ShouldDelay(previous[Me], k.tick, Item.n) => e \in Tick /\ e > 0
    BY <1>3, <2>2, DelayUntilTicks
  <2>4. CASE k' = k
    BY <1>1, <2>4, StandingIsOrderly DEF Stands, Orderly
  <2> HIDE DEF e
  <2> QED  BY <1>4, <2>1, <2>3, <2>4
<1> QED  BY <1>5, <1>6

\* A new task was in no list.
LEMMA AddOrderly ==
    ASSUME IInv, AddNewTaskToReadyList
    PROVE  \A u \in Task : Orderly(k, k', u)
<1> DEFINE t == Item.task
<1>1. Sound(k)
  BY StateFacts
<1>2. t \in Task /\ t \notin k.live /\ Born(k, k', t, Item.n)
  BY AddBears
<1> HIDE DEF t
<1>3. ASSUME NEW u \in Task, u # t
      PROVE  Orderly(k, k', u)
  <2>1. Elsewhere(k, k', t) /\ k'.event = k.event /\ k'.notify[u] = k.notify[u]
    BY <1>1, <1>2, <1>3, FieldTypes DEF Born, Sound
  <2>2. Stands(k, k', u)
    BY <1>3, <2>1 DEF Stands, Elsewhere, Parked
  <2> QED  BY <1>1, <2>2, StandingIsOrderly DEF Orderly
<1>4. Orderly(k, k', t)
  <2>1. \A l \in StateLists : ~IsIn(k, t, l)
    BY <1>1, <1>2 DEF Sound, Listed
  <2> QED  BY <2>1, ListNames DEF Orderly, InTime, RestsOn, Resting, Sleeps
<1> QED  BY <1>3, <1>4

\* A deleted task is in no list any more.
LEMMA BuriedOrderly ==
    ASSUME NEW kk, Sound(kk), NEW r, NEW t \in Task, Buried(kk, r, t)
    PROVE  /\ \A u \in Task : InTime(kk, r, u)
           /\ \A u \in Task : u # t => RestsOn(kk, r, u)
<1>1. ASSUME NEW u \in Task, u # t
      PROVE  InTime(kk, r, u) /\ RestsOn(kk, r, u)
  <2>1. Stands(kk, r, u)
    BY <1>1 DEF Stands, Buried
  <2> QED  BY <2>1, StandingIsOrderly
<1>2. InTime(kk, r, t)
  BY DEF InTime, Buried
<1> QED  BY <1>1, <1>2

\* What the idle task cleans up was suspended nowhere.
LEMMA CleanUpOrderly ==
    ASSUME IInv, IdleCleanUp
    PROVE  \A u \in Task : Orderly(k, k', u)
<1> DEFINE t == Head(k.list[Terminated])
<1>1. Sound(k)
  BY StateFacts
<1>2. t \in Task /\ IsIn(k, t, Terminated) /\ Buried(k, k', t)
  BY CleanUpBuries
<1> HIDE DEF t
<1>3. RestsOn(k, k', t)
  BY <1>1, <1>2, OnePlace DEF RestsOn, Resting
<1> QED  BY <1>1, <1>2, <1>3, BuriedOrderly DEF Orderly

\* vTaskDelete.
LEMMA DeleteOrderly ==
    ASSUME IInv, NEW t \in Task, vTaskDelete(t)
    PROVE  /\ \A u \in Task : InTime(k, k', u)
           /\ \A u \in Task : u # t => RestsOn(k, k', u)
<1>1. Sound(k) /\ KernelInv(k, allocated) /\ k.live \subseteq Task
  BY StateFacts
<1>2. CASE t # Me
  <2>1. Buried(k, k', t)
    BY <1>2, DeleteBuries
  <2> QED  BY <1>1, <2>1, BuriedOrderly
<1>3. CASE t = Me
  <2>1. /\ CallsRunning("vTaskDelete") /\ t \in k.live /\ t # Idle
        /\ k' = AppendState(RemoveEvent(RemoveState(k, t), t), Terminated, t)
    BY <1>3 DEF vTaskDelete, Handles
  <2>2. ~Ticking(k)
    BY <2>1, CallFacts DEF CallsRunning
  <2>3. /\ SameRest(k, k') /\ Elsewhere(k, k', t) /\ ~IsReady(k', t)
        /\ \A u \in Task : Parked(k', u) <=> u # t /\ Parked(k, u)
    BY <1>1, <2>1, <2>2, KernelShelves
  <2>4. k'.notify = k.notify
    BY <2>3 DEF SameRest, Keeps, KeepsTasks
  <2>5. ASSUME NEW u \in Task, u # t
        PROVE  InTime(k, k', u) /\ RestsOn(k, k', u)
    <3>1. Stands(k, k', u)
      BY <2>3, <2>4, <2>5 DEF Stands, Elsewhere
    <3> QED  BY <1>1, <3>1, StandingIsOrderly
  <2>6. InTime(k, k', t)
    BY <2>3 DEF InTime
  <2> QED  BY <2>5, <2>6
<1> QED  BY <1>2, <1>3

\* vTaskSuspend: the task is suspended, and the others are where they were.
LEMMA SuspendOrderly ==
    ASSUME IInv, NEW t \in Task, vTaskSuspend(t)
    PROVE  Resting(k', t) /\ \A u \in Task : Orderly(k, k', u)
<1>1. Sound(k) /\ KernelInv(k, allocated)
  BY StateFacts
<1>2. CallsRunning("vTaskSuspend") /\ t \in k.live /\ t # Idle /\ k' = SuspendTask(t)
  BY DEF vTaskSuspend, Handles
<1>3. ~Ticking(k)
  BY <1>2, CallFacts DEF CallsRunning
<1>4. Stopped(k, k', t)
  BY <1>2, <1>3, KernelStops
<1>5. Resting(k', t)
  BY <1>4, ListNames DEF Stopped, Goes, Resting
<1>6. Orderly(k, k', t)
  BY <1>4, <1>5 DEF Orderly, InTime, RestsOn, Stopped
<1>7. ASSUME NEW u \in Task, u # t
      PROVE  Orderly(k, k', u)
  <2>1. Stands(k, k', u)
    BY <1>4, <1>7 DEF Stands, Stopped, Elsewhere
  <2> QED  BY <1>1, <2>1, StandingIsOrderly DEF Orderly
<1> QED  BY <1>5, <1>6, <1>7

\* vTaskPrioritySet moves a task from one ready list to another at most.
LEMMA PrioritySetStands ==
    ASSUME IInv, NEW t \in Task, NEW p \in Priority, vTaskPrioritySet(t, p)
    PROVE  \A u \in Task : Stands(k, k', u)
<1> DEFINE c == [ChangePriority(k, t, p, EventValue(p)) EXCEPT !.base[t] = p]
<1>1. KernelInv(k, allocated) /\ k.base = k.prio
  BY StateFacts DEF KernelInv
<1>2. /\ CallsRunning("vTaskPrioritySet") /\ t \in k.live /\ t # Idle
      /\ k' \in {c, vTaskSwitchContext(c)}
  BY <1>1 DEF vTaskPrioritySet, Handles
<1>3. ~Ticking(k)
  BY <1>2, CallFacts DEF CallsRunning
<1>4. EventValue(p) \in Nat
  BY KernelAssumption DEF EventValue, Priority
<1>5. KernelInv(c, allocated) /\ Ranked(k, c, t, p)
  BY <1>1, <1>2, <1>3, <1>4, KernelRanks
<1> HIDE DEF c
<1>6. \A u \in Task : Stands(k, c, u)
  BY <1>5 DEF Ranked, Stands, Parked
<1>7. \A u \in Task : Stands(c, vTaskSwitchContext(c), u)
  BY <1>5, SwitchStands
<1> QED  BY <1>2, <1>6, <1>7, StandsOn

\* xTaskNotifyStateClear.
LEMMA StateClearOrderly ==
    ASSUME IInv, NEW t \in Task, xTaskGenericNotifyStateClear(t)
    PROVE  \A u \in Task : Orderly(k, k', u)
<1>1. Sound(k) /\ KernelInv(k, allocated)
  BY StateFacts
<1>2. k' = [k EXCEPT !.notify[t] = "notWaiting"] /\ "notWaiting" \in NotifyStates
  BY DEF xTaskGenericNotifyStateClear, NotifyStates
<1>3. Marked(k, k', t, "notWaiting")
  BY <1>1, <1>2, KernelMarks
<1> QED  BY <1>1, <1>3, MarkIsOrderly

\* Every step: who wakes does so in time, and who is suspended stays so unless
\* it is resumed or deleted.
LEMMA StepIsOrderly ==
    ASSUME IInv, Step
    PROVE  \A u \in Task : Orderly(k, k', u)
<1>1. Sound(k)
  BY StateFacts
<1>2. ASSUME \A u \in Task : Stands(k, k', u)
      PROVE  \A u \in Task : Orderly(k, k', u)
  BY <1>1, <1>2, StandingIsOrderly DEF Orderly
<1>3. CASE TickLoop
  <2>1. CASE TickUnblock
    BY <2>1, UnblocksOrderly
  <2>2. CASE TickEnd
    BY <1>2, <2>2, TicksStand
  <2> QED  BY <1>3, <2>1, <2>2 DEF TickLoop
<1>4. CASE ResumeAllLoop
  <2>1. CASE DrainPending
    BY <2>1, DrainOrderly
  <2>2. CASE ReplayUnblock
    BY <2>2, UnblocksOrderly
  <2>3. CASE ReplayTick \/ ReplayTickEnd
    BY <1>2, <2>3, TicksStand
  <2>4. CASE DrainEnd \/ ResumeAllEnd
    BY <1>2, <2>4, SwitchesStand
  <2> QED  BY <1>4, <2>1, <2>2, <2>3, <2>4 DEF ResumeAllLoop
<1>5. CASE Continuation
  <2>1. CASE ResumeAll \/ CatchUp \/ AllocTCB \/ Free \/ FreeTCB \/ IdleLoop
    BY <1>2, <2>1, FieldSteps, SameFieldsStand
  <2>2. CASE Yield \/ UnblockTime \/ YieldToNewTask \/ IdleYield
    BY <1>2, <2>2, SwitchesStand
  <2>3. CASE Delay \/ Wait \/ DelayUntil
    BY <2>3, SleepOrderly
  <2>4. CASE Take \/ TakeEnd \/ Await \/ AwaitEnd
    BY <2>4, OwnMarksOrderly
  <2>5. CASE AddNewTaskToReadyList
    BY <2>5, AddOrderly
  <2>6. CASE IdleCleanUp
    BY <2>6, CleanUpOrderly
  <2> QED  BY <1>5, <2>1, <2>2, <2>3, <2>4, <2>5, <2>6 DEF Continuation
<1> QED  BY <1>3, <1>4, <1>5 DEF Step

\* And so does every call.
LEMMA CallIsOrderly ==
    ASSUME IInv, Call
    PROVE  /\ \A u \in Task : InTime(k, k', u)
           /\ \A u \in Task : RestsOn(k, k', u) \/ vTaskResume(u) \/ vTaskDelete(u)
<1>1. Sound(k)
  BY StateFacts
<1>2. ASSUME \A u \in Task : Stands(k, k', u)
      PROVE  \A u \in Task : InTime(k, k', u) /\ RestsOn(k, k', u)
  BY <1>1, <1>2, StandingIsOrderly
<1>3. ASSUME SameFields(k, k')
      PROVE  \A u \in Task : InTime(k, k', u) /\ RestsOn(k, k', u)
  BY <1>2, <1>3, SameFieldsStand
<1>4. CASE vTaskSuspendAll \/ xTaskResumeAll \/ xTaskGetTickCount
  BY <1>3, <1>4, FieldSteps
<1>5. ASSUME NEW n \in App.ticks[Me],
             \/ vTaskDelay(n) \/ xTaskDelayUntil(n) \/ xTaskCatchUpTicks(n)
             \/ \E b \in App.clears :
                   \/ ulTaskGenericNotifyTake(b, n)
                   \/ \E c \in App.clears : xTaskGenericNotifyWait(b, c, n)
      PROVE  \A u \in Task : InTime(k, k', u) /\ RestsOn(k, k', u)
  <2>1. CASE vTaskDelay(n)
    BY <1>2, <2>1, SwitchesStand
  <2>2. CASE xTaskDelayUntil(n) \/ xTaskCatchUpTicks(n)
    BY <1>3, <2>2, FieldSteps
  <2>3. CASE \E b \in App.clears : ulTaskGenericNotifyTake(b, n)
    BY <1>3, <2>3, FieldSteps
  <2>4. CASE \E b \in App.clears, c \in App.clears : xTaskGenericNotifyWait(b, c, n)
    BY <1>3, <2>4, FieldSteps
  <2> QED  BY <1>5, <2>1, <2>2, <2>3, <2>4
<1>6. ASSUME NEW p \in Priority, xTaskCreate(p)
      PROVE  \A u \in Task : InTime(k, k', u) /\ RestsOn(k, k', u)
  BY <1>3, <1>6, FieldSteps
<1>7. ASSUME NEW t \in Task,
             \/ vTaskSuspend(t) \/ vTaskResume(t) \/ vTaskDelete(t)
             \/ \E p \in Priority : vTaskPrioritySet(t, p)
             \/ xTaskGenericNotifyStateClear(t) \/ ulTaskGenericNotifyValueClear(t)
             \/ \E a \in App.actions, v \in NotifyValues : xTaskGenericNotify(t, a, v)
      PROVE  /\ \A u \in Task : InTime(k, k', u)
             /\ \A u \in Task : RestsOn(k, k', u) \/ vTaskResume(u) \/ vTaskDelete(u)
  <2>1. CASE vTaskSuspend(t)
    BY <2>1, SuspendOrderly DEF Orderly
  <2>2. CASE vTaskResume(t)
    BY <2>2, ResumeOrderly
  <2>3. CASE vTaskDelete(t)
    BY <2>3, DeleteOrderly
  <2>4. CASE \E p \in Priority : vTaskPrioritySet(t, p)
    BY <1>2, <2>4, PrioritySetStands
  <2>5. CASE xTaskGenericNotifyStateClear(t)
    BY <2>5, StateClearOrderly DEF Orderly
  <2>6. CASE ulTaskGenericNotifyValueClear(t)
    BY <1>3, <2>6, FieldSteps
  <2>7. CASE \E a \in App.actions, v \in NotifyValues : xTaskGenericNotify(t, a, v)
    BY <2>7, NotifyOrderly DEF Orderly
  <2> QED  BY <1>7, <2>1, <2>2, <2>3, <2>4, <2>5, <2>6, <2>7
<1> QED  BY <1>4, <1>5, <1>6, <1>7 DEF Call

\* And every step of all.
LEMMA NextIsOrderly ==
    ASSUME IInv, [Next]_vars
    PROVE  /\ \A u \in Task : InTime(k, k', u)
           /\ \A u \in Task : \/ RestsOn(k, k', u)
                              \/ vTaskResume(u) \/ xTaskResumeFromISR(u) \/ vTaskDelete(u)
<1>1. Sound(k)
  BY StateFacts
<1>2. CASE UNCHANGED vars
  <2>1. \A u \in Task : Stands(k, k', u)
    BY <1>2 DEF vars, Stands
  <2> QED  BY <1>1, <2>1, StandingIsOrderly
<1>3. CASE TickInterrupt
  BY <1>1, <1>3, TicksStand, StandingIsOrderly
<1>4. CASE Step
  BY <1>4, StepIsOrderly DEF Orderly
<1>5. CASE Call
  BY <1>5, CallIsOrderly
<1>6. CASE Interrupt
  <2>1. ASSUME NEW t \in Task, xTaskResumeFromISR(t)
        PROVE  /\ \A u \in Task : InTime(k, k', u)
               /\ \A u \in Task : RestsOn(k, k', u) \/ xTaskResumeFromISR(u)
    BY <2>1, ResumeOrderly
  <2>2. ASSUME NEW t \in Task, NEW a \in App.actions, NEW v \in NotifyValues,
               xTaskGenericNotifyFromISR(t, a, v)
        PROVE  \A u \in Task : Orderly(k, k', u)
    BY <2>2, NotifyOrderly
  <2> QED  BY <1>6, <2>1, <2>2 DEF Interrupt, Orderly
<1> QED  BY <1>2, <1>3, <1>4, <1>5, <1>6 DEF Next

\* The kernel's test for suspended tasks, in a state the invariant describes.
LEMMA TestMeansResting ==
    ASSUME NEW kk, NEW handed, KernelInv(kk, handed), NEW t \in Task
    PROVE  Resting(kk, t) <=> /\ IsIn(kk, t, Suspended) /\ ~Waits(kk, t)
                              /\ kk.notify[t] # "waiting"
BY DEF KernelInv, Waits, Parked, EventLists, Resting

\* A suspended task stays suspended until it is resumed or deleted.
LEMMA StepsKeepSuspended ==
    ASSUME IInv, IInv', [Next]_vars
    PROVE  \A t \in Task :
               /\ vTaskSuspend(t) => prvTaskIsTaskSuspended(t)'
               /\ prvTaskIsTaskSuspended(t)
                     => \/ prvTaskIsTaskSuspended(t)'
                        \/ vTaskResume(t) \/ xTaskResumeFromISR(t) \/ vTaskDelete(t)
<1>1. KernelInv(k, allocated) /\ KernelInv(k', allocated')
  BY DEF IInv
<1> SUFFICES ASSUME NEW t \in Task
             PROVE  /\ vTaskSuspend(t) => prvTaskIsTaskSuspended(t)'
                    /\ prvTaskIsTaskSuspended(t)
                          => \/ prvTaskIsTaskSuspended(t)'
                             \/ vTaskResume(t) \/ xTaskResumeFromISR(t) \/ vTaskDelete(t)
  OBVIOUS
<1>2. /\ prvTaskIsTaskSuspended(t) <=> Resting(k, t)
      /\ prvTaskIsTaskSuspended(t)' <=> Resting(k', t)
  BY <1>1, TestMeansResting DEF prvTaskIsTaskSuspended
<1>3. vTaskSuspend(t) => Resting(k', t)
  BY SuspendOrderly
<1>4. Resting(k, t) => \/ Resting(k', t)
                       \/ vTaskResume(t) \/ xTaskResumeFromISR(t) \/ vTaskDelete(t)
  BY NextIsOrderly DEF RestsOn
<1> QED  BY <1>2, <1>3, <1>4

\* A task wakes at the very tick it asked for.
LEMMA StepsWakeOnTime ==
    ASSUME IInv, [Next]_vars
    PROVE  \A t \in Task :
               Asleep(t) /\ ReadyToRun(t)' /\ k'.notify[t] # "received" => k.tick = k.wake[t]
<1> SUFFICES ASSUME NEW t \in Task, Asleep(t), ReadyToRun(t)', k'.notify[t] # "received"
             PROVE  k.tick = k.wake[t]
  OBVIOUS
<1>1. Sleeps(k, t) /\ IsReady(k', t)
  BY DEF Asleep, ReadyToRun, Sleeps, IsReady
<1> QED  BY <1>1, NextIsOrderly DEF InTime

\* A periodic task sleeps if it is early, and then until its next time.
LEMMA PeriodStep ==
    ASSUME IInv, DelayUntil
    PROVE  \A t \in Task : t = Me =>
               /\ Asleep(t)' <=> Elapsed(previous[t], k.tick) < Item.n
               /\ Asleep(t)' => k'.wake[t] = previous'[t]
<1> DEFINE last == previous[Me]
<1> DEFINE n == Item.n
<1> DEFINE w == Later(last, n)
<1> DEFINE e == Elapsed(k.tick, w)
<1>1. /\ Running("delayUntil") /\ previous' = [previous EXCEPT ![Me] = w]
      /\ k' = IF ShouldDelay(last, k.tick, n) THEN prvAddCurrentTaskToDelayedList(k, e, FALSE) ELSE k
  BY DEF DelayUntil
<1>2. Sound(k) /\ KernelInv(k, allocated) /\ Me \in Task /\ k.current = Me
  BY StateFacts DEF Me
<1>3. n \in Tick /\ n > 0 /\ IsReady(k, Me)
  BY <1>1, SleepFacts
<1>4. last \in Tick /\ k.tick \in Tick /\ previous'[Me] = w
  BY <1>1, <1>2, FieldTypes DEF IInv, TypeOK, Sound
<1>5. ~Ticking(k) /\ Me # Idle
  BY <1>1, RunningFacts
<1>6. /\ w \in Tick /\ (ShouldDelay(last, k.tick, n) <=> Elapsed(last, k.tick) < n)
      /\ ShouldDelay(last, k.tick, n) => e \in Tick /\ e > 0 /\ Later(k.tick, e) = w
  BY <1>3, <1>4, DelayUntilTicks
<1> SUFFICES ASSUME NEW t \in Task, t = Me
             PROVE  /\ Asleep(t)' <=> Elapsed(previous[t], k.tick) < Item.n
                    /\ Asleep(t)' => k'.wake[t] = previous'[t]
  OBVIOUS
<1>7. Asleep(t)' <=> Sleeps(k', Me)
  BY DEF Asleep, Sleeps
<1> HIDE DEF w, e, n, last
<1>8. CASE ShouldDelay(last, k.tick, n)
  <2>1. Asleeping(k, k', e, FALSE)
    BY <1>1, <1>2, <1>5, <1>6, <1>8, KernelSleeps
  <2>2. SleepList(k, e, FALSE) \in {Delayed, OverflowDelayed}
    BY DEF SleepList
  <2>3. Sleeps(k', Me) /\ k'.wake[Me] = w
    BY <1>2, <1>6, <1>8, <2>1, <2>2, ListNames DEF Asleeping, Goes, Sleeps
  <2> QED  BY <1>4, <1>6, <1>7, <1>8, <2>3 DEF last, n
<1>9. CASE ~ShouldDelay(last, k.tick, n)
  <2>1. ~Sleeps(k', Me)
    BY <1>1, <1>2, <1>3, <1>9, OnePlace
  <2> QED  BY <1>6, <1>7, <1>9, <2>1 DEF last, n
<1> QED  BY <1>8, <1>9

\* Whatever calls are made and whenever interrupts come, a task that was
\* suspended stays so until it is resumed or deleted.
THEOREM SuspendedStaySo == Spec => SuspendedUntilResumed
<1>1. IInv /\ IInv' /\ [Next]_vars =>
        [\A t \in Task :
            /\ vTaskSuspend(t) => prvTaskIsTaskSuspended(t)'
            /\ prvTaskIsTaskSuspended(t)
                  => \/ prvTaskIsTaskSuspended(t)'
                     \/ vTaskResume(t) \/ xTaskResumeFromISR(t) \/ vTaskDelete(t)]_vars
  BY StepsKeepSuspended
<1> QED  BY <1>1, InvariantHolds, PTL DEF Spec, SuspendedUntilResumed

\* For any width of the tick count, a delay ends at the very tick it was for,
\* and a task that is periodic keeps its period.
THEOREM DelaysStayExact == Spec => DelaysAreExact
<1>1. IInv /\ [Next]_vars =>
        [\A t \in Task :
            Asleep(t) /\ ReadyToRun(t)' /\ k'.notify[t] # "received" => k.tick = k.wake[t]]_vars
  BY StepsWakeOnTime
<1>2. IInv /\ [Next]_vars =>
        [DelayUntil => \A t \in Task : t = Me =>
            /\ Asleep(t)' <=> Elapsed(previous[t], k.tick) < Item.n
            /\ Asleep(t)' => k'.wake[t] = previous'[t]]_vars
  BY PeriodStep
<1> QED  BY <1>1, <1>2, InvariantHolds, PTL DEF Spec, DelaysAreExact, WakesOnTime, PeriodIsKept

=============================================================================
