------------------------------ MODULE MCQueues ------------------------------
(* Small applications for queues, semaphores and mutexes: each uses one of   *)
(* the five below; "pair" is a queue of two.                                 *)
EXTENDS Queues

CONSTANTS idle, a, b, c

TwoTasks == {idle, a, b}
ThreeTasks == {idle, a, b, c}

\* The operator | of C.
LOCAL INSTANCE Bitwise
BitwiseOr(v, w) == v | w
EachKind == [q \in Queue |-> IF q = "pair" THEN "queue" ELSE q]
EachLength == [q \in Queue |-> IF q = "pair" THEN 2 ELSE 1]
OnlyMutexes == [q \in Queue |-> IF q \in {"mutex", "recursive"} THEN 1 ELSE 0]

\* Ready lists: those of priority 0, 1 and so on.
Lists(lists) == [p \in Priority |-> IF p + 1 \in DOMAIN lists THEN lists[p + 1] ELSE <<>>]
Equals == Lists(<< <<idle>>, <<b, a>> >>)
OnlyOne == Lists(<< <<idle>>, <<a>> >>)
Ranked == Lists(<< <<idle>>, <<b>>, <<a>> >>)
TwoLow == Lists(<< <<idle>>, <<c, b>>, <<a>> >>)
TwoHigh == Lists(<< <<idle>>, <<a>>, <<c, b>> >>)
AllRanked == Lists(<< <<idle>>, <<c>>, <<b>>, <<a>> >>)

\* Every task of the application makes the same calls; the idle task makes none.
Everyone(functions) == [t \in Task |-> IF t = idle THEN {} ELSE functions]

\* Those task a makes, and those of the others.
Roles(first, others) == [Everyone(others) EXCEPT ![a] = first]

Application(queues, api, isr, ticks, ready, maxPended) ==
    [queues |-> queues, api |-> api, isr |-> isr, ticks |-> [t \in Task |-> ticks],
     clears |-> {}, actions |-> {}, ready |-> ready, maxPended |-> maxPended]

\* Tasks and interrupts pass items and signals; one task sends and another
\* receives, with waits that end, while an interrupt receives too.
PassApplications == [
    pass |-> Application({"queue"}, Roles({"xQueueSend", "xQueueReset"}, {"xQueueReceive"}),
                         {"xQueueSendFromISR"}, {1}, Equals, 1),
    peek |-> Application({"queue"}, Roles({"xQueueOverwrite", "xQueueReceive"},
                                          {"xQueuePeek", "xQueueReceive"}),
                         {}, {0, 2}, Equals, 1),
    signal |-> Application({"semaphore"}, Everyone({"xQueueSend", "xQueueSemaphoreTake"}),
                           {"xQueueGiveFromISR"}, {2}, Equals, 0),
    timed |-> Application({"queue"}, Roles({"xQueueReceive"}, {"xQueueSend"}),
                          {"xQueueReceiveFromISR"}, {1}, Equals, 1)]

\* Three priorities contend for a mutex: c takes and gives it, b waits for it
\* as long as it takes, a for one tick; when they get it they keep it.  Two
\* tasks share a mutex, and two nest a recursive one.
MutexApplications == [
    contend |-> [Application({"mutex"}, [Everyone({"xQueueSemaphoreTake", "vTaskDelay"})
                                         EXCEPT ![c] = {"xQueueSemaphoreTake", "xQueueSend"}],
                             {}, {2}, AllRanked, 0)
                 EXCEPT !.ticks[a] = {1}],
    share |-> Application({"mutex"}, Everyone({"xQueueSemaphoreTake", "xQueueSend", "vTaskDelay"}),
                          {}, {1}, Ranked, 0),
    nest |-> Application({"recursive"}, Everyone({"xQueueTakeMutexRecursive", "vTaskDelay"}),
                         {}, {0, 1}, Ranked, 1)]

\* The one task of high priority delays, then contends.
SwitchApplications == [
    switch |-> Application({"mutex"},
                           Roles({"xQueueSemaphoreTake", "xQueueSend", "vTaskDelay"},
                                 {"xQueueSemaphoreTake", "xQueueSend"}),
                           {}, {1, 2}, TwoLow, 0)]

\* b and c wait; a, of lower priority, changes their priorities.
OrderApplications == [
    order |-> Application({"queue"}, Roles({"vTaskPrioritySet"}, {"xQueueReceive"}),
                          {}, {2}, TwoHigh, 0)]

\* b and c fill a queue of two and wait for room; a, of lower priority, resets it.
ResetApplications == [
    reset |-> Application({"pair"}, Roles({"xQueueReset"}, {"xQueueSend"}), {}, {2}, TwoHigh, 0)]

\* Two receivers and a queue of two: interrupts send and receive over and over
\* while it is locked.
StormApplications == [
    storm |-> Application({"pair"}, Everyone({"xQueueReceive"}),
                          {"xQueueSendFromISR", "xQueueReceiveFromISR"}, {2}, Ranked, 0)]

SafeApplications == PassApplications @@ MutexApplications @@ StormApplications

\* For liveness.
LiveApplications == [
    serve |-> Application({"queue"}, Everyone({"xQueueSend", "xQueueReceive"}), {}, {2}, Ranked, 0),
    sleep |-> Application({}, Everyone({"vTaskDelay"}), {}, {0, 1, 2}, Equals, 1),
    delete |-> Application({}, Everyone({"xTaskCreate", "vTaskDelete"}), {}, {1}, OnlyOne, 0)]

=============================================================================
