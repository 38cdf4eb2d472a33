------------------------------ MODULE MCTasks ------------------------------
(***************************************************************************)
(* Small applications for the task API: the idle task and two tasks over   *)
(* one or two priorities.  The tick count has a few values, so that every  *)
(* run crosses its wrap many times.                                        *)
(***************************************************************************)
EXTENDS Tasks

CONSTANTS idle, a, b

TwoTasks == {idle, a, b}
NoWaitLists == {}

\* The operator | of C.
LOCAL INSTANCE Bitwise
BitwiseOr(v, w) == v | w

\* Ready lists: one task at each priority from 0 up, or two at one.
Lists(lists) == [p \in Priority |-> IF p + 1 \in DOMAIN lists THEN lists[p + 1] ELSE <<>>]
Equals == Lists(<< <<idle>>, <<a, b>> >>)
Ranked == Lists(<< <<idle>>, <<b>>, <<a>> >>)
OnlyOne == Lists(<< <<idle>>, <<a>> >>)

\* Every task of the application makes the same calls; the idle task makes none.
Application(functions, isr, ticks, ready, maxPended) ==
    [api |-> [t \in Task |-> IF t = idle THEN {} ELSE functions],
     isr |-> isr, ticks |-> [t \in Task |-> ticks], clears |-> {FALSE}, actions |-> {},
     ready |-> ready, maxPended |-> maxPended]

\* Tasks that sleep, and nest vTaskSuspendAll; tasks that keep a period.
TimeApplications == [
    sleep |-> Application({"vTaskDelay", "vTaskSuspendAll"}, {}, {0, 1, 3}, Equals, 2),
    period |-> Application({"xTaskDelayUntil", "xTaskCatchUpTicks"}, {}, {0, 1, 3}, Ranked, 2)]

\* Tasks that change each other's state: suspend and reprioritise, suspend
\* one that waits for a notification, create and delete.
StateApplications == [
    suspend |-> Application({"vTaskSuspend", "vTaskResume", "vTaskPrioritySet", "vTaskDelay"},
                            {}, {1}, Ranked, 1),
    stay |-> [Application({"vTaskSuspend", "vTaskResume", "ulTaskNotifyTake", "xTaskNotify"},
                          {"xTaskResumeFromISR", "xTaskNotifyFromISR"}, {MaxDelay}, Equals, 1)
              EXCEPT !.actions = {"eIncrement"}],
    life |-> Application({"xTaskCreate", "vTaskDelete", "vTaskDelay"}, {}, {1}, OnlyOne, 0)]

\* Tasks that wait for a count; tasks that wait for a value and notify.
NotifyApplications == [
    take |-> [Application({"ulTaskNotifyTake"}, {"xTaskNotifyFromISR"}, {0, 1, MaxDelay}, Equals, 1)
              EXCEPT !.actions = {"eIncrement"}],
    await |-> [Application({"xTaskNotify", "xTaskNotifyWait", "xTaskNotifyStateClear",
                            "ulTaskNotifyValueClear"},
                           {"xTaskNotifyFromISR"}, {MaxDelay}, Equals, 0)
               EXCEPT !.clears = BOOLEAN,
                      !.actions = {"eNoAction", "eSetBits", "eSetValueWithOverwrite",
                                   "eSetValueWithoutOverwrite"}]]

AllApplications == TimeApplications @@ StateApplications @@ NotifyApplications

=============================================================================
