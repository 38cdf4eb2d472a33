--------------------------- MODULE MCEventGroups ---------------------------
(***************************************************************************)
(* Small applications for event groups: one group, two or three bits, two  *)
(* or three tasks beside the idle task.                                    *)
(***************************************************************************)
EXTENDS EventGroups

CONSTANTS idle, a, b, c

TwoTasks == {idle, a, b}
ThreeTasks == {idle, a, b, c}

\* The operator | of C.
LOCAL INSTANCE Bitwise
BitwiseOr(v, w) == v | w

\* Ready lists: those of priority 0, 1 and so on.
Lists(lists) == [p \in Priority |-> IF p + 1 \in DOMAIN lists THEN lists[p + 1] ELSE <<>>]
Equals == Lists(<< <<idle>>, <<b, a>> >>)
AllEqual == Lists(<< <<idle>>, <<c, b, a>> >>)
Above == Lists(<< <<idle>>, <<b>>, <<a>> >>)
Ranked == Lists(<< <<idle>>, <<c>>, <<b>>, <<a>> >>)
TwoHigh == Lists(<< <<idle>>, <<a>>, <<c, b>> >>)

Nobody == [t \in Task |-> {}]

AnyOf(bits) == [sync |-> FALSE, set |-> {}, bits |-> bits, clear |-> FALSE, all |-> FALSE]
AllOf(bits) == [AnyOf(bits) EXCEPT !.all = TRUE]
Clearing(request) == [request EXCEPT !.clear = TRUE]
Sync(own, bits) == [sync |-> TRUE, set |-> own, bits |-> bits, clear |-> TRUE, all |-> TRUE]

Application(api, isr, ticks, requests, masks, ready, maxPended) ==
    [api |-> api, isr |-> isr, ticks |-> [t \in Task |-> ticks], requests |-> requests,
     masks |-> masks, clears |-> {}, actions |-> {}, ready |-> ready, maxPended |-> maxPended]

\* Task a sets bits; b and c wait, for both bits and for either, and clear
\* what they got.
WaitApplications == [
    share |-> Application([Nobody EXCEPT ![a] = {"xEventGroupSetBits", "xEventGroupClearBits"},
                                         ![b] = {"xEventGroupWaitBits"},
                                         ![c] = {"xEventGroupWaitBits"}],
                          {}, {1}, [Nobody EXCEPT ![b] = {Clearing(AllOf({1, 2}))},
                                                  ![c] = {Clearing(AnyOf({1, 2})), AnyOf({2})}],
                          [Nobody EXCEPT ![a] = {{1}, {2}}], TwoHigh, 0),
    stop |-> Application([Nobody EXCEPT ![a] = {"xEventGroupSetBits", "vTaskSuspend"},
                                        ![b] = {"xEventGroupWaitBits"}],
                         {"xTaskResumeFromISR"}, {0, 2},
                         [Nobody EXCEPT ![b] = {Clearing(AnyOf({1, 2}))}],
                         [Nobody EXCEPT ![a] = {{1}}], Equals, 0),
    delete |-> Application([Nobody EXCEPT ![a] = {"xEventGroupSetBits", "vEventGroupDelete",
                                                  "xEventGroupCreate", "vTaskDelay"},
                                          ![b] = {"xEventGroupWaitBits", "xEventGroupSync"}],
                           {}, {1}, [Nobody EXCEPT ![b] = {AllOf({1, 2}), Sync({1}, {1, 2})}],
                           [Nobody EXCEPT ![a] = {{2}}], Above, 0),
    sync |-> Application([Nobody EXCEPT ![a] = {"xEventGroupSync"},
                                        ![b] = {"xEventGroupSync"}],
                         {}, {0, 1}, [Nobody EXCEPT ![a] = {Sync({1}, {1, 2})}, ![b] = {Sync({2}, {1, 2})}],
                         Nobody, Equals, 1)]

\* Tasks meet again and again, however long it takes.
Meet(t) == {Sync({IF t = a THEN 1 ELSE IF t = b THEN 2 ELSE 3}, EventBit)}
Meeting3(ready) ==
    Application([t \in Task |-> IF t = idle THEN {} ELSE {"xEventGroupSync"}], {}, {MaxDelay},
                [t \in Task |-> IF t = idle THEN {} ELSE Meet(t)], Nobody, ready, 1)

MeetApplications == [equal |-> Meeting3(AllEqual), ranked |-> Meeting3(Ranked),
                     mixed |-> Meeting3(TwoHigh)]

AllApplications == WaitApplications @@ MeetApplications

\* Nobody sets a bit: b waits, and a deletes the group (for DeletedGroupIsNotRead).
DeleteApplications == [
    delete |-> Application([Nobody EXCEPT ![a] = {"vEventGroupDelete", "vTaskDelay"},
                                          ![b] = {"xEventGroupWaitBits"}],
                           {}, {1}, [Nobody EXCEPT ![b] = {AllOf({1, 2})}], Nobody, Ranked, 0)]

=============================================================================
