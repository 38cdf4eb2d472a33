----------------------------- MODULE Rendezvous -----------------------------
(***************************************************************************)
(* What xEventGroupSync promises to a party of tasks that each set a bit   *)
(* of their own and wait for the bits of all (event_groups.h): a barrier   *)
(* that is used again and again.                                           *)
(***************************************************************************)
CONSTANT Party      \* the tasks that meet

VARIABLES
    arrived,    \* the tasks that wait for the others
    leaving     \* the tasks that may go on

vars == <<arrived, leaving>>

TypeOK == arrived \subseteq Party /\ leaving \subseteq Party

Init == arrived = {} /\ leaving = {}

\* The last task to arrive lets all of them go.
Arrive(t) ==
    /\ t \notin arrived \cup leaving
    /\ \/ /\ arrived \cup {t} = Party
          /\ arrived' = {}
          /\ leaving' = Party
       \/ /\ arrived \cup {t} # Party
          /\ arrived' = arrived \cup {t}
          /\ leaving' = leaving

Leave(t) ==
    /\ t \in leaving
    /\ leaving' = leaving \ {t}
    /\ arrived' = arrived

Next == \E t \in Party : Arrive(t) \/ Leave(t)

Spec == Init /\ [][Next]_vars

=============================================================================
