---------------------------- MODULE AtLeastOnce ----------------------------
(***************************************************************************)
(* What the transactional outbox promises to the code that writes to it:   *)
(* an event is handled before it counts as done, and what is done or given *)
(* up stays so.  A handler may run more than once, and may even complete   *)
(* after its event was given up; it never completes before it was queued.  *)
(***************************************************************************)
CONSTANT Events

VARIABLES
    status,   \* status[e]: absent, queued, done or dead
    handled   \* events whose handler has completed at least once

aloVars == <<status, handled>>

Init ==
    /\ status = [e \in Events |-> "absent"]
    /\ handled = {}

Enqueue(e) ==
    /\ status[e] = "absent"
    /\ status' = [status EXCEPT ![e] = "queued"]
    /\ UNCHANGED handled

Handle(e) ==
    /\ status[e] # "absent"
    /\ handled' = handled \cup {e}
    /\ UNCHANGED status

Complete(e) ==
    /\ status[e] = "queued"
    /\ e \in handled
    /\ status' = [status EXCEPT ![e] = "done"]
    /\ UNCHANGED handled

GiveUp(e) ==
    /\ status[e] = "queued"
    /\ status' = [status EXCEPT ![e] = "dead"]
    /\ UNCHANGED handled

Next == \E e \in Events : Enqueue(e) \/ Handle(e) \/ Complete(e) \/ GiveUp(e)

Spec == Init /\ [][Next]_aloVars
=============================================================================
