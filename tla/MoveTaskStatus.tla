---------------------------- MODULE MoveTaskStatus ----------------------------
(***************************************************************************)
(* What a message move task promises about its status (spec.md 4.4):      *)
(* CREATED -> RUNNING -> {COMPLETED | CANCELLED | FAILED} and              *)
(* RUNNING -> CANCELLING -> CANCELLED, with at most one task that is not   *)
(* yet terminal per source queue.  The tasks here all share one source.   *)
(* "NONE" stands for a task id that is not in the store.                   *)
(***************************************************************************)
CONSTANTS Tasks

VARIABLES status

Terminal == {"COMPLETED", "CANCELLED", "FAILED"}
Active   == {"CREATED", "RUNNING", "CANCELLING"}

Init == status = [t \in Tasks |-> "NONE"]

Become(t, from, to) ==
    /\ status[t] \in from
    /\ status' = [status EXCEPT ![t] = to]

\* start_message_move_task admits a task only while no other is active
Start(t) ==
    /\ \A u \in Tasks : status[u] \notin Active
    /\ Become(t, {"NONE"}, "CREATED")

Next ==
    \E t \in Tasks :
        \/ Start(t)
        \/ Become(t, {"CREATED"}, "RUNNING")
        \/ \E s \in Terminal : Become(t, {"RUNNING"}, s)
        \/ Become(t, {"RUNNING"}, "CANCELLING")
        \/ Become(t, {"CANCELLING"}, "CANCELLED")

Spec == Init /\ [][Next]_status

=============================================================================
