---------------------------- MODULE MessageLifecycle ----------------------------
(***************************************************************************)
(* What an SQS queue promises about each of its messages (spec.md 3, 4.1  *)
(* and 7), with no threads, clock or data structures: a sent message   *)
(* is queued; a receive takes a queued message out and counts it, or, past *)
(* maxReceiveCount, redrives it to the dead-letter queue; an out message   *)
(* is queued again when its visibility ends; a delete, a purge or the      *)
(* retention sweep ends a message.  A message that has ended or been       *)
(* redriven never comes back, and the receive count changes only on a      *)
(* receive.  One step may move several messages (a batch receive, a batch  *)
(* delete, a purge, a sweep), each along one edge of its lifecycle.        *)
(***************************************************************************)
EXTENDS Naturals

CONSTANTS
    Msgs,             \* message ids
    MaxReceiveCount   \* redrive policy maxReceiveCount, 0 when there is none

VARIABLES
    status,           \* per message: "unsent", "queued", "out", "dead" or "gone"
    received          \* per message: receive count

vars == <<status, received>>

\* the edges of the lifecycle that leave the receive count alone: put,
\* visibility end, and delete / purge / retention of a message in the queue
Uncounted == {<<"unsent", "queued">>, <<"out", "queued">>,
              <<"queued", "gone">>, <<"out", "gone">>}

\* a receive counted into n leads to the dead-letter queue
Redriven(n) == MaxReceiveCount > 0 /\ n > MaxReceiveCount

\* message m stays where it is, or moves along one edge
Move(m) ==
    LET s == status[m]
        t == status'[m]
        n == received[m]
    IN  \/ t = s /\ received'[m] = n
        \/ <<s, t>> \in Uncounted /\ received'[m] = n
        \/ /\ s = "queued" /\ received'[m] = n + 1
           /\ t = IF Redriven(n + 1) THEN "dead" ELSE "out"

Init ==
    /\ status = [m \in Msgs |-> "unsent"]
    /\ received = [m \in Msgs |-> 0]

\* every message stays or moves along one edge (all staying is a stutter)
Next == \A m \in Msgs : Move(m)

Spec == Init /\ [][Next]_vars

=============================================================================
