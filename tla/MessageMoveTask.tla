---------------------------- MODULE MessageMoveTask ----------------------------
(***************************************************************************)
(* Message move tasks (provider.py: MessageMoveTaskManager and the         *)
(* start/cancel_message_move_task handlers) redriving a dead-letter queue  *)
(* that is a standard queue, while consumers of that queue and the         *)
(* QueueUpdateWorker act on it.                                            *)
(*                                                                         *)
(* The operations of the source queue (receive, remove, the requeue sweep) *)
(* are single steps here; their inner interleavings are the subject of     *)
(* StandardQueue.  The clock is left out: an inflight message may become   *)
(* visible again at any time, as a visibility timeout of 1 second allows.  *)
(* The destination is one queue, counted per message.  Messages are        *)
(* numbered in the order they entered the source, which is its priority.  *)
(***************************************************************************)
EXTENDS Naturals, FiniteSets

CONSTANTS
    Tasks,                  \* task ids a StartMessageMoveTask may create
    NumMsgs,                \* messages in the source queue at the start
    InitialPolicy,          \* RedrivePolicy attribute of the source at the start
    PolicyValues,           \* RedrivePolicy values a SetQueueAttributes may write
    MaxPolicyChanges,       \* bound: SetQueueAttributes calls on the source
    MaxReceives,            \* bound: ReceiveMessage calls of consumers
    DeletableQueues         \* which of "source", "destination" a DeleteQueue may remove

Msgs  == 1..NumMsgs
NoMsg == 0

VARIABLES
    status,        \* per task: MessageMoveTask.status, "NONE" before it is stored
    cancelEvent,   \* per task: cancel_event.is_set()
    moved,         \* per task: approximate_number_of_messages_moved
    worker,        \* per task: where its _run is
    held,          \* per task: the message _run received and holds a handle of
    cancelling,    \* the task whose cancel has set the status, not yet the event
    visible,       \* source queue: StandardQueue.visible
    inflight,      \* source queue: inflight
    rc,            \* source queue: receive_count per message
    deleted,       \* source queue: messages removed by a receipt handle
    clientHandles, \* source queue: messages a consumer holds a live handle of
    redriven,      \* messages put into the source's own dead-letter target
    policy,        \* source queue: its RedrivePolicy attribute
    policyChanges, \* bound counter: SetQueueAttributes calls
    consumerDead,  \* the dead letters of a consumer's receive_message, waiting
                   \* for the handler's dead-letter step ({}: none waiting)
    consumerGot,   \* the successful message of that receive_message
    dest,          \* per message: copies put into the destination queue
    receives,      \* bound counter: ReceiveMessage calls of consumers
    sourceExists,  \* the source queue is in the store (not yet deleted)
    destExists     \* the destination queue is in the store

vars == <<status, cancelEvent, moved, worker, held, cancelling, visible,
          inflight, rc, deleted, clientHandles, redriven, policy, policyChanges,
          consumerDead, consumerGot, dest, receives, sourceExists, destExists>>
storeVars == <<sourceExists, destExists>>
taskVars  == <<status, cancelEvent, moved, worker, held, cancelling>>
consumerVars == <<policy, policyChanges, consumerDead, consumerGot>>
queueVars == <<visible, inflight, rc, deleted, clientHandles, redriven, dest, receives,
              sourceExists, destExists, consumerVars>>

Statuses == {"NONE", "CREATED", "RUNNING", "COMPLETED", "CANCELLING", "CANCELLED", "FAILED"}
ActiveStatuses == {"CREATED", "RUNNING", "CANCELLING"}
WorkerPcs == {"idle", "loop", "put", "remove", "finish", "done"}

(* The RedrivePolicy attribute of the source: absent, a valid policy     *)
(* {deadLetterTargetArn, maxReceiveCount: 1}, or {maxReceiveCount: 1}     *)
(* without a target, which set_queue_attributes stores before it finds    *)
(* the target missing and raises.                                          *)
Policies == {"none", "valid", "noTarget"}

\* SqsQueue.max_receive_count: maxReceiveCount of the parsed policy, or
\* None (0 here) when the attribute is absent
MaxReceiveCount(p) == IF p = "none" THEN 0 ELSE 1

\* the heap order of `visible`: least priority first
Oldest(S) == CHOOSE x \in S : \A y \in S : x <= y

(***************************************************************************)
(* StandardQueue.receive(num_messages=1): get messages in priority order,  *)
(* count the receive, and set aside those over the redrive policy's        *)
(* maxReceiveCount until one is successful or `visible` is empty.          *)
(***************************************************************************)
(* max_receive_count is read once, at the start of the receive.           *)
RECURSIVE ReceiveLoop(_, _, _, _)
ReceiveLoop(mrc, vis, rcs, dead) ==
    IF vis = {} THEN [visible |-> vis, rc |-> rcs, dead |-> dead, got |-> NoMsg]
    ELSE LET m == Oldest(vis)
             r == [rcs EXCEPT ![m] = @ + 1]
         IN IF mrc > 0 /\ r[m] > mrc
            THEN ReceiveLoop(mrc, vis \ {m}, r, dead \cup {m})
            ELSE [visible |-> vis \ {m}, rc |-> r, dead |-> dead, got |-> m]

\* the receive's effect on the source: the successful message goes inflight
\* (visibility timeout 1, or the queue's, both above 0)
Received(res) ==
    /\ visible' = res.visible
    /\ rc' = res.rc
    /\ inflight' = IF res.got = NoMsg THEN inflight ELSE inflight \cup {res.got}

(***************************************************************************)
(* SqsQueue.remove with StandardQueue._on_remove_message: a handle of a    *)
(* deleted message is no longer in `receipts` and the call does nothing;   *)
(* otherwise all handles of the message are dropped and it leaves          *)
(* inflight, or `visible` when it was requeued meanwhile.                  *)
(***************************************************************************)
Remove(m) ==
    IF m \in deleted
    THEN UNCHANGED <<deleted, inflight, visible, clientHandles>>
    ELSE /\ deleted' = deleted \cup {m}
         /\ inflight' = inflight \ {m}
         /\ visible' = visible \ {m}
         /\ clientHandles' = clientHandles \ {m}

----------------------------------------------------------------------------
(* start_message_move_task *)

\* the check for an active task without CREATED among the active states
CreateIgnoresCreated(t) ==
    /\ cancelling = {}
    /\ status[t] = "NONE"
    /\ \A u \in Tasks : status[u] \notin {"RUNNING", "CANCELLING"}
    /\ status' = [status EXCEPT ![t] = "CREATED"]
    /\ UNCHANGED <<cancelEvent, moved, worker, held, cancelling>>
    /\ UNCHANGED queueVars

\* The refusals before the manager mutex (ResourceNotFound for a source or
\* destination queue not in the store, source not the dead-letter target of any queue) change nothing;
\* the source here is such a target.  Under the manager mutex: refuse while
\* a task of the source is active, otherwise store a new task.
Create(t) ==
    /\ sourceExists /\ destExists
    /\ cancelling = {}
    /\ status[t] = "NONE"
    /\ \A u \in Tasks : status[u] \notin ActiveStatuses
    /\ status' = [status EXCEPT ![t] = "CREATED"]
    /\ UNCHANGED <<cancelEvent, moved, worker, held, cancelling>>
    /\ UNCHANGED queueVars

\* MessageMoveTask.mark_started: RUNNING, and the cancel event cleared
MarkStarted(t) ==
    /\ status' = [status EXCEPT ![t] = "RUNNING"]
    /\ cancelEvent' = [cancelEvent EXCEPT ![t] = FALSE]

\* MessageMoveTaskManager._fail_task: the task is FAILED
FailTask(t) == status' = [status EXCEPT ![t] = "FAILED"]

\* MessageMoveTaskManager.submit, under the mutex again: look the source up,
\* mark_started and hand _run to the executor; a source deleted since the
\* start's check makes the lookup raise, and the task fails without a run
Submit(t) ==
    /\ cancelling = {}
    /\ status[t] = "CREATED"
    /\ \/ /\ sourceExists
          /\ MarkStarted(t)
          /\ moved' = [moved EXCEPT ![t] = 0]
          /\ worker' = [worker EXCEPT ![t] = "loop"]
       \/ /\ ~sourceExists
          /\ FailTask(t)
          /\ UNCHANGED <<cancelEvent, moved, worker>>
    /\ UNCHANGED <<held, cancelling>>
    /\ UNCHANGED queueVars

(* cancel_message_move_task: the handle is returned by start only after   *)
(* submit, and list_message_move_tasks hides CREATED tasks.  Under the     *)
(* manager mutex, cancel sets the status, then the event; _run does not    *)
(* take that mutex and may run between the two.                            *)
Cancel(t) ==
    /\ sourceExists
    /\ cancelling = {}
    /\ status[t] \notin {"NONE", "CREATED"}
    /\ status' = [status EXCEPT ![t] = "CANCELLING"]
    /\ cancelling' = {t}
    /\ UNCHANGED <<cancelEvent, moved, worker, held>>
    /\ UNCHANGED queueVars

CancelSet ==
    /\ cancelling /= {}
    /\ cancelEvent' = [t \in Tasks |-> cancelEvent[t] \/ t \in cancelling]
    /\ cancelling' = {}
    /\ UNCHANGED <<status, moved, worker, held>>
    /\ UNCHANGED queueVars

----------------------------------------------------------------------------
(* MessageMoveTaskManager._run *)

\* the loop condition: the cancel event ends the loop
WorkerCancelled(t) ==
    /\ worker[t] = "loop"
    /\ cancelEvent[t]
    /\ worker' = [worker EXCEPT ![t] = "finish"]
    /\ UNCHANGED <<status, cancelEvent, moved, held, cancelling>>
    /\ UNCHANGED queueVars

\* _run's except branch: _fail_task, and the run ends
RunFails(t) ==
    /\ FailTask(t)
    /\ worker' = [worker EXCEPT ![t] = "done"]

\* one loop iteration up to the put: the source is looked up (a deleted one
\* raises), source_queue.receive(num_messages=1, visibility_timeout=1);
\* dead letters raise NotImplementedError; an empty result ends the loop;
\* otherwise the target is looked up (a deleted destination raises, and
\* the received message stays in flight) and the message is held for the
\* put.  Nothing else of the task runs between the lookups and the receive,
\* so a deletion in between is the same as one before.
WorkerReceive(t) ==
    /\ worker[t] = "loop"
    /\ ~cancelEvent[t]
    /\ \/ /\ ~sourceExists
          /\ RunFails(t)
          /\ UNCHANGED <<visible, inflight, rc, held>>
       \/ /\ sourceExists
          /\ LET res == ReceiveLoop(MaxReceiveCount(policy), visible, rc, {}) IN
              /\ Received(res)
              /\ \/ /\ res.dead /= {}
                    /\ RunFails(t)
                    /\ UNCHANGED held
                 \/ /\ res.dead = {} /\ res.got = NoMsg
                    /\ worker' = [worker EXCEPT ![t] = "finish"]
                    /\ UNCHANGED <<status, held>>
                 \/ /\ res.dead = {} /\ res.got /= NoMsg /\ ~destExists
                    /\ RunFails(t)
                    /\ UNCHANGED held
                 \/ /\ res.dead = {} /\ res.got /= NoMsg /\ destExists
                    /\ worker' = [worker EXCEPT ![t] = "put"]
                    /\ held' = [held EXCEPT ![t] = res.got]
                    /\ UNCHANGED status
    /\ UNCHANGED <<cancelEvent, moved, cancelling, deleted, clientHandles, redriven, dest, receives>>
    /\ UNCHANGED <<storeVars, consumerVars>>

\* a put that does not reach the destination
WorkerPutLost(t) ==
    /\ worker[t] = "put"
    /\ worker' = [worker EXCEPT ![t] = "remove"]
    /\ UNCHANGED <<status, cancelEvent, moved, held, cancelling>>
    /\ UNCHANGED queueVars

\* target_queue.put of the message
WorkerPut(t) ==
    /\ worker[t] = "put"
    /\ dest' = [dest EXCEPT ![held[t]] = @ + 1]
    /\ worker' = [worker EXCEPT ![t] = "remove"]
    /\ UNCHANGED <<status, cancelEvent, moved, held, cancelling>>
    /\ UNCHANGED <<visible, inflight, rc, deleted, clientHandles, redriven, receives>>
    /\ UNCHANGED <<storeVars, consumerVars>>

\* source_queue.remove(receipt_handle) and the moved counter
WorkerRemove(t) ==
    /\ worker[t] = "remove"
    /\ Remove(held[t])
    /\ moved' = [moved EXCEPT ![t] = @ + 1]
    /\ held' = [held EXCEPT ![t] = NoMsg]
    /\ worker' = [worker EXCEPT ![t] = "loop"]
    /\ UNCHANGED <<status, cancelEvent, cancelling, rc, redriven, dest, receives>>
    /\ UNCHANGED <<storeVars, consumerVars>>

\* the else branch written with only its completed case
WorkerFinishNoCancelled(t) ==
    /\ worker[t] = "finish"
    /\ status' = IF cancelEvent[t] THEN status
                 ELSE [status EXCEPT ![t] = "COMPLETED"]
    /\ worker' = [worker EXCEPT ![t] = "done"]
    /\ UNCHANGED <<cancelEvent, moved, held, cancelling>>
    /\ UNCHANGED queueVars

\* the else branch of the try: CANCELLED if the event is set, else COMPLETED
WorkerFinish(t) ==
    /\ worker[t] = "finish"
    /\ status' = [status EXCEPT ![t] = IF cancelEvent[t] THEN "CANCELLED" ELSE "COMPLETED"]
    /\ worker' = [worker EXCEPT ![t] = "done"]
    /\ UNCHANGED <<cancelEvent, moved, held, cancelling>>
    /\ UNCHANGED queueVars

----------------------------------------------------------------------------
(* Other users of the source queue *)

(* receive_message with MaxNumberOfMessages 1, first queue.receive: the  *)
(* successful message goes in flight, the dead letters are taken out of    *)
(* the queue.  Without dead letters the result is returned at once.        *)
ConsumerReceive ==
    /\ sourceExists
    /\ consumerDead = {}
    /\ receives < MaxReceives
    /\ LET res == ReceiveLoop(MaxReceiveCount(policy), visible, rc, {}) IN
        /\ res.got /= NoMsg \/ res.dead /= {}
        /\ Received(res)
        /\ consumerDead' = res.dead
        /\ consumerGot' = IF res.dead = {} THEN NoMsg ELSE res.got
        /\ clientHandles' = IF res.got = NoMsg \/ res.dead /= {} THEN clientHandles
                            ELSE clientHandles \cup {res.got}
    /\ receives' = receives + 1
    /\ UNCHANGED <<deleted, dest, redriven, policy, policyChanges>>
    /\ UNCHANGED storeVars
    /\ UNCHANGED taskVars

(* The rest of receive_message when there are dead letters: it reads       *)
(* queue.redrive_policy["deadLetterTargetArn"] again, now.  If the policy  *)
(* has been removed since the receive read it, subscripting None raises    *)
(* TypeError; a stored policy without a target raises KeyError.  Either   *)
(* way the dead letters are in neither queue and the caller gets an error  *)
(* instead of its message, which stays in flight.  Otherwise each one is   *)
(* put into the dead-letter target and the result is returned.             *)
ConsumerDeadLetter ==
    /\ consumerDead /= {}
    /\ \/ /\ policy = "valid"
          /\ redriven' = redriven \cup consumerDead
          /\ clientHandles' = IF consumerGot = NoMsg THEN clientHandles
                              ELSE clientHandles \cup {consumerGot}
       \/ /\ policy \in {"none", "noTarget"}
          /\ UNCHANGED <<redriven, clientHandles>>
    /\ consumerDead' = {}
    /\ consumerGot' = NoMsg
    /\ UNCHANGED <<visible, inflight, rc, deleted, dest, receives, policy, policyChanges>>
    /\ UNCHANGED storeVars
    /\ UNCHANGED taskVars

(* set_queue_attributes with a RedrivePolicy on the source: the value is  *)
(* written into queue.attributes first; "" is then deleted, and a policy   *)
(* without deadLetterTargetArn stays stored while the call raises          *)
(* InvalidParameterValue.                                                  *)
SetRedrivePolicy(p) ==
    /\ sourceExists
    /\ policyChanges < MaxPolicyChanges
    /\ policy' = p
    /\ policyChanges' = policyChanges + 1
    /\ UNCHANGED <<visible, inflight, rc, deleted, clientHandles, redriven, dest, receives,
                   consumerDead, consumerGot>>
    /\ UNCHANGED storeVars
    /\ UNCHANGED taskVars

\* delete_message with a handle the consumer holds
ConsumerDelete(m) ==
    /\ sourceExists
    /\ m \in clientHandles
    /\ Remove(m)
    /\ UNCHANGED <<rc, redriven, dest, receives>>
    /\ UNCHANGED <<storeVars, consumerVars>>
    /\ UNCHANGED taskVars

\* a requeue that leaves the message in inflight as well
RequeueKeepsInflight(m) ==
    /\ m \in inflight
    /\ visible' = visible \cup {m}
    /\ UNCHANGED <<inflight, rc, deleted, clientHandles, redriven, dest, receives>>
    /\ UNCHANGED <<storeVars, consumerVars>>
    /\ UNCHANGED taskVars

\* requeue_inflight_messages of the QueueUpdateWorker, for one message
\* whose visibility timeout has run out (iter_queues visits the queues of
\* the store only)
RequeueInflightMessage(m) ==
    /\ sourceExists
    /\ m \in inflight
    /\ inflight' = inflight \ {m}
    /\ visible' = visible \cup {m}
    /\ UNCHANGED <<rc, deleted, clientHandles, redriven, dest, receives>>
    /\ UNCHANGED <<storeVars, consumerVars>>
    /\ UNCHANGED taskVars

----------------------------------------------------------------------------
(* delete_queue, under _STORE_LOCK: shutdown() and the queue leaves the    *)
(* store.  Whoever already holds the queue object (a _run between its      *)
(* lookups and its put or remove) goes on using it; later lookups by arn   *)
(* fail.  Queues are not created again here.                               *)

DeleteSourceQueue ==
    /\ "source" \in DeletableQueues
    /\ sourceExists
    /\ sourceExists' = FALSE
    /\ UNCHANGED <<visible, inflight, rc, deleted, clientHandles, redriven, dest, receives, destExists>>
    /\ UNCHANGED consumerVars
    /\ UNCHANGED taskVars

DeleteDestinationQueue ==
    /\ "destination" \in DeletableQueues
    /\ destExists
    /\ destExists' = FALSE
    /\ UNCHANGED <<visible, inflight, rc, deleted, clientHandles, redriven, dest, receives, sourceExists>>
    /\ UNCHANGED consumerVars
    /\ UNCHANGED taskVars

\* the source is gone and no call or _run is left: the model rests here
Ended ==
    /\ ~sourceExists
    /\ cancelling = {}
    /\ \A t \in Tasks : worker[t] \in {"idle", "done"} /\ status[t] /= "CREATED"
    /\ UNCHANGED vars

----------------------------------------------------------------------------

Init ==
    /\ status = [t \in Tasks |-> "NONE"]
    /\ cancelEvent = [t \in Tasks |-> FALSE]
    /\ moved = [t \in Tasks |-> 0]
    /\ worker = [t \in Tasks |-> "idle"]
    /\ held = [t \in Tasks |-> NoMsg]
    /\ cancelling = {}
    /\ visible = Msgs
    /\ inflight = {}
    /\ rc = [m \in Msgs |-> 0]
    /\ deleted = {}
    /\ clientHandles = {}
    /\ redriven = {}
    /\ policy = InitialPolicy
    /\ policyChanges = 0
    /\ consumerDead = {}
    /\ consumerGot = NoMsg
    /\ dest = [m \in Msgs |-> 0]
    /\ receives = 0
    /\ sourceExists = TRUE
    /\ destExists = TRUE

WorkerNext(t) ==
    \/ WorkerCancelled(t) \/ WorkerReceive(t) \/ WorkerPut(t)
    \/ WorkerRemove(t) \/ WorkerFinish(t)

Next ==
    \/ \E t \in Tasks : Create(t) \/ Submit(t) \/ Cancel(t) \/ WorkerNext(t)
    \/ CancelSet
    \/ ConsumerReceive \/ ConsumerDeadLetter
    \/ \E p \in PolicyValues : SetRedrivePolicy(p)
    \/ \E m \in Msgs : ConsumerDelete(m) \/ RequeueInflightMessage(m)
    \/ DeleteSourceQueue \/ DeleteDestinationQueue
    \/ Ended

Spec == Init /\ [][Next]_vars

(* The executor runs every submitted _run to its end, the start and cancel *)
(* calls run to their end once begun.  Starting and cancelling a task,    *)
(* the consumers and the requeue sweep (which only matters to consumers)  *)
(* get no fairness.                                                        *)
FairSpec ==
    /\ Spec
    /\ \A t \in Tasks : WF_vars(Submit(t)) /\ WF_vars(WorkerNext(t))
    /\ WF_vars(CancelSet)

----------------------------------------------------------------------------
(* Properties *)

TypeOK ==
    /\ status \in [Tasks -> Statuses]
    /\ cancelEvent \in [Tasks -> BOOLEAN]
    /\ moved \in [Tasks -> 0..NumMsgs * Cardinality(Tasks)]
    /\ worker \in [Tasks -> WorkerPcs]
    /\ held \in [Tasks -> Msgs \cup {NoMsg}]
    /\ cancelling \subseteq Tasks /\ Cardinality(cancelling) <= 1
    /\ visible \subseteq Msgs /\ inflight \subseteq Msgs
    /\ visible \cap inflight = {}
    /\ rc \in [Msgs -> Nat]
    /\ deleted \subseteq Msgs /\ clientHandles \subseteq Msgs /\ redriven \subseteq Msgs
    /\ policy \in Policies /\ policyChanges \in 0..MaxPolicyChanges
    /\ consumerDead \subseteq Msgs /\ consumerGot \in Msgs \cup {NoMsg}
    /\ dest \in [Msgs -> Nat]
    /\ receives \in 0..MaxReceives
    /\ sourceExists \in BOOLEAN /\ destExists \in BOOLEAN

(* Each message of the dead-letter queue reaches the destination at most   *)
(* once.  Only one task of a source runs at a time (the active-task check  *)
(* of start_message_move_task), and its remove deletes the message even    *)
(* when the requeue sweep has made it visible again before the remove.     *)
MovedAtMostOnce == \A m \in Msgs : dest[m] <= 1

(* Redrive accounts for every message: the move task takes a message out   *)
(* of the source only to put it into the destination, and every other way *)
(* out is a consumer's delete, a redrive by a receive, or the deletion of  *)
(* the source queue.  A task that fails leaves what it received in the    *)
(* source, in flight.  A message counts                                    *)
(* as moved from the receive of _run on: when its visibility timeout of 1  *)
(* second runs out before the remove, a consumer may still receive and    *)
(* delete it, which SQS's at-least-once delivery allows.                   *)
MovedOrHeld ==
    {m \in Msgs : dest[m] > 0} \cup
    {held[t] : t \in {u \in Tasks : worker[u] \in {"put", "remove"}}}

\* the messages of the source queue's object, with the dead letters a receive
\* has taken out of it and not yet forwarded; once the queue is deleted they
\* are gone with it.  A dead letter deleted by an older handle while it
\* waits for the dead-letter step is gone already.
Queued == (visible \cup inflight \cup consumerDead) \ deleted

Abstract == INSTANCE MessageMove WITH
    source <- IF sourceExists THEN Queued \ MovedOrHeld ELSE {},
    target <- MovedOrHeld,
    gone   <- (deleted \cup redriven \cup (IF sourceExists THEN {} ELSE Queued))
                  \ MovedOrHeld

MessageMoveRefinement == Abstract!Spec

(* Task status follows the state machine of spec.md 4.4, with at most one *)
(* active task per source: cancel_message_move_task, _run and _fail_task   *)
(* write the status of one task from two threads.                          *)
StatusMachine == INSTANCE MoveTaskStatus

MoveTaskStatusSpec == StatusMachine!Spec

(* Every running task reaches a terminal status: _run's loop ends when the *)
(* source is empty, on a dead letter, or on the cancel event, and every   *)
(* path out of it writes COMPLETED, CANCELLED or FAILED.                   *)
TaskSettles ==
    \A t \in Tasks :
        status[t] = "RUNNING" ~> status[t] \in {"COMPLETED", "CANCELLED", "FAILED"}

=============================================================================
