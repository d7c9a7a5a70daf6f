# TLA+ models of the LocalStack SQS engine

This directory holds TLA+ models of the in-memory queue engine of the SQS
service (`src/localstack-core/localstack/services/sqs/models.py`), together
with the provider handlers that drive it
(`src/localstack-core/localstack/services/sqs/provider.py`). It also holds
the TLC configurations that check the models. `PROJECT.json` lists:

- every component and its status;
- every run and what it checks;
- the mutants that show each checked property can fail;
- the map from TLA+ definitions to source lines;
- the findings;
- the hazards of the code.

## 1. The system

### Parts

| Part | Source | State | Operations |
|---|---|---|---|
| `SqsMessage` | models.py 51-192 | receive_count, visibility_timeout, visibility_deadline, last_received, delay_seconds, deleted, receipt_handles, priority (creation time) | set_last_received, update_visibility_timeout, is_visible, is_delayed, ordering by priority |
| `SqsQueue` (base) | models.py 266-738 | inflight, delayed, receipts (handle -> message), attributes, permissions, a re-entrant `mutex` | remove, update_visibility_timeout, requeue_inflight_messages, enqueue_delayed_messages, clear, add/remove_permission |
| `StandardQueue` | models.py 741-916 | `visible`, an interruptible priority queue | put, receive, remove_expired_messages, _on_remove_message |
| `MessageGroup` | models.py 919-946 | a heap of messages | push, pop, empty |
| `FifoQueue` | models.py 949-1307 | deduplication (id -> message), message_groups, inflight_groups, message_group_queue (an interruptible FIFO of groups) | put with deduplication, receive by group, _put_message, update_message_group_visibility, _pre_delete_checks, clear |
| `QueueUpdateWorker` | provider.py 385-443 | a thread | once a second, per queue: requeue_inflight_messages, enqueue_delayed_messages and, if enabled, remove_expired_messages |
| `MessageMoveTaskManager` | provider.py 445-573 | tasks, a mutex, a thread pool | a worker that receives from a DLQ, puts into the destination and deletes from the source |
| `SqsProvider` handlers | provider.py 899-1621 | the store of queues | send_message(_batch), receive_message (with dead-letter redrive), delete_message(_batch), change_message_visibility, purge_queue, set_queue_attributes, start/cancel/list move tasks, queue life cycle |
| `CloudwatchDispatcher`, developer endpoints | provider.py | none that matters here | metrics and inspection |

### How the parts interact

- **Producers** call `put`. It runs outside the queue mutex, except for the
  pushes in `_put_message`; only `send_message_batch` holds the mutex
  around its puts.
- **Consumers** call `receive`.
  - FIFO `receive` takes a group from `message_group_queue` outside the
    mutex, checks `group.empty()`, and adds the group to `inflight_groups`,
    also outside the mutex.
  - It then pops under the mutex, and finally registers handles under the
    mutex.
  - `receive` reads the redrive policy's maxReceiveCount once, at its
    start. The provider then reads the policy again for its target, puts
    the dead letters into the dead-letter queue and releases their groups. For a FIFO queue the target is a FIFO queue,
    and the put goes through the target's deduplication.
- **Clients** holding a receipt handle call `remove` and
  `update_visibility_timeout`.
- **Administrators** call `set_queue_attributes`, which can change or
  remove the RedrivePolicy of a queue between those two reads.
- **The update worker thread** runs the sweeps concurrently with all of
  these.

### What is hard

- The interleavings of these threads between the mutex sections.
- The bookkeeping of `inflight_groups`, which is what is meant to give group
  exclusivity.
- The expiry of receipt handles against a visibility timeout that later
  calls change.
- The deduplication check-then-act, in the queue and again in the
  dead-letter target.
- The redrive policy read twice by one receive, with dead letters already
  out of the queue when the second read fails.
- A purge that drops the `MessageGroup` objects while a receive or a put
  still holds one.
- Sweeps in set iteration order.

### Properties per component

**FIFO queue**
- Group exclusivity.
- Order within a group.
- A message in only one place.
- A waiting group stays reachable.
- Deduplication within the interval.
- A purged message never comes back.
- A message whose visibility expires is eventually receivable again.
- Each message follows the lifecycle of `MessageLifecycle` (refinement; the
  code breaks it, see `fifo_dlq_dedup`).

**Standard queue**
- Priority order of first delivery with no delay.
- No message both visible and in flight.

**Move tasks**
- Task status follows the state machine of spec 4.4, with one active task
  per source (the code breaks it; observed).
- Every message leaves the source exactly once: moved, deleted or redriven,
  also for the dead letters of a consumer's receive (the code breaks it when
  the redrive policy changes, see `redrive_policy_removed`).
- No message is moved twice.
- Every running task settles.

## 2. Modules

### `FifoQueue.tla`

Models `FifoQueue` with `MessageGroup`, the `SqsMessage` fields, the
`SqsQueue` operations, the QueueUpdateWorker sweeps, and the
receive-message redrive of the provider.

**Constants:**
- thread sets: `Producers`, `Consumers`;
- data sets: `Groups`, `DedupIds`;
- bounds: `MaxMsgs`, `MaxTime`, `MaxReceives`;
- request parameters: `NumMessages`, `VisibilityTimeouts`;
- queue attributes: `QueueVisibilityTimeout`, `QueueDelaySeconds`,
  `MaxReceiveCount` (0 = no redrive policy), `DeduplicationInterval`,
  `RetentionPeriod`, `DeduplicationScope`;
- the configuration flags `RetentionEnabled` and `DelayPurgeRetry`, with
  `PurgeRetrySeconds` (60 in the code);
- `MaxPurges`: a bound on `PurgeQueue`;
- the model value `NoConsumer`.

**State:** one variable per field of the queue.
- The queue's own fields: `deduplication`, `messageGroups` (the heap of
  every `MessageGroup` object, as a set), `messageGroupQueue`, `inflightGroups`, `inflight`, `delayed`,
  `receipts` (the set of live handles), `purgeTimestamp`.
- `gen`: how many times `clear` has emptied `message_groups`. A
  `MessageGroup` object is the pair `<<group, gen>>` of the `gen` in which
  `get_message_group` created it (`Obj`). Objects compare by group id
  (`__eq__`, `__hash__`), so `inflightGroups` holds ids, while heaps and
  `messageGroupQueue` hold objects: a receive or a put that fetched an object
  before a purge keeps the old one.
- The steps of a put in progress: `putStage`, `putObj`.
- `msg`: the fields of every `SqsMessage`.
- The position of every thread: `sending`, `pc`, `req`, `cur`,
  `successful`, `deadLetters`.
- `dlq`: the messages the dead-letter target accepted;
  `dlqDeduplication`: the target's deduplication table, as the creation time
  of the message recorded for each id. The target has default attributes
  (scope `queue`, no delay); its own threads are not modelled.
- The clock: `now`.
- History variables used only by properties: `holder`, `duplicates`,
  `purged` (what a purge removed), `sentGen` (the `gen` a message was sent
  in).
- Message ids are drawn in creation order, so id order is priority order and
  sequence-number order.

**Actions, one per piece of code that runs without another thread able to
step in:**

| Action | Code |
|---|---|
| `Send` | `put` up to and including the deduplication read: creates the message and refuses a duplicate |
| `EnqueueMessage` | `put`'s delayed branch, or `_put_message`'s `get_message_group` (its own mutex section) |
| `PushMessage` | `_put_message`'s push and group release, under the mutex (`PutMessageTo`) |
| `RecordDeduplication` | `put`'s write of the deduplication table, outside the mutex |
| `GetGroup`, `GetEmpty` | `message_group_queue.get` (a new call also chooses num_messages and visibility_timeout) |
| `CheckGroup` | `group.empty()` |
| `ClaimGroup` | `inflight_groups.add` |
| `PopMessages` | the whole pop loop under the mutex (`PopLoop`, recursive) |
| `FinishReceive` | the handle/inflight/back-to-group section |
| `DeadLetter` | one iteration of the provider's dead-letter loop: `dl_queue.put`, which refuses a message whose deduplication id the target recorded within the interval (`DlqDuplicate`), then the group release |
| `DeleteMessage` | `remove` with `_pre_delete_checks` and `_on_remove_message`; a second disjunct is the `KeyError` of `del self.receipts[handle]` when a purge dropped the receipts, after `deleted` is set |
| `PurgeQueue` | `purge_queue` with its 60-second check, and `FifoQueue.clear` with `SqsQueue.clear`, under the mutex |
| `ChangeMessageVisibility` | `update_visibility_timeout` |
| `RequeueInflightMessages`, `EnqueueDelayedMessages`, `RemoveExpiredMessages` | the worker's three calls, taking the due messages in any order |
| `Tick` | advances the clock |
| `Quiescent` | stutters when no thread is in a call, so that the bounded model may rest there |

**Time.** Time is an integer tick. A deadline that falls in tick t is taken
to have passed during t, for every comparison. Tick is not taken while a put
is in progress: a put lasts microseconds.

**Abstract specification.** `MessageLifecycle.tla` states what a queue
promises about each message, with no threads, clock or structures. A message
is unsent, queued, out, dead (redriven) or gone. It moves along these edges:
- put: unsent to queued;
- a receive: queued to out, or to dead when the count passes
  `maxReceiveCount`; the receive count rises by one;
- visibility end: out to queued;
- delete, purge or retention: queued or out to gone.

One step may move several messages. `FifoQueue` instantiates it with
`LifecycleStatus` as the mapping:
- unsent until the put has pushed the message (a refused duplicate stays
  unsent);
- dead once a receive sorted it into the dead letters;
- gone once deleted, purged, or in no place (the retention sweep);
- out in flight or in a receive result;
- queued in a heap or in `delayed`.

The code does not implement it. At the `fifo_delivery` bounds TLC finds a
redriven message that the dead-letter target refuses as a duplicate
(`fifo_dlq_dedup`). With a purge (the `fifo_delay_retention` bounds) it also
fails on the path of `fifo_purge_final`: a receive that fetched its group
before the purge pops a purged message and counts it. So no passing run
carries `LifecycleRefinement`.

### `MCFifoQueue.tla`

Extends `FifoQueue` with the symmetry of consumers. It is sound for the
invariants: consumers run the same code from the same initial state.

### `StandardQueue.tla`

Models `StandardQueue` with the `SqsQueue` operations it uses.

**Constants:**
- `Producers`, `Consumers`;
- bounds: `MaxMsgs`, `MaxTime`, `MaxReceives`;
- request parameters: `NumMessages`, `VisibilityTimeouts`, `DelaySeconds`
  (per message);
- queue attributes: `QueueVisibilityTimeout`, `MaxReceiveCount`,
  `RetentionPeriod`;
- the configuration flags `RetentionEnabled` and `DelayPurgeRetry`, with
  `PurgeRetrySeconds` (60 in the code).

**State:**
- `visible` (the priority queue, as a set), `delayed`, `inflight`,
  `receipts`, `purgeTimestamp`;
- `msg`: the message fields;
- the position of every thread: `sending`, `pc`, `req`, `hand` (the message
  a get returned), `successful`, `deadLetters`;
- `sweep`: the message the retention loop read at `heap[0]`;
- `dlq`;
- `expiredAt` and `purged`: history variables.

**Concurrency.** `receive` never takes the queue mutex, so every part of it
is a step of its own:

| Action | Code |
|---|---|
| `Get`, `GetEmpty` | `visible.get` |
| `Take` | the deleted check and the receive-count update |
| `FinishReceive` | the registration of handles and inflight |

`remove`, `update_visibility_timeout` and the sweeps take the queue mutex,
and are therefore excluded while the retention loop is running
(`MutexFree`). The retention loop `remove_expired_messages_from_heap` is
two steps, because a get of `visible` can run between its read of
`heap[0]` and its `heappop`:

| Action | Code |
|---|---|
| `ExpireCheck` | the read of `heap[0]` and the retention comparison |
| `ExpirePop` | the `heappop` |

`PurgeQueue` is `purge_queue` with its 60-second check and
`StandardQueue.clear`, taken under the queue mutex. The history variable
`purged` records what it removed.

The client handlers that take a receipt handle are modelled at the level of
the provider, each built from the queue operation it calls:

| Action | Code |
|---|---|
| `DeleteMessage` | `delete_message`: `RemoveMessages` (`SqsQueue.remove`) and `OnRemoveMessage` |
| `DeleteMessageBatch` | `delete_message_batch`: the live handles of the batch, removed under the mutex |
| `ChangeMessageVisibility` | `change_message_visibility`: `UpdateVisibility` (`update_visibility_timeout`) |
| `ChangeMessageVisibilityBatch` | `change_message_visibility_batch`: `UpdateVisibilities` folds the entries in order (`BatchSize` = 2) |

A batch holds the queue mutex for all its entries, so no sweep or purge runs
between them; a receive, which takes no mutex, may, and that interleaving
is the same as two single calls, which `Next` also has.

`UpdateAllQueues` is `QueueUpdateWorker.do_update_all_queues` for this queue:
one of the requeue sweep, the delay sweep, or (when `RetentionEnabled`) the
retention loop. `FifoQueue.tla` has the same definition over its sweeps.

`MCStandardQueue.tla` adds the consumer symmetry.

### `MessageMoveTask.tla`, `MessageMove.tla`, `MoveTaskStatus.tla`

`MessageMoveTask` models the `MessageMoveTaskManager` and the
start/cancel handlers, redriving a standard dead-letter queue. Consumers of
that queue and the requeue sweep act on it at the same time.

**Constants:**
- `Tasks`: the task ids a start may create;
- `NumMsgs`: the messages in the source at the start;
- `InitialPolicy`: the source's own RedrivePolicy attribute at the start:
  `"none"`, `"valid"` (maxReceiveCount 1 with a target), or `"noTarget"`
  (maxReceiveCount 1, no `deadLetterTargetArn`);
- `PolicyValues`, `MaxPolicyChanges`: the values a `set_queue_attributes`
  on the source may write, and a bound on how many such calls happen;
- `MaxReceives`: a bound on the consumers' receives;
- `DeletableQueues`: which of `"source"` and `"destination"` a
  `delete_queue` may remove during the run.

**State:**
- per task: `status`, `cancelEvent`, `moved`, `worker` (where its `_run`
  is), `held` (the message it received);
- `cancelling`: a cancel that has written the status but not yet set the
  event;
- the source: `visible`, `inflight`, `rc`, `deleted`, `clientHandles`;
- `redriven` (the source's own dead-letter target) and `dest` (copies per
  message in the destination);
- `policy`, `policyChanges`: the source's RedrivePolicy and the call counter;
- `consumerDead`, `consumerGot`: the dead letters and the successful
  message of a consumer's `receive_message` that has passed `queue.receive`
  and not yet its dead-letter step;
- `sourceExists`, `destExists`: whether the queue is still in the store.

**Actions:**

| Action | Code |
|---|---|
| `Create` | the active-task check of `start_message_move_task` and storing the task, under the manager mutex |
| `Submit` | `submit` with `mark_started`, under the mutex again |
| `Cancel` | the handler and the status write of `cancel` |
| `CancelSet` | the event write of `cancel` |
| `WorkerCancelled`, `WorkerReceive`, `WorkerPut`, `WorkerRemove`, `WorkerFinish` | the loop check, the receive with its three outcomes (dead letters fail the task, empty ends the loop, one message), the put, the remove with the counter, and the final status |
| `ConsumerReceive` | `receive_message` up to and including `queue.receive`, which reads `max_receive_count` once at its start; without dead letters the result is returned in the same step |
| `ConsumerDeadLetter` | the rest of `receive_message`: it reads `queue.redrive_policy["deadLetterTargetArn"]` again and forwards the dead letters, or raises (TypeError for a removed policy, KeyError for one without a target) with the dead letters in no queue |
| `SetRedrivePolicy` | `set_queue_attributes` with a RedrivePolicy on the source: the value is stored first, `""` is then deleted, and a policy without a target stays stored while the call raises |
| `ConsumerDelete` | `delete_message` |
| `RequeueInflightMessage` | the requeue sweep, for one expired message |
| `DeleteSourceQueue`, `DeleteDestinationQueue` | `delete_queue`: the queue leaves the store under `_STORE_LOCK` |
| `Ended` | a stutter step once the source is gone and no request or `_run` is left |

Queue deletion works the way the code does:
- `Create` and `Cancel` need the queues in the store (`_require_queue_by_arn`).
- `Submit`'s lookup fails into `_fail_task` when the source is gone.
- Each iteration of `_run` looks the source up again, and the destination
  after a message is received. A missing queue sends `_run` to its
  `except` branch (`RunFails`), leaving the received message in flight.
- A `_run` that already holds the queue objects of its iteration goes on
  with its put and remove, deleted queue or not.
- Consumers and the requeue sweep reach the source only through the store.

**Abstractions:**
- The source queue's operations are single steps here. Their inner
  interleavings are checked by `StandardQueue`.
- The clock is left out: an inflight message may become visible again at
  any time, as the move task's visibility timeout of 1 second allows.

**Abstract specifications.** The module instantiates two of them:
- `MoveTaskStatus`: the status machine of spec 4.4, with at most one active
  task. The code does not implement it (section 3, observed), so no run
  checks `MoveTaskStatusSpec`.
- `MessageMove`: every message leaves the source once, into the target or
  gone (deleted or redriven). The refinement mapping counts a message as
  moved from the task's receive on. Dead letters that a consumer's receive
  has taken out but not yet forwarded still count as in the source. Once
  the source is deleted, its remaining messages count as gone.

## 3. Runs

The FIFO and standard runs use the symmetry set `ConsumerSymmetry`, except
`fifo_delivery`, which checks a liveness property. The
move-task runs use no symmetry, because they check temporal properties.

| Run | cfg | Expect | Checks |
|---|---|---|---|
| fifo_delivery | FifoQueue_base.cfg | pass (160k states, about 1 min) | TypeOK, GroupOrder, OnePlace, NoStrandedGroup, DeduplicatedOnce, ExpiredMessageReturns |
| fifo_delay_retention | FifoQueue_delay.cfg | pass (4.8M states, about 2 min) | OnePlace |
| fifo_group_exclusive | FifoQueue_group_exclusive.cfg | violation | GroupExclusive |
| fifo_purge_final | FifoQueue_purge.cfg | violation | PurgeIsFinal |
| fifo_dedup_race | FifoQueue_dedup_race.cfg | violation | DeduplicatedOnce |
| fifo_stranded_group | FifoQueue_stranded_group.cfg | violation | NoStrandedGroup |
| fifo_dlq_dedup | FifoQueue_dlq_dedup.cfg | violation | LifecycleRefinement |
| standard_delivery | StandardQueue_delivery.cfg | pass (9.8M states, about 2 min) | TypeOK, NoLostMessage, PriorityOrder |
| standard_retention_race | StandardQueue_retention_race.cfg | violation | RetentionOnlyExpired |
| move_task_base | MessageMoveTask_base.cfg | pass (79k states, a few seconds) | TypeOK, MovedAtMostOnce, MessageMoveRefinement |
| move_task_settles | MessageMoveTask_liveness.cfg | pass (650k states, about 40 s) | TaskSettles |
| redrive_policy_removed | MessageMoveTask_policy_removed.cfg | violation | MessageMoveRefinement |

### fifo_delivery

One producer, two consumers, one group, three messages, two ticks and three
receive calls. Receives take one message with visibility 0 or the queue's 1.
The redrive policy has maxReceiveCount 1. In this setting:

- messages of a group are received for the first time in sequence order;
- no message is ever in two of: a heap, delayed, in flight, a receive
  result, dead letters, the DLQ;
- between calls, a group with a waiting message is always in the group queue
  or held by an in-flight message;
- a second send within the deduplication interval is refused;
- under `FairSpec`, a message in flight whose deadline the clock reaches
  (at most `MaxTime`) is eventually deleted, or back in the heap of its
  group's current object with that object queued or held by a receive that
  has not popped yet (`ExpiredMessageReturns`). Dropping the re-queue of a
  released group in `_put_message` breaks it.

The run keeps one deduplication id, which a message may reuse once the
interval has passed; that reuse is what `fifo_dlq_dedup` needs.

### fifo_delay_retention

Adds:
- DelaySeconds 1;
- retention of 2 ticks;
- receives of two messages;
- three ticks;
- one `PurgeQueue`, at any point of any other thread.

It has two messages: with three and a purge the run does not finish in 15
minutes. Across the sweeps and the purge, no message is ever in two places
(the half-done delete after a purge included). The type invariant and
`DeduplicatedOnce` are checked by `fifo_delivery` only: with one producer,
delay and purge cannot change what the deduplication check decides, so
repeating them here would add nothing. `GroupOrder` is not
checked here: a purge between `_put_message`'s `get_message_group` and its
push leaves the message in a dropped group object that is still queued, and
TLC then finds a later message of the group received first (15 states).
That is listed as a hazard.

The two passing runs together fire every action of `Next`.

### The violation runs

Each shows one disagreement; see Findings.

**fifo_group_exclusive.** Batch receives and visibility changes to 0 let two
consumers hold messages of one group at once. This breaks the core FIFO
property of spec section 5. It also fails with single-message receives when
a stale handle deletes the message a receive is about to register.

**fifo_purge_final.** One producer, two consumers, two messages, one
purge, visibility 0. TLC finds, in 10 states:
1. message 1 is sent and pushed into the group object `<<g1, 0>>`;
2. consumer 1 gets that object from the group queue and finds it non-empty;
3. `PurgeQueue` clears everything; message 1 is purged;
4. consumer 1 claims the group and pops message 1 from the old object;
5. with visibility 0, `_put_message` pushes message 1 into a new object
   `<<g1, 1>>`, queues it, and registers a receipt.

The purged message is back in the queue. With a longer visibility timeout
it is in flight with a valid handle instead.

**Stale receipt handles (a spec gap, not a run).** A handle issued by a
visibility-0 receive becomes valid again after another consumer receives
the message with a longer timeout, and then deletes that consumer's
delivery. `_pre_delete_checks` does what spec section 4.3 prescribes.

**Deduplication scope (observed, not a run).** The deduplication table has
one entry per id, whatever the scope (models.py:1086). Under the
messageGroup scope, a send to group g2 with the same deduplication id
replaces g1's entry, and a duplicate sent to g1 is then accepted. The
base cfg with `Groups = {g1, g2}` and `DeduplicationScope = "messageGroup"`
shows `DeduplicatedOnce` violated this way. `fifo_dedup_race` is kept as
the run for that property.

**Dead-letter put that raises (observed, not a run).** `receive_message`
puts the dead letters into the redrive target after `receive` has taken
them out of their group heap (provider.py:1293-1308). The put raises when
the target was deleted, or is a standard queue (nothing checks the type,
and `StandardQueue.put` rejects a deduplication id). A `DeadLetter` step
that drops the remaining dead letters without
`update_message_group_visibility`, added to the base cfg, breaks
`NoStrandedGroup` in 22 steps: the group stays claimed, and later messages
of it are never received. It is not part of the module, since a passing run
must fire every action and this one only breaks properties.

**fifo_dedup_race.** Two producers run the deduplication read before either
writes the table, so both messages are accepted.

**fifo_stranded_group.** The retention sweep runs between a receive's
`group.empty()` check and its claim. The claimed group is then never
released, and a message sent later is never received.

**fifo_dlq_dedup.** The `fifo_delivery` constants, checking
`LifecycleRefinement`. TLC finds this trace in 27 states:
1. message 1 (deduplication id d1) is sent at tick 0; a receive with
   visibility 0 pops it;
2. at tick 1, message 2 with the same id is accepted, since the interval
   of message 1 has passed;
3. a second receive pops message 1 (its second receive, so a dead letter)
   and message 2; the provider's `dl_queue.put` of message 1 is accepted,
   and the target records d1 at tick 1;
4. a third receive pops message 2 (its second receive, a dead letter);
5. the put of message 2 into the target is refused as a duplicate of
   message 1. Message 2 went from redriven to nowhere.

Reuse of a deduplication id after the 5-minute interval, or under the
messageGroup scope the same id in two groups (content-based deduplication
of equal bodies), is enough: the messages only have to be redriven within
one interval of each other.

### standard_delivery

The run uses:
- one producer, two consumers, two messages, three ticks and three receives;
- DelaySeconds 0 or 1 per message;
- receives of one or two messages;
- visibility-0 changes;
- maxReceiveCount 1;
- retention of one tick;
- purge, with SQS_DELAY_PURGE_RETRY.

It shows two things:

- every message that is neither deleted nor removed by retention is in
  exactly one place (being put, delayed, visible, taken by a receive, in
  flight, or in the DLQ), despite deletes racing the unlocked receive;
  a purged message is in none, and a message that a receive or a put holds
  during the purge survives it;
- undelayed messages are first received in creation order, as spec
  section 6 says.

Two messages are enough for both properties: each relates two messages,
or one message and the threads that hold it. Three messages with purge take
22M states and about 5 minutes.

### standard_retention_race

The retention sweep reads message 1 at `heap[0]`. A receive then gets
message 1. The sweep's `heappop` removes message 2, whose retention had not
run out, and message 2 is never delivered.

### The move-task runs

They use two messages and two consumer receives; the passing runs use
two tasks.

- **move_task_base.** With no redrive policy on the source, the model
  implements `MessageMove` and no message is moved twice. This holds even
  when the visibility timeout of 1 second runs out during a move, because
  the remove still deletes the requeued message.
- **move_task_settles.** Checks liveness under `FairSpec`, with
  maxReceiveCount 1 on the source, so the failing path of `_run` and the
  consumers' redrive are reachable too. One `set_queue_attributes` may
  remove the policy, store one without a target, or store it again.
- **redrive_policy_removed.** No tasks: a consumer, the requeue sweep and
  one `set_queue_attributes` that writes `RedrivePolicy = ""`. TLC finds
  `MessageMoveRefinement` violated in 6 states:
  1. the consumer receives message 1;
  2. message 1 expires and is requeued;
  3. the consumer's next `queue.receive` reads maxReceiveCount 1 and takes
     message 1 out as a dead letter (and message 2 as its result);
  4. `set_queue_attributes` deletes the RedrivePolicy;
  5. the handler's `queue.redrive_policy["deadLetterTargetArn"]`
     (provider.py:1292) subscripts None and raises, and message 1 is in no
     queue.
  A long poll keeps `queue.receive` waiting for up to 20 seconds after it
  read the policy, which widens the window. The same loss happens without
  a race when `set_queue_attributes` stores a policy without
  `deadLetterTargetArn` (stored at line 1416, refused at line 1433) and a
  later receive goes over it: with `InitialPolicy = "none"` and
  `PolicyValues = {"noTarget"}`, TLC finds it in 6 states as well
  (observed, not a run).
- **A dead-letter queue with its own redrive policy (observed, not a
  run).** With `InitialPolicy = "valid"` in the base cfg, TLC finds
  `MessageMoveRefinement` violated:
  1. a consumer receives message 1;
  2. message 1 expires and is requeued;
  3. the task's receive counts a second receive, over maxReceiveCount 1;
  4. `receive` returns the message only as a dead letter;
  5. `_run` raises (provider.py:516), and the message is in no queue.
- **The status machine (observed, not a run).** With `SPECIFICATION Spec`,
  `DeletableQueues = {}` and `PROPERTY MoveTaskStatusSpec`, TLC finds this
  trace: a task is cancelled, ends CANCELLED, and a second cancel puts it
  back in CANCELLING (provider.py:483). Nothing will ever finish it, and
  the source refuses new tasks from then on. A unit test reaches this
  sequence directly, so the run budget went to redrive_policy_removed.
  With deletion allowed, the shortest trace is a second divergence instead: the source is deleted between
  `start_message_move_task`'s check and `submit`, and `_fail_task` moves
  the task from CREATED straight to FAILED.

`move_task_base` and `move_task_settles` allow both
queues to be deleted at any point. `MessageMoveRefinement` and
`TaskSettles` therefore also cover a source or destination deleted in the
middle of a task.

### Bounds

- **Three messages and one group.** Enough for an older and a younger
  message of a group, plus a third that tests the release of a group.
- **Two consumers.** Needed to show interference.
- **Three receives.** Enough to re-receive a message after a visibility-0
  receive or a requeue.
- **Two ticks.** Enough to let visibility expire (timeout 1).
- **One purge.** `PurgeQueue` is off (`MaxPurges = 0`) in `fifo_delivery`
  and on in the delay run. One purge already reaches every step a purge can
  interrupt; a second would only repeat it on fresh group objects.
- **Three ticks for delay and retention.** Lets a delayed message become due
  and a message outlive a retention of 2.

Larger settings (two groups, two producers with batches) exceed a
20-minute run. The violation runs add only the constant they need: a second
producer or group, a scope, or visibility timeouts {0, 2}.

### Fairness

`FifoQueue`'s `FairSpec` assumes weak fairness for:
- `Tick`: time passes;
- each of the three sweeps: `QueueUpdateWorker.start` schedules
  `do_update_all_queues` every second, and each sweep catches its own
  exceptions;
- the steps of a put or a receive already started (`ReceiveInCall`): none
  of them waits on a client.

Clients get none: nothing obliges them to send, receive, delete or change a
visibility. `StandardQueue` assumes no fairness; its properties are
invariants. `MessageMoveTask`'s `FairSpec` assumes weak fairness only for code that the
process runs once it has begun:
- `Submit` and `CancelSet` finish a request already in progress;
- the worker's steps run on the executor thread of `submit`.

Clients, consumers and the requeue sweep get no fairness.

A waiting message of a group being eventually *received* needs a consumer
to call receive, which no code obliges. That concern is checked as the
safety property `NoStrandedGroup`: between calls, a group with a waiting
message must be reachable by the next receive.

## 4. Not modelled yet, and the plan

1. **StandardQueue: shutdown.** `visible.shutdown()` waking a blocked
   receive is not modelled. Queue deletion is modelled only as removal from
   the store, in `MessageMoveTask`. Purge is modelled.
2. **MessageMoveTaskManager, what remains.** Modelled in `MessageMoveTask`,
   except for:
   - `close()`;
   - a second task for a deleted source ARN. After a re-created queue,
     `list_message_move_tasks` would sort a task failed in `submit`
     (no `started_timestamp`) together with a started one;
   - FIFO sources, where a remove with an expired handle raises after the
     put;
   - redrive to the original sources.
3. **More abstract specifications.**
   - A FIFO specification with per-group queues and exclusive ownership.
   - `StandardQueue` against `MessageLifecycle`. The mapping holds on the
     `standard_delivery` bounds, but with it that run takes about 4m40s
     instead of 2 minutes, too close to the 5-minute budget of a run.
4. **Smaller items:**
   - send_message_batch for standard queues (a whole batch under the
     mutex, which there only keeps the sweeps and purge out).
     For FIFO queues, send_message_batch, delete_message_batch and
     change_message_visibility_batch run the single operations one after
     the other under the queue mutex. Their reachable states are those of
     the single calls in a row, which `FifoQueue` has, so they add no
     action;
   - set_queue_attributes changing VisibilityTimeout, or the RedrivePolicy
     of a FIFO queue or of a standard queue outside a move task (the
     standard case is the one `MessageMoveTask` has, with its consumer);
   - set_queue_attributes changing DelaySeconds (FIFO `update_delay_seconds`
     is never called by the provider);
   - a dead-letter put that fails, as a step of the module (see the observed behaviour under the violation runs);
   - a run of its own for the chained dead-letter queue of a move task (observed, see the move-task runs).

These are left out, with their reasons:
- queue life cycle (other than `delete_queue` under a move task), tags,
  permissions and attribute validation: dictionary updates without
  concurrency;
- CloudWatch metrics: fire-and-forget I/O;
- developer endpoints;
- the test files of other services under `src/tests`.
