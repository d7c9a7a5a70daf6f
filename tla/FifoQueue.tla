----------------------------- MODULE FifoQueue -----------------------------
(***************************************************************************)
(* The FIFO queue of the SQS engine (models.py: FifoQueue, MessageGroup,   *)
(* SqsMessage, the shared SqsQueue operations, and the receive/delete      *)
(* handlers of provider.py that drive them).                               *)
(*                                                                         *)
(* Threads: producers run SendMessage (FifoQueue.put), consumers run       *)
(* ReceiveMessage (FifoQueue.receive followed by the provider's dead-      *)
(* letter handling), any client may DeleteMessage or                       *)
(* ChangeMessageVisibility with a receipt handle it was given, and the     *)
(* QueueUpdateWorker sweeps the queue.  Every block the code runs under    *)
(* the queue mutex is one action; the code that runs outside it (the       *)
(* group-queue get, the group.empty() check, inflight_groups.add, the      *)
(* dedup read in put) is split into steps of its own.                      *)
(*                                                                         *)
(* Time is a tick counter; every duration (visibility timeout, delay,      *)
(* retention, deduplication interval) is a number of ticks.  The code      *)
(* compares float timestamps with a mix of <, <= and >; on ticks every     *)
(* such comparison reads "the deadline that falls in tick t has passed     *)
(* during t", so that a sweep and a delete in one tick agree on it (they   *)
(* differ on a real clock only at the instant of the deadline).            *)
(***************************************************************************)
EXTENDS Naturals, Sequences, FiniteSets, SequencesExt

CONSTANTS
    Producers,              \* threads calling SendMessage
    Consumers,              \* threads calling ReceiveMessage
    Groups,                 \* MessageGroupId values
    DedupIds,               \* deduplication ids (explicit or content hashes)
    MaxMsgs,                \* bound: SqsMessage objects created (= sequence numbers drawn)
    MaxTime,                \* bound: ticks of the clock
    MaxReceives,            \* bound: ReceiveMessage calls
    NumMessages,            \* MaxNumberOfMessages values a receive may ask for
    VisibilityTimeouts,     \* VisibilityTimeout values of receive / ChangeMessageVisibility
    QueueVisibilityTimeout, \* queue attribute VisibilityTimeout
    QueueDelaySeconds,      \* queue attribute DelaySeconds
    MaxReceiveCount,        \* redrive policy maxReceiveCount, 0 when no policy is set
    DeduplicationInterval,  \* sqs_constants.DEDUPLICATION_INTERVAL_IN_SEC
    RetentionPeriod,        \* queue attribute MessageRetentionPeriod
    RetentionEnabled,       \* config.SQS_ENABLE_MESSAGE_RETENTION_PERIOD
    DeduplicationScope,     \* "queue" or "messageGroup", fixed at creation
    DelayPurgeRetry,        \* config.SQS_DELAY_PURGE_RETRY
    PurgeRetrySeconds,      \* the 60 seconds between two purges it enforces
    MaxPurges,              \* bound: PurgeQueue calls that clear the queue
    NoConsumer              \* model value: no consumer

ASSUME /\ MaxMsgs \in Nat \ {0}
       /\ NumMessages \subseteq Nat \ {0}
       /\ QueueVisibilityTimeout \in Nat \ {0}
       /\ MaxReceiveCount \in Nat
       /\ DeduplicationScope \in {"queue", "messageGroup"}
       /\ MaxPurges \in Nat

MsgIds == 1..MaxMsgs
Times  == 0..MaxTime
NoTime == -1
\* a receipt handle encodes the message and its last_received timestamp; n
\* (the receive count at issue) stands for the random part that makes two
\* handles of one message distinct
Handles == [msg : MsgIds, lr : Times, n : Nat]
\* A MessageGroup object: its group id and the purge generation that created
\* it.  FifoQueue.clear empties message_groups, so get_message_group creates
\* a new object for the id; an old object keeps its heap, and a thread that
\* holds it goes on using it.  Objects compare and hash by group id only
\* (MessageGroup.__eq__, __hash__), so inflight_groups holds ids.
Gens      == 0..MaxPurges
GroupObjs == Groups \X Gens

VARIABLES
    now,                \* time.time()
    nextId,             \* next SqsMessage id; ids are drawn in creation order,
                        \* so id order is priority (creation time) order
    msg,                \* per SqsMessage: its fields
    deduplication,      \* FifoQueue.deduplication: dedup id -> message id (0: none)
    gen,                \* purges so far: the generation of message_groups' objects
    messageGroups,      \* MessageGroup.messages heap of every group object, as a set
    messageGroupQueue,  \* FifoQueue.message_group_queue (InterruptibleQueue) of objects
    inflightGroups,     \* FifoQueue.inflight_groups (group ids)
    inflight,           \* SqsQueue.inflight
    delayed,            \* SqsQueue.delayed
    receipts,           \* SqsQueue.receipts, as the set of its keys
    sending,            \* per producer: message created by put, not yet enqueued (0: none)
    putStage,           \* per producer: where the rest of put is
    putObj,             \* per producer: the group object _put_message fetched
    purgeTimestamp,     \* SqsQueue.purge_timestamp
    purged,             \* history: messages a purge took out of the queue
    sentGen,            \* history: the purge generation in which each message was sent
    pc,                 \* per consumer: where its receive call is
    req,                \* per consumer: num_messages and visibility_timeout of the call
    cur,                \* per consumer: the group it took from message_group_queue
    successful,         \* per consumer: ReceiveMessageResult.successful
    deadLetters,        \* per consumer: ReceiveMessageResult.dead_letter_messages
    dlq,                \* messages put into the dead-letter target queue
    dlqDeduplication,   \* the target's deduplication table: dedup id -> creation
                        \* time of the message it records (NoTime: none)
    holder,             \* history: the consumer that last de-queued each message
    duplicates,         \* history: messages put refused as duplicates
    receives            \* bound counter: ReceiveMessage calls started

vars == <<now, nextId, msg, deduplication, gen, messageGroups, messageGroupQueue,
          inflightGroups, inflight, delayed, receipts, sending, putStage, putObj,
          purgeTimestamp, purged, sentGen, pc, req, cur, successful, deadLetters, dlq, dlqDeduplication,
          holder, duplicates, receives>>
\* the variables only put and purge change
putVars == <<gen, putStage, putObj, purgeTimestamp, purged, sentGen>>


MsgRec == [group : Groups, dedup : DedupIds, created : Times, rc : Nat,
           vt : Nat, lr : Times \cup {NoTime}, deadline : Nat \cup {NoTime},
           deleted : BOOLEAN, handles : SUBSET Handles]

Created == 1..(nextId - 1)
GroupOf(m) == msg[m].group
\* get_message_group(g): the object of g in message_groups
Obj(g) == <<g, gen>>

-----------------------------------------------------------------------------
(* SqsMessage properties                                                   *)

\* is_visible: no deadline, or the deadline has passed
IsVisible(m) == msg[m].deadline = NoTime \/ now >= msg[m].deadline

\* is_delayed: time.time() <= created + delay_seconds; within put the clock
\* has advanced past `created` by microseconds, so a delay of 0 never delays
IsDelayed(m) == now < msg[m].created + QueueDelaySeconds

\* FifoQueue._pre_delete_checks: time.time() - last_received of the handle
\* > visibility_timeout of the message (a timeout of 0 expires at once).
\* With whole ticks, a delete in the tick of the deadline runs after the
\* receive by the timeout plus the fraction of a second between them, so it
\* counts as expired, as IsVisible makes the message visible in that tick.
HandleExpired(h) == now - h.lr >= msg[h.msg].vt

-----------------------------------------------------------------------------
(* _put_message and update_message_group_visibility act on the group      *)
(* structures, given here as a record so that a handler can apply them to  *)
(* several messages in a row.                                              *)

GroupState == [groups |-> messageGroups, queue |-> messageGroupQueue,
               ig |-> inflightGroups]

\* _put_message releasing an in-flight group without re-queueing it
PutMessageToNoRequeue(s, o, m, rc) ==
    LET g == o[1]
        previouslyEmpty == s.groups[o] = {}
        pushed == [s EXCEPT !.groups[o] = @ \cup {m}]
    IN  IF rc < 1 /\ g \in s.ig THEN pushed
        ELSE IF g \in s.ig
             THEN [pushed EXCEPT !.ig = @ \ {g}]
        ELSE IF previouslyEmpty
             THEN [pushed EXCEPT !.queue = Append(@, o)]
        ELSE pushed

\* FifoQueue._put_message(message) into the group object o, for a message
\* with receive count rc; membership of inflight_groups is by group id
PutMessageTo(s, o, m, rc) ==
    LET g == o[1]
        previouslyEmpty == s.groups[o] = {}
        pushed == [s EXCEPT !.groups[o] = @ \cup {m}]
    IN  IF rc < 1 /\ g \in s.ig THEN pushed
        ELSE IF g \in s.ig
             THEN [pushed EXCEPT !.ig = @ \ {g}, !.queue = Append(@, o)]
        ELSE IF previouslyEmpty
             THEN [pushed EXCEPT !.queue = Append(@, o)]
        ELSE pushed

\* _put_message under a mutex the caller already holds: get_message_group
\* and the push see the same message_groups
PutMessage(s, m, rc) == PutMessageTo(s, Obj(GroupOf(m)), m, rc)

\* _put_message of the messages of seq, in order
PutMessages(s, seq) ==
    FoldLeft(LAMBDA acc, m : PutMessage(acc, m, msg[m].rc), s, seq)

\* update_message_group_visibility releasing the group without re-queueing it
UpdateGroupVisibilityNoRequeue(s, g, infl) ==
    IF g \in s.ig /\ \A m \in infl : GroupOf(m) # g
    THEN [s EXCEPT !.ig = @ \ {g}]
    ELSE s

\* FifoQueue.update_message_group_visibility(group), with inflight as given
UpdateGroupVisibility(s, g, infl) ==
    IF g \in s.ig /\ \A m \in infl : GroupOf(m) # g
    THEN [s EXCEPT !.ig = @ \ {g},
                   !.queue = IF s.groups[Obj(g)] # {} THEN Append(@, Obj(g)) ELSE @]
    ELSE s

SetGroupState(s) ==
    /\ messageGroups' = s.groups
    /\ messageGroupQueue' = s.queue
    /\ inflightGroups' = s.ig

-----------------------------------------------------------------------------
(* FifoQueue.put, split at the points where other threads can interleave: *)
(* Send creates the SqsMessage (priority, sequence number) and reads the   *)
(* deduplication table; EnqueueMessage adds it to delayed, or fetches its  *)
(* group object (get_message_group, under the mutex); PushMessage runs the *)
(* rest of _put_message under the mutex again; RecordDeduplication writes  *)
(* the table.  put itself holds no lock: send_message does not take one.   *)

\* the message in the deduplication table makes a new one a duplicate
IsDuplicate(d, g) ==
    LET o == deduplication[d]
    IN  /\ o # 0
        /\ msg[o].created + DeduplicationInterval > now
        /\ DeduplicationScope # "messageGroup" \/ g = msg[o].group

Send(p, g, d) ==
    /\ sending[p] = 0
    /\ nextId <= MaxMsgs
    /\ nextId' = nextId + 1
    /\ msg' = [msg EXCEPT ![nextId] =
                 [group |-> g, dedup |-> d, created |-> now, rc |-> 0,
                  vt |-> QueueVisibilityTimeout, lr |-> NoTime,
                  deadline |-> NoTime, deleted |-> FALSE, handles |-> {}]]
    /\ sentGen' = [sentGen EXCEPT ![nextId] = gen]
       \* a duplicate only gets the original's MessageId; nothing is enqueued
    /\ IF IsDuplicate(d, g)
       THEN /\ duplicates' = duplicates \cup {nextId}
            /\ UNCHANGED <<sending, putStage>>
       ELSE /\ sending' = [sending EXCEPT ![p] = nextId]
            /\ putStage' = [putStage EXCEPT ![p] = "enqueue"]
            /\ UNCHANGED duplicates
    /\ UNCHANGED <<now, deduplication, gen, messageGroups, messageGroupQueue,
                   inflightGroups, inflight, delayed, receipts, putObj, purgeTimestamp,
                   purged, pc, req, cur, successful, deadLetters, dlq, dlqDeduplication, holder, receives>>

\* if fifo_message.is_delayed: self.delayed.add(...), else _put_message's
\* get_message_group
EnqueueMessage(p) ==
    LET m == sending[p]
    IN  /\ putStage[p] = "enqueue"
        /\ IF QueueDelaySeconds > 0 /\ IsDelayed(m)
           THEN /\ delayed' = delayed \cup {m}
                /\ putStage' = [putStage EXCEPT ![p] = "record"]
                /\ UNCHANGED putObj
           ELSE /\ putObj' = [putObj EXCEPT ![p] = Obj(GroupOf(m))]
                /\ putStage' = [putStage EXCEPT ![p] = "push"]
                /\ UNCHANGED delayed
        /\ UNCHANGED <<now, nextId, msg, deduplication, gen, messageGroups,
                       messageGroupQueue, inflightGroups, inflight, receipts, sending,
                       purgeTimestamp, purged, sentGen, pc, req, cur, successful, deadLetters,
                       dlq, dlqDeduplication, holder, duplicates, receives>>

\* _put_message's block under the mutex, on the object fetched before
PushMessage(p) ==
    /\ putStage[p] = "push"
    /\ SetGroupState(PutMessageTo(GroupState, putObj[p], sending[p], 0))
    /\ putStage' = [putStage EXCEPT ![p] = "record"]
    /\ UNCHANGED <<now, nextId, msg, deduplication, gen, inflight, delayed, receipts,
                   sending, putObj, purgeTimestamp, purged, sentGen, pc, req, cur, successful,
                   deadLetters, dlq, dlqDeduplication, holder, duplicates, receives>>

\* put without `self.deduplication[dedup_id] = fifo_message`
RecordDeduplicationSkipped(p) ==
    /\ putStage[p] = "record"
    /\ sending' = [sending EXCEPT ![p] = 0]
    /\ putStage' = [putStage EXCEPT ![p] = "idle"]
    /\ UNCHANGED <<now, nextId, msg, deduplication, gen, messageGroups, messageGroupQueue,
                   inflightGroups, inflight, delayed, receipts, putObj, purgeTimestamp,
                   purged, sentGen, pc, req, cur, successful, deadLetters, dlq, dlqDeduplication, holder,
                   duplicates, receives>>

\* self.deduplication[dedup_id] = fifo_message; put returns
RecordDeduplication(p) ==
    /\ putStage[p] = "record"
    /\ deduplication' = [deduplication EXCEPT ![msg[sending[p]].dedup] = sending[p]]
    /\ sending' = [sending EXCEPT ![p] = 0]
    /\ putStage' = [putStage EXCEPT ![p] = "idle"]
    /\ UNCHANGED <<now, nextId, msg, gen, messageGroups, messageGroupQueue,
                   inflightGroups, inflight, delayed, receipts, putObj, purgeTimestamp,
                   purged, sentGen, pc, req, cur, successful, deadLetters, dlq, dlqDeduplication, holder,
                   duplicates, receives>>

-----------------------------------------------------------------------------
(* FifoQueue.receive, one step per piece the code runs without             *)
(* interruption, then the provider's dead-letter handling.                 *)

\* message_group_queue.get returns a group; an idle consumer starts a call
GetGroup(c) ==
    /\ \/ pc[c] = "get"
       \/ /\ pc[c] = "idle"
          /\ receives < MaxReceives
          /\ \E n \in NumMessages, v \in VisibilityTimeouts \cup {QueueVisibilityTimeout} :
                req' = [req EXCEPT ![c] = [num |-> n, vt |-> v]]
    /\ pc[c] = "get" => UNCHANGED <<req, receives>>
    /\ pc[c] = "idle" => receives' = receives + 1
    /\ messageGroupQueue # <<>>
    /\ cur' = [cur EXCEPT ![c] = Head(messageGroupQueue)]
    /\ messageGroupQueue' = Tail(messageGroupQueue)
    /\ pc' = [pc EXCEPT ![c] = "check"]
    /\ UNCHANGED <<now, nextId, msg, deduplication, messageGroups, inflightGroups,
                   inflight, delayed, receipts, sending, successful, deadLetters,
                   dlq, dlqDeduplication, holder, duplicates, putVars>>

\* message_group_queue.get raises Empty: the collecting loop ends
GetEmpty(c) ==
    /\ pc[c] = "get"
    /\ messageGroupQueue = <<>>
    /\ pc' = [pc EXCEPT ![c] = "finish"]
    /\ UNCHANGED <<now, nextId, msg, deduplication, messageGroups,
                   messageGroupQueue, inflightGroups, inflight, delayed,
                   receipts, sending, req, cur, successful, deadLetters, dlq, dlqDeduplication, holder, duplicates, putVars, receives>>

\* if group.empty(): continue
CheckGroup(c) ==
    /\ pc[c] = "check"
    /\ pc' = [pc EXCEPT ![c] = IF messageGroups[cur[c]] = {} THEN "get" ELSE "claim"]
    /\ UNCHANGED <<now, nextId, msg, deduplication, messageGroups,
                   messageGroupQueue, inflightGroups, inflight, delayed,
                   receipts, sending, req, cur, successful, deadLetters, dlq, dlqDeduplication, holder, duplicates, putVars, receives>>

\* self.inflight_groups.add(group), outside the mutex
ClaimGroup(c) ==
    /\ pc[c] = "claim"
    /\ inflightGroups' = inflightGroups \cup {cur[c][1]}
    /\ pc' = [pc EXCEPT ![c] = "pop"]
    /\ UNCHANGED <<now, nextId, msg, deduplication, messageGroups,
                   messageGroupQueue, inflight, delayed, receipts, sending,
                   req, cur, successful, deadLetters, dlq, dlqDeduplication, holder, duplicates, putVars, receives>>

\* The inner loop under the mutex: pop the oldest message of the group,
\* skip it if deleted, else count the receive and sort it into the dead
\* letters (receive count above maxReceiveCount) or the successful ones,
\* until num_messages are successful or the group is empty.
\* pop taking the newest message (list.pop instead of heapq.heappop)
Newest(heap) == CHOOSE x \in heap : \A y \in heap : x >= y

\* MessageGroup.pop: heappop, the message of least priority (creation time)
Oldest(heap) == CHOOSE x \in heap : \A y \in heap : x <= y

\* the pop loop without message.set_last_received(time.time())
RECURSIVE PopLoopNoLastReceived(_, _, _)
PopLoopNoLastReceived(st, num, vt) ==
    IF st.heap = {} THEN st
    ELSE LET m    == Oldest(st.heap)
             rest == [st EXCEPT !.heap = @ \ {m}]
             rc   == st.msg[m].rc + 1
             recv == [rest EXCEPT !.msg[m].rc = rc, !.msg[m].vt = vt,
                                  !.msg[m].deadline = now + vt, !.popped = @ \cup {m}]
         IN  IF st.msg[m].deleted THEN PopLoopNoLastReceived(rest, num, vt)
             ELSE IF MaxReceiveCount > 0 /\ rc > MaxReceiveCount
             THEN PopLoopNoLastReceived([recv EXCEPT !.dead = Append(@, m)], num, vt)
             ELSE LET ok == [recv EXCEPT !.succ = Append(@, m)]
                  IN  IF Len(ok.succ) = num THEN ok ELSE PopLoopNoLastReceived(ok, num, vt)

RECURSIVE PopLoop(_, _, _)
PopLoop(st, num, vt) ==
    IF st.heap = {} THEN st
    ELSE LET m    == Oldest(st.heap)
             rest == [st EXCEPT !.heap = @ \ {m}]
             rc   == st.msg[m].rc + 1
             recv == [rest EXCEPT !.msg[m].rc = rc, !.msg[m].vt = vt,
                                  !.msg[m].lr = now, !.msg[m].deadline = now + vt,
                                  !.popped = @ \cup {m}]
         IN  IF st.msg[m].deleted THEN PopLoop(rest, num, vt)
             ELSE IF MaxReceiveCount > 0 /\ rc > MaxReceiveCount
             THEN PopLoop([recv EXCEPT !.dead = Append(@, m)], num, vt)
             ELSE LET ok == [recv EXCEPT !.succ = Append(@, m)]
                  IN  IF Len(ok.succ) = num THEN ok ELSE PopLoop(ok, num, vt)

PopMessages(c) ==
    /\ pc[c] = "pop"
    /\ LET g  == cur[c]
           st == PopLoop([heap |-> messageGroups[g], msg |-> msg,
                          succ |-> successful[c], dead |-> deadLetters[c],
                          popped |-> {}], req[c].num, req[c].vt)
       IN  /\ messageGroups' = [messageGroups EXCEPT ![g] = st.heap]
           /\ msg' = st.msg
           /\ successful' = [successful EXCEPT ![c] = st.succ]
           /\ deadLetters' = [deadLetters EXCEPT ![c] = st.dead]
           /\ holder' = [m \in MsgIds |-> IF m \in st.popped THEN c ELSE holder[m]]
           /\ pc' = [pc EXCEPT ![c] = IF Len(st.succ) = req[c].num THEN "finish" ELSE "get"]
    /\ UNCHANGED <<now, nextId, deduplication, messageGroupQueue, inflightGroups,
                   inflight, delayed, receipts, sending, req, cur, dlq, dlqDeduplication, duplicates, putVars, receives>>

\* Under the mutex: a receipt handle for every successful message, then
\* back into the group if its visibility timeout is 0, else in flight.
FinishReceive(c) ==
    /\ pc[c] = "finish"
    /\ LET succ == successful[c]
           S    == ToSet(succ)
           H(m) == [msg |-> m, lr |-> msg[m].lr, n |-> msg[m].rc]
           back == SelectSeq(succ, LAMBDA m : msg[m].vt = 0)
       IN  /\ msg' = [m \in MsgIds |-> IF m \in S
                                       THEN [msg[m] EXCEPT !.handles = @ \cup {H(m)}]
                                       ELSE msg[m]]
           /\ receipts' = receipts \cup {H(m) : m \in S}
           /\ inflight' = inflight \cup {m \in S : msg[m].vt # 0}
           /\ SetGroupState(PutMessages(GroupState, back))
    /\ successful' = [successful EXCEPT ![c] = <<>>]
    /\ pc' = [pc EXCEPT ![c] = IF deadLetters[c] = <<>> THEN "idle" ELSE "dead"]
    /\ UNCHANGED <<now, nextId, deduplication, delayed, sending, req, cur,
                   deadLetters, dlq, dlqDeduplication, holder, duplicates, putVars, receives>>

\* The dead-letter target of a FIFO queue is a FIFO queue (a standard one
\* refuses the deduplication id put passes), here with default attributes:
\* scope "queue" and no delay.  Its put refuses a message whose
\* deduplication id it recorded within the interval, as FifoQueue.put does.
DlqDuplicate(d) ==
    /\ dlqDeduplication[d] # NoTime
    /\ dlqDeduplication[d] + DeduplicationInterval > now

\* SqsProvider.receive_message: dl_queue.put of one dead letter with its
\* deduplication and group id (a refused put returns normally, with the
\* original's MessageId), then update_message_group_visibility of its group
DeadLetter(c) ==
    /\ pc[c] = "dead"
    /\ LET m == Head(deadLetters[c])
           d == msg[m].dedup
       IN  /\ IF DlqDuplicate(d)
              THEN UNCHANGED <<dlq, dlqDeduplication>>
              ELSE /\ dlq' = dlq \cup {m}
                   /\ dlqDeduplication' = [dlqDeduplication EXCEPT ![d] = now]
           /\ SetGroupState(UpdateGroupVisibility(GroupState, GroupOf(m), inflight))
    /\ deadLetters' = [deadLetters EXCEPT ![c] = Tail(@)]
    /\ pc' = [pc EXCEPT ![c] = IF Len(deadLetters[c]) = 1 THEN "idle" ELSE "dead"]
    /\ UNCHANGED <<now, nextId, msg, deduplication, inflight, delayed, receipts,
                   sending, req, cur, successful, holder, duplicates, putVars, receives>>

-----------------------------------------------------------------------------
(* Handlers a client runs with a receipt handle, each under the mutex.     *)

\* FifoQueue._on_remove_message: the message leaves inflight and its group
\* may become visible again
OnRemoveMessage(m) ==
    /\ inflight' = inflight \ {m}
    /\ SetGroupState(UpdateGroupVisibility(GroupState, GroupOf(m), inflight \ {m}))

\* SqsQueue.remove with FifoQueue._pre_delete_checks: a handle that is in
\* receipts and not expired marks the message deleted, then deletes each of
\* its handles from receipts and runs _on_remove_message.  A handle that a
\* purge dropped from receipts makes `del self.receipts[handle]` raise
\* KeyError: the handles iterated before it are gone, the message stays
\* deleted, in flight and with its handles.
DeleteMessage(h) ==
    LET m == h.msg
    IN  /\ h \in receipts
        /\ ~HandleExpired(h)
        /\ \/ /\ msg[m].handles \subseteq receipts
              /\ msg' = [msg EXCEPT ![m].deleted = TRUE, ![m].handles = {}]
              /\ receipts' = receipts \ msg[m].handles
              /\ OnRemoveMessage(m)
           \/ /\ ~(msg[m].handles \subseteq receipts)
              /\ msg' = [msg EXCEPT ![m].deleted = TRUE]
              /\ \E before \in SUBSET (msg[m].handles \cap receipts) :
                    receipts' = receipts \ before
              /\ UNCHANGED <<inflight, messageGroups, messageGroupQueue, inflightGroups>>
        /\ UNCHANGED <<now, nextId, deduplication, delayed, sending, pc, req, cur,
                       successful, deadLetters, dlq, dlqDeduplication, holder, duplicates, putVars, receives>>

\* SqsQueue.update_visibility_timeout; a timeout of 0 ends the visibility
\* timeout at once and puts the message back into its group
ChangeMessageVisibility(h, v) ==
    LET m == h.msg
    IN  /\ h \in receipts
        /\ m \in inflight
        /\ msg' = [msg EXCEPT ![m].vt = v, ![m].deadline = now + v]
        /\ IF v = 0
           THEN /\ inflight' = inflight \ {m}
                /\ SetGroupState(PutMessage(GroupState, m, msg[m].rc))
           ELSE UNCHANGED <<inflight, messageGroups, messageGroupQueue, inflightGroups>>
        /\ UNCHANGED <<now, nextId, deduplication, delayed, receipts, sending, pc,
                       req, cur, successful, deadLetters, dlq, dlqDeduplication, holder, duplicates, putVars, receives>>

\* SqsProvider.purge_queue under the queue mutex: refused within
\* PurgeRetrySeconds of the last purge when SQS_DELAY_PURGE_RETRY is set (a
\* refusal changes nothing), else the timestamp is set and FifoQueue.clear
\* empties inflight, delayed, receipts, message_groups (a new generation of
\* group objects), inflight_groups, message_group_queue and deduplication.
\* The cleared objects keep their heaps.
PurgeQueue ==
    /\ gen < MaxPurges
    /\ ~(DelayPurgeRetry /\ purgeTimestamp # NoTime
         /\ purgeTimestamp + PurgeRetrySeconds > now)
    /\ purgeTimestamp' = now
    /\ purged' = purged \cup inflight \cup delayed
                 \cup UNION {messageGroups[Obj(g)] : g \in Groups}
    /\ inflight' = {}
    /\ delayed' = {}
    /\ receipts' = {}
    /\ gen' = gen + 1
    /\ inflightGroups' = {}
    /\ messageGroupQueue' = <<>>
    /\ deduplication' = [d \in DedupIds |-> 0]
    /\ UNCHANGED <<now, nextId, msg, messageGroups, sending, putStage, putObj, sentGen, pc,
                   req, cur, successful, deadLetters, dlq, dlqDeduplication, holder, duplicates, receives>>

-----------------------------------------------------------------------------
(* QueueUpdateWorker.do_update_all_queues: three calls, each under the     *)
(* mutex.  The messages of a sweep are taken in set iteration order, which *)
(* the code does not fix: any order.                                       *)

\* requeue_inflight_messages without `self.inflight.remove(standard_message)`
RequeueKeepsInflight ==
    LET due == {m \in inflight : IsVisible(m)}
    IN  /\ due # {}
        /\ \E order \in SetToSeqs(due) : SetGroupState(PutMessages(GroupState, order))
        /\ UNCHANGED <<now, nextId, msg, deduplication, inflight, delayed, receipts, sending,
                       pc, req, cur, successful, deadLetters, dlq, dlqDeduplication, holder, duplicates, putVars, receives>>

RequeueInflightMessages ==
    LET due == {m \in inflight : IsVisible(m)}
    IN  /\ due # {}
        /\ inflight' = inflight \ due
        /\ \E order \in SetToSeqs(due) : SetGroupState(PutMessages(GroupState, order))
        /\ UNCHANGED <<now, nextId, msg, deduplication, delayed, receipts, sending,
                       pc, req, cur, successful, deadLetters, dlq, dlqDeduplication, holder, duplicates, putVars, receives>>

EnqueueDelayedMessages ==
    LET due == {m \in delayed : ~IsDelayed(m)}
    IN  /\ due # {}
        /\ delayed' = delayed \ due
        /\ \E order \in SetToSeqs(due) : SetGroupState(PutMessages(GroupState, order))
        /\ UNCHANGED <<now, nextId, msg, deduplication, inflight, receipts, sending,
                       pc, req, cur, successful, deadLetters, dlq, dlqDeduplication, holder, duplicates, putVars, receives>>

\* FifoQueue.remove_expired_messages: every group heap of message_groups
\* loses the messages with created <= time.time() - MessageRetentionPeriod
RemoveExpiredMessages ==
    LET expired == {m \in UNION {messageGroups[Obj(g)] : g \in Groups} :
                       msg[m].created <= now - RetentionPeriod}
    IN  /\ expired # {}
        /\ messageGroups' = [o \in GroupObjs |->
                                IF o[2] = gen THEN messageGroups[o] \ expired
                                ELSE messageGroups[o]]
        /\ UNCHANGED <<now, nextId, msg, deduplication, messageGroupQueue,
                       inflightGroups, inflight, delayed, receipts, sending, pc,
                       req, cur, successful, deadLetters, dlq, dlqDeduplication, holder, duplicates, putVars, receives>>

\* the clock advances; a put runs in microseconds, far below a tick, so
\* no put is in progress across a tick
Tick ==
    /\ now < MaxTime
    /\ \A p \in Producers : sending[p] = 0
    /\ now' = now + 1
    /\ UNCHANGED <<nextId, msg, deduplication, messageGroups, messageGroupQueue,
                   inflightGroups, inflight, delayed, receipts, sending, pc, req,
                   cur, successful, deadLetters, dlq, dlqDeduplication, holder, duplicates, putVars, receives>>

\* No thread is inside a handler: the server waits for requests.  The
\* bounds stop new requests here, so the model rests in such a state.
Quiescent ==
    /\ \A c \in Consumers : pc[c] = "idle"
    /\ \A p \in Producers : sending[p] = 0
    /\ UNCHANGED vars

-----------------------------------------------------------------------------

Init ==
    /\ now = 0
    /\ nextId = 1
    /\ msg = [m \in MsgIds |->
                [group |-> CHOOSE g \in Groups : TRUE,
                 dedup |-> CHOOSE d \in DedupIds : TRUE, created |-> 0, rc |-> 0,
                 vt |-> QueueVisibilityTimeout, lr |-> NoTime, deadline |-> NoTime,
                 deleted |-> FALSE, handles |-> {}]]
    /\ deduplication = [d \in DedupIds |-> 0]
    /\ gen = 0
    /\ messageGroups = [o \in GroupObjs |-> {}]
    /\ messageGroupQueue = <<>>
    /\ inflightGroups = {}
    /\ inflight = {}
    /\ delayed = {}
    /\ receipts = {}
    /\ sending = [p \in Producers |-> 0]
    /\ putStage = [p \in Producers |-> "idle"]
    /\ putObj = [p \in Producers |-> <<CHOOSE g \in Groups : TRUE, 0>>]
    /\ purgeTimestamp = NoTime
    /\ purged = {}
    /\ sentGen = [m \in MsgIds |-> 0]
    /\ pc = [c \in Consumers |-> "idle"]
    /\ req = [c \in Consumers |-> [num |-> 1, vt |-> QueueVisibilityTimeout]]
    /\ cur = [c \in Consumers |-> <<CHOOSE g \in Groups : TRUE, 0>>]
    /\ successful = [c \in Consumers |-> <<>>]
    /\ deadLetters = [c \in Consumers |-> <<>>]
    /\ dlq = {}
    /\ dlqDeduplication = [d \in DedupIds |-> NoTime]
    /\ holder = [m \in MsgIds |-> NoConsumer]
    /\ duplicates = {}
    /\ receives = 0

\* QueueUpdateWorker.do_update_all_queues on this queue: the three sweeps,
\* the last only when SQS_ENABLE_MESSAGE_RETENTION_PERIOD is set; each
\* catches its own exceptions, and the timer repeats them every second
UpdateAllQueues ==
    \/ RequeueInflightMessages
    \/ EnqueueDelayedMessages
    \/ RetentionEnabled /\ RemoveExpiredMessages

Next ==
    \/ \E p \in Producers, g \in Groups, d \in DedupIds : Send(p, g, d)
    \/ \E p \in Producers :
          EnqueueMessage(p) \/ PushMessage(p) \/ RecordDeduplication(p)
    \/ \E c \in Consumers :
          \/ GetGroup(c) \/ GetEmpty(c) \/ CheckGroup(c) \/ ClaimGroup(c)
          \/ PopMessages(c) \/ FinishReceive(c) \/ DeadLetter(c)
    \/ \E h \in receipts : DeleteMessage(h)
    \/ \E h \in receipts, v \in VisibilityTimeouts : ChangeMessageVisibility(h, v)
    \/ PurgeQueue
    \/ UpdateAllQueues
    \/ Tick
    \/ Quiescent

Spec == Init /\ [][Next]_vars

\* the steps of a ReceiveMessage call already started
ReceiveInCall(c) ==
    /\ pc[c] # "idle"
    /\ \/ GetGroup(c) \/ GetEmpty(c) \/ CheckGroup(c) \/ ClaimGroup(c)
       \/ PopMessages(c) \/ FinishReceive(c) \/ DeadLetter(c)

\* Fairness the code justifies: time passes; the QueueUpdateWorker timer
\* runs each sweep every second; a put or a receive that has started runs
\* to its end (none of their steps waits on a client).  Clients get none:
\* nothing obliges them to send, receive, delete or change a visibility.
FairSpec ==
    /\ Spec
    /\ WF_vars(Tick)
    /\ WF_vars(RequeueInflightMessages)
    /\ WF_vars(EnqueueDelayedMessages)
    /\ WF_vars(RetentionEnabled /\ RemoveExpiredMessages)
    /\ \A p \in Producers :
          WF_vars(EnqueueMessage(p) \/ PushMessage(p) \/ RecordDeduplication(p))
    /\ \A c \in Consumers : WF_vars(ReceiveInCall(c))

-----------------------------------------------------------------------------
(* Properties                                                              *)

TypeOK ==
    /\ now \in Times
    /\ nextId \in 1..(MaxMsgs + 1)
    /\ msg \in [MsgIds -> MsgRec]
    /\ deduplication \in [DedupIds -> MsgIds \cup {0}]
    /\ gen \in Gens
    /\ messageGroups \in [GroupObjs -> SUBSET MsgIds]
    /\ messageGroupQueue \in Seq(GroupObjs)
    /\ inflightGroups \subseteq Groups
    /\ inflight \subseteq Created
    /\ delayed \subseteq Created
    /\ receipts \subseteq Handles
    /\ sending \in [Producers -> MsgIds \cup {0}]
    /\ putStage \in [Producers -> {"idle", "enqueue", "push", "record"}]
    /\ putObj \in [Producers -> GroupObjs]
    /\ purgeTimestamp \in Times \cup {NoTime}
    /\ purged \subseteq Created
    /\ sentGen \in [MsgIds -> Gens]
    /\ pc \in [Consumers -> {"idle", "get", "check", "claim", "pop", "finish", "dead"}]
    /\ successful \in [Consumers -> Seq(MsgIds)]
    /\ deadLetters \in [Consumers -> Seq(MsgIds)]
    /\ dlq \subseteq Created
    /\ dlqDeduplication \in [DedupIds -> Times \cup {NoTime}]
    /\ holder \in [MsgIds -> Consumers \cup {NoConsumer}]
    /\ receives \in 0..MaxReceives
    /\ duplicates \subseteq Created


\* where a live message can be: a group heap, delayed, in flight, created by
\* a put not yet enqueued, or in the result of a receive in progress; a
\* purge takes a message out for good
InHeap(m)    == \E o \in GroupObjs : m \in messageGroups[o]
InResult(m)  == \E c \in Consumers : m \in ToSet(successful[c])
Alive(m) ==
    /\ ~msg[m].deleted
    /\ m \notin purged
    /\ \/ InHeap(m) \/ m \in delayed \/ m \in inflight \/ InResult(m)
       \/ \E p \in Producers : sending[p] = m

\* consumer c holds message m: c de-queued it, it is not deleted, and it is
\* in flight or in c's result
Holds(c, m) ==
    /\ holder[m] = c
    /\ ~msg[m].deleted
    /\ m \in inflight \/ m \in ToSet(successful[c])

\* messages put accepted (not answered with the MessageId of an original)
Accepted == Created \ duplicates

\* Message-group exclusivity (FifoQueue.receive with inflight_groups and
\* _put_message): while one consumer holds a message of a group, no other
\* consumer receives a message of that group.
GroupExclusive ==
    \A c1, c2 \in Consumers, m1, m2 \in Created :
        (c1 # c2 /\ Holds(c1, m1) /\ Holds(c2, m2)) => GroupOf(m1) # GroupOf(m2)

\* First-in-first-out within a group (MessageGroup heap, FifoQueue.receive,
\* the sweeps of QueueUpdateWorker): a message is not received for the first
\* time while an older message of its group is still waiting for its first
\* receive.
GroupOrder ==
    \A m1, m2 \in Created :
        (m1 < m2 /\ GroupOf(m1) = GroupOf(m2) /\ msg[m2].rc >= 1 /\ Alive(m1))
            => msg[m1].rc >= 1

\* A message is in at most one of: a group heap, delayed, in flight, the
\* result of a receive, the dead letters of a receive, the dead-letter
\* queue (put, receive, requeue and enqueue of delayed messages move it).
OnePlace ==
    \A m \in Created :
        Cardinality({o \in GroupObjs : m \in messageGroups[o]})
        + (IF m \in delayed THEN 1 ELSE 0) + (IF m \in inflight THEN 1 ELSE 0)
        + Cardinality({c \in Consumers : m \in ToSet(successful[c]) \cup ToSet(deadLetters[c])})
        + (IF m \in dlq THEN 1 ELSE 0) <= 1

\* No thread is inside SendMessage or ReceiveMessage
Idle == (\A c \in Consumers : pc[c] = "idle") /\ (\A p \in Producers : sending[p] = 0)

\* A group with a message waiting is reachable by receive
\* (_put_message, update_message_group_visibility, FifoQueue.receive): between
\* calls, it is in message_group_queue, or it is in inflight_groups with a
\* message in flight whose delete or requeue will release it.
NoStrandedGroup ==
    Idle =>
      \A g \in Groups :
        (\E m \in messageGroups[Obj(g)] : ~msg[m].deleted)
            => \/ Obj(g) \in ToSet(messageGroupQueue)
               \/ g \in inflightGroups /\ \E m \in inflight : GroupOf(m) = g

\* Deduplication (FifoQueue.put with the deduplication table): of two
\* messages with one deduplication id (and, under the messageGroup scope, one
\* group) sent within the deduplication interval and with no purge between
\* them (FifoQueue.clear empties the table), only the first is accepted.
DeduplicatedOnce ==
    \A m1, m2 \in Accepted :
        (/\ m1 < m2
         /\ sentGen[m1] = sentGen[m2]
         /\ msg[m1].dedup = msg[m2].dedup
         /\ DeduplicationScope = "messageGroup" => GroupOf(m1) = GroupOf(m2))
            => msg[m2].created >= msg[m1].created + DeduplicationInterval

\* Purge (purge_queue, FifoQueue.clear): a message that was in the queue when
\* a purge ran (in a group, delayed or in flight) is never back in it: it is
\* not in a group of message_groups, delayed or in flight afterwards, so no
\* receive after the purge's successors can return it again.
PurgeIsFinal ==
    \A m \in purged :
        /\ \A g \in Groups : m \notin messageGroups[Obj(g)]
        /\ m \notin delayed
        /\ m \notin inflight


\* a message can be taken by the next receive: it is in the heap of its
\* group's current MessageGroup object, and that object is in
\* message_group_queue or held by a receive that has not yet popped
Receivable(m) ==
    LET o == Obj(GroupOf(m))
    IN  /\ m \in messageGroups[o]
        /\ \/ o \in ToSet(messageGroupQueue)
           \/ \E c \in Consumers : cur[c] = o /\ pc[c] \in {"check", "claim", "pop"}

\* Visibility expiry (spec: a message received with visibility timeout T and
\* not deleted becomes retrievable again once T has passed and a requeue
\* sweep runs; requeue_inflight_messages with _put_message): a message in
\* flight whose deadline the clock reaches is eventually deleted or
\* receivable again through message_group_queue.
ExpiredMessageReturns ==
    \A m \in MsgIds :
        (m \in inflight /\ msg[m].deadline # NoTime /\ msg[m].deadline <= MaxTime)
            ~> (msg[m].deleted \/ Receivable(m))


\* the status of message m in the lifecycle of a queue message: unsent
\* until its put has placed it (a duplicate never is); redriven once a
\* receive sorted it into the dead letters (the dead-letter queue gets a
\* copy, so a later delete of the source message does not reach it); gone
\* once deleted or purged, or once it is in no place (the retention sweep);
\* out while in flight or in a receive result; else queued
LifecycleStatus(m) ==
    IF \/ m >= nextId \/ m \in duplicates
       \/ \E p \in Producers : sending[p] = m /\ putStage[p] \in {"enqueue", "push"}
    THEN "unsent"
    ELSE IF m \in dlq \/ \E c \in Consumers : m \in ToSet(deadLetters[c]) THEN "dead"
    ELSE IF msg[m].deleted \/ m \in purged THEN "gone"
    ELSE IF m \in inflight \/ InResult(m) THEN "out"
    ELSE IF InHeap(m) \/ m \in delayed THEN "queued"
    ELSE "gone"

Lifecycle == INSTANCE MessageLifecycle WITH
    Msgs     <- MsgIds,
    status   <- [m \in MsgIds |-> LifecycleStatus(m)],
    received <- [m \in MsgIds |-> msg[m].rc]

\* The FIFO queue implements the message lifecycle (put, receive with its
\* deleted check and redrive, visibility changes, requeue, remove, purge,
\* retention): a receive counts only a queued message and redrives it
\* exactly when the count passes maxReceiveCount, and no deleted, purged,
\* expired or redriven message is received, returned or counted again.
LifecycleRefinement == Lifecycle!Spec

=============================================================================
