---------------------------- MODULE StandardQueue ----------------------------
(***************************************************************************)
(* The standard queue of the SQS engine (models.py: StandardQueue with the *)
(* SqsQueue operations it inherits) and the receive/delete handlers of     *)
(* provider.py.                                                            *)
(*                                                                         *)
(* `visible` is an InterruptiblePriorityQueue with a lock of its own.      *)
(* StandardQueue.receive never takes the queue mutex: each get is atomic,  *)
(* the rest of the loop and the registration of the results interleave    *)
(* with everything.  remove, update_visibility_timeout and the three       *)
(* sweeps hold the queue mutex, which orders them among themselves but not *)
(* against receive, put or the gets of `visible`.                          *)
(***************************************************************************)
EXTENDS Naturals, Sequences, FiniteSets, SequencesExt

CONSTANTS
    Producers,              \* threads calling SendMessage
    Consumers,              \* threads calling ReceiveMessage
    MaxMsgs,                \* bound: SqsMessage objects created
    MaxTime,                \* bound: ticks of the clock
    MaxReceives,            \* bound: ReceiveMessage calls
    NumMessages,            \* MaxNumberOfMessages values a receive may ask for
    VisibilityTimeouts,     \* VisibilityTimeout values of receive / ChangeMessageVisibility
    DelaySeconds,           \* DelaySeconds values of SendMessage
    QueueVisibilityTimeout, \* queue attribute VisibilityTimeout
    MaxReceiveCount,        \* redrive policy maxReceiveCount, 0 when no policy is set
    RetentionPeriod,        \* queue attribute MessageRetentionPeriod
    RetentionEnabled,       \* config.SQS_ENABLE_MESSAGE_RETENTION_PERIOD
    DelayPurgeRetry,        \* config.SQS_DELAY_PURGE_RETRY
    PurgeRetrySeconds       \* the 60 seconds between two purges it enforces

ASSUME /\ MaxMsgs \in Nat \ {0}
       /\ NumMessages \subseteq Nat \ {0}
       /\ QueueVisibilityTimeout \in Nat \ {0}
       /\ MaxReceiveCount \in Nat

MsgIds == 1..MaxMsgs
Times  == 0..MaxTime
NoTime == -1
\* a receipt handle names the message; n (the receive count at issue)
\* stands for the part that makes two handles of one message distinct
Handles == [msg : MsgIds, n : Nat]

VARIABLES
    now,          \* time.time()
    nextId,       \* next SqsMessage id, in creation (= priority) order
    msg,          \* per SqsMessage: its fields
    visible,      \* StandardQueue.visible, as the set of its messages
    delayed,      \* SqsQueue.delayed
    inflight,     \* SqsQueue.inflight
    receipts,     \* SqsQueue.receipts, as the set of its keys
    sending,      \* per producer: message created by put, not yet placed (0: none)
    pc,           \* per consumer: where its receive call is
    req,          \* per consumer: num_messages and visibility_timeout of the call
    hand,         \* per consumer: the message its last get returned (0: none)
    successful,   \* per consumer: ReceiveMessageResult.successful
    deadLetters,  \* per consumer: ReceiveMessageResult.dead_letter_messages
    dlq,          \* messages put into the dead-letter target queue
    sweep,        \* the update worker inside remove_expired_messages_from_heap:
                  \* the message it read at heap[0], or 0
    expiredAt,    \* history: tick at which the retention sweep removed each message
    purgeTimestamp, \* SqsQueue.purge_timestamp
    purged,       \* history: messages a purge took out of the queue
    receives      \* bound counter: ReceiveMessage calls started

vars == <<now, nextId, msg, visible, delayed, inflight, receipts, sending, pc,
          req, hand, successful, deadLetters, dlq, sweep, expiredAt, purgeTimestamp,
          purged, receives>>

MsgRec == [created : Times, delay : Nat, rc : Nat, vt : Nat,
           deadline : Nat \cup {NoTime}, deleted : BOOLEAN, handles : SUBSET Handles]

Created == 1..(nextId - 1)

\* SqsMessage.is_visible
IsVisible(m) == msg[m].deadline = NoTime \/ now >= msg[m].deadline

\* SqsMessage.is_delayed: time.time() <= created + delay_seconds; the clock
\* has moved on from `created` by the time put asks, so a delay of 0 never delays
IsDelayed(m) == msg[m].delay > 0 /\ now < msg[m].created + msg[m].delay

\* a heap giving the newest message first
Newest(S) == CHOOSE x \in S : \A y \in S : x >= y

\* the heap order: least priority (creation time) first
Oldest(S) == CHOOSE x \in S : \A y \in S : x <= y

\* a call without VisibilityTimeout passes None
NoVT == -1

\* the arguments of a call are local to it: none are kept once it returns
NoReq == [num |-> 1, vt |-> NoVT]

\* the update worker holds the queue mutex while inside the expiry loop
MutexFree == sweep = 0
-----------------------------------------------------------------------------
(* StandardQueue.put: the message is created, then delayed or put into    *)
(* visible.  Nothing of it holds the queue mutex.                          *)

Send(p, d) ==
    /\ sending[p] = 0
    /\ nextId <= MaxMsgs
    /\ nextId' = nextId + 1
    /\ msg' = [msg EXCEPT ![nextId] =
                 [created |-> now, delay |-> d, rc |-> 0, vt |-> QueueVisibilityTimeout,
                  deadline |-> NoTime, deleted |-> FALSE, handles |-> {}]]
    /\ sending' = [sending EXCEPT ![p] = nextId]
    /\ UNCHANGED <<now, visible, delayed, inflight, receipts, pc, req, hand,
                   successful, deadLetters, dlq, sweep, expiredAt, purgeTimestamp, purged, receives>>

Place(p) ==
    LET m == sending[p]
    IN  /\ m # 0
        /\ IF IsDelayed(m)
           THEN delayed' = delayed \cup {m} /\ UNCHANGED visible
           ELSE visible' = visible \cup {m} /\ UNCHANGED delayed
        /\ sending' = [sending EXCEPT ![p] = 0]
        /\ UNCHANGED <<now, nextId, msg, inflight, receipts, pc, req, hand,
                       successful, deadLetters, dlq, sweep, expiredAt, purgeTimestamp, purged, receives>>
-----------------------------------------------------------------------------
(* StandardQueue.receive                                                   *)

\* visible.get returns the oldest message; an idle consumer starts a call
Get(c) ==
    /\ \/ pc[c] = "get"
       \/ /\ pc[c] = "idle"
          /\ receives < MaxReceives
          /\ receives' = receives + 1
          /\ \E n \in NumMessages, v \in VisibilityTimeouts \cup {NoVT} :
                req' = [req EXCEPT ![c] = [num |-> n, vt |-> v]]
    /\ pc[c] = "get" => UNCHANGED <<req, receives>>
    /\ visible # {}
    /\ hand' = [hand EXCEPT ![c] = Oldest(visible)]
    /\ visible' = visible \ {Oldest(visible)}
    /\ pc' = [pc EXCEPT ![c] = "take"]
    /\ UNCHANGED <<now, nextId, msg, delayed, inflight, receipts, sending,
                   successful, deadLetters, dlq, sweep, expiredAt, purgeTimestamp, purged>>

\* visible.get raises Empty: the collecting loop ends
GetEmpty(c) ==
    /\ pc[c] = "get"
    /\ visible = {}
    /\ pc' = [pc EXCEPT ![c] = "finish"]
    /\ UNCHANGED <<now, nextId, msg, visible, delayed, inflight, receipts, sending,
                   req, hand, successful, deadLetters, dlq, sweep, expiredAt, purgeTimestamp, purged, receives>>

\* receive without the default for visibility_timeout
ReqVisibilityNoDefault(c) == req[c].vt

\* receive: visibility_timeout is the queue's when the call passed None
ReqVisibility(c) ==
    IF req[c].vt = NoVT THEN QueueVisibilityTimeout ELSE req[c].vt

\* skip a deleted message, else count the receive and sort it into the dead
\* letters or the successful ones; stop at num_messages successful
Take(c) ==
    LET m  == hand[c]
        rc == msg[m].rc + 1
        ok == Append(successful[c], m)
    IN  /\ pc[c] = "take"
        /\ hand' = [hand EXCEPT ![c] = 0]
        /\ IF msg[m].deleted
           THEN /\ pc' = [pc EXCEPT ![c] = "get"]
                /\ UNCHANGED <<msg, successful, deadLetters>>
           ELSE /\ msg' = [msg EXCEPT ![m].rc = rc, ![m].vt = ReqVisibility(c),
                                      ![m].deadline = now + ReqVisibility(c)]
                /\ IF MaxReceiveCount > 0 /\ rc > MaxReceiveCount
                   THEN /\ deadLetters' = [deadLetters EXCEPT ![c] = Append(@, m)]
                        /\ pc' = [pc EXCEPT ![c] = "get"]
                        /\ UNCHANGED successful
                   ELSE /\ successful' = [successful EXCEPT ![c] = ok]
                        /\ pc' = [pc EXCEPT ![c] =
                                    IF Len(ok) = req[c].num THEN "finish" ELSE "get"]
                        /\ UNCHANGED deadLetters
        /\ UNCHANGED <<now, nextId, visible, delayed, inflight, receipts, sending,
                       req, dlq, sweep, expiredAt, purgeTimestamp, purged, receives>>

\* a receipt handle for every successful message, then back into visible if
\* its visibility timeout is 0, else in flight (without the queue mutex)
FinishReceive(c) ==
    /\ pc[c] = "finish"
    /\ LET S    == ToSet(successful[c])
           H(m) == [msg |-> m, n |-> msg[m].rc]
       IN  /\ msg' = [m \in MsgIds |-> IF m \in S
                                       THEN [msg[m] EXCEPT !.handles = @ \cup {H(m)}]
                                       ELSE msg[m]]
           /\ receipts' = receipts \cup {H(m) : m \in S}
           /\ inflight' = inflight \cup {m \in S : msg[m].vt # 0}
           /\ visible' = visible \cup {m \in S : msg[m].vt = 0}
    /\ successful' = [successful EXCEPT ![c] = <<>>]
    /\ pc' = [pc EXCEPT ![c] = IF deadLetters[c] = <<>> THEN "idle" ELSE "dead"]
    /\ req' = [req EXCEPT ![c] = NoReq]
    /\ UNCHANGED <<now, nextId, delayed, sending, hand, deadLetters, dlq,
                   sweep, expiredAt, purgeTimestamp, purged, receives>>

\* SqsProvider.receive_message: each dead letter is put into the DLQ
DeadLetter(c) ==
    /\ pc[c] = "dead"
    /\ dlq' = dlq \cup ToSet(deadLetters[c])
    /\ deadLetters' = [deadLetters EXCEPT ![c] = <<>>]
    /\ pc' = [pc EXCEPT ![c] = "idle"]
    /\ UNCHANGED <<now, nextId, msg, visible, delayed, inflight, receipts, sending,
                   req, hand, successful, sweep, expiredAt, purgeTimestamp, purged, receives>>
-----------------------------------------------------------------------------
(* Handlers a client runs with a receipt handle, under the queue mutex.    *)

\* StandardQueue._on_remove_message: the message leaves inflight, or else
\* visible (visible.queue.remove + heapify); neither if it is in neither
OnRemoveMessage(ms) ==
    /\ inflight' = inflight \ ms
    /\ visible' = visible \ ms

\* SqsQueue.remove for the messages ms, each named by a handle in receipts
\* (a handle not in receipts returns without a change): no expiry check in
\* a standard queue; the message is marked deleted and all its handles go
RemoveMessages(ms) ==
    /\ msg' = [m \in MsgIds |-> IF m \in ms
                                THEN [msg[m] EXCEPT !.deleted = TRUE, !.handles = {}]
                                ELSE msg[m]]
    /\ receipts' = receipts \ UNION {msg[m].handles : m \in ms}
    /\ OnRemoveMessage(ms)

\* delete_message: queue.remove(receipt_handle)
DeleteMessage(h) ==
    /\ MutexFree
    /\ h \in receipts
    /\ RemoveMessages({h.msg})
    /\ UNCHANGED <<now, nextId, delayed, sending, pc, req, hand, successful,
                   deadLetters, dlq, sweep, expiredAt, purgeTimestamp, purged, receives>>

\* delete_message_batch: queue.remove for every entry, all under the queue
\* mutex; an entry that fails is reported and the others go on.  Entries
\* whose handles are no longer in receipts change nothing, so the batch is
\* the set H of its live handles, at least two of them.  A receive (which
\* takes no mutex) between two entries is the same as two delete_message
\* calls, which Next also has.
DeleteMessageBatch(H) ==
    /\ MutexFree
    /\ Cardinality(H) >= 2
    /\ H \subseteq receipts
    /\ RemoveMessages({h.msg : h \in H})
    /\ UNCHANGED <<now, nextId, delayed, sending, pc, req, hand, successful,
                   deadLetters, dlq, sweep, expiredAt, purgeTimestamp, purged, receives>>

\* SqsQueue.update_visibility_timeout on the message of h, as a step on
\* the queue's [msg, inflight, visible]: a message not inflight is left
\* alone; else SqsMessage.update_visibility_timeout sets the timeout and
\* the deadline, and a timeout of 0 puts the message back into visible
UpdateVisibility(q, h, v) ==
    LET m == h.msg
    IN  IF m \notin q.inflight THEN q
        ELSE [msg      |-> [q.msg EXCEPT ![m].vt = v, ![m].deadline = now + v],
              inflight |-> IF v = 0 THEN q.inflight \ {m} ELSE q.inflight,
              visible  |-> IF v = 0 THEN q.visible \cup {m} ELSE q.visible]

\* bound: entries of a change_message_visibility_batch call
BatchSize == 2

\* the entries of change_message_visibility_batch, in order; one whose
\* handle is not in receipts raises, is reported, and changes nothing
RECURSIVE UpdateVisibilities(_, _)
UpdateVisibilities(q, es) ==
    IF es = <<>> THEN q
    ELSE UpdateVisibilities(IF Head(es)[1] \in receipts
                            THEN UpdateVisibility(q, Head(es)[1], Head(es)[2])
                            ELSE q,
                            Tail(es))

QueueState == [msg |-> msg, inflight |-> inflight, visible |-> visible]

SetQueueState(q) == msg' = q.msg /\ inflight' = q.inflight /\ visible' = q.visible

\* change_message_visibility: a handle not in receipts raises
ChangeMessageVisibility(h, v) ==
    /\ MutexFree
    /\ h \in receipts
    /\ h.msg \in inflight
    /\ SetQueueState(UpdateVisibility(QueueState, h, v))
    /\ UNCHANGED <<now, nextId, delayed, receipts, sending, pc, req, hand,
                   successful, deadLetters, dlq, sweep, expiredAt, purgeTimestamp, purged, receives>>

\* change_message_visibility_batch: the entries one after the other, all
\* under the queue mutex; a failed entry is reported and the rest go on
ChangeMessageVisibilityBatch(es) ==
    /\ MutexFree
    /\ QueueState /= UpdateVisibilities(QueueState, es)
    /\ SetQueueState(UpdateVisibilities(QueueState, es))
    /\ UNCHANGED <<now, nextId, delayed, receipts, sending, pc, req, hand,
                   successful, deadLetters, dlq, sweep, expiredAt, purgeTimestamp, purged, receives>>

\* StandardQueue.clear: inflight, delayed, receipts and visible.queue emptied
Clear ==
    /\ visible' = {} /\ delayed' = {} /\ inflight' = {} /\ receipts' = {}

\* purge_queue under the queue mutex: refused within PurgeRetrySeconds of
\* the last purge when SQS_DELAY_PURGE_RETRY is set (a refusal changes
\* nothing), else the timestamp is set and StandardQueue.clear empties
\* inflight, delayed, receipts and visible.queue.  A message that a receive
\* has taken from visible, or a put has not placed yet, is in none of them.
PurgeQueue ==
    /\ MutexFree
    /\ ~(DelayPurgeRetry /\ purgeTimestamp # NoTime
         /\ purgeTimestamp + PurgeRetrySeconds > now)
    /\ purgeTimestamp' = now
    /\ purged' = purged \cup visible \cup delayed \cup inflight
    /\ Clear
    /\ UNCHANGED <<now, nextId, msg, sending, pc, req, hand, successful,
                   deadLetters, dlq, sweep, expiredAt, receives>>
-----------------------------------------------------------------------------
(* QueueUpdateWorker.do_update_all_queues on this queue                   *)

\* requeue_inflight_messages without the _put_message of what it takes out
RequeueDropsMessages ==
    LET due == {m \in inflight : IsVisible(m)}
    IN  /\ MutexFree
        /\ due # {}
        /\ inflight' = inflight \ due
        /\ UNCHANGED <<now, nextId, msg, visible, delayed, receipts, sending, pc, req, hand,
                       successful, deadLetters, dlq, sweep, expiredAt, purgeTimestamp, purged, receives>>

RequeueInflightMessages ==
    LET due == {m \in inflight : IsVisible(m)}
    IN  /\ MutexFree
        /\ due # {}
        /\ inflight' = inflight \ due
        /\ visible' = visible \cup due
        /\ UNCHANGED <<now, nextId, msg, delayed, receipts, sending, pc, req, hand,
                       successful, deadLetters, dlq, sweep, expiredAt, purgeTimestamp, purged, receives>>

EnqueueDelayedMessages ==
    LET due == {m \in delayed : ~IsDelayed(m)}
    IN  /\ MutexFree
        /\ due # {}
        /\ delayed' = delayed \ due
        /\ visible' = visible \cup due
        /\ UNCHANGED <<now, nextId, msg, inflight, receipts, sending, pc, req, hand,
                       successful, deadLetters, dlq, sweep, expiredAt, purgeTimestamp, purged, receives>>

\* remove_expired_messages_from_heap, one loop iteration in two steps: read
\* heap[0] and compare its creation time with time.time() - retention ...
ExpireCheck ==
    /\ MutexFree
    /\ visible # {}
    /\ msg[Oldest(visible)].created <= now - RetentionPeriod
    /\ sweep' = Oldest(visible)
    /\ UNCHANGED <<now, nextId, msg, visible, delayed, inflight, receipts, sending,
                   pc, req, hand, successful, deadLetters, dlq, expiredAt, purgeTimestamp, purged, receives>>

\* ... then heapq.heappop(heap), which pops whatever is at heap[0] now (an
\* empty heap raises IndexError, which the worker catches and logs)
ExpirePop ==
    /\ sweep # 0
    /\ sweep' = 0
    /\ IF visible = {}
       THEN UNCHANGED <<visible, expiredAt>>
       ELSE /\ visible' = visible \ {Oldest(visible)}
            /\ expiredAt' = [expiredAt EXCEPT ![Oldest(visible)] = now]
    /\ UNCHANGED <<now, nextId, msg, delayed, inflight, receipts, sending,
                   pc, req, hand, successful, deadLetters, dlq, purgeTimestamp, purged,
                   receives>>

\* the clock; a put runs in microseconds, far below a tick
Tick ==
    /\ now < MaxTime
    /\ \A p \in Producers : sending[p] = 0
    /\ now' = now + 1
    /\ UNCHANGED <<nextId, msg, visible, delayed, inflight, receipts, sending, pc,
                   req, hand, successful, deadLetters, dlq, sweep, expiredAt, purgeTimestamp, purged, receives>>

\* no thread is inside a call: the bounded model rests here
Quiescent ==
    /\ \A c \in Consumers : pc[c] = "idle"
    /\ \A p \in Producers : sending[p] = 0
    /\ MutexFree
    /\ UNCHANGED vars
-----------------------------------------------------------------------------
Init ==
    /\ now = 0
    /\ nextId = 1
    /\ msg = [m \in MsgIds |->
                [created |-> 0, delay |-> 0, rc |-> 0, vt |-> QueueVisibilityTimeout,
                 deadline |-> NoTime, deleted |-> FALSE, handles |-> {}]]
    /\ visible = {}
    /\ delayed = {}
    /\ inflight = {}
    /\ receipts = {}
    /\ sending = [p \in Producers |-> 0]
    /\ pc = [c \in Consumers |-> "idle"]
    /\ req = [c \in Consumers |-> NoReq]
    /\ hand = [c \in Consumers |-> 0]
    /\ successful = [c \in Consumers |-> <<>>]
    /\ deadLetters = [c \in Consumers |-> <<>>]
    /\ dlq = {}
    /\ sweep = 0
    /\ expiredAt = [m \in MsgIds |-> NoTime]
    /\ purgeTimestamp = NoTime
    /\ purged = {}
    /\ receives = 0

\* QueueUpdateWorker.do_update_all_queues on this queue: the three sweeps,
\* the retention loop only when SQS_ENABLE_MESSAGE_RETENTION_PERIOD is set;
\* each catches its own exceptions, and the timer repeats them every second
UpdateAllQueues ==
    \/ RequeueInflightMessages
    \/ EnqueueDelayedMessages
    \/ RetentionEnabled /\ ExpireCheck
    \/ ExpirePop

Next ==
    \/ \E p \in Producers, d \in DelaySeconds : Send(p, d)
    \/ \E p \in Producers : Place(p)
    \/ \E c \in Consumers :
          Get(c) \/ GetEmpty(c) \/ Take(c) \/ FinishReceive(c) \/ DeadLetter(c)
    \/ \E h \in receipts : DeleteMessage(h)
    \/ \E H \in SUBSET receipts : DeleteMessageBatch(H)
    \/ \E h \in receipts, v \in VisibilityTimeouts : ChangeMessageVisibility(h, v)
    \/ \E es \in [1..BatchSize -> receipts \X VisibilityTimeouts] :
          ChangeMessageVisibilityBatch(es)
    \/ PurgeQueue
    \/ UpdateAllQueues
    \/ Tick
    \/ Quiescent

Spec == Init /\ [][Next]_vars
-----------------------------------------------------------------------------
(* Properties                                                              *)

TypeOK ==
    /\ now \in Times
    /\ nextId \in 1..(MaxMsgs + 1)
    /\ msg \in [MsgIds -> MsgRec]
    /\ visible \subseteq Created
    /\ delayed \subseteq Created
    /\ inflight \subseteq Created
    /\ receipts \subseteq Handles
    /\ sending \in [Producers -> MsgIds \cup {0}]
    /\ pc \in [Consumers -> {"idle", "get", "take", "finish", "dead"}]
    /\ hand \in [Consumers -> MsgIds \cup {0}]
    /\ successful \in [Consumers -> Seq(MsgIds)]
    /\ deadLetters \in [Consumers -> Seq(MsgIds)]
    /\ dlq \subseteq Created
    /\ sweep \in MsgIds \cup {0}
    /\ expiredAt \in [MsgIds -> Times \cup {NoTime}]
    /\ purgeTimestamp \in Times \cup {NoTime}
    /\ purged \subseteq Created
    /\ req \in [Consumers -> [num : Nat, vt : Nat \cup {NoVT}]]
    /\ receives \in 0..MaxReceives

\* the places a message can be in
Places(m) ==
    (IF m \in visible THEN 1 ELSE 0) + (IF m \in delayed THEN 1 ELSE 0)
    + (IF m \in inflight THEN 1 ELSE 0)
    + Cardinality({p \in Producers : sending[p] = m})
    + Cardinality({c \in Consumers : hand[c] = m \/ m \in ToSet(successful[c])
                                                \/ m \in ToSet(deadLetters[c])})
    + (IF m \in dlq THEN 1 ELSE 0)

\* At-least-once delivery without duplicates (put, receive, the sweeps,
\* remove, purge): a message that was not deleted and not removed by the
\* retention sweep is in exactly one place (being put, delayed, visible,
\* taken by a receive, in flight, or in the dead-letter queue) unless a
\* purge took it out, and then it is in none: no handle, requeue or
\* delayed-message sweep brings it back.
NoLostMessage ==
    \A m \in Created :
        (~msg[m].deleted /\ expiredAt[m] = NoTime)
            => Places(m) = IF m \in purged THEN 0 ELSE 1

\* Retention (remove_expired_messages_from_heap): the sweep removes only
\* messages whose retention period has run out.
RetentionOnlyExpired ==
    \A m \in Created :
        expiredAt[m] # NoTime => msg[m].created <= expiredAt[m] - RetentionPeriod

\* Priority order of first delivery (spec: messages put with delay 0 are
\* retrieved before any message created later): while a message waits in
\* visible for its first receive, no message created after it with delay 0
\* has been received.
PriorityOrder ==
    \A m1, m2 \in Created :
        (/\ m1 < m2
         /\ msg[m1].delay = 0 /\ msg[m2].delay = 0
         /\ m1 \in visible /\ msg[m1].rc = 0)
            => msg[m2].rc = 0

=============================================================================
