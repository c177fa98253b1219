--------------------------- MODULE QueueDelivery ---------------------------
(***************************************************************************)
(* Delivery of Queue messages: the scheduler tables queue_state,           *)
(* queue_messages, queue_delivery_batches, queue_dlq_pending and           *)
(* queue_consumer_state, the dispatch tasks of the running daemon, and the *)
(* recovery a restarted daemon runs before it dispatches again.            *)
(*                                                                         *)
(* Each action is one store transaction.  Time is relative: a row holds    *)
(* the time left until it is available (wait) and until it expires (ttl),  *)
(* and Tick takes one unit off every row.  A body has one unit of size.    *)
(* Identifiers are random in the code; here an identifier is fresh when no *)
(* row and no task holds it.                                               *)
(***************************************************************************)
EXTENDS Integers, FiniteSets

CONSTANTS
    Queues, Messages, Batches,
    NoQueue, NoBatch,
    Configs,       \* consumer declarations a deployment or the API attaches
    Delays,        \* delays a producer or a handler asks for
    Retention,     \* retention_seconds of every queue
    RequeueDelay,  \* the 250 ms before an interrupted delivery is repeated
    DlqBackoff,    \* the delay before a parked message is forwarded again
    BatchTimeout,  \* largest max_batch_timeout of a declaration
    MaxBacklog,    \* max_backlog_bytes of each queue
    MaxAttach      \* bound on the attachments ever made

ConsumerConfig ==
    [maxRetries : Nat, dlq : Queues \cup {NoQueue}, maxConcurrency : Nat \ {0},
     maxBatchSize : Nat \ {0}, maxBatchTimeout : 0 .. BatchTimeout]

ASSUME IdAssumption == NoQueue \notin Queues /\ NoBatch \notin Batches

ASSUME TimeAssumption ==
    /\ Delays \subseteq Nat
    /\ Retention \in Nat \ {0}
    /\ RequeueDelay \in Nat
    /\ DlqBackoff \in Nat
    /\ BatchTimeout \in Nat
    /\ MaxBacklog \in [Queues -> Nat]
    /\ MaxAttach \in Nat

ASSUME ConfigAssumption == Configs \subseteq ConsumerConfig

\* Message ids are 128-bit values.
ASSUME MessagesAssumption == IsFiniteSet(Messages)

VARIABLES
    queue,      \* queue_state.state of each queue, "absent" when it has no row
    consumer,   \* queue_consumer_state, by the queue it consumes
    messages,   \* queue_messages, by id
    batches,    \* queue_delivery_batches, by id
    pending,    \* queue_dlq_pending, by message id
    tasks,      \* dispatch tasks of this process and the batch each was given
    attached,   \* attachments made so far: the last consumer revision
    used,       \* message ids ever enqueued
    deliveries  \* history: deliveries begun since the row was inserted

vars == <<queue, consumer, messages, batches, pending, tasks, attached, used,
          deliveries>>

-----------------------------------------------------------------------------
(* Rows.                                                                   *)

\* A message is claimed exactly when it carries a batch id.
MessageRow ==
    [queue : Queues, batch : Batches \cup {NoBatch}, attempts : Nat,
     wait : Int, ttl : Nat]

\* rev stands for the (consumer_id, consumer_generation) pair.
ConsumerRow == [rev : Nat, active : BOOLEAN, config : Configs]

BatchRow == [queue : Queues, rev : Nat]

PendingRow == [source : Queues, target : Queues, attempts : Nat \ {0}, wait : Nat]

\* ClaimedQueueBatch: the snapshot a dispatch task works from.
Task == [queue : Queues, rev : Nat, config : Configs, messages : SUBSET Messages]

\* A function that extends f by g, g taking precedence.
Extend(f, g) ==
    [x \in DOMAIN f \cup DOMAIN g |-> IF x \in DOMAIN g THEN g[x] ELSE f[x]]

Without(f, S) == [x \in DOMAIN f \ S |-> f[x]]

Ready(m) == messages[m].batch = NoBatch

InQueue(q) == {m \in DOMAIN messages : messages[m].queue = q}

\* queue_state.message_bytes, which the insert and delete triggers maintain.
Backlog(q) == Cardinality(InQueue(q))

MessagesOf(b) == {m \in DOMAIN messages : messages[m].batch = b}

Absent == {q \in Queues : queue[q] = "absent"}

BatchesOf(q) == {b \in DOMAIN batches : batches[b].queue = q}

TypeOK ==
    /\ queue \in [Queues -> {"accepting", "configuring", "deleting", "absent"}]
    /\ DOMAIN consumer \subseteq Queues
    /\ consumer \in [DOMAIN consumer -> ConsumerRow]
    /\ DOMAIN messages \subseteq used
    /\ messages \in [DOMAIN messages -> MessageRow]
    /\ DOMAIN batches \subseteq Batches
    /\ batches \in [DOMAIN batches -> BatchRow]
    /\ DOMAIN pending \subseteq used
    /\ pending \in [DOMAIN pending -> PendingRow]
    /\ DOMAIN tasks \subseteq Batches
    /\ tasks \in [DOMAIN tasks -> Task]
    /\ attached \in Nat
    /\ used \subseteq Messages
    /\ deliveries \in [Messages -> Nat]

Empty == [x \in {} |-> x]

Init ==
    /\ queue = [q \in Queues |-> "accepting"]
    /\ consumer = Empty
    /\ messages = Empty
    /\ batches = Empty
    /\ pending = Empty
    /\ tasks = Empty
    /\ attached = 0
    /\ used = {}
    /\ deliveries = [m \in Messages |-> 0]

-----------------------------------------------------------------------------
(* Producers.                                                              *)

\* enqueue_queue: a whole batch is inserted or none of it.
Enqueue(q, S, delay) ==
    /\ S # {} /\ S \cap used = {}
    /\ queue[q] = "accepting"
    /\ Backlog(q) + Cardinality(S) <= MaxBacklog[q]
    /\ messages' = Extend(messages,
          [m \in S |-> [queue |-> q, batch |-> NoBatch, attempts |-> 0,
                        wait |-> delay, ttl |-> Retention]])
    /\ used' = used \cup S
    /\ UNCHANGED <<queue, consumer, batches, pending, tasks, attached, deliveries>>

-----------------------------------------------------------------------------
(* Claim and completion.                                                   *)

DueParked(q) ==
    {m \in InQueue(q) : Ready(m) /\ messages[m].wait <= 0 /\ messages[m].ttl > 0}

\* due_messages_tx: ready, available, not expired and not parked.
Due(q) ==
    {m \in InQueue(q) : /\ Ready(m)
                        /\ messages[m].wait <= 0
                        /\ messages[m].ttl > 0
                        /\ m \notin DOMAIN pending}

\* eligible_consumers_tx: active, below its concurrency, and either the oldest
\* due message waited for the batch timeout or a full batch is due.
Eligible(q) ==
    /\ q \in DOMAIN consumer /\ consumer[q].active
    /\ queue[q] # "absent"
    /\ LET c == consumer[q].config IN
       /\ Cardinality(BatchesOf(q)) < c.maxConcurrency
       /\ \/ \E m \in Due(q) : messages[m].wait <= -c.maxBatchTimeout
          \/ Cardinality(Due(q)) >= c.maxBatchSize

DuePending == {m \in DOMAIN pending : pending[m].wait = 0}

\* ready_message_by_id_tx fails on a parked row without its message.  The error
\* ends the maintenance pass, and the runner neither sweeps nor claims until a
\* pass succeeds.
MaintenanceRuns ==
    \A m \in DuePending : m \in DOMAIN messages /\ Ready(m)

\* claim_queue_batches, for one of the eligible consumers.  The code takes the
\* oldest due messages; which of the due ones they are is left open here.
Claim(q, b, S) ==
    /\ MaintenanceRuns
    /\ Eligible(q)
    /\ b \notin DOMAIN batches \cup DOMAIN tasks
    /\ S # {} /\ S \subseteq Due(q)
    /\ LET size == consumer[q].config.maxBatchSize IN
       Cardinality(S) = IF Cardinality(Due(q)) < size THEN Cardinality(Due(q)) ELSE size
    /\ batches' = Extend(batches, [x \in {b} |-> [queue |-> q, rev |-> consumer[q].rev]])
    /\ tasks' = Extend(tasks, [x \in {b} |->
          [queue |-> q, rev |-> consumer[q].rev, config |-> consumer[q].config,
           messages |-> S]])
    /\ messages' = [m \in DOMAIN messages |->
          IF m \in S THEN [messages[m] EXCEPT !.batch = b] ELSE messages[m]]
    /\ deliveries' = [m \in Messages |->
          IF m \in S THEN deliveries[m] + 1 ELSE deliveries[m]]
    /\ UNCHANGED <<queue, consumer, pending, attached, used>>

RetriedFree(row, wait) == [row EXCEPT !.batch = NoBatch, !.wait = wait]

RetriedHeld(row, wait) == [row EXCEPT !.attempts = @ + 1, !.wait = wait]

\* retry_message_tx: back to ready, one more attempt consumed.
Retried(row, wait) ==
    [queue |-> row.queue, batch |-> NoBatch, attempts |-> row.attempts + 1,
     wait |-> wait, ttl |-> row.ttl]

\* insert_dlq_message_tx: the same id in the target queue, with a fresh life.
DeadLettered(t, lag) ==
    [queue |-> t, batch |-> NoBatch, attempts |-> 0, wait |-> lag,
     ttl |-> lag + Retention]

DlqAdmitsEach(t, S, moved) ==
    /\ moved \subseteq S
    /\ moved # {} => queue[t] = "accepting" /\ Backlog(t) + 1 <= MaxBacklog[t]
    /\ moved # S => queue[t] # "accepting" \/ Backlog(t) + 1 > MaxBacklog[t]

\* dlq_accepts_tx, asked for the messages of S one after the other, admits
\* those of moved and refuses the others.
DlqAdmits(t, S, moved) ==
    /\ moved \subseteq S
    /\ moved # {} => queue[t] = "accepting" /\ Backlog(t) + Cardinality(moved) <= MaxBacklog[t]
    /\ moved # S => \/ queue[t] # "accepting"
                    \/ Backlog(t) + Cardinality(moved) >= MaxBacklog[t]

\* complete_queue_batch: retry is the set of messages to redeliver, the others
\* are acknowledged.  An outcome the daemon could not learn is completed as a
\* retry of every message, dated RequeueDelay after now (lag).  A row the
\* parking trigger refuses, the target queue being gone, aborts the whole
\* transaction: that is CompleteFails.
Complete(b, retry, delay, lag, moved) ==
    /\ b \in DOMAIN tasks
    /\ b \in DOMAIN batches /\ batches[b].rev = tasks[b].rev
    /\ MessagesOf(b) = tasks[b].messages
    /\ retry \subseteq tasks[b].messages
    /\ LET c      == tasks[b].config
           lapsed == {m \in retry : messages[m].ttl <= lag}
           again  == {m \in retry \ lapsed : messages[m].attempts + 1 <= c.maxRetries}
           spent  == retry \ (lapsed \cup again)
           parked == IF c.dlq = NoQueue THEN {} ELSE spent \ moved
           gone   == tasks[b].messages \ (again \cup moved \cup parked)
       IN /\ IF c.dlq = NoQueue THEN moved = {} ELSE DlqAdmits(c.dlq, spent, moved)
          /\ parked # {} => c.dlq \notin Absent
          /\ messages' = [m \in DOMAIN messages \ gone |->
                CASE m \in again  -> Retried(messages[m], lag + delay[m])
                  [] m \in parked -> Retried(messages[m], lag)
                  [] m \in moved  -> DeadLettered(c.dlq, lag)
                  [] OTHER        -> messages[m]]
          /\ pending' = Extend(pending, [m \in parked |->
                [source |-> tasks[b].queue, target |-> c.dlq,
                 attempts |-> messages[m].attempts + 1, wait |-> lag + DlqBackoff]])
          /\ deliveries' = [m \in Messages |-> IF m \in moved THEN 0 ELSE deliveries[m]]
    /\ batches' = Without(batches, {b})
    /\ tasks' = Without(tasks, {b})
    /\ UNCHANGED <<queue, consumer, attached, used>>

\* The completion transaction fails (dispatch_queue_batch only logs it): the
\* task ends and its batch stays claimed until a restart.
CompleteFails(b) ==
    /\ b \in DOMAIN tasks
    /\ tasks' = Without(tasks, {b})
    /\ UNCHANGED <<queue, consumer, messages, batches, pending, attached, used,
                   deliveries>>

-----------------------------------------------------------------------------
(* Maintenance.                                                            *)

\* forward_queue_dlq_pending: expired parked messages are dropped, those the
\* target admits are moved, the others wait for another DlqBackoff.  Rows are
\* handled in turn, so a move out of a queue may make room in it for a later
\* row: a target need only hold what it holds in the end.
ForwardDlq(moved) ==
    /\ DuePending # {} /\ MaintenanceRuns
    /\ LET lapsed == {m \in DuePending : messages[m].ttl = 0}
           live   == DuePending \ lapsed
           to(t)  == {m \in live : pending[m].target = t}
           out(t) == {m \in lapsed \cup moved : messages[m].queue = t}
       IN /\ moved \subseteq live
          /\ \A t \in Queues :
               LET in == moved \cap to(t) IN
               /\ in # {} => /\ queue[t] = "accepting"
                             /\ Backlog(t) - Cardinality(out(t)) + Cardinality(in) <= MaxBacklog[t]
               /\ in # to(t) => \/ queue[t] # "accepting"
                                \/ Backlog(t) + Cardinality(in) >= MaxBacklog[t]
          /\ messages' = [m \in DOMAIN messages \ lapsed |->
                IF m \in moved THEN DeadLettered(pending[m].target, 0) ELSE messages[m]]
          /\ pending' = [m \in DOMAIN pending \ (lapsed \cup moved) |->
                IF m \in live THEN [pending[m] EXCEPT !.wait = DlqBackoff] ELSE pending[m]]
          /\ deliveries' = [m \in Messages |-> IF m \in moved THEN 0 ELSE deliveries[m]]
    /\ UNCHANGED <<queue, consumer, batches, tasks, attached, used>>

AnyCandidate(S) == S

\* select_delete_candidates: a claimed message is never deleted under its handler.
DeleteCandidates(S) == {m \in S : Ready(m)}

RemoveMessages(S) == messages' = Without(messages, S) /\ pending' = pending

\* The deletes of sweep_queue_retention and purge_queue.
Remove(S) == messages' = Without(messages, S) /\ pending' = Without(pending, S)

\* sweep_queue_retention, after a forward that succeeded: a bounded number of
\* expired messages that are not claimed go, with their parked rows.
SweepRetention(S) ==
    /\ MaintenanceRuns
    /\ S # {}
    /\ S \subseteq DeleteCandidates({m \in DOMAIN messages : messages[m].ttl = 0})
    /\ Remove(S)
    /\ UNCHANGED <<queue, consumer, batches, tasks, attached, used, deliveries>>

-----------------------------------------------------------------------------
(* Consumers and the queue lifecycle.                                      *)

\* upsert_attachment and replace_products: a new attachment starts paused or
\* active, a replaced one keeps its state.  Both queues must be live, and a
\* queue cannot dead-letter to itself.
Attach(q, c, active) ==
    /\ attached < MaxAttach
    /\ queue[q] \in {"accepting", "configuring"}
    /\ c.dlq # NoQueue => c.dlq # q /\ queue[c.dlq] \in {"accepting", "configuring"}
    /\ q \in DOMAIN consumer => active = consumer[q].active
    /\ attached' = attached + 1
    /\ consumer' = Extend(consumer, [x \in {q} |->
          [rev |-> attached + 1, active |-> active, config |-> c]])
    /\ UNCHANGED <<queue, messages, batches, pending, tasks, used, deliveries>>

\* delete: batches already claimed are left alone.
Detach(q) ==
    /\ q \in DOMAIN consumer
    /\ consumer' = Without(consumer, {q})
    /\ UNCHANGED <<queue, messages, batches, pending, tasks, attached, used, deliveries>>

\* set_state, for pause and resume.
SetActive(q, active) ==
    /\ q \in DOMAIN consumer /\ consumer[q].active # active
    /\ consumer' = [consumer EXCEPT ![q].active = active]
    /\ UNCHANGED <<queue, messages, batches, pending, tasks, attached, used, deliveries>>

\* begin_queue_config and finish_queue_config: the no-send fence goes up and down.
SetConfiguring(q, from, to) ==
    /\ <<from, to>> \in {<<"accepting", "configuring">>, <<"configuring", "accepting">>}
    /\ queue[q] = from
    /\ queue' = [queue EXCEPT ![q] = to]
    /\ UNCHANGED <<consumer, messages, batches, pending, tasks, attached, used, deliveries>>

FenceReferred(q) ==
    /\ queue[q] \in {"accepting", "configuring"}
    /\ q \notin DOMAIN consumer
    /\ queue' = [queue EXCEPT ![q] = "deleting"]
    /\ UNCHANGED <<consumer, messages, batches, pending, tasks, attached, used, deliveries>>

\* begin_delete refuses a queue a consumer refers to; fence_queue_delete follows.
FenceDelete(q) ==
    /\ queue[q] \in {"accepting", "configuring"}
    /\ q \notin DOMAIN consumer
    /\ \A p \in DOMAIN consumer : consumer[p].config.dlq # q
    /\ queue' = [queue EXCEPT ![q] = "deleting"]
    /\ UNCHANGED <<consumer, messages, batches, pending, tasks, attached, used, deliveries>>

\* purge_queue: a bounded number of messages that are not claimed.
Purge(q, S) ==
    /\ queue[q] = "deleting"
    /\ S # {} /\ S \subseteq DeleteCandidates(InQueue(q))
    /\ Remove(S)
    /\ UNCHANGED <<queue, consumer, batches, tasks, attached, used, deliveries>>

\* delete_queue_projection: an empty queue no parked row or batch refers to
\* (the tables' foreign keys).
DeleteProjection(q) ==
    /\ queue[q] = "deleting"
    /\ InQueue(q) = {}
    /\ BatchesOf(q) = {}
    /\ \A m \in DOMAIN pending : q \notin {pending[m].source, pending[m].target}
    /\ queue' = [queue EXCEPT ![q] = "absent"]
    /\ UNCHANGED <<consumer, messages, batches, pending, tasks, attached, used, deliveries>>

-----------------------------------------------------------------------------
(* Restart and time.                                                       *)

Exhausted(row) ==
    /\ row.queue \in DOMAIN consumer
    /\ row.attempts > consumer[row.queue].config.maxRetries

\* The rows the last two statements of reset_claims.sql select.
RecoveryParks(row) == Exhausted(row) /\ consumer[row.queue].config.dlq # NoQueue

RecoveryDropsEarly(row) ==
    /\ row.queue \in DOMAIN consumer
    /\ row.attempts >= consumer[row.queue].config.maxRetries
    /\ consumer[row.queue].config.dlq = NoQueue

RecoveryDrops(row) == Exhausted(row) /\ consumer[row.queue].config.dlq = NoQueue

\* The daemon stops at any point and starts again: reset_claims_tx returns
\* claimed messages, one attempt consumed, drops the batches, parks what its
\* consumer may no longer retry and deletes it when there is no dead-letter
\* queue.  A parked row already there is kept (INSERT OR IGNORE), though the
\* parking trigger runs for it too: it aborts the start when the consumer's
\* dead-letter queue is gone.
Restart ==
    LET back == [m \in DOMAIN messages |->
                   IF Ready(m) THEN messages[m] ELSE Retried(messages[m], RequeueDelay)]
        target(m) == consumer[back[m].queue].config.dlq
        over == {m \in DOMAIN back : RecoveryParks(back[m])}
        lost == {m \in DOMAIN back : RecoveryDrops(back[m])}
    IN /\ \A m \in over : target(m) \notin Absent
       /\ messages' = Without(back, lost)
       /\ pending' = Extend([m \in over |->
             [source |-> back[m].queue, target |-> target(m),
              attempts |-> back[m].attempts, wait |-> RequeueDelay]], pending)
       /\ batches' = Empty
       /\ tasks' = Empty
       /\ UNCHANGED <<queue, consumer, attached, used, deliveries>>

\* One unit later.  A wait stops counting where no batch timeout tells the
\* difference any more.
Aged(row) ==
    [queue |-> row.queue, batch |-> row.batch, attempts |-> row.attempts,
     wait |-> IF row.wait > -BatchTimeout THEN row.wait - 1 ELSE row.wait,
     ttl |-> IF row.ttl > 0 THEN row.ttl - 1 ELSE 0]

Tick ==
    /\ messages' = [m \in DOMAIN messages |-> Aged(messages[m])]
    /\ pending' = [m \in DOMAIN pending |->
          [pending[m] EXCEPT !.wait = IF @ > 0 THEN @ - 1 ELSE 0]]
    /\ UNCHANGED <<queue, consumer, batches, tasks, attached, used, deliveries>>

-----------------------------------------------------------------------------
(* Specification.                                                          *)

\* resolve_queue_disposition: an answer names the messages to retry and their
\* delays; an answer that never came is a retry of the whole batch.
Deliver(b) ==
    \E moved \in SUBSET tasks[b].messages :
      \/ \E retry \in SUBSET tasks[b].messages :
           \E delay \in [retry -> Delays] : Complete(b, retry, delay, 0, moved)
      \/ Complete(b, tasks[b].messages, [m \in tasks[b].messages |-> 0],
                  RequeueDelay, moved)

Forward == \E moved \in SUBSET DuePending : ForwardDlq(moved)

Sweep == \E S \in SUBSET DOMAIN messages : SweepRetention(S)

Next ==
    \/ \E q \in Queues, S \in SUBSET Messages, delay \in Delays : Enqueue(q, S, delay)
    \/ \E q \in Queues, b \in Batches : \E S \in SUBSET Due(q) : Claim(q, b, S)
    \/ \E b \in DOMAIN tasks : Deliver(b)
    \/ \E b \in DOMAIN tasks : CompleteFails(b)
    \/ Forward
    \/ Sweep
    \/ \E q \in Queues, c \in Configs, active \in BOOLEAN : Attach(q, c, active)
    \/ \E q \in Queues : Detach(q)
    \/ \E q \in Queues, active \in BOOLEAN : SetActive(q, active)
    \/ \E q \in Queues, from, to \in {"accepting", "configuring"} :
         SetConfiguring(q, from, to)
    \/ \E q \in Queues : FenceDelete(q)
    \/ \E q \in Queues : \E S \in SUBSET InQueue(q) : Purge(q, S)
    \/ \E q \in Queues : DeleteProjection(q)
    \/ Restart
    \/ Tick

Spec == Init /\ [][Next]_vars

\* The clock runs, and the scheduler loop runs its maintenance whenever some is due.
FairSpec == Spec /\ WF_vars(Tick) /\ WF_vars(Forward) /\ WF_vars(Sweep)

-----------------------------------------------------------------------------
(* Properties.                                                             *)

\* The completion fence: while a dispatch task runs, its batch row and exactly
\* the messages it was given stay claimed, whatever detach, replace, pause,
\* purge, sweep and delete do meanwhile.  So complete_queue_batch never finds a
\* batch stale, or with other messages than the handler saw.
TaskOwnsBatch ==
    \A b \in DOMAIN tasks :
        /\ b \in DOMAIN batches
        /\ batches[b].queue = tasks[b].queue /\ batches[b].rev = tasks[b].rev
        /\ MessagesOf(b) = tasks[b].messages

\* A claim always has its batch row, of the same queue, and a batch row always
\* has a claimed message: neither a message nor a concurrency slot is held by
\* something recovery and completion do not see.
ClaimsMatchBatches ==
    /\ \A m \in DOMAIN messages : ~Ready(m) =>
          /\ messages[m].batch \in DOMAIN batches
          /\ batches[messages[m].batch].queue = messages[m].queue
    /\ \A b \in DOMAIN batches : MessagesOf(b) # {}

\* Recovery preserves consumed attempts: the attempts of a row count the
\* deliveries begun since it was inserted, the one in flight excepted, whether
\* each ended by an answer, a timeout or a restart.
AttemptsCountDeliveries ==
    \A m \in DOMAIN messages :
        deliveries[m] = messages[m].attempts + (IF Ready(m) THEN 0 ELSE 1)

\* A parked message stays as the parking trigger saw it: not claimed, in the
\* source queue, with the attempts it was parked with.
ParkedIsFrozen ==
    \A m \in DOMAIN pending :
        /\ pending[m].source # pending[m].target
        /\ m \in DOMAIN messages =>
              /\ Ready(m)
              /\ messages[m].queue = pending[m].source
              /\ messages[m].attempts = pending[m].attempts

\* Every queue a row refers to exists: the queue of a message, of a batch, of a
\* consumer and its dead-letter queue, and both ends of a parked row.  In
\* particular the parking statement of a restart never meets a missing target,
\* which would keep the daemon from starting.
ReferencesExist ==
    /\ \A m \in DOMAIN messages : queue[messages[m].queue] # "absent"
    /\ \A b \in DOMAIN batches : queue[batches[b].queue] # "absent"
    /\ \A m \in DOMAIN pending :
          queue[pending[m].source] # "absent" /\ queue[pending[m].target] # "absent"
    /\ \A q \in DOMAIN consumer :
          /\ queue[q] \in {"accepting", "configuring"}
          /\ consumer[q].config.dlq # NoQueue =>
                queue[consumer[q].config.dlq] \in {"accepting", "configuring"}

\* No path, dead-lettering included, fills a queue past max_backlog_bytes.
BacklogBounded == \A q \in Queues : Backlog(q) <= MaxBacklog[q]

\* A message parked for its dead-letter queue leaves its source queue only for
\* that queue, by expiry, or because the source queue is being deleted.
ParkedIsKept ==
    [][\A m \in DOMAIN pending \cap DOMAIN messages :
         \/ m \in DOMAIN messages' /\ messages'[m].queue
                \in {pending[m].source, pending[m].target}
         \/ m \notin DOMAIN messages' /\ (\/ messages[m].ttl = 0
                                          \/ queue[pending[m].source] = "deleting")]_vars

\* A parked message does not stay parked: it is moved, it expires or it is purged.
ParkedIsResolved == \A m \in Messages : (m \in DOMAIN pending) ~> (m \notin DOMAIN pending)

\* What a message's row says of it: its queue and the deliveries begun there.
Place ==
    [m \in DOMAIN messages |->
       [queue |-> messages[m].queue,
        handed |-> messages[m].attempts + (IF Ready(m) THEN 0 ELSE 1)]]

HeldBy == [b \in DOMAIN batches |-> MessagesOf(b)]

Contract ==
    INSTANCE QueueContract WITH
        accepted <- used, place <- Place, held <- HeldBy

\* The store implements QueueContract: whatever producers, deliveries, their
\* failures, the maintenance, reconfiguration, deletion and restarts do, and in
\* any order, each is a step the contract allows.
KeepsDeliveryContract == Contract!Spec

=============================================================================
