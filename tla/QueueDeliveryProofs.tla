------------------------ MODULE QueueDeliveryProofs ------------------------
(***************************************************************************)
(* Proofs about QueueDelivery, for any queues, messages, consumer          *)
(* declarations, delays and limits: the invariant, the backlog limit, the  *)
(* fate of parked messages, and that the store implements QueueContract.   *)
(***************************************************************************)
EXTENDS QueueDelivery, FiniteSetTheorems, TLAPS

USE SMTT(60)

\* A message id that was never enqueued has no deliveries.
FreshUndelivered == \A m \in Messages \ used : deliveries[m] = 0

\* Neither a declaration nor the snapshot of one dead-letters to its own queue.
NoSelfDlq ==
    /\ \A q \in DOMAIN consumer : consumer[q].config.dlq # q
    /\ \A b \in DOMAIN tasks : tasks[b].config.dlq # tasks[b].queue

IInv ==
    /\ TypeOK
    /\ FreshUndelivered
    /\ NoSelfDlq
    /\ TaskOwnsBatch
    /\ ClaimsMatchBatches
    /\ AttemptsCountDeliveries
    /\ ParkedIsFrozen
    /\ ReferencesExist

-----------------------------------------------------------------------------
(* Rows.                                                                   *)

LEMMA ClaimedRow ==
    ASSUME NEW row \in MessageRow, NEW b \in Batches
    PROVE  /\ [row EXCEPT !.batch = b] \in MessageRow
           /\ [row EXCEPT !.batch = b].queue = row.queue
           /\ [row EXCEPT !.batch = b].batch = b
           /\ [row EXCEPT !.batch = b].attempts = row.attempts
BY Zenon DEF MessageRow

\* What a row operation does to the row it is given.
LEMMA RetriedRow ==
    ASSUME NEW row \in MessageRow, NEW w \in Int
    PROVE  /\ Retried(row, w) \in MessageRow
           /\ Retried(row, w).queue = row.queue
           /\ Retried(row, w).batch = NoBatch
           /\ Retried(row, w).attempts = row.attempts + 1
BY DEF Retried, MessageRow

LEMMA DeadLetteredRow ==
    ASSUME NEW t \in Queues, NEW lag \in Nat
    PROVE  /\ DeadLettered(t, lag) \in MessageRow
           /\ DeadLettered(t, lag).queue = t
           /\ DeadLettered(t, lag).batch = NoBatch
           /\ DeadLettered(t, lag).attempts = 0
BY TimeAssumption DEF DeadLettered, MessageRow

\* The fields of a declaration that the proofs use.
LEMMA ConfigFields ==
    ASSUME NEW c \in Configs
    PROVE  c.maxRetries \in Nat /\ c.dlq \in Queues \cup {NoQueue}
BY ConfigAssumption, Zenon DEF ConsumerConfig

-----------------------------------------------------------------------------
(* The initial state and the producer.                                     *)

LEMMA InitInv == Init => IInv
<1> SUFFICES ASSUME Init PROVE IInv
  OBVIOUS
<1>1. DOMAIN Empty = {} /\ \A T : Empty \in [DOMAIN Empty -> T]
  BY Zenon DEF Empty
<1>2. TypeOK
  BY <1>1, Zenon DEF Init, TypeOK
<1>3. FreshUndelivered /\ NoSelfDlq /\ TaskOwnsBatch /\ ClaimsMatchBatches
  BY <1>1, Zenon DEF Init, FreshUndelivered, NoSelfDlq, TaskOwnsBatch, ClaimsMatchBatches
<1>4. AttemptsCountDeliveries /\ ParkedIsFrozen /\ ReferencesExist
  BY <1>1, Zenon DEF Init, AttemptsCountDeliveries, ParkedIsFrozen, ReferencesExist
<1> QED BY <1>2, <1>3, <1>4, Zenon DEF IInv

LEMMA EnqueueInv ==
    ASSUME IInv, NEW q \in Queues, NEW S \in SUBSET Messages, NEW delay \in Delays,
           Enqueue(q, S, delay)
    PROVE  IInv'
<1> DEFINE new == [m \in S |-> [queue |-> q, batch |-> NoBatch, attempts |-> 0,
                                wait |-> delay, ttl |-> Retention]]
<1>1. new \in [DOMAIN new -> MessageRow] /\ DOMAIN new = S
  BY TimeAssumption DEF MessageRow
<1>2. messages \in [DOMAIN messages -> MessageRow] /\ messages' = Extend(messages, new)
  BY Zenon DEF IInv, TypeOK, Enqueue
<1> HIDE DEF new
<1>3. /\ DOMAIN messages' = DOMAIN messages \cup S
      /\ messages' \in [DOMAIN messages' -> MessageRow]
      /\ \A m \in S : messages'[m] = new[m]
      /\ \A m \in DOMAIN messages \ S : messages'[m] = messages[m]
  BY <1>1, <1>2, Zenon DEF Extend
<1>4. S \cap used = {} /\ used' = used \cup S /\ queue[q] = "accepting"
      /\ UNCHANGED <<queue, consumer, batches, pending, tasks, attached, deliveries>>
  BY Zenon DEF Enqueue
<1>5. DOMAIN messages \cap S = {} /\ DOMAIN pending \cap S = {}
  BY <1>4, Zenon DEF IInv, TypeOK
<1>6. \A m \in S : /\ messages'[m].queue = q /\ messages'[m].batch = NoBatch
                   /\ messages'[m].attempts = 0
  BY <1>3 DEF new
<1>7. TypeOK' /\ FreshUndelivered' /\ NoSelfDlq'
  BY <1>3, <1>4, Zenon DEF IInv, TypeOK, FreshUndelivered, NoSelfDlq
<1>8. \A b \in Batches : MessagesOf(b)' = MessagesOf(b)
  BY <1>3, <1>5, <1>6, IdAssumption, Zenon DEF MessagesOf
<1>9. TaskOwnsBatch' /\ ClaimsMatchBatches'
  BY <1>3, <1>4, <1>5, <1>6, <1>8 DEF IInv, TypeOK, TaskOwnsBatch, ClaimsMatchBatches, Ready
<1>10. AttemptsCountDeliveries'
  BY <1>3, <1>4, <1>5, <1>6 DEF IInv, TypeOK, AttemptsCountDeliveries, FreshUndelivered, Ready
<1>11. ParkedIsFrozen' /\ ReferencesExist'
  BY <1>3, <1>4, <1>5, <1>6 DEF IInv, TypeOK, ParkedIsFrozen, ReferencesExist, Ready
<1> QED BY <1>7, <1>9, <1>10, <1>11, Zenon DEF IInv

-----------------------------------------------------------------------------
(* Claim and completion.                                                   *)

LEMMA ClaimInv ==
    ASSUME IInv, NEW q \in Queues, NEW b \in Batches, NEW S \in SUBSET Due(q),
           Claim(q, b, S)
    PROVE  IInv'
<1>1. /\ b \notin DOMAIN batches \cup DOMAIN tasks
      /\ S # {} /\ S \subseteq DOMAIN messages
      /\ \A m \in S : messages[m].batch = NoBatch /\ messages[m].queue = q
                      /\ m \notin DOMAIN pending
      /\ q \in DOMAIN consumer
      /\ UNCHANGED <<queue, consumer, pending, attached, used>>
  BY Zenon DEF Claim, Due, InQueue, Ready, Eligible
<1>2. consumer[q] \in ConsumerRow
  BY <1>1, Zenon DEF IInv, TypeOK
<1>3. consumer[q].rev \in Nat /\ consumer[q].config \in Configs
      /\ consumer[q].config.dlq # q /\ queue[q] # "absent"
  BY <1>1, <1>2, Zenon DEF ConsumerRow, IInv, NoSelfDlq, ReferencesExist
<1> DEFINE row  == [queue |-> q, rev |-> consumer[q].rev]
           task == [queue |-> q, rev |-> consumer[q].rev,
                    config |-> consumer[q].config, messages |-> S]
<1>4. row \in BatchRow /\ task \in Task
  BY <1>1, <1>3, Zenon DEF BatchRow, Task, IInv, TypeOK
<1>5. /\ DOMAIN batches' = DOMAIN batches \cup {b}
      /\ batches'[b] = row
      /\ \A x \in DOMAIN batches : batches'[x] = batches[x]
      /\ batches' \in [DOMAIN batches' -> BatchRow]
  BY <1>1, <1>4, Zenon DEF Claim, Extend, IInv, TypeOK
<1>6. /\ DOMAIN tasks' = DOMAIN tasks \cup {b}
      /\ tasks'[b] = task
      /\ \A x \in DOMAIN tasks : tasks'[x] = tasks[x]
      /\ tasks' \in [DOMAIN tasks' -> Task]
  BY <1>1, <1>4, Zenon DEF Claim, Extend, IInv, TypeOK
<1>7. /\ DOMAIN messages' = DOMAIN messages
      /\ \A m \in DOMAIN messages \ S : messages'[m] = messages[m]
      /\ \A m \in S : messages'[m] = [messages[m] EXCEPT !.batch = b]
  BY <1>1, Zenon DEF Claim
<1>8. \A m \in S : /\ messages'[m] \in MessageRow
                   /\ messages'[m].batch = b
                   /\ messages'[m].queue = q
                   /\ messages'[m].attempts = messages[m].attempts
  <2> TAKE m \in S
  <2>1. messages[m] \in MessageRow /\ messages[m].queue = q
    BY <1>1, Zenon DEF IInv, TypeOK
  <2>2. messages'[m] = [messages[m] EXCEPT !.batch = b]
    BY <1>7, Zenon
  <2> QED BY <2>1, <2>2, ClaimedRow
<1>9. messages' \in [DOMAIN messages' -> MessageRow]
  <2>1. messages' = [m \in DOMAIN messages |->
           IF m \in S THEN [messages[m] EXCEPT !.batch = b] ELSE messages[m]]
    BY Zenon DEF Claim
  <2>2. \A m \in DOMAIN messages : messages'[m] \in MessageRow
    BY <1>7, <1>8, Zenon DEF IInv, TypeOK
  <2> QED BY <2>1, <2>2, Zenon
<1>10. deliveries' = [m \in Messages |->
          IF m \in S THEN deliveries[m] + 1 ELSE deliveries[m]]
  BY Zenon DEF Claim
<1>11. TypeOK'
  BY <1>1, <1>5, <1>6, <1>7, <1>9, <1>10 DEF IInv, TypeOK
<1>12. FreshUndelivered'
  BY <1>1, <1>10, Zenon DEF IInv, TypeOK, FreshUndelivered
<1>13. NoSelfDlq'
  BY <1>1, <1>3, <1>6 DEF IInv, NoSelfDlq
<1>14. MessagesOf(b) = {}
  BY <1>1, IdAssumption, Zenon DEF IInv, ClaimsMatchBatches, MessagesOf, Ready
<1>15. MessagesOf(b)' = S
  BY <1>1, <1>7, <1>8, <1>14, Zenon DEF MessagesOf
<1>16. \A x \in Batches \ {b} : MessagesOf(x)' = MessagesOf(x)
  BY <1>1, <1>7, <1>8, IdAssumption DEF MessagesOf
<1>17. TaskOwnsBatch'
  BY <1>1, <1>5, <1>6, <1>15, <1>16 DEF IInv, TypeOK, TaskOwnsBatch
<1>18. ClaimsMatchBatches'
  BY <1>1, <1>5, <1>7, <1>8, <1>15, <1>16 DEF IInv, TypeOK, ClaimsMatchBatches, Ready
<1>19. AttemptsCountDeliveries'
  BY <1>1, <1>7, <1>8, <1>10, IdAssumption
  DEF IInv, TypeOK, AttemptsCountDeliveries, MessageRow, Ready
<1>20. ParkedIsFrozen'
  BY <1>1, <1>7, Zenon DEF IInv, ParkedIsFrozen, Ready
<1>21. ReferencesExist'
  BY <1>1, <1>3, <1>5, <1>7, <1>8 DEF IInv, ReferencesExist
<1> QED BY <1>11, <1>12, <1>13, <1>17, <1>18, <1>19, <1>20, <1>21, Zenon DEF IInv

LEMMA CompleteInv ==
    ASSUME IInv, NEW b \in DOMAIN tasks, NEW retry, NEW delay \in [retry -> Nat],
           NEW lag \in Nat, NEW moved, Complete(b, retry, delay, lag, moved)
    PROVE  IInv'
<1> DEFINE c      == tasks[b].config
           lapsed == {m \in retry : messages[m].ttl <= lag}
           again  == {m \in retry \ lapsed : messages[m].attempts + 1 <= c.maxRetries}
           spent  == retry \ (lapsed \cup again)
           parked == IF c.dlq = NoQueue THEN {} ELSE spent \ moved
           gone   == tasks[b].messages \ (again \cup moved \cup parked)
           row(m) == [source |-> tasks[b].queue, target |-> c.dlq,
                      attempts |-> messages[m].attempts + 1, wait |-> lag + DlqBackoff]
<1>1. /\ b \in Batches /\ b \in DOMAIN batches
      /\ tasks[b] \in Task /\ c \in Configs /\ tasks[b].queue \in Queues
      /\ MessagesOf(b) = tasks[b].messages
      /\ retry \subseteq tasks[b].messages
      /\ tasks[b].queue # c.dlq
      /\ batches[b].queue = tasks[b].queue
  <2>1. batches[b].queue = tasks[b].queue
    BY Zenon DEF IInv, TaskOwnsBatch
  <2> QED BY <2>1, Zenon DEF Complete, IInv, TypeOK, Task, NoSelfDlq
<1>2. \A m \in tasks[b].messages : /\ m \in DOMAIN messages
                                   /\ messages[m] \in MessageRow
                                   /\ messages[m].batch = b
                                   /\ messages[m].batch # NoBatch
                                   /\ messages[m].queue = tasks[b].queue
                                   /\ m \notin DOMAIN pending
                                   /\ m \in used
  <2>1. \A m \in tasks[b].messages : /\ m \in DOMAIN messages
                                     /\ messages[m].batch = b /\ b # NoBatch
    BY <1>1, IdAssumption, Zenon DEF MessagesOf
  <2>2. \A m \in tasks[b].messages : messages[m] \in MessageRow /\ m \in used
    BY <2>1, Zenon DEF IInv, TypeOK
  <2>3. \A m \in tasks[b].messages : messages[m].queue = tasks[b].queue
    BY <1>1, <2>1, Zenon DEF IInv, ClaimsMatchBatches, Ready
  <2>4. \A m \in tasks[b].messages : m \notin DOMAIN pending
    BY <2>1, Zenon DEF IInv, ParkedIsFrozen, Ready
  <2> QED BY <2>1, <2>2, <2>3, <2>4, Zenon
<1>3. /\ again \subseteq tasks[b].messages
      /\ moved \subseteq spent /\ parked \subseteq spent /\ spent \subseteq tasks[b].messages
      /\ moved # {} => c.dlq \in Queues /\ queue[c.dlq] = "accepting"
      /\ parked # {} => c.dlq \in Queues /\ queue[c.dlq] # "absent"
  <2>1. c.dlq \in Queues \cup {NoQueue}
    BY <1>1, ConfigFields, Zenon
  <2>2. /\ IF c.dlq = NoQueue THEN moved = {} ELSE DlqAdmits(c.dlq, spent, moved)
        /\ parked # {} => c.dlq \notin Absent
    BY Zenon DEF Complete
  <2> QED BY <1>1, <2>1, <2>2, Zenon DEF DlqAdmits, Absent
<1>4. again \cap moved = {} /\ again \cap parked = {} /\ moved \cap parked = {}
  BY <1>3, Zenon
<1>5. messages' = [m \in DOMAIN messages \ gone |->
                CASE m \in again  -> Retried(messages[m], lag + delay[m])
                  [] m \in parked -> Retried(messages[m], lag)
                  [] m \in moved  -> DeadLettered(c.dlq, lag)
                  [] OTHER        -> messages[m]]
  BY Zenon DEF Complete
<1>6. /\ pending' = Extend(pending, [m \in parked |-> row(m)])
      /\ deliveries' = [m \in Messages |-> IF m \in moved THEN 0 ELSE deliveries[m]]
      /\ batches' = Without(batches, {b}) /\ tasks' = Without(tasks, {b})
      /\ UNCHANGED <<queue, consumer, attached, used>>
  BY Zenon DEF Complete
<1>7. again \subseteq retry
  OBVIOUS
<1> HIDE DEF c, lapsed, again, spent, parked, gone, row
<1>8. \A m \in DOMAIN messages \ tasks[b].messages :
         m \in DOMAIN messages' /\ messages'[m] = messages[m]
  BY <1>3, <1>5, Zenon DEF gone
<1>9. \A m \in again \cup parked : /\ m \in DOMAIN messages'
                                   /\ messages'[m] \in MessageRow
                                   /\ messages'[m].queue = tasks[b].queue
                                   /\ messages'[m].batch = NoBatch
                                   /\ messages'[m].attempts = messages[m].attempts + 1
  <2> TAKE m \in again \cup parked
  <2>1. messages[m] \in MessageRow /\ messages[m].queue = tasks[b].queue
    BY <1>2, <1>3, Zenon
  <2>2. m \in DOMAIN messages \ gone
    BY <1>2, <1>3, Zenon DEF gone
  <2>3. CASE m \in again
    <3>1. messages'[m] = Retried(messages[m], lag + delay[m])
      BY <1>4, <1>5, <2>2, <2>3, Zenon
    <3>2. lag + delay[m] \in Int
      BY <1>7, <2>3
    <3>3. m \in DOMAIN messages'
      BY <1>5, <2>2, Zenon
    <3>4. /\ Retried(messages[m], lag + delay[m]) \in MessageRow
          /\ Retried(messages[m], lag + delay[m]).queue = messages[m].queue
          /\ Retried(messages[m], lag + delay[m]).batch = NoBatch
          /\ Retried(messages[m], lag + delay[m]).attempts = messages[m].attempts + 1
      BY <2>1, <3>2, RetriedRow, Zenon
    <3> QED BY <2>1, <3>1, <3>3, <3>4, Zenon
  <2>4. CASE m \in parked
    <3>1. messages'[m] = Retried(messages[m], lag)
      BY <1>4, <1>5, <2>2, <2>4, Zenon
    <3>2. lag \in Int
      OBVIOUS
    <3>3. m \in DOMAIN messages'
      BY <1>5, <2>2, Zenon
    <3>4. /\ Retried(messages[m], lag) \in MessageRow
          /\ Retried(messages[m], lag).queue = messages[m].queue
          /\ Retried(messages[m], lag).batch = NoBatch
          /\ Retried(messages[m], lag).attempts = messages[m].attempts + 1
      BY <2>1, <3>2, RetriedRow, Zenon
    <3> QED BY <2>1, <3>1, <3>3, <3>4, Zenon
  <2> QED BY <2>3, <2>4, Zenon
<1>10. \A m \in moved : /\ m \in DOMAIN messages'
                        /\ messages'[m] \in MessageRow
                        /\ messages'[m].queue = c.dlq
                        /\ messages'[m].batch = NoBatch
                        /\ messages'[m].attempts = 0
  <2>1. \A m \in moved : m \in DOMAIN messages' /\ messages'[m] = DeadLettered(c.dlq, lag)
    BY <1>2, <1>3, <1>4, <1>5, Zenon DEF gone
  <2> QED BY <1>3, <2>1, DeadLetteredRow
<1>11. DOMAIN messages' \subseteq (DOMAIN messages \ tasks[b].messages)
                                 \cup again \cup parked \cup moved
  BY <1>5, Zenon DEF gone
<1>12. messages' \in [DOMAIN messages' -> MessageRow]
  <2>1. \A m \in DOMAIN messages' : messages'[m] \in MessageRow
    BY <1>8, <1>9, <1>10, <1>11, Zenon DEF IInv, TypeOK
  <2> QED BY <1>5, <2>1, Zenon
<1>13. /\ DOMAIN batches' = DOMAIN batches \ {b}
       /\ \A x \in DOMAIN batches' : batches'[x] = batches[x]
       /\ DOMAIN tasks' = DOMAIN tasks \ {b}
       /\ \A x \in DOMAIN tasks' : tasks'[x] = tasks[x]
       /\ batches' \in [DOMAIN batches' -> BatchRow]
       /\ tasks' \in [DOMAIN tasks' -> Task]
  BY <1>6, Zenon DEF Without, IInv, TypeOK
<1>14. /\ DOMAIN pending' = DOMAIN pending \cup parked
       /\ \A m \in parked : pending'[m] = row(m)
       /\ \A m \in DOMAIN pending : pending'[m] = pending[m]
  BY <1>2, <1>3, <1>6, Zenon DEF Extend
<1>15. \A m \in parked : /\ row(m) \in PendingRow
                         /\ row(m).source = tasks[b].queue /\ row(m).target = c.dlq
                         /\ row(m).attempts = messages[m].attempts + 1
  BY <1>1, <1>2, <1>3, TimeAssumption DEF row, PendingRow, MessageRow
<1>16. pending' \in [DOMAIN pending' -> PendingRow]
  BY <1>6, <1>14, <1>15, Zenon DEF Extend, IInv, TypeOK
<1>17. TypeOK'
  <2>1. DOMAIN messages' \subseteq used'
    BY <1>5, <1>6, Zenon DEF IInv, TypeOK
  <2>2. DOMAIN pending' \subseteq used'
    BY <1>2, <1>3, <1>6, <1>14, Zenon DEF IInv, TypeOK
  <2>3. deliveries' \in [Messages -> Nat]
    BY <1>6, Zenon DEF IInv, TypeOK
  <2> QED BY <1>6, <1>12, <1>13, <1>16, <2>1, <2>2, <2>3, Zenon DEF IInv, TypeOK
<1>18. FreshUndelivered' /\ NoSelfDlq'
  BY <1>6, <1>13, Zenon DEF IInv, TypeOK, FreshUndelivered, NoSelfDlq
<1>19. \A x \in Batches \ {b} : MessagesOf(x)' = MessagesOf(x)
  BY <1>2, <1>8, <1>9, <1>10, <1>11, IdAssumption DEF MessagesOf
<1>20. TaskOwnsBatch'
  BY <1>13, <1>19, Zenon DEF IInv, TypeOK, TaskOwnsBatch
<1>21. ClaimsMatchBatches'
  <2>1. \A m \in DOMAIN messages' : messages'[m].batch # NoBatch =>
           m \in DOMAIN messages \ tasks[b].messages /\ messages[m].batch # b
    BY <1>1, <1>8, <1>9, <1>10, <1>11, Zenon DEF MessagesOf
  <2> QED BY <1>8, <1>13, <1>19, <2>1 DEF IInv, TypeOK, ClaimsMatchBatches, Ready
<1>22. AttemptsCountDeliveries'
  <2>1. \A m \in DOMAIN messages : m \in Messages /\ messages[m].attempts \in Nat
    BY Zenon DEF IInv, TypeOK, MessageRow
  <2>2. \A m \in DOMAIN messages \ tasks[b].messages :
           deliveries'[m] = messages'[m].attempts + (IF Ready(m)' THEN 0 ELSE 1)
    BY <1>3, <1>6, <1>8, <2>1, Zenon DEF IInv, AttemptsCountDeliveries, Ready
  <2>3. \A m \in again \cup parked :
           deliveries'[m] = messages'[m].attempts + (IF Ready(m)' THEN 0 ELSE 1)
    BY <1>2, <1>3, <1>4, <1>6, <1>9, <2>1 DEF IInv, AttemptsCountDeliveries, Ready
  <2>4. \A m \in moved :
           deliveries'[m] = messages'[m].attempts + (IF Ready(m)' THEN 0 ELSE 1)
    BY <1>2, <1>3, <1>6, <1>10, <2>1 DEF Ready
  <2> QED BY <1>11, <2>2, <2>3, <2>4, Zenon DEF AttemptsCountDeliveries
<1>23. ParkedIsFrozen'
  <2>1. \A m \in DOMAIN pending : m \notin tasks[b].messages
    BY <1>2, Zenon
  <2>2. \A m \in DOMAIN pending : m \in DOMAIN messages' =>
           m \in DOMAIN messages /\ messages'[m] = messages[m]
    BY <1>3, <1>8, <1>11, <2>1, Zenon
  <2> QED BY <1>1, <1>9, <1>14, <1>15, <2>2 DEF IInv, ParkedIsFrozen, Ready
<1>24. ReferencesExist'
  <2>1. queue[tasks[b].queue] # "absent"
    BY <1>1, Zenon DEF IInv, ReferencesExist
  <2>2. \A m \in DOMAIN messages' : queue'[messages'[m].queue] # "absent"
    BY <1>3, <1>6, <1>8, <1>9, <1>10, <1>11, <2>1 DEF IInv, ReferencesExist
  <2>3. \A m \in DOMAIN pending' :
          queue'[pending'[m].source] # "absent" /\ queue'[pending'[m].target] # "absent"
    <3>1. \A m \in parked : queue'[row(m).source] # "absent" /\ queue'[row(m).target] # "absent"
      BY <1>3, <1>6, <1>15, <2>1, Zenon
    <3>2. \A m \in DOMAIN pending :
            queue'[pending[m].source] # "absent" /\ queue'[pending[m].target] # "absent"
      BY <1>6, Zenon DEF IInv, ReferencesExist
    <3> QED BY <1>14, <3>1, <3>2, Zenon
  <2>4. queue' = queue /\ consumer' = consumer
    BY <1>6, Zenon
  <2>5. \A x \in DOMAIN batches' : queue'[batches'[x].queue] # "absent"
    BY <1>13, <2>4, Zenon DEF IInv, ReferencesExist
  <2> QED BY <2>2, <2>3, <2>4, <2>5, Zenon DEF IInv, ReferencesExist
<1> QED BY <1>17, <1>18, <1>20, <1>21, <1>22, <1>23, <1>24, Zenon DEF IInv

\* A step that leaves every row and every queue alone.
LEMMA RowsUnchangedInv ==
    ASSUME IInv, UNCHANGED <<queue, consumer, messages, batches, pending, attached, used,
                             deliveries>>,
           NEW S, tasks' = Without(tasks, S)
    PROVE  IInv'
<1>1. /\ DOMAIN tasks' = DOMAIN tasks \ S
      /\ \A x \in DOMAIN tasks' : tasks'[x] = tasks[x]
      /\ tasks' \in [DOMAIN tasks' -> Task]
  BY Zenon DEF Without, IInv, TypeOK
<1>2. TypeOK'
  BY <1>1, Zenon DEF IInv, TypeOK
<1>3. FreshUndelivered' /\ NoSelfDlq' /\ TaskOwnsBatch'
  BY <1>1 DEF IInv, FreshUndelivered, NoSelfDlq, TaskOwnsBatch, MessagesOf
<1>4. ClaimsMatchBatches' /\ AttemptsCountDeliveries' /\ ParkedIsFrozen' /\ ReferencesExist'
  BY Zenon DEF IInv, ClaimsMatchBatches, AttemptsCountDeliveries, ParkedIsFrozen, ReferencesExist,
         MessagesOf, Ready
<1> QED BY <1>2, <1>3, <1>4, Zenon DEF IInv

-----------------------------------------------------------------------------
(* Maintenance.                                                            *)

\* Deleting messages that are not claimed, with their parked rows.
LEMMA RemoveInv ==
    ASSUME IInv, NEW S, S \subseteq DOMAIN messages, \A m \in S : Ready(m), Remove(S),
           UNCHANGED <<queue, consumer, batches, tasks, attached, used, deliveries>>
    PROVE  IInv'
<1>1. /\ DOMAIN messages' = DOMAIN messages \ S
      /\ \A m \in DOMAIN messages' : messages'[m] = messages[m]
      /\ messages' \in [DOMAIN messages' -> MessageRow]
      /\ DOMAIN pending' = DOMAIN pending \ S
      /\ \A m \in DOMAIN pending' : pending'[m] = pending[m]
      /\ pending' \in [DOMAIN pending' -> PendingRow]
  BY Zenon DEF Remove, Without, IInv, TypeOK
<1>2. TypeOK' /\ FreshUndelivered' /\ NoSelfDlq'
  BY <1>1, Zenon DEF IInv, TypeOK, FreshUndelivered, NoSelfDlq
<1>3. \A x \in Batches : MessagesOf(x)' = MessagesOf(x)
  BY <1>1, IdAssumption, Zenon DEF MessagesOf, Ready
<1>4. TaskOwnsBatch' /\ ClaimsMatchBatches'
  BY <1>1, <1>3, ZenonT(60) DEF IInv, TypeOK, TaskOwnsBatch, ClaimsMatchBatches, Ready
<1>5. AttemptsCountDeliveries' /\ ParkedIsFrozen' /\ ReferencesExist'
  BY <1>1 DEF IInv, AttemptsCountDeliveries, ParkedIsFrozen, ReferencesExist, Ready
<1> QED BY <1>2, <1>4, <1>5, Zenon DEF IInv

LEMMA ForwardInv ==
    ASSUME IInv, NEW moved \in SUBSET DuePending, ForwardDlq(moved)
    PROVE  IInv'
<1> DEFINE lapsed == {m \in DuePending : messages[m].ttl = 0}
           live   == DuePending \ lapsed
<1>1. /\ moved \subseteq live
      /\ messages' = [m \in DOMAIN messages \ lapsed |->
                IF m \in moved THEN DeadLettered(pending[m].target, 0) ELSE messages[m]]
      /\ pending' = [m \in DOMAIN pending \ (lapsed \cup moved) |->
                IF m \in live THEN [pending[m] EXCEPT !.wait = DlqBackoff] ELSE pending[m]]
      /\ deliveries' = [m \in Messages |-> IF m \in moved THEN 0 ELSE deliveries[m]]
      /\ UNCHANGED <<queue, consumer, batches, tasks, attached, used>>
  BY Zenon DEF ForwardDlq
<1>2. \A m \in DuePending : m \in DOMAIN pending /\ m \in DOMAIN messages /\ Ready(m)
  BY Zenon DEF ForwardDlq, MaintenanceRuns, DuePending
<1>3. \A m \in DOMAIN pending : pending[m] \in PendingRow
  BY Zenon DEF IInv, TypeOK
<1>4. \A m \in moved : pending[m].target \in Queues /\ queue[pending[m].target] = "accepting"
  <2> TAKE m \in moved
  <2>1. pending[m].target \in Queues
    BY <1>2, <1>3, Zenon DEF PendingRow
  <2>2. m \in {x \in live : pending[x].target = pending[m].target}
    BY <1>1, Zenon
  <2> QED BY <2>1, <2>2, Zenon DEF ForwardDlq
<1>5. \A m \in DOMAIN pending \ (lapsed \cup moved) :
        /\ pending'[m] \in PendingRow
        /\ pending'[m].source = pending[m].source
        /\ pending'[m].target = pending[m].target
        /\ pending'[m].attempts = pending[m].attempts
  <2> TAKE m \in DOMAIN pending \ (lapsed \cup moved)
  <2>1. pending[m] \in PendingRow
    BY <1>3, Zenon
  <2>2. pending'[m] \in {pending[m], [pending[m] EXCEPT !.wait = DlqBackoff]}
    BY <1>1, Zenon
  <2> QED BY <2>1, <2>2, TimeAssumption, Zenon DEF PendingRow
<1> HIDE DEF lapsed, live
<1>6. lapsed \subseteq DuePending /\ live \subseteq DuePending
  BY Zenon DEF lapsed, live
<1>7. \A m \in moved : /\ m \in DOMAIN messages'
                       /\ messages'[m] \in MessageRow
                       /\ messages'[m].queue = pending[m].target
                       /\ messages'[m].batch = NoBatch
                       /\ messages'[m].attempts = 0
  <2> TAKE m \in moved
  <2>1. m \in DOMAIN messages \ lapsed
    BY <1>1, <1>2, <1>6, Zenon DEF live
  <2>2. messages'[m] = DeadLettered(pending[m].target, 0) /\ 0 \in Nat
    BY <1>1, <2>1, Zenon
  <2> QED BY <1>1, <1>4, <2>1, <2>2, DeadLetteredRow, Zenon
<1>8. /\ DOMAIN messages' = DOMAIN messages \ lapsed
      /\ \A m \in DOMAIN messages' \ moved : messages'[m] = messages[m]
      /\ DOMAIN pending' = DOMAIN pending \ (lapsed \cup moved)
  BY <1>1, Zenon
<1>9. TypeOK'
  <2>1. \A m \in DOMAIN messages' : messages'[m] \in MessageRow
    BY <1>7, <1>8, Zenon DEF IInv, TypeOK
  <2>2. messages' \in [DOMAIN messages' -> MessageRow]
    BY <1>1, <2>1, Zenon
  <2>3. pending' \in [DOMAIN pending' -> PendingRow]
    BY <1>1, <1>5, <1>8, Zenon
  <2>4. deliveries' \in [Messages -> Nat]
    BY <1>1, Zenon DEF IInv, TypeOK
  <2> QED BY <1>1, <1>8, <2>2, <2>3, <2>4, Zenon DEF IInv, TypeOK
<1>10. FreshUndelivered' /\ NoSelfDlq'
  BY <1>1, Zenon DEF IInv, TypeOK, FreshUndelivered, NoSelfDlq
<1>11. \A x \in Batches : MessagesOf(x)' = MessagesOf(x)
  BY <1>1, <1>2, <1>6, <1>7, <1>8, IdAssumption, Zenon DEF MessagesOf, Ready
<1>12. TaskOwnsBatch'
  BY <1>1, <1>11, Zenon DEF IInv, TypeOK, TaskOwnsBatch
<1>13. ClaimsMatchBatches'
  BY <1>1, <1>7, <1>8, <1>11, Zenon DEF IInv, TypeOK, ClaimsMatchBatches, Ready
<1>14. AttemptsCountDeliveries'
  <2>1. \A m \in DOMAIN messages : m \in Messages
    BY Zenon DEF IInv, TypeOK
  <2>2. \A m \in DOMAIN messages' \ moved :
           deliveries'[m] = messages'[m].attempts + (IF Ready(m)' THEN 0 ELSE 1)
    BY <1>1, <1>8, <2>1, Zenon DEF IInv, AttemptsCountDeliveries, Ready
  <2>3. \A m \in moved :
           deliveries'[m] = messages'[m].attempts + (IF Ready(m)' THEN 0 ELSE 1)
    <3> TAKE m \in moved
    <3>1. m \in Messages
      BY <1>7, <1>8, <2>1, Zenon
    <3>2. deliveries'[m] = 0
      BY <1>1, <3>1, Zenon
    <3> QED BY <1>7, <3>2 DEF Ready
  <2> QED BY <2>2, <2>3, Zenon DEF AttemptsCountDeliveries
<1>15. ParkedIsFrozen'
  BY <1>5, <1>8 DEF IInv, ParkedIsFrozen, Ready
<1>16. ReferencesExist'
  <2>1. queue' = queue /\ consumer' = consumer /\ batches' = batches
    BY <1>1, Zenon
  <2>2. \A m \in DOMAIN messages' : queue'[messages'[m].queue] # "absent"
    BY <1>4, <1>7, <1>8, <2>1 DEF IInv, ReferencesExist
  <2>3. \A m \in DOMAIN pending' :
          queue'[pending'[m].source] # "absent" /\ queue'[pending'[m].target] # "absent"
    BY <1>5, <1>8, <2>1, ZenonT(60) DEF IInv, ReferencesExist
  <2> QED BY <2>1, <2>2, <2>3, Zenon DEF IInv, ReferencesExist
<1> QED BY <1>9, <1>10, <1>12, <1>13, <1>14, <1>15, <1>16, Zenon DEF IInv

-----------------------------------------------------------------------------
(* Consumers and the queue lifecycle.                                      *)

\* A step that changes consumer declarations only.
LEMMA ConsumerInv ==
    ASSUME IInv, UNCHANGED <<queue, messages, batches, pending, tasks, used, deliveries>>,
           attached' \in Nat,
           DOMAIN consumer' \subseteq Queues,
           consumer' \in [DOMAIN consumer' -> ConsumerRow],
           \A q \in DOMAIN consumer' :
              /\ consumer'[q].config.dlq # q
              /\ queue[q] \in {"accepting", "configuring"}
              /\ consumer'[q].config.dlq # NoQueue =>
                    queue[consumer'[q].config.dlq] \in {"accepting", "configuring"}
    PROVE  IInv'
<1>1. TypeOK' /\ FreshUndelivered' /\ NoSelfDlq'
  BY Zenon DEF IInv, TypeOK, FreshUndelivered, NoSelfDlq
<1>2. TaskOwnsBatch' /\ ClaimsMatchBatches' /\ AttemptsCountDeliveries' /\ ParkedIsFrozen'
  BY DEF IInv, TaskOwnsBatch, ClaimsMatchBatches, AttemptsCountDeliveries, ParkedIsFrozen,
         MessagesOf, Ready
<1>3. ReferencesExist'
  BY Zenon DEF IInv, ReferencesExist
<1> QED BY <1>1, <1>2, <1>3, Zenon DEF IInv

LEMMA AttachInv ==
    ASSUME IInv, NEW q \in Queues, NEW c \in Configs, NEW active \in BOOLEAN,
           Attach(q, c, active)
    PROVE  IInv'
<1> DEFINE row == [rev |-> attached + 1, active |-> active, config |-> c]
<1>1. /\ row \in ConsumerRow /\ row.config = c /\ attached' \in Nat
  BY DEF Attach, ConsumerRow, IInv, TypeOK
<1>2. consumer' = Extend(consumer, [x \in {q} |-> row])
  BY Zenon DEF Attach
<1> HIDE DEF row
<1>3. /\ DOMAIN consumer' = DOMAIN consumer \cup {q}
      /\ consumer'[q] = row
      /\ \A p \in DOMAIN consumer \ {q} : consumer'[p] = consumer[p]
      /\ consumer' \in [DOMAIN consumer' -> ConsumerRow]
  BY <1>1, <1>2, Zenon DEF Extend, IInv, TypeOK
<1>4. /\ queue[q] \in {"accepting", "configuring"}
      /\ c.dlq # NoQueue => c.dlq # q /\ queue[c.dlq] \in {"accepting", "configuring"}
      /\ UNCHANGED <<queue, messages, batches, pending, tasks, used, deliveries>>
  BY Zenon DEF Attach
<1>5. c.dlq # q
  BY <1>4, IdAssumption, Zenon
<1>6. \A p \in DOMAIN consumer' :
        /\ consumer'[p].config.dlq # p
        /\ queue[p] \in {"accepting", "configuring"}
        /\ consumer'[p].config.dlq # NoQueue =>
              queue[consumer'[p].config.dlq] \in {"accepting", "configuring"}
  BY <1>1, <1>3, <1>4, <1>5, Zenon DEF IInv, NoSelfDlq, ReferencesExist
<1>7. DOMAIN consumer' \subseteq Queues
  BY <1>3, Zenon DEF IInv, TypeOK
<1> QED BY <1>1, <1>3, <1>4, <1>6, <1>7, ConsumerInv, Zenon

LEMMA DetachInv ==
    ASSUME IInv, NEW q \in Queues, Detach(q)
    PROVE  IInv'
<1>1. /\ DOMAIN consumer' = DOMAIN consumer \ {q}
      /\ \A p \in DOMAIN consumer' : consumer'[p] = consumer[p]
      /\ consumer' \in [DOMAIN consumer' -> ConsumerRow]
      /\ DOMAIN consumer' \subseteq Queues
      /\ attached' \in Nat
      /\ UNCHANGED <<queue, messages, batches, pending, tasks, used, deliveries>>
  BY Zenon DEF Detach, Without, IInv, TypeOK
<1>2. \A p \in DOMAIN consumer' :
        /\ consumer'[p].config.dlq # p
        /\ queue[p] \in {"accepting", "configuring"}
        /\ consumer'[p].config.dlq # NoQueue =>
              queue[consumer'[p].config.dlq] \in {"accepting", "configuring"}
  BY <1>1, Zenon DEF IInv, NoSelfDlq, ReferencesExist
<1> QED BY <1>1, <1>2, ConsumerInv, Zenon

LEMMA SetActiveInv ==
    ASSUME IInv, NEW q \in Queues, NEW active \in BOOLEAN, SetActive(q, active)
    PROVE  IInv'
<1>1. /\ q \in DOMAIN consumer
      /\ consumer' = [consumer EXCEPT ![q].active = active]
      /\ UNCHANGED <<queue, messages, batches, pending, tasks, attached, used, deliveries>>
  BY Zenon DEF SetActive
<1>2. consumer[q] \in ConsumerRow
  BY <1>1, Zenon DEF IInv, TypeOK
<1>3. /\ [consumer[q] EXCEPT !.active = active] \in ConsumerRow
      /\ [consumer[q] EXCEPT !.active = active].config = consumer[q].config
  BY <1>2, Zenon DEF ConsumerRow
<1>4. /\ DOMAIN consumer' = DOMAIN consumer
      /\ consumer'[q] = [consumer[q] EXCEPT !.active = active]
      /\ \A p \in DOMAIN consumer \ {q} : consumer'[p] = consumer[p]
  BY <1>1, Zenon DEF IInv, TypeOK
<1>5. consumer' \in [DOMAIN consumer' -> ConsumerRow]
  BY <1>1, <1>3, Zenon DEF IInv, TypeOK
<1>6. \A p \in DOMAIN consumer' : consumer'[p].config = consumer[p].config
  BY <1>3, <1>4, Zenon
<1>7. \A p \in DOMAIN consumer' :
        /\ consumer'[p].config.dlq # p
        /\ queue[p] \in {"accepting", "configuring"}
        /\ consumer'[p].config.dlq # NoQueue =>
              queue[consumer'[p].config.dlq] \in {"accepting", "configuring"}
  BY <1>4, <1>6, Zenon DEF IInv, NoSelfDlq, ReferencesExist
<1>8. DOMAIN consumer' \subseteq Queues /\ attached' \in Nat
  BY <1>1, <1>4, Zenon DEF IInv, TypeOK
<1> QED BY <1>1, <1>5, <1>7, <1>8, ConsumerInv, Zenon

\* A step that changes the state of one queue only.
LEMMA QueueStateInv ==
    ASSUME IInv, NEW q \in Queues, NEW s \in {"accepting", "configuring", "deleting", "absent"},
           queue' = [queue EXCEPT ![q] = s],
           UNCHANGED <<consumer, messages, batches, pending, tasks, attached, used, deliveries>>,
           s \in {"deleting", "absent"} =>
              /\ q \notin DOMAIN consumer
              /\ \A p \in DOMAIN consumer : consumer[p].config.dlq # q,
           s = "absent" =>
              /\ \A m \in DOMAIN messages : messages[m].queue # q
              /\ \A b \in DOMAIN batches : batches[b].queue # q
              /\ \A m \in DOMAIN pending : pending[m].source # q /\ pending[m].target # q
    PROVE  IInv'
<1>1. TypeOK' /\ FreshUndelivered' /\ NoSelfDlq'
  BY Zenon DEF IInv, TypeOK, FreshUndelivered, NoSelfDlq
<1>2. TaskOwnsBatch' /\ ClaimsMatchBatches' /\ AttemptsCountDeliveries' /\ ParkedIsFrozen'
  <2>1. TaskOwnsBatch'
    BY Zenon DEF IInv, TaskOwnsBatch, MessagesOf
  <2>2. ClaimsMatchBatches'
    BY ZenonT(60) DEF IInv, ClaimsMatchBatches, MessagesOf, Ready
  <2>3. AttemptsCountDeliveries' /\ ParkedIsFrozen'
    BY Zenon DEF IInv, AttemptsCountDeliveries, ParkedIsFrozen, Ready
  <2> QED BY <2>1, <2>2, <2>3, Zenon
<1>3. \A x \in Queues : queue'[x] = IF x = q THEN s ELSE queue[x]
  BY Zenon DEF IInv, TypeOK
<1>4. /\ \A m \in DOMAIN messages : messages[m].queue \in Queues
      /\ \A b \in DOMAIN batches : batches[b].queue \in Queues
      /\ \A m \in DOMAIN pending : pending[m].source \in Queues /\ pending[m].target \in Queues
      /\ \A p \in DOMAIN consumer : p \in Queues /\ consumer[p].config.dlq \in Queues \cup {NoQueue}
  BY ConfigFields, Zenon DEF IInv, TypeOK, MessageRow, BatchRow, PendingRow, ConsumerRow
<1>5. ReferencesExist'
  BY <1>3, <1>4 DEF IInv, ReferencesExist
<1> QED BY <1>1, <1>2, <1>5, Zenon DEF IInv

LEMMA LifecycleInv ==
    ASSUME IInv, NEW q \in Queues,
           \/ \E from, to \in {"accepting", "configuring"} : SetConfiguring(q, from, to)
           \/ FenceDelete(q)
           \/ DeleteProjection(q)
    PROVE  IInv'
<1>1. CASE \E from, to \in {"accepting", "configuring"} : SetConfiguring(q, from, to)
  <2>1. PICK from, to \in {"accepting", "configuring"} : SetConfiguring(q, from, to)
    BY <1>1, Zenon
  <2> QED BY <2>1, QueueStateInv, Zenon DEF SetConfiguring
<1>2. CASE FenceDelete(q)
  BY <1>2, QueueStateInv, Zenon DEF FenceDelete
<1>3. CASE DeleteProjection(q)
  <2>1. \A m \in DOMAIN messages : messages[m].queue # q
    BY <1>3, Zenon DEF DeleteProjection, InQueue
  <2>2. \A b \in DOMAIN batches : batches[b].queue # q
    BY <1>3, Zenon DEF DeleteProjection, BatchesOf
  <2>3. \A m \in DOMAIN pending : pending[m].source # q /\ pending[m].target # q
    BY <1>3, Zenon DEF DeleteProjection
  <2>4. /\ q \notin DOMAIN consumer
        /\ \A p \in DOMAIN consumer : consumer[p].config.dlq # q
    BY <1>3, IdAssumption, Zenon DEF DeleteProjection, IInv, ReferencesExist
  <2> QED BY <1>3, <2>1, <2>2, <2>3, <2>4, QueueStateInv, Zenon DEF DeleteProjection
<1> QED BY <1>1, <1>2, <1>3, Zenon

-----------------------------------------------------------------------------
(* Restart and time.                                                       *)

LEMMA RestartInv ==
    ASSUME IInv, Restart
    PROVE  IInv'
<1> DEFINE back == [m \in DOMAIN messages |->
                      IF Ready(m) THEN messages[m] ELSE Retried(messages[m], RequeueDelay)]
           target(m) == consumer[back[m].queue].config.dlq
           over == {m \in DOMAIN back : RecoveryParks(back[m])}
           lost == {m \in DOMAIN back : RecoveryDrops(back[m])}
           row(m) == [source |-> back[m].queue, target |-> target(m),
                      attempts |-> back[m].attempts, wait |-> RequeueDelay]
<1>1. /\ \A m \in over : target(m) \notin Absent
      /\ messages' = Without(back, lost)
      /\ pending' = Extend([m \in over |-> row(m)], pending)
      /\ batches' = Empty /\ tasks' = Empty
      /\ UNCHANGED <<queue, consumer, attached, used, deliveries>>
  BY Zenon DEF Restart
<1>2. DOMAIN back = DOMAIN messages
  OBVIOUS
<1>3. \A m \in DOMAIN messages :
        /\ back[m] \in MessageRow
        /\ back[m].queue = messages[m].queue
        /\ back[m].batch = NoBatch
        /\ back[m].attempts = messages[m].attempts + (IF Ready(m) THEN 0 ELSE 1)
        /\ Ready(m) => back[m] = messages[m]
  <2> TAKE m \in DOMAIN messages
  <2>1. messages[m] \in MessageRow /\ messages[m].attempts \in Nat
    BY Zenon DEF IInv, TypeOK, MessageRow
  <2>2. CASE Ready(m)
    BY <2>1, <2>2 DEF Ready
  <2>3. CASE ~Ready(m)
    <3>1. back[m] = Retried(messages[m], RequeueDelay) /\ RequeueDelay \in Int
      BY <2>3, TimeAssumption
    <3> HIDE DEF back
    <3> QED BY <2>1, <2>3, <3>1, RetriedRow
  <2> QED BY <2>2, <2>3, Zenon
<1> HIDE DEF back
<1>4. \A m \in over : /\ m \in DOMAIN messages
                      /\ row(m) \in PendingRow
                      /\ row(m).source = messages[m].queue
                      /\ row(m).attempts = back[m].attempts
                      /\ row(m).source # row(m).target
                      /\ queue[row(m).source] # "absent" /\ queue[row(m).target] # "absent"
  <2> TAKE m \in over
  <2> DEFINE p == messages[m].queue
  <2>1. /\ m \in DOMAIN messages /\ back[m].queue = p
        /\ p \in DOMAIN consumer /\ p \in Queues
        /\ back[m].attempts > consumer[p].config.maxRetries
        /\ consumer[p].config.dlq # NoQueue
        /\ consumer[p] \in ConsumerRow
    BY <1>2, <1>3, Zenon DEF RecoveryParks, Exhausted, IInv, TypeOK
  <2>2. consumer[p].config \in Configs
    BY <2>1, Zenon DEF ConsumerRow
  <2>3. target(m) \in Queues /\ consumer[p].config.maxRetries \in Nat
    BY <2>1, <2>2, ConfigFields, Zenon
  <2>4. back[m].attempts \in Nat \ {0}
    BY <1>3, <2>1, <2>3 DEF MessageRow
  <2>5. target(m) # p /\ queue[p] # "absent" /\ queue[target(m)] # "absent"
    <3>1. target(m) = consumer[p].config.dlq
      BY <2>1, Zenon
    <3>2. target(m) # p
      BY <2>1, <3>1, Zenon DEF IInv, NoSelfDlq
    <3>3. queue[p] # "absent"
      BY <2>1, Zenon DEF IInv, ReferencesExist
    <3>4. queue[target(m)] # "absent"
      BY <1>1, <2>3, Zenon DEF Absent
    <3> QED BY <3>2, <3>3, <3>4, Zenon
  <2> QED BY <2>1, <2>3, <2>4, <2>5, TimeAssumption, ZenonT(60) DEF PendingRow
<1> HIDE DEF over, lost, row, target
<1>5. /\ DOMAIN messages' \subseteq DOMAIN messages
      /\ \A m \in DOMAIN messages' : messages'[m] = back[m]
      /\ messages' = [m \in DOMAIN messages' |-> messages'[m]]
  BY <1>1, <1>2, Zenon DEF Without
<1>6. /\ DOMAIN pending' = DOMAIN pending \cup over
      /\ \A m \in DOMAIN pending : pending'[m] = pending[m]
      /\ \A m \in over \ DOMAIN pending : pending'[m] = row(m)
      /\ pending' = [m \in DOMAIN pending' |-> pending'[m]]
  BY <1>1, Zenon DEF Extend
<1>7. /\ DOMAIN batches' = {} /\ DOMAIN tasks' = {}
      /\ \A T : batches' \in [DOMAIN batches' -> T] /\ tasks' \in [DOMAIN tasks' -> T]
  BY <1>1, Zenon DEF Empty
<1>8. TypeOK'
  <2>1. messages' \in [DOMAIN messages' -> MessageRow]
    <3>1. \A m \in DOMAIN messages' : messages'[m] \in MessageRow
      BY <1>3, <1>5, Zenon
    <3> QED BY <1>5, <3>1, Zenon
  <2>2. pending' \in [DOMAIN pending' -> PendingRow]
    <3>1. \A m \in DOMAIN pending' : pending'[m] \in PendingRow
      BY <1>4, <1>6 DEF IInv, TypeOK
    <3> QED BY <1>6, <3>1, Zenon
  <2>3. DOMAIN messages' \subseteq used' /\ DOMAIN pending' \subseteq used'
    BY <1>1, <1>4, <1>5, <1>6, Zenon DEF IInv, TypeOK
  <2> QED BY <1>1, <1>7, <2>1, <2>2, <2>3, Zenon DEF IInv, TypeOK
<1>9. FreshUndelivered' /\ NoSelfDlq' /\ TaskOwnsBatch'
  BY <1>1, <1>7, Zenon DEF IInv, FreshUndelivered, NoSelfDlq, TaskOwnsBatch
<1>10. ClaimsMatchBatches'
  BY <1>3, <1>5, <1>7, Zenon DEF ClaimsMatchBatches, Ready
<1>11. AttemptsCountDeliveries'
  <2> SUFFICES ASSUME NEW m \in DOMAIN messages'
               PROVE  deliveries'[m] = messages'[m].attempts + (IF Ready(m)' THEN 0 ELSE 1)
    BY Zenon DEF AttemptsCountDeliveries
  <2>1. Ready(m)' /\ messages'[m].attempts = messages[m].attempts + (IF Ready(m) THEN 0 ELSE 1)
    BY <1>3, <1>5, Zenon DEF Ready
  <2>2. messages'[m].attempts \in Nat
    BY <1>3, <1>5, Zenon DEF MessageRow
  <2>3. deliveries'[m] = messages[m].attempts + (IF Ready(m) THEN 0 ELSE 1)
    BY <1>1, <1>5, Zenon DEF IInv, AttemptsCountDeliveries
  <2> QED BY <2>1, <2>2, <2>3
<1>12. ParkedIsFrozen'
  <2>1. \A m \in DOMAIN pending :
          /\ pending'[m].source # pending'[m].target
          /\ m \in DOMAIN messages' => messages'[m] = messages[m] /\ Ready(m)
    BY <1>3, <1>5, <1>6, Zenon DEF IInv, ParkedIsFrozen
  <2>2. \A m \in over \ DOMAIN pending :
          /\ pending'[m].source # pending'[m].target
          /\ pending'[m].source = messages[m].queue
          /\ pending'[m].attempts = back[m].attempts
    BY <1>4, <1>6, ZenonT(60)
  <2> QED BY <1>3, <1>5, <1>6, <2>1, <2>2 DEF IInv, ParkedIsFrozen, Ready
<1>13. ReferencesExist'
  <2>1. queue' = queue /\ consumer' = consumer
    BY <1>1, Zenon
  <2>2. \A m \in DOMAIN messages' : queue'[messages'[m].queue] # "absent"
    BY <1>3, <1>5, <2>1 DEF IInv, ReferencesExist
  <2>3. \A m \in DOMAIN pending' :
          queue'[pending'[m].source] # "absent" /\ queue'[pending'[m].target] # "absent"
    BY <1>4, <1>6, <2>1 DEF IInv, ReferencesExist
  <2> QED BY <1>7, <2>1, <2>2, <2>3, Zenon DEF IInv, ReferencesExist
<1> QED BY <1>8, <1>9, <1>10, <1>11, <1>12, <1>13, Zenon DEF IInv

LEMMA AgedRow ==
    ASSUME NEW row \in MessageRow
    PROVE  /\ Aged(row) \in MessageRow
           /\ Aged(row).queue = row.queue
           /\ Aged(row).batch = row.batch
           /\ Aged(row).attempts = row.attempts
BY TimeAssumption DEF Aged, MessageRow

LEMMA TickInv ==
    ASSUME IInv, Tick
    PROVE  IInv'
<1>1. /\ messages' = [m \in DOMAIN messages |-> Aged(messages[m])]
      /\ pending' = [m \in DOMAIN pending |->
                       [pending[m] EXCEPT !.wait = IF @ > 0 THEN @ - 1 ELSE 0]]
      /\ UNCHANGED <<queue, consumer, batches, tasks, attached, used, deliveries>>
  BY Zenon DEF Tick
<1>2. \A m \in DOMAIN messages : messages[m] \in MessageRow
  BY Zenon DEF IInv, TypeOK
<1>3. \A m \in DOMAIN messages : /\ messages'[m] \in MessageRow
                                 /\ messages'[m].queue = messages[m].queue
                                 /\ messages'[m].batch = messages[m].batch
                                 /\ messages'[m].attempts = messages[m].attempts
  <2> TAKE m \in DOMAIN messages
  <2>1. messages'[m] = Aged(messages[m])
    BY <1>1, Zenon
  <2> QED BY <1>2, <2>1, AgedRow, Zenon
<1>4. DOMAIN messages' = DOMAIN messages /\ DOMAIN pending' = DOMAIN pending
  BY <1>1, Zenon
<1>5. \A m \in DOMAIN pending : /\ pending'[m] \in PendingRow
                                /\ pending'[m].source = pending[m].source
                                /\ pending'[m].target = pending[m].target
                                /\ pending'[m].attempts = pending[m].attempts
  <2> TAKE m \in DOMAIN pending
  <2>1. pending[m] \in PendingRow
    BY Zenon DEF IInv, TypeOK
  <2>2. PICK w \in Nat : pending'[m] = [pending[m] EXCEPT !.wait = w]
    <3>1. pending[m].wait \in Nat
      BY <2>1, Zenon DEF PendingRow
    <3> DEFINE w == IF pending[m].wait > 0 THEN pending[m].wait - 1 ELSE 0
    <3>2. w \in Nat
      BY <3>1
    <3>3. pending'[m] = [pending[m] EXCEPT !.wait = w]
      BY <1>1, Zenon
    <3> QED BY <3>2, <3>3, Zenon
  <2> QED BY <2>1, <2>2, Zenon DEF PendingRow
<1>6. TypeOK'
  <2>1. messages' \in [DOMAIN messages' -> MessageRow] /\ pending' \in [DOMAIN pending' -> PendingRow]
    BY <1>1, <1>3, <1>5, Zenon
  <2> QED BY <1>1, <1>4, <2>1, Zenon DEF IInv, TypeOK
<1>7. \A x \in Batches : MessagesOf(x)' = MessagesOf(x)
  BY <1>3, <1>4, Zenon DEF MessagesOf
<1>8. FreshUndelivered' /\ NoSelfDlq'
  BY <1>1, Zenon DEF IInv, FreshUndelivered, NoSelfDlq
<1>9. TaskOwnsBatch' /\ ClaimsMatchBatches'
  BY <1>1, <1>3, <1>4, <1>7 DEF IInv, TypeOK, TaskOwnsBatch, ClaimsMatchBatches, Ready
<1>10. AttemptsCountDeliveries'
  BY <1>1, <1>3, <1>4, ZenonT(60) DEF IInv, AttemptsCountDeliveries, Ready
<1>11. ParkedIsFrozen'
  BY <1>3, <1>4, <1>5, ZenonT(60) DEF IInv, ParkedIsFrozen, Ready
<1>12. ReferencesExist'
  <2>1. queue' = queue /\ consumer' = consumer /\ batches' = batches
    BY <1>1, Zenon
  <2> QED BY <1>3, <1>4, <1>5, <2>1 DEF IInv, ReferencesExist
<1> QED BY <1>6, <1>8, <1>9, <1>10, <1>11, <1>12, Zenon DEF IInv

-----------------------------------------------------------------------------
(* The invariant and its consequences.                                     *)

LEMMA DeliverInv ==
    ASSUME IInv, NEW b \in DOMAIN tasks, Deliver(b)
    PROVE  IInv'
<1>1. PICK moved \in SUBSET tasks[b].messages :
        \/ \E retry \in SUBSET tasks[b].messages :
             \E delay \in [retry -> Delays] : Complete(b, retry, delay, 0, moved)
        \/ Complete(b, tasks[b].messages, [m \in tasks[b].messages |-> 0],
                    RequeueDelay, moved)
  BY Zenon DEF Deliver
<1>2. ASSUME NEW retry \in SUBSET tasks[b].messages, NEW delay \in [retry -> Delays],
             Complete(b, retry, delay, 0, moved)
      PROVE  IInv'
  <2>1. delay \in [retry -> Nat] /\ 0 \in Nat
    BY TimeAssumption, Zenon
  <2> QED BY <1>2, <2>1, CompleteInv, Zenon
<1>3. CASE Complete(b, tasks[b].messages, [m \in tasks[b].messages |-> 0], RequeueDelay, moved)
  <2>1. [m \in tasks[b].messages |-> 0] \in [tasks[b].messages -> Nat]
    OBVIOUS
  <2> QED BY <1>3, <2>1, TimeAssumption, CompleteInv, Zenon
<1> QED BY <1>1, <1>2, <1>3, Zenon

\* IInv is inductive.
LEMMA NextInv == IInv /\ [Next]_vars => IInv'
<1> SUFFICES ASSUME IInv, [Next]_vars PROVE IInv'
  OBVIOUS
<1>1. ASSUME NEW q \in Queues, NEW S \in SUBSET Messages, NEW delay \in Delays,
             Enqueue(q, S, delay)
      PROVE  IInv'
  BY <1>1, EnqueueInv, Zenon
<1>2. ASSUME NEW q \in Queues, NEW b \in Batches, NEW S \in SUBSET Due(q), Claim(q, b, S)
      PROVE  IInv'
  BY <1>2, ClaimInv, Zenon
<1>3. ASSUME NEW b \in DOMAIN tasks, Deliver(b) \/ CompleteFails(b)
      PROVE  IInv'
  <2>1. CASE Deliver(b)
    BY <2>1, DeliverInv, Zenon
  <2>2. CASE CompleteFails(b)
    BY <2>2, RowsUnchangedInv, Zenon DEF CompleteFails
  <2> QED BY <1>3, <2>1, <2>2, Zenon
<1>4. CASE Forward
  BY <1>4, ForwardInv, Zenon DEF Forward
<1>5. CASE Sweep
  <2>1. PICK S \in SUBSET DOMAIN messages : SweepRetention(S)
    BY <1>5, Zenon DEF Sweep
  <2>2. \A m \in S : Ready(m)
    BY <2>1, Zenon DEF SweepRetention, DeleteCandidates
  <2> QED BY <2>1, <2>2, RemoveInv, Zenon DEF SweepRetention
<1>6. ASSUME NEW q \in Queues, NEW c \in Configs, NEW active \in BOOLEAN, Attach(q, c, active)
      PROVE  IInv'
  BY <1>6, AttachInv, Zenon
<1>7. ASSUME NEW q \in Queues, NEW active \in BOOLEAN, Detach(q) \/ SetActive(q, active)
      PROVE  IInv'
  BY <1>7, DetachInv, SetActiveInv, Zenon
<1>8. ASSUME NEW q \in Queues,
             \/ \E from, to \in {"accepting", "configuring"} : SetConfiguring(q, from, to)
             \/ FenceDelete(q)
             \/ DeleteProjection(q)
      PROVE  IInv'
  BY <1>8, LifecycleInv, Zenon
<1>9. ASSUME NEW q \in Queues, NEW S \in SUBSET InQueue(q), Purge(q, S)
      PROVE  IInv'
  <2>1. S \subseteq DOMAIN messages /\ \A m \in S : Ready(m)
    BY <1>9, Zenon DEF Purge, DeleteCandidates, InQueue
  <2> QED BY <1>9, <2>1, RemoveInv, Zenon DEF Purge
<1>10. CASE Restart
  BY <1>10, RestartInv, Zenon
<1>11. CASE Tick
  BY <1>11, TickInv, Zenon
<1>12. CASE UNCHANGED vars
  <2>1. TypeOK' /\ FreshUndelivered' /\ NoSelfDlq'
    BY <1>12, Zenon DEF vars, IInv, TypeOK, FreshUndelivered, NoSelfDlq
  <2>2. TaskOwnsBatch' /\ ClaimsMatchBatches' /\ AttemptsCountDeliveries'
    <3>1. TaskOwnsBatch'
      BY <1>12, Zenon DEF vars, IInv, TaskOwnsBatch, MessagesOf
    <3>2. ClaimsMatchBatches'
      BY <1>12, Zenon DEF vars, IInv, ClaimsMatchBatches, MessagesOf, Ready
    <3>3. AttemptsCountDeliveries'
      BY <1>12, Zenon DEF vars, IInv, AttemptsCountDeliveries, Ready
    <3> QED BY <3>1, <3>2, <3>3, Zenon
  <2>3. ParkedIsFrozen' /\ ReferencesExist'
    BY <1>12, Zenon DEF vars, IInv, ParkedIsFrozen, ReferencesExist, Ready
  <2> QED BY <2>1, <2>2, <2>3, Zenon DEF IInv
<1> QED
  BY <1>1, <1>2, <1>3, <1>4, <1>5, <1>6, <1>7, <1>8, <1>9, <1>10, <1>11, <1>12, ZenonT(60) DEF Next

THEOREM Invariance == Spec => []IInv
BY InitInv, NextInv, PTL DEF Spec

\* The rows of every table stay well formed.
THEOREM TypeCorrect == Spec => []TypeOK
<1>1. IInv => TypeOK
  BY Zenon DEF IInv
<1> QED BY <1>1, Invariance, PTL

\* Nothing that happens while a handler runs takes its batch away from it, so
\* complete_queue_batch always finds what claim_queue_batches claimed.
THEOREM CompletionFence == Spec => [](TaskOwnsBatch /\ ClaimsMatchBatches)
<1>1. IInv => TaskOwnsBatch /\ ClaimsMatchBatches
  BY Zenon DEF IInv
<1> QED BY <1>1, Invariance, PTL

\* Neither a claimed message nor a batch row is left without the other.
THEOREM ClaimsAreBatched == Spec => []ClaimsMatchBatches
BY CompletionFence, PTL

\* Attempts count deliveries across answers, timeouts and restarts.
THEOREM AttemptAccounting == Spec => []AttemptsCountDeliveries
<1>1. IInv => AttemptsCountDeliveries
  BY Zenon DEF IInv
<1> QED BY <1>1, Invariance, PTL

\* A parked message is neither claimed nor changed.
THEOREM ParkedStaysFrozen == Spec => []ParkedIsFrozen
<1>1. IInv => ParkedIsFrozen
  BY Zenon DEF IInv
<1> QED BY <1>1, Invariance, PTL

\* No row outlives a queue it refers to.
THEOREM ReferentialIntegrity == Spec => []ReferencesExist
<1>1. IInv => ReferencesExist
  BY Zenon DEF IInv
<1> QED BY <1>1, Invariance, PTL

-----------------------------------------------------------------------------
(* The backlog limit.                                                      *)

LEMMA QueueFinite ==
    ASSUME IInv, NEW q
    PROVE  /\ InQueue(q) \subseteq Messages /\ IsFiniteSet(InQueue(q))
           /\ Backlog(q) \in Nat
<1>1. InQueue(q) \subseteq Messages
  BY Zenon DEF IInv, TypeOK, InQueue
<1>2. IsFiniteSet(InQueue(q))
  BY <1>1, MessagesAssumption, FS_Subset, Zenon
<1> QED BY <1>1, <1>2, FS_CardinalityType, Zenon DEF Backlog

\* A queue that only loses messages stays below its limit.
LEMMA ShrinkKeepsBound ==
    ASSUME IInv, BacklogBounded, NEW q \in Queues, InQueue(q)' \subseteq InQueue(q)
    PROVE  Backlog(q)' <= MaxBacklog[q]
<1>1. IsFiniteSet(InQueue(q)) /\ Backlog(q) \in Nat
  BY QueueFinite, Zenon
<1>2. Backlog(q)' <= Backlog(q) /\ IsFiniteSet(InQueue(q)')
  BY <1>1, FS_Subset, Zenon DEF Backlog
<1>3. Backlog(q)' \in Nat
  BY <1>2, FS_CardinalityType, Zenon DEF Backlog
<1>4. Backlog(q) <= MaxBacklog[q] /\ MaxBacklog[q] \in Nat
  BY TimeAssumption, Zenon DEF BacklogBounded
<1> QED BY <1>1, <1>2, <1>3, <1>4

\* So does one that admits messages within its limit, while others leave it.
LEMMA AdmissionKeepsBound ==
    ASSUME IInv, NEW q \in Queues, NEW in \in SUBSET Messages,
           NEW out \in SUBSET InQueue(q),
           InQueue(q)' \subseteq (InQueue(q) \ out) \cup in,
           Backlog(q) - Cardinality(out) + Cardinality(in) <= MaxBacklog[q]
    PROVE  Backlog(q)' <= MaxBacklog[q]
<1> DEFINE rest == InQueue(q) \ out
<1>1. /\ IsFiniteSet(InQueue(q)) /\ IsFiniteSet(in) /\ IsFiniteSet(out)
      /\ Backlog(q) \in Nat
  BY QueueFinite, MessagesAssumption, FS_Subset, Zenon
<1>2. /\ IsFiniteSet(rest)
      /\ Cardinality(rest) = Backlog(q) - Cardinality(InQueue(q) \cap out)
  BY <1>1, FS_Difference, Zenon DEF Backlog
<1>3. Cardinality(rest) = Backlog(q) - Cardinality(out)
  <2>1. InQueue(q) \cap out = out
    BY Zenon
  <2> QED BY <1>2, <2>1, Zenon
<1>4. /\ IsFiniteSet(rest \cup in) /\ IsFiniteSet(rest \cap in)
      /\ Cardinality(rest \cup in)
           = Cardinality(rest) + Cardinality(in) - Cardinality(rest \cap in)
  BY <1>1, <1>2, FS_Union, FS_Intersection, Zenon
<1>5. /\ Cardinality(in) \in Nat /\ Cardinality(out) \in Nat
      /\ Cardinality(rest) \in Nat /\ Cardinality(rest \cap in) \in Nat
      /\ Cardinality(rest \cup in) \in Nat
  BY <1>1, <1>2, <1>4, FS_CardinalityType, Zenon
<1>6. /\ Backlog(q)' <= Cardinality(rest \cup in)
      /\ IsFiniteSet(InQueue(q)')
  BY <1>4, FS_Subset, Zenon DEF Backlog
<1>7. Backlog(q)' \in Nat /\ MaxBacklog[q] \in Nat
  BY <1>6, FS_CardinalityType, TimeAssumption, Zenon DEF Backlog
<1> HIDE DEF rest
<1> QED BY <1>1, <1>3, <1>4, <1>5, <1>6, <1>7

LEMMA EnqueueBound ==
    ASSUME IInv, BacklogBounded, NEW q \in Queues, NEW S \in SUBSET Messages,
           NEW delay, Enqueue(q, S, delay)
    PROVE  BacklogBounded'
<1>1. /\ DOMAIN messages' = DOMAIN messages \cup S
      /\ \A m \in S : messages'[m].queue = q
      /\ \A m \in DOMAIN messages \ S : messages'[m] = messages[m]
  BY DEF Enqueue, Extend
<1>2. Backlog(q) + Cardinality(S) <= MaxBacklog[q]
  BY Zenon DEF Enqueue
<1>3. Backlog(q)' <= MaxBacklog[q]
  <2>1. InQueue(q)' \subseteq (InQueue(q) \ {}) \cup S
    BY <1>1, Zenon DEF InQueue
  <2>2. Cardinality({}) = 0 /\ Backlog(q) \in Nat /\ IsFiniteSet(S)
    BY FS_EmptySet, QueueFinite, MessagesAssumption, FS_Subset, Zenon
  <2>3. Cardinality(S) \in Nat
    BY <2>2, FS_CardinalityType, Zenon
  <2>4. Backlog(q) - Cardinality({}) + Cardinality(S) <= MaxBacklog[q]
    BY <1>2, <2>2, <2>3
  <2>5. {} \in SUBSET InQueue(q)
    BY Zenon
  <2> QED BY <2>1, <2>4, <2>5, AdmissionKeepsBound, Zenon
<1>4. ASSUME NEW x \in Queues \ {q} PROVE Backlog(x)' <= MaxBacklog[x]
  <2>1. InQueue(x)' \subseteq InQueue(x)
    BY <1>1, Zenon DEF InQueue
  <2> QED BY <2>1, ShrinkKeepsBound, Zenon
<1> QED BY <1>3, <1>4, Zenon DEF BacklogBounded

\* What a completion does to the queues of the messages: those of other batches
\* are left alone, and its own change queue only for the dead-letter queue.
LEMMA CompleteRows ==
    ASSUME IInv, NEW b \in DOMAIN tasks, NEW retry, NEW delay, NEW lag, NEW moved,
           Complete(b, retry, delay, lag, moved)
    PROVE  LET t == tasks[b].config.dlq IN
           /\ DOMAIN messages' \subseteq DOMAIN messages
           /\ \A m \in DOMAIN messages \ tasks[b].messages :
                 m \in DOMAIN messages' /\ messages'[m] = messages[m]
           /\ \A m \in DOMAIN messages' \ moved : messages'[m].queue = messages[m].queue
           /\ \A m \in DOMAIN messages' \cap moved : messages'[m].queue = t
           /\ \A m \in DOMAIN messages' \cap tasks[b].messages :
                 /\ messages'[m].batch = NoBatch
                 /\ messages'[m].attempts = IF m \in moved THEN 0 ELSE messages[m].attempts + 1
           /\ moved \subseteq tasks[b].messages
           /\ moved # {} =>
                 /\ t \in Queues
                 /\ Backlog(t) + Cardinality(moved) <= MaxBacklog[t]
           /\ tasks[b].messages \cap DOMAIN pending = {}
           /\ \A m \in DOMAIN pending' :
                 m \in DOMAIN pending \/ (m \in DOMAIN messages' /\ messages'[m].batch = NoBatch)
<1> DEFINE c      == tasks[b].config
           lapsed == {m \in retry : messages[m].ttl <= lag}
           again  == {m \in retry \ lapsed : messages[m].attempts + 1 <= c.maxRetries}
           spent  == retry \ (lapsed \cup again)
           parked == IF c.dlq = NoQueue THEN {} ELSE spent \ moved
           gone   == tasks[b].messages \ (again \cup moved \cup parked)
           row(m) == [source |-> tasks[b].queue, target |-> c.dlq,
                      attempts |-> messages[m].attempts + 1, wait |-> lag + DlqBackoff]
<1>1. /\ retry \subseteq tasks[b].messages /\ MessagesOf(b) = tasks[b].messages
      /\ pending' = Extend(pending, [m \in parked |-> row(m)])
      /\ IF c.dlq = NoQueue THEN moved = {} ELSE DlqAdmits(c.dlq, spent, moved)
      /\ messages' = [m \in DOMAIN messages \ gone |->
                CASE m \in again  -> Retried(messages[m], lag + delay[m])
                  [] m \in parked -> Retried(messages[m], lag)
                  [] m \in moved  -> DeadLettered(c.dlq, lag)
                  [] OTHER        -> messages[m]]
  BY Zenon DEF Complete
<1>2. c.dlq \in Queues \cup {NoQueue}
  <2>1. c \in Configs
    BY Zenon DEF IInv, TypeOK, Task
  <2> QED BY <2>1, ConfigFields, Zenon
<1>3. /\ moved \subseteq spent /\ parked \subseteq spent /\ again \subseteq retry
      /\ spent \subseteq retry /\ moved \cap again = {} /\ moved \cap parked = {}
  BY <1>1, Zenon DEF DlqAdmits
<1>4. moved # {} => /\ c.dlq \in Queues
                    /\ Backlog(c.dlq) + Cardinality(moved) <= MaxBacklog[c.dlq]
  BY <1>1, <1>2, Zenon DEF DlqAdmits
<1>5. tasks[b].messages \cap DOMAIN pending = {}
  <2>1. b # NoBatch
    BY IdAssumption, Zenon DEF IInv, TypeOK
  <2>2. \A m \in DOMAIN pending : m \in DOMAIN messages => messages[m].batch = NoBatch
    BY Zenon DEF IInv, ParkedIsFrozen, Ready
  <2>3. \A m \in tasks[b].messages : m \in DOMAIN messages /\ messages[m].batch = b
    BY <1>1, Zenon DEF MessagesOf
  <2> QED BY <2>1, <2>2, <2>3
<1>6. again \cap parked = {} /\ parked \subseteq DOMAIN messages \ gone
  BY <1>1, <1>3, Zenon DEF MessagesOf
<1> HIDE DEF c, lapsed, again, spent, parked, gone, row
<1>7. \A m \in DOMAIN messages \ tasks[b].messages :
         m \in DOMAIN messages' /\ messages'[m] = messages[m]
  BY <1>1, <1>3, Zenon DEF gone
<1>8. \A m \in parked : m \in DOMAIN messages' /\ messages'[m].batch = NoBatch
  <2> TAKE m \in parked
  <2>1. m \in DOMAIN messages' /\ messages'[m] = Retried(messages[m], lag)
    BY <1>1, <1>3, <1>6
  <2> QED BY <2>1 DEF Retried
<1>9. DOMAIN pending' = DOMAIN pending \cup parked
  BY <1>1, Zenon DEF Extend
<1>10. DOMAIN messages' \subseteq DOMAIN messages
  BY <1>1, Zenon
<1>11. \A m \in DOMAIN messages' \ moved : messages'[m].queue = messages[m].queue
  <2> TAKE m \in DOMAIN messages' \ moved
  <2>1. \/ messages'[m] = Retried(messages[m], lag + delay[m])
        \/ messages'[m] = Retried(messages[m], lag)
        \/ messages'[m] = messages[m]
    BY <1>1
  <2> QED BY <2>1 DEF Retried
<1>12. \A m \in DOMAIN messages' \cap moved : messages'[m].queue = c.dlq
  <2> TAKE m \in DOMAIN messages' \cap moved
  <2>1. messages'[m] = DeadLettered(c.dlq, lag)
    BY <1>1, <1>3, Zenon
  <2> QED BY <2>1 DEF DeadLettered
<1>13. \A m \in DOMAIN pending' :
          m \in DOMAIN pending \/ (m \in DOMAIN messages' /\ messages'[m].batch = NoBatch)
  <2> TAKE m \in DOMAIN pending'
  <2>1. m \in DOMAIN pending \/ m \in parked
    BY <1>9, Zenon
  <2> QED BY <1>8, <2>1, Zenon
<1>14. moved \subseteq tasks[b].messages
  BY <1>1, <1>3, Zenon
<1>15. \A m \in DOMAIN messages' \cap tasks[b].messages :
          /\ messages'[m].batch = NoBatch
          /\ messages'[m].attempts = IF m \in moved THEN 0 ELSE messages[m].attempts + 1
  <2> TAKE m \in DOMAIN messages' \cap tasks[b].messages
  <2>1. m \in again \cup moved \cup parked
    BY <1>1, Zenon DEF gone
  <2>2. CASE m \in moved
    <3>1. messages'[m] = DeadLettered(c.dlq, lag)
      BY <1>1, <1>3, <2>2, Zenon
    <3> QED BY <2>2, <3>1 DEF DeadLettered
  <2>3. CASE m \notin moved
    <3>1. \/ messages'[m] = Retried(messages[m], lag + delay[m])
          \/ messages'[m] = Retried(messages[m], lag)
      BY <1>1, <2>1, <2>3
    <3> QED BY <2>3, <3>1 DEF Retried
  <2> QED BY <2>2, <2>3, Zenon
<1> QED BY <1>4, <1>5, <1>7, <1>10, <1>11, <1>12, <1>13, <1>14, <1>15, ZenonT(60) DEF c

LEMMA CompleteBound ==
    ASSUME IInv, BacklogBounded, NEW b \in DOMAIN tasks, NEW retry, NEW delay, NEW lag,
           NEW moved, Complete(b, retry, delay, lag, moved)
    PROVE  BacklogBounded'
<1> DEFINE t == tasks[b].config.dlq
<1>1. /\ DOMAIN messages' \subseteq DOMAIN messages
      /\ \A m \in DOMAIN messages' \ moved : messages'[m].queue = messages[m].queue
      /\ \A m \in DOMAIN messages' \cap moved : messages'[m].queue = t
      /\ moved \subseteq tasks[b].messages
      /\ moved # {} => t \in Queues /\ Backlog(t) + Cardinality(moved) <= MaxBacklog[t]
  BY CompleteRows
<1> HIDE DEF t
<1>2. moved \in SUBSET Messages
  BY <1>1, Zenon DEF IInv, TypeOK, Task
<1>3. ASSUME NEW x \in Queues PROVE Backlog(x)' <= MaxBacklog[x]
  <2>1. CASE moved # {} /\ x = t
    <3>1. InQueue(x)' \subseteq (InQueue(x) \ {}) \cup moved
      BY <1>1, Zenon DEF InQueue
    <3>2. Cardinality({}) = 0 /\ Backlog(x) \in Nat /\ IsFiniteSet(moved)
      BY <1>2, FS_EmptySet, QueueFinite, MessagesAssumption, FS_Subset, Zenon
    <3>3. Cardinality(moved) \in Nat
      BY <3>2, FS_CardinalityType, Zenon
    <3>4. Backlog(x) + Cardinality(moved) <= MaxBacklog[x]
      BY <1>1, <2>1, Zenon
    <3>5. Backlog(x) - Cardinality({}) + Cardinality(moved) <= MaxBacklog[x]
      BY <3>2, <3>3, <3>4
    <3>6. {} \in SUBSET InQueue(x)
      BY Zenon
    <3> QED BY <1>2, <3>1, <3>5, <3>6, AdmissionKeepsBound, Zenon
  <2>2. CASE moved = {} \/ x # t
    <3>1. InQueue(x)' \subseteq InQueue(x)
      BY <1>1, <2>2, Zenon DEF InQueue
    <3> QED BY <3>1, ShrinkKeepsBound, Zenon
  <2> QED BY <2>1, <2>2, Zenon
<1> QED BY <1>3, Zenon DEF BacklogBounded

\* What a forward does to the queues of the messages.
LEMMA ForwardRows ==
    ASSUME IInv, NEW moved \in SUBSET DuePending, ForwardDlq(moved)
    PROVE  LET lapsed == {m \in DuePending : messages[m].ttl = 0} IN
           /\ DuePending \subseteq DOMAIN messages /\ moved \cap lapsed = {}
           /\ DOMAIN messages' = DOMAIN messages \ lapsed
           /\ \A m \in DOMAIN messages' \ moved : messages'[m] = messages[m]
           /\ \A m \in moved : /\ messages'[m].queue = pending[m].target
                             /\ messages'[m].batch = NoBatch
                             /\ messages'[m].attempts = 0
           /\ DOMAIN pending' = DOMAIN pending \ (lapsed \cup moved)
<1> DEFINE lapsed == {m \in DuePending : messages[m].ttl = 0}
<1>1. /\ moved \subseteq DuePending \ lapsed
      /\ DuePending \subseteq DOMAIN messages
      /\ messages' = [m \in DOMAIN messages \ lapsed |->
                IF m \in moved THEN DeadLettered(pending[m].target, 0) ELSE messages[m]]
      /\ DOMAIN pending' = DOMAIN pending \ (lapsed \cup moved)
  BY Zenon DEF ForwardDlq, MaintenanceRuns
<1> HIDE DEF lapsed
<1>2. \A m \in moved : messages'[m] = DeadLettered(pending[m].target, 0)
  BY <1>1, Zenon
<1>3. \A m \in moved : /\ messages'[m].queue = pending[m].target
                     /\ messages'[m].batch = NoBatch
                     /\ messages'[m].attempts = 0
  <2>1. ASSUME NEW t, NEW lag
        PROVE  /\ DeadLettered(t, lag).queue = t
               /\ DeadLettered(t, lag).batch = NoBatch
               /\ DeadLettered(t, lag).attempts = 0
    BY DEF DeadLettered
  <2> TAKE m \in moved
  <2>2. messages'[m] = DeadLettered(pending[m].target, 0)
    BY <1>2, Zenon
  <2> QED BY <2>1, <2>2
<1> QED BY <1>1, <1>3, Zenon DEF lapsed

LEMMA ForwardBound ==
    ASSUME IInv, BacklogBounded, NEW moved \in SUBSET DuePending, ForwardDlq(moved)
    PROVE  BacklogBounded'
<1> DEFINE lapsed == {m \in DuePending : messages[m].ttl = 0}
           to(t)  == {m \in DuePending \ lapsed : pending[m].target = t}
           out(t) == {m \in lapsed \cup moved : messages[m].queue = t}
           in(t)  == moved \cap to(t)
<1>1. /\ DuePending \subseteq DOMAIN messages /\ moved \cap lapsed = {}
      /\ DOMAIN messages' = DOMAIN messages \ lapsed
      /\ \A m \in DOMAIN messages' \ moved : messages'[m] = messages[m]
      /\ \A m \in moved : messages'[m].queue = pending[m].target
  BY ForwardRows, Zenon
<1>2. \A t \in Queues : in(t) # {} =>
         Backlog(t) - Cardinality(out(t)) + Cardinality(in(t)) <= MaxBacklog[t]
  BY Zenon DEF ForwardDlq
<1>3. lapsed \cup moved \subseteq DuePending /\ DuePending \subseteq Messages
  BY Zenon DEF DuePending, IInv, TypeOK
<1>4. ASSUME NEW t \in Queues PROVE Backlog(t)' <= MaxBacklog[t]
  <2>1. InQueue(t)' \subseteq (InQueue(t) \ out(t)) \cup in(t)
    <3> SUFFICES ASSUME NEW m \in InQueue(t)'
                 PROVE  m \in InQueue(t) \ out(t) \/ m \in in(t)
      BY Zenon
    <3>1. m \in DOMAIN messages' /\ messages'[m].queue = t
      BY Zenon DEF InQueue
    <3>2. CASE m \in moved
      BY <1>1, <1>3, <3>1, <3>2, Zenon
    <3>3. CASE m \notin moved
      BY <1>1, <3>1, <3>3, Zenon DEF InQueue
    <3> QED BY <3>2, <3>3, Zenon
  <2>2. in(t) \in SUBSET Messages /\ out(t) \in SUBSET InQueue(t)
    BY <1>1, <1>3, Zenon DEF InQueue
  <2>3. CASE in(t) # {}
    BY <1>2, <2>1, <2>2, <2>3, AdmissionKeepsBound, Zenon
  <2>4. CASE in(t) = {}
    BY <2>1, <2>4, ShrinkKeepsBound, Zenon
  <2> QED BY <2>3, <2>4, Zenon
<1> QED BY <1>4, Zenon DEF BacklogBounded

\* A step that only drops messages, or changes them without moving them.
RowsStay ==
    /\ DOMAIN messages' \subseteq DOMAIN messages
    /\ \A m \in DOMAIN messages' : messages'[m].queue = messages[m].queue

LEMMA StayBound ==
    ASSUME IInv, BacklogBounded, RowsStay
    PROVE  BacklogBounded'
<1>1. ASSUME NEW q \in Queues PROVE Backlog(q)' <= MaxBacklog[q]
  <2>1. InQueue(q)' \subseteq InQueue(q)
    BY Zenon DEF RowsStay, InQueue
  <2> QED BY <2>1, ShrinkKeepsBound, Zenon
<1> QED BY <1>1, Zenon DEF BacklogBounded

LEMMA ClaimRows ==
    ASSUME IInv, NEW q \in Queues, NEW b \in Batches, NEW S \in SUBSET Due(q), Claim(q, b, S)
    PROVE  /\ DOMAIN messages' = DOMAIN messages /\ RowsStay
           /\ \A m \in DOMAIN messages \cap DOMAIN pending : messages'[m] = messages[m]
<1>1. messages' = [m \in DOMAIN messages |->
          IF m \in S THEN [messages[m] EXCEPT !.batch = b] ELSE messages[m]]
  BY Zenon DEF Claim
<1>2. S \cap DOMAIN pending = {}
  BY Zenon DEF Due
<1>3. \A m \in DOMAIN messages : messages'[m].queue = messages[m].queue
  <2> TAKE m \in DOMAIN messages
  <2>1. messages[m] \in MessageRow
    BY Zenon DEF IInv, TypeOK
  <2>2. \/ messages'[m] = [messages[m] EXCEPT !.batch = b]
        \/ messages'[m] = messages[m]
    BY <1>1, Zenon
  <2>3. [messages[m] EXCEPT !.batch = b].queue = messages[m].queue
    BY <2>1, ClaimedRow, Zenon
  <2> QED BY <2>2, <2>3, Zenon
<1> QED BY <1>1, <1>2, <1>3, Zenon DEF RowsStay

LEMMA RemoveRows ==
    ASSUME NEW S, Remove(S)
    PROVE  /\ DOMAIN messages' = DOMAIN messages \ S /\ DOMAIN pending' = DOMAIN pending \ S
           /\ \A m \in DOMAIN messages \ S : messages'[m] = messages[m]
           /\ RowsStay
<1>1. /\ messages' = [m \in DOMAIN messages \ S |-> messages[m]]
      /\ pending' = [m \in DOMAIN pending \ S |-> pending[m]]
  BY Zenon DEF Remove, Without
<1> QED BY <1>1, Zenon DEF RowsStay

LEMMA RestartRows ==
    ASSUME IInv, Restart
    PROVE  /\ RowsStay
           /\ \A m \in DOMAIN messages' :
                 /\ messages'[m].batch = NoBatch
                 /\ messages'[m].attempts = messages[m].attempts + (IF Ready(m) THEN 0 ELSE 1)
           /\ \A m \in DOMAIN messages \ DOMAIN messages' :
                 messages[m].attempts + (IF Ready(m) THEN 0 ELSE 1) > 0
           /\ \A m \in DOMAIN messages :
                 Ready(m) /\ ~RecoveryDrops(messages[m]) => m \in DOMAIN messages'
           /\ \A m \in DOMAIN pending' : m \in DOMAIN pending \/ m \in DOMAIN messages'
<1> DEFINE back == [m \in DOMAIN messages |->
                      IF Ready(m) THEN messages[m] ELSE Retried(messages[m], RequeueDelay)]
           target(m) == consumer[back[m].queue].config.dlq
           over == {m \in DOMAIN back : RecoveryParks(back[m])}
           lost == {m \in DOMAIN back : RecoveryDrops(back[m])}
           row(m) == [source |-> back[m].queue, target |-> target(m),
                      attempts |-> back[m].attempts, wait |-> RequeueDelay]
<1>1. /\ messages' = Without(back, lost)
      /\ pending' = Extend([m \in over |-> row(m)], pending)
  BY Zenon DEF Restart
<1>2. DOMAIN back = DOMAIN messages
  OBVIOUS
<1>3. \A m \in DOMAIN messages :
        /\ back[m].queue = messages[m].queue
        /\ back[m].batch = NoBatch
        /\ back[m].attempts = messages[m].attempts + (IF Ready(m) THEN 0 ELSE 1)
        /\ back[m].attempts \in Nat
        /\ Ready(m) => back[m] = messages[m]
  <2> TAKE m \in DOMAIN messages
  <2>1. messages[m] \in MessageRow /\ messages[m].attempts \in Nat
    BY Zenon DEF IInv, TypeOK, MessageRow
  <2>2. CASE Ready(m)
    BY <2>1, <2>2 DEF Ready
  <2>3. CASE ~Ready(m)
    <3>1. back[m] = Retried(messages[m], RequeueDelay) /\ RequeueDelay \in Int
      BY <2>3, TimeAssumption
    <3> HIDE DEF back
    <3>2. /\ back[m].queue = messages[m].queue /\ back[m].batch = NoBatch
          /\ back[m].attempts = messages[m].attempts + 1
      BY <2>1, <3>1, RetriedRow
    <3> QED BY <2>1, <2>3, <3>2
  <2> QED BY <2>2, <2>3, Zenon
<1> HIDE DEF back
<1>4. /\ DOMAIN messages' = DOMAIN messages \ lost
      /\ \A m \in DOMAIN messages' : messages'[m] = back[m]
  BY <1>1, <1>2, Zenon DEF Without
<1>5. DOMAIN pending' = over \cup DOMAIN pending
  <2> HIDE DEF row
  <2> QED BY <1>1, Zenon DEF Extend
<1>6. over \subseteq DOMAIN messages'
  BY <1>2, <1>4, Zenon DEF RecoveryParks, RecoveryDrops
<1>7. RowsStay
  BY <1>3, <1>4, Zenon DEF RowsStay
<1>8. \A m \in DOMAIN messages :
        Ready(m) /\ ~RecoveryDrops(messages[m]) => m \in DOMAIN messages'
  BY <1>2, <1>3, <1>4, Zenon
<1>9. ASSUME NEW m \in DOMAIN messages \ DOMAIN messages'
      PROVE  messages[m].attempts + (IF Ready(m) THEN 0 ELSE 1) > 0
  <2> DEFINE p == messages[m].queue
  <2>1. RecoveryDrops(back[m]) /\ back[m].queue = p
    BY <1>2, <1>3, <1>4, Zenon
  <2>2. p \in DOMAIN consumer /\ back[m].attempts > consumer[p].config.maxRetries
    BY <2>1, Zenon DEF RecoveryDrops, Exhausted
  <2>3. consumer[p].config \in Configs
    BY <2>2, Zenon DEF IInv, TypeOK, ConsumerRow
  <2>4. consumer[p].config.maxRetries \in Nat
    BY <2>3, ConfigFields, Zenon
  <2> QED BY <1>3, <2>2, <2>4
<1>10. \A m \in DOMAIN messages' :
          messages'[m].attempts = messages[m].attempts + (IF Ready(m) THEN 0 ELSE 1)
  BY <1>3, <1>4, Zenon
<1> QED BY <1>3, <1>4, <1>5, <1>6, <1>7, <1>8, <1>9, <1>10, ZenonT(60)

LEMMA TickRows ==
    ASSUME IInv, Tick
    PROVE  /\ DOMAIN messages' = DOMAIN messages /\ DOMAIN pending' = DOMAIN pending
           /\ \A m \in DOMAIN messages : /\ messages'[m].batch = messages[m].batch
                                      /\ messages'[m].attempts = messages[m].attempts
           /\ RowsStay
<1>1. /\ messages' = [m \in DOMAIN messages |-> Aged(messages[m])]
      /\ DOMAIN pending' = DOMAIN pending
  BY Zenon DEF Tick
<1>2. ASSUME NEW row
      PROVE  /\ Aged(row).queue = row.queue /\ Aged(row).batch = row.batch
             /\ Aged(row).attempts = row.attempts
  BY DEF Aged
<1> QED BY <1>1, <1>2, Zenon DEF RowsStay

LEMMA NextBound == IInv /\ BacklogBounded /\ [Next]_vars => BacklogBounded'
<1> SUFFICES ASSUME IInv, BacklogBounded, [Next]_vars PROVE BacklogBounded'
  OBVIOUS
<1>1. ASSUME NEW q \in Queues, NEW S \in SUBSET Messages, NEW delay \in Delays,
             Enqueue(q, S, delay)
      PROVE  BacklogBounded'
  BY <1>1, EnqueueBound, Zenon
<1>2. ASSUME NEW q \in Queues, NEW b \in Batches, NEW S \in SUBSET Due(q), Claim(q, b, S)
      PROVE  BacklogBounded'
  BY <1>2, ClaimRows, StayBound, Zenon
<1>3. ASSUME NEW b \in DOMAIN tasks, Deliver(b) PROVE BacklogBounded'
  BY <1>3, CompleteBound, Zenon DEF Deliver
<1>4. CASE Forward
  BY <1>4, ForwardBound, Zenon DEF Forward
<1>5. CASE Sweep
  BY <1>5, RemoveRows, StayBound, Zenon DEF Sweep, SweepRetention
<1>6. ASSUME NEW q \in Queues, NEW S \in SUBSET InQueue(q), Purge(q, S)
      PROVE  BacklogBounded'
  BY <1>6, RemoveRows, StayBound, Zenon DEF Purge
<1>7. CASE Restart \/ Tick
  BY <1>7, RestartRows, TickRows, StayBound, Zenon
<1>8. CASE UNCHANGED messages
  <2>1. RowsStay
    BY <1>8, Zenon DEF RowsStay
  <2> QED BY <2>1, StayBound, Zenon
<1> QED
  BY <1>1, <1>2, <1>3, <1>4, <1>5, <1>6, <1>7, <1>8, ZenonT(60)
     DEF Next, vars, CompleteFails, Attach, Detach, SetActive, SetConfiguring, FenceDelete,
         DeleteProjection

\* No producer, completion or forward, in whatever order they come, takes a
\* queue past its backlog limit: each admission is decided against the backlog
\* of the transaction that inserts.
THEOREM BacklogLimit == Spec => []BacklogBounded
<1>1. Init => BacklogBounded
  <2> SUFFICES ASSUME Init, NEW q \in Queues PROVE Backlog(q) <= MaxBacklog[q]
    BY Zenon DEF BacklogBounded
  <2>1. InQueue(q) = {}
    BY Zenon DEF Init, Empty, InQueue
  <2>2. Backlog(q) = 0 /\ MaxBacklog[q] \in Nat
    BY <2>1, FS_EmptySet, TimeAssumption, Zenon DEF Backlog
  <2> QED BY <2>2
<1> QED BY <1>1, NextBound, Invariance, PTL DEF Spec

-----------------------------------------------------------------------------
(* Parked messages.                                                        *)

\* How a step may take a parked message away: ParkedIsKept, and a recovery that
\* finds the consumer of its queue declared without a dead-letter queue.
ParkedLeaves ==
    \A m \in DOMAIN pending \cap DOMAIN messages :
      \/ m \in DOMAIN messages' /\ messages'[m].queue
             \in {pending[m].source, pending[m].target}
      \/ m \notin DOMAIN messages' /\ (\/ messages[m].ttl = 0
                                       \/ queue[pending[m].source] = "deleting"
                                       \/ RecoveryDrops(messages[m]))

\* Every parked row has its message, and no batch holds it.
ParkedPresent == \A m \in DOMAIN pending : m \in DOMAIN messages /\ Ready(m)

\* What a step owes the parked rows: nothing takes their messages but what
\* ParkedLeaves names, and only a recovery leaves a row without its message.
ParkedStep ==
    /\ ParkedLeaves
    /\ ParkedPresent =>
          \/ ParkedPresent'
          \/ Restart /\ \E m \in DOMAIN pending : RecoveryDrops(messages[m])

\* A step that leaves the messages of the parked rows where they are.
LEMMA FrozenParked ==
    ASSUME IInv, DOMAIN pending' \subseteq DOMAIN pending,
           \A m \in DOMAIN pending \cap DOMAIN messages :
              /\ m \in DOMAIN messages'
              /\ messages'[m].queue = messages[m].queue
              /\ messages'[m].batch = messages[m].batch
    PROVE  ParkedStep
<1>1. ParkedLeaves
  BY Zenon DEF IInv, ParkedIsFrozen, ParkedLeaves
<1>2. ParkedPresent => ParkedPresent'
  BY Zenon DEF ParkedPresent, Ready
<1> QED BY <1>1, <1>2, Zenon DEF ParkedStep

LEMMA EnqueueParked ==
    ASSUME IInv, NEW q, NEW S, NEW delay, Enqueue(q, S, delay)
    PROVE  ParkedStep
<1>1. S \cap DOMAIN messages = {} /\ pending' = pending
  BY Zenon DEF Enqueue, IInv, TypeOK
<1>2. \A m \in DOMAIN messages : m \in DOMAIN messages' /\ messages'[m] = messages[m]
  BY <1>1 DEF Enqueue, Extend
<1> QED BY <1>1, <1>2, FrozenParked, Zenon

LEMMA CompleteParked ==
    ASSUME IInv, NEW b \in DOMAIN tasks, NEW retry, NEW delay, NEW lag, NEW moved,
           Complete(b, retry, delay, lag, moved)
    PROVE  ParkedStep
<1>1. /\ \A m \in DOMAIN messages \ tasks[b].messages :
            m \in DOMAIN messages' /\ messages'[m] = messages[m]
      /\ tasks[b].messages \cap DOMAIN pending = {}
      /\ \A m \in DOMAIN pending' :
            m \in DOMAIN pending \/ (m \in DOMAIN messages' /\ messages'[m].batch = NoBatch)
  BY CompleteRows
<1>2. \A m \in DOMAIN pending \cap DOMAIN messages :
         m \in DOMAIN messages' /\ messages'[m] = messages[m]
  BY <1>1, Zenon
<1>3. ParkedLeaves
  BY <1>2, Zenon DEF IInv, ParkedIsFrozen, ParkedLeaves
<1>4. ParkedPresent => ParkedPresent'
  BY <1>1, <1>2, Zenon DEF ParkedPresent, Ready
<1> QED BY <1>3, <1>4, ZenonT(60) DEF ParkedStep

LEMMA ForwardParked ==
    ASSUME IInv, NEW moved \in SUBSET DuePending, ForwardDlq(moved)
    PROVE  ParkedStep
<1> DEFINE lapsed == {m \in DuePending : messages[m].ttl = 0}
<1>1. /\ moved \cap lapsed = {}
      /\ DOMAIN messages' = DOMAIN messages \ lapsed
      /\ \A m \in DOMAIN messages' \ moved : messages'[m] = messages[m]
      /\ \A m \in moved : messages'[m].queue = pending[m].target
      /\ DOMAIN pending' = DOMAIN pending \ (lapsed \cup moved)
  BY ForwardRows, Zenon
<1>2. ParkedLeaves
  <2> SUFFICES ASSUME NEW m \in DOMAIN pending \cap DOMAIN messages
               PROVE  \/ m \in DOMAIN messages' /\ messages'[m].queue
                             \in {pending[m].source, pending[m].target}
                      \/ m \notin DOMAIN messages' /\ messages[m].ttl = 0
    BY Zenon DEF ParkedLeaves
  <2>1. CASE m \in lapsed
    BY <1>1, <2>1, Zenon
  <2>2. CASE m \in moved
    BY <1>1, <2>2, Zenon
  <2>3. CASE m \notin lapsed \cup moved
    BY <1>1, <2>3, Zenon DEF IInv, ParkedIsFrozen
  <2> QED BY <2>1, <2>2, <2>3, Zenon
<1>3. ParkedPresent => ParkedPresent'
  <2> HIDE DEF lapsed
  <2> QED BY <1>1, Zenon DEF ParkedPresent, Ready
<1> QED BY <1>2, <1>3, Zenon DEF ParkedStep

\* A sweep and a purge delete the parked row with its message.
LEMMA RemoveParked ==
    ASSUME IInv, NEW S, Remove(S),
           \A m \in S : \/ messages[m].ttl = 0
                        \/ queue[messages[m].queue] = "deleting"
    PROVE  ParkedStep
<1>1. /\ DOMAIN messages' = DOMAIN messages \ S /\ DOMAIN pending' = DOMAIN pending \ S
      /\ \A m \in DOMAIN messages \ S : messages'[m] = messages[m]
  BY RemoveRows, Zenon
<1>2. ParkedLeaves
  <2> SUFFICES ASSUME NEW m \in DOMAIN pending \cap DOMAIN messages
               PROVE  \/ m \in DOMAIN messages' /\ messages'[m].queue = pending[m].source
                      \/ m \notin DOMAIN messages' /\ (\/ messages[m].ttl = 0
                                                       \/ queue[pending[m].source] = "deleting")
    BY Zenon DEF ParkedLeaves
  <2>1. messages[m].queue = pending[m].source
    BY Zenon DEF IInv, ParkedIsFrozen
  <2> QED BY <1>1, <2>1, Zenon
<1>3. ParkedPresent => ParkedPresent'
  BY <1>1, Zenon DEF ParkedPresent, Ready
<1> QED BY <1>2, <1>3, Zenon DEF ParkedStep

LEMMA RestartParked ==
    ASSUME IInv, Restart
    PROVE  ParkedStep
<1>1. /\ \A m \in DOMAIN messages' :
            messages'[m].queue = messages[m].queue /\ messages'[m].batch = NoBatch
      /\ \A m \in DOMAIN messages :
            Ready(m) /\ ~RecoveryDrops(messages[m]) => m \in DOMAIN messages'
      /\ \A m \in DOMAIN pending' : m \in DOMAIN pending \/ m \in DOMAIN messages'
  BY RestartRows, Zenon DEF RowsStay
<1>2. ParkedLeaves
  BY <1>1, Zenon DEF IInv, ParkedIsFrozen, ParkedLeaves
<1>3. ParkedPresent => \/ ParkedPresent'
                       \/ \E m \in DOMAIN pending : RecoveryDrops(messages[m])
  BY <1>1, Zenon DEF ParkedPresent, Ready
<1> QED BY <1>2, <1>3, Zenon DEF ParkedStep

LEMMA NextParked == IInv /\ [Next]_vars => ParkedStep
<1> SUFFICES ASSUME IInv, [Next]_vars PROVE ParkedStep
  OBVIOUS
<1>1. ASSUME NEW q \in Queues, NEW S \in SUBSET Messages, NEW delay \in Delays,
             Enqueue(q, S, delay)
      PROVE  ParkedStep
  BY <1>1, EnqueueParked, Zenon
<1>2. ASSUME NEW q \in Queues, NEW b \in Batches, NEW S \in SUBSET Due(q), Claim(q, b, S)
      PROVE  ParkedStep
  <2>1. /\ DOMAIN messages' = DOMAIN messages /\ pending' = pending
        /\ \A m \in DOMAIN messages \cap DOMAIN pending : messages'[m] = messages[m]
    BY <1>2, ClaimRows, Zenon DEF Claim
  <2> QED BY <2>1, FrozenParked, Zenon
<1>3. ASSUME NEW b \in DOMAIN tasks, Deliver(b) PROVE ParkedStep
  BY <1>3, CompleteParked, Zenon DEF Deliver
<1>4. CASE Forward
  BY <1>4, ForwardParked, Zenon DEF Forward
<1>5. CASE Sweep
  <2>1. PICK S \in SUBSET DOMAIN messages : SweepRetention(S)
    BY <1>5, Zenon DEF Sweep
  <2>2. Remove(S) /\ \A m \in S : messages[m].ttl = 0
    BY <2>1, Zenon DEF SweepRetention, DeleteCandidates
  <2> QED BY <2>2, RemoveParked, Zenon
<1>6. ASSUME NEW q \in Queues, NEW S \in SUBSET InQueue(q), Purge(q, S)
      PROVE  ParkedStep
  <2>1. Remove(S) /\ \A m \in S : queue[messages[m].queue] = "deleting"
    BY <1>6, Zenon DEF Purge, InQueue
  <2> QED BY <2>1, RemoveParked, Zenon
<1>7. CASE Restart
  BY <1>7, RestartParked, Zenon
<1>8. CASE Tick
  <2>1. /\ DOMAIN messages' = DOMAIN messages /\ DOMAIN pending' = DOMAIN pending
        /\ \A m \in DOMAIN messages : /\ messages'[m].batch = messages[m].batch
                                      /\ messages'[m].queue = messages[m].queue
    BY <1>8, TickRows, Zenon DEF RowsStay
  <2> QED BY <2>1, FrozenParked, Zenon
<1>9. CASE UNCHANGED <<messages, pending>>
  BY <1>9, FrozenParked, Zenon
<1> QED
  BY <1>1, <1>2, <1>3, <1>4, <1>5, <1>6, <1>7, <1>8, <1>9, ZenonT(60)
     DEF Next, vars, CompleteFails, Attach, Detach, SetActive, SetConfiguring, FenceDelete,
         DeleteProjection

\* With any declarations: a parked message leaves only for its target, by expiry,
\* with its queue, or by a recovery under a declaration without a dead-letter
\* queue.  Only such a recovery leaves a parked row without its message, which
\* is what makes the maintenance pass fail.
THEOREM ParkedRows == Spec => [][ParkedStep]_vars
<1>1. IInv /\ [Next]_vars => [ParkedStep]_vars
  BY NextParked, Zenon
<1> QED BY <1>1, Invariance, PTL DEF Spec

\* When every declaration names a dead-letter queue, recovery drops nothing.
LEMMA NothingDropped ==
    ASSUME \A c \in Configs : c.dlq # NoQueue, IInv, NEW m
    PROVE  ~RecoveryDrops(messages[m])
BY Zenon DEF IInv, TypeOK, ConsumerRow, RecoveryDrops, Exhausted

\* When every declaration names a dead-letter queue, a parked message leaves its
\* source queue only for that queue, by expiry, or with the source queue.
THEOREM ParkedMessagesKept ==
    ASSUME \A c \in Configs : c.dlq # NoQueue
    PROVE  Spec => ParkedIsKept
<1> DEFINE Kept ==
      \A m \in DOMAIN pending \cap DOMAIN messages :
        \/ m \in DOMAIN messages' /\ messages'[m].queue
               \in {pending[m].source, pending[m].target}
        \/ m \notin DOMAIN messages' /\ (\/ messages[m].ttl = 0
                                         \/ queue[pending[m].source] = "deleting")
<1>1. IInv /\ [Next]_vars => [Kept]_vars
  BY NextParked, NothingDropped, Zenon DEF ParkedStep, ParkedLeaves
<1>2. ParkedIsKept <=> [][Kept]_vars
  BY PTL DEF ParkedIsKept
<1> QED BY <1>1, <1>2, Invariance, PTL DEF Spec

\* Under the same declarations, ready_message_by_id_tx never misses a parked
\* message or finds it claimed, so no maintenance pass fails for it.
THEOREM MaintenanceNeverFails ==
    ASSUME \A c \in Configs : c.dlq # NoQueue
    PROVE  Spec => []MaintenanceRuns
<1>1. Init => ParkedPresent
  BY Zenon DEF Init, Empty, ParkedPresent
<1>2. IInv /\ ParkedPresent /\ [Next]_vars => ParkedPresent'
  BY NextParked, NothingDropped, Zenon DEF ParkedStep
<1>3. ParkedPresent => MaintenanceRuns
  BY Zenon DEF ParkedPresent, MaintenanceRuns, DuePending
<1> QED BY <1>1, <1>2, <1>3, Invariance, PTL DEF Spec

-----------------------------------------------------------------------------
(* The store implements QueueContract.                                     *)

\* How often a message was handed over, by its row.
HandedOver(m) == messages[m].attempts + (IF Ready(m) THEN 0 ELSE 1)

\* The state QueueContract sees.
LEMMA Mapped ==
    /\ DOMAIN Place = DOMAIN messages
    /\ \A m \in DOMAIN messages : /\ Place[m] = [queue |-> messages[m].queue,
                                                handed |-> HandedOver(m)]
                                 /\ Place[m].queue = messages[m].queue
                                 /\ Place[m].handed = HandedOver(m)
    /\ DOMAIN HeldBy = DOMAIN batches
    /\ \A b \in DOMAIN batches : HeldBy[b] = MessagesOf(b)
BY DEF Place, HeldBy, HandedOver

LEMMA MappedNext ==
    /\ DOMAIN Place' = DOMAIN messages'
    /\ \A m \in DOMAIN messages' : /\ Place'[m] = [queue |-> messages'[m].queue,
                                                  handed |-> HandedOver(m)']
                                  /\ Place'[m].queue = messages'[m].queue
                                  /\ Place'[m].handed = HandedOver(m)'
    /\ DOMAIN HeldBy' = DOMAIN batches'
    /\ \A b \in DOMAIN batches' : HeldBy'[b] = MessagesOf(b)'
BY DEF Place, HeldBy, HandedOver

\* What the deliveries hold are the claimed messages.
LEMMA HeldAreClaimed ==
    ASSUME IInv
    PROVE  Contract!Held = {m \in DOMAIN messages : ~Ready(m)}
<1>1. Contract!Held = UNION {MessagesOf(b) : b \in DOMAIN batches}
  BY Zenon DEF Contract!Held, HeldBy
<1>2. \A b \in DOMAIN batches : b # NoBatch
  BY IdAssumption, Zenon DEF IInv, TypeOK
<1>3. \A m \in DOMAIN messages : ~Ready(m) => messages[m].batch \in DOMAIN batches
  BY Zenon DEF IInv, ClaimsMatchBatches
<1>4. ASSUME NEW m
      PROVE  m \in Contract!Held <=> m \in DOMAIN messages /\ ~Ready(m)
  <2>1. m \in Contract!Held <=> \E b \in DOMAIN batches : m \in MessagesOf(b)
    BY <1>1, Zenon
  <2>2. \A b : m \in MessagesOf(b) <=> m \in DOMAIN messages /\ messages[m].batch = b
    BY Zenon DEF MessagesOf
  <2> QED BY <1>2, <1>3, <2>1, <2>2 DEF Ready
<1> QED BY <1>4, Zenon

\* A step that changes no row the contract sees.
LEMMA SameMapped ==
    ASSUME DOMAIN messages' = DOMAIN messages, DOMAIN batches' = DOMAIN batches,
           \A m \in DOMAIN messages : /\ messages'[m].queue = messages[m].queue
                                     /\ messages'[m].batch = messages[m].batch
                                     /\ messages'[m].attempts = messages[m].attempts
    PROVE  Place' = Place /\ HeldBy' = HeldBy
<1>1. \A m \in DOMAIN messages : HandedOver(m)' = HandedOver(m)
  BY Zenon DEF HandedOver, Ready
<1>2. \A b : MessagesOf(b)' = MessagesOf(b)
  BY Zenon DEF MessagesOf
<1>3. Place' = [m \in DOMAIN messages' |->
                  [queue |-> messages'[m].queue, handed |-> HandedOver(m)']]
  BY DEF Place, HandedOver
<1>4. Place = [m \in DOMAIN messages |->
                  [queue |-> messages[m].queue, handed |-> HandedOver(m)]]
  BY DEF Place, HandedOver
<1>5. Place' = Place
  BY <1>1, <1>3, <1>4, Zenon
<1> QED BY <1>2, <1>5, Zenon DEF HeldBy

\* The deliveries other than those of B keep their messages when no other
\* claimed message changes its batch.
LEMMA SameHeld ==
    ASSUME NEW B, DOMAIN batches' = DOMAIN batches \ B,
           \A c \in DOMAIN batches \ B : MessagesOf(c)' = MessagesOf(c)
    PROVE  HeldBy' = [c \in DOMAIN HeldBy \ B |-> HeldBy[c]]
BY Zenon DEF HeldBy

\* Resolve, in terms of the rows.
LEMMA ResolveRows ==
    ASSUME NEW S \in SUBSET DOMAIN messages, UNCHANGED used,
           DOMAIN messages' \subseteq DOMAIN messages,
           DOMAIN messages \ S \subseteq DOMAIN messages',
           \A m \in DOMAIN messages' :
              \/ /\ messages'[m].queue = messages[m].queue
                 /\ HandedOver(m)' = HandedOver(m)
              \/ /\ m \in S
                 /\ messages'[m].queue \in Queues \ {messages[m].queue}
                 /\ HandedOver(m)' = 0
    PROVE  Contract!Resolve(S)
<1>1. S \subseteq DOMAIN Place /\ DOMAIN Place' \subseteq DOMAIN Place
  BY Mapped, MappedNext, Zenon
<1>2. \A m \in DOMAIN Place : m \notin S => m \in DOMAIN Place'
  BY Mapped, MappedNext, Zenon
<1>3. ASSUME NEW m \in DOMAIN Place'
      PROVE  \/ Place'[m] = Place[m]
             \/ m \in S /\ Place'[m].queue \in Queues \ {Place[m].queue}
                       /\ Place'[m].handed = 0
  <2>1. /\ m \in DOMAIN messages' /\ m \in DOMAIN messages
        /\ Place'[m] = [queue |-> messages'[m].queue, handed |-> HandedOver(m)']
        /\ Place[m] = [queue |-> messages[m].queue, handed |-> HandedOver(m)]
        /\ Place'[m].queue = messages'[m].queue /\ Place'[m].handed = HandedOver(m)'
        /\ Place[m].queue = messages[m].queue
    BY Mapped, MappedNext, Zenon
  <2> QED BY <2>1, Zenon
<1> QED BY <1>1, <1>2, <1>3, Zenon DEF Contract!Resolve

LEMMA EnqueueContract ==
    ASSUME IInv, NEW q \in Queues, NEW S \in SUBSET Messages, NEW delay,
           Enqueue(q, S, delay)
    PROVE  Contract!Accept(q, S)
<1>1. /\ S # {} /\ S \cap used = {} /\ used' = used \cup S /\ UNCHANGED batches
      /\ S \cap DOMAIN messages = {}
  BY Zenon DEF Enqueue, IInv, TypeOK
<1>2. /\ DOMAIN messages' = DOMAIN messages \cup S
      /\ \A m \in S : /\ messages'[m].queue = q /\ messages'[m].batch = NoBatch
                     /\ messages'[m].attempts = 0
      /\ \A m \in DOMAIN messages : messages'[m] = messages[m]
  BY <1>1 DEF Enqueue, Extend
<1>3. \A m \in S : HandedOver(m)' = 0
  BY <1>2 DEF HandedOver, Ready
<1>4. \A m \in DOMAIN messages : HandedOver(m)' = HandedOver(m)
  BY <1>2, Zenon DEF HandedOver, Ready
<1>5. Place' = [m \in DOMAIN Place \cup S |->
                  IF m \in S THEN [queue |-> q, handed |-> 0] ELSE Place[m]]
  <2>1. Place' = [m \in DOMAIN messages' |->
                    [queue |-> messages'[m].queue, handed |-> HandedOver(m)']]
    BY DEF Place, HandedOver
  <2>2. ASSUME NEW m \in DOMAIN messages'
        PROVE  [queue |-> messages'[m].queue, handed |-> HandedOver(m)']
                 = IF m \in S THEN [queue |-> q, handed |-> 0] ELSE Place[m]
    BY <1>1, <1>2, <1>3, <1>4, Mapped, Zenon
  <2>3. DOMAIN messages' = DOMAIN Place \cup S
    BY <1>2, Mapped, Zenon
  <2> QED BY <2>1, <2>2, <2>3, Zenon
<1>6. HeldBy' = HeldBy
  <2>1. \A b \in DOMAIN batches : b # NoBatch
    BY IdAssumption, Zenon DEF IInv, TypeOK
  <2>2. \A b \in DOMAIN batches : MessagesOf(b)' = MessagesOf(b)
    <3> TAKE b \in DOMAIN batches
    <3>1. \A m : m \in MessagesOf(b)' <=> m \in DOMAIN messages' /\ messages'[m].batch = b
      BY Zenon DEF MessagesOf
    <3>2. \A m : m \in MessagesOf(b) <=> m \in DOMAIN messages /\ messages[m].batch = b
      BY Zenon DEF MessagesOf
    <3>3. \A m : m \in MessagesOf(b)' <=> m \in MessagesOf(b)
      BY <1>2, <2>1, <3>1, <3>2
    <3> QED BY <3>3, Zenon
  <2> QED BY <1>1, <2>2, Zenon DEF HeldBy
<1> QED BY <1>1, <1>5, <1>6, Zenon DEF Contract!Accept

LEMMA ClaimContract ==
    ASSUME IInv, NEW q \in Queues, NEW b \in Batches, NEW S \in SUBSET Due(q), Claim(q, b, S)
    PROVE  Contract!Hand(q, b, S)
<1>1. /\ b \notin DOMAIN batches /\ S # {} /\ S \subseteq Due(q) /\ UNCHANGED used
      /\ DOMAIN batches' = DOMAIN batches \cup {b}
      /\ messages' = [m \in DOMAIN messages |->
            IF m \in S THEN [messages[m] EXCEPT !.batch = b] ELSE messages[m]]
  BY Zenon DEF Claim, Extend
<1>2. \A m \in S : m \in DOMAIN messages /\ messages[m].queue = q /\ Ready(m)
  BY <1>1, Zenon DEF Due, InQueue
<1>3. b # NoBatch
  BY IdAssumption, Zenon
<1>4. \A m \in S : /\ messages'[m].queue = q /\ messages'[m].batch = b
                  /\ messages'[m].attempts = messages[m].attempts
  <2> TAKE m \in S
  <2>1. messages[m] \in MessageRow /\ messages'[m] = [messages[m] EXCEPT !.batch = b]
    BY <1>1, <1>2, Zenon DEF IInv, TypeOK
  <2>2. /\ [messages[m] EXCEPT !.batch = b].queue = messages[m].queue
        /\ [messages[m] EXCEPT !.batch = b].batch = b
        /\ [messages[m] EXCEPT !.batch = b].attempts = messages[m].attempts
    BY <2>1, ClaimedRow, Zenon
  <2> QED BY <1>2, <2>1, <2>2, Zenon
<1>5. DOMAIN messages' = DOMAIN messages /\ \A m \in DOMAIN messages \ S : messages'[m] = messages[m]
  BY <1>1, Zenon
<1>6. Place' = [m \in DOMAIN Place |->
                  IF m \in S THEN [queue |-> q, handed |-> Place[m].handed + 1] ELSE Place[m]]
  <2>1. Place' = [m \in DOMAIN messages' |->
                    [queue |-> messages'[m].queue, handed |-> HandedOver(m)']]
    BY DEF Place, HandedOver
  <2>2. ASSUME NEW m \in S
        PROVE  HandedOver(m)' = Place[m].handed + 1
    <3>1. messages[m].attempts \in Nat
      BY <1>2, Zenon DEF IInv, TypeOK, MessageRow
    <3>2. HandedOver(m)' = messages[m].attempts + 1 /\ HandedOver(m) = messages[m].attempts + 0
      BY <1>2, <1>3, <1>4, Zenon DEF HandedOver, Ready
    <3>3. Place[m].handed = HandedOver(m)
      BY <1>2, Mapped, Zenon
    <3> QED BY <3>1, <3>2, <3>3
  <2>3. ASSUME NEW m \in DOMAIN messages \ S
        PROVE  Place[m] = [queue |-> messages'[m].queue, handed |-> HandedOver(m)']
    <3>1. HandedOver(m)' = HandedOver(m)
      BY <1>5, Zenon DEF HandedOver, Ready
    <3> QED BY <1>5, <3>1, Mapped, Zenon
  <2>4. ASSUME NEW m \in DOMAIN messages'
        PROVE  [queue |-> messages'[m].queue, handed |-> HandedOver(m)']
                 = IF m \in S THEN [queue |-> q, handed |-> Place[m].handed + 1] ELSE Place[m]
    BY <1>4, <1>5, <2>2, <2>3, Zenon
  <2> QED BY <1>5, <2>1, <2>4, Mapped, ZenonT(60)
<1>7. HeldBy' = [c \in DOMAIN HeldBy \cup {b} |-> IF c = b THEN S ELSE HeldBy[c]]
  <2>1. MessagesOf(b) = {}
    BY <1>1, <1>3, Zenon DEF IInv, ClaimsMatchBatches, MessagesOf, Ready
  <2>2. MessagesOf(b)' = S
    BY <1>2, <1>4, <1>5, <2>1, Zenon DEF MessagesOf
  <2>3. ASSUME NEW c \in DOMAIN batches PROVE MessagesOf(c)' = MessagesOf(c)
    <3>1. c # b /\ c # NoBatch
      BY <1>1, IdAssumption, Zenon DEF IInv, TypeOK
    <3>2. \A m : m \in MessagesOf(c)' <=> m \in DOMAIN messages' /\ messages'[m].batch = c
      BY Zenon DEF MessagesOf
    <3>3. \A m : m \in MessagesOf(c) <=> m \in DOMAIN messages /\ messages[m].batch = c
      BY Zenon DEF MessagesOf
    <3>4. \A m : m \in MessagesOf(c)' <=> m \in MessagesOf(c)
      BY <1>2, <1>4, <1>5, <3>1, <3>2, <3>3 DEF Ready
    <3> QED BY <3>4, Zenon
  <2>4. HeldBy' = [c \in DOMAIN batches' |-> MessagesOf(c)']
    BY DEF HeldBy
  <2>5. ASSUME NEW c \in DOMAIN batches'
        PROVE  MessagesOf(c)' = IF c = b THEN S ELSE HeldBy[c]
    BY <1>1, <2>2, <2>3, Mapped, Zenon
  <2> QED BY <1>1, <2>4, <2>5, Mapped, Zenon
<1>8. S \cap Contract!Held = {}
  BY <1>2, HeldAreClaimed, Zenon
<1>9. S \subseteq {m \in DOMAIN Place : Place[m].queue = q}
  BY <1>2, Mapped, Zenon
<1> QED BY <1>1, <1>6, <1>7, <1>8, <1>9, Mapped, Zenon DEF Contract!Hand

LEMMA CompleteContract ==
    ASSUME IInv, NEW b \in DOMAIN tasks, NEW retry, NEW delay, NEW lag, NEW moved,
           Complete(b, retry, delay, lag, moved)
    PROVE  b \in DOMAIN HeldBy /\ Contract!Settle(b)
<1> DEFINE t == tasks[b].config.dlq
           mine == tasks[b].messages
<1>1. /\ DOMAIN messages' \subseteq DOMAIN messages
      /\ \A m \in DOMAIN messages \ mine : m \in DOMAIN messages' /\ messages'[m] = messages[m]
      /\ \A m \in DOMAIN messages' \ moved : messages'[m].queue = messages[m].queue
      /\ \A m \in DOMAIN messages' \cap moved : messages'[m].queue = t
      /\ \A m \in DOMAIN messages' \cap mine :
            /\ messages'[m].batch = NoBatch
            /\ messages'[m].attempts = IF m \in moved THEN 0 ELSE messages[m].attempts + 1
      /\ moved \subseteq mine
      /\ moved # {} => t \in Queues
  BY CompleteRows
<1>2. /\ b \in DOMAIN batches /\ MessagesOf(b) = mine
      /\ DOMAIN batches' = DOMAIN batches \ {b} /\ UNCHANGED used
  BY Zenon DEF Complete, Without
<1>3. /\ b # NoBatch
      /\ \A m \in mine : /\ m \in DOMAIN messages /\ messages[m].batch = b
                        /\ messages[m].queue = tasks[b].queue
                        /\ messages[m].attempts \in Nat
  <2>1. b # NoBatch
    BY IdAssumption, Zenon DEF IInv, TypeOK
  <2>2. \A m \in mine : m \in DOMAIN messages /\ messages[m].batch = b
    BY <1>2, Zenon DEF MessagesOf
  <2>3. batches[b].queue = tasks[b].queue
    BY ZenonT(60) DEF IInv, TaskOwnsBatch
  <2>4. \A m \in mine : batches[messages[m].batch].queue = messages[m].queue
    BY <2>1, <2>2 DEF IInv, ClaimsMatchBatches, Ready
  <2>5. \A m \in DOMAIN messages : messages[m].attempts \in Nat
    BY Zenon DEF IInv, TypeOK, MessageRow
  <2>6. \A m \in mine : messages[m].queue = tasks[b].queue
    BY <2>2, <2>3, <2>4, Zenon
  <2> QED BY <2>1, <2>2, <2>5, <2>6, ZenonT(60)
<1>4. t # tasks[b].queue
  BY Zenon DEF IInv, NoSelfDlq
<1> HIDE DEF t, mine
<1>5. Contract!Resolve(mine)
  <2>1. ASSUME NEW m \in DOMAIN messages'
        PROVE  \/ /\ messages'[m].queue = messages[m].queue
                  /\ HandedOver(m)' = HandedOver(m)
               \/ /\ m \in mine
                  /\ messages'[m].queue \in Queues \ {messages[m].queue}
                  /\ HandedOver(m)' = 0
    <3>1. CASE m \notin mine
      <4>1. m \in DOMAIN messages /\ messages'[m] = messages[m]
        BY <1>1, <3>1, Zenon
      <4> QED BY <4>1, Zenon DEF HandedOver, Ready
    <3>2. CASE m \in moved
      <4>1. /\ m \in mine /\ messages'[m].queue = t /\ t \in Queues
            /\ messages'[m].batch = NoBatch /\ messages'[m].attempts = 0
            /\ messages[m].queue = tasks[b].queue
        BY <1>1, <1>3, <3>2, Zenon
      <4>2. HandedOver(m)' = 0
        BY <4>1 DEF HandedOver, Ready
      <4> QED BY <1>4, <4>1, <4>2, Zenon
    <3>3. CASE m \in mine \ moved
      <4>1. /\ messages'[m].queue = messages[m].queue
            /\ messages'[m].batch = NoBatch
            /\ messages'[m].attempts = messages[m].attempts + 1
            /\ messages[m].batch # NoBatch /\ messages[m].attempts \in Nat
        BY <1>1, <1>3, <3>3
      <4>2. HandedOver(m)' = HandedOver(m)
        BY <4>1 DEF HandedOver, Ready
      <4> QED BY <4>1, <4>2, ZenonT(60)
    <3> QED BY <3>1, <3>2, <3>3, Zenon
  <2>2. mine \in SUBSET DOMAIN messages /\ DOMAIN messages \ mine \subseteq DOMAIN messages'
    BY <1>1, <1>3, Zenon
  <2> QED BY <1>1, <1>2, <2>1, <2>2, ResolveRows, Zenon
<1>6. HeldBy' = [c \in DOMAIN HeldBy \ {b} |-> HeldBy[c]]
  <2>1. ASSUME NEW c \in DOMAIN batches \ {b} PROVE MessagesOf(c)' = MessagesOf(c)
    <3>1. c # b /\ c # NoBatch
      BY IdAssumption, Zenon DEF IInv, TypeOK
    <3>2. \A m : m \in MessagesOf(c)' <=> m \in DOMAIN messages' /\ messages'[m].batch = c
      BY Zenon DEF MessagesOf
    <3>3. \A m : m \in MessagesOf(c) <=> m \in DOMAIN messages /\ messages[m].batch = c
      BY Zenon DEF MessagesOf
    <3>4. ASSUME NEW m PROVE m \in MessagesOf(c)' <=> m \in MessagesOf(c)
      <4>1. CASE m \in mine
        BY <1>1, <1>3, <3>1, <3>2, <3>3, <4>1
      <4>2. CASE m \notin mine
        BY <1>1, <3>2, <3>3, <4>2, Zenon
      <4> QED BY <4>1, <4>2, ZenonT(60)
    <3> QED BY <3>4, Zenon
  <2> QED BY <1>2, <2>1, SameHeld, Zenon
<1>7. b \in DOMAIN HeldBy /\ HeldBy[b] = mine
  BY <1>2, Mapped, Zenon
<1> QED BY <1>5, <1>6, <1>7, ZenonT(60) DEF Contract!Settle

\* Messages no delivery has go, or move to another queue.
LEMMA ReleaseRows ==
    ASSUME IInv, NEW S \in SUBSET DOMAIN messages, UNCHANGED <<used, batches>>,
           \A m \in S : Ready(m),
           DOMAIN messages' \subseteq DOMAIN messages,
           \A m \in DOMAIN messages \ S : m \in DOMAIN messages' /\ messages'[m] = messages[m],
           \A m \in S : m \in DOMAIN messages' =>
              /\ messages'[m].queue \in Queues \ {messages[m].queue}
              /\ messages'[m].batch = NoBatch /\ messages'[m].attempts = 0
    PROVE  S \in SUBSET DOMAIN Place /\ Contract!Release(S)
<1>1. \A m \in DOMAIN messages \ S : HandedOver(m)' = HandedOver(m)
  BY Zenon DEF HandedOver, Ready
<1>2. \A m \in S : m \in DOMAIN messages' => HandedOver(m)' = 0
  BY DEF HandedOver, Ready
<1>3. Contract!Resolve(S)
  <2>1. DOMAIN messages \ S \subseteq DOMAIN messages'
    BY Zenon
  <2>2. ASSUME NEW m \in DOMAIN messages'
        PROVE  \/ /\ messages'[m].queue = messages[m].queue
                  /\ HandedOver(m)' = HandedOver(m)
               \/ /\ m \in S
                  /\ messages'[m].queue \in Queues \ {messages[m].queue}
                  /\ HandedOver(m)' = 0
    BY <1>1, <1>2, Zenon
  <2> QED BY <2>1, <2>2, ResolveRows, Zenon
<1>4. HeldBy' = HeldBy
  <2>1. ASSUME NEW c \in DOMAIN batches PROVE MessagesOf(c)' = MessagesOf(c)
    <3>1. c # NoBatch
      BY IdAssumption, Zenon DEF IInv, TypeOK
    <3>2. \A m : m \in MessagesOf(c)' <=> m \in DOMAIN messages' /\ messages'[m].batch = c
      BY Zenon DEF MessagesOf
    <3>3. \A m : m \in MessagesOf(c) <=> m \in DOMAIN messages /\ messages[m].batch = c
      BY Zenon DEF MessagesOf
    <3>4. ASSUME NEW m PROVE m \in MessagesOf(c)' <=> m \in MessagesOf(c)
      <4>1. CASE m \in S
        BY <3>1, <3>2, <3>3, <4>1 DEF Ready
      <4>2. CASE m \notin S /\ m \in DOMAIN messages
        <5>1. m \in DOMAIN messages' /\ messages'[m] = messages[m]
          BY <4>2, Zenon
        <5> QED BY <3>2, <3>3, <4>2, <5>1
      <4>3. CASE m \notin S /\ m \notin DOMAIN messages
        <5>1. m \notin DOMAIN messages'
          BY <4>3, Zenon
        <5> QED BY <3>2, <3>3, <4>3, <5>1
      <4> QED BY <4>1, <4>2, <4>3, ZenonT(60)
    <3> QED BY <3>4, Zenon
  <2> QED BY <2>1, Zenon DEF HeldBy
<1>5. S \cap Contract!Held = {}
  BY HeldAreClaimed, Zenon
<1> QED BY <1>3, <1>4, <1>5, Mapped, Zenon DEF Contract!Release

LEMMA ForwardContract ==
    ASSUME IInv, NEW moved \in SUBSET DuePending, ForwardDlq(moved)
    PROVE  \E S \in SUBSET DOMAIN Place : Contract!Release(S)
<1> DEFINE lapsed == {m \in DuePending : messages[m].ttl = 0}
           S == lapsed \cup moved
<1>1. /\ DuePending \subseteq DOMAIN messages /\ moved \cap lapsed = {}
      /\ DOMAIN messages' = DOMAIN messages \ lapsed
      /\ \A m \in DOMAIN messages' \ moved : messages'[m] = messages[m]
      /\ \A m \in moved : /\ messages'[m].queue = pending[m].target
                        /\ messages'[m].batch = NoBatch
                        /\ messages'[m].attempts = 0
  BY ForwardRows, Zenon
<1>2. S \in SUBSET DOMAIN messages /\ S \subseteq DuePending
  BY <1>1, Zenon
<1>3. \A m \in DuePending : /\ Ready(m) /\ messages[m].queue = pending[m].source
                          /\ pending[m].source # pending[m].target
                          /\ pending[m].target \in Queues
  <2>1. \A m \in DuePending : m \in DOMAIN pending /\ pending[m] \in PendingRow
    BY Zenon DEF DuePending, IInv, TypeOK
  <2> QED BY <1>1, <2>1, Zenon DEF IInv, ParkedIsFrozen, PendingRow
<1>4. UNCHANGED <<used, batches>>
  BY Zenon DEF ForwardDlq
<1> HIDE DEF lapsed
<1>5. \A m \in S : m \in DOMAIN messages' =>
         /\ messages'[m].queue \in Queues \ {messages[m].queue}
         /\ messages'[m].batch = NoBatch /\ messages'[m].attempts = 0
  <2> SUFFICES ASSUME NEW m \in S, m \in DOMAIN messages'
               PROVE  /\ messages'[m].queue \in Queues \ {messages[m].queue}
                      /\ messages'[m].batch = NoBatch /\ messages'[m].attempts = 0
    BY Zenon
  <2>1. m \in moved
    BY <1>1, Zenon
  <2> QED BY <1>1, <1>3, <2>1
<1>6. /\ DOMAIN messages' \subseteq DOMAIN messages
      /\ \A m \in DOMAIN messages \ S : m \in DOMAIN messages' /\ messages'[m] = messages[m]
      /\ \A m \in S : Ready(m)
  BY <1>1, <1>2, <1>3, ZenonT(60)
<1> HIDE DEF S
<1>7. S \in SUBSET DOMAIN Place /\ Contract!Release(S)
  BY <1>2, <1>4, <1>5, <1>6, ReleaseRows
<1> QED BY <1>7, Zenon

\* A sweep and a purge.
LEMMA RemoveContract ==
    ASSUME IInv, NEW S \in SUBSET DOMAIN messages, Remove(S), \A m \in S : Ready(m),
           UNCHANGED <<used, batches>>
    PROVE  \E T \in SUBSET DOMAIN Place : Contract!Release(T)
<1>1. /\ DOMAIN messages' = DOMAIN messages \ S
      /\ \A m \in DOMAIN messages \ S : messages'[m] = messages[m]
  BY RemoveRows, Zenon
<1>2. /\ DOMAIN messages' \subseteq DOMAIN messages
      /\ \A m \in DOMAIN messages \ S : m \in DOMAIN messages' /\ messages'[m] = messages[m]
      /\ \A m \in S : m \notin DOMAIN messages'
  BY <1>1, Zenon
<1>3. S \in SUBSET DOMAIN Place /\ Contract!Release(S)
  BY <1>2, ReleaseRows
<1> QED BY <1>3, Zenon

LEMMA RestartContract ==
    ASSUME IInv, Restart
    PROVE  Contract!Recover
<1>1. /\ DOMAIN messages' \subseteq DOMAIN messages
      /\ \A m \in DOMAIN messages' : /\ messages'[m].queue = messages[m].queue
                                   /\ messages'[m].batch = NoBatch
                                   /\ messages'[m].attempts = HandedOver(m)
      /\ \A m \in DOMAIN messages \ DOMAIN messages' : HandedOver(m) > 0
  BY RestartRows, Zenon DEF RowsStay, HandedOver
<1>2. batches' = Empty /\ UNCHANGED used
  BY Zenon DEF Restart
<1>3. DOMAIN HeldBy' = {}
  <2>1. DOMAIN Empty = {}
    BY Zenon DEF Empty
  <2> QED BY <1>2, <2>1, MappedNext, Zenon
<1>4. ASSUME NEW m \in DOMAIN messages' PROVE HandedOver(m)' = HandedOver(m)
  <2>1. m \in DOMAIN messages /\ messages[m].attempts \in Nat
    BY <1>1, Zenon DEF IInv, TypeOK, MessageRow
  <2>2. messages'[m].attempts \in Nat
    BY <1>1, <2>1 DEF HandedOver
  <2>3. HandedOver(m)' = messages'[m].attempts
    BY <1>1, <2>2 DEF HandedOver, Ready
  <2> QED BY <1>1, <2>3, Zenon
<1>5. /\ DOMAIN Place' \subseteq DOMAIN Place
      /\ \A m \in DOMAIN Place' : Place'[m] = Place[m]
  <2>1. \A m \in DOMAIN Place' : Place'[m] = Place[m]
    <3> TAKE m \in DOMAIN Place'
    <3>1. /\ m \in DOMAIN messages' /\ m \in DOMAIN messages
          /\ Place'[m] = [queue |-> messages'[m].queue, handed |-> HandedOver(m)']
          /\ Place[m] = [queue |-> messages[m].queue, handed |-> HandedOver(m)]
      BY <1>1, Mapped, MappedNext, Zenon
    <3> QED BY <1>1, <1>4, <3>1, Zenon
  <2> QED BY <1>1, <2>1, Mapped, MappedNext, Zenon
<1>6. \A m \in DOMAIN Place \ DOMAIN Place' : Place[m].handed > 0
  BY <1>1, Mapped, MappedNext, ZenonT(60)
<1> QED BY <1>2, <1>3, <1>5, <1>6, Zenon DEF Contract!Recover

LEMMA ContractInit == Init => Contract!Init
<1> SUFFICES ASSUME Init PROVE Contract!Init
  OBVIOUS
<1>1. used = {} /\ DOMAIN messages = {} /\ DOMAIN batches = {}
  BY Zenon DEF Init, Empty
<1> QED BY <1>1, Mapped, Zenon DEF Contract!Init

\* Every step of the store is a step of QueueContract, or stutters.
LEMMA ContractStep == IInv /\ [Next]_vars => [Contract!Next]_(Contract!vars)
<1> SUFFICES ASSUME IInv, [Next]_vars
             PROVE  Contract!Next \/ UNCHANGED <<used, Place, HeldBy>>
  BY Zenon DEF Contract!vars
<1>1. ASSUME NEW q \in Queues, NEW S \in SUBSET Messages, NEW delay \in Delays,
             Enqueue(q, S, delay)
      PROVE  Contract!Next
  BY <1>1, EnqueueContract, Zenon DEF Contract!Next
<1>2. ASSUME NEW q \in Queues, NEW b \in Batches, NEW S \in SUBSET Due(q), Claim(q, b, S)
      PROVE  Contract!Next
  <2>1. S \in SUBSET DOMAIN Place
    BY Mapped, Zenon DEF Due, InQueue
  <2> QED BY <1>2, <2>1, ClaimContract, Zenon DEF Contract!Next
<1>3. ASSUME NEW b \in DOMAIN tasks, Deliver(b) PROVE Contract!Next
  BY <1>3, CompleteContract, Zenon DEF Deliver, Contract!Next
<1>4. CASE Forward
  BY <1>4, ForwardContract, Zenon DEF Forward, Contract!Next
<1>5. CASE Sweep
  <2>1. PICK S \in SUBSET DOMAIN messages : SweepRetention(S)
    BY <1>5, Zenon DEF Sweep
  <2>2. Remove(S) /\ (\A m \in S : Ready(m)) /\ UNCHANGED <<used, batches>>
    BY <2>1, Zenon DEF SweepRetention, DeleteCandidates
  <2> QED BY <2>2, RemoveContract, Zenon DEF Contract!Next
<1>6. ASSUME NEW q \in Queues, NEW S \in SUBSET InQueue(q), Purge(q, S)
      PROVE  Contract!Next
  <2>1. /\ S \in SUBSET DOMAIN messages /\ \A m \in S : Ready(m)
        /\ Remove(S) /\ UNCHANGED <<used, batches>>
    BY <1>6, Zenon DEF Purge, DeleteCandidates, InQueue
  <2> QED BY <2>1, RemoveContract, Zenon DEF Contract!Next
<1>7. CASE Restart
  BY <1>7, RestartContract, Zenon DEF Contract!Next
<1>8. CASE Tick
  <2>1. UNCHANGED <<used, batches>>
    BY <1>8, Zenon DEF Tick
  <2>2. /\ DOMAIN messages' = DOMAIN messages
        /\ \A m \in DOMAIN messages : /\ messages'[m].queue = messages[m].queue
                                     /\ messages'[m].batch = messages[m].batch
                                     /\ messages'[m].attempts = messages[m].attempts
    BY <1>8, TickRows, Zenon DEF RowsStay
  <2>3. Place' = Place /\ HeldBy' = HeldBy
    BY <2>1, <2>2, SameMapped
  <2> QED BY <2>1, <2>3, Zenon
<1>9. CASE UNCHANGED <<used, messages, batches>>
  <2>1. Place' = Place /\ HeldBy' = HeldBy
    BY <1>9, SameMapped, Zenon
  <2> QED BY <1>9, <2>1, Zenon
<1> QED
  BY <1>1, <1>2, <1>3, <1>4, <1>5, <1>6, <1>7, <1>8, <1>9, ZenonT(60)
     DEF Next, vars, CompleteFails, Attach, Detach, SetActive, SetConfiguring, FenceDelete,
         DeleteProjection

\* The store implements QueueContract: a message is in one queue and with one
\* handler at a time, its row counts the deliveries begun, and while a handler
\* has it only the end of that delivery or a recovery decides its fate.
THEOREM StoreKeepsContract == Spec => KeepsDeliveryContract
BY ContractInit, ContractStep, Invariance, PTL DEF Spec, KeepsDeliveryContract, Contract!Spec

-----------------------------------------------------------------------------
(* What the contract means for a message that is gone, and for one that stays. *)

\* A message that left the store does not come back.
GoneStaysGone ==
    \A m \in used : m \notin DOMAIN messages => m \in used' /\ m \notin DOMAIN messages'

\* Only a move to another queue starts the count of deliveries anew.
CountsOnlyGrow ==
    \A m \in DOMAIN messages \cap DOMAIN messages' :
        messages'[m].queue = messages[m].queue => Place[m].handed <= Place'[m].handed

LEMMA StepGone ==
    ASSUME IInv, [Contract!Next]_(Contract!vars)
    PROVE  GoneStaysGone
<1>0. DOMAIN Place = DOMAIN messages /\ DOMAIN Place' = DOMAIN messages'
  BY Zenon DEF Place
<1> SUFFICES ASSUME NEW m \in used, m \notin DOMAIN Place
             PROVE  m \in used' /\ m \notin DOMAIN Place'
  BY <1>0, Zenon DEF GoneStaysGone
<1>1. CASE UNCHANGED Contract!vars
  BY <1>1, Zenon DEF Contract!vars
<1>2. CASE \E q \in Queues, S \in SUBSET Messages : Contract!Accept(q, S)
  <2> PICK q \in Queues, S \in SUBSET Messages : Contract!Accept(q, S)
    BY <1>2, Zenon
  <2>1. m \notin S /\ DOMAIN Place' = DOMAIN Place \cup S /\ used' = used \cup S
    BY Zenon DEF Contract!Accept
  <2> QED  BY <2>1, Zenon
<1>3. CASE \E q \in Queues, b \in Batches, S \in SUBSET DOMAIN Place : Contract!Hand(q, b, S)
  BY <1>3, Zenon DEF Contract!Hand
<1>4. CASE \/ \E b \in DOMAIN HeldBy : Contract!Settle(b)
           \/ \E S \in SUBSET DOMAIN Place : Contract!Release(S)
  <2>1. DOMAIN Place' \subseteq DOMAIN Place /\ used' = used
    BY <1>4, Zenon DEF Contract!Settle, Contract!Release, Contract!Resolve
  <2> QED  BY <2>1, Zenon
<1>5. CASE Contract!Recover
  BY <1>5, Zenon DEF Contract!Recover
<1> QED  BY <1>1, <1>2, <1>3, <1>4, <1>5, Zenon DEF Contract!Next

LEMMA StepCounts ==
    ASSUME IInv, [Contract!Next]_(Contract!vars)
    PROVE  CountsOnlyGrow
<1> SUFFICES ASSUME NEW m \in DOMAIN messages, m \in DOMAIN messages',
                    messages'[m].queue = messages[m].queue
             PROVE  Place[m].handed <= Place'[m].handed
  BY Zenon DEF CountsOnlyGrow
<1>0. /\ m \in DOMAIN Place /\ m \in DOMAIN Place'
      /\ Place[m].queue = messages[m].queue /\ Place'[m].queue = messages'[m].queue
  BY DEF Place
<1>1. Place[m].handed \in Nat
  <2>1. messages[m] \in MessageRow
    BY Zenon DEF IInv, TypeOK
  <2>2. messages[m].attempts \in Nat
    BY <2>1 DEF MessageRow
  <2> QED  BY <2>2 DEF Place
<1>2. Place'[m] = Place[m] \/ Place'[m].handed = Place[m].handed + 1
  <2>1. CASE UNCHANGED Contract!vars
    BY <2>1, Zenon DEF Contract!vars
  <2>2. CASE \E q \in Queues, S \in SUBSET Messages : Contract!Accept(q, S)
    <3> PICK q \in Queues, S \in SUBSET Messages : Contract!Accept(q, S)
      BY <2>2, Zenon
    <3>1. m \in used
      BY <1>0, Zenon DEF IInv, TypeOK
    <3>2. m \notin S
      BY <3>1, ZenonT(60) DEF Contract!Accept
    <3> QED  BY <1>0, <3>2, Zenon DEF Contract!Accept
  <2>3. CASE \E q \in Queues, b \in Batches, S \in SUBSET DOMAIN Place :
               Contract!Hand(q, b, S)
    BY <1>0, <2>3 DEF Contract!Hand
  <2>4. CASE \/ \E b \in DOMAIN HeldBy : Contract!Settle(b)
             \/ \E S \in SUBSET DOMAIN Place : Contract!Release(S)
    <3>1. PICK S : Contract!Resolve(S)
      BY <2>4, Zenon DEF Contract!Settle, Contract!Release
    <3>2. Place'[m] = Place[m] \/ Place'[m].queue \in Queues \ {Place[m].queue}
      BY <1>0, <3>1, Zenon DEF Contract!Resolve
    <3> QED  BY <1>0, <3>2
  <2>5. CASE Contract!Recover
    BY <1>0, <2>5, Zenon DEF Contract!Recover
  <2> QED  BY <2>1, <2>2, <2>3, <2>4, <2>5, ZenonT(60) DEF Contract!Next
<1> QED  BY <1>1, <1>2

\* A message that was acknowledged, dropped, expired or purged is never delivered
\* again: no late completion, dead-letter move or recovery writes its row anew.
THEOREM MessagesGoForGood == Spec => [][GoneStaysGone]_vars
<1>1. IInv /\ [Contract!Next]_(Contract!vars) => GoneStaysGone
  BY StepGone, ZenonT(60)
<1> QED
  BY <1>1, Invariance, StoreKeepsContract, PTL DEF KeepsDeliveryContract, Contract!Spec

\* While a message stays in its queue no answer, timeout, recovery or redeclaration
\* lowers the number of times it counts as delivered: retries are used up.
THEOREM RetriesAreUsedUp == Spec => [][CountsOnlyGrow]_vars
<1>1. IInv /\ [Contract!Next]_(Contract!vars) => CountsOnlyGrow
  BY StepCounts, Zenon
<1> QED
  BY <1>1, Invariance, StoreKeepsContract, PTL DEF KeepsDeliveryContract, Contract!Spec

=============================================================================
