-------------------------- MODULE MCQueueDelivery --------------------------
(* Instances of QueueDelivery for TLC. *)
EXTENDS QueueDelivery, TLC

CONSTANTS q, d, m1, m2, b1, b2

cfg(retries, dlq, size) ==
    [maxRetries |-> retries, dlq |-> dlq, maxConcurrency |-> 1,
     maxBatchSize |-> size, maxBatchTimeout |-> 1]

mcQueues == {q, d}
mcMessages == {m1, m2}
mcBatches == {b1, b2}
mcDelays == {0, 1}
mcBacklog == [x \in mcQueues |-> IF x = q THEN 2 ELSE 1]
mcOneBatch == {b1}
mcNoDelay == {0}

\* Batches of two with a retry, single messages without, with and without a
\* dead-letter queue.
mcConfigs == {cfg(1, d, 2), cfg(0, d, 1), cfg(0, NoQueue, 1)}

\* Every declaration dead-letters, and the queues dead-letter to each other.
mcDlqConfigs == {cfg(0, d, 1), cfg(0, q, 1)}

mcSymmetry == Permutations(mcMessages) \cup Permutations(mcBatches)

=============================================================================
