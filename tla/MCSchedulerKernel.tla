------------------------- MODULE MCSchedulerKernel --------------------------
EXTENDS SchedulerKernel

\* Per-pool settings of the instances, Alarm, Queue, Cron, Workflow.
Caps == [k \in Kinds |-> IF k = Queue THEN 2 ELSE 1]
Ones == [k \in Kinds |-> 1]
Twos == [k \in Kinds |-> 2]
=============================================================================
