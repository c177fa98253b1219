----------------------- MODULE SchedulerKernelProofs ------------------------
(***************************************************************************)
(* The safety properties of SchedulerKernel, for every configuration of    *)
(* caps, batches and weights and any amount of work.                       *)
(*                                                                         *)
(* Permits stay exact because a selection never promises more than is free *)
(* (Shares); a pool's saved-up share stays bounded because a round is only *)
(* added at zero; and no work is forgotten because, from the moment the    *)
(* store is read, a row or a pool the pass does not know of has left a     *)
(* notification behind (Watched).                                          *)
(***************************************************************************)
EXTENDS SchedulerKernel, TLAPS

USE SMTT(60)

Pending == moved \/ unsent > 0

Work(k) == ready[k] + later[k] > 0

\* What a pass has promised is still free, and only to pools it may claim from.
Shares ==
    /\ \A k \in Kinds : selected[k] + inFlight[k] <= PoolCap[k]
    /\ Sum(selected) + globalInFlight <= GlobalCap
    /\ pc \notin {"select", "claim", "failed"} => \A k \in Kinds : selected[k] = 0
    /\ \A k \in Kinds : selected[k] > 0 => k \in runnable

Watched ==
    \A k \in Kinds :
        /\ pc \in {"maintain", "select", "claim"} /\ Work(k) /\ due[k] = "none" => Pending
        /\ pc \in {"select", "claim"} /\ Runnable(k) /\ k \notin runnable => Pending
        /\ pc = "asleep" /\ Work(k) /\ Runnable(k) /\ CanDispatch(k) => Pending \/ k \in armed

IInv ==
    /\ TypeOK
    /\ AdmissionExact
    /\ Shares
    /\ DeficitBounded
    /\ Watched

-----------------------------------------------------------------------------
(* what a step of the loop's pools, and of the selector, does *)

LEMMA SetPoolType ==
    ASSUME TypeOK, NEW k \in Kinds, NEW state \in PoolStates, SetPool(k, state)
    PROVE  local' \in [Kinds -> PoolStates] /\ elapsed' \in [Kinds -> BOOLEAN]
<1>1. local' = [local EXCEPT ![k] = state] /\ elapsed' = [elapsed EXCEPT ![k] = FALSE]
  BY Zenon DEF SetPool
<1>2. local \in [Kinds -> PoolStates] /\ elapsed \in [Kinds -> BOOLEAN]
  BY Zenon DEF TypeOK
<1> HIDE DEF Kinds, PoolStates
<1> QED  BY <1>1, <1>2, Zenon

LEMMA FailPoolType ==
    ASSUME TypeOK, NEW k \in Kinds, NEW state \in PoolStates, FailPool(k, state)
    PROVE  /\ local' \in [Kinds -> PoolStates] /\ elapsed' \in [Kinds -> BOOLEAN]
           /\ published' \in [Kinds -> PoolStates \cup {"Paused", "Disabled"}]
<1>1. published' = [published EXCEPT ![k] = state]
  BY Zenon DEF FailPool
<1>2. published \in [Kinds -> PoolStates \cup {"Paused", "Disabled"}]
  BY Zenon DEF TypeOK
<1>3. published' \in [Kinds -> PoolStates \cup {"Paused", "Disabled"}]
  BY <1>1, <1>2, Zenon
<1> QED  BY <1>3, SetPoolType, Zenon DEF FailPool

\* Crediting a round leaves some candidate with a share.
LEMMA CreditedType ==
    ASSUME TypeOK, Candidates # {}
    PROVE  /\ Credited \in [Kinds -> Nat]
           /\ \E k \in Candidates : Credited[k] > 0
           /\ \A k \in Kinds : \/ Credited[k] = deficits[k]
                               \/ /\ k \in Candidates
                                  /\ deficits[k] = 0
                                  /\ Credited[k] = Weight[k]
<1>1. Candidates \subseteq Kinds
  BY Zenon DEF Candidates, TypeOK
<1>2. /\ deficits \in [Kinds -> Nat] /\ Weight \in [Kinds -> Nat \ {0}]
  BY ConfigAssumption, Zenon DEF TypeOK
<1> HIDE DEF Candidates, Kinds
<1>3. CASE \E k \in Candidates : deficits[k] > 0
  BY <1>1, <1>2, <1>3, Zenon DEF Credited
<1>4. CASE ~\E k \in Candidates : deficits[k] > 0
  <2>1. Credited = [k \in Kinds |-> IF k \in Candidates THEN deficits[k] + Weight[k]
                                    ELSE deficits[k]]
    BY <1>4, Zenon DEF Credited
  <2>2. \A k \in Candidates : deficits[k] = 0
    BY <1>1, <1>2, <1>4
  <2> QED  BY <1>1, <1>2, <2>1, <2>2
<1> QED  BY <1>3, <1>4, Zenon

\* The cursor finds such a candidate.
LEMMA Chosen ==
    ASSUME TypeOK, Candidates # {}
    PROVE  Next_with_deficit \in Candidates /\ Credited[Next_with_deficit] > 0
<1> DEFINE S == {k \in Candidates : Credited[k] > 0}
           Least(k) == \A j \in Candidates : Credited[j] > 0 => Distance(k) <= Distance(j)
<1>1. S # {} /\ S \subseteq Kinds
  BY CreditedType, Zenon DEF Candidates, TypeOK
<1>2. \A k \in Kinds : Distance(k) \in 0 .. 3
  BY DEF Distance, Kinds, TypeOK
<1>3. \A k \in S, j \in Candidates : Credited[j] > 0 => j \in S
  BY Zenon
<1>4. \E k \in S : \A j \in S : Distance(k) <= Distance(j)
  <2> HIDE DEF S, Distance
  <2>1. CASE \E k \in S : Distance(k) = 0
    BY <1>1, <1>2, <2>1
  <2>2. CASE (\A k \in S : Distance(k) # 0) /\ \E k \in S : Distance(k) = 1
    BY <1>1, <1>2, <2>2
  <2>3. CASE (\A k \in S : Distance(k) \notin {0, 1}) /\ \E k \in S : Distance(k) = 2
    BY <1>1, <1>2, <2>3
  <2>4. CASE \A k \in S : Distance(k) \notin {0, 1, 2}
    BY <1>1, <1>2, <2>4
  <2> QED  BY <2>1, <2>2, <2>3, <2>4, Zenon
<1>5. \E k \in Candidates : Credited[k] > 0 /\ Least(k)
  BY <1>4, Zenon
<1> QED  BY <1>5, Zenon DEF Next_with_deficit

-----------------------------------------------------------------------------
(* every step keeps the invariant *)

\* A new row leaves its notification.
LEMMA CommitRowInv ==
    ASSUME IInv, NEW k \in Enabled, CommitRow(k)
    PROVE  IInv'
<1> USE ConfigAssumption
    DEF IInv, Kinds, store, pools, admission, selector, pass, shared,
        CommitRow, Committed
<1>1. TypeOK'
  BY DEF TypeOK, PoolStates
<1>2. AdmissionExact'
  BY Zenon DEF TypeOK, AdmissionExact, Sum
<1>3. Shares'
  BY Zenon DEF TypeOK, AdmissionExact, Shares, Sum
<1>4. DeficitBounded'
  BY Zenon DEF TypeOK, DeficitBounded, Shares
<1>5. Watched'
  BY DEF TypeOK, Watched, Pending, Work, Runnable, CanDispatch, Available, AvailableGlobal
<1> QED  BY <1>1, <1>2, <1>3, <1>4, <1>5, Zenon DEF IInv

\* A row less.
LEMMA WithdrawRowInv ==
    ASSUME IInv, NEW k \in Enabled, WithdrawRow(k)
    PROVE  IInv'
<1> USE ConfigAssumption
    DEF IInv, Kinds, store, pools, admission, selector, pass, shared,
        WithdrawRow, Committed, Fault
<1>1. TypeOK'
  BY DEF TypeOK, PoolStates
<1>2. AdmissionExact'
  BY Zenon DEF TypeOK, AdmissionExact, Sum
<1>3. Shares'
  BY Zenon DEF TypeOK, AdmissionExact, Shares, Sum
<1>4. DeficitBounded'
  BY Zenon DEF TypeOK, DeficitBounded, Shares
<1>5. Watched'
  BY DEF TypeOK, Watched, Pending, Work, Runnable, CanDispatch, Available, AvailableGlobal
<1> QED  BY <1>1, <1>2, <1>3, <1>4, <1>5, Zenon DEF IInv

\* The pool has as much work as before.
LEMMA FallDueInv ==
    ASSUME IInv, NEW k \in Kinds, FallDue(k)
    PROVE  IInv'
<1> USE ConfigAssumption
    DEF IInv, Kinds, store, pools, admission, selector, pass, shared,
        FallDue
<1>1. TypeOK'
  BY DEF TypeOK, PoolStates
<1>2. AdmissionExact'
  BY Zenon DEF TypeOK, AdmissionExact, Sum
<1>3. Shares'
  BY Zenon DEF TypeOK, AdmissionExact, Shares, Sum
<1>4. DeficitBounded'
  BY Zenon DEF TypeOK, DeficitBounded, Shares
<1>5. Watched'
  BY DEF TypeOK, Watched, Pending, Work, Runnable, CanDispatch, Available, AvailableGlobal
<1> QED  BY <1>1, <1>2, <1>3, <1>4, <1>5, Zenon DEF IInv

\* A notification on its way becomes a moved generation.
LEMMA NotifyInv ==
    ASSUME IInv, Notify
    PROVE  IInv'
<1> USE ConfigAssumption
    DEF IInv, Kinds, store, pools, admission, selector, pass, shared,
        Notify
<1>1. TypeOK'
  BY DEF TypeOK, PoolStates
<1>2. AdmissionExact'
  BY Zenon DEF TypeOK, AdmissionExact, Sum
<1>3. Shares'
  BY Zenon DEF TypeOK, AdmissionExact, Shares, Sum
<1>4. DeficitBounded'
  BY Zenon DEF TypeOK, DeficitBounded, Shares
<1>5. Watched'
  BY Zenon DEF TypeOK, Watched, Pending, Work, Runnable, CanDispatch, Available, AvailableGlobal
<1> QED  BY <1>1, <1>2, <1>3, <1>4, <1>5, Zenon DEF IInv

\* No pool is runnable.
LEMMA PauseInv ==
    ASSUME IInv, Pause
    PROVE  IInv'
<1> USE ConfigAssumption
    DEF IInv, Kinds, store, pools, admission, selector, pass, shared,
        Pause, Committed, Fault
<1>1. TypeOK'
  BY DEF TypeOK, PoolStates
<1>2. AdmissionExact'
  BY Zenon DEF TypeOK, AdmissionExact, Sum
<1>3. Shares'
  BY Zenon DEF TypeOK, AdmissionExact, Shares, Sum
<1>4. DeficitBounded'
  BY Zenon DEF TypeOK, DeficitBounded, Shares
<1>5. Watched'
  BY DEF TypeOK, Watched, Pending, Work, Runnable, CanDispatch, Available, AvailableGlobal
<1> QED  BY <1>1, <1>2, <1>3, <1>4, <1>5, Zenon DEF IInv

\* Pools that are runnable again leave a notification.
LEMMA ResumeInv ==
    ASSUME IInv, Resume
    PROVE  IInv'
<1> USE ConfigAssumption
    DEF IInv, Kinds, store, pools, admission, selector, pass, shared,
        Resume, Committed
<1>1. TypeOK'
  <2>1. unsent' \in Nat
    BY DEF TypeOK
  <2>2. paused' \in BOOLEAN
    BY Zenon
  <2> QED  BY <2>1, <2>2, Zenon DEF TypeOK
<1>2. AdmissionExact'
  BY Zenon DEF TypeOK, AdmissionExact, Sum
<1>3. Shares'
  BY Zenon DEF TypeOK, AdmissionExact, Shares, Sum
<1>4. DeficitBounded'
  BY Zenon DEF TypeOK, DeficitBounded, Shares
<1>5. Watched'
  BY DEF TypeOK, Watched, Pending, Work, Runnable, CanDispatch, Available, AvailableGlobal
<1> QED  BY <1>1, <1>2, <1>3, <1>4, <1>5, Zenon DEF IInv

\* Only the published state changes.
LEMMA RepairAndProbeInv ==
    ASSUME IInv, RepairAndProbe
    PROVE  IInv'
<1> USE ConfigAssumption
    DEF IInv, Kinds, store, pools, admission, selector, pass, shared,
        RepairAndProbe, Committed, Fault
<1>1. TypeOK'
  BY DEF TypeOK, PoolStates
<1>2. AdmissionExact'
  BY Zenon DEF TypeOK, AdmissionExact, Sum
<1>3. Shares'
  BY Zenon DEF TypeOK, AdmissionExact, Shares, Sum
<1>4. DeficitBounded'
  BY Zenon DEF TypeOK, DeficitBounded, Shares
<1>5. Watched'
  BY DEF TypeOK, Watched, Pending, Work, Runnable, CanDispatch, Available, AvailableGlobal
<1> QED  BY <1>1, <1>2, <1>3, <1>4, <1>5, Zenon DEF IInv

\* Only the flag changes.
LEMMA ShutdownInv ==
    ASSUME IInv, Shutdown
    PROVE  IInv'
<1> USE ConfigAssumption
    DEF IInv, Kinds, store, pools, admission, selector, pass, shared,
        Shutdown
<1>1. TypeOK'
  BY Zenon DEF TypeOK, PoolStates
<1>2. AdmissionExact'
  BY Zenon DEF TypeOK, AdmissionExact, Sum
<1>3. Shares'
  BY Zenon DEF TypeOK, AdmissionExact, Shares, Sum
<1>4. DeficitBounded'
  BY Zenon DEF TypeOK, DeficitBounded, Shares
<1>5. Watched'
  BY Zenon DEF TypeOK, Watched, Pending, Work, Runnable, CanDispatch, Available, AvailableGlobal
<1> QED  BY <1>1, <1>2, <1>3, <1>4, <1>5, Zenon DEF IInv

\* The pool stays in backoff until the next pass.
LEMMA RetryAtPassesInv ==
    ASSUME IInv, NEW k \in Kinds, RetryAtPasses(k)
    PROVE  IInv'
<1> USE ConfigAssumption
    DEF IInv, Kinds, store, pools, admission, selector, pass, shared,
        RetryAtPasses
<1>1. TypeOK'
  BY ZenonT(60) DEF TypeOK, PoolStates
<1>2. AdmissionExact'
  BY Zenon DEF TypeOK, AdmissionExact, Sum
<1>3. Shares'
  BY Zenon DEF TypeOK, AdmissionExact, Shares, Sum
<1>4. DeficitBounded'
  BY Zenon DEF TypeOK, DeficitBounded, Shares
<1>5. Watched'
  BY Zenon DEF TypeOK, Watched, Pending, Work, Runnable, CanDispatch, Available, AvailableGlobal
<1> QED  BY <1>1, <1>2, <1>3, <1>4, <1>5, Zenon DEF IInv

\* The permit is held until the task is joined.
LEMMA TaskEndsInv ==
    ASSUME IInv, NEW k \in Kinds, TaskEnds(k)
    PROVE  IInv'
<1> USE ConfigAssumption
    DEF IInv, Kinds, store, pools, admission, selector, pass, shared,
        TaskEnds, TaskLeaves
<1>1. TypeOK'
  BY DEF TypeOK, PoolStates
<1>2. AdmissionExact'
  BY DEF TypeOK, AdmissionExact, Sum
<1>3. Shares'
  BY Zenon DEF TypeOK, AdmissionExact, Shares, Sum
<1>4. DeficitBounded'
  BY Zenon DEF TypeOK, DeficitBounded, Shares
<1>5. Watched'
  BY Zenon DEF TypeOK, Watched, Pending, Work, Runnable, CanDispatch, Available, AvailableGlobal
<1> QED  BY <1>1, <1>2, <1>3, <1>4, <1>5, Zenon DEF IInv

\* The permit is held until the task is joined.
LEMMA TaskUnknownInv ==
    ASSUME IInv, TaskUnknown
    PROVE  IInv'
<1> USE ConfigAssumption
    DEF IInv, Kinds, store, pools, admission, selector, pass, shared,
        TaskUnknown, TaskLeaves, WorkflowUnknown, Committed, Workflow, Minimum
<1>1. TypeOK'
  BY DEF TypeOK, PoolStates
<1>2. AdmissionExact'
  BY DEF TypeOK, AdmissionExact, Sum
<1>3. Shares'
  BY Zenon DEF TypeOK, AdmissionExact, Shares, Sum
<1>4. DeficitBounded'
  BY Zenon DEF TypeOK, DeficitBounded, Shares
<1>5. Watched'
  BY DEF TypeOK, Watched, Pending, Work, Runnable, CanDispatch, Available, AvailableGlobal
<1> QED  BY <1>1, <1>2, <1>3, <1>4, <1>5, Zenon DEF IInv

\* A probe holds no permit.
LEMMA ReconcileEndsInv ==
    ASSUME IInv, ReconcileEnds
    PROVE  IInv'
<1> USE ConfigAssumption
    DEF IInv, Kinds, store, pools, admission, selector, pass, shared,
        ReconcileEnds, WorkflowUnknown, Committed, Workflow, Minimum
<1>1. TypeOK'
  BY DEF TypeOK, PoolStates
<1>2. AdmissionExact'
  BY Zenon DEF TypeOK, AdmissionExact, Sum
<1>3. Shares'
  BY Zenon DEF TypeOK, AdmissionExact, Shares, Sum
<1>4. DeficitBounded'
  BY Zenon DEF TypeOK, DeficitBounded, Shares
<1>5. Watched'
  BY DEF TypeOK, Watched, Pending, Work, Runnable, CanDispatch, Available, AvailableGlobal
<1> QED  BY <1>1, <1>2, <1>3, <1>4, <1>5, Zenon DEF IInv

\* Joining the tasks that ended frees exactly their permits.
LEMMA TopInv ==
    ASSUME IInv, Top
    PROVE  IInv'
<1> USE ConfigAssumption
    DEF IInv, Kinds, store, pools, admission, selector, pass, shared,
        Top, Reap, Observe, Refreshed, Workflow
<1>1. TypeOK'
  <2>1. \A k \in Kinds : ended[k] \in Nat /\ inFlight[k] \in Nat /\ ended[k] <= inFlight[k]
    BY DEF TypeOK, AdmissionExact
  <2>2. globalInFlight' \in Nat
    BY <2>1 DEF TypeOK, AdmissionExact, Sum
  <2>3. inFlight' \in [Kinds -> Nat] /\ ended' \in [Kinds -> Nat]
    BY <2>1 DEF None
  <2>4. \A k \in Kinds : Refreshed(k) \in PoolStates
    BY Zenon DEF TypeOK, PoolStates
  <2>5. local' \in [Kinds -> PoolStates] /\ elapsed' \in [Kinds -> BOOLEAN]
    <3> HIDE DEF Refreshed, PoolStates
    <3>1. CASE shutdown
      BY <3>1, Zenon DEF TypeOK
    <3>2. CASE ~shutdown
      <4>1. /\ local' = [k \in Kinds |-> Refreshed(k)]
            /\ elapsed' = [k \in Kinds |-> elapsed[k] /\ Refreshed(k) = "Backoff"]
        BY <3>2, Zenon
      <4> QED  BY <2>4, <4>1, Zenon
    <3> QED  BY <3>1, <3>2, Zenon
  <2>6. moved' \in BOOLEAN /\ reconcile' \in {"none", "running", "ended"}
    BY Zenon DEF TypeOK
  <2>7. pc' \in {"drain", "publish"}
    BY Zenon
  <2> QED  BY <2>2, <2>3, <2>5, <2>6, <2>7, Zenon DEF TypeOK
<1>2. AdmissionExact'
  <2>1. \A k \in Kinds : /\ inFlight'[k] = tasks[k] /\ ended'[k] = 0
                         /\ inFlight'[k] <= inFlight[k]
    BY DEF TypeOK, AdmissionExact, None
  <2>2. globalInFlight' = Sum(tasks) /\ globalInFlight' <= globalInFlight
    BY DEF TypeOK, AdmissionExact, Sum
  <2>3. tasks' = tasks /\ pc' \in {"drain", "publish"} /\ pc = "top"
    BY Zenon
  <2> HIDE DEF Top, Reap
  <2> QED  BY <2>1, <2>2, <2>3 DEF TypeOK, AdmissionExact, Sum
<1>3. Shares'
  <2>1. \A k \in Kinds : selected[k] = 0 /\ selected'[k] = 0
    BY Zenon DEF Shares
  <2>2. AdmissionExact' /\ TypeOK' /\ pc' \in {"drain", "publish"}
    BY <1>1, <1>2, Zenon
  <2> HIDE DEF Top, Reap
  <2> QED  BY <2>1, <2>2 DEF TypeOK, AdmissionExact, Shares, Sum
<1>4. DeficitBounded'
  BY Zenon DEF TypeOK, DeficitBounded, Shares
<1>5. Watched'
  BY Zenon DEF TypeOK, Watched, Pending, Work, Runnable, CanDispatch, Available, AvailableGlobal
<1> QED  BY <1>1, <1>2, <1>3, <1>4, <1>5, Zenon DEF IInv

\* Nothing of the store is read yet.
LEMMA PublishInv ==
    ASSUME IInv, Publish
    PROVE  IInv'
<1> USE ConfigAssumption
    DEF IInv, Kinds, store, pools, admission, selector, pass, shared,
        Publish, SetPool, Fault, Workflow
<1>1. TypeOK'
  <2> DEFINE states == [k \in Kinds |-> IF k \notin Enabled THEN "Disabled"
                                       ELSE IF paused THEN "Paused" ELSE local[k]]
  <2>1. states \in [Kinds -> PoolStates \cup {"Paused", "Disabled"}]
    BY Zenon DEF TypeOK
  <2>2. CASE UNCHANGED <<pools, faults>> /\ published' = states
    BY <2>1, <2>2, Zenon DEF TypeOK
  <2>3. CASE /\ Fault
             /\ SetPool(Workflow, "CircuitOpen")
             /\ published' = [states EXCEPT ![Workflow] = "CircuitOpen"]
    <3>1. Workflow \in Kinds /\ "CircuitOpen" \in PoolStates
      BY DEF PoolStates
    <3>2. local' \in [Kinds -> PoolStates] /\ elapsed' \in [Kinds -> BOOLEAN]
      BY <2>3, <3>1, SetPoolType, Zenon
    <3>3. published' \in [Kinds -> PoolStates \cup {"Paused", "Disabled"}]
      <4> HIDE DEF states, Kinds, PoolStates, Workflow
      <4> QED  BY <2>1, <2>3, <3>1, Zenon
    <3>4. faults' \in Nat
      BY <2>3 DEF TypeOK
    <3>5. reconcile' \in {"none", "running", "ended"} /\ pc' = "summary"
      BY Zenon DEF TypeOK
    <3> QED  BY <3>2, <3>3, <3>4, <3>5, Zenon DEF TypeOK
  <2> QED  BY <2>2, <2>3, Zenon
<1>2. AdmissionExact'
  BY Zenon DEF TypeOK, AdmissionExact, Sum
<1>3. Shares'
  BY Zenon DEF TypeOK, AdmissionExact, Shares, Sum
<1>4. DeficitBounded'
  BY Zenon DEF TypeOK, DeficitBounded, Shares
<1>5. Watched'
  BY Zenon DEF TypeOK, Watched, Pending, Work, Runnable, CanDispatch, Available, AvailableGlobal
<1> QED  BY <1>1, <1>2, <1>3, <1>4, <1>5, Zenon DEF IInv

\* Every row the store holds gives its pool a due time.
LEMMA SummaryInv ==
    ASSUME IInv, Summary
    PROVE  IInv'
<1> USE ConfigAssumption
    DEF IInv, Kinds, store, pools, admission, selector, pass, shared,
        Summary, DueTimes, Queue
<1>1. TypeOK'
  BY Zenon DEF TypeOK, PoolStates
<1>2. AdmissionExact'
  BY Zenon DEF TypeOK, AdmissionExact, Sum
<1>3. Shares'
  BY Zenon DEF TypeOK, AdmissionExact, Shares, Sum
<1>4. DeficitBounded'
  BY Zenon DEF TypeOK, DeficitBounded, Shares
<1>5. Watched'
  BY DEF TypeOK, Watched, Pending, Work, Runnable, CanDispatch, Available, AvailableGlobal
<1> QED  BY <1>1, <1>2, <1>3, <1>4, <1>5, Zenon DEF IInv

\* Every runnable pool takes part in the pass.
LEMMA MaintainInv ==
    ASSUME IInv, Maintain
    PROVE  IInv'
<1> USE ConfigAssumption
    DEF IInv, Kinds, store, pools, admission, selector, pass, shared,
        Maintain, FailPool, SetPool, Fault, Queue
<1>1. TypeOK'
  <2>1. runnable' \subseteq Kinds /\ pc' \in {"select", "claim"}
    BY Zenon
  <2>2. CASE UNCHANGED <<pools, published, faults>>
    BY <2>1, <2>2, Zenon DEF TypeOK
  <2>3. CASE Fault /\ \E state \in {"Backoff", "CircuitOpen"} : FailPool(Queue, state)
    <3>1. Queue \in Kinds /\ {"Backoff", "CircuitOpen"} \subseteq PoolStates
      BY DEF PoolStates
    <3> HIDE DEF FailPool
    <3>2. /\ local' \in [Kinds -> PoolStates] /\ elapsed' \in [Kinds -> BOOLEAN]
          /\ published' \in [Kinds -> PoolStates \cup {"Paused", "Disabled"}]
      BY <2>3, <3>1, FailPoolType, Zenon
    <3>3. faults' \in Nat
      BY <2>3 DEF TypeOK
    <3> QED  BY <2>1, <3>2, <3>3, Zenon DEF TypeOK
  <2> QED  BY <2>2, <2>3, Zenon
<1>2. AdmissionExact'
  BY Zenon DEF TypeOK, AdmissionExact, Sum
<1>3. Shares'
  <2>1. /\ \A k \in Kinds : selected'[k] = 0
        /\ inFlight' = inFlight /\ globalInFlight' = globalInFlight
        /\ selected' = selected
    BY Zenon DEF Shares
  <2> HIDE DEF Maintain
  <2> QED  BY <2>1 DEF Shares, Sum
<1>4. DeficitBounded'
  BY Zenon DEF TypeOK, DeficitBounded, Shares
<1>5. Watched'
  BY DEF TypeOK, Watched, Pending, Work, Runnable, CanDispatch, Available, AvailableGlobal
<1> QED  BY <1>1, <1>2, <1>3, <1>4, <1>5, Zenon DEF IInv

\* A turn takes a permit that is free and a share that was credited.
LEMMA SelectInv ==
    ASSUME IInv, Select
    PROVE  IInv'
<1> DEFINE k == Next_with_deficit
<1>1. /\ k \in Candidates /\ Credited[k] > 0
      /\ Credited \in [Kinds -> Nat]
      /\ \A j \in Kinds : \/ Credited[j] = deficits[j]
                          \/ deficits[j] = 0 /\ j \in Candidates /\ Credited[j] = Weight[j]
  BY Chosen, CreditedType, Zenon DEF Select, IInv
<1>2. /\ deficits' = [Credited EXCEPT ![k] = @ - 1]
      /\ selected' = [selected EXCEPT ![k] = @ + 1]
      /\ cursor' = (k + 1) % 4
      /\ UNCHANGED <<pc, store, unsent, moved, shared, pools, published, tasks, ended,
                     admission, seen, due, runnable, armed, faults>>
      /\ pc = "select" /\ Sum(selected) < AvailableGlobal
  BY Zenon DEF Select
<1>3. /\ k \in Kinds /\ k \in runnable
      /\ \A j \in Candidates : Available(j) > selected[j]
  BY <1>1, Zenon DEF Candidates, IInv, TypeOK
<1>4. TypeOK /\ AdmissionExact /\ Shares /\ DeficitBounded /\ Watched
  BY Zenon DEF IInv
<1> HIDE DEF k, Candidates, Credited, Next_with_deficit
<1> USE ConfigAssumption DEF Kinds, store, pools, admission, selector, pass, shared
<1>5. TypeOK'
  <2>1. deficits' \in [Kinds -> Nat] /\ selected' \in [Kinds -> Nat]
    BY <1>1, <1>2, <1>3, <1>4 DEF TypeOK
  <2>2. cursor' \in Kinds
    BY <1>2, <1>3
  <2> QED  BY <1>2, <1>4, <2>1, <2>2, Zenon DEF TypeOK
<1>6. AdmissionExact'
  BY <1>2, <1>4, Zenon DEF AdmissionExact
<1>7. Shares'
  <2>1. \A j \in Kinds : selected'[j] = IF j = k THEN selected[j] + 1 ELSE selected[j]
    BY <1>2, <1>3, <1>4, Zenon DEF TypeOK
  <2>2. Sum(selected') = Sum(selected) + 1
    BY <1>3, <1>4, <2>1 DEF Sum, TypeOK
  <2>3. selected'[k] + inFlight[k] <= PoolCap[k]
    BY <1>1, <1>3, <1>4, <2>1 DEF Available, TypeOK
  <2>4. Sum(selected') + globalInFlight <= GlobalCap
    BY <1>2, <1>4, <2>2 DEF AvailableGlobal, TypeOK, Sum
  <2>5. \A j \in Kinds : selected'[j] + inFlight'[j] <= PoolCap[j]
    BY <1>2, <1>4, <2>1, <2>3, Zenon DEF Shares
  <2>6. \A j \in Kinds : selected'[j] > 0 => j \in runnable'
    BY <1>2, <1>3, <1>4, <2>1, Zenon DEF Shares
  <2> QED  BY <1>2, <2>4, <2>5, <2>6, Zenon DEF Shares
<1>8. DeficitBounded'
  <2>1. \A j \in Kinds : selected'[j] = IF j = k THEN selected[j] + 1 ELSE selected[j]
    BY <1>2, <1>3, <1>4, Zenon DEF TypeOK
  <2>2. \A j \in Kinds : deficits'[j] = IF j = k THEN Credited[j] - 1 ELSE Credited[j]
    BY <1>1, <1>2, <1>3, Zenon
  <2>3. \A j \in Candidates : selected[j] < Minimum(PoolCap[j], GlobalCap)
    <3> SUFFICES ASSUME NEW j \in Candidates
                 PROVE  selected[j] < Minimum(PoolCap[j], GlobalCap)
      OBVIOUS
    <3>1. j \in Kinds /\ selected[j] < PoolCap[j] - inFlight[j]
      BY <1>3, <1>4, Zenon DEF Available, Candidates, TypeOK
    <3>2. Sum(selected) < GlobalCap - globalInFlight
      BY <1>2, Zenon DEF AvailableGlobal
    <3> QED  BY <1>4, <3>1, <3>2 DEF TypeOK, Sum, Minimum
  <2> QED  BY <1>1, <1>3, <1>4, <2>1, <2>2, <2>3 DEF DeficitBounded, TypeOK, Minimum
<1>9. Watched'
  BY <1>2, <1>4, Zenon DEF Watched, Pending, Work, Runnable, CanDispatch, Available, AvailableGlobal
<1> QED  BY <1>5, <1>6, <1>7, <1>8, <1>9, Zenon DEF IInv

\* The selection is over.
LEMMA SelectedInv ==
    ASSUME IInv, Selected
    PROVE  IInv'
<1> USE ConfigAssumption
    DEF IInv, Kinds, store, pools, admission, selector, pass, shared,
        Selected
<1>1. TypeOK'
  BY Zenon DEF TypeOK, PoolStates
<1>2. AdmissionExact'
  BY Zenon DEF TypeOK, AdmissionExact, Sum
<1>3. Shares'
  BY Zenon DEF TypeOK, AdmissionExact, Shares, Sum
<1>4. DeficitBounded'
  BY Zenon DEF TypeOK, DeficitBounded, Shares
<1>5. Watched'
  BY Zenon DEF TypeOK, Watched, Pending, Work, Runnable, CanDispatch, Available, AvailableGlobal
<1> QED  BY <1>1, <1>2, <1>3, <1>4, <1>5, Zenon DEF IInv

\* What comes back is within what was promised.
LEMMA ClaimInv ==
    ASSUME IInv, NEW k \in Kinds, NEW jobs \in 0 .. MaxRows, NEW deferred \in 0 .. MaxRows,
           Claim(k, jobs, deferred)
    PROVE  IInv'
<1> USE ConfigAssumption DEF Kinds, store, pools, admission, selector, pass, shared
<1>1. TypeOK /\ AdmissionExact /\ Shares /\ DeficitBounded /\ Watched
  BY Zenon DEF IInv
<1>2. /\ pc = "claim" /\ selected[k] > 0
      /\ Found(k, jobs, deferred) /\ Refund(k, jobs) /\ Reserve(k, jobs)
      /\ selected' = [selected EXCEPT ![k] = 0]
      /\ UNCHANGED <<unsent, moved, shared, ended, cursor, seen, due, runnable, armed, faults>>
  BY Zenon DEF Claim, Turn
<1>3. jobs \in Nat /\ deferred \in Nat /\ jobs <= Asked(k) /\ jobs + deferred <= ready[k]
  BY <1>1, <1>2 DEF Found, Minimum, Asked, TypeOK
<1>4. Asked(k) \in Nat /\ Asked(k) <= selected[k]
  BY <1>1 DEF Asked, Minimum, TypeOK
<1>5. /\ \A j \in Kinds : ready'[j] = IF j = k THEN ready[j] - jobs - deferred ELSE ready[j]
      /\ \A j \in Kinds : later'[j] = IF j = k THEN later[j] + deferred ELSE later[j]
      /\ ready' \in [Kinds -> Nat] /\ later' \in [Kinds -> Nat]
  BY <1>1, <1>2, <1>3 DEF Found, TypeOK
<1>6. /\ \A j \in Kinds : selected'[j] = IF j = k THEN 0 ELSE selected[j]
      /\ selected' \in [Kinds -> Nat]
  BY <1>1, <1>2, Zenon DEF TypeOK
<1>7. /\ \A j \in Kinds : deficits'[j] = IF j = k THEN deficits[j] + (Asked(k) - jobs) ELSE deficits[j]
      /\ deficits' \in [Kinds -> Nat]
  BY <1>1, <1>2, <1>3, <1>4 DEF Refund, TypeOK
<1>8. jobs <= Available(k) /\ jobs <= AvailableGlobal
  <2>1. /\ selected[k] + inFlight[k] <= PoolCap[k]
        /\ Sum(selected) + globalInFlight <= GlobalCap
    BY <1>1, Zenon DEF Shares
  <2>2. selected[k] <= Sum(selected) /\ Sum(selected) \in Nat
    BY <1>1 DEF Sum, TypeOK
  <2>3. /\ selected[k] \in Nat /\ inFlight[k] \in Nat /\ globalInFlight \in Nat
        /\ PoolCap[k] \in Nat /\ GlobalCap \in Nat
    BY <1>1, Zenon DEF TypeOK
  <2> QED  BY <1>3, <1>4, <2>1, <2>2, <2>3 DEF Available, AvailableGlobal
<1>9. /\ inFlight' = [inFlight EXCEPT ![k] = @ + jobs]
      /\ globalInFlight' = globalInFlight + jobs
      /\ tasks' = [tasks EXCEPT ![k] = @ + jobs]
      /\ pc' = "claim"
  BY <1>1, <1>2, <1>3, <1>8 DEF Reserve, Available, AvailableGlobal, TypeOK
<1>10. /\ \A j \in Kinds : inFlight'[j] = IF j = k THEN inFlight[j] + jobs ELSE inFlight[j]
       /\ \A j \in Kinds : tasks'[j] = IF j = k THEN tasks[j] + jobs ELSE tasks[j]
       /\ inFlight' \in [Kinds -> Nat] /\ tasks' \in [Kinds -> Nat] /\ globalInFlight' \in Nat
  BY <1>1, <1>3, <1>9 DEF TypeOK
<1>11. TypeOK'
  <2>1. local' \in [Kinds -> PoolStates] /\ elapsed' \in [Kinds -> BOOLEAN]
    <3>1. CASE k = Alarm
      BY <1>1, <3>1, Zenon DEF Claim, TypeOK
    <3>2. CASE k # Alarm
      <4>1. SetPool(k, "Ready") /\ "Ready" \in PoolStates
        BY <3>2, Zenon DEF Claim, PoolStates
      <4> QED  BY <1>1, <4>1, SetPoolType, Zenon
    <3> QED  BY <3>1, <3>2, Zenon
  <2>2. published' \in [Kinds -> PoolStates \cup {"Paused", "Disabled"}]
    <3>1. published' = published \/ published' = [published EXCEPT ![k] = "Ready"]
      BY Zenon DEF Claim
    <3>2. "Ready" \in PoolStates
      BY Zenon DEF PoolStates
    <3>3. published \in [Kinds -> PoolStates \cup {"Paused", "Disabled"}]
      BY <1>1, Zenon DEF TypeOK
    <3> HIDE DEF Kinds, PoolStates
    <3>4. [published EXCEPT ![k] = "Ready"] \in [Kinds -> PoolStates \cup {"Paused", "Disabled"}]
      BY <3>2, <3>3, Zenon
    <3> QED  BY <3>1, <3>3, <3>4, Zenon
  <2> QED  BY <1>1, <1>2, <1>5, <1>6, <1>7, <1>9, <1>10, <2>1, <2>2, Zenon DEF TypeOK
<1>12. AdmissionExact'
  <2>1. ended' = ended
    BY <1>2, Zenon
  <2> QED  BY <1>1, <1>2, <1>3, <1>8, <1>9, <1>10, <2>1
           DEF AdmissionExact, Available, AvailableGlobal, Sum, TypeOK
<1>13. Shares'
  <2>1. \A j \in Kinds : selected'[j] + inFlight'[j] <= selected[j] + inFlight[j]
    BY <1>1, <1>3, <1>4, <1>6, <1>10 DEF TypeOK
  <2>2. Sum(selected') + globalInFlight' <= Sum(selected) + globalInFlight
    BY <1>1, <1>3, <1>4, <1>6, <1>9 DEF Sum, TypeOK
  <2>3. \A j \in Kinds : selected'[j] > 0 => j \in runnable'
    BY <1>1, <1>2, <1>6, Zenon DEF Shares
  <2>4. \A j \in Kinds : selected'[j] + inFlight'[j] <= PoolCap[j]
    BY <1>1, <1>6, <1>10, <2>1 DEF Shares, TypeOK
  <2>5. Sum(selected') + globalInFlight' <= GlobalCap
    BY <1>1, <1>6, <1>10, <2>2 DEF Shares, Sum, TypeOK
  <2> QED  BY <1>9, <2>3, <2>4, <2>5, Zenon DEF Shares
<1>14. DeficitBounded'
  <2>1. \A j \in Kinds : deficits'[j] + selected'[j] <= deficits[j] + selected[j]
    BY <1>1, <1>3, <1>4, <1>6, <1>7 DEF TypeOK
  <2> QED  BY <1>1, <1>6, <1>7, <2>1 DEF DeficitBounded, TypeOK, Minimum
<1>15. Watched'
  <2>1. \A j \in Kinds : Work(j)' => Work(j)
    BY <1>1, <1>3, <1>5 DEF Work, TypeOK
  <2>2. \A j \in Kinds : Runnable(j)' => Runnable(j) \/ j = k
    <3>1. local' = local \/ local' = [local EXCEPT ![k] = "Ready"]
      BY Zenon DEF Claim, SetPool
    <3> QED  BY <1>1, <1>2, <3>1, Zenon DEF Runnable, TypeOK
  <2>3. k \in runnable
    BY <1>1, <1>2, Zenon DEF Shares
  <2> QED  BY <1>1, <1>2, <1>9, <2>1, <2>2, <2>3, Zenon DEF Watched, Pending
<1> QED  BY <1>11, <1>12, <1>13, <1>14, <1>15, Zenon DEF IInv

\* The pool that failed is not runnable.
LEMMA ClaimFailsInv ==
    ASSUME IInv, NEW k \in Kinds, ClaimFails(k)
    PROVE  IInv'
<1> USE ConfigAssumption DEF Kinds, store, pools, admission, selector, pass, shared
<1>1. TypeOK /\ AdmissionExact /\ Shares /\ DeficitBounded /\ Watched
  BY Zenon DEF IInv
<1>2. PICK state \in {"Backoff", "CircuitOpen"} : FailPool(k, state)
  BY Zenon DEF ClaimFails
<1>3. /\ pc = "claim" /\ Fault
      /\ selected' = [selected EXCEPT ![k] = 0]
      /\ UNCHANGED <<pc, store, unsent, moved, shared, tasks, ended, admission, selector,
                     seen, due, runnable, armed>>
  BY Zenon DEF ClaimFails
<1>4. /\ \A j \in Kinds : selected'[j] = IF j = k THEN 0 ELSE selected[j]
      /\ selected' \in [Kinds -> Nat]
  BY <1>1, <1>3, Zenon DEF TypeOK
<1>5. TypeOK'
  <2>1. state \in PoolStates
    BY Zenon DEF PoolStates
  <2>2. faults' \in Nat
    BY <1>1, <1>3 DEF Fault, TypeOK
  <2>3. /\ local' \in [Kinds -> PoolStates] /\ elapsed' \in [Kinds -> BOOLEAN]
        /\ published' \in [Kinds -> PoolStates \cup {"Paused", "Disabled"}]
    BY <1>1, <1>2, <2>1, FailPoolType, Zenon
  <2> QED  BY <1>1, <1>3, <1>4, <2>2, <2>3, Zenon DEF TypeOK
<1>6. AdmissionExact'
  BY <1>1, <1>3, Zenon DEF AdmissionExact
<1>7. Shares'
  <2>1. \A j \in Kinds : selected'[j] <= selected[j]
    BY <1>1, <1>4 DEF TypeOK
  <2>2. inFlight' = inFlight /\ globalInFlight' = globalInFlight /\ runnable' = runnable /\ pc' = pc
    BY <1>3, Zenon
  <2> QED  BY <1>1, <1>3, <1>4, <2>1, <2>2 DEF Shares, Sum, TypeOK
<1>8. DeficitBounded'
  <2>1. deficits' = deficits
    BY <1>3, Zenon
  <2> QED  BY <1>1, <1>4, <2>1 DEF DeficitBounded, TypeOK, Minimum
<1>9. Watched'
  <2>1. \A j \in Kinds : Runnable(j)' => Runnable(j)
    <3>1. local' = [local EXCEPT ![k] = state] /\ paused' = paused
      BY <1>2, <1>3, Zenon DEF FailPool, SetPool
    <3> QED  BY <1>1, <3>1, Zenon DEF Runnable, TypeOK
  <2>2. \A j \in Kinds : Work(j)' <=> Work(j)
    BY <1>3, Zenon DEF Work
  <2> QED  BY <1>1, <1>3, <2>1, <2>2, Zenon DEF Watched, Pending
<1> QED  BY <1>5, <1>6, <1>7, <1>8, <1>9, Zenon DEF IInv

\* The loop is over.
LEMMA StoreCorruptInv ==
    ASSUME IInv, StoreCorrupt
    PROVE  IInv'
<1> USE ConfigAssumption
    DEF IInv, Kinds, store, pools, admission, selector, pass, shared,
        StoreCorrupt, Fault, None
<1>1. TypeOK'
  BY DEF TypeOK, PoolStates
<1>2. AdmissionExact'
  BY Zenon DEF TypeOK, AdmissionExact, Sum
<1>3. Shares'
  BY Zenon DEF TypeOK, AdmissionExact, Shares, Sum
<1>4. DeficitBounded'
  BY Zenon DEF DeficitBounded
<1>5. Watched'
  BY Zenon DEF TypeOK, Watched, Pending, Work, Runnable, CanDispatch, Available, AvailableGlobal
<1> QED  BY <1>1, <1>2, <1>3, <1>4, <1>5, Zenon DEF IInv

\* A pool with work it could dispatch has its due time armed.
LEMMA DeadlinesInv ==
    ASSUME IInv, Deadlines
    PROVE  IInv'
<1> USE ConfigAssumption
    DEF IInv, Kinds, store, pools, admission, selector, pass, shared,
        Deadlines, None
<1>1. TypeOK'
  <2>1. due' \in [Kinds -> {"none", "now", "later"}]
    BY Zenon
  <2>2. armed' \subseteq Kinds /\ seen' \subseteq Kinds /\ runnable' \subseteq Kinds
    BY Zenon DEF TypeOK
  <2> QED  BY <2>1, <2>2, Zenon DEF TypeOK
<1>2. AdmissionExact'
  BY Zenon DEF TypeOK, AdmissionExact, Sum
<1>3. Shares'
  BY DEF TypeOK, AdmissionExact, Shares, Sum
<1>4. DeficitBounded'
  BY Zenon DEF TypeOK, DeficitBounded, Shares
<1>5. Watched'
  BY Zenon DEF TypeOK, Watched, Pending, Work, Runnable, CanDispatch, Available, AvailableGlobal
<1> QED  BY <1>1, <1>2, <1>3, <1>4, <1>5, Zenon DEF IInv

LEMMA WakeNotifiedInv ==
    ASSUME IInv, WakeNotified
    PROVE  IInv'
<1> USE ConfigAssumption
    DEF IInv, Kinds, store, pools, admission, selector, pass, shared,
        WakeNotified, Awake
<1>1. TypeOK'
  BY Zenon DEF TypeOK, PoolStates
<1>2. AdmissionExact'
  BY Zenon DEF TypeOK, AdmissionExact, Sum
<1>3. Shares'
  BY Zenon DEF TypeOK, AdmissionExact, Shares, Sum
<1>4. DeficitBounded'
  BY Zenon DEF TypeOK, DeficitBounded, Shares
<1>5. Watched'
  BY Zenon DEF TypeOK, Watched, Pending, Work, Runnable, CanDispatch, Available, AvailableGlobal
<1> QED  BY <1>1, <1>2, <1>3, <1>4, <1>5, Zenon DEF IInv

LEMMA WakeDueInv ==
    ASSUME IInv, NEW k \in Kinds, WakeDue(k)
    PROVE  IInv'
<1> USE ConfigAssumption
    DEF IInv, Kinds, store, pools, admission, selector, pass, shared,
        WakeDue, Awake
<1>1. TypeOK'
  BY Zenon DEF TypeOK, PoolStates
<1>2. AdmissionExact'
  BY Zenon DEF TypeOK, AdmissionExact, Sum
<1>3. Shares'
  BY Zenon DEF TypeOK, AdmissionExact, Shares, Sum
<1>4. DeficitBounded'
  BY Zenon DEF TypeOK, DeficitBounded, Shares
<1>5. Watched'
  BY Zenon DEF TypeOK, Watched, Pending, Work, Runnable, CanDispatch, Available, AvailableGlobal
<1> QED  BY <1>1, <1>2, <1>3, <1>4, <1>5, Zenon DEF IInv

LEMMA WakeBackoffInv ==
    ASSUME IInv, NEW k \in Kinds, WakeBackoff(k)
    PROVE  IInv'
<1> USE ConfigAssumption
    DEF IInv, Kinds, store, pools, admission, selector, pass, shared,
        WakeBackoff, Awake
<1>1. TypeOK'
  BY Zenon DEF TypeOK, PoolStates
<1>2. AdmissionExact'
  BY Zenon DEF TypeOK, AdmissionExact, Sum
<1>3. Shares'
  BY Zenon DEF TypeOK, AdmissionExact, Shares, Sum
<1>4. DeficitBounded'
  BY Zenon DEF TypeOK, DeficitBounded, Shares
<1>5. Watched'
  BY Zenon DEF TypeOK, Watched, Pending, Work, Runnable, CanDispatch, Available, AvailableGlobal
<1> QED  BY <1>1, <1>2, <1>3, <1>4, <1>5, Zenon DEF IInv

LEMMA WakeTimerInv ==
    ASSUME IInv, WakeTimer
    PROVE  IInv'
<1> USE ConfigAssumption
    DEF IInv, Kinds, store, pools, admission, selector, pass, shared,
        WakeTimer, Awake
<1>1. TypeOK'
  BY Zenon DEF TypeOK, PoolStates
<1>2. AdmissionExact'
  BY Zenon DEF TypeOK, AdmissionExact, Sum
<1>3. Shares'
  BY Zenon DEF TypeOK, AdmissionExact, Shares, Sum
<1>4. DeficitBounded'
  BY Zenon DEF TypeOK, DeficitBounded, Shares
<1>5. Watched'
  BY Zenon DEF TypeOK, Watched, Pending, Work, Runnable, CanDispatch, Available, AvailableGlobal
<1> QED  BY <1>1, <1>2, <1>3, <1>4, <1>5, Zenon DEF IInv

\* Joining one task frees its permit.
LEMMA WakeJoinedInv ==
    ASSUME IInv, NEW k \in Kinds, WakeJoined(k)
    PROVE  IInv'
<1> USE ConfigAssumption
    DEF IInv, Kinds, store, pools, admission, selector, pass, shared,
        WakeJoined, Awake
<1>1. TypeOK'
  <2>1. ended[k] \in Nat /\ inFlight[k] \in Nat /\ inFlight[k] >= ended[k]
    BY DEF TypeOK, AdmissionExact
  <2>2. globalInFlight >= inFlight[k]
    BY DEF TypeOK, AdmissionExact, Sum
  <2>3. /\ ended' \in [Kinds -> Nat] /\ inFlight' \in [Kinds -> Nat]
        /\ globalInFlight' \in Nat
    BY <2>1, <2>2 DEF TypeOK
  <2> QED  BY <2>3, Zenon DEF TypeOK
<1>2. AdmissionExact'
  BY DEF TypeOK, AdmissionExact, Sum
<1>3. Shares'
  <2>1. \A j \in Kinds : selected'[j] = 0
    BY Zenon DEF Shares
  <2>2. AdmissionExact' /\ TypeOK' /\ pc' = "top"
    BY <1>1, <1>2, Zenon
  <2> HIDE DEF WakeJoined, Awake
  <2> QED  BY <2>1, <2>2 DEF TypeOK, AdmissionExact, Shares, Sum
<1>4. DeficitBounded'
  BY Zenon DEF TypeOK, DeficitBounded, Shares
<1>5. Watched'
  BY Zenon DEF TypeOK, Watched, Pending, Work, Runnable, CanDispatch, Available, AvailableGlobal
<1> QED  BY <1>1, <1>2, <1>3, <1>4, <1>5, Zenon DEF IInv

LEMMA WakeShutdownInv ==
    ASSUME IInv, WakeShutdown
    PROVE  IInv'
<1> USE ConfigAssumption
    DEF IInv, Kinds, store, pools, admission, selector, pass, shared,
        WakeShutdown
<1>1. TypeOK'
  BY Zenon DEF TypeOK, PoolStates
<1>2. AdmissionExact'
  BY Zenon DEF TypeOK, AdmissionExact, Sum
<1>3. Shares'
  BY Zenon DEF TypeOK, AdmissionExact, Shares, Sum
<1>4. DeficitBounded'
  BY Zenon DEF TypeOK, DeficitBounded, Shares
<1>5. Watched'
  BY Zenon DEF TypeOK, Watched, Pending, Work, Runnable, CanDispatch, Available, AvailableGlobal
<1> QED  BY <1>1, <1>2, <1>3, <1>4, <1>5, Zenon DEF IInv

\* Nothing is in flight.
LEMMA StopInv ==
    ASSUME IInv, pc = "drain", Stop
    PROVE  IInv'
<1> USE ConfigAssumption
    DEF IInv, Kinds, store, pools, admission, selector, pass, shared,
        Stop, None
<1>1. TypeOK'
  BY Zenon DEF TypeOK, PoolStates
<1>2. AdmissionExact'
  BY DEF TypeOK, AdmissionExact, Sum
<1>3. Shares'
  BY DEF TypeOK, AdmissionExact, Shares, Sum
<1>4. DeficitBounded'
  BY Zenon DEF TypeOK, DeficitBounded, Shares
<1>5. Watched'
  BY Zenon DEF TypeOK, Watched, Pending, Work, Runnable, CanDispatch, Available, AvailableGlobal
<1> QED  BY <1>1, <1>2, <1>3, <1>4, <1>5, Zenon DEF IInv

LEMMA InitInv == Init => IInv
<1> SUFFICES ASSUME Init PROVE IInv
  OBVIOUS
<1> USE ConfigAssumption DEF Init, Kinds, None
<1>1. TypeOK
  <2>1. None \in [Kinds -> Nat] /\ 0 \in Nat /\ 0 \in Kinds
    OBVIOUS
  <2>2. [k \in Kinds |-> "Ready"] \in [Kinds -> PoolStates]
    BY Zenon DEF PoolStates
  <2>3. [k \in Kinds |-> "Ready"] \in [Kinds -> PoolStates \cup {"Paused", "Disabled"}]
    BY Zenon DEF PoolStates
  <2>4. [k \in Kinds |-> "none"] \in [Kinds -> {"none", "now", "later"}]
    BY Zenon
  <2>5. [k \in Kinds |-> FALSE] \in [Kinds -> BOOLEAN]
    BY Zenon
  <2> HIDE DEF None, Kinds, PoolStates
  <2> QED  BY <2>1, <2>2, <2>3, <2>4, <2>5, Zenon DEF TypeOK
<1>2. AdmissionExact
  BY DEF AdmissionExact, Sum
<1>3. Shares
  BY DEF Shares, Sum
<1>4. DeficitBounded
  BY DEF DeficitBounded, Minimum
<1>5. Watched
  BY DEF Watched
<1> QED  BY <1>1, <1>2, <1>3, <1>4, <1>5, Zenon DEF IInv

LEMMA StutterInv == IInv /\ UNCHANGED vars => IInv'
<1> SUFFICES ASSUME IInv, UNCHANGED vars PROVE IInv'
  OBVIOUS
<1> USE DEF IInv, vars, store, pools, admission, selector, pass, shared
<1>1. TypeOK'
  BY Zenon DEF TypeOK
<1>2. AdmissionExact'
  BY Zenon DEF AdmissionExact
<1>3. Shares'
  BY Zenon DEF Shares
<1>4. DeficitBounded'
  BY Zenon DEF DeficitBounded
<1>5. Watched'
  BY Zenon DEF Watched, Pending, Work, Runnable, CanDispatch, Available, AvailableGlobal
<1> QED  BY <1>1, <1>2, <1>3, <1>4, <1>5, Zenon

LEMMA EnvironmentInv == IInv /\ (Environment \/ Notify \/ Clock) => IInv'
<1> SUFFICES ASSUME IInv, Environment \/ Notify \/ Clock PROVE IInv'
  OBVIOUS
<1> QED  BY CommitRowInv, WithdrawRowInv, PauseInv, ResumeInv, RepairAndProbeInv,
            ShutdownInv, NotifyInv, FallDueInv, RetryAtPassesInv, Zenon
         DEF Environment, Clock

LEMMA TaskInv == IInv /\ Task => IInv'
  BY TaskEndsInv, TaskUnknownInv, ReconcileEndsInv, Zenon DEF Task

LEMMA LoopInv == IInv /\ Loop => IInv'
<1> SUFFICES ASSUME IInv, Loop PROVE IInv'
  OBVIOUS
<1>1. CASE Top \/ Publish \/ Summary \/ Maintain \/ Select \/ Selected
  BY <1>1, TopInv, PublishInv, SummaryInv, MaintainInv, SelectInv, SelectedInv, Zenon
<1>2. CASE \E k \in Kinds : ClaimFails(k)
  BY <1>2, ClaimFailsInv, Zenon
<1>3. CASE \E k \in Kinds, jobs, deferred \in 0 .. MaxRows : Claim(k, jobs, deferred)
  BY <1>3, ClaimInv, Zenon
<1>4. CASE StoreCorrupt \/ Deadlines \/ WakeNotified \/ WakeTimer \/ WakeShutdown
  BY <1>4, StoreCorruptInv, DeadlinesInv, WakeNotifiedInv, WakeTimerInv, WakeShutdownInv, Zenon
<1>5. CASE \E k \in Kinds : WakeDue(k) \/ WakeBackoff(k) \/ WakeJoined(k)
  BY <1>5, WakeDueInv, WakeBackoffInv, WakeJoinedInv, Zenon
<1>6. CASE Drained \/ DrainTimeout
  BY <1>6, StopInv, Zenon DEF Drained, DrainTimeout
<1> QED  BY <1>1, <1>2, <1>3, <1>4, <1>5, <1>6, Zenon DEF Loop

LEMMA NextInv == IInv /\ [Next]_vars => IInv'
  BY EnvironmentInv, TaskInv, LoopInv, StutterInv, Zenon DEF Next

-----------------------------------------------------------------------------
(* theorems *)

\* IInv is an invariant: it holds initially and every step keeps it.
THEOREM Invariance == Spec => []IInv
  BY InitInv, NextInv, PTL DEF Spec

\* Types of the loop's state; in particular no deficit, permit count or number
\* of tasks goes below zero.
THEOREM TypeCorrect == Spec => []TypeOK
<1>1. IInv => TypeOK
  BY Zenon DEF IInv
<1> QED  BY <1>1, Invariance, PTL

\* AdmissionTracker and JoinSet agree within the caps, and reserve() in
\* dispatch_selected never fails, whatever the caps, batches and weights.
THEOREM AdmissionIsExact == Spec => []AdmissionExact
<1>1. IInv => AdmissionExact
  BY Zenon DEF IInv
<1> QED  BY <1>1, Invariance, PTL

\* Refunds of FairSelector never let a pool save up more than one round and one
\* full selection, whatever the caps and weights.
THEOREM DeficitsStayBounded == Spec => []DeficitBounded
<1>1. IInv => DeficitBounded
  BY Zenon DEF IInv
<1> QED  BY <1>1, Invariance, PTL

\* The loop of SchedulerService::run never waits on dispatchable work without a
\* notification or a deadline to wake it, for any amount of work.
THEOREM WorkIsNeverForgotten == Spec => []NoWorkForgotten
<1>1. IInv => NoWorkForgotten
  <2> SUFFICES ASSUME IInv, pc = "asleep", NEW k \in Kinds,
                      ready[k] > 0, Runnable(k), CanDispatch(k)
               PROVE  moved \/ unsent > 0 \/ k \in armed
    BY Zenon DEF NoWorkForgotten
  <2>1. Work(k)
    BY DEF IInv, TypeOK, Work
  <2> QED  BY <2>1, Zenon DEF IInv, Watched, Pending
<1> QED  BY <1>1, Invariance, PTL

=============================================================================
