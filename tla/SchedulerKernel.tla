-------------------------- MODULE SchedulerKernel ---------------------------
(***************************************************************************)
(* SchedulerService::run: one loop that reaps finished dispatches, reads   *)
(* what is due, shares the free permits among the pools, claims, spawns    *)
(* and sleeps, while clients commit work, tasks end, an operator pauses,   *)
(* resumes or probes, and the daemon shuts down.                           *)
(*                                                                         *)
(* The wake signal is used by its contract (WakeContract): `moved` says    *)
(* that the generation is no longer the one the loop observed.  A row of a *)
(* pool is claimable now (`ready`) or at a later time (`later`).           *)
(***************************************************************************)
EXTENDS Integers

CONSTANTS
    Enabled,       \* pools the configuration enables
    GlobalCap,     \* max_in_flight of the scheduler
    PoolCap,       \* max_in_flight of a pool
    ClaimBatch,    \* claim_batch of a pool
    Weight,        \* weight of a pool
    UnknownLimit,  \* unknown Workflow results in a row that open the circuit, 3 in the code
    MaxRows,       \* bound on the rows of a pool waiting to be claimed
    MaxUnsent,     \* bound on the notifications on their way
    MaxFaults      \* bound on failed claims, withdrawals, pauses and probes

Alarm == 0
Queue == 1
Cron == 2
Workflow == 3
Kinds == 0 .. 3

ASSUME ConfigAssumption ==
    /\ Enabled \subseteq Kinds
    /\ GlobalCap \in Nat \ {0}
    /\ PoolCap \in [Kinds -> Nat \ {0}]
    /\ ClaimBatch \in [Kinds -> Nat \ {0}]
    /\ Weight \in [Kinds -> Nat \ {0}]
    /\ UnknownLimit \in Nat \ {0}
    /\ MaxRows \in Nat
    /\ MaxUnsent \in Nat
    /\ MaxFaults \in Nat

VARIABLES
    pc,            \* where the loop is
    ready, later,  \* rows of each pool in the store
    unsent,        \* mutations committed and not yet notified
    moved,         \* the generation is not the observed one
    paused,
    shutdown,
    local,         \* PoolRuntime of the loop
    elapsed,       \* the retry_at of a pool in backoff has passed
    published,     \* the shared pool state
    unknowns,      \* workflow_infra_failures, capped at UnknownLimit
    reconcile,     \* the version_reconcile task
    tasks,         \* dispatches that run
    ended,         \* dispatches that ended and are not joined
    inFlight,      \* pool_in_flight of the AdmissionTracker
    globalInFlight,
    deficits,
    cursor,
    seen,          \* pools whose summary showed ready work
    due,           \* when their summary said the next row is due
    runnable,      \* pools the pass may claim from
    selected,      \* permits the pass gave each pool and has not claimed with
    armed,         \* pools whose due time the sleeping loop waits for
    faults

store == <<ready, later>>
pools == <<local, elapsed>>
admission == <<inFlight, globalInFlight>>
selector == <<deficits, cursor>>
pass == <<seen, due, runnable, selected, armed>>
shared == <<paused, shutdown, unknowns, reconcile>>
vars == <<pc, store, unsent, moved, shared, pools, published, tasks, ended,
          admission, selector, pass, faults>>

None == [k \in Kinds |-> 0]

Sum(f) == f[0] + f[1] + f[2] + f[3]

Minimum(a, b) == IF a <= b THEN a ELSE b

Init ==
    /\ pc = "top"
    /\ ready = None
    /\ later = None
    /\ unsent = 0
    /\ moved = FALSE
    /\ paused = FALSE
    /\ shutdown = FALSE
    /\ local = [k \in Kinds |-> "Ready"]
    /\ elapsed = [k \in Kinds |-> FALSE]
    /\ published = [k \in Kinds |-> "Ready"]
    /\ unknowns = 0
    /\ reconcile = "none"
    /\ tasks = None
    /\ ended = None
    /\ inFlight = None
    /\ globalInFlight = 0
    /\ deficits = None
    /\ cursor = 0
    /\ seen = {}
    /\ due = [k \in Kinds |-> "none"]
    /\ runnable = {}
    /\ selected = None
    /\ armed = {}
    /\ faults = 0

Fault ==
    /\ faults < MaxFaults
    /\ faults' = faults + 1

\* A mutation is committed; notify() follows.
Committed ==
    /\ unsent < MaxUnsent
    /\ unsent' = unsent + 1

-----------------------------------------------------------------------------
(* clients of the store, time and the operator *)

CommitRow(k) ==
    /\ ready[k] + later[k] < MaxRows
    /\ Committed
    /\ \/ ready' = [ready EXCEPT ![k] = @ + 1] /\ UNCHANGED later
       \/ later' = [later EXCEPT ![k] = @ + 1] /\ UNCHANGED ready
    /\ UNCHANGED <<pc, moved, shared, pools, published, tasks, ended, admission,
                   selector, pass, faults>>

\* A purge, a deletion or a paused delivery takes a row away.
WithdrawRow(k) ==
    /\ Fault
    /\ Committed
    /\ \/ ready[k] > 0 /\ ready' = [ready EXCEPT ![k] = @ - 1] /\ UNCHANGED later
       \/ later[k] > 0 /\ later' = [later EXCEPT ![k] = @ - 1] /\ UNCHANGED ready
    /\ UNCHANGED <<pc, moved, shared, pools, published, tasks, ended, admission,
                   selector, pass>>

FallDue(k) ==
    /\ later[k] > 0
    /\ later' = [later EXCEPT ![k] = @ - 1]
    /\ ready' = [ready EXCEPT ![k] = @ + 1]
    /\ UNCHANGED <<pc, unsent, moved, shared, pools, published, tasks, ended,
                   admission, selector, pass, faults>>

Notify ==
    /\ unsent > 0
    /\ unsent' = unsent - 1
    /\ moved' = TRUE
    /\ UNCHANGED <<pc, store, shared, pools, published, tasks, ended, admission,
                   selector, pass, faults>>

Pause ==
    /\ ~paused
    /\ Fault
    /\ Committed
    /\ paused' = TRUE
    /\ UNCHANGED <<pc, store, moved, shutdown, unknowns, reconcile, pools, published,
                   tasks, ended, admission, selector, pass>>

Resume ==
    /\ paused
    /\ Committed
    /\ paused' = FALSE
    /\ UNCHANGED <<pc, store, moved, shutdown, unknowns, reconcile, pools, published,
                   tasks, ended, admission, selector, pass, faults>>

RepairAndProbe ==
    /\ Alarm \in Enabled
    /\ Fault
    /\ Committed
    /\ published' = [published EXCEPT ![Alarm] = "Ready"]
    /\ UNCHANGED <<pc, store, moved, shared, pools, tasks, ended, admission,
                   selector, pass>>

Shutdown ==
    /\ ~shutdown
    /\ shutdown' = TRUE
    /\ UNCHANGED <<pc, store, unsent, moved, paused, unknowns, reconcile, pools,
                   published, tasks, ended, admission, selector, pass, faults>>

RetryAtPasses(k) ==
    /\ local[k] = "Backoff"
    /\ ~elapsed[k]
    /\ elapsed' = [elapsed EXCEPT ![k] = TRUE]
    /\ UNCHANGED <<pc, store, unsent, moved, shared, local, published, tasks, ended,
                   admission, selector, pass, faults>>

-----------------------------------------------------------------------------
(* dispatch tasks *)

TaskLeaves(k) ==
    /\ tasks[k] > 0
    /\ tasks' = [tasks EXCEPT ![k] = @ - 1]
    /\ ended' = [ended EXCEPT ![k] = @ + 1]

\* The task's own writes are CommitRow and WithdrawRow; a Workflow result that
\* is known clears the count of unknown ones, a stale one leaves it.
TaskEnds(k) ==
    /\ TaskLeaves(k)
    /\ \/ UNCHANGED unknowns
       \/ k = Workflow /\ unknowns' = 0
    /\ UNCHANGED <<pc, store, unsent, moved, paused, shutdown, reconcile, pools,
                   published, admission, selector, pass, faults>>

WorkflowUnknown ==
    /\ Committed
    /\ unknowns' = Minimum(unknowns + 1, UnknownLimit)
    /\ published' = IF unknowns + 1 >= UnknownLimit
                    THEN [published EXCEPT ![Workflow] = "CircuitOpen"]
                    ELSE published

TaskUnknown ==
    /\ TaskLeaves(Workflow)
    /\ WorkflowUnknown
    /\ UNCHANGED <<pc, store, moved, paused, shutdown, reconcile, pools, admission,
                   selector, pass, faults>>

\* The probe of one pinned version: fine, broken, or unknown.
ReconcileEnds ==
    /\ reconcile = "running"
    /\ reconcile' = "ended"
    /\ \/ UNCHANGED <<unsent, unknowns, published>>
       \/ /\ published' = [published EXCEPT ![Workflow] = "CircuitOpen"]
          /\ UNCHANGED <<unsent, unknowns>>
       \/ WorkflowUnknown
    /\ UNCHANGED <<pc, store, moved, paused, shutdown, pools, tasks, ended, admission,
                   selector, pass, faults>>

-----------------------------------------------------------------------------
(* one pass of the loop *)

\* refresh_deadline, then the shared state: any pool's open circuit closes when
\* it was published Ready, and Workflow's opens when it was published open.
Refreshed(k) ==
    LET state == IF local[k] = "Backoff" /\ elapsed[k] THEN "Ready" ELSE local[k]
    IN  IF k = Workflow /\ published[k] = "CircuitOpen" THEN "CircuitOpen"
        ELSE IF state = "CircuitOpen" /\ published[k] = "Ready" THEN "Ready"
        ELSE state

\* release_completed for every dispatch that has ended.
Reap ==
    /\ ended' = None
    /\ inFlight' = [k \in Kinds |-> inFlight[k] - ended[k]]
    /\ globalInFlight' = globalInFlight - Sum(ended)

\* The generation is observed before anything of the store is read.
Observe == moved' = FALSE

\* Mutant of Top: shutdown is only seen by the sleeping loop.
TopDeaf ==
    /\ pc = "top"
    /\ Reap
    /\ reconcile' = IF reconcile = "ended" THEN "none" ELSE reconcile
    /\ pc' = "publish"
    /\ Observe
    /\ local' = [k \in Kinds |-> Refreshed(k)]
    /\ elapsed' = [k \in Kinds |-> elapsed[k] /\ Refreshed(k) = "Backoff"]
    /\ UNCHANGED <<store, unsent, paused, shutdown, unknowns, published, tasks,
                   selector, pass, faults>>

Top ==
    /\ pc = "top"
    /\ Reap
    /\ reconcile' = IF reconcile = "ended" THEN "none" ELSE reconcile
    /\ \/ /\ shutdown
          /\ pc' = "drain"
          /\ UNCHANGED <<moved, pools>>
       \/ /\ ~shutdown
          /\ pc' = "publish"
          /\ Observe
          /\ local' = [k \in Kinds |-> Refreshed(k)]
          /\ elapsed' = [k \in Kinds |-> elapsed[k] /\ Refreshed(k) = "Backoff"]
    /\ UNCHANGED <<store, unsent, paused, shutdown, unknowns, published, tasks,
                   selector, pass, faults>>

SetPool(k, state) ==
    /\ local' = [local EXCEPT ![k] = state]
    /\ elapsed' = [elapsed EXCEPT ![k] = FALSE]

\* permanent_failure or transient_failure, and what the loop publishes of it.
FailPool(k, state) ==
    /\ SetPool(k, state)
    /\ published' = [published EXCEPT ![k] = state]

\* The pool states are published; then, when it is due, the repair pass starts a
\* reconciliation and may find the Workflow catalog inconsistent.
Publish ==
    /\ pc = "publish"
    /\ pc' = "summary"
    /\ LET states == [k \in Kinds |-> IF k \notin Enabled THEN "Disabled"
                                      ELSE IF paused THEN "Paused" ELSE local[k]]
       IN  \/ /\ published' = states
              /\ UNCHANGED <<pools, reconcile, faults>>
           \/ /\ reconcile' = IF reconcile = "none" /\ ~paused /\ Workflow \in Enabled
                              THEN "running" ELSE reconcile
              /\ \/ /\ published' = states
                    /\ UNCHANGED <<pools, faults>>
                 \/ /\ Fault
                    /\ SetPool(Workflow, "CircuitOpen")
                    /\ published' = [states EXCEPT ![Workflow] = "CircuitOpen"]
    /\ UNCHANGED <<store, unsent, moved, paused, shutdown, unknowns, tasks, ended,
                   admission, selector, pass>>

\* A full batch of a Queue is ready before the time its summary names.
DueTimes(k) ==
    IF ready[k] > 0 THEN IF k = Queue THEN {"now", "later"} ELSE {"now"}
    ELSE IF later[k] > 0 THEN {"later"} ELSE {"none"}

Summary ==
    /\ pc = "summary"
    /\ pc' = "maintain"
    /\ seen' = {k \in Kinds : ready[k] > 0}
    /\ due' \in [Kinds -> {"none", "now", "later"}]
    /\ \A k \in Kinds : due'[k] \in DueTimes(k)
    /\ UNCHANGED <<store, unsent, moved, shared, pools, published, tasks, ended,
                   admission, selector, runnable, selected, armed, faults>>

Runnable(k) == k \in Enabled /\ ~paused /\ local[k] = "Ready"

AvailableGlobal == GlobalCap - globalInFlight

Available(k) == PoolCap[k] - inFlight[k]

\* Queue maintenance, when it is due, may fail; then the pass is shared out.
Maintain ==
    /\ pc = "maintain"
    /\ \/ /\ runnable' = {k \in Kinds : Runnable(k)}
          /\ UNCHANGED <<pools, published, faults>>
       \/ /\ Runnable(Queue)
          /\ Fault
          /\ \E state \in {"Backoff", "CircuitOpen"} : FailPool(Queue, state)
          /\ runnable' = {k \in Kinds : Runnable(k)} \ {Queue}
    /\ pc' = IF AvailableGlobal > 0 THEN "select" ELSE "claim"
    /\ UNCHANGED <<store, unsent, moved, shared, tasks, ended, admission, selector,
                   seen, due, selected, armed>>

-----------------------------------------------------------------------------
(* FairSelector *)

\* Pools that are ready and have a permit left.
Candidates == {k \in runnable \cap seen : Available(k) > selected[k]}

\* Mutant of Credited: every turn adds a round.
CreditedAlways ==
    [k \in Kinds |-> IF k \in Candidates THEN deficits[k] + Weight[k] ELSE deficits[k]]

\* Mutant of Credited: a round credits the first candidate only.
CreditedFirst ==
    IF \E k \in Candidates : deficits[k] > 0 THEN deficits
    ELSE [deficits EXCEPT ![CHOOSE k \in Candidates : \A j \in Candidates : k <= j] = @ + Weight[0]]

\* A round is added when no candidate has a deficit left.
Credited ==
    IF \E k \in Candidates : deficits[k] > 0 THEN deficits
    ELSE [k \in Kinds |-> IF k \in Candidates THEN deficits[k] + Weight[k] ELSE deficits[k]]

Distance(k) == (k - cursor) % 4

Next_with_deficit ==
    CHOOSE k \in Candidates :
        /\ Credited[k] > 0
        /\ \A j \in Candidates : Credited[j] > 0 => Distance(k) <= Distance(j)

\* One turn of the while loop of select.
Select ==
    /\ pc = "select"
    /\ Sum(selected) < AvailableGlobal
    /\ Candidates # {}
    /\ LET k == Next_with_deficit
       IN  /\ deficits' = [Credited EXCEPT ![k] = @ - 1]
           /\ selected' = [selected EXCEPT ![k] = @ + 1]
           /\ cursor' = (k + 1) % 4
    /\ UNCHANGED <<pc, store, unsent, moved, shared, pools, published, tasks, ended,
                   admission, seen, due, runnable, armed, faults>>

Selected ==
    /\ pc = "select"
    /\ Sum(selected) >= AvailableGlobal \/ Candidates = {}
    /\ pc' = "claim"
    /\ UNCHANGED <<store, unsent, moved, shared, pools, published, tasks, ended,
                   admission, selector, pass, faults>>

-----------------------------------------------------------------------------
(* dispatch_selected *)

\* Pools are claimed from in their fixed order.
Turn(k) == selected[k] > 0 /\ \A j \in Kinds : j < k => selected[j] = 0

Asked(k) == Minimum(selected[k], ClaimBatch[k])

Refund(k, jobs) == deficits' = [deficits EXCEPT ![k] = @ + (Asked(k) - jobs)]

\* reserve fails only when more came than there are permits.
Reserve(k, jobs) ==
    IF jobs > AvailableGlobal \/ jobs > Available(k)
    THEN pc' = "overrun" /\ UNCHANGED <<admission, tasks>>
    ELSE /\ inFlight' = [inFlight EXCEPT ![k] = @ + jobs]
         /\ globalInFlight' = globalInFlight + jobs
         /\ tasks' = [tasks EXCEPT ![k] = @ + jobs]
         /\ UNCHANGED pc

\* A claim finds something whenever something is ready, except that Workflow
\* passes over an instance under an operation and defers an unavailable one.
Found(k, jobs, deferred) ==
    /\ deferred > 0 => k = Workflow
    /\ deferred <= ready[k]
    /\ jobs <= Minimum(Asked(k), ready[k] - deferred)
    /\ jobs = 0 => ready[k] = deferred \/ k = Workflow
    /\ ready' = [ready EXCEPT ![k] = @ - jobs - deferred]
    /\ later' = [later EXCEPT ![k] = @ + deferred]

Claim(k, jobs, deferred) ==
    /\ pc = "claim"
    /\ Turn(k)
    /\ Found(k, jobs, deferred)
    /\ Refund(k, jobs)
    /\ Reserve(k, jobs)
    /\ selected' = [selected EXCEPT ![k] = 0]
    /\ IF k = Alarm THEN UNCHANGED pools ELSE SetPool(k, "Ready")
    /\ IF k = Alarm \/ jobs = 0 THEN UNCHANGED published
       ELSE published' = [published EXCEPT ![k] = "Ready"]
    /\ UNCHANGED <<unsent, moved, shared, ended, cursor, seen, due, runnable, armed, faults>>

ClaimFails(k) ==
    /\ pc = "claim"
    /\ Turn(k)
    /\ Fault
    /\ \E state \in {"Backoff", "CircuitOpen"} : FailPool(k, state)
    /\ selected' = [selected EXCEPT ![k] = 0]
    /\ UNCHANGED <<pc, store, unsent, moved, shared, tasks, ended, admission, selector,
                   seen, due, runnable, armed>>

\* SchedulerCorrupt ends the loop; dropping the JoinSet aborts its tasks.
StoreCorrupt ==
    /\ pc \in {"summary", "maintain", "claim"}
    /\ Fault
    /\ pc' = "failed"
    /\ tasks' = None
    /\ ended' = None
    /\ reconcile' = "none"
    /\ UNCHANGED <<store, unsent, moved, paused, shutdown, unknowns, pools, published,
                   admission, selector, pass>>

-----------------------------------------------------------------------------
(* the wait *)

CanDispatch(k) == AvailableGlobal > 0 /\ Available(k) > 0

\* Mutant of Deadlines: the generation is observed again before the wait.
DeadlinesObserved ==
    /\ pc = "claim"
    /\ selected = None
    /\ pc' = "asleep"
    /\ Observe
    /\ armed' = {k \in runnable : due[k] = "later" \/ (due[k] = "now" /\ CanDispatch(k))}
    /\ seen' = {}
    /\ due' = [k \in Kinds |-> "none"]
    /\ runnable' = {}
    /\ UNCHANGED <<store, unsent, shared, pools, published, tasks, ended,
                   admission, selector, selected, faults>>

\* Overdue work that no permit is left for waits for a completion instead.
Deadlines ==
    /\ pc = "claim"
    /\ selected = None
    /\ pc' = "asleep"
    /\ armed' = {k \in runnable : due[k] = "later" \/ (due[k] = "now" /\ CanDispatch(k))}
    /\ seen' = {}
    /\ due' = [k \in Kinds |-> "none"]
    /\ runnable' = {}
    /\ UNCHANGED <<store, unsent, moved, shared, pools, published, tasks, ended,
                   admission, selector, selected, faults>>

Awake ==
    /\ pc' = "top"
    /\ armed' = {}
    /\ UNCHANGED <<store, unsent, moved, shared, pools, published, tasks, selector,
                   seen, due, runnable, selected, faults>>

WakeNotified ==
    /\ pc = "asleep"
    /\ moved
    /\ Awake
    /\ UNCHANGED <<ended, admission>>

WakeDue(k) ==
    /\ pc = "asleep"
    /\ k \in armed
    /\ Awake
    /\ UNCHANGED <<ended, admission>>

WakeBackoff(k) ==
    /\ pc = "asleep"
    /\ local[k] = "Backoff" /\ elapsed[k]
    /\ Awake
    /\ UNCHANGED <<ended, admission>>

\* The repair deadline or the safety interval.
WakeTimer ==
    /\ pc = "asleep"
    /\ Awake
    /\ UNCHANGED <<ended, admission>>

\* Mutant of WakeJoined: the permit of the joined dispatch is kept.
WakeJoinedHeld(k) ==
    /\ pc = "asleep"
    /\ ended[k] > 0
    /\ ended' = [ended EXCEPT ![k] = @ - 1]
    /\ Awake
    /\ UNCHANGED admission

WakeJoined(k) ==
    /\ pc = "asleep"
    /\ ended[k] > 0
    /\ ended' = [ended EXCEPT ![k] = @ - 1]
    /\ inFlight' = [inFlight EXCEPT ![k] = @ - 1]
    /\ globalInFlight' = globalInFlight - 1
    /\ Awake

WakeShutdown ==
    /\ pc = "asleep"
    /\ shutdown
    /\ pc' = "drain"
    /\ UNCHANGED <<store, unsent, moved, shared, pools, published, tasks, ended,
                   admission, selector, pass, faults>>

-----------------------------------------------------------------------------
(* drain *)

\* join_next, until nothing is left or the drain's own timer aborts the rest;
\* then the tracker is emptied.
Stop ==
    /\ pc' = "stopped"
    /\ tasks' = None
    /\ ended' = None
    /\ reconcile' = "none"
    /\ inFlight' = None
    /\ globalInFlight' = 0
    /\ UNCHANGED <<store, unsent, moved, paused, shutdown, unknowns, pools, published,
                   selector, pass, faults>>

Drained ==
    /\ pc = "drain"
    /\ tasks = None
    /\ Stop

DrainTimeout ==
    /\ pc = "drain"
    /\ tasks # None
    /\ Stop

-----------------------------------------------------------------------------
(* specification *)

Environment ==
    \/ \E k \in Enabled : CommitRow(k) \/ WithdrawRow(k)
    \/ Pause
    \/ Resume
    \/ RepairAndProbe
    \/ Shutdown

Task ==
    \/ \E k \in Kinds : TaskEnds(k)
    \/ TaskUnknown
    \/ ReconcileEnds

Clock == \E k \in Kinds : FallDue(k) \/ RetryAtPasses(k)

Loop ==
    \/ Top
    \/ Publish
    \/ Summary
    \/ Maintain
    \/ Select
    \/ Selected
    \/ \E k \in Kinds : ClaimFails(k)
    \/ \E k \in Kinds, jobs, deferred \in 0 .. MaxRows : Claim(k, jobs, deferred)
    \/ StoreCorrupt
    \/ Deadlines
    \/ WakeNotified
    \/ WakeTimer
    \/ \E k \in Kinds : WakeDue(k) \/ WakeBackoff(k) \/ WakeJoined(k)
    \/ WakeShutdown
    \/ Drained
    \/ DrainTimeout

Next == Environment \/ Notify \/ Task \/ Clock \/ Loop

Spec == Init /\ [][Next]_vars

\* The loop runs: its timers fire and its claims return.  A dispatch is bounded
\* by its timeout, a committed mutation is notified, and time passes.
Fairness ==
    /\ WF_vars(Loop)
    /\ WF_vars(Notify)
    /\ \A k \in Kinds :
          /\ WF_vars(TaskEnds(k))
          /\ WF_vars(FallDue(k))
          /\ WF_vars(RetryAtPasses(k))

FairSpec == Spec /\ Fairness

-----------------------------------------------------------------------------
(* properties *)

PoolStates == {"Ready", "Backoff", "CircuitOpen"}

TypeOK ==
    /\ pc \in {"top", "publish", "summary", "maintain", "select", "claim", "asleep",
              "drain", "stopped", "failed", "overrun"}
    /\ ready \in [Kinds -> Nat] /\ later \in [Kinds -> Nat]
    /\ unsent \in Nat /\ faults \in Nat /\ unknowns \in Nat
    /\ moved \in BOOLEAN /\ paused \in BOOLEAN /\ shutdown \in BOOLEAN
    /\ local \in [Kinds -> PoolStates]
    /\ elapsed \in [Kinds -> BOOLEAN]
    /\ published \in [Kinds -> PoolStates \cup {"Paused", "Disabled"}]
    /\ reconcile \in {"none", "running", "ended"}
    /\ tasks \in [Kinds -> Nat] /\ ended \in [Kinds -> Nat]
    /\ inFlight \in [Kinds -> Nat] /\ globalInFlight \in Nat
    /\ deficits \in [Kinds -> Nat] /\ cursor \in Kinds
    /\ seen \subseteq Kinds /\ runnable \subseteq Kinds /\ armed \subseteq Kinds
    /\ due \in [Kinds -> {"none", "now", "later"}]
    /\ selected \in [Kinds -> Nat]

\* AdmissionExact: the tracker counts exactly the dispatches that are not
\* joined, within both caps, so reserve() never refuses what was claimed.
AdmissionExact ==
    /\ pc # "overrun"
    /\ pc # "failed" =>
          /\ \A k \in Kinds : /\ inFlight[k] = tasks[k] + ended[k]
                             /\ inFlight[k] <= PoolCap[k]
          /\ globalInFlight = Sum(inFlight)
          /\ globalInFlight <= GlobalCap

\* DeficitBounded: refunding what a claim did not use lets a pool save up no
\* more than one round and one full selection.
DeficitBounded ==
    \A k \in Kinds :
        deficits[k] + selected[k] < Weight[k] + Minimum(PoolCap[k], GlobalCap)

\* NoWorkForgotten: the loop does not sleep on work it could dispatch with only
\* the safety and repair intervals left to wake it.
NoWorkForgotten ==
    pc = "asleep" =>
        \A k \in Kinds :
            ready[k] > 0 /\ Runnable(k) /\ CanDispatch(k) =>
                moved \/ unsent > 0 \/ k \in armed

Running == pc \notin {"drain", "stopped", "failed", "overrun"}

Starving(k) == Running /\ Runnable(k) /\ ready[k] > 0 /\ inFlight[k] = 0

\* NoStarvation: a pool with ready work and nothing in flight is not passed
\* over forever while the other pools' work keeps coming.
NoStarvation == \A k \in Kinds : []<>~Starving(k)

\* ShutdownEnds: a shutdown stops the loop, whatever is in flight.
ShutdownEnds == shutdown ~> ~Running /\ pc # "drain"

\* UnknownsHold: a pass that starts after UnknownLimit unknown results in a row
\* finds the Workflow circuit open ("Repeated unknown activations require
\* operator attention", service/src/scheduler/workflow.rs:285).
UnknownsHold ==
    [][ pc = "top" /\ pc' = "publish" /\ unknowns = UnknownLimit
        => local'[Workflow] = "CircuitOpen" ]_vars
=============================================================================
