-------------------------------- MODULE Cron --------------------------------
(* Cron triggers of one Worker: the schedules a promotion installs, the      *)
(* projection of due slots into durable runs, claims, delivery tasks,        *)
(* retries, history collection, the start-up reset of claims, and the        *)
(* version referrers (pins) that keep the code of a run from being deleted   *)
(* (crates/storage/src/scheduler/cron.rs, cron/delivery.rs, promotion.rs,    *)
(* worker_repository/retention.rs, crates/service/src/scheduler/cron.rs).    *)
EXTENDS Integers, FiniteSets

CONSTANTS
    Versions,       \* versions of the Worker
    Exprs,          \* cron expressions
    Declares,       \* the expressions each version declares
    Slots,          \* the minutes at which each expression fires
    NoVersion,      \* no active deployment
    MaxRetries,     \* cron_max_retries, at most 3
    RetryDelay,     \* back-off after a known failure, by attempt
    UnknownDelay,   \* 250 ms, the back-off after an unknown result
    Window,         \* 15 min, from the first claim to the delivery deadline
    Lease,          \* claim_lease_ms, the longest a delivery may take
    Grace,          \* cron_misfire_grace_ms
    Retention,      \* cron_history_retention_ms
    HistoryLimit,   \* cron_history_limit, terminal rows per activation
    Batch,          \* claim_batch of the pool
    Permits,        \* concurrency of the pool
    StepBack,       \* how far the wall clock may be behind after a restart
    Lag,            \* how old the time a promotion read may be at its commit
    MaxTime, MaxPromotions, MaxRestarts, MaxFaults, MaxDelays \* bounds of the
                    \* state space

ASSUME CronAssumption ==
    /\ NoVersion \notin Versions
    /\ Declares \in [Versions -> SUBSET Exprs]
    /\ Slots \in [Exprs -> SUBSET (Nat \ {0})]
    /\ MaxRetries \in 0..3
    /\ RetryDelay \in [1..4 -> Nat]
    /\ {UnknownDelay, Lease, Grace, Retention, HistoryLimit, StepBack, Lag,
        MaxTime, MaxPromotions, MaxRestarts, MaxFaults,
        MaxDelays} \subseteq Nat
    /\ {Window, Batch, Permits} \subseteq Nat \ {0}

\* The expressions are those the versions of one Worker declare.
ASSUME ExprsAssumption == IsFiniteSet(Exprs)

VARIABLES
    now,        \* observed wall clock
    worker,     \* "live" or "deleted"
    version,    \* state of each version
    active,     \* active version
    deployed,   \* versions that were active at some time
    schedules,  \* cron_schedules with cron_activations, by activation
    promotions, \* promotions so far, the source of fresh activation ids
    runs,       \* cron_runs, by activation and slot
    activationPins, runPins, \* version_referrers of the two Cron kinds
    poll,       \* the claim pass of the scheduler loop
    tasks,      \* delivery tasks of this process
    lost,       \* runs whose result this process failed to write
    fired,      \* history: every run ever projected
    starts,     \* history: handler starts of each run
    restarts, faults, delays \* how often each bounded event happened

versionVars == <<worker, version, active, deployed>>
historyVars == <<fired, starts>>
vars == <<now, versionVars, schedules, promotions, runs, activationPins,
          runPins, poll, tasks, lost, historyVars, restarts, faults, delays>>

(* An activation is named by its promotion and its expression, a run by its  *)
(* activation and its slot: cron_runs is unique in both.                     *)
Activations == (1..MaxPromotions) \X Exprs
SlotTimes == UNION {Slots[e] : e \in Exprs}
Keys == (1..MaxPromotions) \X Exprs \X SlotTimes
ActivationOf(k) == <<k[1], k[2]>>

Terminal == {"complete", "failed"}
IsTerminal(k) == runs[k].state \in Terminal
VersionStates == {"ready", "deleting", "tombstoned"}
Idle == [phase |-> "idle", at |-> 0, limit |-> 0]
Undispatched == -1

(* The start-up reset is given this retry budget, not cron_max_retries.      *)
ResetRetries == 3

Init ==
    /\ now = 0
    /\ worker = "live"
    /\ version = [v \in Versions |-> "ready"]
    /\ active = NoVersion
    /\ deployed = {}
    /\ schedules = [a \in {} |-> {}]
    /\ promotions = 0
    /\ runs = [k \in {} |-> {}]
    /\ activationPins = {}
    /\ runPins = {}
    /\ poll = Idle
    /\ tasks = {}
    /\ lost = {}
    /\ fired = {}
    /\ starts = [k \in Keys |-> 0]
    /\ restarts = 0
    /\ faults = 0
    /\ delays = 0

-----------------------------------------------------------------------------
(* Slots.                                                                    *)

(* next_after_ms: the first slot strictly after t. Empty when the bounded    *)
(* search finds none, and the caller fails.                                  *)
NextFrom(e, t) ==
    {s \in Slots[e] : s >= t /\ \A u \in Slots[e] : u >= t => s <= u}

NextAfter(e, t) ==
    {s \in Slots[e] : s > t /\ \A u \in Slots[e] : u > t => s <= u}

(* latest_at_or_before_ms: the newest slot of lo..hi, if there is one.       *)
LatestAtOrBefore(e, lo, hi) ==
    {s \in Slots[e] : /\ lo <= s /\ s <= hi
                      /\ \A u \in Slots[e] : u <= hi => u <= s}

Larger(x, y) == IF x >= y THEN x ELSE y
Smaller(x, y) == IF x <= y THEN x ELSE y

(* The slot a due schedule projects: the newest one of the grace window that *)
(* the schedule has not passed yet.                                          *)
DueSlots(a, t) ==
    LatestAtOrBefore(a[2], Larger(t - Grace, schedules[a].next), t)

-----------------------------------------------------------------------------
(* Promotion, quarantine and deletion of the Worker and its versions.        *)

Declared(v) == IF v = NoVersion THEN {} ELSE Declares[v]

(* replace_products: the transaction that moves the active deployment also   *)
(* deletes every schedule and activation of the Worker and creates those the *)
(* new version declares, under fresh ids. The time t was read before the     *)
(* transaction began. Runs of the replaced activations stay.                 *)
ReplaceProducts(v, t) ==
    /\ promotions < MaxPromotions
    /\ promotions' = promotions + 1
    /\ \E next \in [Declared(v) -> SlotTimes] :
          /\ \A e \in Declared(v) : next[e] \in NextAfter(e, t)
          /\ schedules' = [a \in {promotions + 1} \X Declared(v) |->
                              [version |-> v, next |-> next[a[2]]]]
    /\ activationPins' = {v} \X ({promotions + 1} \X Declared(v))
    /\ active' = v

(* create_deployment_checked: only a ready version of a live Worker.         *)
Deploy(v, t) ==
    /\ worker = "live"
    /\ version[v] = "ready"
    /\ t \in Larger(0, now - Lag)..now
    /\ ReplaceProducts(v, t)
    /\ deployed' = deployed \cup {v}
    /\ UNCHANGED <<now, worker, version, runs, runPins, poll, tasks, lost,
                   historyVars, restarts, faults, delays>>

(* quarantine_active_deployment: roll back to an earlier deployment that can *)
(* still be dispatched, or to none.                                          *)
Quarantine(v, t) ==
    /\ worker = "live"
    /\ active # NoVersion
    /\ v = NoVersion \/ (v \in deployed \ {active} /\ version[v] = "ready")
    /\ t \in Larger(0, now - Lag)..now
    /\ ReplaceProducts(v, t)
    /\ UNCHANGED <<now, worker, version, deployed, runs, runPins, poll, tasks,
                   lost, historyVars, restarts, faults, delays>>

(* delete_worker_inner: the Worker is tombstoned and has no active           *)
(* deployment; its schedules and activations are left as they are.           *)
DeleteWorker ==
    /\ worker = "live"
    /\ worker' = "deleted"
    /\ active' = NoVersion
    /\ UNCHANGED <<now, version, deployed, schedules, promotions, runs,
                   activationPins, runPins, poll, tasks, lost, historyVars,
                   restarts, faults, delays>>

ActivationPinned(v) == \E p \in activationPins : p[1] = v

Referenced(v) ==
    \/ ActivationPinned(v)
    \/ \E p \in runPins : p[1] = v

(* begin_version_delete.                                                     *)
BeginVersionDelete(v) ==
    /\ active # v
    /\ ~Referenced(v)
    /\ version[v] = "ready"
    /\ version' = [version EXCEPT ![v] = "deleting"]
    /\ UNCHANGED <<now, worker, active, deployed, schedules, promotions, runs,
                   activationPins, runPins, poll, tasks, lost, historyVars,
                   restarts, faults, delays>>

(* finalize_version_delete: the declarations of the version go with it.      *)
FinalizeVersionDelete(v) ==
    /\ version[v] = "deleting"
    /\ ~Referenced(v)
    /\ version' = [version EXCEPT ![v] = "tombstoned"]
    /\ UNCHANGED <<now, worker, active, deployed, schedules, promotions, runs,
                   activationPins, runPins, poll, tasks, lost, historyVars,
                   restarts, faults, delays>>

-----------------------------------------------------------------------------
(* The claim pass: claim_cron projects due slots, collects history and       *)
(* claims due runs, three transactions with the one time read at its start.  *)

Due(a, t) == schedules[a].next <= t
UnfinishedAt(k, t) == runs[k].state \notin Terminal /\ runs[k].nextAt <= t
ReadyAt(k, t) == runs[k].state = "ready" /\ runs[k].nextAt <= t

(* cron_workload_summary: what makes the loop select the Cron pool.          *)
CronReady(t) ==
    \/ \E k \in DOMAIN runs : ReadyAt(k, t)
    \/ \E a \in DOMAIN schedules : Due(a, t)

StartFullPoll ==
    /\ poll.phase = "idle"
    /\ CronReady(now)
    /\ Cardinality(tasks) < Permits
    /\ poll' = [phase |-> "project", at |-> now, limit |-> Batch]
    /\ UNCHANGED <<now, versionVars, schedules, promotions, runs,
                   activationPins, runPins, tasks, lost, historyVars,
                   restarts, faults, delays>>

StartPoll ==
    /\ poll.phase = "idle"
    /\ CronReady(now)
    /\ Cardinality(tasks) < Permits
    /\ poll' = [phase |-> "project", at |-> now,
                limit |-> Smaller(Batch, Permits - Cardinality(tasks))]
    /\ UNCHANGED <<now, versionVars, schedules, promotions, runs,
                   activationPins, runPins, tasks, lost, historyVars,
                   restarts, faults, delays>>

(* S is a prefix of length at most n of the set T in the order of rank, ties *)
(* in any order: ORDER BY rank, id LIMIT n with random ids.                  *)
IsPrefix(S, T, rank(_), n) ==
    /\ S \subseteq T
    /\ Cardinality(S) = Smaller(n, Cardinality(T))
    /\ \A x \in S, y \in T \ S : rank(x) <= rank(y)

(* project_due_cron_slots: at most one run per due schedule, its newest slot *)
(* in the grace window, inserted unless it exists; the schedule moves past   *)
(* the time of the pass.                                                     *)
ProjectDueCronSlots ==
    /\ poll.phase = "project"
    /\ \E S \in SUBSET DOMAIN schedules :
         \E next \in [S -> SlotTimes] :
           LET t == poll.at
               Next(a) == schedules[a].next
               due == {a \in DOMAIN schedules : Due(a, t)}
               new == {k \in Keys \ DOMAIN runs :
                         /\ ActivationOf(k) \in S
                         /\ k[3] \in DueSlots(ActivationOf(k), t)}
               VersionOf(k) == schedules[ActivationOf(k)].version
           IN /\ IsPrefix(S, due, Next, poll.limit)
              /\ \A a \in S : next[a] \in NextAfter(a[2], t)
              /\ schedules' = [a \in DOMAIN schedules |->
                    IF a \in S
                    THEN [version |-> schedules[a].version, next |-> next[a]]
                    ELSE schedules[a]]
              /\ runs' = [k \in DOMAIN runs \cup new |->
                    IF k \in DOMAIN runs THEN runs[k]
                    ELSE [state |-> "ready", attempt |-> 0, nextAt |-> k[3],
                          deadline |-> Undispatched, completedAt |-> 0,
                          version |-> VersionOf(k)]]
              /\ runPins' = runPins \cup {<<VersionOf(k), k>> : k \in new}
              /\ fired' = fired \cup new
    /\ poll' = [phase |-> "gc", at |-> poll.at, limit |-> poll.limit]
    /\ UNCHANGED <<now, versionVars, promotions, activationPins, tasks, lost,
                   starts, restarts, faults, delays>>

(* gc_cron_history: terminal runs that are too old, or not among the newest  *)
(* HistoryLimit terminal runs of their activation, are deleted.              *)
GcCronHistory ==
    /\ poll.phase = "gc"
    /\ \E newest \in SUBSET DOMAIN runs :
         LET History(a) == {k \in DOMAIN runs :
                               IsTerminal(k) /\ ActivationOf(k) = a}
             Age(k) == 0 - runs[k].completedAt
             keep == {k \in DOMAIN runs :
                        \/ ~IsTerminal(k)
                        \/ /\ k \in newest
                           /\ runs[k].completedAt >= poll.at - Retention}
         IN /\ \A k \in newest : IsTerminal(k)
            /\ \A a \in Activations :
                 IsPrefix(newest \cap History(a), History(a), Age, HistoryLimit)
            /\ runs' = [k \in keep |-> runs[k]]
            /\ runPins' = {p \in runPins : p[2] \in keep}
    /\ poll' = [phase |-> "claim", at |-> poll.at, limit |-> poll.limit]
    /\ UNCHANGED <<now, versionVars, schedules, promotions, activationPins,
                   tasks, lost, historyVars, restarts, faults, delays>>

(* The budget sweep of claim_cron_runs: a run that was dispatched before and *)
(* has no time or no attempt left.                                           *)
IsExhausted(k, t) ==
    /\ runs[k].state = "ready"
    /\ runs[k].deadline # Undispatched
    /\ runs[k].attempt >= MaxRetries + 1

IsSpent(k, t) ==
    /\ runs[k].state = "ready"
    /\ runs[k].deadline # Undispatched
    /\ runs[k].deadline <= t \/ runs[k].attempt >= MaxRetries + 1

Claimable(k, t) ==
    /\ ReadyAt(k, t)
    /\ runs[k].attempt < MaxRetries + 1
    /\ runs[k].deadline = Undispatched \/ runs[k].deadline > t

(* The row r with the columns a transition may write.                        *)
Update(r, state, attempt, nextAt, deadline, completedAt) ==
    [state |-> state, attempt |-> attempt, nextAt |-> nextAt,
     deadline |-> deadline, completedAt |-> completedAt, version |-> r.version]

Fail(r, t) == Update(r, "failed", r.attempt, 0, r.deadline, t)

ClaimRow(r, t) ==
    Update(r, "claimed", r.attempt + 1, 0,
           IF r.deadline = Undispatched THEN t + Window ELSE r.deadline, 0)

(* claim_cron_runs: spent runs fail and lose their pin, then at most limit   *)
(* due runs are claimed. Claiming consumes the attempt, and the first claim  *)
(* fixes the deadline. Each claimed run becomes a delivery task.             *)
ClaimCronRuns ==
    /\ poll.phase = "claim"
    /\ \E S \in SUBSET DOMAIN runs :
         LET t == poll.at
             NextAt(k) == runs[k].nextAt
             spent == {k \in DOMAIN runs : IsSpent(k, t)}
             due == {k \in DOMAIN runs : Claimable(k, t)}
         IN /\ IsPrefix(S, due, NextAt, poll.limit)
            /\ runs' = [k \in DOMAIN runs |->
                           IF k \in spent THEN Fail(runs[k], t)
                           ELSE IF k \in S THEN ClaimRow(runs[k], t)
                           ELSE runs[k]]
            /\ runPins' = {p \in runPins : p[2] \notin spent}
            /\ tasks' = tasks \cup
                  {[run |-> k, attempt |-> ClaimRow(runs[k], t).attempt,
                    deadline |-> ClaimRow(runs[k], t).deadline,
                    phase |-> "spawned", until |-> 0] : k \in S}
    /\ poll' = Idle
    /\ UNCHANGED <<now, versionVars, schedules, promotions, activationPins,
                   lost, historyVars, restarts, faults, delays>>

(* A storage error ends the pass; what it committed stays.                   *)
PollFails ==
    /\ poll.phase # "idle"
    /\ faults < MaxFaults
    /\ faults' = faults + 1
    /\ poll' = Idle
    /\ UNCHANGED <<now, versionVars, schedules, promotions, runs,
                   activationPins, runPins, tasks, lost, historyVars, restarts, delays>>

-----------------------------------------------------------------------------
(* Delivery: one task per claimed run.                                       *)

(* The task t goes on to another phase, with a time-out if it waits.         *)
Move(t, phase, until) ==
    tasks' = (tasks \ {t}) \cup
                {[run |-> t.run, attempt |-> t.attempt, deadline |-> t.deadline,
                  phase |-> phase, until |-> until]}

(* dispatch_cron_attempt up to the call of the handler: the version of the   *)
(* run and its declaration are read back.                                    *)
LookupAuthority(t) ==
    /\ t.phase = "spawned"
    /\ version[runs[t.run].version] # "tombstoned"
    /\ Move(t, "running", now + Smaller(Lease, Larger(t.deadline - now, 0)))
    /\ starts' = [starts EXCEPT ![t.run] = starts[t.run] + 1]
    /\ UNCHANGED <<now, versionVars, schedules, promotions, runs,
                   activationPins, runPins, poll, lost, fired, restarts, faults, delays>>

(* The lookup finds no declaration, or fails.                                *)
LookupFails(t) ==
    /\ t.phase = "spawned"
    /\ \/ version[runs[t.run].version] = "tombstoned" /\ UNCHANGED faults
       \/ faults < MaxFaults /\ faults' = faults + 1
    /\ Move(t, "unknown", t.until)
    /\ UNCHANGED <<now, versionVars, schedules, promotions, runs,
                   activationPins, runPins, poll, lost, historyVars, restarts, delays>>

(* The handler answers, or the transport loses the answer.                   *)
HandlerEnds(t, outcome) ==
    /\ t.phase = "running"
    /\ outcome \in {"ok", "exception", "noRetry", "unknown"}
    /\ Move(t, outcome, t.until)
    /\ UNCHANGED <<now, versionVars, schedules, promotions, runs,
                   activationPins, runPins, poll, lost, historyVars, restarts,
                   faults, delays>>

(* dispatch_cron_run: the delivery timeout.                                  *)
DeliveryTimeout(t) ==
    /\ t.phase = "running"
    /\ now >= t.until
    /\ Move(t, "unknown", t.until)
    /\ UNCHANGED <<now, versionVars, schedules, promotions, runs,
                   activationPins, runPins, poll, lost, historyVars, restarts,
                   faults, delays>>

ReadyRow(r, t) == Update(r, "ready", r.attempt, t, r.deadline, 0)

CompletedRowAlways(r, t) ==
    LET retryAt == now + RetryDelay[t.attempt]
    IN  IF t.phase = "ok"
        THEN Update(r, "complete", t.attempt, 0, r.deadline, now)
        ELSE IF t.attempt < MaxRetries + 1 /\ retryAt < t.deadline
        THEN Update(r, "ready", t.attempt, retryAt, r.deadline, 0)
        ELSE Update(r, "failed", t.attempt, 0, r.deadline, now)

(* The row complete_cron_run writes: it decides by the attempt and the       *)
(* deadline the task carries and writes that attempt back.                   *)
CompletedRow(r, t) ==
    LET retryAt == now + RetryDelay[t.attempt]
    IN  IF t.phase = "ok"
        THEN Update(r, "complete", t.attempt, 0, r.deadline, now)
        ELSE IF /\ t.phase = "exception"
                /\ t.attempt < MaxRetries + 1
                /\ retryAt < t.deadline
        THEN Update(r, "ready", t.attempt, retryAt, r.deadline, 0)
        ELSE Update(r, "failed", t.attempt, 0, r.deadline, now)

(* The row mark_cron_unknown writes: it decides by the stored attempt.       *)
UnknownRowFree(r, t, retries) ==
    IF r.attempt < retries + 1 /\ r.deadline > t + UnknownDelay
    THEN Update(r, "ready", r.attempt - 1, t + UnknownDelay, r.deadline, 0)
    ELSE Fail(r, t)

UnknownRow(r, t, retries) ==
    IF r.attempt < retries + 1 /\ r.deadline > t + UnknownDelay
    THEN ReadyRow(r, t + UnknownDelay)
    ELSE Fail(r, t)

(* A write of a run's new row; a terminal row releases its pin (trigger      *)
(* cron_runs_pin_terminal). A run that is not claimed any more is stale and  *)
(* left alone.                                                               *)
WriteRowOnly(k, row) ==
    /\ k \in DOMAIN runs /\ runs[k].state = "claimed"
    /\ runs' = [runs EXCEPT ![k] = row]
    /\ UNCHANGED runPins

WriteRow(k, row) ==
    IF k \in DOMAIN runs /\ runs[k].state = "claimed"
    THEN /\ runs' = [runs EXCEPT ![k] = row]
         /\ runPins' = IF row.state \in Terminal
                       THEN {p \in runPins : p[2] # k} ELSE runPins
    ELSE UNCHANGED <<runs, runPins>>

(* complete_cron_run.                                                        *)
CompleteCronRun(t) ==
    /\ t.phase \in {"ok", "exception", "noRetry"}
    /\ WriteRow(t.run, CompletedRow(runs[t.run], t))
    /\ tasks' = tasks \ {t}
    /\ UNCHANGED <<now, versionVars, schedules, promotions, activationPins,
                   poll, lost, historyVars, restarts, faults, delays>>

(* mark_cron_unknown.                                                        *)
MarkCronUnknown(t) ==
    /\ t.phase = "unknown"
    /\ WriteRow(t.run, UnknownRow(runs[t.run], now, MaxRetries))
    /\ tasks' = tasks \ {t}
    /\ UNCHANGED <<now, versionVars, schedules, promotions, activationPins,
                   poll, lost, historyVars, restarts, faults, delays>>

(* The write of a result fails: it is logged, and the task is gone.          *)
ResultNotWritten(t) ==
    /\ t.phase \notin {"spawned", "running"}
    /\ faults < MaxFaults
    /\ faults' = faults + 1
    /\ tasks' = tasks \ {t}
    /\ lost' = lost \cup {t.run}
    /\ UNCHANGED <<now, versionVars, schedules, promotions, runs,
                   activationPins, runPins, poll, historyVars, restarts, delays>>

-----------------------------------------------------------------------------
(* The process dies and starts again: recover_deleting_versions finishes     *)
(* interrupted version deletions, reset_claims takes back every claim. The   *)
(* wall clock of the new process may be behind the old one.                  *)
Restart(t) ==
    /\ restarts < MaxRestarts
    /\ restarts' = restarts + 1
    /\ t \in Larger(0, now - StepBack)..now
    /\ now' = t
    /\ version' = [v \in Versions |->
                      IF version[v] = "deleting" /\ ~Referenced(v)
                      THEN "tombstoned" ELSE version[v]]
    /\ runs' = [k \in DOMAIN runs |->
                   IF runs[k].state = "claimed"
                   THEN UnknownRow(runs[k], t, ResetRetries) ELSE runs[k]]
    /\ runPins' = {p \in runPins : runs'[p[2]].state \notin Terminal}
    /\ poll' = Idle
    /\ tasks' = {}
    /\ lost' = {}
    /\ UNCHANGED <<worker, active, deployed, schedules, promotions,
                   activationPins, historyVars, faults, delays>>

(* A step of the loop or of a task that does not wait for time to pass.      *)
Busy ==
    \/ poll.phase # "idle"
    \/ CronReady(now) /\ Cardinality(tasks) < Permits
    \/ \E t \in tasks : t.phase = "running" => now >= t.until

(* One unit of time passes; MaxDelays bounds how often it does while a step  *)
(* is due.                                                                   *)
Tick ==
    /\ now < MaxTime
    /\ now' = now + 1
    /\ delays' = IF Busy THEN delays + 1 ELSE delays
    /\ delays' <= MaxDelays
    /\ UNCHANGED <<versionVars, schedules, promotions, runs, activationPins,
                   runPins, poll, tasks, lost, historyVars, restarts, faults>>

-----------------------------------------------------------------------------
TaskStep(t) ==
    \/ LookupAuthority(t)
    \/ DeliveryTimeout(t)
    \/ CompleteCronRun(t)
    \/ MarkCronUnknown(t)

PollStep == StartPoll \/ ProjectDueCronSlots \/ GcCronHistory \/ ClaimCronRuns

Next ==
    \/ \E v \in Versions, t \in 0..MaxTime : Deploy(v, t)
    \/ \E v \in Versions \cup {NoVersion}, t \in 0..MaxTime : Quarantine(v, t)
    \/ DeleteWorker
    \/ \E v \in Versions : BeginVersionDelete(v) \/ FinalizeVersionDelete(v)
    \/ PollStep
    \/ PollFails
    \/ \E t \in tasks :
          \/ TaskStep(t)
          \/ LookupFails(t)
          \/ \E outcome \in {"ok", "exception", "noRetry", "unknown"} :
                HandlerEnds(t, outcome)
          \/ ResultNotWritten(t)
    \/ \E t \in 0..MaxTime : Restart(t)
    \/ Tick

Spec == Init /\ [][Next]_vars

(* Every task step and every claim step that stays enabled is taken, and     *)
(* time passes; nothing is assumed of handlers, promotions, deletions,       *)
(* faults and restarts.                                                      *)
Fairness ==
    /\ WF_vars(PollStep)
    /\ \A k \in Keys : WF_vars(\E t \in tasks : t.run = k /\ TaskStep(t))
    /\ WF_vars(Tick)

FairSpec == Spec /\ Fairness

-----------------------------------------------------------------------------
(* Properties.                                                               *)

Row == [state : {"ready", "claimed"} \cup Terminal, attempt : 0..4,
        nextAt : Nat, deadline : Nat \cup {Undispatched}, completedAt : Nat,
        version : Versions]
Task == [run : Keys, attempt : 1..4, deadline : Nat, until : Nat,
         phase : {"spawned", "running", "ok", "exception", "noRetry", "unknown"}]
Schedule == [version : Versions, next : Nat]

(* Type correctness of the rows, tasks and the claim pass.                   *)
TypeOK ==
    /\ now \in 0..MaxTime
    /\ worker \in {"live", "deleted"}
    /\ version \in [Versions -> VersionStates]
    /\ active \in Versions \cup {NoVersion}
    /\ deployed \subseteq Versions
    /\ DOMAIN schedules \subseteq Activations
    /\ \A a \in DOMAIN schedules : schedules[a] \in Schedule
    /\ promotions \in 0..MaxPromotions
    /\ DOMAIN runs \subseteq Keys
    /\ \A k \in DOMAIN runs : runs[k] \in Row
    /\ activationPins \subseteq Versions \X Activations
    /\ runPins \subseteq Versions \X Keys
    /\ poll.phase \in {"idle", "project", "gc", "claim"}
    /\ poll.at \in 0..MaxTime
    /\ tasks \subseteq Task
    /\ lost \subseteq Keys
    /\ fired \subseteq Keys
    /\ starts \in [Keys -> Nat]
    /\ restarts \in 0..MaxRestarts
    /\ faults \in 0..MaxFaults
    /\ delays \in 0..MaxDelays

(* A completion is fenced by the run's id and state alone (delivery.rs, no   *)
(* claim token), yet a late result never lands on a newer claim: a claimed   *)
(* run has exactly one task, carrying the row's attempt and deadline, except *)
(* a run whose result this process failed to write, which has none and stays *)
(* claimed until the next start.                                             *)
TaskOwnsClaim ==
    /\ \A t \in tasks :
          /\ t.run \in DOMAIN runs
          /\ runs[t.run].state = "claimed"
          /\ runs[t.run].attempt = t.attempt
          /\ runs[t.run].deadline = t.deadline
          /\ t.run \notin lost
    /\ \A t, u \in tasks : t.run = u.run => t = u
    /\ \A k \in lost : k \in DOMAIN runs /\ runs[k].state = "claimed"
    /\ \A k \in DOMAIN runs : runs[k].state = "claimed" =>
          k \in lost \/ \E t \in tasks : t.run = k

(* The pool never runs more deliveries than its permits, although the claim  *)
(* limit is read before the three transactions of the pass.                  *)
PermitsKept ==
    /\ Cardinality(tasks) <= Permits
    /\ poll.phase # "idle" => poll.limit + Cardinality(tasks) <= Permits

(* cron_max_retries bounds the handler starts of a slot for good: neither    *)
(* unknown results nor restarts, whose reset assumes a budget of three       *)
(* retries, nor the collection of its row give a slot another start.         *)
HandlerBudget == \A k \in Keys : starts[k] <= MaxRetries + 1

(* The two kinds of Cron referrers are exact after any sequence of           *)
(* promotions, deliveries, collections and restarts: an activation pins its  *)
(* version while it exists, a run while it may still be delivered. A missing *)
(* pin would let the version go, a leaked one would keep it forever.         *)
PinsExact ==
    /\ activationPins = {<<schedules[a].version, a>> : a \in DOMAIN schedules}
    /\ runPins = {<<runs[k].version, k>> :
                     k \in {j \in DOMAIN runs : ~IsTerminal(j)}}

(* The version of every schedule and of every run that may still be          *)
(* delivered is ready: deleting a version and promoting one, projecting a    *)
(* slot or retrying a run can not cross.                                     *)
ScheduledVersionIsReady ==
    /\ \A a \in DOMAIN schedules : version[schedules[a].version] = "ready"
    /\ \A k \in DOMAIN runs :
          ~IsTerminal(k) => version[runs[k].version] = "ready"

(* A slot of an activation is projected once, although history collection    *)
(* deletes the row that the unique index would reject, and although the wall *)
(* clock may be set back by a restart.                                       *)
SlotFiresOnce ==
    [][\A k \in DOMAIN runs' \ DOMAIN runs : k \notin fired]_vars

(* A run ends: it is delivered, fails, or its retry budget or its deadline   *)
(* runs out; only a run whose result could not be written stays claimed.     *)
RunEnds ==
    \A k \in Keys :
       (k \in DOMAIN runs /\ ~IsTerminal(k)) ~>
           (k \notin DOMAIN runs \/ IsTerminal(k) \/ k \in lost)

(* How far the claim of a run is, by the phase of its task.                  *)
PhaseStage ==
    [spawned |-> "offered", running |-> "called", ok |-> "final",
     noRetry |-> "final", exception |-> "open", unknown |-> "open"]

(* How far a slot is, read from its row, its task and the history of firings.*)
SlotStage(k) ==
    CASE k \notin fired -> "none"
      [] k \in fired /\ (k \in DOMAIN runs => IsTerminal(k)) -> "ended"
      [] k \in lost -> "unrecorded"
      [] k \in DOMAIN runs /\ runs[k].state = "ready" ->
           IF runs[k].deadline = Undispatched THEN "waiting" ELSE "retrying"
      [] OTHER -> PhaseStage[(CHOOSE t \in tasks : t.run = k).phase]

SlotStages == [k \in Keys |-> SlotStage(k)]

Contract ==
    INSTANCE CronContract WITH
        stage <- SlotStages, calls <- starts, MaxCalls <- MaxRetries + 1

(* Cron implements CronContract: promotions, claim passes, late answers,     *)
(* failed writes, collection and restarts neither drop a slot before its     *)
(* first offer, nor retry a recorded success or refusal, nor revive an ended *)
(* slot, nor call a handler outside its claim or past its budget.            *)
KeepsSlotContract == Contract!Spec

=============================================================================
