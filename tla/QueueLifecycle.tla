--------------------------- MODULE QueueLifecycle ---------------------------
(***************************************************************************)
(* The life of one Queue across its two authorities: the control row       *)
(* (queues) and the scheduler's projection of it (queue_state).            *)
(* QueueController keeps them together with no transaction that spans      *)
(* both: create, update_config and delete are sequences of store calls,    *)
(* and reconcile_pending finishes at startup what a crash interrupted.     *)
(*                                                                         *)
(* A process is an API call or Boot, the reconciliation of a starting      *)
(* daemon.  Each action is one store transaction of one process; pc names  *)
(* the call it makes next.  A call whose store call fails returns the      *)
(* error and undoes nothing; a failed reconciliation stops the daemon.     *)
(* Queue ids are never reused, so one Queue is created at most once.       *)
(***************************************************************************)
EXTENDS Integers

CONSTANTS
    Calls,       \* API calls that may run at the same time
    Boot,        \* reconcile_pending, before the daemon serves
    Configs,     \* QueueConfig values
    MaxGen,      \* bound on config generations
    MaxBacklog,  \* bound on messages, and on gated operations
    MaxCrashes   \* bound on crashes

ASSUME ProcessAssumption == Boot \notin Calls

ASSUME BoundAssumption ==
    MaxGen \in Nat \ {0} /\ MaxBacklog \in Nat /\ MaxCrashes \in Nat

Procs == Calls \cup {Boot}

VARIABLES
    ctl,        \* the row of queues
    sch,        \* the row of queue_state
    rows,       \* the Queue's messages and unfinalized output-gate operations
    referrers,  \* queue_referrers: who is bound to the Queue
    auth,       \* config generation a send was authorized under, 0 if none
    pc, seen,   \* each process: its next store call, and the record it works from
    crashes

vars == <<ctl, sch, rows, referrers, auth, pc, seen, crashes>>
stores == <<ctl, sch, rows, referrers>>

-----------------------------------------------------------------------------
(* Rows.                                                                   *)

Codes == {"healthy", "QUEUE_PROJECTION_PENDING", "QUEUE_CONFIG_PENDING",
          "QUEUE_DELETE_PENDING", "QUEUE_DELETED"}

\* availability and availability_code are one field.
Control ==
    [state : {"none", "creating", "ready", "deleting", "tombstoned"},
     code : Codes, gen : 0 .. MaxGen, config : Configs]

Projection ==
    [state : {"absent", "accepting", "configuring", "deleting"},
     gen : 0 .. MaxGen, config : Configs]

Seen == [gen : 0 .. MaxGen, config : Configs]

CallSteps ==
    {"create_projection", "verify_projection", "mark_ready",
     "begin_config", "write_pending", "project_config",
     "mark_healthy", "finish_config",
     "metrics", "begin_delete", "fence_delete", "purge", "delete_projection",
     "mark_tombstoned"}

BootSteps == {"list_reconcile", "ensure_projection", "reconcile_config", "stopped"}

Rows(ready, claimed, gated) ==
    [ready |-> ready, claimed |-> claimed, gated |-> gated]

TypeOK ==
    /\ ctl \in Control
    /\ sch \in Projection
    /\ rows \in [ready : 0 .. MaxBacklog, claimed : 0 .. MaxBacklog,
                 gated : 0 .. MaxBacklog]
    /\ referrers \subseteq {"producer", "consumer"}
    /\ auth \in 0 .. MaxGen
    /\ pc \in [Procs -> {"idle"} \cup CallSteps \cup BootSteps]
    /\ seen \in [Procs -> Seen]
    /\ crashes \in 0 .. MaxCrashes

Healthy == ctl.state = "ready" /\ ctl.code = "healthy"

Serving == pc[Boot] = "idle"

Init ==
    \E c \in Configs :
        /\ ctl = [state |-> "none", code |-> "healthy", gen |-> 0, config |-> c]
        /\ sch = [state |-> "absent", gen |-> 0, config |-> c]
        /\ rows = Rows(0, 0, 0)
        /\ referrers = {}
        /\ auth = 0
        /\ pc = [p \in Procs |-> "idle"]
        /\ seen = [p \in Procs |-> [gen |-> 0, config |-> c]]
        /\ crashes = 0

-----------------------------------------------------------------------------
(* Steps of a process.                                                     *)

Goto(p, step) == pc' = [pc EXCEPT ![p] = step]

\* The error of a store call ends the call; Boot's error ends the daemon.
Fail(p) == Goto(p, IF p = Boot THEN "stopped" ELSE "idle")

\* Process p, at step `at`, makes a store call on the control row that applies
\* when `ok` holds and leaves the row `row`.
ControlCall(p, at, ok, row, next) ==
    /\ pc[p] = at
    /\ IF ok THEN ctl' = row /\ Goto(p, next)
             ELSE UNCHANGED ctl /\ Fail(p)
    /\ UNCHANGED <<sch, rows, referrers, auth, crashes>>

SchedulerCall(p, at, ok, row, next) ==
    /\ pc[p] = at
    /\ IF ok THEN sch' = row /\ Goto(p, next)
             ELSE UNCHANGED sch /\ Fail(p)
    /\ UNCHANGED <<ctl, rows, referrers, auth, crashes>>

\* The rows with another state or code.
ControlAs(state, code) ==
    [state |-> state, code |-> code, gen |-> ctl.gen, config |-> ctl.config]

ProjectionAs(state) == [state |-> state, gen |-> sch.gen, config |-> sch.config]

Observe(p, gen, config) == seen' = [seen EXCEPT ![p] = [gen |-> gen, config |-> config]]

-----------------------------------------------------------------------------
(* create.                                                                 *)

\* reserve_create: a fresh id, the first generation, not yet projected.
ReserveCreate(p, config) ==
    /\ Serving /\ pc[p] = "idle"
    /\ ctl.state = "none"
    /\ ctl' = [state |-> "creating", code |-> "QUEUE_PROJECTION_PENDING",
               gen |-> 1, config |-> config]
    /\ Goto(p, "create_projection")
    /\ Observe(p, 1, config)
    /\ UNCHANGED <<sch, rows, referrers, auth, crashes>>

Accepting(p) ==
    [state |-> "accepting", gen |-> seen[p].gen, config |-> seen[p].config]

CreateProjection(p) ==
    /\ SchedulerCall(p, "create_projection", sch.state = "absent", Accepting(p),
                     "verify_projection")
    /\ UNCHANGED seen

VerifyProjection(p) ==
    /\ SchedulerCall(p, "verify_projection", sch = Accepting(p), sch, "mark_ready")
    /\ UNCHANGED seen

\* The last step of a create, and of its reconciliation.
MarkReady(p) ==
    /\ ControlCall(p, "mark_ready", ctl.state = "creating" /\ ctl.gen = 1,
                   ControlAs("ready", "healthy"), "idle")
    /\ UNCHANGED seen

-----------------------------------------------------------------------------
(* update_config.                                                          *)

\* resolve_queue and get: any Queue that is not tombstoned can be named.
StartUpdate(p, config) ==
    /\ Serving /\ pc[p] = "idle"
    /\ ctl.state \notin {"none", "tombstoned"}
    /\ ctl.gen < MaxGen
    /\ config # ctl.config
    /\ Goto(p, "begin_config")
    /\ Observe(p, ctl.gen, config)
    /\ UNCHANGED <<stores, auth, crashes>>

\* Mutant: the fence is left to whoever holds the Queue open.
BeginNoFence(p) ==
    /\ SchedulerCall(p, "begin_config",
          sch.state \in {"accepting", "configuring"} /\ sch.gen = seen[p].gen,
          sch, "write_pending")
    /\ UNCHANGED seen

BeginConfig(p) ==
    /\ SchedulerCall(p, "begin_config",
          sch.state \in {"accepting", "configuring"} /\ sch.gen = seen[p].gen,
          ProjectionAs("configuring"), "write_pending")
    /\ UNCHANGED seen

\* Mutant: the generation is not compared.
WritePendingAny(p) ==
    /\ ControlCall(p, "write_pending", Healthy,
          [state |-> "ready", code |-> "QUEUE_CONFIG_PENDING",
           gen |-> seen[p].gen + 1, config |-> seen[p].config], "project_config")
    /\ Observe(p, seen[p].gen + 1, seen[p].config)

WriteConfigPending(p) ==
    /\ ControlCall(p, "write_pending", Healthy /\ ctl.gen = seen[p].gen,
          [state |-> "ready", code |-> "QUEUE_CONFIG_PENDING",
           gen |-> seen[p].gen + 1, config |-> seen[p].config], "project_config")
    /\ Observe(p, seen[p].gen + 1, seen[p].config)

ProjectConfig(p) ==
    /\ SchedulerCall(p, "project_config",
          sch.state = "configuring" /\ sch.gen = seen[p].gen - 1,
          [state |-> "configuring", gen |-> seen[p].gen, config |-> seen[p].config],
          "mark_healthy")
    /\ UNCHANGED seen

MarkConfigHealthy(p) ==
    /\ ControlCall(p, "mark_healthy",
          /\ ctl.state = "ready" /\ ctl.code = "QUEUE_CONFIG_PENDING"
          /\ ctl.gen = seen[p].gen,
          ControlAs("ready", "healthy"), "finish_config")
    /\ UNCHANGED seen

\* Mutant: only the generation is compared.
FinishAny(p) ==
    /\ SchedulerCall(p, "finish_config", sch.gen = seen[p].gen,
          ProjectionAs("accepting"), "idle")
    /\ UNCHANGED seen

FinishConfig(p) ==
    /\ SchedulerCall(p, "finish_config",
          sch.state \in {"configuring", "accepting"} /\ sch.gen = seen[p].gen,
          ProjectionAs("accepting"), "idle")
    /\ UNCHANGED seen

-----------------------------------------------------------------------------
(* delete, as the API calls it: with force.                                *)

StartDelete(p) ==
    /\ Serving /\ pc[p] = "idle"
    /\ ctl.state \notin {"none", "tombstoned"}
    /\ Goto(p, "metrics")
    /\ Observe(p, ctl.gen, ctl.config)
    /\ UNCHANGED <<stores, auth, crashes>>

\* queue_metrics: only an accepting projection of that generation has metrics.
Metrics(p) ==
    /\ SchedulerCall(p, "metrics", sch.state = "accepting" /\ sch.gen = seen[p].gen,
                     sch, "begin_delete")
    /\ UNCHANGED seen

\* Mutant: a bound Queue is deleted too.
BeginDeleteBound(p) ==
    /\ ControlCall(p, "begin_delete", Healthy,
          ControlAs("deleting", "QUEUE_DELETE_PENDING"),
          "fence_delete")
    /\ UNCHANGED seen

BeginDelete(p) ==
    /\ ControlCall(p, "begin_delete", referrers = {} /\ Healthy,
          ControlAs("deleting", "QUEUE_DELETE_PENDING"),
          "fence_delete")
    /\ UNCHANGED seen

FenceDelete(p) ==
    /\ SchedulerCall(p, "fence_delete", sch.state # "absent",
                     ProjectionAs("deleting"), "purge")
    /\ UNCHANGED seen

\* Mutant: only messages keep the loop going.
PurgeMessages(p) ==
    /\ pc[p] = "purge"
    /\ \E k \in 0 .. rows.ready :
          /\ rows.ready > 0 => k > 0
          /\ rows' = Rows(rows.ready - k, rows.claimed, rows.gated)
    /\ Goto(p, IF rows'.ready + rows'.claimed > 0
               THEN "purge" ELSE "delete_projection")
    /\ UNCHANGED <<ctl, sch, referrers, auth, seen, crashes>>

\* Mutant: the bounded DELETE finds nothing.
PurgeNothing(p) ==
    /\ pc[p] = "purge"
    /\ Goto(p, IF rows.ready + rows.claimed + rows.gated > 0
               THEN "purge" ELSE "delete_projection")
    /\ UNCHANGED <<stores, auth, seen, crashes>>

\* purge_queue: one bounded transaction, repeated while a message or an
\* operation remains.  It deletes ready messages and finalized operations only.
Purge(p) ==
    /\ pc[p] = "purge"
    /\ \E k \in 0 .. rows.ready :
          /\ rows.ready > 0 => k > 0
          /\ rows' = Rows(rows.ready - k, rows.claimed, rows.gated)
    /\ Goto(p, IF rows'.ready + rows'.claimed + rows'.gated > 0
               THEN "purge" ELSE "delete_projection")
    /\ UNCHANGED <<ctl, sch, referrers, auth, seen, crashes>>

DeleteProjection(p) ==
    /\ SchedulerCall(p, "delete_projection",
          sch.state = "deleting" /\ rows.ready + rows.claimed = 0,
          ProjectionAs("absent"), "mark_tombstoned")
    /\ UNCHANGED seen

MarkTombstoned(p) ==
    /\ ControlCall(p, "mark_tombstoned", ctl.state = "deleting",
          ControlAs("tombstoned", "QUEUE_DELETED"), "idle")
    /\ UNCHANGED seen

-----------------------------------------------------------------------------
(* reconcile_pending: Boot lists what is pending, then takes the steps of  *)
(* the interrupted call, with two of its own.                              *)

\* Mutant: an update is resumed where the scheduler would be projected.
ReconcileLater ==
    CASE ctl.state = "creating" -> "ensure_projection"
      [] ctl.state = "ready" /\ ctl.code = "QUEUE_CONFIG_PENDING" -> "mark_healthy"
      [] ctl.state = "deleting" -> "fence_delete"
      [] OTHER -> "idle"

\* Mutant: only creates and deletes are listed.
ReconcileLifecycle ==
    CASE ctl.state = "creating" -> "ensure_projection"
      [] ctl.state = "deleting" -> "fence_delete"
      [] OTHER -> "idle"

ReconcileStep ==
    CASE ctl.state = "creating" -> "ensure_projection"
      [] ctl.state = "ready" /\ ctl.code = "QUEUE_CONFIG_PENDING" -> "reconcile_config"
      [] ctl.state = "deleting" -> "fence_delete"
      [] OTHER -> "idle"

ListReconcile ==
    /\ pc[Boot] = "list_reconcile"
    /\ Goto(Boot, ReconcileStep)
    /\ Observe(Boot, ctl.gen, ctl.config)
    /\ UNCHANGED <<stores, auth, crashes>>

\* Mutant: a plain INSERT.
EnsureInserts ==
    /\ SchedulerCall(Boot, "ensure_projection", sch.state = "absent",
                     Accepting(Boot), "mark_ready")
    /\ UNCHANGED seen

\* ensure_queue_projection: INSERT OR IGNORE, then verify.
EnsureProjection ==
    /\ SchedulerCall(Boot, "ensure_projection", sch.state = "absent" \/ sch = Accepting(Boot),
                     Accepting(Boot), "mark_ready")
    /\ UNCHANGED seen

ReconcileConfig ==
    LET s == seen[Boot] IN
    /\ SchedulerCall(Boot, "reconcile_config",
          /\ sch.state \in {"accepting", "configuring"}
          /\ \/ sch.gen = s.gen - 1
             \/ sch.gen = s.gen /\ sch.config = s.config,
          IF sch.gen = s.gen THEN sch
          ELSE [state |-> "configuring", gen |-> s.gen, config |-> s.config],
          "mark_healthy")
    /\ UNCHANGED seen

\* A crash ends every process; the next daemon opens the store, which returns
\* every claim (some messages are then dead-lettered or deleted), and reconciles.
Crash ==
    /\ crashes < MaxCrashes
    /\ crashes' = crashes + 1
    /\ pc' = [p \in Procs |-> IF p = Boot THEN "list_reconcile" ELSE "idle"]
    /\ \E k \in 0 .. rows.claimed :
          rows' = Rows(rows.ready + k, 0, rows.gated)
    /\ auth' = 0
    /\ UNCHANGED <<ctl, sch, referrers, seen>>

-----------------------------------------------------------------------------
(* Traffic: bindings, producers and consumers of a serving daemon.         *)

\* A deployment binds a ready Queue; a Worker or version deletion unbinds it.
Bind(r) ==
    /\ Serving /\ Healthy
    /\ r \notin referrers
    /\ referrers' = referrers \cup {r}
    /\ UNCHANGED <<ctl, sch, rows, auth, pc, seen, crashes>>

Unbind(r) ==
    /\ Serving
    /\ r \in referrers
    /\ referrers' = referrers \ {r}
    /\ UNCHANGED <<ctl, sch, rows, auth, pc, seen, crashes>>

Authorized == Healthy /\ "producer" \in referrers

\* A send reads the control row in one transaction ...
Authorize ==
    /\ Serving /\ auth = 0 /\ Authorized
    /\ auth' = ctl.gen
    /\ UNCHANGED <<stores, pc, seen, crashes>>

\* ... and inserts in another, where the projection decides.  A Durable Object's
\* send leaves an operation open until the object has committed.
Enqueue(gate) ==
    /\ Serving /\ auth # 0
    /\ auth' = 0
    /\ IF sch.state = "accepting" /\ sch.gen = auth
       THEN /\ rows.ready + rows.claimed < MaxBacklog /\ rows.gated + gate <= MaxBacklog
            /\ rows' = Rows(rows.ready + 1, rows.claimed, rows.gated + gate)
       ELSE UNCHANGED rows
    /\ UNCHANGED <<ctl, sch, referrers, pc, seen, crashes>>

\* finalize_queue_enqueue, authorized like a send.
Finalize ==
    /\ Serving /\ Authorized
    /\ rows.gated > 0
    /\ rows' = Rows(rows.ready, rows.claimed, rows.gated - 1)
    /\ UNCHANGED <<ctl, sch, referrers, auth, pc, seen, crashes>>

Claim ==
    /\ Serving /\ "consumer" \in referrers
    /\ rows.ready > 0
    /\ rows' = Rows(rows.ready - 1, rows.claimed + 1, rows.gated)
    /\ UNCHANGED <<ctl, sch, referrers, auth, pc, seen, crashes>>

\* A completion acknowledges a message or returns it.
Complete(retry) ==
    /\ Serving
    /\ rows.claimed > 0
    /\ rows' = Rows(rows.ready + retry, rows.claimed - 1, rows.gated)
    /\ UNCHANGED <<ctl, sch, referrers, auth, pc, seen, crashes>>

Expire ==
    /\ Serving
    /\ rows.ready > 0
    /\ rows' = Rows(rows.ready - 1, rows.claimed, rows.gated)
    /\ UNCHANGED <<ctl, sch, referrers, auth, pc, seen, crashes>>

-----------------------------------------------------------------------------
Step(p) ==
    \/ CreateProjection(p) \/ VerifyProjection(p) \/ MarkReady(p)
    \/ BeginConfig(p) \/ WriteConfigPending(p) \/ ProjectConfig(p)
    \/ MarkConfigHealthy(p) \/ FinishConfig(p)
    \/ Metrics(p) \/ BeginDelete(p) \/ FenceDelete(p)
    \/ Purge(p) \/ DeleteProjection(p) \/ MarkTombstoned(p)

Reconcile == ListReconcile \/ EnsureProjection \/ ReconcileConfig \/ Step(Boot)

Next ==
    \/ \E p \in Calls, c \in Configs : ReserveCreate(p, c) \/ StartUpdate(p, c)
    \/ \E p \in Calls : StartDelete(p) \/ Step(p)
    \/ Reconcile
    \/ Crash
    \/ \E r \in {"producer", "consumer"} : Bind(r) \/ Unbind(r)
    \/ Authorize
    \/ \E gate \in {0, 1} : Enqueue(gate)
    \/ Finalize
    \/ Claim
    \/ \E retry \in {0, 1} : Complete(retry)
    \/ Expire

Spec == Init /\ [][Next]_vars

\* Calls and the reconciliation run on; a claimed batch ends by its timeout.
FairSpec ==
    /\ Spec
    /\ \A p \in Calls : WF_vars(Step(p))
    /\ WF_vars(Reconcile)
    /\ WF_vars(\E retry \in {0, 1} : Complete(retry))

-----------------------------------------------------------------------------
(* Properties.                                                             *)

\* The projection never runs ahead of the control row, is at most one config
\* generation behind it, and holds the same config under the same generation,
\* whatever updates, deletes and crashes interleave.
ProjectionFollows ==
    sch.state # "absent" =>
        /\ ctl.gen \in {sch.gen, sch.gen + 1}
        /\ sch.gen = ctl.gen => sch.config = ctl.config

\* A Queue the control plane calls ready and healthy has a live projection of
\* its config generation: mark_ready and mark_config_healthy come after it, and
\* the delete fence after begin_delete.
HealthyIsProjected ==
    Healthy =>
        /\ sch.state \in {"accepting", "configuring"}
        /\ sch.gen = ctl.gen

\* A tombstoned Queue left nothing behind in the scheduler: no projection, no
\* message ready or in flight, no operation open, although sends authorized
\* earlier and completions still arrive while it is deleted.
TombstonedIsGone ==
    ctl.state = "tombstoned" =>
        /\ sch.state = "absent"
        /\ rows = Rows(0, 0, 0)

\* No deployment stays bound to a Queue on its way out: begin_delete refuses a
\* referrer and a binding needs a healthy Queue.
BoundIsLive ==
    referrers # {} => ctl.state = "ready"

\* The no-send fence of begin_queue_config: while the scheduler accepts sends,
\* it does so under the control row's config generation.
NoStaleConfig ==
    sch.state = "accepting" => sch.gen = ctl.gen

\* The reconciliation of a starting daemon fails in two situations only: a crash
\* fell between the removal of the projection and the tombstone, and fencing the
\* projection that is gone is refused; or an update fenced the projection of a
\* Queue whose create had not finished.  No other crash, of a create, an update
\* or a delete, leaves a state that stops the daemon.
StartupFailures ==
    pc[Boot] = "stopped" =>
        \/ ctl.state = "deleting" /\ sch.state = "absent"
        \/ ctl.state = "creating" /\ sch.state = "configuring"

\* A create that was reserved ends in a ready Queue, by its call or by the
\* reconciliation after a crash.
CreateConverges == ctl.state = "creating" ~> ctl.state # "creating"

\* A config written to the control row reaches the projection.
ConfigConverges ==
    ctl.code = "QUEUE_CONFIG_PENDING" ~> ctl.code # "QUEUE_CONFIG_PENDING"

\* The purge loop of a delete, or of its reconciliation, ends although sends and
\* completions still arrive, unless it meets an operation that was never
\* finalized: purge_queue keeps those, and a Queue being deleted finalizes none.
PurgeEndsUnlessGated ==
    \A p \in Procs : pc[p] = "purge" ~> pc[p] # "purge" \/ rows.gated > 0

Life ==
    INSTANCE LifecycleContract WITH
        life <- ctl.state,
        written <- [gen |-> ctl.gen, config |-> ctl.config],
        applied <- [gen |-> sch.gen, config |-> sch.config],
        intake <- sch.state,
        held <- [messages |-> rows.ready + rows.claimed, operations |-> rows.gated],
        bound <- referrers

\* The two authorities implement LifecycleContract: whatever calls overlap and
\* wherever crashes and reconciliations fall, the Queue lives through one create,
\* complete config changes and one delete; an intake closed by a delete stays
\* closed, and the Queue holds nothing when its projection goes.
KeepsLifecycleContract == Life!Spec

=============================================================================
