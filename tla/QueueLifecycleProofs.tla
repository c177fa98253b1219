------------------------ MODULE QueueLifecycleProofs ------------------------
(***************************************************************************)
(* For any number of overlapping calls and any number of crashes, the two  *)
(* authorities of a Queue stay within one config generation of each other  *)
(* and a tombstone leaves nothing behind; together they implement          *)
(* LifecycleContract.                                                      *)
(***************************************************************************)
EXTENDS QueueLifecycle, TLAPS

USE SMTT(60)

\* Steps only one process can be at: the creator, the call that wrote the
\* pending config, the deleter.
CreateSteps == {"create_projection", "verify_projection", "mark_ready", "ensure_projection"}
WriteSteps == {"project_config", "mark_healthy", "reconcile_config"}
DeleteSteps == {"fence_delete", "purge", "delete_projection", "mark_tombstoned"}

Live == sch.state \in {"accepting", "configuring"}

\* While the daemon is starting, no call runs, and only Boot takes its steps.
BootAlone ==
    /\ pc[Boot] # "idle" => \A p \in Calls : pc[p] = "idle"
    /\ \A p \in Calls : pc[p] \notin BootSteps

Exclusive ==
    \A p, r \in Procs :
        \/ pc[p] \in CreateSteps /\ pc[r] \in CreateSteps
        \/ pc[p] \in WriteSteps /\ pc[r] \in WriteSteps
        \/ pc[p] \in DeleteSteps /\ pc[r] \in DeleteSteps
        => p = r

\* What the state of the control row says about the projection.
RowShape ==
    /\ ctl.state = "none" =>
          /\ ctl.gen = 0 /\ sch.state = "absent"
          /\ \A p \in Calls : pc[p] = "idle"
    /\ ctl.state = "creating" =>
          /\ ctl.gen = 1
          /\ sch.state # "absent" => Live /\ sch.gen = 1 /\ sch.config = ctl.config
    /\ ctl.state = "ready" =>
          /\ Live
          /\ ctl.code \in {"healthy", "QUEUE_CONFIG_PENDING"}
          /\ ctl.gen \in {sch.gen, sch.gen + 1}
          /\ ctl.code = "healthy" => sch.gen = ctl.gen
          /\ sch.gen = ctl.gen => sch.config = ctl.config
    /\ ctl.state = "deleting" /\ sch.state # "absent" =>
          sch.gen = ctl.gen /\ sch.config = ctl.config
    /\ ctl.state = "tombstoned" => sch.state = "absent"

RowCounts ==
    /\ rows.ready + rows.claimed <= MaxBacklog
    /\ sch.state = "absent" => rows.ready = 0 /\ rows.claimed = 0 /\ rows.gated = 0

\* What each process knows at its step.
StepShape(p) ==
    /\ pc[p] \in CreateSteps => ctl.state = "creating"
    /\ pc[p] \in {"create_projection", "ensure_projection"} =>
          seen[p].gen = 1 /\ seen[p].config = ctl.config
    /\ pc[p] \in {"verify_projection", "mark_ready"} => Live
    /\ pc[p] \in {"begin_config", "write_pending"} => seen[p].gen < MaxGen
    /\ pc[p] \in WriteSteps =>
          /\ ctl.state = "ready" /\ ctl.code = "QUEUE_CONFIG_PENDING"
          /\ seen[p].gen = ctl.gen /\ seen[p].config = ctl.config
    /\ pc[p] = "mark_healthy" => sch.gen = ctl.gen
    /\ pc[p] \in DeleteSteps => ctl.state = "deleting"
    /\ pc[p] \in {"purge", "delete_projection"} => sch.state = "deleting"
    /\ pc[p] = "delete_projection" => rows.gated = 0
    /\ pc[p] = "mark_tombstoned" => sch.state = "absent"

StepShapes == \A p \in Procs : StepShape(p)

IInv ==
    /\ TypeOK /\ BootAlone /\ Exclusive /\ RowShape /\ RowCounts /\ StepShapes
    /\ BoundIsLive

-----------------------------------------------------------------------------
\* reserve_create: nothing ran before it.
LEMMA ReserveCreateInv ==
    ASSUME IInv, NEW p \in Calls, NEW c \in Configs, ReserveCreate(p, c)
    PROVE  IInv'
<1> USE ProcessAssumption, BoundAssumption
    DEF IInv, Procs, Live, ReserveCreate, Goto, Observe, Serving
<1>1. TypeOK'
  BY DEF TypeOK, Control, Projection, Seen, Codes, CallSteps, BootSteps
<1>2. BootAlone'
  BY Zenon DEF TypeOK, BootAlone, BootSteps
<1>3. Exclusive'
  BY DEF TypeOK, Exclusive, StepShapes, StepShape, CreateSteps, WriteSteps,
    DeleteSteps
<1>4. RowShape'
  BY Zenon DEF TypeOK, RowShape
<1>5. RowCounts'
  BY Zenon DEF TypeOK, RowCounts
<1>6. StepShapes'
  BY DEF TypeOK, StepShapes, StepShape, CreateSteps, WriteSteps, DeleteSteps
<1>7. BoundIsLive'
  BY Zenon DEF BoundIsLive
<1> QED  BY <1>1, <1>2, <1>3, <1>4, <1>5, <1>6, <1>7, Zenon

\* create_queue_projection: the creator finds the control row it wrote.
LEMMA CreateProjectionInv ==
    ASSUME IInv, NEW p \in Procs, CreateProjection(p)
    PROVE  IInv'
<1> USE ProcessAssumption, BoundAssumption
    DEF IInv, Procs, Live, CreateProjection, Accepting, SchedulerCall, Goto,
      Fail
<1>1. TypeOK'
  BY DEF TypeOK, Control, Projection, Seen, Codes, CallSteps, BootSteps
<1>2. BootAlone'
  BY Zenon DEF TypeOK, BootAlone, BootSteps
<1>3. Exclusive'
  BY DEF TypeOK, Exclusive, CreateSteps, WriteSteps, DeleteSteps
<1>4. RowShape'
  BY DEF TypeOK, RowShape, StepShapes, StepShape, CreateSteps, WriteSteps,
    DeleteSteps
<1>5. RowCounts'
  BY Zenon DEF TypeOK, RowCounts
<1>6. StepShapes'
  BY DEF TypeOK, StepShapes, StepShape, CreateSteps, WriteSteps, DeleteSteps
<1>7. BoundIsLive'
  BY Zenon DEF BoundIsLive
<1> QED  BY <1>1, <1>2, <1>3, <1>4, <1>5, <1>6, <1>7, Zenon

\* verify_queue_projection changes neither row.
LEMMA VerifyProjectionInv ==
    ASSUME IInv, NEW p \in Procs, VerifyProjection(p)
    PROVE  IInv'
<1> USE ProcessAssumption, BoundAssumption
    DEF IInv, Procs, Live, VerifyProjection, Accepting, SchedulerCall, Goto,
      Fail
<1>1. TypeOK'
  BY DEF TypeOK, Control, Projection, Seen, Codes, CallSteps, BootSteps
<1>2. BootAlone'
  BY Zenon DEF TypeOK, BootAlone, BootSteps
<1>3. Exclusive'
  BY DEF TypeOK, Exclusive, CreateSteps, WriteSteps, DeleteSteps
<1>4. RowShape'
  BY Zenon DEF TypeOK, RowShape
<1>5. RowCounts'
  BY Zenon DEF TypeOK, RowCounts
<1>6. StepShapes'
  BY DEF TypeOK, StepShapes, StepShape, CreateSteps, WriteSteps, DeleteSteps
<1>7. BoundIsLive'
  BY Zenon DEF BoundIsLive
<1> QED  BY <1>1, <1>2, <1>3, <1>4, <1>5, <1>6, <1>7, Zenon

\* mark_ready: the projection is live, and no other process is creating.
LEMMA MarkReadyInv ==
    ASSUME IInv, NEW p \in Procs, MarkReady(p)
    PROVE  IInv'
<1> USE ProcessAssumption, BoundAssumption
    DEF IInv, Procs, Live, MarkReady, ControlAs, ControlCall, Goto, Fail
<1>1. TypeOK'
  BY DEF TypeOK, Control, Projection, Seen, Codes, CallSteps, BootSteps
<1>2. BootAlone'
  BY Zenon DEF TypeOK, BootAlone, BootSteps
<1>3. Exclusive'
  BY DEF TypeOK, Exclusive, CreateSteps, WriteSteps, DeleteSteps
<1>4. RowShape'
  BY DEF TypeOK, RowShape, StepShapes, StepShape, CreateSteps, WriteSteps,
    DeleteSteps
<1>5. RowCounts'
  BY Zenon DEF TypeOK, RowCounts
<1>6. StepShapes'
  BY DEF TypeOK, Exclusive, StepShapes, StepShape, CreateSteps, WriteSteps,
    DeleteSteps
<1>7. BoundIsLive'
  BY Zenon DEF BoundIsLive
<1> QED  BY <1>1, <1>2, <1>3, <1>4, <1>5, <1>6, <1>7, Zenon

\* An update that starts knows a generation below the bound.
LEMMA StartUpdateInv ==
    ASSUME IInv, NEW p \in Calls, NEW c \in Configs, StartUpdate(p, c)
    PROVE  IInv'
<1> USE ProcessAssumption, BoundAssumption
    DEF IInv, Procs, Live, StartUpdate, Goto, Observe, Serving, stores
<1>1. TypeOK'
  BY Zenon DEF TypeOK, Control, Projection, Seen, Codes, CallSteps, BootSteps
<1>2. BootAlone'
  BY Zenon DEF TypeOK, BootAlone, BootSteps
<1>3. Exclusive'
  BY Zenon DEF TypeOK, Exclusive, CreateSteps, WriteSteps, DeleteSteps
<1>4. RowShape'
  BY Zenon DEF TypeOK, RowShape
<1>5. RowCounts'
  BY Zenon DEF TypeOK, RowCounts
<1>6. StepShapes'
  BY DEF TypeOK, StepShapes, StepShape, CreateSteps, WriteSteps, DeleteSteps
<1>7. BoundIsLive'
  BY Zenon DEF BoundIsLive
<1> QED  BY <1>1, <1>2, <1>3, <1>4, <1>5, <1>6, <1>7, Zenon

\* begin_queue_config keeps a live projection live.
LEMMA BeginConfigInv ==
    ASSUME IInv, NEW p \in Procs, BeginConfig(p)
    PROVE  IInv'
<1> USE ProcessAssumption, BoundAssumption
    DEF IInv, Procs, Live, BeginConfig, ProjectionAs, SchedulerCall, Goto,
      Fail
<1>1. TypeOK'
  BY DEF TypeOK, Control, Projection, Seen, Codes, CallSteps, BootSteps
<1>2. BootAlone'
  BY Zenon DEF TypeOK, BootAlone, BootSteps
<1>3. Exclusive'
  BY DEF TypeOK, Exclusive, CreateSteps, WriteSteps, DeleteSteps
<1>4. RowShape'
  BY DEF TypeOK, RowShape
<1>5. RowCounts'
  BY DEF TypeOK, RowCounts
<1>6. StepShapes'
  BY DEF TypeOK, StepShapes, StepShape, CreateSteps, WriteSteps, DeleteSteps
<1>7. BoundIsLive'
  BY Zenon DEF BoundIsLive
<1> QED  BY <1>1, <1>2, <1>3, <1>4, <1>5, <1>6, <1>7, Zenon

\* write_config_pending: a healthy row means no other update is past this
\* point.
LEMMA WriteConfigPendingInv ==
    ASSUME IInv, NEW p \in Procs, WriteConfigPending(p)
    PROVE  IInv'
<1> USE ProcessAssumption, BoundAssumption
    DEF IInv, Procs, Live, WriteConfigPending, Healthy, Observe, ControlCall,
      Goto, Fail
<1>1. TypeOK'
  BY DEF TypeOK, Control, Projection, Seen, Codes, CallSteps, BootSteps,
    RowCounts, StepShapes, StepShape
<1>2. BootAlone'
  BY Zenon DEF TypeOK, BootAlone, BootSteps
<1>3. Exclusive'
  BY DEF TypeOK, Exclusive, StepShapes, StepShape, CreateSteps, WriteSteps,
    DeleteSteps
<1>4. RowShape'
  BY DEF TypeOK, Control, Projection, RowShape
<1>5. RowCounts'
  BY Zenon DEF TypeOK, RowCounts
<1>6. StepShapes'
  BY DEF TypeOK, StepShapes, StepShape, CreateSteps, WriteSteps, DeleteSteps
<1>7. BoundIsLive'
  BY DEF BoundIsLive
<1> QED  BY <1>1, <1>2, <1>3, <1>4, <1>5, <1>6, <1>7, Zenon

\* project_queue_config projects the config the control row still holds.
LEMMA ProjectConfigInv ==
    ASSUME IInv, NEW p \in Procs, ProjectConfig(p)
    PROVE  IInv'
<1> USE ProcessAssumption, BoundAssumption
    DEF IInv, Procs, Live, ProjectConfig, SchedulerCall, Goto, Fail
<1>1. TypeOK'
  BY DEF TypeOK, Control, Projection, Seen, Codes, CallSteps, BootSteps
<1>2. BootAlone'
  BY Zenon DEF TypeOK, BootAlone, BootSteps
<1>3. Exclusive'
  BY DEF TypeOK, Exclusive, CreateSteps, WriteSteps, DeleteSteps
<1>4. RowShape'
  BY DEF TypeOK, RowShape, StepShapes, StepShape, CreateSteps, WriteSteps,
    DeleteSteps
<1>5. RowCounts'
  BY DEF TypeOK, RowCounts
<1>6. StepShapes'
  BY DEF TypeOK, StepShapes, StepShape, CreateSteps, WriteSteps, DeleteSteps
<1>7. BoundIsLive'
  BY Zenon DEF BoundIsLive
<1> QED  BY <1>1, <1>2, <1>3, <1>4, <1>5, <1>6, <1>7, Zenon

\* mark_config_healthy: the projection has the generation.
LEMMA MarkConfigHealthyInv ==
    ASSUME IInv, NEW p \in Procs, MarkConfigHealthy(p)
    PROVE  IInv'
<1> USE ProcessAssumption, BoundAssumption
    DEF IInv, Procs, Live, MarkConfigHealthy, ControlAs, ControlCall, Goto,
      Fail
<1>1. TypeOK'
  BY DEF TypeOK, Control, Projection, Seen, Codes, CallSteps, BootSteps
<1>2. BootAlone'
  BY Zenon DEF TypeOK, BootAlone, BootSteps
<1>3. Exclusive'
  BY DEF TypeOK, Exclusive, CreateSteps, WriteSteps, DeleteSteps
<1>4. RowShape'
  BY DEF TypeOK, RowShape, StepShapes, StepShape, CreateSteps, WriteSteps,
    DeleteSteps
<1>5. RowCounts'
  BY Zenon DEF TypeOK, RowCounts
<1>6. StepShapes'
  BY DEF TypeOK, Exclusive, StepShapes, StepShape, CreateSteps, WriteSteps,
    DeleteSteps
<1>7. BoundIsLive'
  BY DEF BoundIsLive
<1> QED  BY <1>1, <1>2, <1>3, <1>4, <1>5, <1>6, <1>7, Zenon

\* finish_queue_config keeps a live projection live.
LEMMA FinishConfigInv ==
    ASSUME IInv, NEW p \in Procs, FinishConfig(p)
    PROVE  IInv'
<1> USE ProcessAssumption, BoundAssumption
    DEF IInv, Procs, Live, FinishConfig, ProjectionAs, SchedulerCall, Goto,
      Fail
<1>1. TypeOK'
  BY DEF TypeOK, Control, Projection, Seen, Codes, CallSteps, BootSteps
<1>2. BootAlone'
  BY Zenon DEF TypeOK, BootAlone, BootSteps
<1>3. Exclusive'
  BY DEF TypeOK, Exclusive, CreateSteps, WriteSteps, DeleteSteps
<1>4. RowShape'
  BY DEF TypeOK, RowShape
<1>5. RowCounts'
  BY DEF TypeOK, RowCounts
<1>6. StepShapes'
  BY DEF TypeOK, StepShapes, StepShape, CreateSteps, WriteSteps, DeleteSteps
<1>7. BoundIsLive'
  BY Zenon DEF BoundIsLive
<1> QED  BY <1>1, <1>2, <1>3, <1>4, <1>5, <1>6, <1>7, Zenon

\* A delete that starts changes no row.
LEMMA StartDeleteInv ==
    ASSUME IInv, NEW p \in Calls, StartDelete(p)
    PROVE  IInv'
<1> USE ProcessAssumption, BoundAssumption
    DEF IInv, Procs, Live, StartDelete, Goto, Observe, Serving, stores
<1>1. TypeOK'
  BY Zenon DEF TypeOK, Control, Projection, Seen, Codes, CallSteps, BootSteps
<1>2. BootAlone'
  BY Zenon DEF TypeOK, BootAlone, BootSteps
<1>3. Exclusive'
  BY Zenon DEF TypeOK, Exclusive, CreateSteps, WriteSteps, DeleteSteps
<1>4. RowShape'
  BY Zenon DEF TypeOK, RowShape
<1>5. RowCounts'
  BY Zenon DEF TypeOK, RowCounts
<1>6. StepShapes'
  BY DEF TypeOK, StepShapes, StepShape, CreateSteps, WriteSteps, DeleteSteps
<1>7. BoundIsLive'
  BY Zenon DEF BoundIsLive
<1> QED  BY <1>1, <1>2, <1>3, <1>4, <1>5, <1>6, <1>7, Zenon

\* queue_metrics changes neither row.
LEMMA MetricsInv ==
    ASSUME IInv, NEW p \in Procs, Metrics(p)
    PROVE  IInv'
<1> USE ProcessAssumption, BoundAssumption
    DEF IInv, Procs, Live, Metrics, SchedulerCall, Goto, Fail
<1>1. TypeOK'
  BY DEF TypeOK, Control, Projection, Seen, Codes, CallSteps, BootSteps
<1>2. BootAlone'
  BY ZenonT(60) DEF TypeOK, BootAlone, BootSteps
<1>3. Exclusive'
  BY DEF TypeOK, Exclusive, CreateSteps, WriteSteps, DeleteSteps
<1>4. RowShape'
  BY Zenon DEF TypeOK, RowShape
<1>5. RowCounts'
  BY Zenon DEF TypeOK, RowCounts
<1>6. StepShapes'
  BY DEF TypeOK, StepShapes, StepShape, CreateSteps, WriteSteps, DeleteSteps
<1>7. BoundIsLive'
  BY Zenon DEF BoundIsLive
<1> QED  BY <1>1, <1>2, <1>3, <1>4, <1>5, <1>6, <1>7, Zenon

\* begin_delete: a healthy row is projected, unreferenced, and no other
\* process is creating, updating past the write, or deleting.
LEMMA BeginDeleteInv ==
    ASSUME IInv, NEW p \in Procs, BeginDelete(p)
    PROVE  IInv'
<1> USE ProcessAssumption, BoundAssumption
    DEF IInv, Procs, Live, BeginDelete, Healthy, ControlAs, ControlCall, Goto,
      Fail
<1>1. TypeOK'
  BY DEF TypeOK, Control, Projection, Seen, Codes, CallSteps, BootSteps
<1>2. BootAlone'
  BY Zenon DEF TypeOK, BootAlone, BootSteps
<1>3. Exclusive'
  BY DEF TypeOK, Exclusive, StepShapes, StepShape, CreateSteps, WriteSteps,
    DeleteSteps
<1>4. RowShape'
  BY DEF TypeOK, RowShape
<1>5. RowCounts'
  BY Zenon DEF TypeOK, RowCounts
<1>6. StepShapes'
  BY DEF TypeOK, StepShapes, StepShape, CreateSteps, WriteSteps, DeleteSteps
<1>7. BoundIsLive'
  BY Zenon DEF BoundIsLive
<1> QED  BY <1>1, <1>2, <1>3, <1>4, <1>5, <1>6, <1>7, Zenon

\* fence_queue_delete: only the deleter sees a deleting row.
LEMMA FenceDeleteInv ==
    ASSUME IInv, NEW p \in Procs, FenceDelete(p)
    PROVE  IInv'
<1> USE ProcessAssumption, BoundAssumption
    DEF IInv, Procs, Live, FenceDelete, ProjectionAs, SchedulerCall, Goto,
      Fail
<1>1. TypeOK'
  BY DEF TypeOK, Control, Projection, Seen, Codes, CallSteps, BootSteps
<1>2. BootAlone'
  BY Zenon DEF TypeOK, BootAlone, BootSteps
<1>3. Exclusive'
  BY DEF TypeOK, Exclusive, CreateSteps, WriteSteps, DeleteSteps
<1>4. RowShape'
  BY DEF TypeOK, RowShape, StepShapes, StepShape, CreateSteps, WriteSteps,
    DeleteSteps
<1>5. RowCounts'
  BY DEF TypeOK, RowCounts
<1>6. StepShapes'
  BY DEF TypeOK, StepShapes, StepShape, CreateSteps, WriteSteps, DeleteSteps
<1>7. BoundIsLive'
  BY Zenon DEF BoundIsLive
<1> QED  BY <1>1, <1>2, <1>3, <1>4, <1>5, <1>6, <1>7, Zenon

\* purge_queue leaves its loop with no operation open.
LEMMA PurgeInv ==
    ASSUME IInv, NEW p \in Procs, Purge(p)
    PROVE  IInv'
<1> USE ProcessAssumption, BoundAssumption
    DEF IInv, Procs, Live, Purge, Rows, Goto
<1>1. TypeOK'
  BY DEF TypeOK, Control, Projection, Seen, Codes, CallSteps, BootSteps
<1>2. BootAlone'
  BY Zenon DEF TypeOK, BootAlone, BootSteps
<1>3. Exclusive'
  BY Zenon DEF TypeOK, Exclusive, CreateSteps, WriteSteps, DeleteSteps
<1>4. RowShape'
  BY Zenon DEF TypeOK, RowShape
<1>5. RowCounts'
  BY DEF TypeOK, RowCounts
<1>6. StepShapes'
  <2> SUFFICES ASSUME NEW r \in Procs PROVE StepShape(r)'
    BY Zenon DEF StepShapes
  <2>1. CASE r = p
    BY <2>1 DEF TypeOK, StepShapes, StepShape, CreateSteps, WriteSteps, DeleteSteps
  <2>2. CASE r # p
    <3>1. pc[r] \notin DeleteSteps /\ pc'[r] = pc[r]
      BY <2>2, Zenon DEF TypeOK, Exclusive, DeleteSteps
    <3> QED
      BY <2>2, <3>1, Zenon DEF StepShapes, StepShape, DeleteSteps
  <2> QED  BY <2>1, <2>2, Zenon
<1>7. BoundIsLive'
  BY Zenon DEF BoundIsLive
<1> QED  BY <1>1, <1>2, <1>3, <1>4, <1>5, <1>6, <1>7, Zenon

\* delete_queue_projection: the backlog is empty and no operation is open.
LEMMA DeleteProjectionInv ==
    ASSUME IInv, NEW p \in Procs, DeleteProjection(p)
    PROVE  IInv'
<1> USE ProcessAssumption, BoundAssumption
    DEF IInv, Procs, Live, DeleteProjection, ProjectionAs, SchedulerCall,
      Goto, Fail
<1>1. TypeOK'
  BY DEF TypeOK, Control, Projection, Seen, Codes, CallSteps, BootSteps
<1>2. BootAlone'
  BY Zenon DEF TypeOK, BootAlone, BootSteps
<1>3. Exclusive'
  BY DEF TypeOK, Exclusive, CreateSteps, WriteSteps, DeleteSteps
<1>4. RowShape'
  BY DEF TypeOK, RowShape
<1>5. RowCounts'
  BY DEF TypeOK, RowCounts, StepShapes, StepShape, CreateSteps, WriteSteps,
    DeleteSteps
<1>6. StepShapes'
  BY DEF TypeOK, Exclusive, StepShapes, StepShape, CreateSteps, WriteSteps,
    DeleteSteps
<1>7. BoundIsLive'
  BY Zenon DEF BoundIsLive
<1> QED  BY <1>1, <1>2, <1>3, <1>4, <1>5, <1>6, <1>7, Zenon

\* mark_tombstoned: the projection is gone.
LEMMA MarkTombstonedInv ==
    ASSUME IInv, NEW p \in Procs, MarkTombstoned(p)
    PROVE  IInv'
<1> USE ProcessAssumption, BoundAssumption
    DEF IInv, Procs, Live, MarkTombstoned, ControlAs, ControlCall, Goto, Fail
<1>1. TypeOK'
  BY DEF TypeOK, Control, Projection, Seen, Codes, CallSteps, BootSteps
<1>2. BootAlone'
  BY Zenon DEF TypeOK, BootAlone, BootSteps
<1>3. Exclusive'
  BY DEF TypeOK, Exclusive, CreateSteps, WriteSteps, DeleteSteps
<1>4. RowShape'
  BY DEF TypeOK, RowShape, StepShapes, StepShape, CreateSteps, WriteSteps,
    DeleteSteps
<1>5. RowCounts'
  BY Zenon DEF TypeOK, RowCounts
<1>6. StepShapes'
  BY DEF TypeOK, Exclusive, StepShapes, StepShape, CreateSteps, WriteSteps,
    DeleteSteps
<1>7. BoundIsLive'
  BY Zenon DEF BoundIsLive
<1> QED  BY <1>1, <1>2, <1>3, <1>4, <1>5, <1>6, <1>7, Zenon

\* list_reconcile: no call runs, so Boot is alone at the step it takes.
LEMMA ListReconcileInv ==
    ASSUME IInv, ListReconcile
    PROVE  IInv'
<1> USE ProcessAssumption, BoundAssumption
    DEF IInv, Procs, Live, ListReconcile, ReconcileStep, Goto, Observe, stores
<1>1. TypeOK'
  BY Zenon DEF TypeOK, Control, Projection, Seen, Codes, CallSteps, BootSteps
<1>2. BootAlone'
  BY Zenon DEF TypeOK, BootAlone, BootSteps
<1>3. Exclusive'
  BY DEF TypeOK, BootAlone, Exclusive, RowShape, StepShapes, StepShape,
    CreateSteps, WriteSteps, DeleteSteps
<1>4. RowShape'
  BY Zenon DEF TypeOK, RowShape
<1>5. RowCounts'
  BY Zenon DEF TypeOK, RowCounts
<1>6. StepShapes'
  BY DEF TypeOK, RowShape, StepShapes, StepShape, CreateSteps, WriteSteps,
    DeleteSteps
<1>7. BoundIsLive'
  BY Zenon DEF BoundIsLive
<1> QED  BY <1>1, <1>2, <1>3, <1>4, <1>5, <1>6, <1>7, Zenon

\* ensure_queue_projection projects the row being created.
LEMMA EnsureProjectionInv ==
    ASSUME IInv, EnsureProjection
    PROVE  IInv'
<1> USE ProcessAssumption, BoundAssumption
    DEF IInv, Procs, Live, EnsureProjection, Accepting, SchedulerCall, Goto,
      Fail
<1>1. TypeOK'
  BY DEF TypeOK, Control, Projection, Seen, Codes, CallSteps, BootSteps
<1>2. BootAlone'
  BY Zenon DEF TypeOK, BootAlone, BootSteps
<1>3. Exclusive'
  BY DEF TypeOK, Exclusive, CreateSteps, WriteSteps, DeleteSteps
<1>4. RowShape'
  BY DEF TypeOK, RowShape, StepShapes, StepShape, CreateSteps, WriteSteps,
    DeleteSteps
<1>5. RowCounts'
  BY Zenon DEF TypeOK, RowCounts
<1>6. StepShapes'
  BY DEF TypeOK, StepShapes, StepShape, CreateSteps, WriteSteps, DeleteSteps
<1>7. BoundIsLive'
  BY Zenon DEF BoundIsLive
<1> QED  BY <1>1, <1>2, <1>3, <1>4, <1>5, <1>6, <1>7, Zenon

\* reconcile_queue_config projects the pending config.
LEMMA ReconcileConfigInv ==
    ASSUME IInv, ReconcileConfig
    PROVE  IInv'
<1> USE ProcessAssumption, BoundAssumption
    DEF IInv, Procs, Live, ReconcileConfig, SchedulerCall, Goto, Fail
<1>1. TypeOK'
  BY DEF TypeOK, Control, Projection, Seen, Codes, CallSteps, BootSteps
<1>2. BootAlone'
  BY Zenon DEF TypeOK, BootAlone, BootSteps
<1>3. Exclusive'
  BY DEF TypeOK, Exclusive, CreateSteps, WriteSteps, DeleteSteps
<1>4. RowShape'
  BY DEF TypeOK, RowShape, StepShapes, StepShape, CreateSteps, WriteSteps,
    DeleteSteps
<1>5. RowCounts'
  BY DEF TypeOK, RowCounts
<1>6. StepShapes'
  BY DEF TypeOK, StepShapes, StepShape, CreateSteps, WriteSteps, DeleteSteps
<1>7. BoundIsLive'
  BY Zenon DEF BoundIsLive
<1> QED  BY <1>1, <1>2, <1>3, <1>4, <1>5, <1>6, <1>7, Zenon

\* A crash leaves Boot before its listing and every call ended.
LEMMA CrashInv ==
    ASSUME IInv, Crash
    PROVE  IInv'
<1> USE ProcessAssumption, BoundAssumption
    DEF IInv, Procs, Live, Crash, Rows
<1>1. TypeOK'
  BY DEF TypeOK, Control, Projection, Seen, Codes, CallSteps, BootSteps,
    RowCounts
<1>2. BootAlone'
  BY Zenon DEF TypeOK, BootAlone, BootSteps
<1>3. Exclusive'
  BY Zenon DEF TypeOK, Exclusive, CreateSteps, WriteSteps, DeleteSteps
<1>4. RowShape'
  BY Zenon DEF TypeOK, RowShape
<1>5. RowCounts'
  BY DEF TypeOK, RowCounts
<1>6. StepShapes'
  BY Zenon DEF TypeOK, StepShapes, StepShape, CreateSteps, WriteSteps, DeleteSteps
<1>7. BoundIsLive'
  BY Zenon DEF BoundIsLive
<1> QED  BY <1>1, <1>2, <1>3, <1>4, <1>5, <1>6, <1>7, Zenon

\* Bindings, producers and consumers change neither row and no process.
Traffic ==
    \/ \E r \in {"producer", "consumer"} : Bind(r) \/ Unbind(r)
    \/ Authorize
    \/ \E gate \in {0, 1} : Enqueue(gate)
    \/ Finalize
    \/ Claim
    \/ \E retry \in {0, 1} : Complete(retry)
    \/ Expire

\* A send is accepted only by an accepting projection, so a Queue being deleted
\* gains no message and no open operation; a binding needs a ready Queue.
LEMMA TrafficInv ==
    ASSUME IInv, Traffic
    PROVE  IInv'
<1> USE BoundAssumption
    DEF IInv, Traffic, Bind, Unbind, Authorize, Enqueue, Finalize, Claim,
        Complete, Expire, Rows, stores
<1>1. ctl' = ctl /\ sch' = sch /\ pc' = pc /\ seen' = seen /\ crashes' = crashes
  OBVIOUS
<1>2. BootAlone' /\ Exclusive' /\ RowShape'
  BY <1>1, Zenon DEF BootAlone, Exclusive, RowShape, Live
<1>3. TypeOK'
  <2>1. rows' \in [ready : 0 .. MaxBacklog, claimed : 0 .. MaxBacklog,
                   gated : 0 .. MaxBacklog]
    BY DEF TypeOK, RowCounts
  <2>2. referrers' \subseteq {"producer", "consumer"}
    BY Zenon DEF TypeOK
  <2>3. auth' \in 0 .. MaxGen
    BY DEF TypeOK, Control
  <2> QED  BY <1>1, <2>1, <2>2, <2>3, Zenon DEF TypeOK
<1>4. RowCounts'
  BY DEF TypeOK, RowCounts
<1>5. StepShapes'
  BY DEF TypeOK, StepShapes, StepShape, Live
<1>6. BoundIsLive'
  BY Zenon DEF TypeOK, BoundIsLive, Healthy
<1> QED  BY <1>2, <1>3, <1>4, <1>5, <1>6, Zenon

\* Initially there is no Queue and nothing runs.
LEMMA InitInv == Init => IInv
  BY ProcessAssumption, BoundAssumption
  DEF Init, IInv, TypeOK, BootAlone, Exclusive, RowShape, RowCounts, StepShapes,
      StepShape, BoundIsLive, Control, Projection, Seen, Codes, CallSteps,
      BootSteps, CreateSteps, WriteSteps, DeleteSteps, Rows, Procs, Live

\* A store call of any process keeps the invariant.
LEMMA StepInv ==
    ASSUME IInv, NEW p \in Procs, Step(p)
    PROVE  IInv'
  BY CreateProjectionInv, VerifyProjectionInv, MarkReadyInv, BeginConfigInv,
     WriteConfigPendingInv, ProjectConfigInv, MarkConfigHealthyInv,
     FinishConfigInv, MetricsInv, BeginDeleteInv, FenceDeleteInv, PurgeInv,
     DeleteProjectionInv, MarkTombstonedInv, Zenon
  DEF Step

\* Every step keeps the invariant.
LEMMA NextInv == IInv /\ [Next]_vars => IInv'
<1> SUFFICES ASSUME IInv, [Next]_vars PROVE IInv'
  OBVIOUS
<1>1. CASE \E p \in Calls, c \in Configs : ReserveCreate(p, c) \/ StartUpdate(p, c)
  BY <1>1, ReserveCreateInv, StartUpdateInv, Zenon
<1>2. CASE \E p \in Calls : StartDelete(p) \/ Step(p)
  BY <1>2, StartDeleteInv, StepInv, Zenon DEF Procs
<1>3. CASE Reconcile
  BY <1>3, ListReconcileInv, EnsureProjectionInv, ReconcileConfigInv, StepInv, Zenon
  DEF Reconcile, Procs
<1>4. CASE Crash
  BY <1>4, CrashInv, Zenon
<1>5. CASE Traffic
  BY <1>5, TrafficInv, Zenon
<1>6. CASE UNCHANGED vars
  BY <1>6 DEF vars, IInv, TypeOK, BootAlone, Exclusive, RowShape, RowCounts,
     StepShapes, StepShape, BoundIsLive, Live
<1> QED
  BY <1>1, <1>2, <1>3, <1>4, <1>5, <1>6, Zenon DEF Next, Traffic

\* The inductive invariant: each state of the control row fixes what the
\* projection may be, and at most one process is past each point of no return.
THEOREM Invariance == Spec => []IInv
  BY InitInv, NextInv, PTL DEF Spec

\* The rows of both authorities and the step of every process keep their types.
THEOREM TypeCorrect == Spec => []TypeOK
  BY Invariance, PTL DEF IInv

\* The projection is at most one config generation behind the control row,
\* never ahead of it, and equal under an equal generation, for any number of
\* overlapping calls and crashes.
THEOREM ProjectionNeverDiverges == Spec => []ProjectionFollows
<1>1. IInv => ProjectionFollows
  BY Zenon DEF IInv, TypeOK, Control, Projection, RowShape, ProjectionFollows
<1> QED  BY <1>1, Invariance, PTL

\* A Queue reported ready and healthy has a live projection of its generation.
THEOREM HealthyMeansProjected == Spec => []HealthyIsProjected
<1>1. IInv => HealthyIsProjected
  BY Zenon DEF IInv, RowShape, Live, HealthyIsProjected, Healthy
<1> QED  BY <1>1, Invariance, PTL

\* A tombstoned Queue has no projection, message or open operation left.
THEOREM TombstoneIsFinal == Spec => []TombstonedIsGone
<1>1. IInv => TombstonedIsGone
  BY Zenon DEF IInv, TypeOK, RowShape, RowCounts, TombstonedIsGone, Rows
<1> QED  BY <1>1, Invariance, PTL

\* A bound Queue is ready: no deployment is left with a Queue being deleted.
THEOREM BindingsAreLive == Spec => []BoundIsLive
  BY Invariance, PTL DEF IInv

-----------------------------------------------------------------------------
(* Startup: why the reconciliation fails in two situations only.           *)

\* The steps of an interrupted call that the reconciliation takes over.
ReconcileSteps ==
    BootSteps \cup {"mark_ready", "mark_healthy", "finish_config", "fence_delete",
                   "purge", "delete_projection", "mark_tombstoned"}

\* What Boot knows beyond StepShape because nothing runs beside it: the
\* projection it has just brought up to date is still so, and the purged Queue
\* is still empty.
BootShape ==
    /\ pc[Boot] \in ReconcileSteps \cup {"idle"}
    /\ pc[Boot] = "finish_config" => Live /\ sch.gen = seen[Boot].gen
    /\ pc[Boot] = "delete_projection" => rows.ready + rows.claimed = 0
    /\ StartupFailures

\* No call and no traffic changes what Boot relies on: while it runs they wait.
LEMMA ServingKeepsBoot ==
    ASSUME IInv, BootShape, pc[Boot] = "idle", pc'[Boot] = "idle"
    PROVE  BootShape'
  BY Zenon DEF BootShape, StartupFailures

\* Only a process in the middle of a call takes a store step.
LEMMA StepIsOfACall ==
    ASSUME NEW p, Step(p)
    PROVE  pc[p] # "idle"
<1>1. CASE CreateProjection(p) \/ VerifyProjection(p) \/ MarkReady(p)
  BY <1>1 DEF CreateProjection, VerifyProjection, MarkReady, ControlCall, SchedulerCall
<1>2. CASE BeginConfig(p) \/ WriteConfigPending(p) \/ ProjectConfig(p)
  BY <1>2 DEF BeginConfig, WriteConfigPending, ProjectConfig, ControlCall, SchedulerCall
<1>3. CASE MarkConfigHealthy(p) \/ FinishConfig(p) \/ Metrics(p)
  BY <1>3 DEF MarkConfigHealthy, FinishConfig, Metrics, ControlCall, SchedulerCall
<1>4. CASE BeginDelete(p) \/ FenceDelete(p) \/ Purge(p)
  BY <1>4 DEF BeginDelete, FenceDelete, Purge, ControlCall, SchedulerCall
<1>5. CASE DeleteProjection(p) \/ MarkTombstoned(p)
  BY <1>5 DEF DeleteProjection, MarkTombstoned, ControlCall, SchedulerCall
<1> QED  BY <1>1, <1>2, <1>3, <1>4, <1>5, Zenon DEF Step

\* A call's step leaves Boot where it is.
LEMMA CallKeepsBoot ==
    ASSUME IInv, BootShape, NEW p \in Calls,
           \/ \E c \in Configs : ReserveCreate(p, c) \/ StartUpdate(p, c)
           \/ StartDelete(p) \/ Step(p)
    PROVE  BootShape'
<1>1. p # Boot /\ p \in Procs /\ Boot \in Procs /\ pc \in [Procs -> {"idle"} \cup CallSteps \cup BootSteps]
  BY ProcessAssumption, Zenon DEF Procs, IInv, TypeOK
<1>2. pc[Boot] = "idle"
  <2>1. CASE Step(p)
    <3>1. pc[p] # "idle"
      BY <2>1, StepIsOfACall, Zenon
    <3> QED  BY <3>1, Zenon DEF IInv, BootAlone
  <2> QED  BY <2>1, Zenon DEF ReserveCreate, StartUpdate, StartDelete, Serving
<1>3. pc'[Boot] = pc[Boot]
  BY <1>1, Zenon DEF Step, CreateProjection, VerifyProjection, MarkReady, BeginConfig,
     WriteConfigPending, ProjectConfig, MarkConfigHealthy, FinishConfig, Metrics,
     BeginDelete, FenceDelete, Purge, DeleteProjection, MarkTombstoned,
     ControlCall, SchedulerCall, Goto, Fail, ReserveCreate, StartUpdate, StartDelete
<1> QED  BY <1>2, <1>3, ServingKeepsBoot, Zenon

\* The reconciliation's own steps: each finds what the one before it left.
LEMMA ReconcileKeepsBoot ==
    ASSUME IInv, BootShape, Reconcile
    PROVE  BootShape'
<1> USE ProcessAssumption, BoundAssumption
    DEF IInv, TypeOK, BootShape, StartupFailures, ReconcileSteps, BootSteps, Procs,
        RowShape, Live, StepShapes, StepShape, Goto, Fail
<1>1. CASE ListReconcile
  BY <1>1 DEF ListReconcile, ReconcileStep, Observe, stores
<1>2. CASE EnsureProjection
  BY <1>2 DEF EnsureProjection, SchedulerCall, Accepting, CreateSteps, Projection
<1>3. CASE ReconcileConfig
  BY <1>3 DEF ReconcileConfig, SchedulerCall, WriteSteps, Projection, Control
<1>4. CASE MarkReady(Boot)
  BY <1>4 DEF MarkReady, ControlCall, CreateSteps
<1>5. CASE MarkConfigHealthy(Boot)
  BY <1>5 DEF MarkConfigHealthy, ControlCall, WriteSteps
<1>6. CASE FinishConfig(Boot)
  BY <1>6 DEF FinishConfig, SchedulerCall
<1>7. CASE FenceDelete(Boot)
  BY <1>7 DEF FenceDelete, SchedulerCall, DeleteSteps
<1>8. CASE Purge(Boot)
  BY <1>8 DEF Purge, Rows
<1>9. CASE DeleteProjection(Boot)
  BY <1>9 DEF DeleteProjection, SchedulerCall, DeleteSteps
<1>10. CASE MarkTombstoned(Boot)
  BY <1>10 DEF MarkTombstoned, ControlCall, DeleteSteps
<1>11. ~(CreateProjection(Boot) \/ VerifyProjection(Boot) \/ BeginConfig(Boot)
         \/ WriteConfigPending(Boot) \/ ProjectConfig(Boot) \/ Metrics(Boot)
         \/ BeginDelete(Boot))
  BY DEF CreateProjection, VerifyProjection, BeginConfig, WriteConfigPending,
     ProjectConfig, Metrics, BeginDelete, ControlCall, SchedulerCall
<1> QED
  BY <1>1, <1>2, <1>3, <1>4, <1>5, <1>6, <1>7, <1>8, <1>9, <1>10, <1>11, ZenonT(60)
  DEF Reconcile, Step

\* Every step keeps what Boot relies on.
LEMMA NextBoot == IInv /\ BootShape /\ [Next]_vars => BootShape'
<1> SUFFICES ASSUME IInv, BootShape, [Next]_vars PROVE BootShape'
  OBVIOUS
<1>1. CASE \E p \in Calls :
              \/ \E c \in Configs : ReserveCreate(p, c) \/ StartUpdate(p, c)
              \/ StartDelete(p) \/ Step(p)
  BY <1>1, CallKeepsBoot, Zenon
<1>2. CASE Reconcile
  BY <1>2, ReconcileKeepsBoot, Zenon
<1>3. CASE Crash
  BY <1>3, Zenon DEF Crash, BootShape, StartupFailures, ReconcileSteps, BootSteps, Procs
<1>4. CASE Traffic
  <2>1. pc[Boot] = "idle" /\ pc' = pc
    BY <1>4, Zenon DEF Traffic, Bind, Unbind, Authorize, Enqueue, Finalize, Claim,
       Complete, Expire, Serving
  <2> QED  BY <2>1, ServingKeepsBoot, Zenon
<1>5. CASE UNCHANGED vars
  BY <1>5, Zenon DEF vars, BootShape, StartupFailures, Live
<1> QED
  BY <1>1, <1>2, <1>3, <1>4, <1>5, Zenon DEF Next, Traffic

\* A daemon that cannot start has met a delete cut off after the projection was
\* removed, or a create whose projection an update had fenced; no other crash,
\* however the calls overlapped before it, stops reconcile_pending.
THEOREM OnlyTwoStartupFailures == Spec => []StartupFailures
<1>1. Init => BootShape
  BY Zenon DEF Init, Procs, BootShape, StartupFailures
<1>2. BootShape => StartupFailures
  BY Zenon DEF BootShape
<1> QED  BY <1>1, <1>2, NextBoot, Invariance, PTL DEF Spec

-----------------------------------------------------------------------------
(* The no-send fence, when calls do not overlap.                           *)

\* The fence is up from begin_queue_config to the pending config, and the
\* generation a finishing process carries is the control row's.
Fenced ==
    /\ \A p \in Procs : pc[p] = "write_pending" => sch.state # "accepting"
    /\ \A p \in Procs : pc[p] = "finish_config" => seen[p].gen = ctl.gen
    /\ NoStaleConfig

\* One call at a time: the processes other than the one that steps are idle.
LEMMA OthersIdle ==
    ASSUME IInv, \A p, r \in Calls : p = r,
           NEW p \in Procs, NEW r \in Procs \ {p}, pc[p] # "idle"
    PROVE  pc[r] = "idle"
  BY Zenon DEF IInv, BootAlone, Procs

\* A store call, alone, keeps the fence.
LEMMA StepKeepsFence ==
    ASSUME IInv, Fenced, \A x, y \in Calls : x = y, NEW p \in Procs, Step(p)
    PROVE  Fenced'
<1>1. pc[p] # "idle"
  BY StepIsOfACall, Zenon
<1>2. \A r \in Procs \ {p} : pc[r] = "idle"
  BY <1>1, OthersIdle, ZenonT(60)
<1> USE <1>2, BoundAssumption
    DEF IInv, TypeOK, Fenced, NoStaleConfig, RowShape, Live, StepShapes, StepShape,
        Goto, Fail
<1>3. CASE CreateProjection(p)
  BY <1>3 DEF CreateProjection, SchedulerCall, Accepting, CreateSteps
<1>4. CASE VerifyProjection(p) \/ Metrics(p)
  BY <1>4 DEF VerifyProjection, Metrics, SchedulerCall
<1>5. CASE MarkReady(p) \/ BeginDelete(p) \/ MarkTombstoned(p)
  BY <1>5 DEF MarkReady, BeginDelete, MarkTombstoned, ControlCall, ControlAs
<1>6. CASE BeginConfig(p) \/ FenceDelete(p) \/ DeleteProjection(p)
  BY <1>6 DEF BeginConfig, FenceDelete, DeleteProjection, SchedulerCall, ProjectionAs
<1>7. CASE WriteConfigPending(p)
  BY <1>7 DEF WriteConfigPending, ControlCall, Observe
<1>8. CASE ProjectConfig(p)
  BY <1>8 DEF ProjectConfig, SchedulerCall
<1>9. CASE MarkConfigHealthy(p)
  BY <1>9 DEF MarkConfigHealthy, ControlCall, ControlAs, WriteSteps
<1>10. CASE FinishConfig(p)
  BY <1>10 DEF FinishConfig, SchedulerCall, ProjectionAs
<1>11. CASE Purge(p)
  BY <1>11 DEF Purge
<1> QED
  BY <1>3, <1>4, <1>5, <1>6, <1>7, <1>8, <1>9, <1>10, <1>11, ZenonT(60) DEF Step

\* Every step keeps the fence while calls do not overlap.
LEMMA NextFenced ==
    ASSUME \A x, y \in Calls : x = y
    PROVE  IInv /\ Fenced /\ [Next]_vars => Fenced'
<1> SUFFICES ASSUME IInv, Fenced, [Next]_vars PROVE Fenced'
  OBVIOUS
<1> USE DEF IInv, TypeOK, Fenced, NoStaleConfig, Goto, Observe, stores
<1>1. CASE \E p \in Calls, c \in Configs : ReserveCreate(p, c)
  <2> PICK p \in Calls, c \in Configs : ReserveCreate(p, c)
    BY <1>1
  <2> QED  BY ProcessAssumption DEF ReserveCreate, RowShape, Procs, Serving
<1>2. CASE \E p \in Calls : StartDelete(p) \/ \E c \in Configs : StartUpdate(p, c)
  BY <1>2 DEF StartUpdate, StartDelete, Procs
<1>3. CASE \E p \in Procs : Step(p)
  BY <1>3, StepKeepsFence, Zenon
<1>4. CASE ListReconcile
  BY <1>4 DEF ListReconcile, ReconcileStep, Procs
<1>5. CASE EnsureProjection
  BY <1>5 DEF EnsureProjection, SchedulerCall, Accepting, Fail, StepShapes, StepShape,
     CreateSteps, RowShape, Procs, BootAlone
<1>6. CASE ReconcileConfig
  BY <1>6 DEF ReconcileConfig, SchedulerCall, Fail, StepShapes, StepShape, WriteSteps,
     Procs, BootAlone
<1>7. CASE Crash
  BY <1>7, Zenon DEF Crash
<1>8. CASE Traffic \/ UNCHANGED vars
  <2>1. ctl' = ctl /\ sch' = sch /\ pc' = pc /\ seen' = seen
    BY <1>8, Zenon DEF Traffic, Bind, Unbind, Authorize, Enqueue, Finalize, Claim,
       Complete, Expire, vars
  <2> QED  BY <2>1, Zenon
<1> QED
  BY <1>1, <1>2, <1>3, <1>4, <1>5, <1>6, <1>7, <1>8, Zenon
  DEF Next, Reconcile, Traffic, Procs

\* Where at most one call runs at a time, crashes and reconciliations included,
\* a send is accepted only under the config generation of the control row: no
\* reader of the control row is told a config the scheduler does not apply.
THEOREM SerialCallsKeepTheFence ==
    ASSUME \A p, r \in Calls : p = r
    PROVE  Spec => []NoStaleConfig
<1>1. Init => Fenced
  BY DEF Init, Fenced, NoStaleConfig
<1>2. IInv /\ Fenced /\ [Next]_vars => Fenced'
  BY NextFenced, Zenon
<1>3. Fenced => NoStaleConfig
  BY Zenon DEF Fenced
<1> QED  BY <1>1, <1>2, <1>3, Invariance, PTL DEF Spec

-----------------------------------------------------------------------------
(* The two authorities implement LifecycleContract.                        *)

Opened == ctl.state \notin {"none", "creating"}

\* What the contract needs beyond IInv: a send was authorized and a config
\* finished only once the Queue was ready, and an update that is about to be
\* written changes the config it was started on.
LifeShape ==
    /\ auth # 0 => Opened
    /\ \A p \in Procs : pc[p] = "finish_config" => Opened
    /\ \A p \in Procs : pc[p] \in {"begin_config", "write_pending"} =>
          /\ seen[p].gen <= ctl.gen
          /\ seen[p].gen = ctl.gen => seen[p].config # ctl.config

\* What a store call of p does to the control row, and where it leads p.
StepMoves(p) ==
    /\ auth' = auth
    /\ \A r \in Procs \ {p} : pc'[r] = pc[r] /\ seen'[r] = seen[r]
    /\ \/ ctl' = ctl
       \/ ctl'.gen = ctl.gen /\ ctl'.config = ctl.config /\ Opened'
       \/ ctl'.gen = ctl.gen + 1 /\ Opened'
    /\ pc'[p] = "finish_config" => Opened'
    /\ pc'[p] # "begin_config"
    /\ pc'[p] = "write_pending" =>
          pc[p] = "begin_config" /\ ctl' = ctl /\ seen'[p] = seen[p]

\* A call of the control row ...
LEMMA ControlMoves ==
    ASSUME IInv, NEW p \in Procs,
           \/ MarkReady(p) \/ WriteConfigPending(p) \/ MarkConfigHealthy(p)
           \/ BeginDelete(p) \/ MarkTombstoned(p)
    PROVE  StepMoves(p)
<1> USE DEF StepMoves, Opened, ControlCall, ControlAs, Goto, Fail
<1>0. /\ pc \in [Procs -> {"idle"} \cup CallSteps \cup BootSteps]
      /\ seen \in [Procs -> Seen]
  BY Zenon DEF IInv, TypeOK
<1>1. CASE MarkReady(p)
  BY <1>0, <1>1 DEF MarkReady
<1>2. CASE WriteConfigPending(p)
  BY <1>0, <1>2 DEF WriteConfigPending, Observe
<1>3. CASE MarkConfigHealthy(p)
  BY <1>0, <1>3 DEF MarkConfigHealthy
<1>4. CASE BeginDelete(p)
  BY <1>0, <1>4 DEF BeginDelete
<1>5. CASE MarkTombstoned(p)
  BY <1>0, <1>5 DEF MarkTombstoned
<1> QED  BY <1>1, <1>2, <1>3, <1>4, <1>5, Zenon

\* ... of the projection, and of the messages.
LEMMA SchedulerMoves ==
    ASSUME IInv, NEW p \in Procs,
           \/ CreateProjection(p) \/ VerifyProjection(p) \/ BeginConfig(p)
           \/ ProjectConfig(p) \/ FinishConfig(p) \/ Metrics(p) \/ FenceDelete(p)
           \/ Purge(p) \/ DeleteProjection(p)
    PROVE  StepMoves(p)
<1> USE DEF StepMoves, SchedulerCall, Goto, Fail
<1>0. /\ pc \in [Procs -> {"idle"} \cup CallSteps \cup BootSteps]
      /\ seen \in [Procs -> Seen]
  BY Zenon DEF IInv, TypeOK
<1>1. CASE CreateProjection(p)
  BY <1>0, <1>1 DEF CreateProjection
<1>2. CASE VerifyProjection(p)
  BY <1>0, <1>2 DEF VerifyProjection
<1>3. CASE BeginConfig(p)
  BY <1>0, <1>3 DEF BeginConfig
<1>4. CASE ProjectConfig(p)
  BY <1>0, <1>4 DEF ProjectConfig
<1>5. CASE FinishConfig(p)
  BY <1>0, <1>5 DEF FinishConfig
<1>6. CASE Metrics(p)
  BY <1>0, <1>6 DEF Metrics
<1>7. CASE FenceDelete(p)
  BY <1>0, <1>7 DEF FenceDelete
<1>8. CASE Purge(p)
  BY <1>0, <1>8 DEF Purge
<1>9. CASE DeleteProjection(p)
  BY <1>0, <1>9 DEF DeleteProjection
<1> QED  BY <1>1, <1>2, <1>3, <1>4, <1>5, <1>6, <1>7, <1>8, <1>9, Zenon

LEMMA StepKeepsLife ==
    ASSUME IInv, LifeShape, NEW p \in Procs, Step(p)
    PROVE  LifeShape'
<1>1. StepMoves(p)
  BY ControlMoves, SchedulerMoves, Zenon DEF Step
<1>2. ctl.gen \in Nat /\ \A r \in Procs : seen[r].gen \in Nat
  BY BoundAssumption DEF IInv, TypeOK, Control, Seen
<1>3. Opened => Opened'
  BY <1>1, Zenon DEF StepMoves, Opened
<1>4. auth' # 0 => Opened'
  BY <1>1, <1>3, Zenon DEF StepMoves, LifeShape
<1>5. \A r \in Procs : pc'[r] = "finish_config" => Opened'
  BY <1>1, <1>3, Zenon DEF StepMoves, LifeShape
<1>6. ASSUME NEW r \in Procs, pc'[r] \in {"begin_config", "write_pending"}
      PROVE  /\ seen'[r].gen <= ctl'.gen
             /\ seen'[r].gen = ctl'.gen => seen'[r].config # ctl'.config
  <2>1. pc[r] \in {"begin_config", "write_pending"} /\ seen'[r] = seen[r]
    BY <1>1, <1>6 DEF StepMoves
  <2>2. /\ seen[r].gen <= ctl.gen
        /\ seen[r].gen = ctl.gen => seen[r].config # ctl.config
    BY <2>1, Zenon DEF LifeShape
  <2>3. \/ ctl'.gen = ctl.gen /\ ctl'.config = ctl.config
        \/ ctl'.gen = ctl.gen + 1
    BY <1>1, Zenon DEF StepMoves
  <2> QED  BY <1>2, <2>1, <2>2, <2>3
<1> QED  BY <1>4, <1>5, <1>6, Zenon DEF LifeShape

\* Every step keeps it.
LEMMA NextLife == IInv /\ LifeShape /\ [Next]_vars => LifeShape'
<1> SUFFICES ASSUME IInv, LifeShape, [Next]_vars PROVE LifeShape'
  OBVIOUS
<1>0. /\ pc \in [Procs -> {"idle"} \cup CallSteps \cup BootSteps]
      /\ seen \in [Procs -> Seen] /\ ctl.gen \in Nat
  BY BoundAssumption DEF IInv, TypeOK, Control
<1>1. CASE \E p \in Calls, c \in Configs : ReserveCreate(p, c)
  <2> PICK p \in Calls, c \in Configs : ReserveCreate(p, c)
    BY <1>1, Zenon
  <2>1. \A r \in Procs : pc[r] = "idle"
    BY Zenon DEF ReserveCreate, IInv, RowShape, Procs, Serving
  <2>2. \A r \in Procs : pc'[r] \in {"idle", "create_projection"}
    BY <1>0, <2>1, Zenon DEF ReserveCreate, Goto
  <2>3. auth' = 0
    BY Zenon DEF ReserveCreate, LifeShape, Opened
  <2> QED  BY <2>2, <2>3 DEF LifeShape
<1>2. CASE \E p \in Calls, c \in Configs : StartUpdate(p, c)
  <2> PICK p \in Calls, c \in Configs : StartUpdate(p, c)
    BY <1>2, Zenon
  <2>1. p \in Procs
    BY Zenon DEF Procs
  <2>2. /\ ctl' = ctl /\ auth' = auth /\ pc'[p] = "begin_config"
        /\ \A r \in Procs \ {p} : pc'[r] = pc[r] /\ seen'[r] = seen[r]
        /\ seen'[p].gen = ctl.gen /\ seen'[p].config # ctl.config
    BY <1>0, <2>1 DEF StartUpdate, Goto, Observe, stores
  <2> QED  BY <1>0, <2>2 DEF LifeShape, Opened
<1>3. CASE \E p \in Calls : StartDelete(p)
  <2> PICK p \in Calls : StartDelete(p)
    BY <1>3, Zenon
  <2>1. p \in Procs
    BY Zenon DEF Procs
  <2>2. /\ ctl' = ctl /\ auth' = auth /\ pc'[p] = "metrics"
        /\ \A r \in Procs \ {p} : pc'[r] = pc[r] /\ seen'[r] = seen[r]
    BY <1>0, <2>1, Zenon DEF StartDelete, Goto, Observe, stores
  <2> QED  BY <2>2 DEF LifeShape, Opened
<1>4. CASE \E p \in Procs : Step(p)
  BY <1>4, StepKeepsLife, Zenon
<1>5. CASE ListReconcile \/ EnsureProjection \/ ReconcileConfig
  <2>1. Boot \in Procs
    BY Zenon DEF Procs
  <2>2. /\ ctl' = ctl /\ auth' = auth
        /\ \A r \in Procs \ {Boot} : pc'[r] = pc[r] /\ seen'[r] = seen[r]
        /\ pc'[Boot] \notin {"begin_config", "write_pending", "finish_config"}
    <3>1. CASE ListReconcile
      BY <1>0, <2>1, <3>1 DEF ListReconcile, ReconcileStep, Goto, Observe, stores
    <3>2. CASE EnsureProjection
      BY <1>0, <2>1, <3>2 DEF EnsureProjection, SchedulerCall, Goto, Fail
    <3>3. CASE ReconcileConfig
      BY <1>0, <2>1, <3>3 DEF ReconcileConfig, SchedulerCall, Goto, Fail
    <3> QED  BY <1>5, <3>1, <3>2, <3>3, Zenon
  <2> QED  BY <2>2 DEF LifeShape, Opened
<1>6. CASE Crash
  <2>1. auth' = 0 /\ \A r \in Procs : pc'[r] \in {"idle", "list_reconcile"}
    BY <1>6, Zenon DEF Crash
  <2> QED  BY <2>1 DEF LifeShape
<1>7. CASE Traffic \/ UNCHANGED vars
  <2>1. ctl' = ctl /\ pc' = pc /\ seen' = seen /\ (auth' \in {0, auth} \/ Healthy)
    BY <1>7, Zenon DEF Traffic, Bind, Unbind, Authorize, Enqueue, Finalize, Claim,
       Complete, Expire, Authorized, vars, stores
  <2>2. auth' # 0 => Opened'
    BY <2>1 DEF LifeShape, Opened, Healthy
  <2> QED  BY <2>1, <2>2, Zenon DEF LifeShape, Opened
<1> QED
  BY <1>1, <1>2, <1>3, <1>4, <1>5, <1>6, <1>7, Zenon
  DEF Next, Reconcile, Traffic, Procs

\* The state the contract sees stays when the rows do.
LEMMA SameLife ==
    ASSUME UNCHANGED <<ctl, sch, rows, referrers>>
    PROVE  Life!Internal
  BY Zenon DEF Life!Internal, Life!vars

\* The store calls of a create, and of its reconciliation.
LEMMA CreateLife ==
    ASSUME IInv, NEW p \in Procs,
           \/ CreateProjection(p) \/ VerifyProjection(p) \/ MarkReady(p)
           \/ p = Boot /\ EnsureProjection
    PROVE  Life!Internal \/ Life!Project \/ Life!Publish
<1>1. /\ RowShape /\ StepShape(p)
      /\ ctl \in Control /\ sch \in Projection
  BY Zenon DEF IInv, TypeOK, StepShapes
<1>2. ASSUME pc[p] \in {"create_projection", "ensure_projection"},
             sch.state = "absent", sch' = Accepting(p),
             UNCHANGED <<ctl, rows, referrers>>
      PROVE  Life!Project
  <2>1. /\ ctl.state = "creating" /\ ctl.gen = 1
        /\ seen[p].gen = 1 /\ seen[p].config = ctl.config
    BY <1>1, <1>2 DEF StepShape, CreateSteps, RowShape
  <2>2. sch'.state = "accepting" /\ sch'.gen = ctl.gen /\ sch'.config = ctl.config
    BY <1>2, <2>1 DEF Accepting
  <2> QED  BY <1>2, <2>1, <2>2 DEF Life!Project
<1>3. CASE CreateProjection(p)
  <2>1. CASE sch.state = "absent"
    BY <1>2, <1>3, <2>1, Zenon DEF CreateProjection, SchedulerCall
  <2>2. CASE sch.state # "absent"
    BY <1>3, <2>2, SameLife, Zenon DEF CreateProjection, SchedulerCall
  <2> QED  BY <2>1, <2>2, Zenon
<1>4. CASE VerifyProjection(p)
  BY <1>4, SameLife, Zenon DEF VerifyProjection, SchedulerCall
<1>5. CASE MarkReady(p)
  <2>1. CASE ctl.state = "creating" /\ ctl.gen = 1
    <3>1. ctl' = ControlAs("ready", "healthy") /\ UNCHANGED <<sch, rows, referrers>>
      BY <1>5, <2>1, Zenon DEF MarkReady, ControlCall
    <3>2. /\ sch.state \in {"accepting", "configuring"}
          /\ sch.gen = ctl.gen /\ sch.config = ctl.config
      BY <1>1, <1>5, <2>1 DEF MarkReady, ControlCall, StepShape, RowShape, Live
    <3>3. ctl'.state = "ready" /\ ctl'.gen = ctl.gen /\ ctl'.config = ctl.config
      BY <3>1 DEF ControlAs
    <3> QED  BY <2>1, <3>1, <3>2, <3>3 DEF Life!Publish, Life!Running
  <2>2. CASE ~(ctl.state = "creating" /\ ctl.gen = 1)
    BY <1>5, <2>2, SameLife, Zenon DEF MarkReady, ControlCall
  <2> QED  BY <2>1, <2>2, ZenonT(60)
<1>6. CASE p = Boot /\ EnsureProjection
  <2>1. CASE sch.state = "absent"
    BY <1>2, <1>6, <2>1, Zenon DEF EnsureProjection, SchedulerCall
  <2>2. CASE sch.state # "absent"
    BY <1>6, <2>2, SameLife, Zenon DEF EnsureProjection, SchedulerCall
  <2> QED  BY <2>1, <2>2, Zenon
<1> QED  BY <1>3, <1>4, <1>5, <1>6, Zenon

\* A healthy Queue works with its newest config.
LEMMA HealthyApplied ==
    ASSUME IInv, Healthy
    PROVE  /\ ctl.state = "ready" /\ sch.state \in {"accepting", "configuring"}
           /\ sch.gen = ctl.gen /\ sch.config = ctl.config
  BY DEF IInv, RowShape, Healthy, Live

\* The config that was written comes into force, by its call or after a crash.
LEMMA ApplyLife ==
    ASSUME IInv, NEW p \in Procs, pc[p] \in WriteSteps,
           sch.state \in {"accepting", "configuring"}, sch.gen = seen[p].gen - 1,
           sch' = [state |-> "configuring", gen |-> seen[p].gen, config |-> seen[p].config],
           UNCHANGED <<ctl, rows, referrers>>
    PROVE  Life!Apply
<1>1. /\ ctl.state = "ready" /\ seen[p].gen = ctl.gen /\ seen[p].config = ctl.config
      /\ ctl.gen \in Nat /\ sch.gen \in Nat
  BY BoundAssumption DEF IInv, TypeOK, Control, Projection, StepShapes, StepShape
<1>2. sch'.state = "configuring" /\ sch'.gen = ctl.gen /\ sch'.config = ctl.config
  BY <1>1
<1>3. ctl.gen = sch.gen + 1
  BY <1>1
<1> QED  BY <1>1, <1>2, <1>3 DEF Life!Apply, Life!Running

\* The store calls of a config change, and of its reconciliation.
LEMMA ConfigLife ==
    ASSUME IInv, LifeShape, NEW p \in Procs,
           \/ BeginConfig(p) \/ WriteConfigPending(p) \/ ProjectConfig(p)
           \/ MarkConfigHealthy(p) \/ FinishConfig(p)
           \/ p = Boot /\ ReconcileConfig
    PROVE  Life!Internal \/ Life!Pause \/ Life!Update \/ Life!Apply \/ Life!Resume
<1>1. CASE BeginConfig(p)
  <2>1. CASE sch' = sch
    BY <1>1, <2>1, SameLife, Zenon DEF BeginConfig, SchedulerCall
  <2>2. CASE sch' # sch
    <3>1. /\ sch.state \in {"accepting", "configuring"} /\ sch' = ProjectionAs("configuring")
          /\ UNCHANGED <<ctl, rows, referrers>>
      BY <1>1, <2>2, Zenon DEF BeginConfig, SchedulerCall
    <3>2. sch'.state = "configuring" /\ sch'.gen = sch.gen /\ sch'.config = sch.config
      BY <3>1 DEF ProjectionAs
    <3> QED  BY <3>1, <3>2 DEF Life!Pause, Life!Running
  <2> QED  BY <2>1, <2>2, Zenon
<1>2. CASE WriteConfigPending(p)
  <2>1. CASE Healthy /\ ctl.gen = seen[p].gen
    <3>1. /\ ctl' = [state |-> "ready", code |-> "QUEUE_CONFIG_PENDING",
                     gen |-> seen[p].gen + 1, config |-> seen[p].config]
          /\ pc[p] = "write_pending" /\ UNCHANGED <<sch, rows, referrers>>
      BY <1>2, <2>1, ZenonT(60) DEF WriteConfigPending, ControlCall
    <3>2. /\ ctl'.state = "ready" /\ ctl'.gen = ctl.gen + 1 /\ ctl'.config = seen[p].config
      BY <2>1, <3>1
    <3>3. seen[p].config \in Configs /\ seen[p].config # ctl.config
      <4>1. seen[p] \in Seen
        BY Zenon DEF IInv, TypeOK
      <4> QED  BY <2>1, <3>1, <4>1 DEF Seen, LifeShape
    <3>4. /\ ctl.state = "ready" /\ sch.state \in {"accepting", "configuring"}
          /\ sch.gen = ctl.gen /\ sch.config = ctl.config
      BY <2>1, HealthyApplied, Zenon
    <3> QED  BY <3>1, <3>2, <3>3, <3>4 DEF Life!Update, Life!Running, Life!Version
  <2>2. CASE ~(Healthy /\ ctl.gen = seen[p].gen)
    BY <1>2, <2>2, SameLife, Zenon DEF WriteConfigPending, ControlCall
  <2> QED  BY <2>1, <2>2, Zenon
<1>3. CASE ProjectConfig(p)
  <2>1. CASE sch.state = "configuring" /\ sch.gen = seen[p].gen - 1
    <3>1. pc[p] \in WriteSteps
      BY <1>3 DEF ProjectConfig, SchedulerCall, WriteSteps
    <3> QED  BY <1>3, <2>1, <3>1, ApplyLife, Zenon DEF ProjectConfig, SchedulerCall
  <2>2. CASE ~(sch.state = "configuring" /\ sch.gen = seen[p].gen - 1)
    BY <1>3, <2>2, SameLife, Zenon DEF ProjectConfig, SchedulerCall
  <2> QED  BY <2>1, <2>2, Zenon
<1>4. CASE MarkConfigHealthy(p)
  <2>1. CASE ctl' = ctl
    BY <1>4, <2>1, SameLife, Zenon DEF MarkConfigHealthy, ControlCall
  <2>2. CASE ctl' # ctl
    <3>1. /\ ctl.state = "ready" /\ ctl' = ControlAs("ready", "healthy")
          /\ UNCHANGED <<sch, rows, referrers>>
      BY <1>4, <2>2, Zenon DEF MarkConfigHealthy, ControlCall
    <3>2. ctl'.state = ctl.state /\ ctl'.gen = ctl.gen /\ ctl'.config = ctl.config
      BY <3>1 DEF ControlAs
    <3> QED  BY <3>1, <3>2, Zenon DEF Life!Internal, Life!vars
  <2> QED  BY <2>1, <2>2, Zenon
<1>5. CASE FinishConfig(p)
  <2>1. CASE sch.state = "configuring" /\ sch.gen = seen[p].gen
    <3>1. /\ sch' = ProjectionAs("accepting") /\ pc[p] = "finish_config"
          /\ UNCHANGED <<ctl, rows, referrers>>
      BY <1>5, <2>1, Zenon DEF FinishConfig, SchedulerCall
    <3>2. sch'.state = "accepting" /\ sch'.gen = sch.gen /\ sch'.config = sch.config
      BY <3>1 DEF ProjectionAs
    <3>3. ctl.state \in {"ready", "deleting"}
      <4>1. ctl \in Control /\ Opened /\ RowShape
        BY <3>1, Zenon DEF IInv, TypeOK, LifeShape
      <4> QED  BY <2>1, <4>1 DEF Control, Opened, RowShape
    <3> QED  BY <2>1, <3>1, <3>2, <3>3, Zenon DEF Life!Resume
  <2>2. CASE ~(sch.state = "configuring" /\ sch.gen = seen[p].gen)
    <3>1. sch \in Projection
      BY ZenonT(60) DEF IInv, TypeOK
    <3>2. sch' = sch /\ UNCHANGED <<ctl, rows, referrers>>
      BY <1>5, <2>2, <3>1 DEF FinishConfig, SchedulerCall, ProjectionAs, Projection
    <3> QED  BY <3>2, SameLife, Zenon
  <2> QED  BY <2>1, <2>2, Zenon
<1>6. CASE p = Boot /\ ReconcileConfig
  <2>1. CASE sch' = sch
    BY <1>6, <2>1, SameLife, Zenon DEF ReconcileConfig, SchedulerCall
  <2>2. CASE sch' # sch
    <3>1. pc[p] = "reconcile_config" /\ UNCHANGED <<ctl, rows, referrers>>
      BY <1>6, Zenon DEF ReconcileConfig, SchedulerCall
    <3>2. /\ sch.state \in {"accepting", "configuring"} /\ sch.gen = seen[p].gen - 1
          /\ sch' = [state |-> "configuring", gen |-> seen[p].gen, config |-> seen[p].config]
      BY <1>6, <2>2, Zenon DEF ReconcileConfig, SchedulerCall
    <3>3. pc[p] \in WriteSteps
      BY <3>1, Zenon DEF WriteSteps
    <3> QED  BY <3>1, <3>2, <3>3, ApplyLife, Zenon
  <2> QED  BY <2>1, <2>2, Zenon
<1> QED  BY <1>1, <1>2, <1>3, <1>4, <1>5, <1>6, Zenon

\* Messages go, and nothing else changes.
LEMMA RemoveLife ==
    ASSUME IInv, IInv', UNCHANGED <<ctl, sch, referrers>>, rows'.gated = rows.gated,
           rows'.ready + rows'.claimed <= rows.ready + rows.claimed
    PROVE  Life!Remove
<1>1. rows.ready + rows.claimed \in Nat /\ rows'.ready + rows'.claimed \in Nat
  BY BoundAssumption DEF IInv, TypeOK
<1>2. rows'.ready + rows'.claimed \in 0 .. rows.ready + rows.claimed
  BY <1>1
<1> QED  BY <1>2 DEF Life!Remove, Life!Holding

\* The store calls of a delete.
LEMMA DeleteLife ==
    ASSUME IInv, IInv', NEW p \in Procs,
           \/ Metrics(p) \/ BeginDelete(p) \/ FenceDelete(p) \/ Purge(p)
           \/ DeleteProjection(p) \/ MarkTombstoned(p)
    PROVE  \/ Life!Internal \/ Life!Delete \/ Life!Close \/ Life!Remove
           \/ Life!Withdraw \/ Life!Bury
<1>0. /\ RowShape /\ StepShape(p) /\ sch \in Projection /\ ctl \in Control
      /\ rows \in [ready : 0 .. MaxBacklog, claimed : 0 .. MaxBacklog,
                   gated : 0 .. MaxBacklog]
  BY Zenon DEF IInv, TypeOK, StepShapes
<1>1. CASE Metrics(p)
  BY <1>1, SameLife, Zenon DEF Metrics, SchedulerCall
<1>2. CASE BeginDelete(p)
  <2>1. CASE referrers = {} /\ Healthy
    <3>1. /\ ctl' = ControlAs("deleting", "QUEUE_DELETE_PENDING")
          /\ UNCHANGED <<sch, rows, referrers>>
      BY <1>2, <2>1, Zenon DEF BeginDelete, ControlCall
    <3>2. ctl'.state = "deleting" /\ ctl'.gen = ctl.gen /\ ctl'.config = ctl.config
      BY <3>1 DEF ControlAs
    <3>3. /\ ctl.state = "ready" /\ sch.state \in {"accepting", "configuring"}
          /\ sch.gen = ctl.gen /\ sch.config = ctl.config
      BY <2>1, HealthyApplied, Zenon
    <3> QED  BY <2>1, <3>1, <3>2, <3>3, Zenon DEF Life!Delete, Life!Running
  <2>2. CASE ~(referrers = {} /\ Healthy)
    BY <1>2, <2>2, SameLife, Zenon DEF BeginDelete, ControlCall
  <2> QED  BY <2>1, <2>2, Zenon
<1>3. CASE FenceDelete(p)
  <2>1. ctl.state = "deleting" /\ UNCHANGED <<ctl, rows, referrers>>
    BY <1>0, <1>3 DEF FenceDelete, SchedulerCall, StepShape, DeleteSteps
  <2>2. CASE sch.state \in {"accepting", "configuring"}
    <3>1. sch' = ProjectionAs("deleting")
      BY <1>3, <2>2 DEF FenceDelete, SchedulerCall
    <3>2. sch'.state = "deleting" /\ sch'.gen = sch.gen /\ sch'.config = sch.config
      BY <3>1 DEF ProjectionAs
    <3> QED  BY <2>1, <2>2, <3>2, Zenon DEF Life!Close, Life!Running
  <2>3. CASE sch.state \notin {"accepting", "configuring"}
    <3>1. sch' = sch
      BY <1>0, <1>3, <2>3 DEF FenceDelete, SchedulerCall, ProjectionAs, Projection
    <3> QED  BY <2>1, <3>1, SameLife, Zenon
  <2> QED  BY <2>2, <2>3, Zenon
<1>4. CASE Purge(p)
  <2>1. /\ UNCHANGED <<ctl, sch, referrers>>
        /\ \E k \in 0 .. rows.ready : rows' = Rows(rows.ready - k, rows.claimed, rows.gated)
    BY <1>4, Zenon DEF Purge
  <2>2. /\ rows'.gated = rows.gated
        /\ rows'.ready + rows'.claimed <= rows.ready + rows.claimed
    BY <1>0, <2>1, BoundAssumption DEF Rows
  <2> QED  BY <2>1, <2>2, RemoveLife, Zenon
<1>5. CASE DeleteProjection(p)
  <2>1. CASE sch.state = "deleting" /\ rows.ready + rows.claimed = 0
    <3>1. /\ sch' = ProjectionAs("absent") /\ pc[p] = "delete_projection"
          /\ UNCHANGED <<ctl, rows, referrers>>
      BY <1>5, <2>1, Zenon DEF DeleteProjection, SchedulerCall
    <3>2. sch'.state = "absent" /\ sch'.gen = sch.gen /\ sch'.config = sch.config
      BY <3>1 DEF ProjectionAs
    <3>3. rows.gated = 0 /\ ctl.state = "deleting"
      BY <1>0, <3>1 DEF StepShape, DeleteSteps
    <3> QED  BY <2>1, <3>1, <3>2, <3>3 DEF Life!Withdraw, Life!Holding
  <2>2. CASE ~(sch.state = "deleting" /\ rows.ready + rows.claimed = 0)
    BY <1>5, <2>2, SameLife, Zenon DEF DeleteProjection, SchedulerCall
  <2> QED  BY <2>1, <2>2, Zenon
<1>6. CASE MarkTombstoned(p)
  <2>1. CASE ctl.state = "deleting"
    <3>1. /\ ctl' = ControlAs("tombstoned", "QUEUE_DELETED") /\ pc[p] = "mark_tombstoned"
          /\ UNCHANGED <<sch, rows, referrers>>
      BY <1>6, <2>1, Zenon DEF MarkTombstoned, ControlCall
    <3>2. ctl'.state = "tombstoned" /\ ctl'.gen = ctl.gen /\ ctl'.config = ctl.config
      BY <3>1 DEF ControlAs
    <3>3. sch.state = "absent"
      BY <1>0, <3>1, Zenon DEF StepShape
    <3> QED  BY <2>1, <3>1, <3>2, <3>3, Zenon DEF Life!Bury
  <2>2. CASE ctl.state # "deleting"
    BY <1>6, <2>2, SameLife, Zenon DEF MarkTombstoned, ControlCall
  <2> QED  BY <2>1, <2>2, Zenon
<1> QED  BY <1>1, <1>2, <1>3, <1>4, <1>5, <1>6, Zenon

\* Bindings, sends and consumers: a send that was authorized long ago still finds
\* the intake as the contract has it.
LEMMA TrafficLife ==
    ASSUME IInv, IInv', LifeShape, Traffic
    PROVE  \/ Life!Internal \/ Life!Bind \/ Life!Unbind \/ Life!Accept
           \/ Life!Finalize \/ Life!Remove
<1>0. /\ rows \in [ready : 0 .. MaxBacklog, claimed : 0 .. MaxBacklog,
                   gated : 0 .. MaxBacklog]
      /\ ctl \in Control /\ RowShape
  BY Zenon DEF IInv, TypeOK
<1>1. CASE \E r \in {"producer", "consumer"} : Bind(r)
  BY <1>1, Zenon DEF Bind, Healthy, Life!Bind
<1>2. CASE \E r \in {"producer", "consumer"} : Unbind(r)
  BY <1>2, Zenon DEF Unbind, Life!Unbind
<1>3. CASE Authorize
  BY <1>3, SameLife, Zenon DEF Authorize, stores
<1>4. CASE \E gate \in {0, 1} : Enqueue(gate)
  <2> PICK gate \in {0, 1} : Enqueue(gate)
    BY <1>4, Zenon
  <2>1. CASE sch.state = "accepting" /\ sch.gen = auth
    <3>1. /\ rows' = Rows(rows.ready + 1, rows.claimed, rows.gated + gate)
          /\ auth # 0 /\ UNCHANGED <<ctl, sch, referrers>>
      BY <2>1, Zenon DEF Enqueue
    <3>2. /\ rows'.ready + rows'.claimed = (rows.ready + rows.claimed) + 1
          /\ rows'.gated = rows.gated + gate
      BY <1>0, <3>1, BoundAssumption DEF Rows
    <3>3. ctl.state \in {"ready", "deleting"}
      BY <1>0, <2>1, <3>1 DEF LifeShape, Opened, Control, RowShape
    <3> QED  BY <2>1, <3>1, <3>2, <3>3 DEF Life!Accept, Life!Holding
  <2>2. CASE ~(sch.state = "accepting" /\ sch.gen = auth)
    BY <2>2, SameLife, Zenon DEF Enqueue
  <2> QED  BY <2>1, <2>2, Zenon
<1>5. CASE Finalize
  <2>1. /\ ctl.state = "ready" /\ rows.gated > 0 /\ UNCHANGED <<ctl, sch, referrers>>
        /\ rows' = Rows(rows.ready, rows.claimed, rows.gated - 1)
    BY <1>5, Zenon DEF Finalize, Authorized, Healthy
  <2>2. /\ rows'.ready + rows'.claimed = rows.ready + rows.claimed
        /\ rows'.gated = rows.gated - 1
    BY <2>1 DEF Rows
  <2> QED  BY <2>1, <2>2 DEF Life!Finalize, Life!Holding
<1>6. CASE Claim \/ (\E retry \in {0, 1} : Complete(retry)) \/ Expire
  <2>1. /\ UNCHANGED <<ctl, sch, referrers>> /\ rows'.gated = rows.gated
        /\ rows'.ready + rows'.claimed <= rows.ready + rows.claimed
    BY <1>0, <1>6, BoundAssumption DEF Claim, Complete, Expire, Rows
  <2> QED  BY <2>1, RemoveLife, Zenon
<1> QED  BY <1>1, <1>2, <1>3, <1>4, <1>5, <1>6, Zenon DEF Traffic

LEMMA LifeInit == Init => Life!Init /\ LifeShape
<1> SUFFICES ASSUME Init PROVE Life!Init /\ LifeShape
  OBVIOUS
<1>1. PICK c \in Configs :
          /\ ctl = [state |-> "none", code |-> "healthy", gen |-> 0, config |-> c]
          /\ sch = [state |-> "absent", gen |-> 0, config |-> c]
          /\ rows = Rows(0, 0, 0) /\ referrers = {}
  BY Zenon DEF Init
<1>2. /\ ctl.state = "none" /\ ctl.gen = 0 /\ ctl.config = c
      /\ sch.state = "absent" /\ sch.gen = 0 /\ sch.config = c
      /\ rows.ready + rows.claimed = 0 /\ rows.gated = 0 /\ referrers = {}
  BY <1>1 DEF Rows
<1>3. Life!Init
  BY <1>2 DEF Life!Init, Life!Version, Life!Holding
<1>4. auth = 0 /\ \A p \in Procs : pc[p] = "idle"
  BY Zenon DEF Init
<1>5. LifeShape
  BY <1>4 DEF LifeShape
<1> QED  BY <1>3, <1>5

LEMMA LifeStep ==
    ASSUME IInv, IInv', LifeShape, [Next]_vars
    PROVE  [Life!Next]_(Life!vars)
<1>1. CASE \E p \in Calls, c \in Configs : ReserveCreate(p, c)
  <2> PICK p \in Calls, c \in Configs : ReserveCreate(p, c)
    BY <1>1, Zenon
  <2>1. /\ ctl.state = "none" /\ UNCHANGED <<sch, rows, referrers>>
        /\ ctl'.state = "creating" /\ ctl'.gen = 1 /\ ctl'.config = c
    BY DEF ReserveCreate
  <2>2. Life!Reserve
    BY <2>1 DEF Life!Reserve, Life!Version
  <2> QED  BY <2>2, Zenon DEF Life!Next
<1>2. CASE \E p \in Calls : StartDelete(p) \/ \E c \in Configs : StartUpdate(p, c)
  BY <1>2, SameLife, Zenon DEF StartDelete, StartUpdate, stores, Life!Next
<1>3. CASE \E p \in Procs : Step(p)
  <2> PICK p \in Procs : Step(p)
    BY <1>3, Zenon
  <2>1. CASE CreateProjection(p) \/ VerifyProjection(p) \/ MarkReady(p)
    BY <2>1, CreateLife, Zenon DEF Life!Next
  <2>2. CASE \/ BeginConfig(p) \/ WriteConfigPending(p) \/ ProjectConfig(p)
             \/ MarkConfigHealthy(p) \/ FinishConfig(p)
    BY <2>2, ConfigLife, Zenon DEF Life!Next
  <2>3. CASE \/ Metrics(p) \/ BeginDelete(p) \/ FenceDelete(p) \/ Purge(p)
             \/ DeleteProjection(p) \/ MarkTombstoned(p)
    BY <2>3, DeleteLife, Zenon DEF Life!Next
  <2> QED  BY <2>1, <2>2, <2>3, Zenon DEF Step
<1>4. CASE ListReconcile \/ EnsureProjection \/ ReconcileConfig
  <2>1. Boot \in Procs
    BY Zenon DEF Procs
  <2>2. CASE ListReconcile
    BY <2>2, SameLife, Zenon DEF ListReconcile, stores, Life!Next
  <2>3. CASE EnsureProjection
    BY <2>1, <2>3, CreateLife, Zenon DEF Life!Next
  <2>4. CASE ReconcileConfig
    BY <2>1, <2>4, ConfigLife, Zenon DEF Life!Next
  <2> QED  BY <1>4, <2>2, <2>3, <2>4, Zenon
<1>5. CASE Crash
  <2>1. /\ UNCHANGED <<ctl, sch, referrers>>
        /\ \E k \in 0 .. rows.claimed : rows' = Rows(rows.ready + k, 0, rows.gated)
    BY <1>5, Zenon DEF Crash
  <2>2. rows \in [ready : 0 .. MaxBacklog, claimed : 0 .. MaxBacklog,
                  gated : 0 .. MaxBacklog]
    BY Zenon DEF IInv, TypeOK
  <2>3. /\ rows'.gated = rows.gated
        /\ rows'.ready + rows'.claimed <= rows.ready + rows.claimed
    BY <2>1, <2>2, BoundAssumption DEF Rows
  <2> QED  BY <2>1, <2>3, RemoveLife, Zenon DEF Life!Next
<1>6. CASE Traffic
  BY <1>6, TrafficLife, Zenon DEF Life!Next
<1>7. CASE UNCHANGED vars
  BY <1>7, SameLife, Zenon DEF vars, Life!Next
<1> QED
  BY <1>1, <1>2, <1>3, <1>4, <1>5, <1>6, <1>7, Zenon
  DEF Next, Reconcile, Traffic, Procs

\* For any number of overlapping calls and crashes, the control row and its
\* projection implement LifecycleContract: what a reader of both sees is one
\* Queue that goes through whole creates, config changes and deletes.
THEOREM AuthoritiesKeepContract == Spec => KeepsLifecycleContract
<1>1. IInv /\ IInv' /\ LifeShape /\ [Next]_vars => [Life!Next]_(Life!vars)
  BY LifeStep, Zenon
<1> QED
  BY <1>1, LifeInit, NextLife, Invariance, PTL
  DEF Spec, KeepsLifecycleContract, Life!Spec

-----------------------------------------------------------------------------
(* What the contract means for a Queue that is going.                      *)

\* The Queue is deleted and its intake was closed, or is gone.
Closed ==
    ctl.state \in {"deleting", "tombstoned"} /\ sch.state \in {"deleting", "absent"}

\* A closed Queue stays closed, and what it holds only becomes less.
OnlyDrains ==
    Closed =>
        /\ Closed'
        /\ rows'.ready + rows'.claimed <= rows.ready + rows.claimed
        /\ rows'.gated <= rows.gated

LEMMA StepDrains ==
    ASSUME IInv, [Life!Next]_(Life!vars)
    PROVE  OnlyDrains
<1> SUFFICES ASSUME Closed
             PROVE  /\ Closed'
                    /\ rows'.ready + rows'.claimed <= rows.ready + rows.claimed
                    /\ rows'.gated <= rows.gated
  BY Zenon DEF OnlyDrains
<1>0. rows.ready + rows.claimed \in Nat /\ rows.gated \in Nat
  BY BoundAssumption DEF IInv, TypeOK
<1>1. CASE UNCHANGED Life!vars \/ Life!Internal
  BY <1>0, <1>1 DEF Closed, Life!Internal, Life!vars
<1>2. CASE Life!Reserve \/ Life!Project \/ Life!Publish
  BY <1>2 DEF Closed, Life!Reserve, Life!Project, Life!Publish
<1>3. CASE Life!Pause \/ Life!Update \/ Life!Apply \/ Life!Resume
  BY <1>3 DEF Closed, Life!Pause, Life!Update, Life!Apply, Life!Resume, Life!Running
<1>4. CASE Life!Delete \/ Life!Close
  BY <1>4 DEF Closed, Life!Delete, Life!Close, Life!Running
<1>5. CASE Life!Withdraw \/ Life!Bury
  BY <1>0, <1>5 DEF Closed, Life!Withdraw, Life!Bury
<1>6. CASE Life!Bind \/ Life!Unbind
  BY <1>0, <1>6 DEF Closed, Life!Bind, Life!Unbind
<1>7. CASE Life!Accept \/ Life!Finalize
  BY <1>7 DEF Closed, Life!Accept, Life!Finalize
<1>8. CASE Life!Remove
  BY <1>0, <1>8 DEF Closed, Life!Remove, Life!Holding
<1> QED
  BY <1>1, <1>2, <1>3, <1>4, <1>5, <1>6, <1>7, <1>8, Zenon DEF Life!Next

\* Once the Scheduler has fenced the delete, no late send, config change, retry
\* or reconciliation opens the Queue again or adds a message or a gated
\* operation to it, so that the purge of a delete is never undone.
THEOREM DeletedOnlyDrains == Spec => [][OnlyDrains]_vars
<1>1. IInv /\ [Life!Next]_(Life!vars) => OnlyDrains
  BY StepDrains, Zenon
<1> QED
  BY <1>1, Invariance, AuthoritiesKeepContract, PTL DEF KeepsLifecycleContract, Life!Spec

=============================================================================
