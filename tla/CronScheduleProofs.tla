------------------------- MODULE CronScheduleProofs -------------------------
(* The invariant behind the theorems of CronProofs, and its preservation by  *)
(* promotions, deletions and the projection of due slots.                    *)
EXTENDS Cron, TLAPS

USE SMTT(60)

(* The attempt of a row counts its handler starts, and a task that has not   *)
(* called its handler yet has one start in hand.                             *)
Budget ==
    /\ \A k \in DOMAIN runs :
          starts[k] <= runs[k].attempt /\ runs[k].attempt <= MaxRetries + 1
    /\ \A t \in tasks : t.phase = "spawned" => starts[t.run] < t.attempt
    /\ \A k \in Keys : starts[k] > 0 => k \in fired
    /\ HandlerBudget

(* A schedule is past every slot its activation has fired, and only          *)
(* activations that were handed out have fired.                              *)
FiredPast ==
    /\ DOMAIN runs \subseteq fired
    /\ \A k \in fired : k[1] <= promotions
    /\ \A a \in DOMAIN schedules : a[1] <= promotions
    /\ \A k \in fired : ActivationOf(k) \in DOMAIN schedules =>
          k[3] < schedules[ActivationOf(k)].next

IInv ==
    /\ TypeOK
    /\ TaskOwnsClaim
    /\ PinsExact
    /\ ScheduledVersionIsReady
    /\ Budget
    /\ FiredPast

-----------------------------------------------------------------------------
(* Types and rows.                                                           *)

\* Slots are positive times.
LEMMA SlotTypes ==
    /\ \A s \in SlotTimes : s \in Nat
    /\ \A e \in Exprs : \A s \in Slots[e] : s \in SlotTimes
BY CronAssumption, Zenon DEF SlotTimes

\* A run names its activation and its slot.
LEMMA KeyTypes ==
    ASSUME NEW k \in Keys
    PROVE  /\ k[1] \in 1..MaxPromotions /\ k[2] \in Exprs /\ k[3] \in Nat
           /\ ActivationOf(k) \in Activations
           /\ k = <<k[1], k[2], k[3]>>
<1>1. k \in (1..MaxPromotions) \X Exprs \X SlotTimes
  BY Zenon DEF Keys
<1>2. k[1] \in 1..MaxPromotions /\ k[2] \in Exprs /\ k[3] \in SlotTimes
  BY <1>1, Zenon
<1>3. k = <<k[1], k[2], k[3]>>
  BY <1>1
<1> QED  BY <1>2, <1>3, SlotTypes, Zenon DEF ActivationOf, Activations

\* A run that fails keeps its attempt and version.
LEMMA FailRow ==
    ASSUME NEW r \in Row, NEW t \in Nat
    PROVE  /\ Fail(r, t) \in Row /\ Fail(r, t).state = "failed"
           /\ Fail(r, t).attempt = r.attempt /\ Fail(r, t).version = r.version
<1>1. r.attempt \in 0..4 /\ r.deadline \in Nat \cup {Undispatched}
  BY Zenon DEF Row
<1> QED  BY <1>1, Zenon DEF Fail, Update, Row, Terminal

\* A run that waits for its next attempt keeps its attempt and version.
LEMMA WaitRow ==
    ASSUME NEW r \in Row, NEW t \in Nat
    PROVE  /\ ReadyRow(r, t) \in Row /\ ReadyRow(r, t).state = "ready"
           /\ ReadyRow(r, t).attempt = r.attempt
           /\ ReadyRow(r, t).version = r.version
<1>1. r.attempt \in 0..4 /\ r.deadline \in Nat \cup {Undispatched}
  BY Zenon DEF Row
<1> QED  BY <1>1, Zenon DEF ReadyRow, Update, Row, Terminal

\* A claim consumes one attempt and leaves a deadline.
LEMMA ClaimedRow ==
    ASSUME NEW r \in Row, NEW t \in Nat, r.attempt < MaxRetries + 1
    PROVE  /\ ClaimRow(r, t) \in Row /\ ClaimRow(r, t).state = "claimed"
           /\ ClaimRow(r, t).attempt = r.attempt + 1
           /\ ClaimRow(r, t).attempt \in 1..4
           /\ ClaimRow(r, t).deadline \in Nat
           /\ ClaimRow(r, t).version = r.version
<1> DEFINE d == IF r.deadline = Undispatched THEN t + Window ELSE r.deadline
<1>1. r.attempt + 1 \in 1..4 /\ t + Window \in Nat
  BY CronAssumption DEF Row
<1>2. d \in Nat
  BY <1>1, Zenon DEF Row
<1> HIDE DEF d
<1>3. ClaimRow(r, t) = Update(r, "claimed", r.attempt + 1, 0, d, 0)
  BY Zenon DEF ClaimRow, d
<1> QED  BY <1>1, <1>2, <1>3 DEF Update, Row, Terminal

\* A known result ends the claim and keeps the attempt of the task.
LEMMA ResultRow ==
    ASSUME NEW r \in Row, NEW t \in Task, now \in Nat, r.attempt = t.attempt
    PROVE  /\ CompletedRow(r, t) \in Row
           /\ CompletedRow(r, t).state \in {"ready"} \cup Terminal
           /\ CompletedRow(r, t).attempt = r.attempt
           /\ CompletedRow(r, t).version = r.version
<1> DEFINE at == now + RetryDelay[t.attempt]
<1>1. at \in Nat /\ t.attempt \in 0..4 /\ r.deadline \in Nat \cup {Undispatched}
  BY CronAssumption DEF Task, Row
<1>2. CompletedRow(r, t) \in
          {Update(r, "complete", t.attempt, 0, r.deadline, now),
           Update(r, "ready", t.attempt, at, r.deadline, 0),
           Update(r, "failed", t.attempt, 0, r.deadline, now)}
  BY Zenon DEF CompletedRow
<1> HIDE DEF at
<1> QED  BY <1>1, <1>2 DEF Update, Row, Terminal

\* An unknown result ends the claim and keeps the attempt, whatever budget the
\* decision is given.
LEMMA UnknownResultRow ==
    ASSUME NEW r \in Row, NEW t \in Nat, NEW n
    PROVE  /\ UnknownRow(r, t, n) \in Row
           /\ UnknownRow(r, t, n).state \in {"ready"} \cup Terminal
           /\ UnknownRow(r, t, n).attempt = r.attempt
           /\ UnknownRow(r, t, n).version = r.version
<1>1. t + UnknownDelay \in Nat
  BY CronAssumption
<1>2. UnknownRow(r, t, n) \in {ReadyRow(r, t + UnknownDelay), Fail(r, t)}
  BY Zenon DEF UnknownRow
<1>3. /\ ReadyRow(r, t + UnknownDelay) \in Row
      /\ ReadyRow(r, t + UnknownDelay).state = "ready"
      /\ ReadyRow(r, t + UnknownDelay).attempt = r.attempt
      /\ ReadyRow(r, t + UnknownDelay).version = r.version
  BY <1>1, WaitRow, Zenon
<1> QED  BY <1>2, <1>3, FailRow DEF Terminal

-----------------------------------------------------------------------------
(* Promotions and deletions.                                                 *)

\* A promotion or a roll-back uses an activation id that has fired nothing, and
\* schedules only a ready version.
LEMMA ReplaceProductsInv ==
    ASSUME IInv, NEW v \in Versions \cup {NoVersion}, NEW t,
           v = NoVersion \/ version[v] = "ready",
           ReplaceProducts(v, t), deployed' \subseteq Versions,
           UNCHANGED <<now, worker, version, runs, runPins, poll, tasks, lost,
                       historyVars, restarts, faults, delays>>
    PROVE  IInv'
<1> DEFINE n == promotions + 1
           D == Declared(v)
<1>1. D \subseteq Exprs /\ (D # {} => v \in Versions /\ version[v] = "ready")
  BY CronAssumption, Zenon DEF Declared
<1>2. promotions \in Nat /\ n \in 1..MaxPromotions /\ promotions' = n
  BY CronAssumption DEF IInv, TypeOK, ReplaceProducts
<1>3. PICK next \in [D -> SlotTimes] :
          schedules' = [a \in {n} \X D |-> [version |-> v, next |-> next[a[2]]]]
  BY Zenon DEF ReplaceProducts
<1>4. activationPins' = {v} \X ({n} \X D) /\ active' = v
  BY Zenon DEF ReplaceProducts
<1> HIDE DEF n, D
<1>5. DOMAIN schedules' = {n} \X D
  BY <1>3, Zenon
<1>6. ASSUME NEW a \in {n} \X D
      PROVE  /\ a = <<n, a[2]>> /\ a[1] = n /\ a[2] \in D /\ a \in Activations
             /\ schedules'[a].version = v
             /\ v \in Versions /\ version[v] = "ready"
             /\ schedules'[a] \in Schedule
  <2>1. a = <<n, a[2]>> /\ a[1] = n /\ a[2] \in D
    BY <1>6
  <2>2. a \in Activations
    BY <2>1, <1>1, <1>2, Zenon DEF Activations
  <2>3. next[a[2]] \in Nat
    <3>1. next[a[2]] \in SlotTimes
      BY <2>1, <1>3, Zenon
    <3> QED  BY <3>1, SlotTypes, Zenon
  <2>4. schedules'[a] = [version |-> v, next |-> next[a[2]]]
    BY <1>3, <1>6, Zenon
  <2> QED  BY <2>1, <2>2, <2>3, <2>4, <1>1 DEF Schedule
<1>7. TypeOK'
  <2>1. DOMAIN schedules' \subseteq Activations
    BY <1>5, <1>6, Zenon
  <2>2. \A a \in DOMAIN schedules' : schedules'[a] \in Schedule
    BY <1>5, <1>6, Zenon
  <2>3. activationPins' \subseteq Versions \X Activations
    BY <1>4, <1>6, Zenon
  <2> QED
    BY <2>1, <2>2, <2>3, <1>2, <1>4, CronAssumption
    DEF IInv, TypeOK, historyVars
<1>8. TaskOwnsClaim'
  BY Zenon DEF IInv, TaskOwnsClaim
<1>9. PinsExact'
  <2>1. activationPins' = {<<schedules'[a].version, a>> : a \in DOMAIN schedules'}
    BY <1>4, <1>5, <1>6
  <2> QED  BY <2>1, Zenon DEF IInv, PinsExact, IsTerminal
<1>10. ScheduledVersionIsReady'
  BY <1>5, <1>6, Zenon DEF IInv, ScheduledVersionIsReady, IsTerminal
<1>11. Budget'
  BY Zenon DEF IInv, Budget, HandlerBudget, historyVars
<1>12. FiredPast'
  <2>1. \A k \in fired : ActivationOf(k) \notin DOMAIN schedules'
    <3> SUFFICES ASSUME NEW k \in fired, ActivationOf(k) \in {n} \X D
                 PROVE  FALSE
      BY <1>5, Zenon
    <3>1. k[1] = n
      BY Zenon DEF ActivationOf
    <3>2. k[1] <= promotions
      BY Zenon DEF IInv, FiredPast
    <3> QED  BY <3>1, <3>2, <1>2 DEF n
  <2>2. \A k \in fired : k[1] <= n
    BY <1>2, KeyTypes DEF IInv, TypeOK, FiredPast, n
  <2> QED  BY <2>1, <2>2, <1>2, <1>5, <1>6 DEF IInv, FiredPast, historyVars
<1> QED  BY <1>7, <1>8, <1>9, <1>10, <1>11, <1>12, Zenon DEF IInv

\* The two promotions.
LEMMA PromotionInv ==
    ASSUME IInv, NEW t \in 0..MaxTime,
           \/ \E v \in Versions : Deploy(v, t)
           \/ \E v \in Versions \cup {NoVersion} : Quarantine(v, t)
    PROVE  IInv'
<1>1. ASSUME NEW v \in Versions, Deploy(v, t)  PROVE  IInv'
  BY <1>1, ReplaceProductsInv, Zenon DEF Deploy, IInv, TypeOK
<1>2. ASSUME NEW v \in Versions \cup {NoVersion}, Quarantine(v, t)  PROVE  IInv'
  BY <1>2, ReplaceProductsInv, Zenon DEF Quarantine, IInv, TypeOK
<1> QED  BY <1>1, <1>2, Zenon

\* A deleted Worker keeps its schedules.
LEMMA DeleteWorkerInv ==
    ASSUME IInv, DeleteWorker
    PROVE  IInv'
<1>1. TypeOK'
  BY Zenon DEF IInv, TypeOK, DeleteWorker, historyVars
<1> QED
  BY <1>1
  DEF IInv, DeleteWorker, TaskOwnsClaim, PinsExact, ScheduledVersionIsReady,
      Budget, HandlerBudget, FiredPast, IsTerminal, historyVars

\* A version that something refers to is not deleted: exact referrers make the
\* guard of the deletion mean what it should.
LEMMA VersionDeleteInv ==
    ASSUME IInv, NEW v \in Versions,
           BeginVersionDelete(v) \/ FinalizeVersionDelete(v)
    PROVE  IInv'
<1>1. ~Referenced(v)
  BY Zenon DEF BeginVersionDelete, FinalizeVersionDelete
<1>2. /\ \A u \in Versions \ {v} : version'[u] = version[u]
      /\ version' \in [Versions -> VersionStates]
  BY Zenon DEF BeginVersionDelete, FinalizeVersionDelete, IInv, TypeOK, VersionStates
<1>3. UNCHANGED <<now, worker, active, deployed, schedules, promotions, runs,
                  activationPins, runPins, poll, tasks, lost, historyVars,
                  restarts, faults, delays>>
  BY Zenon DEF BeginVersionDelete, FinalizeVersionDelete
<1>4. TypeOK'
  BY <1>2, <1>3, Zenon DEF IInv, TypeOK, historyVars
<1>5. ScheduledVersionIsReady'
  <2>1. \A a \in DOMAIN schedules : schedules[a].version \in Versions \ {v}
    <3> SUFFICES ASSUME NEW a \in DOMAIN schedules, schedules[a].version = v
                 PROVE  FALSE
      BY Zenon DEF IInv, TypeOK, Schedule
    <3>1. <<v, a>> \in activationPins
      BY Zenon DEF IInv, PinsExact
    <3> QED  BY <3>1, <1>1, Zenon DEF Referenced, ActivationPinned
  <2>2. \A k \in DOMAIN runs :
            ~IsTerminal(k) => runs[k].version \in Versions \ {v}
    <3> SUFFICES ASSUME NEW k \in DOMAIN runs, ~IsTerminal(k),
                        runs[k].version = v
                 PROVE  FALSE
      BY Zenon DEF IInv, TypeOK, Row
    <3>1. <<v, k>> \in runPins
      BY Zenon DEF IInv, PinsExact
    <3> QED  BY <3>1, <1>1, Zenon DEF Referenced
  <2> QED
    BY <2>1, <2>2, <1>2, <1>3, Zenon DEF IInv, ScheduledVersionIsReady, IsTerminal
<1> QED
  BY <1>3, <1>4, <1>5
  DEF IInv, TaskOwnsClaim, PinsExact, Budget, HandlerBudget, FiredPast,
      IsTerminal, historyVars

-----------------------------------------------------------------------------
(* The claim pass.                                                           *)

\* Steps that touch no row, schedule or task.
LEMMA QuietInv ==
    ASSUME IInv, StartPoll \/ PollFails \/ Tick
    PROVE  IInv'
<1>1. UNCHANGED <<versionVars, schedules, promotions, runs, activationPins,
                  runPins, tasks, lost, historyVars, restarts>>
  BY Zenon DEF StartPoll, PollFails, Tick
<1>2. /\ now' \in 0..MaxTime /\ faults' \in 0..MaxFaults
      /\ delays' \in 0..MaxDelays
  <2>1. CASE StartPoll
    BY <2>1, Zenon DEF StartPoll, IInv, TypeOK
  <2>2. CASE PollFails
    BY <2>2, CronAssumption DEF PollFails, IInv, TypeOK
  <2>3. CASE Tick
    <3>1. delays' \in 0..MaxDelays
      BY <2>3, CronAssumption DEF Tick, IInv, TypeOK
    <3>2. now' \in 0..MaxTime /\ faults' = faults
      BY <2>3, CronAssumption DEF Tick, IInv, TypeOK
    <3> QED  BY <3>1, <3>2, Zenon DEF IInv, TypeOK
  <2> QED  BY <2>1, <2>2, <2>3, Zenon
<1>3. poll'.phase \in {"idle", "project", "gc", "claim"} /\ poll'.at \in 0..MaxTime
  <2>1. CASE StartPoll
    BY <2>1, Zenon DEF StartPoll, IInv, TypeOK
  <2>2. CASE PollFails
    BY <2>2, CronAssumption DEF PollFails, Idle
  <2>3. CASE Tick
    BY <2>3, Zenon DEF Tick, IInv, TypeOK
  <2> QED  BY <2>1, <2>2, <2>3, Zenon
<1>4. TypeOK'
  BY <1>1, <1>2, <1>3, Zenon DEF IInv, TypeOK, versionVars, historyVars
<1> QED
  BY <1>1, <1>4
  DEF IInv, TaskOwnsClaim, PinsExact, ScheduledVersionIsReady, Budget,
      HandlerBudget, FiredPast, IsTerminal, versionVars, historyVars

(* What a projection does: a new run lies at or after the next slot of its   *)
(* schedule and before the slot the schedule moves to.                       *)
Projection(new) ==
    /\ new \subseteq Keys \ DOMAIN runs
    /\ \A k \in new :
          /\ ActivationOf(k) \in DOMAIN schedules
          /\ schedules[ActivationOf(k)].next <= k[3]
          /\ k[3] < schedules'[ActivationOf(k)].next
    /\ DOMAIN schedules' = DOMAIN schedules
    /\ \A a \in DOMAIN schedules :
          /\ schedules'[a] \in Schedule
          /\ schedules'[a].version = schedules[a].version
          /\ schedules[a].next <= schedules'[a].next
    /\ runs' = [k \in DOMAIN runs \cup new |->
          IF k \in DOMAIN runs THEN runs[k]
          ELSE [state |-> "ready", attempt |-> 0, nextAt |-> k[3],
                deadline |-> Undispatched, completedAt |-> 0,
                version |-> schedules[ActivationOf(k)].version]]
    /\ runPins' = runPins \cup
          {<<schedules[ActivationOf(k)].version, k>> : k \in new}
    /\ fired' = fired \cup new

\* The claim pass projects.
LEMMA ProjectionStep ==
    ASSUME IInv, ProjectDueCronSlots
    PROVE  \E new \in SUBSET Keys : Projection(new)
<1> DEFINE t == poll.at
           due == {a \in DOMAIN schedules : Due(a, t)}
           New(S) == {k \in Keys \ DOMAIN runs :
                         /\ ActivationOf(k) \in S
                         /\ k[3] \in DueSlots(ActivationOf(k), t)}
<1>1. PICK S, next :
          /\ S \subseteq DOMAIN schedules /\ next \in [S -> SlotTimes]
          /\ S \subseteq due
          /\ \A a \in S : next[a] \in NextAfter(a[2], t)
          /\ schedules' = [a \in DOMAIN schedules |->
                IF a \in S
                THEN [version |-> schedules[a].version, next |-> next[a]]
                ELSE schedules[a]]
          /\ runs' = [k \in DOMAIN runs \cup New(S) |->
                IF k \in DOMAIN runs THEN runs[k]
                ELSE [state |-> "ready", attempt |-> 0, nextAt |-> k[3],
                      deadline |-> Undispatched, completedAt |-> 0,
                      version |-> schedules[ActivationOf(k)].version]]
          /\ runPins' = runPins \cup
                {<<schedules[ActivationOf(k)].version, k>> : k \in New(S)}
          /\ fired' = fired \cup New(S)
  BY Zenon DEF ProjectDueCronSlots, IsPrefix
<1>2. t \in Nat
  BY CronAssumption DEF IInv, TypeOK
<1>3. ASSUME NEW a \in S
      PROVE  /\ next[a] \in Nat /\ t < next[a]
             /\ schedules'[a] = [version |-> schedules[a].version, next |-> next[a]]
  <2>1. next[a] \in SlotTimes
    BY <1>1, <1>3, Zenon
  <2>2. next[a] > t
    BY <1>1, <1>3, Zenon DEF NextAfter
  <2>3. schedules'[a] = [version |-> schedules[a].version, next |-> next[a]]
    BY <1>1, <1>3, Zenon
  <2>4. next[a] \in Nat
    BY <2>1, SlotTypes, Zenon
  <2> QED  BY <2>2, <2>3, <2>4, Zenon
<1>4. ASSUME NEW a \in DOMAIN schedules
      PROVE  /\ schedules'[a] \in Schedule
             /\ schedules'[a].version = schedules[a].version
             /\ schedules[a].next <= schedules'[a].next
  <2>1. schedules[a] \in Schedule
    BY <1>4, Zenon DEF IInv, TypeOK
  <2>2. CASE a \in S
    <3>1. schedules[a].next <= t
      BY <2>2, <1>1, Zenon DEF Due
    <3>2. /\ next[a] \in Nat /\ t < next[a]
          /\ schedules'[a] = [version |-> schedules[a].version, next |-> next[a]]
      BY <2>2, <1>3, Zenon
    <3>3. schedules'[a] \in Schedule /\ schedules'[a].version = schedules[a].version
      BY <3>2, <2>1 DEF Schedule
    <3>4. schedules[a].next <= next[a] /\ schedules'[a].next = next[a]
      BY <3>1, <3>2, <2>1, <1>2 DEF Schedule
    <3> QED  BY <3>3, <3>4, Zenon
  <2>3. CASE a \notin S
    <3>1. schedules'[a] = schedules[a]
      BY <2>3, <1>1, <1>4, Zenon
    <3> QED  BY <3>1, <2>1 DEF Schedule
  <2> QED  BY <2>2, <2>3, Zenon
<1>5. ASSUME NEW k \in New(S)
      PROVE  /\ ActivationOf(k) \in DOMAIN schedules
             /\ schedules[ActivationOf(k)].next <= k[3]
             /\ k[3] < schedules'[ActivationOf(k)].next
  <2>1. ActivationOf(k) \in S /\ k \in Keys /\ k[3] \in DueSlots(ActivationOf(k), t)
    BY <1>5, Zenon
  <2>2. schedules[ActivationOf(k)] \in Schedule
    BY <2>1, <1>1, Zenon DEF IInv, TypeOK
  <2>3. k[3] \in Nat
    BY <2>1, KeyTypes, Zenon
  <2>4. Larger(t - Grace, schedules[ActivationOf(k)].next) <= k[3] /\ k[3] <= t
    BY <2>1, Zenon DEF DueSlots, LatestAtOrBefore
  <2>5. schedules[ActivationOf(k)].next <= k[3]
    BY <2>2, <2>3, <2>4, <1>2, CronAssumption DEF Larger, Schedule
  <2>6. k[3] < schedules'[ActivationOf(k)].next
    <3> DEFINE a == ActivationOf(k)
    <3>1. a \in S
      BY <2>1, Zenon
    <3>2. k[3] <= t
      BY <2>4, Zenon
    <3> HIDE DEF a, t
    <3>3. /\ next[a] \in Nat /\ t < next[a]
          /\ schedules'[a] = [version |-> schedules[a].version, next |-> next[a]]
      BY <3>1, <1>3, Zenon
    <3>4. k[3] < schedules'[a].next
      BY <3>2, <3>3, <2>3, <1>2
    <3> QED  BY <3>4, Zenon DEF a
  <2> QED  BY <2>1, <2>5, <2>6, <1>1, Zenon
<1>6. DOMAIN schedules' = DOMAIN schedules
  BY <1>1, Zenon
<1>7. New(S) \subseteq Keys \ DOMAIN runs /\ New(S) \in SUBSET Keys
  OBVIOUS
<1> HIDE DEF New, t, due
<1>8. \A a \in DOMAIN schedules :
          /\ schedules'[a] \in Schedule
          /\ schedules'[a].version = schedules[a].version
          /\ schedules[a].next <= schedules'[a].next
  BY <1>4, Zenon
<1>9. \A k \in New(S) :
          /\ ActivationOf(k) \in DOMAIN schedules
          /\ schedules[ActivationOf(k)].next <= k[3]
          /\ k[3] < schedules'[ActivationOf(k)].next
  BY <1>5, Zenon
<1>10. Projection(New(S))
  BY <1>1, <1>6, <1>7, <1>8, <1>9, Zenon DEF Projection
<1> QED  BY <1>7, <1>10, Zenon

\* A projected run is new for good: it lies past every slot its activation has
\* fired, whether or not those rows still exist.
LEMMA ProjectionInv ==
    ASSUME IInv, ProjectDueCronSlots
    PROVE  IInv' /\ (\A k \in DOMAIN runs' \ DOMAIN runs : k \notin fired)
<1>0. PICK new : Projection(new)
  BY ProjectionStep, Zenon
<1>1. /\ new \subseteq Keys \ DOMAIN runs
      /\ \A k \in new :
            /\ ActivationOf(k) \in DOMAIN schedules
            /\ schedules[ActivationOf(k)].next <= k[3]
            /\ k[3] < schedules'[ActivationOf(k)].next
      /\ DOMAIN schedules' = DOMAIN schedules
      /\ \A a \in DOMAIN schedules :
            /\ schedules'[a] \in Schedule
            /\ schedules'[a].version = schedules[a].version
            /\ schedules[a].next <= schedules'[a].next
      /\ runs' = [k \in DOMAIN runs \cup new |->
            IF k \in DOMAIN runs THEN runs[k]
            ELSE [state |-> "ready", attempt |-> 0, nextAt |-> k[3],
                  deadline |-> Undispatched, completedAt |-> 0,
                  version |-> schedules[ActivationOf(k)].version]]
      /\ runPins' = runPins \cup
            {<<schedules[ActivationOf(k)].version, k>> : k \in new}
      /\ fired' = fired \cup new
  BY <1>0, Zenon DEF Projection
<1>2. /\ poll' = [phase |-> "gc", at |-> poll.at, limit |-> poll.limit]
      /\ UNCHANGED <<now, versionVars, promotions, activationPins, tasks, lost,
                     starts, restarts, faults, delays>>
  BY Zenon DEF ProjectDueCronSlots
<1>3. /\ DOMAIN runs' = DOMAIN runs \cup new
      /\ \A k \in DOMAIN runs : runs'[k] = runs[k]
  BY <1>1, Zenon
<1>4. ASSUME NEW k \in new
      PROVE  /\ runs'[k] \in Row /\ runs'[k].state = "ready" /\ runs'[k].attempt = 0
             /\ runs'[k].version = schedules[ActivationOf(k)].version
             /\ k[3] \in Nat /\ k[1] <= promotions /\ k \notin fired
             /\ schedules[ActivationOf(k)] \in Schedule
  <2>1. k \in Keys /\ k \notin DOMAIN runs
    BY <1>1, <1>4, Zenon
  <2>2. runs'[k] = [state |-> "ready", attempt |-> 0, nextAt |-> k[3],
                    deadline |-> Undispatched, completedAt |-> 0,
                    version |-> schedules[ActivationOf(k)].version]
    BY <2>1, <1>1, <1>4, Zenon
  <2>3. k[3] \in Nat
    BY <2>1, KeyTypes, Zenon
  <2>4. schedules[ActivationOf(k)] \in Schedule
    BY <1>1, <1>4, Zenon DEF IInv, TypeOK
  <2>5. k[1] <= promotions
    <3>1. ActivationOf(k)[1] <= promotions
      BY <1>1, <1>4, Zenon DEF IInv, FiredPast
    <3> QED  BY <3>1, Zenon DEF ActivationOf
  <2>6. k \notin fired
    <3> SUFFICES ASSUME k \in fired  PROVE FALSE
      OBVIOUS
    <3>1. k[3] < schedules[ActivationOf(k)].next
      BY <1>1, <1>4, Zenon DEF IInv, FiredPast
    <3>2. schedules[ActivationOf(k)].next <= k[3]
      BY <1>1, <1>4, Zenon
    <3> QED  BY <3>1, <3>2, <2>3, <2>4 DEF Schedule
  <2>7. /\ runs'[k].state = "ready" /\ runs'[k].attempt = 0
        /\ runs'[k].version = schedules[ActivationOf(k)].version
    BY <2>2
  <2>8. runs'[k] \in Row
    BY <2>2, <2>3, <2>4 DEF Row, Schedule
  <2> QED  BY <2>3, <2>4, <2>5, <2>6, <2>7, <2>8, Zenon
<1>5. TypeOK'
  <2>1. DOMAIN runs' \subseteq Keys /\ fired' \subseteq Keys
    BY <1>1, <1>3, Zenon DEF IInv, TypeOK
  <2>2. \A k \in DOMAIN runs' : runs'[k] \in Row
    BY <1>3, <1>4, Zenon DEF IInv, TypeOK
  <2>3. runPins' \subseteq Versions \X Keys
    <3>1. \A k \in new :
              <<schedules[ActivationOf(k)].version, k>> \in Versions \X Keys
      BY <1>1, <1>4, Zenon DEF Schedule
    <3>2. runPins \subseteq Versions \X Keys
      BY Zenon DEF IInv, TypeOK
    <3> QED  BY <3>1, <3>2, <1>1, Zenon
  <2>4. poll'.phase = "gc" /\ poll'.at = poll.at
    BY <1>2, Zenon
  <2>5. DOMAIN schedules' \subseteq Activations
        /\ \A a \in DOMAIN schedules' : schedules'[a] \in Schedule
    BY <1>1, Zenon DEF IInv, TypeOK
  <2> QED
    BY <2>1, <2>2, <2>3, <2>4, <2>5, <1>2, Zenon DEF IInv, TypeOK, versionVars
<1>6. TaskOwnsClaim'
  <2>1. \A k \in new : runs'[k].state # "claimed"
    BY <1>4, Zenon
  <2> QED  BY <2>1, <1>2, <1>3, Zenon DEF IInv, TaskOwnsClaim
<1>7. PinsExact'
  <2>1. activationPins' = {<<schedules'[a].version, a>> : a \in DOMAIN schedules'}
    BY <1>1, <1>2 DEF IInv, PinsExact
  <2> DEFINE L == {j \in DOMAIN runs : runs[j].state \notin Terminal}
  <2>2. {j \in DOMAIN runs' : runs'[j].state \notin Terminal} = L \cup new
    BY <1>3, <1>4, Zenon DEF Terminal
  <2>3. \A k \in new : runs'[k].version = schedules[ActivationOf(k)].version
    BY <1>4, Zenon
  <2>4. runPins = {<<runs[k].version, k>> : k \in L}
    BY Zenon DEF IInv, PinsExact, IsTerminal
  <2>6. \A k \in L : runs'[k].version = runs[k].version
    BY <1>3, Zenon
  <2> HIDE DEF L
  <2>5. runPins' = {<<runs'[k].version, k>> :
                       k \in {j \in DOMAIN runs' : runs'[j].state \notin Terminal}}
    <3>1. runPins = {<<runs'[k].version, k>> : k \in L}
      BY <2>4, <2>6, Zenon
    <3>2. {<<schedules[ActivationOf(k)].version, k>> : k \in new}
              = {<<runs'[k].version, k>> : k \in new}
      BY <2>3, Zenon
    <3>3. runPins' = {<<runs'[k].version, k>> : k \in L \cup new}
      BY <1>1, <3>1, <3>2, Zenon
    <3> QED  BY <3>3, <2>2, Zenon
  <2> QED  BY <2>1, <2>5, Zenon DEF PinsExact, IsTerminal
<1>8. ScheduledVersionIsReady'
  <2>1. \A k \in new : version[runs'[k].version] = "ready"
    BY <1>1, <1>4, Zenon DEF IInv, ScheduledVersionIsReady
  <2> QED
    BY <2>1, <1>1, <1>2, <1>3
    DEF IInv, ScheduledVersionIsReady, IsTerminal, versionVars
<1>9. Budget'
  <2>1. \A k \in new : starts[k] = 0
    <3>1. \A k \in new : starts[k] \in Nat /\ ~(starts[k] > 0)
      BY <1>1, <1>4, Zenon DEF IInv, Budget, TypeOK
    <3> QED  BY <3>1
  <2>2. \A k \in new :
            starts[k] <= runs'[k].attempt /\ runs'[k].attempt <= MaxRetries + 1
    BY <2>1, <1>4, CronAssumption
  <2> QED  BY <2>2, <1>1, <1>2, <1>3, Zenon DEF IInv, Budget, HandlerBudget
<1>10. FiredPast'
  <2>1. \A k \in fired' : k[1] <= promotions
    BY <1>1, <1>4, Zenon DEF IInv, FiredPast
  <2>2. ASSUME NEW k \in fired', ActivationOf(k) \in DOMAIN schedules'
        PROVE  k[3] < schedules'[ActivationOf(k)].next
    <3>1. CASE k \in new
      BY <3>1, <1>1, Zenon
    <3>2. CASE k \in fired
      <4> DEFINE a == ActivationOf(k)
      <4>1. k[3] < schedules[a].next
        BY <3>2, <2>2, <1>1, Zenon DEF IInv, FiredPast
      <4>2. schedules[a].next <= schedules'[a].next
        BY <2>2, <1>1, Zenon
      <4>3. schedules[a] \in Schedule /\ schedules'[a] \in Schedule
        BY <2>2, <1>1, Zenon DEF IInv, TypeOK
      <4>4. k[3] \in Nat
        BY <3>2, KeyTypes, Zenon DEF IInv, TypeOK
      <4> HIDE DEF a
      <4>5. k[3] < schedules'[a].next
        BY <4>1, <4>2, <4>3, <4>4 DEF Schedule
      <4> QED  BY <4>5, Zenon DEF a
    <3> QED  BY <3>1, <3>2, <2>2, <1>1, Zenon
  <2>3. DOMAIN runs' \subseteq fired'
    <3>1. DOMAIN runs \subseteq fired
      BY Zenon DEF IInv, FiredPast
    <3> QED  BY <3>1, <1>1, <1>3, Zenon
  <2> QED  BY <2>1, <2>2, <2>3, <1>1, <1>2, Zenon DEF IInv, FiredPast
<1>11. \A k \in DOMAIN runs' \ DOMAIN runs : k \notin fired
  BY <1>3, <1>4, Zenon
<1> QED  BY <1>5, <1>6, <1>7, <1>8, <1>9, <1>10, <1>11, Zenon DEF IInv

=============================================================================
