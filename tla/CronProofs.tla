----------------------------- MODULE CronProofs -----------------------------
(* Proofs about Cron, for any number of versions, expressions, slots and     *)
(* restarts: type correctness, the ownership of claims, exact referrers,     *)
(* versions that stay while they are scheduled, the retry budget, and slots  *)
(* that fire once; then the permits of the pool, and that Cron implements    *)
(* CronContract. The lemmas about promotions, deletions and the projection   *)
(* of slots are in CronScheduleProofs.                                       *)
EXTENDS CronScheduleProofs, FiniteSetTheorems, TLAPS

USE SMTT(60)

-----------------------------------------------------------------------------
(* The rest of the claim pass.                                              *)

\* Collection deletes terminal rows only.
LEMMA GcStep ==
    ASSUME GcCronHistory
    PROVE  \E keep :
             /\ keep \subseteq DOMAIN runs
             /\ \A k \in DOMAIN runs : runs[k].state \notin Terminal => k \in keep
             /\ runs' = [k \in keep |-> runs[k]]
             /\ runPins' = {p \in runPins : p[2] \in keep}
<1> DEFINE Keep(newest) ==
             {k \in DOMAIN runs :
                \/ ~IsTerminal(k)
                \/ /\ k \in newest
                   /\ runs[k].completedAt >= poll.at - Retention}
<1>1. PICK newest \in SUBSET DOMAIN runs :
          /\ runs' = [k \in Keep(newest) |-> runs[k]]
          /\ runPins' = {p \in runPins : p[2] \in Keep(newest)}
  BY Zenon DEF GcCronHistory, IsPrefix
<1>2. /\ Keep(newest) \subseteq DOMAIN runs
      /\ \A k \in DOMAIN runs :
            runs[k].state \notin Terminal => k \in Keep(newest)
  BY Zenon DEF IsTerminal
<1> HIDE DEF Keep
<1> QED  BY <1>1, <1>2, Zenon

\* What it deletes has no task and no referrer.
LEMMA GcInv ==
    ASSUME IInv, GcCronHistory
    PROVE  IInv'
<1>1. PICK keep :
          /\ keep \subseteq DOMAIN runs
          /\ \A k \in DOMAIN runs : runs[k].state \notin Terminal => k \in keep
          /\ runs' = [k \in keep |-> runs[k]]
          /\ runPins' = {p \in runPins : p[2] \in keep}
  BY GcStep, Zenon
<1>2. /\ poll' = [phase |-> "claim", at |-> poll.at, limit |-> poll.limit]
      /\ UNCHANGED <<now, versionVars, schedules, promotions, activationPins,
                     tasks, lost, historyVars, restarts, faults, delays>>
  BY Zenon DEF GcCronHistory, IsPrefix
<1>3. DOMAIN runs' = keep /\ \A k \in keep : runs'[k] = runs[k]
  BY <1>1, Zenon
<1>4. TypeOK'
  <2>1. DOMAIN runs' \subseteq Keys /\ \A k \in DOMAIN runs' : runs'[k] \in Row
    BY <1>1, <1>3, Zenon DEF IInv, TypeOK
  <2>2. runPins' \subseteq Versions \X Keys
    BY <1>1, Zenon DEF IInv, TypeOK
  <2>3. poll'.phase = "claim" /\ poll'.at = poll.at
    BY <1>2, Zenon
  <2> QED
    BY <2>1, <2>2, <2>3, <1>2, Zenon DEF IInv, TypeOK, versionVars, historyVars
<1>5. TaskOwnsClaim'
  <2>1. \A k \in DOMAIN runs : runs[k].state = "claimed" => k \in keep
    BY <1>1, Zenon DEF Terminal
  <2> QED  BY <2>1, <1>1, <1>2, <1>3, Zenon DEF IInv, TaskOwnsClaim
<1>6. PinsExact'
  <2> DEFINE L == {j \in DOMAIN runs : runs[j].state \notin Terminal}
  <2>1. {j \in DOMAIN runs' : runs'[j].state \notin Terminal} = L
    BY <1>1, <1>3, Zenon
  <2>2. runPins = {<<runs[k].version, k>> : k \in L}
    BY Zenon DEF IInv, PinsExact, IsTerminal
  <2>3. \A k \in L : runs'[k].version = runs[k].version /\ k \in keep
    BY <1>1, <1>3, Zenon
  <2> HIDE DEF L
  <2>4. runPins = {<<runs'[k].version, k>> : k \in L}
    BY <2>2, <2>3, Zenon
  <2>5. runPins' = runPins
    BY <1>1, <2>2, <2>3
  <2> QED
    BY <2>1, <2>4, <2>5, <1>2, Zenon DEF IInv, PinsExact, IsTerminal
<1>7. ScheduledVersionIsReady'
  BY <1>1, <1>2, <1>3, Zenon
  DEF IInv, ScheduledVersionIsReady, IsTerminal, versionVars
<1>8. Budget'
  BY <1>1, <1>2, <1>3, Zenon DEF IInv, Budget, HandlerBudget, historyVars
<1>9. FiredPast'
  <2>1. DOMAIN runs' \subseteq fired
    BY <1>1, <1>3, Zenon DEF IInv, FiredPast
  <2> QED  BY <2>1, <1>2, Zenon DEF IInv, FiredPast, historyVars
<1> QED  BY <1>4, <1>5, <1>6, <1>7, <1>8, <1>9, Zenon DEF IInv

\* A claim takes ready rows only, which no task holds; a row it fails loses its
\* referrer.
LEMMA ClaimInv ==
    ASSUME IInv, ClaimCronRuns
    PROVE  IInv'
<1> DEFINE t == poll.at
           spent == {k \in DOMAIN runs : IsSpent(k, t)}
           Claim(k) == [run |-> k, attempt |-> ClaimRow(runs[k], t).attempt,
                        deadline |-> ClaimRow(runs[k], t).deadline,
                        phase |-> "spawned", until |-> 0]
<1>1. PICK S :
          /\ S \subseteq {k \in DOMAIN runs : Claimable(k, t)}
          /\ runs' = [k \in DOMAIN runs |->
                         IF k \in spent THEN Fail(runs[k], t)
                         ELSE IF k \in S THEN ClaimRow(runs[k], t)
                         ELSE runs[k]]
          /\ runPins' = {p \in runPins : p[2] \notin spent}
          /\ tasks' = tasks \cup {Claim(k) : k \in S}
  BY Zenon DEF ClaimCronRuns, IsPrefix
<1>2. /\ poll' = Idle
      /\ UNCHANGED <<now, versionVars, schedules, promotions, activationPins,
                     lost, historyVars, restarts, faults, delays>>
  BY Zenon DEF ClaimCronRuns
<1>3. t \in Nat
  BY CronAssumption DEF IInv, TypeOK
<1>4. ASSUME NEW k \in S
      PROVE  /\ k \in DOMAIN runs /\ k \notin spent
             /\ runs[k] \in Row /\ runs[k].state = "ready"
             /\ runs[k].attempt < MaxRetries + 1
  <2>1. k \in DOMAIN runs /\ Claimable(k, t)
    BY <1>1, <1>4, Zenon
  <2>2. runs[k] \in Row /\ runs[k].state = "ready"
        /\ runs[k].attempt < MaxRetries + 1
    BY <2>1, Zenon DEF IInv, TypeOK, Claimable, ReadyAt
  <2>3. ~(runs[k].attempt >= MaxRetries + 1)
    BY <2>2, CronAssumption DEF Row
  <2>4. ~(runs[k].deadline <= t) \/ runs[k].deadline = Undispatched
    BY <2>1, <2>2, <1>3 DEF Claimable, Row
  <2>5. ~IsSpent(k, t)
    BY <2>3, <2>4, Zenon DEF IsSpent
  <2> QED  BY <2>1, <2>2, <2>5, Zenon
<1> HIDE DEF t
<1>5. ASSUME NEW k \in S
      PROVE  /\ runs'[k] = ClaimRow(runs[k], t)
             /\ runs'[k] \in Row /\ runs'[k].state = "claimed"
             /\ runs'[k].attempt = runs[k].attempt + 1
             /\ runs'[k].attempt \in 1..4 /\ runs'[k].deadline \in Nat
             /\ runs'[k].version = runs[k].version
  <2>1. runs'[k] = ClaimRow(runs[k], t)
    BY <1>1, <1>4, Zenon
  <2> QED  BY <2>1, <1>3, <1>4, ClaimedRow
<1>6. ASSUME NEW k \in spent
      PROVE  /\ k \in DOMAIN runs /\ runs[k].state = "ready"
             /\ runs'[k] \in Row /\ runs'[k].state = "failed"
             /\ runs'[k].attempt = runs[k].attempt
             /\ runs'[k].version = runs[k].version
  <2>1. k \in DOMAIN runs /\ runs[k].state = "ready" /\ runs[k] \in Row
    BY <1>6, Zenon DEF IsSpent, IInv, TypeOK
  <2>2. runs'[k] = Fail(runs[k], t)
    BY <2>1, <1>1, <1>6, Zenon
  <2> QED  BY <2>1, <2>2, <1>3, FailRow
<1> HIDE DEF spent
<1>7. /\ DOMAIN runs' = DOMAIN runs
      /\ \A k \in DOMAIN runs : k \notin S /\ k \notin spent => runs'[k] = runs[k]
  BY <1>1, Zenon
<1>8. \A k \in S :
          /\ Claim(k) \in Task /\ Claim(k).run = k /\ Claim(k).phase = "spawned"
          /\ Claim(k).attempt = runs'[k].attempt
          /\ Claim(k).deadline = runs'[k].deadline
  <2> TAKE k \in S
  <2>1. k \in Keys
    BY <1>4, Zenon DEF IInv, TypeOK
  <2> QED  BY <2>1, <1>5, Zenon DEF Task
<1>9. \A u \in tasks : u.run \notin S /\ u.run \notin spent
  BY <1>4, <1>6, Zenon DEF IInv, TaskOwnsClaim
<1> HIDE DEF Claim
<1>10. TypeOK'
  <2>1. \A k \in DOMAIN runs' : runs'[k] \in Row
    BY <1>5, <1>6, <1>7, Zenon DEF IInv, TypeOK
  <2>2. runPins' \subseteq Versions \X Keys
    BY <1>1, Zenon DEF IInv, TypeOK
  <2>3. tasks' \subseteq Task
    BY <1>1, <1>8 DEF IInv, TypeOK
  <2>4. poll'.phase = "idle" /\ poll'.at \in 0..MaxTime
    BY <1>2, CronAssumption DEF Idle
  <2> QED
    BY <2>1, <2>2, <2>3, <2>4, <1>2, <1>7, Zenon
    DEF IInv, TypeOK, versionVars, historyVars
<1>11. TaskOwnsClaim'
  <2>1. ASSUME NEW u \in tasks'
        PROVE  /\ u.run \in DOMAIN runs' /\ runs'[u.run].state = "claimed"
               /\ runs'[u.run].attempt = u.attempt
               /\ runs'[u.run].deadline = u.deadline /\ u.run \notin lost'
    <3>1. CASE u \in tasks
      BY <3>1, <1>2, <1>7, <1>9, Zenon DEF IInv, TaskOwnsClaim
    <3>2. CASE u \in {Claim(k) : k \in S}
      <4>1. PICK k \in S : u = Claim(k)
        BY <3>2, Zenon
      <4>2. k \notin lost
        BY <1>4, Zenon DEF IInv, TaskOwnsClaim
      <4> QED  BY <4>1, <4>2, <1>2, <1>4, <1>5, <1>7, <1>8
    <3> QED  BY <3>1, <3>2, <2>1, <1>1, Zenon
  <2>2. ASSUME NEW u \in tasks', NEW w \in tasks', u.run = w.run
        PROVE  u = w
    <3>1. CASE u \in tasks /\ w \in tasks
      BY <3>1, <2>2, Zenon DEF IInv, TaskOwnsClaim
    <3>2. CASE u \in {Claim(k) : k \in S} /\ w \in {Claim(k) : k \in S}
      BY <3>2, <2>2, <1>8, Zenon
    <3>3. CASE u \in tasks /\ w \in {Claim(k) : k \in S}
      BY <3>3, <2>2, <1>8, <1>9
    <3>4. CASE w \in tasks /\ u \in {Claim(k) : k \in S}
      BY <3>4, <2>2, <1>8, <1>9, Zenon
    <3> QED  BY <3>1, <3>2, <3>3, <3>4, <2>2, <1>1, Zenon
  <2>3. ASSUME NEW k \in lost'
        PROVE  k \in DOMAIN runs' /\ runs'[k].state = "claimed"
    BY <2>3, <1>2, <1>4, <1>6, <1>7 DEF IInv, TaskOwnsClaim
  <2>4. ASSUME NEW k \in DOMAIN runs', runs'[k].state = "claimed"
        PROVE  k \in lost' \/ \E u \in tasks' : u.run = k
    <3>1. CASE k \in S
      <4>1. Claim(k) \in tasks' /\ Claim(k).run = k
        BY <3>1, <1>1, <1>8, Zenon
      <4> QED  BY <4>1, Zenon
    <3>2. CASE k \notin S
      <4>1. k \notin spent
        BY <2>4, <1>6, Zenon
      <4>2. k \in DOMAIN runs /\ runs[k].state = "claimed"
        BY <4>1, <3>2, <2>4, <1>7, Zenon
      <4> QED  BY <4>2, <1>1, <1>2, Zenon DEF IInv, TaskOwnsClaim
    <3> QED  BY <3>1, <3>2, Zenon
  <2> QED  BY <2>1, <2>2, <2>3, <2>4, Zenon DEF TaskOwnsClaim
<1>12. PinsExact'
  <2> DEFINE L == {j \in DOMAIN runs : runs[j].state \notin Terminal}
  <2>1. {j \in DOMAIN runs' : runs'[j].state \notin Terminal} = L \ spent
    BY <1>4, <1>5, <1>6, <1>7, Zenon DEF Terminal
  <2>2. runPins = {<<runs[k].version, k>> : k \in L}
    BY Zenon DEF IInv, PinsExact, IsTerminal
  <2>3. \A k \in L : runs'[k].version = runs[k].version
    BY <1>5, <1>6, <1>7, Zenon
  <2> HIDE DEF L
  <2>4. runPins = {<<runs'[k].version, k>> : k \in L}
    BY <2>2, <2>3, Zenon
  <2>5. runPins' = {<<runs'[k].version, k>> : k \in L \ spent}
    <3>1. ASSUME NEW p \in runPins'
          PROVE  p \in {<<runs'[k].version, k>> : k \in L \ spent}
      <4>1. p \in runPins /\ p[2] \notin spent
        BY <3>1, <1>1, Zenon
      <4>2. PICK k \in L : p = <<runs'[k].version, k>>
        BY <4>1, <2>4, Zenon
      <4> QED  BY <4>1, <4>2, Zenon
    <3>2. ASSUME NEW k \in L \ spent
          PROVE  <<runs'[k].version, k>> \in runPins'
      BY <3>2, <1>1, <2>4
    <3> QED  BY <3>1, <3>2, Zenon
  <2> QED
    BY <2>1, <2>5, <1>2, Zenon DEF IInv, PinsExact, IsTerminal
<1>13. ScheduledVersionIsReady'
  <2>1. \A k \in DOMAIN runs : /\ runs'[k].version = runs[k].version
                               /\ runs'[k].state \notin Terminal =>
                                     runs[k].state \notin Terminal
    BY <1>4, <1>5, <1>6, <1>7, Zenon DEF Terminal
  <2> QED
    BY <2>1, <1>2, <1>7, Zenon
    DEF IInv, ScheduledVersionIsReady, IsTerminal, versionVars
<1>14. Budget'
  <2>1. ASSUME NEW k \in DOMAIN runs'
        PROVE  starts[k] <= runs'[k].attempt /\ runs'[k].attempt <= MaxRetries + 1
    <3>1. /\ starts[k] <= runs[k].attempt /\ runs[k].attempt <= MaxRetries + 1
          /\ runs[k] \in Row /\ starts[k] \in Nat /\ k \in DOMAIN runs
      BY <2>1, <1>7, Zenon DEF IInv, Budget, TypeOK
    <3>2. CASE k \in S
      BY <3>1, <3>2, <1>4, <1>5, CronAssumption DEF Row
    <3>3. CASE k \notin S
      <4>1. runs'[k].attempt = runs[k].attempt
        BY <3>1, <3>3, <1>6, <1>7, Zenon
      <4> QED  BY <3>1, <4>1, Zenon
    <3> QED  BY <3>2, <3>3, Zenon
  <2>2. ASSUME NEW u \in tasks', u.phase = "spawned"
        PROVE  starts[u.run] < u.attempt
    <3>1. CASE u \in tasks
      BY <3>1, <2>2, Zenon DEF IInv, Budget
    <3>2. CASE u \in {Claim(k) : k \in S}
      <4>1. PICK k \in S : u = Claim(k)
        BY <3>2, Zenon
      <4>2. u.run = k /\ u.attempt = runs[k].attempt + 1
        BY <4>1, <1>5, <1>8, Zenon
      <4>3. starts[k] <= runs[k].attempt /\ runs[k] \in Row /\ starts[k] \in Nat
        BY <1>4, Zenon DEF IInv, Budget, TypeOK
      <4> QED  BY <4>2, <4>3 DEF Row
    <3> QED  BY <3>1, <3>2, <2>2, <1>1, Zenon
  <2> QED  BY <2>1, <2>2, <1>2, Zenon DEF IInv, Budget, HandlerBudget, historyVars
<1>15. FiredPast'
  BY <1>2, <1>7, Zenon DEF IInv, FiredPast, historyVars
<1> QED  BY <1>10, <1>11, <1>12, <1>13, <1>14, <1>15, Zenon DEF IInv

-----------------------------------------------------------------------------
(* Delivery.                                                                 *)

\* A task that goes on to another phase keeps its run, attempt and deadline.
LEMMA MoveFacts ==
    ASSUME IInv, NEW t \in tasks, NEW until \in Nat,
           NEW phase \in {"running", "ok", "exception", "noRetry", "unknown"},
           Move(t, phase, until), UNCHANGED <<runs, lost>>
    PROVE  /\ tasks' \subseteq Task
           /\ TaskOwnsClaim'
           /\ \A u \in tasks' :
                 u.phase = "spawned" => u \in tasks /\ u.run # t.run
<1> DEFINE w == [run |-> t.run, attempt |-> t.attempt, deadline |-> t.deadline,
                 phase |-> phase, until |-> until]
<1>1. tasks' = (tasks \ {t}) \cup {w}
  BY Zenon DEF Move
<1>2. /\ w \in Task /\ w.run = t.run /\ w.attempt = t.attempt
      /\ w.deadline = t.deadline /\ w.phase # "spawned"
  BY Zenon DEF IInv, TypeOK, Task
<1> HIDE DEF w
<1>3. tasks' \subseteq Task
  BY <1>1, <1>2, Zenon DEF IInv, TypeOK
<1>4. TaskOwnsClaim'
  <2>1. ASSUME NEW u \in tasks'
        PROVE  /\ u.run \in DOMAIN runs /\ runs[u.run].state = "claimed"
               /\ runs[u.run].attempt = u.attempt
               /\ runs[u.run].deadline = u.deadline /\ u.run \notin lost
    BY <2>1, <1>1, <1>2 DEF IInv, TaskOwnsClaim
  <2>2. ASSUME NEW u \in tasks', NEW x \in tasks', u.run = x.run
        PROVE  u = x
    BY <2>2, <1>1, <1>2 DEF IInv, TaskOwnsClaim
  <2>3. ASSUME NEW k \in DOMAIN runs, runs[k].state = "claimed", k \notin lost
        PROVE  \E u \in tasks' : u.run = k
    <3>1. PICK u \in tasks : u.run = k
      BY <2>3, Zenon DEF IInv, TaskOwnsClaim
    <3>2. CASE u = t
      BY <3>1, <3>2, <1>1, <1>2, Zenon
    <3>3. CASE u # t
      BY <3>1, <3>3, <1>1, Zenon
    <3> QED  BY <3>2, <3>3, Zenon
  <2> QED  BY <2>1, <2>2, <2>3, Zenon DEF IInv, TaskOwnsClaim
<1>5. \A u \in tasks' : u.phase = "spawned" => u \in tasks /\ u.run # t.run
  BY <1>1, <1>2, Zenon DEF IInv, TaskOwnsClaim
<1> QED  BY <1>3, <1>4, <1>5, Zenon

\* The call of a handler uses the start the task has in hand.
LEMMA LookupAuthorityInv ==
    ASSUME IInv, NEW t \in tasks, LookupAuthority(t)
    PROVE  IInv'
<1> DEFINE until == now + Smaller(Lease, Larger(t.deadline - now, 0))
<1>1. /\ t.phase = "spawned"
      /\ Move(t, "running", until)
      /\ starts' = [starts EXCEPT ![t.run] = starts[t.run] + 1]
      /\ UNCHANGED <<now, versionVars, schedules, promotions, runs,
                     activationPins, runPins, poll, lost, fired, restarts,
                     faults, delays>>
  BY Zenon DEF LookupAuthority
<1>2. /\ t.run \in Keys /\ t.run \in DOMAIN runs /\ t.attempt \in 1..4
      /\ runs[t.run].attempt = t.attempt
      /\ t.deadline \in Nat /\ now \in Nat
  BY CronAssumption DEF IInv, TypeOK, Task, TaskOwnsClaim
<1>3. until \in Nat
  BY <1>2, CronAssumption DEF Smaller, Larger
<1> HIDE DEF until
<1>4. /\ tasks' \subseteq Task /\ TaskOwnsClaim'
      /\ \A u \in tasks' : u.phase = "spawned" => u \in tasks /\ u.run # t.run
  BY <1>1, <1>3, MoveFacts, Zenon
<1>5. /\ starts[t.run] \in Nat /\ starts'[t.run] = starts[t.run] + 1
      /\ starts' \in [Keys -> Nat]
      /\ \A k \in Keys \ {t.run} : starts'[k] = starts[k]
  BY <1>1, <1>2 DEF IInv, TypeOK
<1>6. TypeOK'
  BY <1>1, <1>4, <1>5, Zenon DEF IInv, TypeOK, versionVars
<1>7. Budget'
  <2>1. /\ starts'[t.run] <= runs[t.run].attempt /\ t.run \in fired
        /\ runs[t.run].attempt <= MaxRetries + 1
    BY <1>1, <1>2, <1>5 DEF IInv, Budget, FiredPast
  <2>2. \A k \in DOMAIN runs :
            starts'[k] <= runs[k].attempt /\ runs[k].attempt <= MaxRetries + 1
    BY <2>1, <1>5, Zenon DEF IInv, Budget, TypeOK
  <2>3. \A u \in tasks' : u.phase = "spawned" => starts'[u.run] < u.attempt
    <3> SUFFICES ASSUME NEW u \in tasks', u.phase = "spawned"
                 PROVE  starts'[u.run] < u.attempt
      OBVIOUS
    <3>1. u \in tasks /\ u.run \in Keys \ {t.run}
      BY <1>4, Zenon DEF Task
    <3> QED  BY <3>1, <1>5, Zenon DEF IInv, Budget
  <2>4. \A k \in Keys : starts'[k] > 0 => k \in fired
    BY <2>1, <1>5, Zenon DEF IInv, Budget
  <2>5. \A k \in Keys : starts'[k] <= MaxRetries + 1
    <3>1. starts'[t.run] <= MaxRetries + 1
      BY <2>1, <1>2, <1>5, CronAssumption
    <3> QED  BY <3>1, <1>5, Zenon DEF IInv, Budget, HandlerBudget
  <2> QED
    BY <2>2, <2>3, <2>4, <2>5, <1>1, Zenon DEF Budget, HandlerBudget
<1> QED
  BY <1>1, <1>4, <1>6, <1>7, Zenon
  DEF IInv, PinsExact, ScheduledVersionIsReady, FiredPast, IsTerminal,
      versionVars

\* The steps that only learn a result.
LEMMA OutcomeInv ==
    ASSUME IInv, NEW t \in tasks,
           \/ LookupFails(t)
           \/ DeliveryTimeout(t)
           \/ \E outcome \in {"ok", "exception", "noRetry", "unknown"} :
                 HandlerEnds(t, outcome)
    PROVE  IInv'
<1>1. PICK phase \in {"running", "ok", "exception", "noRetry", "unknown"} :
          Move(t, phase, t.until)
  BY Zenon DEF LookupFails, DeliveryTimeout, HandlerEnds
<1>2. /\ UNCHANGED <<now, versionVars, schedules, promotions, runs,
                     activationPins, runPins, poll, lost, historyVars,
                     restarts, delays>>
      /\ faults' \in 0..MaxFaults
  <2>1. CASE LookupFails(t)
    BY <2>1, CronAssumption DEF LookupFails, IInv, TypeOK
  <2>2. CASE DeliveryTimeout(t)
    BY <2>2, Zenon DEF DeliveryTimeout, IInv, TypeOK
  <2>3. CASE \E outcome \in {"ok", "exception", "noRetry", "unknown"} :
                HandlerEnds(t, outcome)
    BY <2>3, Zenon DEF HandlerEnds, IInv, TypeOK
  <2> QED  BY <2>1, <2>2, <2>3, Zenon
<1>3. t.until \in Nat
  BY Zenon DEF IInv, TypeOK, Task
<1>4. /\ tasks' \subseteq Task /\ TaskOwnsClaim'
      /\ \A u \in tasks' : u.phase = "spawned" => u \in tasks /\ u.run # t.run
  BY <1>1, <1>2, <1>3, MoveFacts, Zenon
<1>5. TypeOK'
  BY <1>2, <1>4, Zenon DEF IInv, TypeOK, versionVars, historyVars
<1>6. Budget'
  BY <1>2, <1>4, Zenon DEF IInv, Budget, HandlerBudget, historyVars
<1> QED
  BY <1>2, <1>4, <1>5, <1>6, Zenon
  DEF IInv, PinsExact, ScheduledVersionIsReady, FiredPast, IsTerminal,
      versionVars, historyVars


-----------------------------------------------------------------------------
(* Results.                                                                  *)

\* The write of a result: the row of the task is claimed, so the write lands on
\* the claim the task holds, and a terminal row gives up its referrer.
LEMMA WriteRowInv ==
    ASSUME IInv, NEW t \in tasks, NEW row \in Row,
           row.state \in {"ready"} \cup Terminal,
           row.attempt = runs[t.run].attempt, row.version = runs[t.run].version,
           WriteRow(t.run, row), tasks' = tasks \ {t},
           UNCHANGED <<now, versionVars, schedules, promotions, activationPins,
                       poll, lost, historyVars, restarts, faults, delays>>
    PROVE  IInv'
<1> DEFINE k == t.run
<1>1. k \in DOMAIN runs /\ runs[k].state = "claimed" /\ k \notin lost
  BY Zenon DEF IInv, TaskOwnsClaim
<1>2. /\ runs' = [runs EXCEPT ![k] = row]
      /\ runPins' = IF row.state \in Terminal
                    THEN {p \in runPins : p[2] # k} ELSE runPins
  BY <1>1, Zenon DEF WriteRow
<1>3. \A u \in tasks : u.run = k => u = t
  BY Zenon DEF IInv, TaskOwnsClaim
<1>4. row.attempt = runs[k].attempt /\ row.version = runs[k].version
  OBVIOUS
<1> HIDE DEF k
<1>5. /\ DOMAIN runs' = DOMAIN runs /\ runs'[k] = row
      /\ \A j \in DOMAIN runs \ {k} : runs'[j] = runs[j]
  BY <1>1, <1>2, Zenon
<1>6. row.state # "claimed"
  BY Zenon DEF Terminal
<1>7. TypeOK'
  <2>1. \A j \in DOMAIN runs' : runs'[j] \in Row
    BY <1>5, Zenon DEF IInv, TypeOK
  <2>2. runPins' \subseteq Versions \X Keys
    BY <1>2, Zenon DEF IInv, TypeOK
  <2> QED
    BY <2>1, <2>2, <1>5, Zenon DEF IInv, TypeOK, versionVars, historyVars
<1>8. TaskOwnsClaim'
  <2>1. ASSUME NEW u \in tasks'
        PROVE  /\ u \in tasks /\ u.run \in DOMAIN runs'
               /\ runs'[u.run] = runs[u.run]
    <3>1. u \in tasks /\ u.run # k /\ u.run \in DOMAIN runs
      BY <2>1, <1>3, Zenon DEF IInv, TaskOwnsClaim
    <3> QED  BY <3>1, <1>5, Zenon
  <2>2. ASSUME NEW j \in DOMAIN runs', runs'[j].state = "claimed"
        PROVE  j \in lost \/ \E u \in tasks' : u.run = j
    <3>1. j # k /\ j \in DOMAIN runs /\ runs[j].state = "claimed"
      BY <2>2, <1>5, <1>6, Zenon
    <3>2. j \in lost \/ \E u \in tasks : u.run = j
      BY <3>1, Zenon DEF IInv, TaskOwnsClaim
    <3> QED  BY <3>1, <3>2, Zenon DEF k
  <2>3. \A j \in lost : j \in DOMAIN runs' /\ runs'[j].state = "claimed"
    BY <1>1, <1>5, Zenon DEF IInv, TaskOwnsClaim
  <2> QED  BY <2>1, <2>2, <2>3 DEF IInv, TaskOwnsClaim
<1>9. PinsExact'
  <2> DEFINE L == {j \in DOMAIN runs : runs[j].state \notin Terminal}
             Kept == IF row.state \in Terminal THEN L \ {k} ELSE L
  <2>1. k \in L
    BY <1>1, Zenon DEF Terminal
  <2>2. {j \in DOMAIN runs' : runs'[j].state \notin Terminal} = Kept
    BY <1>5, <2>1, Zenon
  <2>3. runPins = {<<runs[j].version, j>> : j \in L}
    BY Zenon DEF IInv, PinsExact, IsTerminal
  <2>4. \A j \in L : runs'[j].version = runs[j].version
    BY <1>4, <1>5, Zenon
  <2> HIDE DEF L
  <2>5. runPins = {<<runs'[j].version, j>> : j \in L}
    BY <2>3, <2>4, Zenon
  <2>6. runPins' = {<<runs'[j].version, j>> : j \in Kept}
    <3>1. CASE row.state \in Terminal
      <4>1. ASSUME NEW p \in runPins'
            PROVE  p \in {<<runs'[j].version, j>> : j \in L \ {k}}
        <5>1. p \in runPins /\ p[2] # k
          BY <4>1, <3>1, <1>2, Zenon
        <5>2. PICK j \in L : p = <<runs'[j].version, j>>
          BY <5>1, <2>5, Zenon
        <5> QED  BY <5>1, <5>2, Zenon
      <4>2. ASSUME NEW j \in L \ {k}
            PROVE  <<runs'[j].version, j>> \in runPins'
        BY <4>2, <3>1, <1>2, <2>5
      <4> QED  BY <4>1, <4>2, <3>1, Zenon
    <3>2. CASE row.state \notin Terminal
      BY <3>2, <1>2, <2>5, Zenon
    <3> QED  BY <3>1, <3>2, Zenon
  <2> HIDE DEF Kept
  <2> QED
    BY <2>2, <2>6, Zenon DEF IInv, PinsExact, IsTerminal
<1>10. ScheduledVersionIsReady'
  <2>1. version[row.version] = "ready"
    BY <1>1, <1>4, Zenon DEF IInv, ScheduledVersionIsReady, IsTerminal, Terminal
  <2> QED
    BY <2>1, <1>5, Zenon DEF IInv, ScheduledVersionIsReady, IsTerminal, versionVars
<1>11. Budget'
  BY <1>1, <1>4, <1>5, Zenon DEF IInv, Budget, HandlerBudget, historyVars
<1>12. FiredPast'
  BY <1>5, Zenon DEF IInv, FiredPast, historyVars
<1> QED  BY <1>7, <1>8, <1>9, <1>10, <1>11, <1>12, Zenon DEF IInv

\* complete_cron_run and mark_cron_unknown.
LEMMA ResultInv ==
    ASSUME IInv, NEW t \in tasks, CompleteCronRun(t) \/ MarkCronUnknown(t)
    PROVE  IInv'
<1>1. /\ runs[t.run] \in Row /\ t \in Task /\ now \in Nat
      /\ runs[t.run].attempt = t.attempt
  BY CronAssumption DEF IInv, TypeOK, TaskOwnsClaim
<1>2. CASE CompleteCronRun(t)
  <2> DEFINE row == CompletedRow(runs[t.run], t)
  <2>1. /\ row \in Row /\ row.state \in {"ready"} \cup Terminal
        /\ row.attempt = runs[t.run].attempt
        /\ row.version = runs[t.run].version
    BY <1>1, ResultRow, Zenon
  <2>2. /\ WriteRow(t.run, row) /\ tasks' = tasks \ {t}
        /\ UNCHANGED <<now, versionVars, schedules, promotions, activationPins,
                       poll, lost, historyVars, restarts, faults, delays>>
    BY <1>2, ZenonT(60) DEF CompleteCronRun
  <2> HIDE DEF row
  <2> QED  BY <2>1, <2>2, WriteRowInv, Zenon
<1>3. CASE MarkCronUnknown(t)
  <2> DEFINE row == UnknownRow(runs[t.run], now, MaxRetries)
  <2>1. /\ row \in Row /\ row.state \in {"ready"} \cup Terminal
        /\ row.attempt = runs[t.run].attempt
        /\ row.version = runs[t.run].version
    BY <1>1, UnknownResultRow
  <2>2. /\ WriteRow(t.run, row) /\ tasks' = tasks \ {t}
        /\ UNCHANGED <<now, versionVars, schedules, promotions, activationPins,
                       poll, lost, historyVars, restarts, faults, delays>>
    BY <1>3, Zenon DEF MarkCronUnknown
  <2> HIDE DEF row
  <2> QED  BY <2>1, <2>2, WriteRowInv, Zenon
<1> QED  BY <1>2, <1>3, Zenon

\* A result that is not written leaves its row claimed and without a task.
LEMMA ResultNotWrittenInv ==
    ASSUME IInv, NEW t \in tasks, ResultNotWritten(t)
    PROVE  IInv'
<1>1. /\ tasks' = tasks \ {t} /\ lost' = lost \cup {t.run}
      /\ faults < MaxFaults /\ faults' = faults + 1
      /\ UNCHANGED <<now, versionVars, schedules, promotions, runs,
                     activationPins, runPins, poll, historyVars, restarts,
                     delays>>
  BY Zenon DEF ResultNotWritten
<1>2. faults' \in 0..MaxFaults
  BY <1>1, CronAssumption DEF IInv, TypeOK
<1>3. t.run \in Keys
  BY Zenon DEF IInv, TypeOK, Task
<1>4. TypeOK'
  BY <1>1, <1>2, <1>3, ZenonT(60) DEF IInv, TypeOK, versionVars, historyVars
<1>5. TaskOwnsClaim'
  <2>1. \A u \in tasks' : u \in tasks /\ u.run # t.run
    BY <1>1, Zenon DEF IInv, TaskOwnsClaim
  <2> QED  BY <2>1, <1>1 DEF IInv, TaskOwnsClaim
<1>6. Budget'
  BY <1>1, Zenon DEF IInv, Budget, HandlerBudget, historyVars
<1> QED
  BY <1>1, <1>4, <1>5, <1>6, Zenon
  DEF IInv, PinsExact, ScheduledVersionIsReady, FiredPast, IsTerminal,
      versionVars, historyVars

-----------------------------------------------------------------------------
(* Restart.                                                                  *)

\* The reset takes back every claim with its attempt spent, and drops the
\* referrers of the runs it ends.
LEMMA RestartInv ==
    ASSUME IInv, NEW t \in 0..MaxTime, Restart(t)
    PROVE  IInv'
<1>1. /\ restarts < MaxRestarts /\ restarts' = restarts + 1 /\ now' = t
      /\ version' = [v \in Versions |->
                        IF version[v] = "deleting" /\ ~Referenced(v)
                        THEN "tombstoned" ELSE version[v]]
      /\ runs' = [k \in DOMAIN runs |->
                     IF runs[k].state = "claimed"
                     THEN UnknownRow(runs[k], t, ResetRetries) ELSE runs[k]]
      /\ runPins' = {p \in runPins : runs'[p[2]].state \notin Terminal}
      /\ poll' = Idle /\ tasks' = {} /\ lost' = {}
      /\ UNCHANGED <<worker, active, deployed, schedules, promotions,
                     activationPins, historyVars, faults, delays>>
  BY Zenon DEF Restart
<1>2. t \in Nat
  BY CronAssumption
<1>3. DOMAIN runs' = DOMAIN runs
  BY <1>1, Zenon
<1>4. ASSUME NEW k \in DOMAIN runs
      PROVE  /\ runs'[k] \in Row /\ runs'[k].state # "claimed"
             /\ runs'[k].attempt = runs[k].attempt
             /\ runs'[k].version = runs[k].version
             /\ runs[k].state \in Terminal => runs'[k].state \in Terminal
  <2>1. runs[k] \in Row
    BY Zenon DEF IInv, TypeOK
  <2>2. CASE runs[k].state = "claimed"
    <3> DEFINE row == UnknownRow(runs[k], t, ResetRetries)
    <3>1. /\ row \in Row /\ row.state \in {"ready"} \cup Terminal
          /\ row.attempt = runs[k].attempt /\ row.version = runs[k].version
      BY <2>1, <1>2, UnknownResultRow, ZenonT(60)
    <3>2. runs'[k] = row
      BY <2>2, <1>1, Zenon
    <3> HIDE DEF row
    <3> QED  BY <3>1, <3>2, <2>2, Zenon DEF Terminal
  <2>3. CASE runs[k].state # "claimed"
    <3>1. runs'[k] = runs[k]
      BY <2>3, <1>1, Zenon
    <3> QED  BY <3>1, <2>1, <2>3
  <2> QED  BY <2>2, <2>3, Zenon
<1>5. TypeOK'
  <2>1. version' \in [Versions -> VersionStates]
    BY <1>1, Zenon DEF IInv, TypeOK, VersionStates
  <2>2. DOMAIN runs' \subseteq Keys /\ \A k \in DOMAIN runs' : runs'[k] \in Row
    BY <1>3, <1>4, Zenon DEF IInv, TypeOK
  <2>3. runPins' \subseteq Versions \X Keys
    BY <1>1, Zenon DEF IInv, TypeOK
  <2>4. poll'.phase = "idle" /\ poll'.at \in 0..MaxTime
    BY <1>1, CronAssumption DEF Idle
  <2>5. restarts' \in 0..MaxRestarts
    BY <1>1, CronAssumption DEF IInv, TypeOK
  <2>6. tasks' \subseteq Task /\ lost' \subseteq Keys
    BY <1>1, Zenon
  <2> QED
    BY <2>1, <2>2, <2>3, <2>4, <2>5, <2>6, <1>1, ZenonT(60) DEF IInv, TypeOK, historyVars
<1>6. TaskOwnsClaim'
  BY <1>1, <1>3, <1>4, Zenon DEF TaskOwnsClaim
<1>7. PinsExact'
  <2> DEFINE L == {j \in DOMAIN runs : runs[j].state \notin Terminal}
             Kept == {j \in L : runs'[j].state \notin Terminal}
  <2>1. {j \in DOMAIN runs' : runs'[j].state \notin Terminal} = Kept
    BY <1>3, <1>4, Zenon
  <2>2. runPins = {<<runs[j].version, j>> : j \in L}
    BY Zenon DEF IInv, PinsExact, IsTerminal
  <2>3. \A j \in L : runs'[j].version = runs[j].version
    BY <1>4, Zenon
  <2> HIDE DEF L
  <2>4. runPins = {<<runs'[j].version, j>> : j \in L}
    BY <2>2, <2>3, Zenon
  <2>5. runPins' = {<<runs'[j].version, j>> : j \in Kept}
    <3>1. ASSUME NEW p \in runPins'
          PROVE  p \in {<<runs'[j].version, j>> : j \in Kept}
      <4>1. p \in runPins /\ runs'[p[2]].state \notin Terminal
        BY <3>1, <1>1, Zenon
      <4>2. PICK j \in L : p = <<runs'[j].version, j>>
        BY <4>1, <2>4, ZenonT(60)
      <4> QED  BY <4>1, <4>2, Zenon
    <3>2. ASSUME NEW j \in Kept
          PROVE  <<runs'[j].version, j>> \in runPins'
      BY <3>2, <1>1, <2>4
    <3> QED  BY <3>1, <3>2, Zenon
  <2> HIDE DEF Kept
  <2>6. UNCHANGED <<schedules, activationPins>>
    BY <1>1, Zenon
  <2> QED
    BY <2>1, <2>5, <2>6, Zenon DEF IInv, PinsExact, IsTerminal
<1>8. ScheduledVersionIsReady'
  <2>1. \A v \in Versions : version[v] = "ready" => version'[v] = "ready"
    BY <1>1, Zenon
  <2>2. \A a \in DOMAIN schedules : schedules[a].version \in Versions
    BY Zenon DEF IInv, TypeOK, Schedule
  <2>3. \A k \in DOMAIN runs : runs'[k].version \in Versions
    BY <1>4, Zenon DEF Row
  <2> QED
    BY <2>1, <2>2, <2>3, <1>1, <1>3, <1>4
    DEF IInv, ScheduledVersionIsReady, IsTerminal
<1>9. Budget'
  BY <1>1, <1>3, <1>4, Zenon DEF IInv, Budget, HandlerBudget, historyVars
<1>10. FiredPast'
  BY <1>1, <1>3, Zenon DEF IInv, FiredPast, historyVars
<1> QED  BY <1>5, <1>6, <1>7, <1>8, <1>9, <1>10, Zenon DEF IInv

-----------------------------------------------------------------------------
(* Theorems.                                                                 *)

\* The invariant holds at first.
LEMMA InitInv == Init => IInv
<1> SUFFICES ASSUME Init PROVE IInv
  OBVIOUS
<1>1. DOMAIN schedules = {} /\ DOMAIN runs = {}
  BY Zenon DEF Init
<1>2. TypeOK
  <2>1. /\ now \in 0..MaxTime /\ promotions \in 0..MaxPromotions
        /\ restarts \in 0..MaxRestarts /\ faults \in 0..MaxFaults
        /\ delays \in 0..MaxDelays /\ starts \in [Keys -> Nat]
    BY CronAssumption DEF Init
  <2>2. /\ poll.phase \in {"idle", "project", "gc", "claim"}
        /\ poll.at \in 0..MaxTime
    BY CronAssumption DEF Init, Idle
  <2>3. version \in [Versions -> VersionStates]
    BY DEF Init, VersionStates
  <2> QED  BY <2>1, <2>2, <2>3, <1>1, Zenon DEF Init, TypeOK
<1>3. TaskOwnsClaim
  BY <1>1, Zenon DEF Init, TaskOwnsClaim
<1>4. PinsExact
  BY <1>1, Zenon DEF Init, PinsExact
<1>5. ScheduledVersionIsReady
  BY <1>1, Zenon DEF ScheduledVersionIsReady
<1>6. Budget
  <2>1. tasks = {} /\ \A k \in Keys : starts[k] = 0
    BY Zenon DEF Init
  <2>2. 0 <= MaxRetries + 1
    BY CronAssumption
  <2> QED  BY <1>1, <2>1, <2>2 DEF Budget, HandlerBudget
<1>7. FiredPast
  BY <1>1, Zenon DEF Init, FiredPast
<1> QED  BY <1>2, <1>3, <1>4, <1>5, <1>6, <1>7, Zenon DEF IInv

\* Every step keeps it, and no step projects a run that was projected before.
LEMMA NextInv ==
    ASSUME IInv, [Next]_vars
    PROVE  IInv' /\ (\A k \in DOMAIN runs' \ DOMAIN runs : k \notin fired)
<1>1. CASE ProjectDueCronSlots
  BY <1>1, ProjectionInv, Zenon
<1>2. CASE UNCHANGED vars
  <2>1. TypeOK'
    BY <1>2, Zenon DEF IInv, TypeOK, vars, versionVars, historyVars
  <2> QED
    BY <2>1, <1>2
    DEF IInv, TaskOwnsClaim, PinsExact, ScheduledVersionIsReady, Budget,
        HandlerBudget, FiredPast, IsTerminal, vars, versionVars, historyVars
<1>3. CASE \/ \E v \in Versions, t \in 0..MaxTime : Deploy(v, t)
           \/ \E v \in Versions \cup {NoVersion}, t \in 0..MaxTime :
                 Quarantine(v, t)
  <2>1. UNCHANGED runs
    BY <1>3, Zenon DEF Deploy, Quarantine
  <2> QED  BY <2>1, <1>3, PromotionInv, Zenon
<1>4. CASE DeleteWorker
  BY <1>4, DeleteWorkerInv, Zenon DEF DeleteWorker
<1>5. CASE \E v \in Versions : BeginVersionDelete(v) \/ FinalizeVersionDelete(v)
  <2>1. UNCHANGED runs
    BY <1>5, Zenon DEF BeginVersionDelete, FinalizeVersionDelete
  <2> QED  BY <2>1, <1>5, VersionDeleteInv, Zenon
<1>6. CASE StartPoll \/ PollFails \/ Tick
  <2>1. UNCHANGED runs
    BY <1>6, Zenon DEF StartPoll, PollFails, Tick
  <2> QED  BY <2>1, <1>6, QuietInv, Zenon
<1>7. CASE GcCronHistory
  <2>1. DOMAIN runs' \subseteq DOMAIN runs
    BY <1>7, Zenon DEF GcCronHistory, IsPrefix
  <2> QED  BY <2>1, <1>7, GcInv, Zenon
<1>8. CASE ClaimCronRuns
  <2>1. DOMAIN runs' = DOMAIN runs
    BY <1>8, Zenon DEF ClaimCronRuns, IsPrefix
  <2> QED  BY <2>1, <1>8, ClaimInv, Zenon
<1>9. CASE \E t \in tasks : LookupAuthority(t) \/ ResultNotWritten(t)
  <2>1. UNCHANGED runs
    BY <1>9, Zenon DEF LookupAuthority, ResultNotWritten
  <2> QED  BY <2>1, <1>9, LookupAuthorityInv, ResultNotWrittenInv, Zenon
<1>10. CASE \E t \in tasks :
               \/ LookupFails(t)
               \/ DeliveryTimeout(t)
               \/ \E outcome \in {"ok", "exception", "noRetry", "unknown"} :
                     HandlerEnds(t, outcome)
  <2>1. UNCHANGED runs
    BY <1>10, Zenon DEF LookupFails, DeliveryTimeout, HandlerEnds
  <2> QED  BY <2>1, <1>10, OutcomeInv, Zenon
<1>11. CASE \E t \in tasks : CompleteCronRun(t) \/ MarkCronUnknown(t)
  <2>1. DOMAIN runs' = DOMAIN runs
    BY <1>11, Zenon DEF CompleteCronRun, MarkCronUnknown, WriteRow
  <2> QED  BY <2>1, <1>11, ResultInv, Zenon
<1>12. CASE \E t \in 0..MaxTime : Restart(t)
  <2>1. DOMAIN runs' = DOMAIN runs
    BY <1>12, Zenon DEF Restart
  <2> QED  BY <2>1, <1>12, RestartInv, Zenon
<1> QED
  BY <1>1, <1>2, <1>3, <1>4, <1>5, <1>6, <1>7, <1>8, <1>9, <1>10, <1>11, <1>12, Zenon
  DEF Next, PollStep, TaskStep

\* The inductive invariant.
LEMMA Invariance == Spec => []IInv
<1>1. IInv /\ [Next]_vars => IInv'
  BY NextInv, Zenon
<1> QED  BY InitInv, <1>1, PTL DEF Spec

\* Rows, tasks, schedules and referrers keep their types, whatever the number
\* of versions, expressions, slots and restarts.
THEOREM Spec_TypeOK == Spec => []TypeOK
<1>1. IInv => TypeOK
  BY Zenon DEF IInv
<1> QED  BY Invariance, <1>1, PTL

\* A completion, fenced by the run's id and state alone, never lands on a claim
\* other than its task's.
THEOREM Spec_TaskOwnsClaim == Spec => []TaskOwnsClaim
<1>1. IInv => TaskOwnsClaim
  BY Zenon DEF IInv
<1> QED  BY Invariance, <1>1, PTL

\* cron_max_retries bounds the handler starts of a slot over any number of
\* unknown results and restarts.
THEOREM Spec_HandlerBudget == Spec => []HandlerBudget
<1>1. IInv => HandlerBudget
  BY Zenon DEF IInv, Budget
<1> QED  BY Invariance, <1>1, PTL

\* The referrers of schedules and runs are exact.
THEOREM Spec_PinsExact == Spec => []PinsExact
<1>1. IInv => PinsExact
  BY Zenon DEF IInv
<1> QED  BY Invariance, <1>1, PTL

\* The version of every schedule and every deliverable run stays ready.
THEOREM Spec_ScheduledVersionIsReady == Spec => []ScheduledVersionIsReady
<1>1. IInv => ScheduledVersionIsReady
  BY Zenon DEF IInv
<1> QED  BY Invariance, <1>1, PTL

\* A slot of an activation is projected once, although its row may be collected
\* and the clock set back.
THEOREM Spec_SlotFiresOnce == Spec => SlotFiresOnce
<1>1. IInv /\ [Next]_vars => [\A k \in DOMAIN runs' \ DOMAIN runs : k \notin fired]_vars
  BY NextInv, Zenon
<1> QED  BY Invariance, <1>1, PTL DEF Spec, SlotFiresOnce

-----------------------------------------------------------------------------
(* The permits of the pool.                                                  *)

(* The tasks and the claim limit of the pass share the permits. Only slots   *)
(* that have come are projected, so the runs a pass chooses from are finite. *)
PoolInv ==
    /\ IsFiniteSet(tasks)
    /\ poll.limit \in Nat
    /\ \A k \in fired : k[3] <= MaxTime
    /\ PermitsKept

\* The runs are finite in number: each names a promotion, one of finitely many
\* expressions and a slot that has come.
LEMMA RunsFinite ==
    ASSUME IInv, PoolInv
    PROVE  IsFiniteSet(DOMAIN runs)
<1> DEFINE T == ((1..MaxPromotions) \X Exprs) \X (0..MaxTime)
           f == [k \in DOMAIN runs |-> <<<<k[1], k[2]>>, k[3]>>]
<1>1. MaxPromotions \in Nat /\ MaxTime \in Nat
  BY CronAssumption
<1>2. IsFiniteSet(1..MaxPromotions) /\ IsFiniteSet(0..MaxTime)
  BY <1>1, FS_Interval
<1>3. IsFiniteSet(T)
  BY <1>2, ExprsAssumption, FS_Product, Zenon
<1>4. \A k \in DOMAIN runs :
         /\ k[1] \in 1..MaxPromotions /\ k[2] \in Exprs /\ k[3] \in 0..MaxTime
         /\ k = <<k[1], k[2], k[3]>>
  <2> TAKE k \in DOMAIN runs
  <2>1. k \in Keys /\ k[3] <= MaxTime
    BY Zenon DEF IInv, TypeOK, FiredPast, PoolInv
  <2> QED  BY <1>1, <2>1, KeyTypes
<1>5. f \in [DOMAIN runs -> T]
  BY <1>4, Zenon
<1>6. ASSUME NEW j \in DOMAIN runs, NEW k \in DOMAIN runs, f[j] = f[k]
      PROVE  j = k
  <2>1. <<<<j[1], j[2]>>, j[3]>> = <<<<k[1], k[2]>>, k[3]>>
    BY <1>6, Zenon
  <2>2. j[1] = k[1] /\ j[2] = k[2] /\ j[3] = k[3]
    BY <2>1
  <2> QED  BY <1>4, <2>2, Zenon
<1> HIDE DEF f, T
<1>7. f \in Injection(DOMAIN runs, T)
  <2>1. DOMAIN f = DOMAIN runs
    BY <1>5, Zenon
  <2> QED  BY <1>5, <1>6, <2>1, Zenon DEF Injection, IsInjective
<1> QED  BY <1>3, <1>7, FS_Injection, ZenonT(60)

\* A step that adds no task, ends the pass or leaves its limit alone.
LEMMA FewerTasks ==
    ASSUME PoolInv, IsFiniteSet(tasks'), Cardinality(tasks') <= Cardinality(tasks),
           \/ poll'.phase = poll.phase /\ poll'.limit = poll.limit
           \/ poll.phase # "idle" /\ poll'.limit = poll.limit
           \/ poll' = Idle,
           \A k \in fired' : k[3] <= MaxTime
    PROVE  PoolInv'
<1>1. Cardinality(tasks) \in Nat /\ Cardinality(tasks') \in Nat
  BY FS_CardinalityType, Zenon DEF PoolInv
<1>2. Permits \in Nat
  BY CronAssumption
<1>3. poll'.limit \in Nat
  BY DEF PoolInv, Idle
<1>4. PermitsKept'
  BY <1>1, <1>2, <1>3 DEF PoolInv, PermitsKept, Idle
<1> QED  BY <1>3, <1>4, Zenon DEF PoolInv

\* Steps that leave the tasks alone.
LEMMA SameTasks ==
    ASSUME PoolInv, UNCHANGED tasks,
           \/ poll'.phase = poll.phase /\ poll'.limit = poll.limit
           \/ poll.phase # "idle" /\ poll'.limit = poll.limit
           \/ poll' = Idle,
           \A k \in fired' : k[3] <= MaxTime
    PROVE  PoolInv'
<1>1. IsFiniteSet(tasks') /\ Cardinality(tasks') = Cardinality(tasks)
  BY Zenon DEF PoolInv
<1>2. Cardinality(tasks) \in Nat
  BY FS_CardinalityType, Zenon DEF PoolInv
<1>3. Cardinality(tasks') <= Cardinality(tasks)
  BY <1>1, <1>2
<1> QED  BY <1>1, <1>3, FewerTasks

\* A task that goes on, or ends.
LEMMA TaskStepPermits ==
    ASSUME PoolInv, NEW t \in tasks, UNCHANGED <<poll, fired>>,
           tasks' = tasks \ {t} \/ \E phase, until : Move(t, phase, until)
    PROVE  PoolInv'
<1> DEFINE rest == tasks \ {t}
<1>1. IsFiniteSet(tasks) /\ IsFiniteSet(rest) /\ Cardinality(rest) = Cardinality(tasks) - 1
  BY FS_RemoveElement, Zenon DEF PoolInv
<1>2. Cardinality(tasks) \in Nat /\ Cardinality(rest) \in Nat
  BY <1>1, FS_CardinalityType, Zenon
<1>3. tasks' = rest \/ \E x : tasks' = rest \cup {x}
  BY Zenon DEF Move
<1> HIDE DEF rest
<1>4. IsFiniteSet(tasks') /\ Cardinality(tasks') <= Cardinality(tasks)
  <2>1. CASE tasks' = rest
    BY <1>1, <1>2, <2>1
  <2>2. ASSUME NEW x, tasks' = rest \cup {x}
        PROVE  IsFiniteSet(tasks') /\ Cardinality(tasks') <= Cardinality(tasks)
    <3>1. /\ IsFiniteSet(rest \cup {x})
          /\ Cardinality(rest \cup {x}) =
                IF x \in rest THEN Cardinality(rest) ELSE Cardinality(rest) + 1
      BY <1>1, FS_AddElement, Zenon
    <3> QED  BY <1>1, <1>2, <2>2, <3>1
  <2> QED  BY <1>3, <2>1, <2>2, Zenon
<1>5. \A k \in fired' : k[3] <= MaxTime
  BY Zenon DEF PoolInv
<1> QED  BY <1>4, <1>5, FewerTasks

\* The claims of a pass fit the limit it read when it began.
LEMMA ClaimPermits ==
    ASSUME IInv, PoolInv, ClaimCronRuns
    PROVE  PoolInv'
<1> DEFINE Claimed(k) == [run |-> k, attempt |-> ClaimRow(runs[k], poll.at).attempt,
                          deadline |-> ClaimRow(runs[k], poll.at).deadline,
                          phase |-> "spawned", until |-> 0]
           due == {k \in DOMAIN runs : Claimable(k, poll.at)}
<1>1. PICK S \in SUBSET DOMAIN runs :
          /\ Cardinality(S) = Smaller(poll.limit, Cardinality(due))
          /\ S \subseteq due
          /\ tasks' = tasks \cup {Claimed(k) : k \in S}
  BY Zenon DEF ClaimCronRuns, IsPrefix
<1>2. /\ poll' = Idle /\ poll.phase = "claim" /\ UNCHANGED fired
  BY Zenon DEF ClaimCronRuns, historyVars
<1>3. IsFiniteSet(due) /\ IsFiniteSet(S)
  BY RunsFinite, FS_Subset, Zenon
<1>4. Cardinality(due) \in Nat /\ Cardinality(S) \in Nat
  BY <1>3, FS_CardinalityType, Zenon
<1> DEFINE new == {Claimed(k) : k \in S}
           f == [k \in S |-> Claimed(k)]
<1> HIDE DEF Claimed, due
<1>5. f \in Surjection(S, new)
  BY Zenon DEF Surjection
<1>6. IsFiniteSet(new) /\ Cardinality(new) <= Cardinality(S)
  <2> HIDE DEF f, new
  <2> QED  BY <1>3, <1>5, FS_Surjection, Zenon
<1>7. tasks' = tasks \cup new
  BY <1>1, Zenon
<1> HIDE DEF f, new
<1>8. IsFiniteSet(tasks)
  BY Zenon DEF PoolInv
<1>9. /\ IsFiniteSet(tasks') /\ IsFiniteSet(tasks \cap new)
      /\ Cardinality(tasks')
           = Cardinality(tasks) + Cardinality(new) - Cardinality(tasks \cap new)
  BY <1>6, <1>7, <1>8, FS_Union, FS_Intersection, Zenon
<1>10. /\ Cardinality(tasks) \in Nat /\ Cardinality(new) \in Nat
       /\ Cardinality(tasks \cap new) \in Nat /\ Cardinality(tasks') \in Nat
  BY <1>6, <1>8, <1>9, FS_CardinalityType, ZenonT(60)
<1>11. Cardinality(S) <= poll.limit /\ poll.limit \in Nat /\ Permits \in Nat
  BY <1>1, <1>4, CronAssumption DEF PoolInv, Smaller
<1>12. poll.limit + Cardinality(tasks) <= Permits
  BY <1>2 DEF PoolInv, PermitsKept
<1>13. Cardinality(tasks') <= Permits
  BY <1>4, <1>6, <1>9, <1>10, <1>11, <1>12
<1>14. poll'.limit \in Nat /\ poll'.phase = "idle"
  BY <1>2 DEF Idle
<1> QED  BY <1>2, <1>9, <1>13, <1>14, Zenon DEF PoolInv, PermitsKept

\* A pass begins with the permits the tasks leave.
LEMMA StartPollPermits ==
    ASSUME PoolInv, StartPoll
    PROVE  PoolInv'
<1>1. /\ Cardinality(tasks) < Permits /\ UNCHANGED <<tasks, fired>>
      /\ poll' = [phase |-> "project", at |-> now,
                  limit |-> Smaller(Batch, Permits - Cardinality(tasks))]
  BY Zenon DEF StartPoll, historyVars
<1>2. Permits \in Nat /\ Batch \in Nat
  BY CronAssumption
<1>3. Cardinality(tasks) \in Nat
  BY FS_CardinalityType, Zenon DEF PoolInv
<1>4. /\ poll'.limit \in Nat
      /\ poll'.limit + Cardinality(tasks) <= Permits
  BY <1>1, <1>2, <1>3 DEF Smaller
<1>5. PermitsKept'
  BY <1>1, <1>2, <1>3, <1>4 DEF PermitsKept
<1> QED  BY <1>1, <1>4, <1>5, Zenon DEF PoolInv

\* A pass projects slots that have come.
LEMMA ProjectionPermits ==
    ASSUME IInv, PoolInv, ProjectDueCronSlots
    PROVE  PoolInv'
<1>1. \A k \in fired' \ fired : k \in Keys /\ k[3] \in DueSlots(ActivationOf(k), poll.at)
  BY Zenon DEF ProjectDueCronSlots
<1>2. \A k \in fired' : k[3] <= MaxTime
  <2> TAKE k \in fired'
  <2>1. CASE k \in fired
    BY <2>1, Zenon DEF PoolInv
  <2>2. CASE k \notin fired
    <3>1. k \in Keys /\ k[3] <= poll.at
      BY <1>1, <2>2, Zenon DEF DueSlots, LatestAtOrBefore
    <3>2. k[3] \in Nat /\ poll.at \in 0..MaxTime /\ MaxTime \in Nat
      BY <3>1, KeyTypes, CronAssumption DEF IInv, TypeOK
    <3> QED  BY <3>1, <3>2
  <2> QED  BY <2>1, <2>2, Zenon
<1>3. /\ poll' = [phase |-> "gc", at |-> poll.at, limit |-> poll.limit]
      /\ poll.phase = "project" /\ UNCHANGED tasks
  BY Zenon DEF ProjectDueCronSlots
<1>4. poll.phase # "idle" /\ poll'.limit = poll.limit
  BY <1>3
<1> QED  BY <1>2, <1>3, <1>4, SameTasks

LEMMA NextPermits == IInv /\ PoolInv /\ [Next]_vars => PoolInv'
<1> SUFFICES ASSUME IInv, PoolInv, [Next]_vars PROVE PoolInv'
  OBVIOUS
<1>1. CASE StartPoll \/ ProjectDueCronSlots \/ ClaimCronRuns
  BY <1>1, StartPollPermits, ProjectionPermits, ClaimPermits, Zenon
<1>2. CASE GcCronHistory
  <2>1. /\ poll' = [phase |-> "claim", at |-> poll.at, limit |-> poll.limit]
        /\ poll.phase = "gc" /\ UNCHANGED <<tasks, fired>>
    BY <1>2, Zenon DEF GcCronHistory, historyVars
  <2>2. poll.phase # "idle" /\ poll'.limit = poll.limit
    BY <2>1
  <2>3. \A k \in fired' : k[3] <= MaxTime
    BY <2>1, Zenon DEF PoolInv
  <2> QED  BY <2>1, <2>2, <2>3, SameTasks
<1>3. CASE PollFails
  <2>1. poll' = Idle /\ UNCHANGED <<tasks, fired>>
    BY <1>3, Zenon DEF PollFails, historyVars
  <2>2. \A k \in fired' : k[3] <= MaxTime
    BY <2>1, Zenon DEF PoolInv
  <2> QED  BY <2>1, <2>2, SameTasks
<1>4. ASSUME NEW t \in tasks,
             \/ TaskStep(t) \/ LookupFails(t) \/ ResultNotWritten(t)
             \/ \E outcome \in {"ok", "exception", "noRetry", "unknown"} :
                   HandlerEnds(t, outcome)
      PROVE  PoolInv'
  <2>1. UNCHANGED <<poll, fired>>
    BY <1>4, Zenon
    DEF TaskStep, LookupAuthority, DeliveryTimeout, CompleteCronRun, MarkCronUnknown,
        LookupFails, ResultNotWritten, HandlerEnds, historyVars
  <2>2. tasks' = tasks \ {t} \/ \E phase, until : Move(t, phase, until)
    BY <1>4, Zenon
    DEF TaskStep, LookupAuthority, DeliveryTimeout, CompleteCronRun, MarkCronUnknown,
        LookupFails, ResultNotWritten, HandlerEnds
  <2> QED  BY <2>1, <2>2, TaskStepPermits
<1>5. CASE \E t \in 0..MaxTime : Restart(t)
  <2>1. poll' = Idle /\ tasks' = {} /\ UNCHANGED fired
    BY <1>5, Zenon DEF Restart, historyVars
  <2>2. IsFiniteSet(tasks') /\ Cardinality(tasks') = 0
    BY <2>1, FS_EmptySet, Zenon
  <2>3. Cardinality(tasks) \in Nat
    BY FS_CardinalityType, Zenon DEF PoolInv
  <2>4. Cardinality(tasks') <= Cardinality(tasks)
    BY <2>2, <2>3
  <2>5. \A k \in fired' : k[3] <= MaxTime
    BY <2>1, Zenon DEF PoolInv
  <2> QED  BY <2>1, <2>2, <2>4, <2>5, FewerTasks
<1>6. CASE UNCHANGED <<poll, tasks, fired>>
  <2>1. \A k \in fired' : k[3] <= MaxTime
    BY <1>6, Zenon DEF PoolInv
  <2> QED  BY <1>6, <2>1, SameTasks
<1> QED
  BY <1>1, <1>2, <1>3, <1>4, <1>5, <1>6, ZenonT(60)
  DEF Next, PollStep, vars, historyVars, Deploy, Quarantine, DeleteWorker,
      BeginVersionDelete, FinalizeVersionDelete, Tick

\* The pool never runs more deliveries than it has permits: the claim limit,
\* read before the three transactions of a pass, still fits when the last of
\* them claims, because tasks end meanwhile but only the pass starts them.
THEOREM Spec_PermitsKept == Spec => []PermitsKept
<1>1. Init => PoolInv
  <2> SUFFICES ASSUME Init PROVE PoolInv
    OBVIOUS
  <2>1. tasks = {} /\ fired = {} /\ poll = Idle
    BY Zenon DEF Init
  <2>2. IsFiniteSet(tasks) /\ Cardinality(tasks) = 0
    BY <2>1, FS_EmptySet, Zenon
  <2>3. Permits \in Nat
    BY CronAssumption
  <2> QED  BY <2>1, <2>2, <2>3 DEF PoolInv, PermitsKept, Idle
<1>2. PoolInv => PermitsKept
  BY Zenon DEF PoolInv
<1> QED  BY <1>1, <1>2, NextPermits, Invariance, PTL DEF Spec

-----------------------------------------------------------------------------
(* Cron implements CronContract.                                            *)

(* What the stage of a slot says of its row and its task.                    *)
StageFacts ==
    \A k \in Keys :
       /\ k \notin fired => SlotStage(k) = "none"
       /\ k \in fired /\ k \notin DOMAIN runs => SlotStage(k) = "ended"
       /\ k \in DOMAIN runs /\ runs[k].state \in Terminal => SlotStage(k) = "ended"
       /\ k \in DOMAIN runs /\ runs[k].state = "ready" =>
             SlotStage(k) = IF runs[k].deadline = Undispatched
                            THEN "waiting" ELSE "retrying"
       /\ k \in lost => SlotStage(k) = "unrecorded"
       /\ \A t \in tasks : t.run = k => SlotStage(k) = PhaseStage[t.phase]

\* A slot is in one stage, since a claimed row has one task or is lost.
LEMMA Stages == IInv => StageFacts
<1> SUFFICES ASSUME IInv, NEW k \in Keys
             PROVE  /\ k \notin fired => SlotStage(k) = "none"
                    /\ k \in fired /\ k \notin DOMAIN runs => SlotStage(k) = "ended"
                    /\ k \in DOMAIN runs /\ runs[k].state \in Terminal =>
                          SlotStage(k) = "ended"
                    /\ k \in DOMAIN runs /\ runs[k].state = "ready" =>
                          SlotStage(k) = IF runs[k].deadline = Undispatched
                                         THEN "waiting" ELSE "retrying"
                    /\ k \in lost => SlotStage(k) = "unrecorded"
                    /\ \A t \in tasks : t.run = k => SlotStage(k) = PhaseStage[t.phase]
  BY Zenon DEF StageFacts
<1>1. k \in lost => k \in DOMAIN runs /\ runs[k].state = "claimed"
  BY Zenon DEF IInv, TaskOwnsClaim
<1>2. k \in DOMAIN runs => k \in fired
  BY Zenon DEF IInv, FiredPast
<1>3. "claimed" \notin Terminal /\ "ready" \notin Terminal
  BY Zenon DEF Terminal
<1>4. k \notin fired => SlotStage(k) = "none"
  BY <1>1, <1>2 DEF SlotStage
<1>5. k \in fired /\ (k \in DOMAIN runs => runs[k].state \in Terminal) =>
         SlotStage(k) = "ended"
  BY <1>1, <1>3 DEF SlotStage, IsTerminal
<1>6. k \in DOMAIN runs /\ runs[k].state = "ready" =>
         SlotStage(k) = IF runs[k].deadline = Undispatched
                        THEN "waiting" ELSE "retrying"
  BY <1>1, <1>2, <1>3 DEF SlotStage, IsTerminal
<1>7. k \in lost => SlotStage(k) = "unrecorded"
  BY <1>1, <1>2, <1>3 DEF SlotStage, IsTerminal
<1>8. ASSUME NEW t \in tasks, t.run = k PROVE SlotStage(k) = PhaseStage[t.phase]
  <2>1. k \in DOMAIN runs /\ runs[k].state = "claimed" /\ k \notin lost
    BY <1>8, Zenon DEF IInv, TaskOwnsClaim
  <2>2. (CHOOSE u \in tasks : u.run = k) = t
    BY <1>8, Zenon DEF IInv, TaskOwnsClaim
  <2>3. SlotStage(k) = PhaseStage[(CHOOSE u \in tasks : u.run = k).phase]
    BY <1>2, <1>3, <2>1 DEF SlotStage, IsTerminal
  <2> QED  BY <2>2, <2>3, Zenon
<1> QED  BY <1>2, <1>4, <1>5, <1>6, <1>7, <1>8, Zenon

LEMMA StagesNext == IInv' => StageFacts'
BY Stages, PTL

\* Where a row is: it has a state, and a claimed one is lost or has a task.
LEMMA RowStates ==
    ASSUME IInv, NEW k \in DOMAIN runs
    PROVE  /\ k \in Keys /\ k \in fired /\ runs[k] \in Row
           /\ \/ runs[k].state \in Terminal
              \/ runs[k].state = "ready"
              \/ runs[k].state = "claimed" /\ k \in lost
              \/ runs[k].state = "claimed" /\ \E t \in tasks : t.run = k
<1>1. k \in Keys /\ runs[k] \in Row /\ k \in fired
  BY Zenon DEF IInv, TypeOK, FiredPast
<1>2. runs[k].state \in {"ready", "claimed"} \cup Terminal
  BY <1>1, Zenon DEF Row
<1> QED  BY <1>1, <1>2, Zenon DEF IInv, TaskOwnsClaim

\* A slot whose row and task a step leaves alone keeps its stage.
LEMMA StageStays ==
    ASSUME IInv, IInv', NEW k \in Keys,
           k \in fired' <=> k \in fired,
           k \in DOMAIN runs' <=> k \in DOMAIN runs,
           k \in DOMAIN runs => runs'[k] = runs[k],
           k \in lost => k \in lost',
           \A t \in tasks : t.run = k => t \in tasks'
    PROVE  SlotStage(k)' = SlotStage(k)
<1>1. StageFacts /\ StageFacts'
  BY Stages, StagesNext, Zenon
<1>2. CASE k \notin DOMAIN runs
  BY <1>1, <1>2 DEF StageFacts
<1>3. CASE k \in DOMAIN runs
  <2>1. k \in fired /\ k \in DOMAIN runs' /\ runs'[k] = runs[k]
    BY <1>3, RowStates, ZenonT(60)
  <2>2. CASE runs[k].state \in Terminal
    BY <1>1, <1>3, <2>1, <2>2 DEF StageFacts
  <2>3. CASE runs[k].state = "ready"
    BY <1>1, <1>3, <2>1, <2>3 DEF StageFacts
  <2>4. CASE k \in lost
    BY <1>1, <2>4 DEF StageFacts
  <2>5. ASSUME NEW t \in tasks, t.run = k PROVE SlotStage(k)' = SlotStage(k)
    BY <1>1, <2>5, ZenonT(60) DEF StageFacts
  <2> QED  BY <1>3, <2>2, <2>3, <2>4, <2>5, RowStates, ZenonT(60)
<1> QED  BY <1>2, <1>3, Zenon

\* A step that moves the slots of S to one stage.
LEMMA GoStep ==
    ASSUME NEW S, NEW s,
           \A k \in Keys : SlotStage(k)' = IF k \in S THEN s ELSE SlotStage(k)
    PROVE  Contract!Go(S, s)
<1>1. SlotStages' = [k \in Keys |-> SlotStage(k)']
  BY Zenon DEF SlotStages
<1>2. \A k \in Keys : SlotStages[k] = SlotStage(k)
  BY Zenon DEF SlotStages
<1> HIDE DEF SlotStages
<1> QED  BY <1>1, <1>2 DEF Contract!Go

\* A step that changes no row, task or history.
LEMMA QuietStage ==
    ASSUME UNCHANGED <<runs, tasks, lost, fired, starts>>
    PROVE  UNCHANGED <<SlotStages, starts>>
BY DEF SlotStages, SlotStage, IsTerminal

-----------------------------------------------------------------------------
(* What the steps on rows do to the state and the deadline of a row.         *)

(* A claim fixes the deadline of its row.                                    *)
Dated ==
    \A k \in DOMAIN runs :
       runs[k].state = "claimed" => runs[k].deadline # Undispatched

\* The rows a claim pass fails and the ones it hands to a task.
LEMMA ClaimStep ==
    ASSUME IInv, ClaimCronRuns
    PROVE  \E S, spent \in SUBSET DOMAIN runs :
             /\ \A k \in S :
                   /\ runs[k].state = "ready" /\ k \notin spent
                   /\ runs'[k].state = "claimed" /\ runs'[k].deadline # Undispatched
                   /\ \E t \in tasks' : t.run = k /\ t.phase = "spawned"
             /\ \A k \in spent :
                   /\ runs[k].state = "ready" /\ runs[k].deadline # Undispatched
                   /\ runs'[k].state = "failed"
             /\ \A k \in DOMAIN runs : k \in S \/ k \in spent \/ runs'[k] = runs[k]
             /\ DOMAIN runs' = DOMAIN runs /\ tasks \subseteq tasks'
<1> DEFINE t == poll.at
           spent == {k \in DOMAIN runs : IsSpent(k, t)}
           Claim(k) == [run |-> k, attempt |-> ClaimRow(runs[k], t).attempt,
                        deadline |-> ClaimRow(runs[k], t).deadline,
                        phase |-> "spawned", until |-> 0]
<1>1. PICK S :
          /\ S \subseteq {k \in DOMAIN runs : Claimable(k, t)}
          /\ runs' = [k \in DOMAIN runs |->
                         IF k \in spent THEN Fail(runs[k], t)
                         ELSE IF k \in S THEN ClaimRow(runs[k], t)
                         ELSE runs[k]]
          /\ tasks' = tasks \cup {Claim(k) : k \in S}
  BY Zenon DEF ClaimCronRuns, IsPrefix
<1>2. t \in Nat
  BY CronAssumption DEF IInv, TypeOK
<1>3. ASSUME NEW k \in S
      PROVE  /\ k \in DOMAIN runs /\ k \notin spent
             /\ runs[k] \in Row /\ runs[k].state = "ready"
             /\ runs[k].attempt < MaxRetries + 1
  <2>1. k \in DOMAIN runs /\ Claimable(k, t)
    BY <1>1, <1>3, Zenon
  <2>2. runs[k] \in Row /\ runs[k].state = "ready"
        /\ runs[k].attempt < MaxRetries + 1
    BY <2>1, Zenon DEF IInv, TypeOK, Claimable, ReadyAt
  <2>3. ~(runs[k].attempt >= MaxRetries + 1)
    BY <2>2, CronAssumption DEF Row
  <2>4. ~(runs[k].deadline <= t) \/ runs[k].deadline = Undispatched
    BY <2>1, <2>2, <1>2 DEF Claimable, Row
  <2>5. ~IsSpent(k, t)
    BY <2>3, <2>4, Zenon DEF IsSpent
  <2> QED  BY <2>1, <2>2, <2>5, Zenon
<1> HIDE DEF t
<1>4. ASSUME NEW k \in S
      PROVE  runs'[k].state = "claimed" /\ runs'[k].deadline # Undispatched
  <2>1. runs'[k] = ClaimRow(runs[k], t)
    BY <1>1, <1>3, ZenonT(60)
  <2>2. runs'[k].state = "claimed" /\ runs'[k].deadline \in Nat
    BY <2>1, <1>2, <1>3, ClaimedRow
  <2> QED  BY <2>2 DEF Undispatched
<1>5. ASSUME NEW k \in S PROVE \E u \in tasks' : u.run = k /\ u.phase = "spawned"
  <2>1. Claim(k) \in tasks'
    BY <1>1, Zenon
  <2>2. Claim(k).run = k /\ Claim(k).phase = "spawned"
    BY Zenon
  <2> HIDE DEF Claim
  <2> QED  BY <2>1, <2>2, Zenon
<1>6. ASSUME NEW k \in spent
      PROVE  /\ runs[k].state = "ready" /\ runs[k].deadline # Undispatched
             /\ runs'[k].state = "failed"
  <2>1. /\ k \in DOMAIN runs /\ runs[k] \in Row
        /\ runs[k].state = "ready" /\ runs[k].deadline # Undispatched
    BY Zenon DEF IsSpent, IInv, TypeOK
  <2>2. runs'[k] = Fail(runs[k], t)
    BY <2>1, <1>1, Zenon
  <2> QED  BY <2>1, <2>2, <1>2, FailRow
<1>7. spent \subseteq DOMAIN runs /\ S \subseteq DOMAIN runs
  BY <1>1, Zenon
<1> HIDE DEF spent
<1>8. /\ \A k \in DOMAIN runs : k \in S \/ k \in spent \/ runs'[k] = runs[k]
      /\ DOMAIN runs' = DOMAIN runs /\ tasks \subseteq tasks'
  BY <1>1, Zenon
<1> QED  BY <1>3, <1>4, <1>5, <1>6, <1>7, <1>8, ZenonT(60)

\* The write of a result ends the claim of its task and keeps the deadline;
\* after a success or a refusal the row is terminal.
LEMMA ResultStep ==
    ASSUME IInv, NEW t \in tasks, CompleteCronRun(t) \/ MarkCronUnknown(t)
    PROVE  /\ t.run \in DOMAIN runs /\ DOMAIN runs' = DOMAIN runs
           /\ \A j \in DOMAIN runs \ {t.run} : runs'[j] = runs[j]
           /\ runs'[t.run].state \in {"ready"} \cup Terminal
           /\ runs'[t.run].deadline = runs[t.run].deadline
           /\ PhaseStage[t.phase] \in {"final", "open"}
           /\ PhaseStage[t.phase] = "final" => runs'[t.run].state \in Terminal
<1> DEFINE k == t.run
           r == runs[k]
<1>1. k \in DOMAIN runs /\ r.state = "claimed"
  BY Zenon DEF IInv, TaskOwnsClaim
<1>2. ASSUME NEW row, WriteRow(k, row)
      PROVE  /\ DOMAIN runs' = DOMAIN runs /\ runs'[k] = row
             /\ \A j \in DOMAIN runs \ {k} : runs'[j] = runs[j]
  <2>1. runs' = [runs EXCEPT ![k] = row]
    BY <1>1, <1>2, ZenonT(60) DEF WriteRow
  <2> QED  BY <2>1, <1>1, Zenon
<1>3. CASE CompleteCronRun(t)
  <2>1. /\ WriteRow(k, CompletedRow(r, t))
        /\ t.phase \in {"ok", "exception", "noRetry"}
    BY <1>3, ZenonT(60) DEF CompleteCronRun
  <2>2. /\ CompletedRow(r, t).state \in {"ready"} \cup Terminal
        /\ CompletedRow(r, t).deadline = r.deadline
        /\ t.phase # "exception" => CompletedRow(r, t).state \in Terminal
    BY DEF CompletedRow, Update, Terminal
  <2>3. /\ PhaseStage[t.phase] \in {"final", "open"}
        /\ PhaseStage[t.phase] = "final" => t.phase # "exception"
    BY <2>1 DEF PhaseStage
  <2> QED  BY <1>1, <1>2, <2>1, <2>2, <2>3
<1>4. CASE MarkCronUnknown(t)
  <2>1. WriteRow(k, UnknownRow(r, now, MaxRetries)) /\ t.phase = "unknown"
    BY <1>4, ZenonT(60) DEF MarkCronUnknown
  <2>2. /\ UnknownRow(r, now, MaxRetries).state \in {"ready"} \cup Terminal
        /\ UnknownRow(r, now, MaxRetries).deadline = r.deadline
    BY DEF UnknownRow, ReadyRow, Fail, Update, Terminal
  <2>3. PhaseStage[t.phase] = "open"
    BY <2>1 DEF PhaseStage
  <2> QED  BY <1>1, <1>2, <2>1, <2>2, <2>3
<1> QED  BY <1>3, <1>4, Zenon

\* The start-up reset ends every claim and keeps the deadlines.
LEMMA RestartStep ==
    ASSUME NEW t \in 0..MaxTime, Restart(t)
    PROVE  /\ DOMAIN runs' = DOMAIN runs
           /\ \A k \in DOMAIN runs :
                 IF runs[k].state = "claimed"
                 THEN /\ runs'[k].state \in {"ready"} \cup Terminal
                      /\ runs'[k].deadline = runs[k].deadline
                 ELSE runs'[k] = runs[k]
<1>1. runs' = [k \in DOMAIN runs |->
                 IF runs[k].state = "claimed"
                 THEN UnknownRow(runs[k], t, ResetRetries) ELSE runs[k]]
  BY Zenon DEF Restart
<1>2. \A r : /\ UnknownRow(r, t, ResetRetries).state \in {"ready"} \cup Terminal
            /\ UnknownRow(r, t, ResetRetries).deadline = r.deadline
  BY DEF UnknownRow, ReadyRow, Fail, Update, Terminal
<1> QED  BY <1>1, <1>2, Zenon

\* Only a claim pass writes "claimed", with a deadline.
LEMMA NextDated == IInv /\ Dated /\ [Next]_vars => Dated'
<1> SUFFICES ASSUME IInv, Dated, [Next]_vars PROVE Dated'
  OBVIOUS
<1>1. CASE UNCHANGED runs
  BY <1>1, Zenon DEF Dated
<1>2. CASE ProjectDueCronSlots
  <2>1. PICK new : Projection(new)
    BY <1>2, ProjectionStep, ZenonT(60)
  <2>2. /\ DOMAIN runs' = DOMAIN runs \cup new
        /\ \A k \in DOMAIN runs : runs'[k] = runs[k]
        /\ \A k \in DOMAIN runs' \ DOMAIN runs : runs'[k].state = "ready"
    BY <2>1 DEF Projection
  <2> QED  BY <2>2, Zenon DEF Dated
<1>3. CASE GcCronHistory
  BY <1>3, GcStep, Zenon DEF Dated
<1>4. CASE ClaimCronRuns
  BY <1>4, ClaimStep DEF Dated
<1>5. ASSUME NEW t \in tasks, CompleteCronRun(t) \/ MarkCronUnknown(t) PROVE Dated'
  <2>1. runs'[t.run].state # "claimed"
    BY <1>5, ResultStep, Zenon DEF Terminal
  <2> QED  BY <1>5, <2>1, ResultStep, Zenon DEF Dated
<1>6. ASSUME NEW t \in 0..MaxTime, Restart(t) PROVE Dated'
  BY <1>6, RestartStep, Zenon DEF Dated, Terminal
<1> QED
  BY <1>1, <1>2, <1>3, <1>4, <1>5, <1>6, ZenonT(60)
     DEF Next, vars, PollStep, TaskStep, Deploy, Quarantine, DeleteWorker, BeginVersionDelete,
         FinalizeVersionDelete, StartPoll, PollFails, LookupAuthority, LookupFails,
         HandlerEnds, DeliveryTimeout, ResultNotWritten, Tick

-----------------------------------------------------------------------------
(* The steps of the contract.                                                *)

\* The stages the contract speaks of are those of the slots.
LEMMA MappedStage == \A k \in Keys : SlotStages[k] = SlotStage(k)
BY Zenon DEF SlotStages

\* A projected slot has not fired before.
LEMMA ProjectContract ==
    ASSUME IInv, IInv', ProjectDueCronSlots
    PROVE  \E S \in SUBSET Contract!At("none") : Contract!Fire(S)
<1>1. PICK new : Projection(new)
  BY ProjectionStep, ZenonT(60)
<1>2. /\ new \subseteq Keys \ DOMAIN runs
      /\ DOMAIN runs' = DOMAIN runs \cup new
      /\ \A k \in DOMAIN runs : runs'[k] = runs[k]
      /\ fired' = fired \cup new
      /\ \A k \in new : runs'[k].state = "ready" /\ runs'[k].deadline = Undispatched
  BY <1>1 DEF Projection
<1>3. new \cap fired = {}
  BY <1>2, ProjectionInv, Zenon
<1>4. UNCHANGED <<tasks, lost, starts>>
  BY Zenon DEF ProjectDueCronSlots
<1>5. StageFacts /\ StageFacts'
  BY Stages, StagesNext, Zenon
<1>6. \A k \in Keys : SlotStage(k)' = IF k \in new THEN "waiting" ELSE SlotStage(k)
  <2> TAKE k \in Keys
  <2>1. CASE k \in new
    <3>1. k \in DOMAIN runs' /\ runs'[k].state = "ready" /\ runs'[k].deadline = Undispatched
      BY <1>2, <2>1, Zenon
    <3> QED  BY <1>5, <2>1, <3>1 DEF StageFacts
  <2>2. CASE k \notin new
    <3>1. SlotStage(k)' = SlotStage(k)
      BY <1>2, <1>4, <2>2, StageStays, Zenon
    <3> QED  BY <2>2, <3>1, Zenon
  <2> QED  BY <2>1, <2>2, Zenon
<1>7. new \in SUBSET Contract!At("none")
  <2>1. \A k \in new : k \in Keys /\ SlotStages[k] = "none"
    BY <1>2, <1>3, <1>5, MappedStage, Zenon DEF StageFacts
  <2> QED  BY <2>1, Zenon DEF Contract!At
<1>8. Contract!Go(new, "waiting")
  BY <1>6, GoStep, ZenonT(60)
<1> QED  BY <1>4, <1>7, <1>8, Zenon DEF Contract!Fire

\* Collecting the row of a slot that has ended leaves it ended.
LEMMA GcContract ==
    ASSUME IInv, IInv', GcCronHistory
    PROVE  UNCHANGED <<SlotStages, starts>>
<1>1. PICK keep :
          /\ keep \subseteq DOMAIN runs
          /\ \A k \in DOMAIN runs : runs[k].state \notin Terminal => k \in keep
          /\ runs' = [k \in keep |-> runs[k]]
  BY GcStep, Zenon
<1>2. UNCHANGED <<tasks, lost, fired, starts>>
  BY Zenon DEF GcCronHistory, historyVars
<1>3. StageFacts /\ StageFacts'
  BY Stages, StagesNext, Zenon
<1>4. DOMAIN runs' = keep /\ \A k \in keep : runs'[k] = runs[k]
  BY <1>1, Zenon
<1>5. ASSUME NEW k \in Keys PROVE SlotStage(k)' = SlotStage(k)
  <2>1. CASE k \in DOMAIN runs \ keep
    <3>1. runs[k].state \in Terminal /\ k \in fired /\ k \in fired' /\ k \notin DOMAIN runs'
      BY <1>1, <1>2, <1>4, <2>1, RowStates, Zenon
    <3>2. SlotStage(k) = "ended"
      BY <1>3, <2>1, <3>1, Zenon DEF StageFacts
    <3>3. SlotStage(k)' = "ended"
      BY <1>3, <3>1, Zenon DEF StageFacts
    <3> QED  BY <3>2, <3>3, Zenon
  <2>2. CASE k \notin DOMAIN runs \ keep
    BY <1>1, <1>2, <1>4, <2>2, StageStays, Zenon
  <2> QED  BY <2>1, <2>2, Zenon
<1> QED  BY <1>2, <1>5 DEF SlotStages

\* A claim pass offers slots that wait, and gives up only some that were
\* offered before.
LEMMA OfferContract ==
    ASSUME IInv, IInv', ClaimCronRuns
    PROVE  \E S \in SUBSET (Contract!At("waiting") \cup Contract!At("retrying")) :
             \E E \in SUBSET (Contract!At("retrying") \ S) : Contract!Offer(S, E)
<1>1. PICK S, spent \in SUBSET DOMAIN runs :
          /\ \A k \in S :
                /\ runs[k].state = "ready" /\ k \notin spent
                /\ runs'[k].state = "claimed" /\ runs'[k].deadline # Undispatched
                /\ \E t \in tasks' : t.run = k /\ t.phase = "spawned"
          /\ \A k \in spent :
                /\ runs[k].state = "ready" /\ runs[k].deadline # Undispatched
                /\ runs'[k].state = "failed"
          /\ \A k \in DOMAIN runs : k \in S \/ k \in spent \/ runs'[k] = runs[k]
          /\ DOMAIN runs' = DOMAIN runs /\ tasks \subseteq tasks'
  BY ClaimStep, Zenon
<1>2. UNCHANGED <<lost, fired, starts>>
  BY Zenon DEF ClaimCronRuns, historyVars
<1>3. StageFacts /\ StageFacts'
  BY Stages, StagesNext, Zenon
<1>4. ASSUME NEW k \in S
      PROVE  /\ k \in Keys /\ k \notin spent
             /\ SlotStage(k) \in {"waiting", "retrying"} /\ SlotStage(k)' = "offered"
  <2>1. k \in Keys /\ k \in DOMAIN runs /\ runs[k].state = "ready" /\ k \notin spent
    BY <1>1, RowStates, Zenon
  <2>2. PICK t \in tasks' : t.run = k /\ t.phase = "spawned"
    BY <1>1, Zenon
  <2>3. SlotStage(k)' = PhaseStage[t.phase]
    BY <1>3, <2>1, <2>2, Zenon DEF StageFacts
  <2>4. PhaseStage["spawned"] = "offered"
    BY DEF PhaseStage
  <2>5. SlotStage(k) \in {"waiting", "retrying"}
    BY <1>3, <2>1 DEF StageFacts
  <2> QED  BY <2>1, <2>2, <2>3, <2>4, <2>5, Zenon
<1>5. ASSUME NEW k \in spent
      PROVE  /\ k \in Keys
             /\ SlotStage(k) = "retrying" /\ SlotStage(k)' = "ended"
  <2>1. /\ k \in Keys /\ k \in DOMAIN runs /\ k \in DOMAIN runs'
        /\ runs[k].state = "ready" /\ runs[k].deadline # Undispatched
        /\ runs'[k].state \in Terminal
    BY <1>1, RowStates, ZenonT(60) DEF Terminal
  <2>2. SlotStage(k) = "retrying"
    BY <1>3, <2>1 DEF StageFacts
  <2>3. SlotStage(k)' = "ended"
    BY <1>3, <2>1 DEF StageFacts
  <2> QED  BY <2>1, <2>2, <2>3, Zenon
<1>6. ASSUME NEW k \in Keys, k \notin S, k \notin spent
      PROVE  SlotStage(k)' = SlotStage(k)
  BY <1>1, <1>2, <1>6, StageStays, Zenon
<1>7. S \in SUBSET (Contract!At("waiting") \cup Contract!At("retrying"))
  BY <1>4, MappedStage, Zenon DEF Contract!At
<1>8. spent \in SUBSET (Contract!At("retrying") \ S)
  BY <1>4, <1>5, MappedStage, Zenon DEF Contract!At
<1>9. SlotStages' = [k \in Keys |-> IF k \in S THEN "offered"
                                   ELSE IF k \in spent THEN "ended"
                                   ELSE SlotStages[k]]
  <2>1. \A k \in Keys : SlotStage(k)' = IF k \in S THEN "offered"
                                        ELSE IF k \in spent THEN "ended"
                                        ELSE SlotStages[k]
    BY <1>4, <1>5, <1>6, MappedStage
  <2>2. SlotStages' = [k \in Keys |-> SlotStage(k)']
    BY Zenon DEF SlotStages
  <2> QED  BY <2>1, <2>2, ZenonT(60)
<1>10. Contract!Offer(S, spent)
  BY <1>2, <1>9, Zenon DEF Contract!Offer
<1> QED  BY <1>7, <1>8, <1>10, Zenon

\* A task that goes on to another phase moves its slot, and no other.
LEMMA MoveContract ==
    ASSUME IInv, IInv', NEW t \in tasks, NEW phase, NEW until, Move(t, phase, until),
           UNCHANGED <<runs, lost, fired>>
    PROVE  /\ t.run \in Keys /\ SlotStages[t.run] = PhaseStage[t.phase]
           /\ Contract!Go({t.run}, PhaseStage[phase])
<1> DEFINE w == [run |-> t.run, attempt |-> t.attempt, deadline |-> t.deadline,
                 phase |-> phase, until |-> until]
<1>1. tasks' = (tasks \ {t}) \cup {w}
  BY Zenon DEF Move
<1>2. w.run = t.run /\ w.phase = phase
  BY Zenon
<1> HIDE DEF w
<1>3. StageFacts /\ StageFacts' /\ t.run \in Keys
  BY Stages, StagesNext, Zenon DEF IInv, TypeOK, Task
<1>4. SlotStage(t.run) = PhaseStage[t.phase]
  BY <1>3, Zenon DEF StageFacts
<1>5. SlotStage(t.run)' = PhaseStage[phase]
  <2>1. w \in tasks' /\ w.run = t.run /\ t.run \in Keys
    BY <1>1, <1>2, <1>3, ZenonT(60)
  <2>2. SlotStage(t.run)' = PhaseStage[w.phase]
    BY <1>3, <2>1 DEF StageFacts
  <2> QED  BY <1>2, <2>2, Zenon
<1>6. ASSUME NEW k \in Keys, k # t.run PROVE SlotStage(k)' = SlotStage(k)
  <2>1. \A u \in tasks : u.run = k => u \in tasks'
    BY <1>1, <1>6, Zenon
  <2> QED  BY <2>1, StageStays, Zenon
<1>7. \A k \in Keys : SlotStage(k)' = IF k \in {t.run} THEN PhaseStage[phase] ELSE SlotStage(k)
  BY <1>5, <1>6, Zenon
<1> QED  BY <1>3, <1>4, <1>7, GoStep, MappedStage, Zenon

\* The call of a handler is within the budget of its slot.
LEMMA CallContract ==
    ASSUME IInv, IInv', NEW t \in tasks, LookupAuthority(t)
    PROVE  t.run \in Keys /\ Contract!Call(t.run)
<1> DEFINE until == now + Smaller(Lease, Larger(t.deadline - now, 0))
<1>1. /\ t.phase = "spawned" /\ Move(t, "running", until)
      /\ starts' = [starts EXCEPT ![t.run] = starts[t.run] + 1]
      /\ UNCHANGED <<runs, lost, fired>>
  BY ZenonT(60) DEF LookupAuthority
<1> HIDE DEF until
<1>2. /\ t.run \in Keys /\ SlotStages[t.run] = PhaseStage[t.phase]
      /\ Contract!Go({t.run}, PhaseStage["running"])
  BY <1>1, MoveContract
<1>3. PhaseStage["running"] = "called" /\ PhaseStage["spawned"] = "offered"
  BY DEF PhaseStage
<1>4. starts[t.run] < MaxRetries + 1
  <2>1. /\ t.run \in DOMAIN runs /\ runs[t.run].attempt = t.attempt
        /\ runs[t.run].attempt <= MaxRetries + 1 /\ starts[t.run] < t.attempt
    BY <1>1, ZenonT(60) DEF IInv, TaskOwnsClaim, Budget
  <2>2. starts[t.run] \in Nat /\ t.attempt \in Nat
    BY <1>2 DEF IInv, TypeOK, Task
  <2> QED  BY <2>1, <2>2, CronAssumption
<1> QED  BY <1>1, <1>2, <1>3, <1>4, Zenon DEF Contract!Call

\* An answer, a failed lookup and a time-out end a delivery.
LEMMA AnswerContract ==
    ASSUME IInv, IInv', NEW t \in tasks,
           \/ LookupFails(t)
           \/ DeliveryTimeout(t)
           \/ \E outcome \in {"ok", "exception", "noRetry", "unknown"} :
                 HandlerEnds(t, outcome)
    PROVE  t.run \in Keys /\ Contract!Answer(t.run)
<1>1. PICK phase : /\ Move(t, phase, t.until)
                   /\ \/ t.phase = "spawned" /\ phase = "unknown"
                      \/ /\ t.phase = "running"
                         /\ phase \in {"ok", "exception", "noRetry", "unknown"}
  BY Zenon DEF LookupFails, DeliveryTimeout, HandlerEnds
<1>2. UNCHANGED <<runs, lost, fired, starts>>
  BY Zenon DEF LookupFails, DeliveryTimeout, HandlerEnds, historyVars
<1>3. /\ t.run \in Keys /\ SlotStages[t.run] = PhaseStage[t.phase]
      /\ Contract!Go({t.run}, PhaseStage[phase])
  BY <1>1, <1>2, MoveContract, ZenonT(60)
<1>4. \/ PhaseStage[t.phase] = "offered" /\ PhaseStage[phase] = "open"
      \/ PhaseStage[t.phase] = "called" /\ PhaseStage[phase] \in {"final", "open"}
  BY <1>1 DEF PhaseStage
<1> QED  BY <1>2, <1>3, <1>4, Zenon DEF Contract!Answer

\* A result that is written ends the slot, unless it leaves it open.
LEMMA SettleContract ==
    ASSUME IInv, IInv', NEW t \in tasks, CompleteCronRun(t) \/ MarkCronUnknown(t)
    PROVE  t.run \in Keys /\ Contract!Settle(t.run)
<1>1. /\ t.run \in DOMAIN runs /\ DOMAIN runs' = DOMAIN runs
      /\ \A j \in DOMAIN runs \ {t.run} : runs'[j] = runs[j]
      /\ runs'[t.run].state \in {"ready"} \cup Terminal
      /\ runs'[t.run].deadline = runs[t.run].deadline
      /\ PhaseStage[t.phase] \in {"final", "open"}
      /\ PhaseStage[t.phase] = "final" => runs'[t.run].state \in Terminal
  BY ResultStep, Zenon
<1>2. tasks' = tasks \ {t} /\ UNCHANGED <<lost, fired, starts>>
  BY Zenon DEF CompleteCronRun, MarkCronUnknown, historyVars
<1>3. StageFacts /\ StageFacts' /\ t.run \in Keys
  BY Stages, StagesNext, ZenonT(60) DEF IInv, TypeOK, Task
<1>4. SlotStages[t.run] = PhaseStage[t.phase]
  BY <1>3, MappedStage, ZenonT(60) DEF StageFacts
<1>5. runs[t.run].deadline # Undispatched
  BY DEF IInv, TaskOwnsClaim, TypeOK, Task, Undispatched
<1>6. ASSUME NEW k \in Keys, k # t.run PROVE SlotStage(k)' = SlotStage(k)
  <2>1. \A u \in tasks : u.run = k => u \in tasks'
    BY <1>2, <1>6, Zenon
  <2> QED  BY <1>1, <1>2, <1>6, <2>1, StageStays, Zenon
<1>7. CASE runs'[t.run].state \in Terminal
  <2>1. SlotStage(t.run)' = "ended"
    BY <1>1, <1>3, <1>7 DEF StageFacts
  <2>2. Contract!Go({t.run}, "ended")
    <3>1. \A k \in Keys : SlotStage(k)' = IF k \in {t.run} THEN "ended" ELSE SlotStage(k)
      BY <1>6, <2>1, Zenon
    <3> QED  BY <3>1, GoStep, Zenon
  <2> QED  BY <1>1, <1>2, <1>3, <1>4, <2>2, ZenonT(60) DEF Contract!Settle
<1>8. CASE runs'[t.run].state = "ready"
  <2>1. SlotStage(t.run)' = "retrying"
    BY <1>1, <1>3, <1>5, <1>8 DEF StageFacts
  <2>2. Contract!Go({t.run}, "retrying")
    <3>1. \A k \in Keys : SlotStage(k)' = IF k \in {t.run} THEN "retrying" ELSE SlotStage(k)
      BY <1>6, <2>1, Zenon
    <3> QED  BY <3>1, GoStep, Zenon
  <2>3. PhaseStage[t.phase] = "open"
    <3>1. runs'[t.run].state \notin Terminal
      BY <1>8, Zenon DEF Terminal
    <3> QED  BY <1>1, <3>1, Zenon
  <2> QED  BY <1>2, <1>3, <1>4, <2>2, <2>3, ZenonT(60) DEF Contract!Settle
<1> QED  BY <1>1, <1>7, <1>8, Zenon

\* A result that is not written leaves its slot to the next start.
LEMMA LoseContract ==
    ASSUME IInv, IInv', NEW t \in tasks, ResultNotWritten(t)
    PROVE  t.run \in Keys /\ Contract!Lose(t.run)
<1>1. /\ tasks' = tasks \ {t} /\ lost' = lost \cup {t.run}
      /\ t.phase \notin {"spawned", "running"}
      /\ UNCHANGED <<runs, fired, starts>>
  BY Zenon DEF ResultNotWritten, historyVars
<1>2. StageFacts /\ StageFacts' /\ t.run \in Keys /\ t \in Task
  BY Stages, StagesNext, Zenon DEF IInv, TypeOK, Task
<1>3. SlotStages[t.run] = PhaseStage[t.phase]
  BY <1>2, MappedStage, ZenonT(60) DEF StageFacts
<1>4. PhaseStage[t.phase] \in {"final", "open"}
  BY <1>1, <1>2 DEF PhaseStage, Task
<1>5. SlotStage(t.run)' = "unrecorded"
  BY <1>1, <1>2 DEF StageFacts
<1>6. ASSUME NEW k \in Keys, k # t.run PROVE SlotStage(k)' = SlotStage(k)
  <2>1. \A u \in tasks : u.run = k => u \in tasks'
    BY <1>1, <1>6, Zenon
  <2> QED  BY <1>1, <1>6, <2>1, StageStays, Zenon
<1>7. Contract!Go({t.run}, "unrecorded")
  <2>1. \A k \in Keys : SlotStage(k)' = IF k \in {t.run} THEN "unrecorded" ELSE SlotStage(k)
    BY <1>5, <1>6, Zenon
  <2> QED  BY <2>1, GoStep, Zenon
<1> QED  BY <1>1, <1>2, <1>3, <1>4, <1>7, Zenon DEF Contract!Lose

\* A restart retries or gives up the slots in delivery and leaves the others.
LEMMA RecoverContract ==
    ASSUME IInv, IInv', Dated, NEW t \in 0..MaxTime, Restart(t)
    PROVE  \E E \in SUBSET {k \in Keys : SlotStages[k] \in Contract!InDelivery} :
              Contract!Recover(E)
<1> DEFINE E == {k \in Keys : /\ SlotStages[k] \in Contract!InDelivery
                             /\ SlotStage(k)' = "ended"}
<1>1. /\ DOMAIN runs' = DOMAIN runs
      /\ \A k \in DOMAIN runs :
            IF runs[k].state = "claimed"
            THEN /\ runs'[k].state \in {"ready"} \cup Terminal
                 /\ runs'[k].deadline = runs[k].deadline
            ELSE runs'[k] = runs[k]
  BY RestartStep, Zenon
<1>2. UNCHANGED <<fired, starts>>
  BY Zenon DEF Restart, historyVars
<1>3. StageFacts /\ StageFacts'
  BY Stages, StagesNext, Zenon
<1>4. ASSUME NEW k \in DOMAIN runs, runs[k].state = "claimed"
      PROVE  /\ SlotStages[k] \in Contract!InDelivery
             /\ SlotStage(k)' \in {"retrying", "ended"}
  <2>1. k \in Keys /\ (k \in lost \/ \E u \in tasks : u.run = k)
    BY <1>4, Zenon DEF IInv, TypeOK, TaskOwnsClaim
  <2>2. ASSUME k \in lost PROVE SlotStages[k] \in Contract!InDelivery
    <3>1. SlotStages[k] = "unrecorded"
      BY <1>3, <2>1, <2>2, MappedStage, Zenon DEF StageFacts
    <3> QED  BY <3>1, Zenon DEF Contract!InDelivery
  <2>3. ASSUME NEW u \in tasks, u.run = k PROVE SlotStages[k] \in Contract!InDelivery
    <3>1. SlotStages[k] = PhaseStage[u.phase] /\ u \in Task
      BY <1>3, <2>1, <2>3, MappedStage, ZenonT(60) DEF StageFacts, IInv, TypeOK
    <3>2. PhaseStage[u.phase] \in {"offered", "called", "final", "open"}
      BY <3>1 DEF PhaseStage, Task
    <3> QED  BY <3>1, <3>2, Zenon DEF Contract!InDelivery
  <2>4. /\ k \in DOMAIN runs' /\ runs'[k].state \in {"ready"} \cup Terminal
        /\ runs'[k].deadline # Undispatched
    BY <1>1, <1>4, ZenonT(60) DEF Dated
  <2>5. SlotStage(k)' \in {"retrying", "ended"}
    BY <1>3, <2>1, <2>4 DEF StageFacts
  <2> QED  BY <2>1, <2>2, <2>3, <2>5, ZenonT(60)
<1>5. ASSUME NEW k \in Keys, k \in DOMAIN runs => runs[k].state # "claimed"
      PROVE  /\ SlotStages[k] \notin Contract!InDelivery
             /\ SlotStage(k)' = SlotStages[k]
  <2>1. k \notin lost /\ \A u \in tasks : u.run # k
    BY <1>5, ZenonT(60) DEF IInv, TaskOwnsClaim
  <2>2. SlotStage(k)' = SlotStage(k)
    BY <1>1, <1>2, <1>5, <2>1, StageStays, Zenon
  <2>3. SlotStage(k) \in {"none", "waiting", "retrying", "ended"}
    BY <1>3, <1>5, RowStates DEF StageFacts
  <2> QED  BY <2>2, <2>3, MappedStage DEF Contract!InDelivery
<1>6. \A k \in Keys : SlotStage(k)' = IF k \in E THEN "ended"
                                      ELSE IF SlotStages[k] \in Contract!InDelivery
                                      THEN "retrying" ELSE SlotStages[k]
  <2> TAKE k \in Keys
  <2>1. CASE k \in DOMAIN runs /\ runs[k].state = "claimed"
    BY <1>4, <2>1, Zenon
  <2>2. CASE k \in DOMAIN runs => runs[k].state # "claimed"
    BY <1>5, <2>2, Zenon
  <2> QED  BY <2>1, <2>2, Zenon
<1>7. E \in SUBSET {k \in Keys : SlotStages[k] \in Contract!InDelivery}
  BY Zenon
<1> HIDE DEF E
<1>8. SlotStages' = [k \in Keys |-> SlotStage(k)']
  BY Zenon DEF SlotStages
<1>9. SlotStages' = [k \in Keys |-> IF k \in E THEN "ended"
                                   ELSE IF SlotStages[k] \in Contract!InDelivery
                                   THEN "retrying" ELSE SlotStages[k]]
  BY <1>6, <1>8, Zenon
<1>10. Contract!Recover(E)
  BY <1>2, <1>9, Zenon DEF Contract!Recover
<1> QED  BY <1>7, <1>10, Zenon

LEMMA ContractInit == Init => Contract!Init
<1> SUFFICES ASSUME Init PROVE Contract!Init
  OBVIOUS
<1>1. fired = {} /\ starts = [k \in Keys |-> 0]
  BY Zenon DEF Init
<1>2. \A k \in Keys : SlotStage(k) = "none"
  BY InitInv, Stages, <1>1, Zenon DEF StageFacts
<1>3. SlotStages = [k \in Keys |-> "none"]
  BY <1>2, Zenon DEF SlotStages
<1> QED  BY <1>1, <1>3, Zenon DEF Contract!Init

\* Every step of Cron is a step of CronContract, or stutters.
LEMMA ContractStep ==
    IInv /\ IInv' /\ Dated /\ [Next]_vars => [Contract!Next]_(Contract!vars)
<1> SUFFICES ASSUME IInv, IInv', Dated, [Next]_vars
             PROVE  Contract!Next \/ UNCHANGED <<SlotStages, starts>>
  BY Zenon DEF Contract!vars
<1>1. CASE UNCHANGED <<runs, tasks, lost, fired, starts>>
  BY <1>1, QuietStage, Zenon
<1>2. CASE ProjectDueCronSlots
  BY <1>2, ProjectContract, Zenon DEF Contract!Next
<1>3. CASE GcCronHistory
  BY <1>3, GcContract, Zenon
<1>4. CASE ClaimCronRuns
  BY <1>4, OfferContract, Zenon DEF Contract!Next
<1>5. ASSUME NEW t \in tasks, LookupAuthority(t) PROVE Contract!Next
  BY <1>5, CallContract, Zenon DEF Contract!Next
<1>6. ASSUME NEW t \in tasks,
             \/ LookupFails(t)
             \/ DeliveryTimeout(t)
             \/ \E outcome \in {"ok", "exception", "noRetry", "unknown"} :
                   HandlerEnds(t, outcome)
      PROVE  Contract!Next
  BY <1>6, AnswerContract, Zenon DEF Contract!Next
<1>7. ASSUME NEW t \in tasks, CompleteCronRun(t) \/ MarkCronUnknown(t)
      PROVE  Contract!Next
  BY <1>7, SettleContract, Zenon DEF Contract!Next
<1>8. ASSUME NEW t \in tasks, ResultNotWritten(t) PROVE Contract!Next
  BY <1>8, LoseContract, Zenon DEF Contract!Next
<1>9. ASSUME NEW t \in 0..MaxTime, Restart(t) PROVE Contract!Next
  BY <1>9, RecoverContract, Zenon DEF Contract!Next
<1> QED
  BY <1>1, <1>2, <1>3, <1>4, <1>5, <1>6, <1>7, <1>8, <1>9, ZenonT(60)
     DEF Next, vars, PollStep, TaskStep, Deploy, Quarantine, DeleteWorker, BeginVersionDelete,
         FinalizeVersionDelete, StartPoll, PollFails, Tick, historyVars

\* Cron implements CronContract: a slot fires once, is offered before it is
\* given up, is called within its budget and once per offer, and neither a
\* recorded result nor an end is undone.
THEOREM Spec_KeepsSlotContract == Spec => KeepsSlotContract
<1>1. Init => Dated
  BY Zenon DEF Init, Dated
<1>2. Spec => []Dated
  BY <1>1, NextDated, Invariance, PTL DEF Spec
<1> QED
  BY <1>2, ContractInit, ContractStep, Invariance, PTL
     DEF Spec, KeepsSlotContract, Contract!Spec

-----------------------------------------------------------------------------
(* What the contract means for a slot that is over.                          *)

\* An ended slot stays ended and its handler is not called.
EndedStaysEnded ==
    \A k \in Keys : SlotStage(k) = "ended" =>
        SlotStage(k)' = "ended" /\ starts'[k] = starts[k]

LEMMA MappedSlot ==
    \A k \in Keys : SlotStages[k] = SlotStage(k) /\ SlotStages'[k] = SlotStage(k)'
  BY Zenon DEF SlotStages

LEMMA StepSparesEnded ==
    ASSUME IInv, [Contract!Next]_(Contract!vars)
    PROVE  EndedStaysEnded
<1> SUFFICES ASSUME NEW k \in Keys, SlotStages[k] = "ended"
             PROVE  SlotStages'[k] = "ended" /\ starts'[k] = starts[k]
  BY MappedSlot, Zenon DEF EndedStaysEnded
<1>1. CASE UNCHANGED Contract!vars
  BY <1>1, Zenon DEF Contract!vars
<1>2. CASE \E S \in SUBSET Contract!At("none") : Contract!Fire(S)
  <2> PICK S \in SUBSET Contract!At("none") : Contract!Fire(S)
    BY <1>2, Zenon
  <2>1. k \notin S
    BY DEF Contract!At
  <2> QED  BY <2>1, Zenon DEF Contract!Fire, Contract!Go
<1>3. CASE \E S \in SUBSET (Contract!At("waiting") \cup Contract!At("retrying")) :
             \E E \in SUBSET (Contract!At("retrying") \ S) : Contract!Offer(S, E)
  <2>0. \A S : \A E \in SUBSET (Contract!At("retrying") \ S) : E \in SUBSET Keys
    BY Zenon DEF Contract!At
  <2> PICK S \in SUBSET (Contract!At("waiting") \cup Contract!At("retrying")),
           E \in SUBSET Keys : Contract!Offer(S, E)
    BY <1>3, <2>0, Zenon
  <2>1. k \notin S
    BY DEF Contract!At
  <2> QED  BY <2>1, Zenon DEF Contract!Offer
<1>4. CASE \E j \in Keys : \/ Contract!Call(j) \/ Contract!Answer(j)
                           \/ Contract!Settle(j) \/ Contract!Lose(j)
  <2> PICK j \in Keys : \/ Contract!Call(j) \/ Contract!Answer(j)
                        \/ Contract!Settle(j) \/ Contract!Lose(j)
    BY <1>4, Zenon
  <2>1. j # k
    BY DEF Contract!Call, Contract!Answer, Contract!Settle, Contract!Lose
  <2>2. \E s : Contract!Go({j}, s)
    BY Zenon DEF Contract!Call, Contract!Answer, Contract!Settle, Contract!Lose
  <2>3. SlotStages'[k] = SlotStages[k]
    BY <2>1, <2>2, Zenon DEF Contract!Go
  <2>4. starts \in [Keys -> Nat]
    BY Zenon DEF IInv, TypeOK
  <2>5. starts' = starts \/ starts' = [starts EXCEPT ![j] = @ + 1]
    BY Zenon DEF Contract!Call, Contract!Answer, Contract!Settle, Contract!Lose
  <2>6. starts'[k] = starts[k]
    BY <2>1, <2>4, <2>5
  <2> QED  BY <2>3, <2>6, Zenon
<1>5. CASE \E E : Contract!Recover(E)
  BY <1>5 DEF Contract!Recover, Contract!InDelivery
<1> QED  BY <1>1, <1>2, <1>3, <1>4, <1>5, ZenonT(60) DEF Contract!Next

\* A slot whose run is terminal, or was collected after it was, is over: no
\* promotion, claim pass, late answer or restart offers it or calls its handler
\* again.
THEOREM Spec_EndedStaysEnded == Spec => [][EndedStaysEnded]_vars
<1>1. IInv /\ [Contract!Next]_(Contract!vars) => EndedStaysEnded
  BY StepSparesEnded, Zenon
<1> QED
  BY <1>1, Invariance, Spec_KeepsSlotContract, PTL DEF KeepsSlotContract, Contract!Spec

=============================================================================
