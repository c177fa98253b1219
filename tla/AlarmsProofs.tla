---------------------------- MODULE AlarmsProofs ----------------------------
(***************************************************************************)
(* The safety properties of Alarms, for any number of deliveries, calls,   *)
(* alarms, retries and faults: the handler's end, the repair scan and the  *)
(* faults keep the invariant, and it implies the properties.  Then: Alarms *)
(* implements AlarmContract, step by step.                                 *)
(***************************************************************************)
EXTENDS AlarmsStepProofs

USE SMTT(60)

\* Nobody holds the row that is there, so the alarm is over.
LEMMA HandlerSucceedsInv ==
    ASSUME IInv, NEW s \in Slots, HandlerSucceeds(s)
    PROVE  IInv'
<1> USE CallerAssumption, BoundAssumption
    DEF IInv, Callers, HandlerSucceeds, ExactDelete, Reply, NoRow, Owns
<1>1. TypeOK'
  <2>1. row' \in Row
    BY DEF TypeOK, Row
  <2>2. runs' \in [Slots -> Run]
    BY DEF TypeOK, Run
  <2>3. done' \subseteq Tokens
    <3>1. runs[s].token # 0
      BY Zenon DEF Named
    <3>2. row.token = runs[s].token => row.token \in Tokens
      BY <3>1, Counted, Zenon DEF TypeOK, Row
    <3> QED  BY <3>2, Zenon DEF TypeOK
  <2> QED  BY <2>1, <2>2, <2>3, Zenon DEF TypeOK
<1>2. ClaimHasTask'
  BY Zenon DEF ClaimHasTask
<1>3. Drawn'
  <2>1. row.token = runs[s].token => row.token \in 1 .. issued
    BY DEF TypeOK, Row, Named, Drawn
  <2>2. row'.token <= issued
    BY DEF TypeOK, Drawn
  <2>3. \A t \in Slots : runs'[t].token <= issued
    BY Zenon DEF TypeOK, Drawn
  <2> QED  BY <2>1, <2>2, <2>3, Zenon DEF Drawn
<1>4. RetriesPaid'
  <2>1. \A t \in Slots : Paid(runs[t].token, runs[t].retry)'
    <3>1. runs[s].token # 0 => failures[runs[s].token] \in Nat
      BY Counted DEF TypeOK, Run
    <3> QED  BY <3>1 DEF TypeOK, RetriesPaid, Paid
  <2> QED  BY <2>1, Zenon DEF RetriesPaid, Paid
<1>5. HeldRows'
  BY Zenon DEF TypeOK, HeldRows, Holds
<1>6. OverIsOver'
  <2>1. \A k : Over(k) => Over(k)'
    BY Zenon DEF Over, Holds
  <2>2. \A k : k = row.token /\ k = runs[s].token => Over(k)'
    BY Zenon DEF Over, Holds, HeldRows, Named
  <2>3. (\A k \in done : Over(k))'
    BY <2>1, <2>2, Zenon DEF OverIsOver
  <2>4. \A k : GivenUp(k) => GivenUp(k)'
    BY <2>1, Zenon DEF GivenUp
  <2>5. (\A t \in Slots : runs[t].phase = "exhausted" => GivenUp(runs[t].token))'
    BY <2>4, Zenon DEF TypeOK, OverIsOver
  <2> QED  BY <2>3, <2>4, <2>5, Zenon DEF OverIsOver
<1>7. Named'
  BY Zenon DEF TypeOK, Named
<1>8. Linked'
  BY Zenon DEF TypeOK, Linked
<1> QED  BY <1>1, <1>2, <1>3, <1>4, <1>5, <1>6, <1>7, <1>8, Zenon

\* A stale run changes no row.
LEMMA HandlerThrowsStaleInv ==
    ASSUME IInv, NEW s \in Slots, HandlerThrowsStale(s)
    PROVE  IInv'
<1> USE CallerAssumption, BoundAssumption
    DEF IInv, Callers, HandlerThrowsStale, Reply, Owns
<1>1. TypeOK'
  <2>1. runs' \in [Slots -> Run]
    BY DEF TypeOK, Run
  <2> QED  BY <2>1, Zenon DEF TypeOK
<1>2. ClaimHasTask'
  BY Zenon DEF ClaimHasTask
<1>3. Drawn'
  BY Zenon DEF TypeOK, Drawn
<1>4. RetriesPaid'
  <2>1. \A t \in Slots : Paid(runs[t].token, runs[t].retry)'
    <3>1. runs[s].token # 0 => failures[runs[s].token] \in Nat
      BY Counted DEF TypeOK, Run
    <3> QED  BY <3>1 DEF TypeOK, RetriesPaid, Paid
  <2> QED  BY <2>1, Zenon DEF RetriesPaid, Paid
<1>5. HeldRows'
  BY Zenon DEF TypeOK, HeldRows, Holds
<1>6. OverIsOver'
  BY Zenon DEF TypeOK, OverIsOver, GivenUp, Over, Holds
<1>7. Named'
  BY Zenon DEF TypeOK, Named
<1>8. Linked'
  BY Zenon DEF TypeOK, Linked
<1> QED  BY <1>1, <1>2, <1>3, <1>4, <1>5, <1>6, <1>7, <1>8, Zenon

\* The last failure comes on top of MaxRetry paid ones.
LEMMA HandlerExhaustsInv ==
    ASSUME IInv, NEW s \in Slots, HandlerExhausts(s)
    PROVE  IInv'
<1> USE CallerAssumption, BoundAssumption
    DEF IInv, Callers, HandlerExhausts, Failed, Reply, NoRow, Owns
<1>1. TypeOK'
  <2>1. row' \in Row
    BY DEF TypeOK, Row
  <2>2. runs' \in [Slots -> Run]
    BY DEF TypeOK, Run
  <2>3. failures' \in [Tokens -> 0 .. MaxFailures]
    <3>1. row.token # 0 /\ row.token \in 0 .. MaxTokens
      BY Zenon DEF Named, TypeOK, Row
    <3>2. row.token \in Tokens /\ failures[row.token] + 1 \in 0 .. MaxFailures
      BY <3>1, Counted
    <3> QED  BY <3>2, Zenon DEF TypeOK
  <2> QED  BY <2>1, <2>2, <2>3, Zenon DEF TypeOK
<1>2. ClaimHasTask'
  BY Zenon DEF ClaimHasTask
<1>3. Drawn'
  BY DEF TypeOK, Drawn
<1>4. RetriesPaid'
  <2>1. row.token \in Tokens /\ failures[row.token] \in Nat
    BY Counted DEF TypeOK, Row, Named
  <2>2. failures'[row.token] = failures[row.token] + 1
    BY <2>1, StillPaid, Zenon
  <2>3. \A k \in 0 .. MaxTokens, n \in 0 .. MaxRetry : Paid(k, n) => Paid(k, n)'
    BY <2>1, StillPaid, Zenon
  <2>4. Paid(row.token, row.retry)'
    BY Zenon DEF Paid
  <2>5. Paid(job.alarm.token, job.alarm.retry)' /\ Paid(probe.alarm.token, probe.alarm.retry)'
    BY <2>3, Zenon DEF TypeOK, Job, Probe, Alarm, RetriesPaid
  <2>6. \A t \in Slots : Paid(tasks[t].token, tasks[t].retry)'
    BY <2>3, Zenon DEF TypeOK, Task, RetriesPaid
  <2>7. \A t \in Slots : Paid(runs[t].token, runs[t].retry)'
    <3>1. ASSUME NEW t \in Slots, t # s
          PROVE  Paid(runs[t].token, runs[t].retry)'
      BY <2>3, <3>1, Zenon DEF TypeOK, Run, RetriesPaid
    <3>2. Paid(runs[s].token, runs[s].retry)'
      BY <2>1, <2>2 DEF TypeOK, Paid
    <3> QED  BY <3>1, <3>2, Zenon
  <2>8. \A c \in Callers : Paid(calls[c].saved.token, calls[c].saved.retry)'
    BY <2>3, Zenon DEF TypeOK, Call, Row, RetriesPaid
  <2> QED  BY <2>4, <2>5, <2>6, <2>7, <2>8, Zenon DEF RetriesPaid
<1>5. HeldRows'
  BY Zenon DEF TypeOK, HeldRows, Holds
<1>6. OverIsOver'
  <2>1. row.token \in Tokens /\ failures[row.token] \in Nat
    BY Counted DEF TypeOK, Row, Named
  <2>2. failures'[row.token] > MaxRetry
    <3>1. failures'[row.token] = failures[row.token] + 1
      BY <2>1, Zenon DEF TypeOK
    <3>2. runs[s].retry \in Nat /\ runs[s].retry <= failures[row.token]
      <4>1. Paid(runs[s].token, runs[s].retry) /\ runs[s].token # 0
        BY Zenon DEF RetriesPaid, Named
      <4> QED  BY <4>1 DEF TypeOK, Run, Paid
    <3> QED  BY <2>1, <3>1, <3>2
  <2>3. \A k : Over(k) => Over(k)'
    BY Zenon DEF Over, Holds
  <2>4. \A k : GivenUp(k) /\ k # row.token => failures'[k] = failures[k]
    BY DEF TypeOK
  <2>5. \A k : GivenUp(k) => GivenUp(k)'
    BY <2>3, <2>4, Zenon DEF GivenUp, Over
  <2>6. GivenUp(runs[s].token)'
    BY <2>1, <2>2 DEF TypeOK, GivenUp, Over, Holds, HeldRows, Tokens
  <2>7. (\A t \in Slots : runs[t].phase = "exhausted" => GivenUp(runs[t].token))'
    BY <2>5, <2>6, Zenon DEF TypeOK, OverIsOver
  <2>8. (\A k \in done : Over(k))'
    BY <2>3, Zenon DEF OverIsOver
  <2> QED  BY <2>5, <2>7, <2>8, Zenon DEF OverIsOver
<1>7. Named'
  BY Zenon DEF TypeOK, Named
<1>8. Linked'
  BY Zenon DEF TypeOK, Linked
<1> QED  BY <1>1, <1>2, <1>3, <1>4, <1>5, <1>6, <1>7, <1>8, Zenon

\* The new count is paid by this failure.
LEMMA HandlerRetriesInv ==
    ASSUME IInv, NEW s \in Slots, HandlerRetries(s)
    PROVE  IInv'
<1> USE CallerAssumption, BoundAssumption
    DEF IInv, Callers, HandlerRetries, Failed, Reply, Post, Owns
<1>1. TypeOK'
  <2>1. row' \in Row
    BY DEF TypeOK, Row, Run
  <2>2. runs' \in [Slots -> Run]
    BY DEF TypeOK, Run
  <2>3. calls' \in [Callers -> Call]
    BY DEF TypeOK, Call, Row, Run
  <2>4. failures' \in [Tokens -> 0 .. MaxFailures]
    <3>1. row.token # 0 /\ row.token \in 0 .. MaxTokens
      BY Zenon DEF Named, TypeOK, Row
    <3>2. row.token \in Tokens /\ failures[row.token] + 1 \in 0 .. MaxFailures
      BY <3>1, Counted
    <3> QED  BY <3>2, Zenon DEF TypeOK
  <2> QED  BY <2>1, <2>2, <2>3, <2>4, Zenon DEF TypeOK
<1>2. ClaimHasTask'
  BY Zenon DEF ClaimHasTask
<1>3. Drawn'
  BY Zenon DEF TypeOK, Drawn
<1>4. RetriesPaid'
  <2>1. row.token \in Tokens /\ failures[row.token] \in Nat
    BY Counted DEF TypeOK, Row, Named
  <2>2. failures'[row.token] = failures[row.token] + 1
    BY <2>1, StillPaid, Zenon
  <2>3. \A k \in 0 .. MaxTokens, n \in 0 .. MaxRetry : Paid(k, n) => Paid(k, n)'
    BY <2>1, StillPaid, Zenon
  <2>4. runs[s].retry + 1 <= failures'[row.token]
    <3>1. Paid(runs[s].token, runs[s].retry) /\ runs[s].token # 0
      BY Zenon DEF RetriesPaid, Named
    <3> QED  BY <2>1, <2>2, <3>1 DEF TypeOK, Run, Paid
  <2>5. Paid(row.token, row.retry)'
    BY <2>4, Zenon DEF Paid
  <2>6. Paid(job.alarm.token, job.alarm.retry)' /\ Paid(probe.alarm.token, probe.alarm.retry)'
    BY <2>3, Zenon DEF TypeOK, Job, Probe, Alarm, RetriesPaid
  <2>7. \A t \in Slots : Paid(tasks[t].token, tasks[t].retry)'
    BY <2>3, Zenon DEF TypeOK, Task, RetriesPaid
  <2>8. \A t \in Slots : Paid(runs[t].token, runs[t].retry)'
    <3>1. ASSUME NEW t \in Slots, t # s
          PROVE  Paid(runs[t].token, runs[t].retry)'
      BY <2>3, <3>1, Zenon DEF TypeOK, Run, RetriesPaid
    <3>2. Paid(runs[s].token, runs[s].retry)'
      BY <2>1, <2>4, Zenon DEF TypeOK, Paid
    <3> QED  BY <3>1, <3>2, Zenon
  <2>9. \A c \in Callers : Paid(calls[c].saved.token, calls[c].saved.retry)'
    <3>1. ASSUME NEW c \in Callers, c # s
          PROVE  Paid(calls[c].saved.token, calls[c].saved.retry)'
      BY <2>3, <3>1, Zenon DEF TypeOK, Call, Row, RetriesPaid
    <3>2. Paid(calls[s].saved.token, calls[s].saved.retry)'
      BY <2>4, Zenon DEF TypeOK, Paid
    <3> QED  BY <3>1, <3>2, Zenon
  <2> QED  BY <2>5, <2>6, <2>7, <2>8, <2>9, Zenon DEF RetriesPaid
<1>5. HeldRows'
  BY ZenonT(60) DEF TypeOK, HeldRows, Holds
<1>6. OverIsOver'
  BY DEF TypeOK, OverIsOver, GivenUp, Over, Holds
<1>7. Named'
  BY ZenonT(60) DEF TypeOK, Named
<1>8. Linked'
  BY ZenonT(60) DEF TypeOK, Linked
<1> QED  BY <1>1, <1>2, <1>3, <1>4, <1>5, <1>6, <1>7, <1>8, Zenon

\* The scan reads a copy of the row.
LEMMA ProbeObjectInv ==
    ASSUME IInv, ProbeObject
    PROVE  IInv'
<1> USE CallerAssumption, BoundAssumption
    DEF IInv, Callers, ProbeObject, Projected, Owns
<1>1. TypeOK'
  <2>1. probe' \in Probe
    BY Zenon DEF TypeOK, Alarm, Probe, Row
  <2> QED  BY <2>1, Zenon DEF TypeOK
<1>2. ClaimHasTask'
  BY Zenon DEF ClaimHasTask
<1>3. Drawn'
  BY Zenon DEF TypeOK, Drawn
<1>4. RetriesPaid'
  BY Zenon DEF TypeOK, RetriesPaid, Paid
<1>5. HeldRows'
  BY Zenon DEF TypeOK, HeldRows, Holds
<1>6. OverIsOver'
  BY Zenon DEF TypeOK, OverIsOver, GivenUp, Over, Holds
<1>7. Named'
  BY Zenon DEF TypeOK, Named
<1>8. Linked'
  BY Zenon DEF TypeOK, Linked
<1> QED  BY <1>1, <1>2, <1>3, <1>4, <1>5, <1>6, <1>7, <1>8, Zenon

\* The scan's write leaves no claim behind.
LEMMA ApplyRepairInv ==
    ASSUME IInv, ApplyRepair
    PROVE  IInv'
<1> USE CallerAssumption, BoundAssumption
    DEF IInv, Callers, ApplyRepair, UpsertAlarm, DropJob, NoJob, NoAlarm, Owns
<1>1. TypeOK'
  <2>1. job' \in Job
    BY DEF TypeOK, Alarm, Job, Probe
  <2>2. tasks' \in [Slots -> Task]
    BY DropType, Zenon DEF TypeOK
  <2>3. probe' \in Probe
    BY DEF TypeOK, Alarm, Probe, Row
  <2> QED  BY <2>1, <2>2, <2>3, Zenon DEF TypeOK
<1>2. ClaimHasTask'
  BY DEF ClaimHasTask
<1>3. Drawn'
  BY DEF TypeOK, Drawn
<1>4. RetriesPaid'
  BY DEF TypeOK, RetriesPaid, Paid
<1>5. HeldRows'
  BY Zenon DEF TypeOK, HeldRows, Holds
<1>6. OverIsOver'
  BY DEF TypeOK, OverIsOver, GivenUp, Over, Holds
<1>7. Named'
  BY DEF TypeOK, Named
<1>8. Linked'
  BY DEF TypeOK, Linked
<1> QED  BY <1>1, <1>2, <1>3, <1>4, <1>5, <1>6, <1>7, <1>8, Zenon

\* Requests live on without their callers; claims keep their tasks.
LEMMA HostStopsInv ==
    ASSUME IInv, HostStops
    PROVE  IInv'
<1> USE CallerAssumption, BoundAssumption
    DEF IInv, Callers, HostStops, Fault, Abandoned, NoCall, NoRow, NoRun, Owns
<1>1. TypeOK'
  <2>1. host' \in {"down", "activating", "up"}
    BY Zenon DEF TypeOK
  <2>2. runs' \in [Slots -> Run]
    BY DEF TypeOK, Run
  <2>3. tasks' \in [Slots -> Task]
    BY Zenon DEF TypeOK, Task
  <2>4. calls' \in [Callers -> Call]
    <3>1. \A c \in Callers : Abandoned(c) \in Call
      BY Zenon DEF TypeOK, Call
    <3> QED  BY <3>1, NoCallType, Zenon
  <2>5. faults' \in 0 .. MaxFaults
    BY DEF TypeOK
  <2> QED  BY <2>1, <2>2, <2>3, <2>4, <2>5, Zenon DEF TypeOK
<1>2. ClaimHasTask'
  BY Zenon DEF ClaimHasTask
<1>3. Drawn'
  BY DEF TypeOK, Drawn
<1>4. RetriesPaid'
  <2>1. \A t \in Slots : Paid(tasks[t].token, tasks[t].retry)'
    BY Zenon DEF TypeOK, RetriesPaid, Paid
  <2>2. \A t \in Slots : Paid(runs[t].token, runs[t].retry)'
    BY Zenon DEF Paid
  <2>3. \A d \in Callers : Paid(calls[d].saved.token, calls[d].saved.retry)'
    BY Zenon DEF RetriesPaid, Paid
  <2>4. (/\ Paid(row.token, row.retry)
         /\ Paid(job.alarm.token, job.alarm.retry)
         /\ Paid(probe.alarm.token, probe.alarm.retry))'
    BY Zenon DEF RetriesPaid, Paid
  <2> QED  BY <2>1, <2>2, <2>3, <2>4, Zenon DEF RetriesPaid
<1>5. HeldRows'
  BY Zenon DEF TypeOK, HeldRows, Holds
<1>6. OverIsOver'
  <2>1. \A k : Over(k) => Over(k)'
    <3>1. \A c \in Callers : calls'[c].kind # "delete"
      OBVIOUS
    <3>2. row' = row
      OBVIOUS
    <3> QED  BY <3>1, <3>2, Zenon DEF Over, Holds
  <2>2. \A k : GivenUp(k) => GivenUp(k)'
    BY <2>1, Zenon DEF GivenUp
  <2>3. (\A t \in Slots : runs[t].phase = "exhausted" => GivenUp(runs[t].token))'
    OBVIOUS
  <2> QED  BY <2>1, <2>2, <2>3, Zenon DEF OverIsOver
<1>7. Named'
  BY Zenon DEF TypeOK, Named
<1>8. Linked'
  BY Zenon DEF TypeOK, Linked
<1> QED  BY <1>1, <1>2, <1>3, <1>4, <1>5, <1>6, <1>7, <1>8, Zenon

\* No call, task or claim survives.
LEMMA RestartInv ==
    ASSUME IInv, Restart
    PROVE  IInv'
<1> USE CallerAssumption, BoundAssumption
    DEF IInv, Callers, Restart, Fault, NoTask, NoRun, NoCall, NoRow, NoAlarm,
      Owns
<1>1. TypeOK'
  <2>1. job' \in Job
    BY Zenon DEF TypeOK, Alarm, Job
  <2>2. tasks' \in [Slots -> Task]
    BY DEF TypeOK, Task
  <2>3. runs' \in [Slots -> Run]
    BY DEF TypeOK, Run
  <2>4. calls' \in [Callers -> Call]
    BY DEF TypeOK, Call, Row
  <2>5. probe' \in Probe
    BY DEF TypeOK, Alarm, Probe, Row
  <2>6. faults' \in 0 .. MaxFaults
    BY DEF TypeOK
  <2>7. host' \in {"down", "activating", "up"}
    BY Zenon DEF TypeOK
  <2> QED  BY <2>1, <2>2, <2>3, <2>4, <2>5, <2>6, <2>7, Zenon DEF TypeOK
<1>2. ClaimHasTask'
  BY Zenon DEF ClaimHasTask
<1>3. Drawn'
  BY DEF TypeOK, Drawn
<1>4. RetriesPaid'
  BY Zenon DEF TypeOK, RetriesPaid, Paid
<1>5. HeldRows'
  BY Zenon DEF TypeOK, HeldRows, Holds
<1>6. OverIsOver'
  BY Zenon DEF TypeOK, OverIsOver, GivenUp, Over, Holds
<1>7. Named'
  BY Zenon DEF TypeOK, Named
<1>8. Linked'
  BY Zenon DEF TypeOK, Linked
<1> QED  BY <1>1, <1>2, <1>3, <1>4, <1>5, <1>6, <1>7, <1>8, Zenon

\* Only the authority changes.
LEMMA RetireInv ==
    ASSUME IInv, Retire
    PROVE  IInv'
<1> USE CallerAssumption, BoundAssumption
    DEF IInv, Callers, Retire, Owns
<1>1. TypeOK'
  <2>1. live' \in BOOLEAN
    BY Zenon
  <2> QED  BY <2>1, Zenon DEF TypeOK
<1>2. ClaimHasTask'
  BY Zenon DEF ClaimHasTask
<1>3. Drawn'
  BY Zenon DEF TypeOK, Drawn
<1>4. RetriesPaid'
  BY Zenon DEF TypeOK, RetriesPaid, Paid
<1>5. HeldRows'
  BY Zenon DEF TypeOK, HeldRows, Holds
<1>6. OverIsOver'
  BY Zenon DEF TypeOK, OverIsOver, GivenUp, Over, Holds
<1>7. Named'
  BY Zenon DEF TypeOK, Named
<1>8. Linked'
  BY Zenon DEF TypeOK, Linked
<1> QED  BY <1>1, <1>2, <1>3, <1>4, <1>5, <1>6, <1>7, <1>8, Zenon

\* Time changes neither tokens nor counts.
LEMMA TickInv ==
    ASSUME IInv, Tick
    PROVE  IInv'
<1> USE CallerAssumption, BoundAssumption
    DEF IInv, Callers, Tick, DueRow, Due, Owns
<1>1. TypeOK'
  <2>1. row' \in Row
    BY DEF TypeOK, Row
  <2>2. job' \in Job
    BY DEF TypeOK, Alarm, Job
  <2>3. runs' \in [Slots -> Run]
    BY DEF TypeOK, Run
  <2>4. calls' \in [Callers -> Call]
    BY DEF TypeOK, Call, Row
  <2>5. probe' \in Probe
    BY DEF TypeOK, Alarm, Probe, Row
  <2> QED  BY <2>1, <2>2, <2>3, <2>4, <2>5, Zenon DEF TypeOK
<1>2. ClaimHasTask'
  BY Zenon DEF ClaimHasTask
<1>3. Drawn'
  BY Zenon DEF TypeOK, Drawn
<1>4. RetriesPaid'
  BY Zenon DEF TypeOK, RetriesPaid, Paid
<1>5. HeldRows'
  BY Zenon DEF TypeOK, HeldRows, Holds
<1>6. OverIsOver'
  BY Zenon DEF TypeOK, OverIsOver, GivenUp, Over, Holds
<1>7. Named'
  BY Zenon DEF TypeOK, Named
<1>8. Linked'
  BY Zenon DEF TypeOK, Linked
<1> QED  BY <1>1, <1>2, <1>3, <1>4, <1>5, <1>6, <1>7, <1>8, Zenon

\* Initially there is no call, no alarm and nothing runs.
LEMMA InitInv == Init => IInv
<1> SUFFICES ASSUME Init PROVE IInv
  OBVIOUS
<1>1. /\ calls \in [Callers -> Call]
      /\ host \in {"down", "activating", "up"} /\ live \in BOOLEAN /\ refused \in BOOLEAN
  BY NoCallType, Zenon DEF Init
<1> USE CallerAssumption, BoundAssumption
    DEF Init, NoAlarm, NoRow, NoJob, NoTask, NoRun, NoCall
<1>2. TypeOK
  <2>1. row \in Row /\ job \in Job /\ probe \in Probe
    BY DEF Row, Job, Probe, Alarm
  <2>2. tasks \in [Slots -> Task] /\ runs \in [Slots -> Run]
    BY DEF Task, Run
  <2>3. issued \in 0 .. MaxTokens /\ faults \in 0 .. MaxFaults
    OBVIOUS
  <2>4. failures \in [Tokens -> 0 .. MaxFailures] /\ done \subseteq Tokens
    OBVIOUS
  <2> HIDE DEF Init
  <2> QED  BY <1>1, <2>1, <2>2, <2>3, <2>4, Zenon DEF TypeOK
<1>3. ClaimHasTask /\ Drawn /\ RetriesPaid
  BY DEF ClaimHasTask, Drawn, RetriesPaid, Paid
<1>4. HeldRows /\ OverIsOver /\ Named /\ Linked
  BY Zenon DEF HeldRows, OverIsOver, Named, Linked
<1> QED  BY <1>2, <1>3, <1>4, Zenon DEF IInv

\* A step of the object's code.
LEMMA ClientInv == ASSUME IInv, NEW c \in Clients, Client(c) PROVE IInv'
  BY SetAlarmInv, DeleteAlarmInv, GetAlarmInv, DeleteAllInv, Zenon DEF Client

\* A step of a request to the index.
LEMMA IndexInv == ASSUME IInv, NEW c \in Callers, Index(c) PROVE IInv'
  BY AuthorizeCallInv, ApplyCallInv, ApplyUnansweredInv, ReturnInv, CallFailsInv,
     DeleteAllFailsInv, Zenon
  DEF Index

\* A step of a delivery, on either side.
LEMMA DeliveryInv == ASSUME IInv, NEW s \in Slots, Delivery(s) PROVE IInv'
<1>1. CASE Handler(s)
  BY <1>1, HandlerSucceedsInv, HandlerThrowsStaleInv, HandlerExhaustsInv,
     HandlerRetriesInv, Zenon
  DEF Handler
<1>2. CASE ~Handler(s)
  BY <1>2, ClaimInv, AuthorizeInv, RetargetInv, DeliverInv, DeliverRefusedInv,
     AnswerInv, DropAnswerInv, FinishDiscardingInv, DiscardingFailsInv, LoseInv,
     RescheduleInv, RescheduleFailsInv, Zenon
  DEF Delivery
<1> QED  BY <1>1, <1>2, Zenon

\* Every step keeps the invariant.
LEMMA NextInv == IInv /\ [Next]_vars => IInv'
<1> SUFFICES ASSUME IInv, [Next]_vars PROVE IInv'
  OBVIOUS
<1>1. CASE \E c \in Clients : Client(c)
  BY <1>1, ClientInv, Zenon
<1>2. CASE \E c \in Callers : Index(c)
  BY <1>2, IndexInv, Zenon
<1>3. CASE \E s \in Slots : Delivery(s)
  BY <1>3, DeliveryInv, Zenon
<1>4. CASE Activate \/ ProbeObject \/ ApplyRepair
  BY <1>4, ActivateInv, ProbeObjectInv, ApplyRepairInv, Zenon
<1>5. CASE HostStops \/ Restart \/ Retire \/ Tick
  BY <1>5, HostStopsInv, RestartInv, RetireInv, TickInv, Zenon
<1>6. CASE UNCHANGED vars
  <2> USE <1>6 DEF vars, IInv
  <2>1. TypeOK' /\ ClaimHasTask' /\ Drawn'
    BY Zenon DEF TypeOK, ClaimHasTask, Owns, Drawn
  <2>2. RetriesPaid' /\ HeldRows'
    BY Zenon DEF RetriesPaid, Paid, HeldRows, Holds
  <2>3. OverIsOver' /\ Named' /\ Linked'
    BY Zenon DEF OverIsOver, GivenUp, Over, Holds, Named, Linked
  <2> QED  BY <2>1, <2>2, <2>3, Zenon
<1> QED
  BY <1>1, <1>2, <1>3, <1>4, <1>5, <1>6, Zenon DEF Next

\* The inductive invariant: an alarm that is over has no row, and no deleteAlarm
\* in flight holds one; every retry count was paid by failed runs.
THEOREM Invariance == Spec => []IInv
  BY InitInv, NextInv, PTL DEF Spec

\* The rows, tasks, requests and counters keep their types.
THEOREM TypeCorrect == Spec => []TypeOK
  BY Invariance, PTL DEF IInv

\* A claimed copy always has a task that will finish it, unless the store refused
\* to record an unknown outcome, for any number of deliveries at once.
THEOREM NoClaimIsStranded == Spec => []ClaimHasTask
  BY Invariance, PTL DEF IInv

\* A copy is given up only after the first run and MaxRetry retries have failed.
THEOREM GivesUpLast == Spec => []DiscardedWasTried
<1>1. IInv => DiscardedWasTried
  BY Zenon DEF IInv, OverIsOver, GivenUp, Over, DiscardedWasTried
<1> QED  BY <1>1, Invariance, PTL

\* An alarm whose run succeeded is never restored.
THEOREM SuccessIsFinal == Spec => []DoneStaysDone
<1>1. IInv => DoneStaysDone
  BY Zenon DEF IInv, OverIsOver, Over, DoneStaysDone
<1> QED  BY <1>1, Invariance, PTL

-----------------------------------------------------------------------------
(* The alarms implement AlarmContract.  The stage of an alarm is read off  *)
(* the row, the calls that hold a row and the alarms that are done, which  *)
(* the invariant keeps apart; a step is then followed by what it does to   *)
(* these and to what the calls ask for.                                    *)

Held(k) == \E c \in Callers : Holds(c, k)

StageFacts ==
    \A k \in Tokens :
        /\ AlarmStage(k) \in {"unset", "armed", "done", "taken", "ended"}
        /\ AlarmStage(k) = "unset" <=> k > issued
        /\ AlarmStage(k) = "armed" <=> k = row.token
        /\ AlarmStage(k) = "done" <=> k \in done
        /\ AlarmStage(k) = "taken" <=> Held(k)

\* No alarm is in two stages.
LEMMA Stages == IInv => StageFacts
<1> SUFFICES ASSUME IInv, NEW k \in Tokens
             PROVE  /\ AlarmStage(k) \in {"unset", "armed", "done", "taken", "ended"}
                    /\ AlarmStage(k) = "unset" <=> k > issued
                    /\ AlarmStage(k) = "armed" <=> k = row.token
                    /\ AlarmStage(k) = "done" <=> k \in done
                    /\ AlarmStage(k) = "taken" <=> Held(k)
  BY Zenon DEF StageFacts
<1>1. k = row.token => ~(k > issued)
  BY DEF IInv, TypeOK, Row, Drawn
<1>2. k \in done => ~(k > issued) /\ k # row.token /\ ~Held(k)
  BY DEF IInv, TypeOK, Drawn, OverIsOver, Over, Held
<1>3. Held(k) => ~(k > issued) /\ k # row.token
  BY DEF IInv, TypeOK, Call, Row, Drawn, HeldRows, Held, Holds
<1>4. AlarmStage(k) = CASE k > issued -> "unset"
                        [] k = row.token -> "armed"
                        [] k \in done -> "done"
                        [] Held(k) -> "taken"
                        [] OTHER -> "ended"
  BY Zenon DEF AlarmStage, Held, Holds
<1> HIDE DEF Held
<1> QED  BY <1>1, <1>2, <1>3, <1>4

\* Also after a step.
LEMMA StagesNext == ASSUME IInv' PROVE StageFacts'
  BY Stages, PTL

\* What the contract sees of the stages and of the calls.
LEMMA MappedAlarm ==
    /\ \A k \in Tokens : AlarmStages[k] = AlarmStage(k)
    /\ \A c \in Callers : Asks[c] = Asked(c)
  BY Zenon DEF AlarmStages, Asks

\* The row is of an alarm that is in no other stage.
LEMMA ArmedStage ==
    ASSUME IInv, NEW k \in Tokens, k = row.token
    PROVE  AlarmStage(k) = "armed" /\ ~(k > issued) /\ k \notin done /\ ~Held(k)
<1>1. StageFacts
  BY Stages, Zenon
<1> HIDE DEF Held, AlarmStage
<1> QED  BY <1>1 DEF StageFacts

\* An alarm stays in its stage.
LEMMA StageStays ==
    ASSUME IInv, IInv', NEW k \in Tokens,
           k > issued' <=> k > issued,
           k = row'.token <=> k = row.token,
           k \in done' <=> k \in done,
           Held(k)' <=> Held(k)
    PROVE  AlarmStage(k)' = AlarmStage(k)
<1>1. StageFacts /\ StageFacts'
  BY Stages, StagesNext, Zenon
<1> HIDE DEF Held, AlarmStage
<1> QED  BY <1>1 DEF StageFacts

\* The alarms of S go to stage s.
LEMMA GoStep ==
    ASSUME NEW S, NEW s,
           \A k \in Tokens : AlarmStage(k)' = IF k \in S THEN s ELSE AlarmStage(k)
    PROVE  Contract!Go(S, s)
  BY Zenon DEF Contract!Go, AlarmStages

\* One caller's ask changes.
LEMMA AskStep ==
    ASSUME NEW c \in Callers, \A d \in Callers \ {c} : Asked(d)' = Asked(d)
    PROVE  Asks' = [Asks EXCEPT ![c] = Asked(c)']
  BY Zenon DEF Asks

\* What a call asks for, by its kind ...
AskTable ==
    \A c \in Callers :
        /\ calls[c].kind \in {"set", "delete"} =>
              Asked(c) = Contract!Ask(calls[c].kind, calls[c].saved.token)
        /\ calls[c].kind = "deleteAll" =>
              Asked(c) = Contract!Ask("clear", calls[c].saved.token)
        /\ calls[c].kind = "flush" /\ calls[c].op = "delete" =>
              Asked(c) = Contract!Ask("forget", calls[c].saved.token)
        /\ calls[c].kind \in {"free", "retry", "activate"} => Asked(c) = Contract!NoAsk
        /\ calls[c].kind = "flush" /\ calls[c].op # "delete" => Asked(c) = Contract!NoAsk

LEMMA AskFacts == AskTable
  BY DEF AskTable, Asked, Contract!Ask, Contract!NoAsk

\* ... also after a step.
LEMMA AskFactsNext == AskTable'
  BY AskFacts, PTL

\* A call asks for the same as long as its kind, operation and token stay.
LEMMA AskStays ==
    ASSUME NEW c \in Callers,
           calls'[c].kind = calls[c].kind, calls'[c].op = calls[c].op,
           calls'[c].saved.token = calls[c].saved.token
    PROVE  Asked(c)' = Asked(c) /\ \A k : Holds(c, k)' <=> Holds(c, k)
  BY Zenon DEF Asked, Holds

\* Only a call that holds a row asks for its deletion.
LEMMA HolderAsks ==
    ASSUME NEW c \in Callers, NEW k
    PROVE  Holds(c, k) <=> Asked(c) = Contract!Ask("delete", k)
<1>1. CASE calls[c].kind = "delete"
  BY <1>1 DEF Holds, Asked, Contract!Ask
<1>2. CASE calls[c].kind # "delete"
  BY <1>2 DEF Holds, Asked, Contract!Ask
<1> QED  BY <1>1, <1>2, Zenon

\* The same after a step.
LEMMA HolderAsksNext ==
    ASSUME NEW c \in Callers, NEW k
    PROVE  Holds(c, k)' <=> Asked(c)' = Contract!Ask("delete", k)
<1>1. CASE calls'[c].kind = "delete"
  BY <1>1 DEF Holds, Asked, Contract!Ask
<1>2. CASE calls'[c].kind # "delete"
  BY <1>2 DEF Holds, Asked, Contract!Ask
<1> QED  BY <1>1, <1>2, Zenon

\* A step that touches neither the alarms nor what is asked is internal.
LEMMA QuietStep ==
    ASSUME IInv, IInv', row'.token = row.token, UNCHANGED <<issued, done, failures>>,
           \A c \in Callers : Asked(c)' = Asked(c)
    PROVE  Contract!Internal
<1>1. \A k : Held(k)' <=> Held(k)
  BY HolderAsks, HolderAsksNext, Zenon DEF Held
<1>2. \A k \in Tokens : AlarmStage(k)' = AlarmStage(k)
  BY <1>1, StageStays, Zenon
<1>3. AlarmStages' = AlarmStages /\ Asks' = Asks
  BY <1>2, Zenon DEF AlarmStages, Asks
<1> QED  BY <1>3, Zenon DEF Contract!Internal, Contract!vars

\* The steps of a delivery up to the handler, and its answers.
LEMMA QuietDelivery ==
    ASSUME IInv, IInv', NEW s \in Slots, Delivery(s), ~Handler(s)
    PROVE  Contract!Internal
<1>1. row'.token = row.token /\ UNCHANGED <<issued, done, failures, calls>>
  <2>1. CASE Deliver(s)
    BY <2>1 DEF Deliver, Reply
  <2>2. CASE Claim(s) \/ Authorize(s) \/ Retarget(s) \/ DeliverRefused(s)
    BY <2>2, Zenon DEF Claim, Authorize, Retarget, DeliverRefused
  <2>3. CASE Answer(s) \/ DropAnswer(s) \/ FinishDiscarding(s) \/ DiscardingFails(s)
    BY <2>3, Zenon DEF Answer, DropAnswer, FinishDiscarding, DiscardingFails
  <2>4. CASE Lose(s) \/ Reschedule(s) \/ RescheduleFails(s)
    BY <2>4, Zenon DEF Lose, Reschedule, RescheduleFails
  <2> QED  BY <2>1, <2>2, <2>3, <2>4, Zenon DEF Delivery
<1>2. \A c \in Callers : Asked(c)' = Asked(c)
  BY <1>1, Zenon DEF Asked
<1> QED  BY <1>1, <1>2, QuietStep, Zenon

\* A handler that threw for an alarm that is no longer there.
LEMMA QuietThrow ==
    ASSUME IInv, IInv', NEW s \in Slots, HandlerThrowsStale(s)
    PROVE  Contract!Internal
<1>1. row'.token = row.token /\ UNCHANGED <<issued, done, failures, calls>>
  BY Zenon DEF HandlerThrowsStale
<1>2. \A c \in Callers : Asked(c)' = Asked(c)
  BY <1>1, Zenon DEF Asked
<1> QED  BY <1>1, <1>2, QuietStep, Zenon

\* The scan, the loss of authority and time.
LEMMA QuietScan ==
    ASSUME IInv, IInv', ProbeObject \/ ApplyRepair \/ Retire \/ Tick
    PROVE  Contract!Internal
<1>1. row'.token = row.token /\ UNCHANGED <<issued, done, failures>>
  BY DEF ProbeObject, ApplyRepair, Retire, Tick, DueRow
<1>2. ASSUME NEW c \in Callers PROVE Asked(c)' = Asked(c)
  <2>1. CASE UNCHANGED calls
    BY <2>1, Zenon DEF Asked
  <2>2. CASE Tick
    BY <2>2, AskStays, Zenon DEF Tick, DueRow
  <2> QED  BY <2>1, <2>2, Zenon DEF ProbeObject, ApplyRepair, Retire
<1> QED  BY <1>1, <1>2, QuietStep, Zenon

\* Calls that only refresh the copy.
LEMMA QuietPost ==
    ASSUME IInv, IInv', NEW c \in Callers, GetAlarm(c) \/ (c = Host /\ Activate)
    PROVE  Contract!Internal
<1>1. /\ row' = row /\ UNCHANGED <<issued, done, failures>>
      /\ calls[c].kind = "free" /\ \A d \in Callers \ {c} : calls'[d] = calls[d]
      /\ calls'[c].kind = "activate" \/ (calls'[c].kind = "flush" /\ calls'[c].op = "upsert")
  <2>1. calls \in [Callers -> Call]
    BY Zenon DEF IInv, TypeOK
  <2> QED  BY <2>1 DEF GetAlarm, Activate, Post
<1>2. Asked(c) = Contract!NoAsk /\ Asked(c)' = Contract!NoAsk
  BY <1>1, AskFacts, AskFactsNext DEF AskTable
<1>3. \A d \in Callers \ {c} : Asked(d)' = Asked(d)
  BY <1>1, Zenon DEF Asked
<1> QED  BY <1>1, <1>2, <1>3, QuietStep, Zenon

\* An alarm that was drawn, and is neither armed, done nor held, has ended.
LEMMA EndedStage ==
    ASSUME IInv', NEW k \in Tokens,
           ~(k > issued'), k # row'.token, k \notin done', ~Held(k)'
    PROVE  AlarmStage(k)' = "ended"
<1>1. StageFacts'
  BY StagesNext, Zenon
<1> HIDE DEF Held, AlarmStage
<1> QED  BY <1>1 DEF StageFacts

\* A call that returns changes the holders by itself only.
LEMMA ReturnHolders ==
    ASSUME IInv, NEW c \in Callers,
           Asked(c)'.kind # "delete", \A d \in Callers \ {c} : Asked(d)' = Asked(d)
    PROVE  \A k : Held(k)' <=> Held(k) /\ ~Holds(c, k)
<1> SUFFICES ASSUME NEW k PROVE Held(k)' <=> Held(k) /\ ~Holds(c, k)
  BY Zenon
<1>1. ~Holds(c, k)'
  BY HolderAsksNext DEF Contract!Ask
<1>2. \A d \in Callers \ {c} : Holds(d, k)' <=> Holds(d, k)
  BY HolderAsks, HolderAsksNext, Zenon
<1>3. \A d \in Callers : Holds(c, k) /\ Holds(d, k) => d = c
  BY Zenon DEF IInv, HeldRows, Holds
<1> QED  BY <1>1, <1>2, <1>3, Zenon DEF Held

\* A call that asked for something returns: what it may do to the alarms.
LEMMA ReturnStep ==
    ASSUME IInv, IInv', NEW c \in Callers, Asked(c) # Contract!NoAsk,
           Asked(c)' \in {Contract!NoAsk, Contract!Rest(Asked(c))},
           \A d \in Callers \ {c} : Asked(d)' = Asked(d),
           UNCHANGED <<issued, done, failures>>,
           \/ row'.token = row.token
           \/ Asked(c).kind = "set" /\ row.token = Asked(c).token /\ row'.token = 0
           \/ Asked(c).kind = "clear" /\ row'.token = 0
           \/ Asked(c).kind = "delete" /\ row.token = 0 /\ row'.token = Asked(c).token
    PROVE  Contract!Return(c)
<1>1. Asked(c)'.kind # "delete"
  BY DEF Contract!NoAsk, Contract!Rest, Contract!Ask
<1>2. \A j : Held(j)' <=> Held(j) /\ ~Holds(c, j)
  BY <1>1, ReturnHolders, Zenon
<1>3. \E a \in {Contract!NoAsk, Contract!Rest(Asks[c])} : Asks' = [Asks EXCEPT ![c] = a]
  BY AskStep, MappedAlarm, Zenon
<1>4. \A j \in Tokens : j = row.token => ~(j > issued) /\ j \notin done /\ ~Held(j)
  BY ArmedStage, Zenon
<1>5. \A j \in Tokens : AlarmStages[j] = "armed" <=> j = row.token
  BY Stages, MappedAlarm, Zenon DEF StageFacts
<1>6. CASE Asked(c).kind # "delete"
  <2>1. \A j : Held(j)' <=> Held(j)
    BY <1>2, <1>6, HolderAsks DEF Contract!Ask
  <2>2. CASE row'.token = row.token
    <3>1. \A j \in Tokens : AlarmStage(j)' = AlarmStage(j)
      BY <2>1, <2>2, StageStays, Zenon
    <3>2. AlarmStages' = AlarmStages
      BY <3>1, Zenon DEF AlarmStages
    <3> QED  BY <1>3, <1>6, <3>2, MappedAlarm, Zenon DEF Contract!Return
  <2>3. ASSUME row'.token = 0, NEW S, \A j \in Tokens : j \in S <=> j = row.token
        PROVE  Contract!Go(S, "ended")
    <3>1. ASSUME NEW j \in Tokens, j \in S PROVE AlarmStage(j)' = "ended"
      <4>1. j # 0
        BY DEF Tokens
      <4> QED  BY <1>4, <2>1, <2>3, <3>1, <4>1, EndedStage, Zenon
    <3>2. ASSUME NEW j \in Tokens, j \notin S PROVE AlarmStage(j)' = AlarmStage(j)
      <4>1. j # 0
        BY DEF Tokens
      <4> QED  BY <2>1, <2>3, <3>2, <4>1, StageStays, Zenon
    <3> QED  BY <3>1, <3>2, GoStep, Zenon
  <2>4. CASE Asked(c).kind = "set" /\ row.token = Asked(c).token /\ row'.token = 0
    <3>1. \A j \in Tokens : j \in {Asked(c).token} \cap Contract!At("armed") <=> j = row.token
      BY <1>5, <2>4, Zenon DEF Contract!At
    <3>2. Contract!Go({Asked(c).token} \cap Contract!At("armed"), "ended")
      BY <2>3, <2>4, <3>1, Zenon
    <3> QED  BY <1>3, <2>4, <3>2, MappedAlarm, Zenon DEF Contract!Return
  <2>5. CASE Asked(c).kind = "clear" /\ row'.token = 0
    <3>1. \A j \in Tokens : j \in Contract!At("armed") <=> j = row.token
      BY <1>5, Zenon DEF Contract!At
    <3>2. Contract!Go(Contract!At("armed"), "ended")
      BY <2>3, <2>5, <3>1, Zenon
    <3> QED  BY <1>3, <2>5, <3>2, MappedAlarm, Zenon DEF Contract!Return
  <2> QED  BY <1>6, <2>2, <2>4, <2>5, Zenon
<1>7. CASE Asked(c).kind = "delete"
  <2> PICK k : k = Asked(c).token
    BY ZenonT(60)
  <2>1. calls[c].kind = "delete" /\ calls[c].saved.token = k
    BY <1>7 DEF Asked
  <2>2. Holds(c, k) /\ k \in Tokens /\ k # row.token
    BY <2>1 DEF Holds, IInv, TypeOK, Call, Row, HeldRows, Tokens
  <2>3. \A j : Holds(c, j) <=> j = k
    BY <2>1, Zenon DEF Holds
  <2>4. ~Held(k)' /\ (\A j : j # k => (Held(j)' <=> Held(j)))
    BY <1>2, <2>2, <2>3, Zenon
  <2>5. ~(k > issued) /\ k \notin done
    <3>1. Held(k)
      BY <2>2, Zenon DEF Held
    <3> QED  BY <2>2, <3>1, Stages DEF StageFacts
  <2>6. CASE row'.token = row.token
    <3>1. AlarmStage(k)' = "ended"
      BY <2>2, <2>4, <2>5, <2>6, EndedStage, Zenon
    <3>2. \A j \in Tokens : j # k => AlarmStage(j)' = AlarmStage(j)
      BY <2>4, <2>6, StageStays, Zenon
    <3>3. Contract!Go({k}, "ended")
      BY <3>1, <3>2, GoStep, Zenon
    <3> QED  BY <1>3, <1>7, <3>3, MappedAlarm, Zenon DEF Contract!Return
  <2>7. CASE row.token = 0 /\ row'.token = k
    <3>1. AlarmStage(k)' = "armed"
      BY <2>2, <2>7, StagesNext DEF StageFacts
    <3>2. ASSUME NEW j \in Tokens, j # k PROVE AlarmStage(j)' = AlarmStage(j)
      <4>1. j # 0
        BY DEF Tokens
      <4> QED  BY <2>4, <2>7, <3>2, <4>1, StageStays, Zenon
    <3>3. Contract!Go({k}, "armed")
      BY <3>1, <3>2, GoStep, Zenon
    <3>4. Contract!At("armed") = {}
      BY <1>5, <2>7 DEF Contract!At, Tokens
    <3> QED  BY <1>3, <1>7, <3>3, <3>4, MappedAlarm, Zenon DEF Contract!Return
  <2> QED  BY <1>7, <2>6, <2>7, Zenon
<1> QED  BY <1>6, <1>7, Zenon

\* The calls a delivery or the activation waits for delete nothing.
KindOps ==
    \A c \in Callers : calls[c].kind \in {"retry", "activate"} => calls[c].op # "delete"

LEMMA KindOpsInit == Init => KindOps
  BY DEF Init, KindOps, NoCall

\* A step of a call keeps its kind and operation, or ends or abandons it.
LEMMA KindOpsIndex ==
    ASSUME IInv, KindOps, NEW c \in Callers, Index(c)
    PROVE  KindOps'
<1>1. calls \in [Callers -> Call]
  BY Zenon DEF IInv, TypeOK
<1>2. /\ \A d \in Callers \ {c} : calls'[d] = calls[d]
      /\ \/ calls'[c].kind \in {"free", "flush"}
         \/ calls'[c].kind = calls[c].kind /\ calls'[c].op = calls[c].op
  <2>1. CASE AuthorizeCall(c) \/ ApplyCall(c) \/ ApplyUnanswered(c)
    BY <1>1, <2>1 DEF AuthorizeCall, ApplyCall, ApplyUnanswered, CallAt, NoCall
  <2>2. CASE Return(c) \/ CallFails(c) \/ DeleteAllFails(c)
    BY <1>1, <2>2 DEF Return, CallFails, DeleteAllFails, Abandoned, NoCall
  <2> QED  BY <2>1, <2>2, Zenon DEF Index
<1> QED  BY <1>2 DEF KindOps

LEMMA KindOpsNext == IInv /\ KindOps /\ [Next]_vars => KindOps'
<1> SUFFICES ASSUME IInv, KindOps, [Next]_vars PROVE KindOps'
  OBVIOUS
<1>1. calls \in [Callers -> Call]
  BY Zenon DEF IInv, TypeOK
<1>2. CASE \E c \in Clients : Client(c)
  <2> PICK c \in Clients : Client(c)
    BY <1>2, Zenon
  <2>1. c \in Callers
    BY Zenon DEF Callers
  <2>2. /\ \A d \in Callers \ {c} : calls'[d] = calls[d]
        /\ calls'[c].kind \in {"set", "flush", "delete", "deleteAll"}
    BY <1>1, <2>1 DEF Client, SetAlarm, DeleteAlarm, GetAlarm, DeleteAll, Post
  <2> QED  BY <2>2 DEF KindOps
<1>3. CASE \E c \in Callers : Index(c)
  BY <1>3, KindOpsIndex, Zenon
<1>4. CASE \E s \in Slots : Delivery(s)
  <2> PICK s \in Slots : Delivery(s)
    BY <1>4, Zenon
  <2>1. CASE HandlerRetries(s)
    <3>1. s \in Callers
      BY Zenon DEF Callers
    <3>2. (\A d \in Callers \ {s} : calls'[d] = calls[d]) /\ calls'[s].op = "upsert"
      BY <1>1, <2>1, <3>1 DEF HandlerRetries, Post
    <3> QED  BY <3>2 DEF KindOps
  <2>2. CASE ~HandlerRetries(s)
    <3>1. calls' = calls
      BY <2>2, ZenonT(60)
      DEF Delivery, Handler, HandlerSucceeds, HandlerThrowsStale, HandlerExhausts,
          Claim, Authorize, Retarget, Deliver, DeliverRefused, Answer, DropAnswer,
          FinishDiscarding, DiscardingFails, Lose, Reschedule, RescheduleFails
    <3> QED  BY <3>1, Zenon DEF KindOps
  <2> QED  BY <2>1, <2>2, Zenon
<1>5. CASE Activate
  <2>1. Host \in Callers
    BY Zenon DEF Callers
  <2>2. (\A d \in Callers \ {Host} : calls'[d] = calls[d]) /\ calls'[Host].op # "delete"
    BY <1>1, <1>5, <2>1 DEF Activate, Post
  <2> QED  BY <2>2 DEF KindOps
<1>6. CASE HostStops \/ Restart
  <2>1. \A c \in Callers : calls'[c].kind \in {"free", "flush"}
    BY <1>6 DEF HostStops, Restart, Abandoned, NoCall
  <2> QED  BY <2>1 DEF KindOps
<1>7. CASE Tick
  <2>1. \A c \in Callers : calls'[c].kind = calls[c].kind /\ calls'[c].op = calls[c].op
    BY <1>7 DEF Tick
  <2> QED  BY <2>1 DEF KindOps
<1>8. CASE ProbeObject \/ ApplyRepair \/ Retire \/ UNCHANGED vars
  <2>1. calls' = calls
    BY <1>8, Zenon DEF ProbeObject, ApplyRepair, Retire, vars
  <2> QED  BY <2>1, Zenon DEF KindOps
<1> QED
  BY <1>2, <1>3, <1>4, <1>5, <1>6, <1>7, <1>8, Zenon DEF Next

\* A call ends, whether or not it asked for something.
LEMMA EndStep ==
    ASSUME IInv, IInv', NEW c \in Callers,
           Asked(c)' \in {Contract!NoAsk, Contract!Rest(Asked(c))},
           \A d \in Callers \ {c} : Asked(d)' = Asked(d),
           UNCHANGED <<issued, done, failures>>,
           \/ row'.token = row.token
           \/ Asked(c).kind = "set" /\ row.token = Asked(c).token /\ row'.token = 0
           \/ Asked(c).kind = "clear" /\ row'.token = 0
           \/ Asked(c).kind = "delete" /\ row.token = 0 /\ row'.token = Asked(c).token
    PROVE  Contract!Internal \/ Contract!Return(c)
<1>1. CASE Asked(c) # Contract!NoAsk
  BY <1>1, ReturnStep, Zenon
<1>2. CASE Asked(c) = Contract!NoAsk
  <2>1. row'.token = row.token
    BY <1>2 DEF Contract!NoAsk, Contract!Ask
  <2>2. Asked(c)' = Asked(c)
    BY <1>2, Zenon DEF Contract!Rest
  <2> QED  BY <2>1, <2>2, QuietStep, Zenon
<1> QED  BY <1>1, <1>2, Zenon

\* What is left of a call that ended or that nobody waits for.
LEMMA LeftOver ==
    ASSUME KindOps, NEW c \in Callers, calls[c] \in Call, calls[c].kind # "free",
           \/ calls'[c] = NoCall
           \/ /\ calls'[c].kind = "flush" /\ calls'[c].op = calls[c].op
              /\ calls'[c].saved = calls[c].saved
    PROVE  Asked(c)' \in {Contract!NoAsk, Contract!Rest(Asked(c))}
<1>1. CASE calls'[c] = NoCall \/ calls'[c].op # "delete"
  <2>1. Asked(c)' = Contract!NoAsk
    BY <1>1, AskFactsNext DEF AskTable, NoCall
  <2> QED  BY <2>1, Zenon
<1>2. CASE calls'[c].kind = "flush" /\ calls[c].op = "delete"
           /\ calls'[c].op = "delete" /\ calls'[c].saved = calls[c].saved
  <2>1. Asked(c)' = Contract!Ask("forget", calls[c].saved.token)
    BY <1>2, AskFactsNext DEF AskTable
  <2>2. calls[c].kind \in {"set", "delete", "deleteAll", "flush"}
    BY <1>2 DEF KindOps, Call
  <2>3. Asked(c).token = calls[c].saved.token /\ Asked(c).kind # "none"
    BY <1>2, <2>2 DEF Asked
  <2> QED  BY <2>1, <2>3 DEF Contract!Rest, Contract!NoAsk, Contract!Ask
<1> QED  BY <1>1, <1>2, Zenon

\* The index answers a call.
LEMMA ApplyContract ==
    ASSUME IInv, IInv', KindOps, NEW c \in Callers, ApplyCall(c)
    PROVE  Contract!Internal \/ Contract!Return(c)
<1>1. calls \in [Callers -> Call]
  BY Zenon DEF IInv, TypeOK
<1>2. /\ row' = row /\ UNCHANGED <<issued, done, failures>>
      /\ \A d \in Callers \ {c} : calls'[d] = calls[d]
  BY <1>1, Zenon DEF ApplyCall, CallAt
<1>3. \A d \in Callers \ {c} : Asked(d)' = Asked(d)
  BY <1>2, Zenon DEF Asked
<1>4. CASE calls[c].kind \in {"deleteAll", "retry", "activate"}
  <2>1. calls' = CallAt(c, "answered")
    BY <1>4, Zenon DEF ApplyCall
  <2>2. Asked(c)' = Asked(c)
    BY <1>1, <2>1, AskStays, Zenon DEF CallAt
  <2> QED  BY <1>2, <1>3, <2>2, QuietStep, Zenon
<1>5. CASE calls[c].kind \notin {"deleteAll", "retry", "activate"}
  <2>1. calls'[c] = NoCall /\ calls[c].kind # "free"
    BY <1>1, <1>5, Zenon DEF ApplyCall
  <2>2. Asked(c)' \in {Contract!NoAsk, Contract!Rest(Asked(c))}
    BY <1>1, <2>1, LeftOver, Zenon
  <2> QED  BY <1>2, <1>3, <2>2, EndStep, Zenon
<1> QED  BY <1>4, <1>5, Zenon

\* deleteAll, a retry or the activation goes on after its answer.
LEMMA ReturnContract ==
    ASSUME IInv, IInv', KindOps, NEW c \in Callers, Return(c)
    PROVE  Contract!Internal \/ Contract!Return(c)
<1>1. calls \in [Callers -> Call]
  BY Zenon DEF IInv, TypeOK
<1>2. /\ UNCHANGED <<issued, done, failures>>
      /\ \A d \in Callers \ {c} : calls'[d] = calls[d]
      /\ calls'[c] = NoCall /\ calls[c].kind # "free"
      /\ calls[c].kind = "deleteAll" \/ row' = row
  BY <1>1, Zenon DEF Return
<1>3. \A d \in Callers \ {c} : Asked(d)' = Asked(d)
  BY <1>2, Zenon DEF Asked
<1>4. Asked(c)' \in {Contract!NoAsk, Contract!Rest(Asked(c))}
  BY <1>1, <1>2, LeftOver, Zenon
<1>5. row'.token = row.token \/ (Asked(c).kind = "clear" /\ row'.token = 0)
  <2>1. CASE calls[c].kind = "deleteAll"
    BY <2>1 DEF Return, NoRow, Asked
  <2> QED  BY <1>2, <2>1, Zenon
<1> QED  BY <1>2, <1>3, <1>4, <1>5, EndStep, Zenon

\* setAlarm takes its row back, deleteAlarm puts back the row it removed.
LEMMA CallFailsContract ==
    ASSUME IInv, IInv', KindOps, NEW c \in Callers, CallFails(c)
    PROVE  Contract!Internal \/ Contract!Return(c)
<1>1. calls \in [Callers -> Call]
  BY Zenon DEF IInv, TypeOK
<1>2. /\ UNCHANGED <<issued, done, failures>>
      /\ \A d \in Callers \ {c} : calls'[d] = calls[d]
      /\ calls[c].kind # "free"
      /\ calls'[c] = NoCall \/ calls'[c] = Abandoned(c)
  BY <1>1, Zenon DEF CallFails
<1>3. \A d \in Callers \ {c} : Asked(d)' = Asked(d)
  BY <1>2, Zenon DEF Asked
<1>4. Asked(c)' \in {Contract!NoAsk, Contract!Rest(Asked(c))}
  <2>1. \/ calls'[c] = NoCall
        \/ /\ calls'[c].kind = "flush" /\ calls'[c].op = calls[c].op
           /\ calls'[c].saved = calls[c].saved
    BY <1>2 DEF Abandoned
  <2> QED  BY <1>1, <1>2, <2>1, LeftOver, Zenon
<1>5. \/ row'.token = row.token
      \/ Asked(c).kind = "set" /\ row.token = Asked(c).token /\ row'.token = 0
      \/ Asked(c).kind = "delete" /\ row.token = 0 /\ row'.token = Asked(c).token
  <2>1. CASE calls[c].kind = "set"
    BY <2>1 DEF CallFails, ExactDelete, NoRow, Asked
  <2>2. CASE calls[c].kind = "delete"
    BY <2>2 DEF CallFails, RestoreIfAbsent, Asked
  <2>3. CASE calls[c].kind \notin {"set", "delete"}
    BY <2>3 DEF CallFails
  <2> QED  BY <2>1, <2>2, <2>3, Zenon
<1> QED  BY <1>2, <1>3, <1>4, <1>5, EndStep, Zenon

\* The copy is put back; the alarm stays as it was.
LEMMA DeleteAllFailsContract ==
    ASSUME IInv, IInv', NEW c \in Callers, DeleteAllFails(c)
    PROVE  Contract!Internal \/ Contract!Return(c)
<1>1. calls \in [Callers -> Call]
  BY Zenon DEF IInv, TypeOK
<1>2. /\ row' = row /\ UNCHANGED <<issued, done, failures>>
      /\ \A d \in Callers \ {c} : calls'[d] = calls[d]
      /\ \/ calls'[c].kind = "free"
         \/ calls'[c].kind = "flush" /\ calls'[c].op # "delete"
  BY <1>1 DEF DeleteAllFails, NoCall
<1>3. \A d \in Callers \ {c} : Asked(d)' = Asked(d)
  BY <1>2, Zenon DEF Asked
<1>4. Asked(c)' = Contract!NoAsk
  BY <1>2, AskFactsNext DEF AskTable
<1> QED  BY <1>2, <1>3, <1>4, EndStep, Zenon

\* A request on its way asks for the same.
LEMMA QuietIndex ==
    ASSUME IInv, IInv', NEW c \in Callers, AuthorizeCall(c) \/ ApplyUnanswered(c)
    PROVE  Contract!Internal
<1>1. calls \in [Callers -> Call]
  BY Zenon DEF IInv, TypeOK
<1>2. /\ row' = row /\ UNCHANGED <<issued, done, failures>>
      /\ calls' = CallAt(c, "authorized") \/ calls' = CallAt(c, "answered")
  BY Zenon DEF AuthorizeCall, ApplyUnanswered
<1>3. ASSUME NEW d \in Callers PROVE Asked(d)' = Asked(d)
  <2>1. /\ calls'[d].kind = calls[d].kind /\ calls'[d].op = calls[d].op
        /\ calls'[d].saved.token = calls[d].saved.token
    BY <1>1, <1>2 DEF CallAt
  <2> QED  BY <2>1, AskStays, Zenon
<1> QED  BY <1>2, <1>3, QuietStep, Zenon

\* Every step of a request to the index.
LEMMA IndexContract ==
    ASSUME IInv, IInv', KindOps, NEW c \in Callers, Index(c)
    PROVE  Contract!Internal \/ Contract!Return(c)
  BY QuietIndex, ApplyContract, ReturnContract, CallFailsContract,
     DeleteAllFailsContract, Zenon
  DEF Index

\* What a call of the object posts.
LEMMA PostStep ==
    ASSUME IInv, NEW c \in Callers, NEW kind, NEW op, NEW r, Post(c, kind, op, r)
    PROVE  /\ Asks[c] = Contract!NoAsk
           /\ Asks' = [Asks EXCEPT ![c] = Asked(c)']
           /\ calls'[c].kind = kind /\ calls'[c].op = op /\ calls'[c].saved = r
           /\ \A d \in Callers \ {c} : \A k : Holds(d, k)' <=> Holds(d, k)
           /\ \A k : ~Holds(c, k)
<1>1. calls \in [Callers -> Call]
  BY Zenon DEF IInv, TypeOK
<1>2. calls'[c] = [kind |-> kind, op |-> op, stage |-> "sent", saved |-> r]
      /\ calls[c].kind = "free" /\ \A d \in Callers \ {c} : calls'[d] = calls[d]
  BY <1>1, Zenon DEF Post
<1>3. \A d \in Callers \ {c} : Asked(d)' = Asked(d)
  BY <1>2, Zenon DEF Asked
<1>4. Asked(c) = Contract!NoAsk
  BY <1>2, AskFacts, Zenon DEF AskTable
<1>5. \A k : ~Holds(c, k)
  BY <1>2 DEF Holds
<1>6. \A d \in Callers \ {c} : \A k : Holds(d, k)' <=> Holds(d, k)
  BY <1>2, Zenon DEF Holds
<1> QED  BY <1>2, <1>3, <1>4, <1>5, <1>6, AskStep, MappedAlarm

\* The asks stay when the call that is posted asks for nothing.
LEMMA AsksStay ==
    ASSUME NEW c \in Callers, Asks[c] = Contract!NoAsk,
           Asks' = [Asks EXCEPT ![c] = Contract!NoAsk]
    PROVE  Asks' = Asks
  BY Zenon DEF Asks

\* A new alarm is armed, and the one there was ends.
LEMMA SetContract ==
    ASSUME IInv, IInv', NEW c \in Callers, NEW wait \in 0 .. 1,
           NEW kind \in {"set", "flush"}, SetAlarm(c, wait, kind)
    PROVE  \E k \in Tokens : Contract!Set(c, k)
<1> PICK k : k = issued + 1
  BY Zenon
<1>1. k \in Tokens /\ k > issued
  BY BoundAssumption DEF SetAlarm, IInv, TypeOK, Tokens
<1>2. /\ row'.token = k /\ issued' = k /\ UNCHANGED <<done, failures>>
      /\ row'.token = calls'[c].saved.token
      /\ \E r : Post(c, kind, "upsert", r) /\ r = row'
  <2>1. \E r : r = row' /\ Post(c, kind, "upsert", r)
    BY Zenon DEF SetAlarm
  <2>2. row'.token = issued + 1 /\ issued' = issued + 1 /\ UNCHANGED <<done, failures>>
    BY DEF SetAlarm
  <2>3. calls \in [Callers -> Call]
    BY Zenon DEF IInv, TypeOK
  <2>4. calls'[c].saved = row'
    BY <2>1, <2>3 DEF Post
  <2> QED  BY <2>1, <2>2, <2>4, Zenon
<1> PICK r : Post(c, kind, "upsert", r) /\ r = row'
  BY <1>2, Zenon
<1>3. /\ Asks[c] = Contract!NoAsk
      /\ Asks' = [Asks EXCEPT ![c] = Asked(c)']
      /\ calls'[c].kind = kind /\ calls'[c].op = "upsert"
      /\ \A d \in Callers \ {c} : \A j : Holds(d, j)' <=> Holds(d, j)
      /\ \A j : ~Holds(c, j)
  BY PostStep, Zenon
<1>4. \A j : ~Holds(c, j)'
  BY <1>3 DEF Holds
<1>5. \A j : Held(j)' <=> Held(j)
  BY <1>3, <1>4, Zenon DEF Held
<1>6. \/ Asks[c] = Contract!NoAsk /\ Asks' = Asks
      \/ Contract!Post(c, "set", k)
  <2>1. CASE kind = "set"
    <3>1. Asked(c)' = Contract!Ask("set", k)
      BY <1>2, <1>3, <2>1, AskFactsNext DEF AskTable
    <3> QED  BY <1>3, <3>1, Zenon DEF Contract!Post
  <2>2. CASE kind = "flush"
    <3>1. Asked(c)' = Contract!NoAsk
      BY <1>3, <2>2, AskFactsNext DEF AskTable
    <3> QED  BY <1>3, <3>1, AsksStay, Zenon
  <2> QED  BY <2>1, <2>2, Zenon
<1>7. AlarmStage(k) = "unset" /\ AlarmStage(k)' = "armed"
  BY <1>1, <1>2, Stages, StagesNext, Zenon DEF StageFacts
<1>8. ASSUME NEW j \in Tokens, j # k
      PROVE  AlarmStage(j)' = IF AlarmStage(j) = "armed" THEN "ended" ELSE AlarmStage(j)
  <2>1. CASE j = row.token
    <3>1. AlarmStage(j) = "armed" /\ ~(j > issued) /\ j \notin done /\ ~Held(j)
      BY <2>1, ArmedStage, ZenonT(60)
    <3>2. ~(j > issued')
      BY <1>2, <3>1 DEF IInv, TypeOK, Tokens
    <3> QED  BY <1>2, <1>5, <1>8, <3>1, <3>2, EndedStage, Zenon
  <2>2. CASE j # row.token
    <3>1. AlarmStage(j) # "armed"
      BY <2>2, Stages, Zenon DEF StageFacts
    <3>2. j > issued' <=> j > issued
      BY <1>2, <1>8 DEF IInv, TypeOK, Tokens
    <3>3. AlarmStage(j)' = AlarmStage(j)
      BY <1>2, <1>5, <1>8, <2>2, <3>2, StageStays, Zenon
    <3> QED  BY <3>1, <3>3, Zenon
  <2> QED  BY <2>1, <2>2, Zenon
<1>9. AlarmStages' = [j \in Tokens |->
          IF j = k THEN "armed"
          ELSE IF AlarmStages[j] = "armed" THEN "ended" ELSE AlarmStages[j]]
  BY <1>7, <1>8, MappedAlarm, Zenon DEF AlarmStages
<1>10. AlarmStages[k] = "unset"
  BY <1>1, <1>7, MappedAlarm, Zenon
<1>11. Contract!Set(c, k)
  BY <1>2, <1>6, <1>9, <1>10, Zenon DEF Contract!Set
<1> QED  BY <1>1, <1>11, Zenon

\* The row that is removed is held by its call, or by nobody.
LEMMA DeleteContract ==
    ASSUME IInv, IInv', NEW c \in Callers, NEW kind \in {"delete", "flush"},
           DeleteAlarm(c, kind)
    PROVE  \E k \in Tokens : Contract!Delete(c, k)
<1> PICK k : k = row.token
  BY Zenon
<1>1. k \in Tokens /\ AlarmStage(k) = "armed" /\ ~(k > issued) /\ k \notin done /\ ~Held(k)
  <2>1. k \in Tokens
    BY DEF DeleteAlarm, IInv, TypeOK, Row, Tokens
  <2> QED  BY <2>1, ArmedStage, Zenon
<1>2. row'.token = 0 /\ UNCHANGED <<issued, done, failures>> /\ Post(c, kind, "delete", row)
  BY DEF DeleteAlarm, NoRow
<1>3. /\ Asks[c] = Contract!NoAsk
      /\ Asks' = [Asks EXCEPT ![c] = Asked(c)']
      /\ calls'[c].kind = kind /\ calls'[c].op = "delete" /\ calls'[c].saved = row
      /\ \A d \in Callers \ {c} : \A j : Holds(d, j)' <=> Holds(d, j)
      /\ \A j : ~Holds(c, j)
  BY <1>2, PostStep, Zenon
<1>4. ASSUME NEW j \in Tokens, j # k PROVE AlarmStage(j)' = AlarmStage(j)
  <2>1. j # 0
    BY DEF Tokens
  <2>2. ~Holds(c, j)'
    BY <1>3, <1>4 DEF Holds
  <2>3. Held(j)' <=> Held(j)
    BY <1>3, <2>2, Zenon DEF Held
  <2> QED  BY <1>2, <1>4, <2>1, <2>3, StageStays, Zenon
<1>5. Contract!Delete(c, k)
  <2>1. AlarmStages[k] = "armed"
    BY <1>1, MappedAlarm, Zenon
  <2>2. CASE kind = "delete"
    <3>1. Held(k)'
      BY <1>3, <2>2, Zenon DEF Held, Holds
    <3>2. AlarmStage(k)' = "taken"
      BY <1>1, <3>1, StagesNext, Zenon DEF StageFacts
    <3>3. Contract!Go({k}, "taken")
      BY <1>4, <3>2, GoStep, ZenonT(60)
    <3>4. Asked(c)' = Contract!Ask("delete", k)
      BY <1>3, <2>2, AskFactsNext DEF AskTable
    <3> QED  BY <1>2, <1>3, <2>1, <3>3, <3>4, Zenon DEF Contract!Delete, Contract!Post
  <2>3. CASE kind = "flush"
    <3>1. ~Holds(c, k)'
      BY <1>3, <2>3 DEF Holds
    <3>2. ~Held(k)' /\ k # 0
      BY <1>1, <1>3, <3>1 DEF Held, Tokens
    <3>3. AlarmStage(k)' = "ended"
      BY <1>1, <1>2, <3>2, EndedStage, Zenon
    <3>4. Contract!Go({k}, "ended")
      BY <1>4, <3>3, GoStep, ZenonT(60)
    <3>5. Asked(c)' = Contract!Ask("forget", k)
      BY <1>3, <2>3, AskFactsNext DEF AskTable
    <3> QED  BY <1>2, <1>3, <2>1, <3>4, <3>5, Zenon DEF Contract!Delete, Contract!Post
  <2> QED  BY <2>2, <2>3, Zenon
<1> QED  BY <1>1, <1>5, Zenon

\* deleteAll only asks; the row goes when the copy is gone.
LEMMA DeleteAllContract ==
    ASSUME IInv, IInv', NEW c \in Callers, DeleteAll(c)
    PROVE  Contract!DeleteAll(c)
<1>1. \E op : Post(c, "deleteAll", op, row)
  BY Zenon DEF DeleteAll
<1>2. row' = row /\ UNCHANGED <<issued, done, failures>>
  BY Zenon DEF DeleteAll
<1>3. /\ Asks[c] = Contract!NoAsk
      /\ Asks' = [Asks EXCEPT ![c] = Asked(c)']
      /\ calls'[c].kind = "deleteAll" /\ calls'[c].saved = row
      /\ \A d \in Callers \ {c} : \A j : Holds(d, j)' <=> Holds(d, j)
      /\ \A j : ~Holds(c, j)
  BY <1>1, PostStep, Zenon
<1>4. \A j : ~Holds(c, j)'
  BY <1>3 DEF Holds
<1>5. \A j : Held(j)' <=> Held(j)
  BY <1>3, <1>4, Zenon DEF Held
<1>6. \A j \in Tokens : AlarmStage(j)' = AlarmStage(j)
  BY <1>2, <1>5, StageStays, Zenon
<1>7. AlarmStages' = AlarmStages
  BY <1>6, Zenon DEF AlarmStages
<1>8. Asked(c)' = Contract!Ask("clear", row.token)
  BY <1>3, AskFactsNext DEF AskTable
<1>9. row.token \in {0} \cup Tokens
  BY DEF IInv, TypeOK, Row, Tokens
<1> QED  BY <1>2, <1>3, <1>7, <1>8, <1>9, Zenon DEF Contract!DeleteAll, Contract!Post

\* The run of the alarm there is removes it for good; any other removes nothing.
LEMMA SucceedContract ==
    ASSUME IInv, IInv', NEW s \in Slots, HandlerSucceeds(s)
    PROVE  Contract!Internal \/ \E k \in Tokens : Contract!Succeed(k)
<1>1. UNCHANGED <<calls, issued, failures>>
  BY Zenon DEF HandlerSucceeds
<1>2. (\A c \in Callers : Asked(c)' = Asked(c)) /\ (\A k : Held(k)' <=> Held(k))
  BY <1>1, Zenon DEF Asked, Held, Holds
<1>3. CASE row.token # runs[s].token
  <2>1. row' = row /\ done' = done
    BY <1>3, Zenon DEF HandlerSucceeds, ExactDelete
  <2> QED  BY <1>1, <1>2, <2>1, QuietStep, Zenon
<1>4. CASE row.token = runs[s].token
  <2> PICK k : k = row.token
    BY ZenonT(60)
  <2>1. k \in Tokens
    BY <1>4 DEF HandlerSucceeds, IInv, Named, TypeOK, Row, Tokens
  <2>2. row'.token = 0 /\ done' = done \cup {k}
    BY <1>4 DEF HandlerSucceeds, ExactDelete, NoRow
  <2>3. AlarmStages[k] = "armed" /\ AlarmStage(k)' = "done"
    BY <2>1, <2>2, MappedAlarm, Stages, StagesNext, Zenon DEF StageFacts
  <2>4. ASSUME NEW j \in Tokens, j # k PROVE AlarmStage(j)' = AlarmStage(j)
    <3>1. j # 0
      BY DEF Tokens
    <3> QED  BY <1>1, <1>2, <2>2, <2>4, <3>1, StageStays, Zenon
  <2>5. Contract!Go({k}, "done")
    BY <2>3, <2>4, GoStep, Zenon
  <2>6. Asks' = Asks
    BY <1>2, Zenon DEF Asks
  <2> QED  BY <1>1, <2>1, <2>3, <2>5, <2>6, Zenon DEF Contract!Succeed
<1> QED  BY <1>3, <1>4, Zenon

\* An alarm is given up on top of MaxRetry failures that were paid for.
LEMMA ExhaustContract ==
    ASSUME IInv, IInv', NEW s \in Slots, HandlerExhausts(s)
    PROVE  \E k \in Tokens : Contract!Fail(k)
<1>1. UNCHANGED <<calls, issued, done>> /\ row'.token = 0
  BY DEF HandlerExhausts, NoRow
<1>2. (\A c \in Callers : Asked(c)' = Asked(c)) /\ (\A j : Held(j)' <=> Held(j))
  BY <1>1, ZenonT(60) DEF Asked, Held, Holds
<1> PICK k : k = row.token
  BY Zenon
<1>3. k \in Tokens /\ k # 0
  BY DEF HandlerExhausts, IInv, Named, TypeOK, Row, Tokens
<1>4. failures[k] >= MaxRetry /\ failures' = [failures EXCEPT ![k] = failures[k] + 1]
  <2>1. Paid(runs[s].token, runs[s].retry)
    BY Zenon DEF IInv, RetriesPaid
  <2>2. /\ runs[s].token = k /\ runs[s].retry >= MaxRetry
        /\ failures' = [failures EXCEPT ![k] = failures[k] + 1]
    BY Zenon DEF HandlerExhausts, Failed
  <2>3. runs[s].retry <= failures[k]
    BY <1>3, <2>1, <2>2, Zenon DEF Paid
  <2>4. runs[s] \in Run
    BY Zenon DEF IInv, TypeOK
  <2>5. runs[s].retry \in Nat /\ failures[k] \in Nat
    <3>1. runs[s].retry \in 0 .. MaxRetry /\ failures[k] \in 0 .. MaxFailures
      BY <1>3, <2>4, Zenon DEF Run, IInv, TypeOK
    <3> QED  BY <3>1, BoundAssumption
  <2> QED  BY <2>2, <2>3, <2>5, BoundAssumption
<1>5. AlarmStage(k) = "armed" /\ ~(k > issued) /\ k \notin done /\ ~Held(k)
  BY <1>3, ArmedStage, Zenon
<1>6. AlarmStage(k)' = "ended"
  BY <1>1, <1>2, <1>3, <1>5, EndedStage, Zenon
<1>7. ASSUME NEW j \in Tokens, j # k PROVE AlarmStage(j)' = AlarmStage(j)
  <2>1. j # 0
    BY DEF Tokens
  <2> QED  BY <1>1, <1>2, <1>7, <2>1, StageStays, Zenon
<1>8. Contract!Go({k}, "ended")
  BY <1>6, <1>7, GoStep, Zenon
<1>9. Asks' = Asks /\ AlarmStages[k] = "armed"
  BY <1>2, <1>3, <1>5, MappedAlarm, Zenon DEF Asks
<1> QED  BY <1>3, <1>4, <1>8, <1>9, Zenon DEF Contract!Fail

\* A failed run that may be retried leaves the alarm armed.
LEMMA RetryContract ==
    ASSUME IInv, IInv', NEW s \in Slots, HandlerRetries(s)
    PROVE  \E k \in Tokens : Contract!Fail(k)
<1>1. /\ UNCHANGED <<issued, done>> /\ row'.token = row.token
      /\ failures' = [failures EXCEPT ![row.token] = failures[row.token] + 1]
      /\ \E r : Post(s, "retry", "upsert", r)
  <2>1. \E r : r = row' /\ Post(s, "retry", "upsert", r)
    BY Zenon DEF HandlerRetries
  <2> QED  BY <2>1 DEF HandlerRetries, Failed
<1>2. s \in Callers
  BY Zenon DEF Callers
<1>3. /\ Asks[s] = Contract!NoAsk
      /\ Asks' = [Asks EXCEPT ![s] = Asked(s)']
      /\ calls'[s].kind = "retry"
      /\ \A d \in Callers \ {s} : \A j : Holds(d, j)' <=> Holds(d, j)
      /\ \A j : ~Holds(s, j)
  BY <1>1, <1>2, PostStep, Zenon
<1>4. Asks' = Asks
  <2>1. Asked(s)' = Contract!NoAsk
    BY <1>2, <1>3, AskFactsNext DEF AskTable
  <2> QED  BY <1>2, <1>3, <2>1, AsksStay, Zenon
<1>5. \A j : Held(j)' <=> Held(j)
  <2>1. \A j : ~Holds(s, j)'
    BY <1>3 DEF Holds
  <2> QED  BY <1>3, <2>1, Zenon DEF Held
<1>6. \A j \in Tokens : AlarmStage(j)' = AlarmStage(j)
  BY <1>1, <1>5, StageStays, Zenon
<1>7. AlarmStages' = AlarmStages
  BY <1>6, ZenonT(60) DEF AlarmStages
<1>8. row.token \in Tokens
  BY DEF HandlerRetries, IInv, Named, TypeOK, Row, Tokens
<1>9. AlarmStages[row.token] = "armed"
  BY <1>8, MappedAlarm, Stages, Zenon DEF StageFacts
<1> QED  BY <1>1, <1>4, <1>7, <1>8, <1>9, ZenonT(60) DEF Contract!Fail

\* When the object or the daemon stops, nobody restores what deleteAlarm removed.
LEMMA AbandonContract ==
    ASSUME IInv, IInv', KindOps, HostStops \/ Restart
    PROVE  \E kept \in SUBSET Callers : Contract!Abandon(kept)
<1>1. row' = row /\ UNCHANGED <<issued, done, failures>>
  BY Zenon DEF HostStops, Restart
<1>2. ASSUME NEW c \in Callers
      PROVE  Asked(c)' \in {Contract!NoAsk, Contract!Rest(Asked(c))}
  <2>1. calls[c] \in Call
    BY Zenon DEF IInv, TypeOK
  <2>2. \/ calls'[c] = NoCall
        \/ calls[c].kind # "free" /\ calls'[c] = Abandoned(c)
    BY Zenon DEF HostStops, Restart
  <2>3. CASE calls'[c] = NoCall
    <3>1. Asked(c)' = Contract!NoAsk
      BY <2>3, AskFactsNext DEF AskTable, NoCall
    <3> QED  BY <3>1, Zenon
  <2>4. CASE calls[c].kind # "free" /\ calls'[c] = Abandoned(c)
    <3>1. /\ calls'[c].kind = "flush" /\ calls'[c].op = calls[c].op
          /\ calls'[c].saved = calls[c].saved
      BY <2>4 DEF Abandoned
    <3> QED  BY <2>1, <2>4, <3>1, LeftOver, Zenon
  <2> QED  BY <2>2, <2>3, <2>4, Zenon
<1>3. \A k : ~Held(k)'
  <2>1. \A c \in Callers : Asked(c)'.kind # "delete"
    BY <1>2 DEF Contract!NoAsk, Contract!Rest, Contract!Ask
  <2>2. \A c \in Callers : \A k : ~Holds(c, k)'
    BY <2>1, HolderAsksNext DEF Contract!Ask
  <2> QED  BY <2>2, Zenon DEF Held
<1>4. \A k \in Tokens : Held(k) => AlarmStage(k)' = "ended"
  <2>1. \A k \in Tokens : Held(k) => ~(k > issued) /\ k # row.token /\ k \notin done
    BY Stages DEF StageFacts
  <2> QED  BY <1>1, <1>3, <2>1, EndedStage, Zenon
<1>5. \A k \in Tokens : ~Held(k) => AlarmStage(k)' = AlarmStage(k)
  BY <1>1, <1>3, StageStays, Zenon
<1>6. \A k \in Tokens : k \in Contract!At("taken") <=> Held(k)
  BY Stages, MappedAlarm, Zenon DEF StageFacts, Contract!At
<1>7. Contract!Go(Contract!At("taken"), "ended")
  BY <1>4, <1>5, <1>6, GoStep, Zenon
<1> PICK kept : kept = {c \in Callers : Asked(c)' # Contract!NoAsk}
  BY Zenon
<1>8. Asks' = [c \in Callers |-> IF c \in kept THEN Contract!Rest(Asks[c]) ELSE Contract!NoAsk]
  BY <1>2, MappedAlarm, Zenon DEF Asks
<1>9. kept \in SUBSET Callers
  BY Zenon
<1> QED  BY <1>1, <1>7, <1>8, <1>9, Zenon DEF Contract!Abandon

LEMMA ContractInit == Init => Contract!Init
<1> SUFFICES ASSUME Init PROVE Contract!Init
  OBVIOUS
<1>1. \A c \in Callers : Asked(c) = Contract!NoAsk
  BY AskFacts DEF Init, NoCall, AskTable
<1>2. \A k \in Tokens : AlarmStage(k) = "unset"
  <2>1. \A k \in Tokens : k > issued
    BY DEF Init, Tokens
  <2> QED  BY <2>1, InitInv, Stages, Zenon DEF StageFacts
<1>3. AlarmStages = [k \in Tokens |-> "unset"] /\ Asks = [c \in Callers |-> Contract!NoAsk]
  BY <1>1, <1>2, Zenon DEF AlarmStages, Asks
<1> QED  BY <1>3, Zenon DEF Init, Contract!Init

\* A call of the object's code is one of the contract's.
LEMMA ClientContract ==
    ASSUME IInv, IInv', NEW c \in Clients, Client(c)
    PROVE  Contract!Next
<1>1. c \in Callers
  BY Zenon DEF Callers
<1>2. CASE \E wait \in 0 .. 1, kind \in {"set", "flush"} : SetAlarm(c, wait, kind)
  <2>1. \E k \in Tokens : Contract!Set(c, k)
    BY <1>1, <1>2, SetContract, Zenon
  <2> QED  BY <1>1, <2>1, Zenon DEF Contract!Next
<1>3. CASE \E kind \in {"delete", "flush"} : DeleteAlarm(c, kind)
  <2>1. \E k \in Tokens : Contract!Delete(c, k)
    BY <1>1, <1>3, DeleteContract, Zenon
  <2> QED  BY <1>1, <2>1, Zenon DEF Contract!Next
<1>4. CASE GetAlarm(c)
  BY <1>1, <1>4, QuietPost, Zenon DEF Contract!Next
<1>5. CASE DeleteAll(c)
  BY <1>1, <1>5, DeleteAllContract, Zenon DEF Contract!Next
<1> QED  BY <1>2, <1>3, <1>4, <1>5, Zenon DEF Client

\* Of a delivery only the handler's end shows.
LEMMA DeliveryContract ==
    ASSUME IInv, IInv', NEW s \in Slots, Delivery(s)
    PROVE  Contract!Next
<1>1. CASE HandlerSucceeds(s)
  BY <1>1, SucceedContract, Zenon DEF Contract!Next
<1>2. CASE HandlerThrowsStale(s)
  BY <1>2, QuietThrow, Zenon DEF Contract!Next
<1>3. CASE HandlerExhausts(s)
  BY <1>3, ExhaustContract, Zenon DEF Contract!Next
<1>4. CASE HandlerRetries(s)
  BY <1>4, RetryContract, Zenon DEF Contract!Next
<1>5. CASE ~Handler(s)
  BY <1>5, QuietDelivery, Zenon DEF Contract!Next
<1> QED  BY <1>1, <1>2, <1>3, <1>4, <1>5, Zenon DEF Handler

LEMMA ContractStep ==
    ASSUME IInv, IInv', KindOps, [Next]_vars
    PROVE  [Contract!Next]_(Contract!vars)
<1>1. CASE \E c \in Clients : Client(c)
  BY <1>1, ClientContract, Zenon
<1>2. CASE \E c \in Callers : Index(c)
  BY <1>2, IndexContract, Zenon DEF Contract!Next
<1>3. CASE \E s \in Slots : Delivery(s)
  BY <1>3, DeliveryContract, Zenon
<1>4. CASE Activate
  <2>1. Host \in Callers
    BY Zenon DEF Callers
  <2> QED  BY <1>4, <2>1, QuietPost, Zenon DEF Contract!Next
<1>5. CASE HostStops \/ Restart
  BY <1>5, AbandonContract, Zenon DEF Contract!Next
<1>6. CASE ProbeObject \/ ApplyRepair \/ Retire \/ Tick
  BY <1>6, QuietScan, Zenon DEF Contract!Next
<1>7. CASE UNCHANGED vars
  <2>1. (\A c \in Callers : Asked(c)' = Asked(c)) /\ row'.token = row.token
        /\ UNCHANGED <<issued, done, failures>>
    BY <1>7, Zenon DEF vars, Asked
  <2> QED  BY <2>1, QuietStep, Zenon DEF Contract!Next
<1> QED  BY <1>1, <1>2, <1>3, <1>4, <1>5, <1>6, <1>7, Zenon DEF Next

\* The object, its index calls and the scheduler implement AlarmContract for any
\* number of deliveries, calls, alarms, retries and faults: an armed alarm goes
\* only by the object's own call, by a run that succeeds, or by the failure after
\* MaxRetry retries, and one that is over comes back only from the deleteAlarm
\* that took it.
THEOREM AlarmsKeepContract == Spec => KeepsAlarmContract
<1>1. Init => KindOps
  BY KindOpsInit, Zenon
<1>2. IInv /\ KindOps /\ [Next]_vars => KindOps'
  BY KindOpsNext, Zenon
<1>3. IInv /\ IInv' /\ KindOps /\ [Next]_vars => [Contract!Next]_(Contract!vars)
  BY ContractStep, Zenon
<1> QED
  BY <1>1, <1>2, <1>3, Invariance, ContractInit, PTL
  DEF Spec, KeepsAlarmContract, Contract!Spec

-----------------------------------------------------------------------------
(* What the contract means for an alarm that is over.                      *)

\* A step leaves the alarms that are done or ended as they are.
OverStaysOver ==
    \A k \in Tokens : AlarmStage(k) \in {"done", "ended"} => AlarmStage(k)' = AlarmStage(k)

LEMMA MappedAlarmNext == \A k \in Tokens : AlarmStages'[k] = AlarmStage(k)'
  BY Zenon DEF AlarmStages

\* Only alarms that are not over go anywhere.
LEMMA GoSpares ==
    ASSUME NEW S, NEW s, Contract!Go(S, s),
           \A k \in Tokens : k \in S => AlarmStage(k) \notin {"done", "ended"}
    PROVE  OverStaysOver
<1>1. \A k \in Tokens : k \notin S => AlarmStages'[k] = AlarmStages[k]
  BY Zenon DEF Contract!Go
<1> QED  BY <1>1, MappedAlarm, MappedAlarmNext, Zenon DEF OverStaysOver

LEMMA SameStages == ASSUME AlarmStages' = AlarmStages PROVE OverStaysOver
  BY MappedAlarm, MappedAlarmNext, Zenon DEF OverStaysOver

\* deleteAlarm gives back only what it took.
LEMMA ReturnSpares ==
    ASSUME IInv, NEW c \in Callers, Contract!Return(c)
    PROVE  OverStaysOver
<1>1. \A k \in Tokens : k \in Contract!At("armed") => AlarmStage(k) \notin {"done", "ended"}
  BY MappedAlarm DEF Contract!At
<1>2. ASSUME Asks[c].kind = "delete", NEW k \in Tokens, k = Asks[c].token
      PROVE  AlarmStage(k) \notin {"done", "ended"}
  <2>1. Asked(c).kind = "delete" /\ Asked(c).token = k
    BY <1>2, MappedAlarm, Zenon
  <2>2. Holds(c, k)
    BY <2>1 DEF Asked, Holds
  <2>3. Held(k)
    BY <2>2, Zenon DEF Held
  <2>4. AlarmStage(k) = "taken"
    BY <2>3, Stages, Zenon DEF StageFacts
  <2> QED  BY <2>4
<1> PICK k : k = Asks[c].token
  BY Zenon
<1>3. \/ AlarmStages' = AlarmStages
      \/ Contract!Go({k} \cap Contract!At("armed"), "ended")
      \/ Contract!Go(Contract!At("armed"), "ended")
      \/ Asks[c].kind = "delete" /\ Contract!Go({k}, "ended")
      \/ Asks[c].kind = "delete" /\ Contract!Go({k}, "armed")
  BY Zenon DEF Contract!Return
<1>4. CASE AlarmStages' = AlarmStages
  BY <1>4, SameStages, Zenon
<1>5. CASE Contract!Go({k} \cap Contract!At("armed"), "ended")
  BY <1>1, <1>5, GoSpares, Zenon
<1>6. CASE Contract!Go(Contract!At("armed"), "ended")
  BY <1>1, <1>6, GoSpares, Zenon
<1>7. CASE Asks[c].kind = "delete" /\ Contract!Go({k}, "ended")
  <2>1. \A j \in Tokens : j \in {k} => AlarmStage(j) \notin {"done", "ended"}
    BY <1>2, <1>7
  <2> QED  BY <2>1, <1>7, GoSpares, Zenon
<1>8. CASE Asks[c].kind = "delete" /\ Contract!Go({k}, "armed")
  <2>1. \A j \in Tokens : j \in {k} => AlarmStage(j) \notin {"done", "ended"}
    BY <1>2, <1>8
  <2> QED  BY <2>1, <1>8, GoSpares, Zenon
<1> QED  BY <1>3, <1>4, <1>5, <1>6, <1>7, <1>8, Zenon

LEMMA StepSpares ==
    ASSUME IInv, [Contract!Next]_(Contract!vars)
    PROVE  OverStaysOver
<1>1. CASE UNCHANGED Contract!vars \/ Contract!Internal
  BY <1>1, SameStages, Zenon DEF Contract!Internal, Contract!vars
<1>2. CASE \E c \in Callers : Contract!DeleteAll(c)
  BY <1>2, SameStages, Zenon DEF Contract!DeleteAll
<1>3. CASE \E c \in Callers : Contract!Return(c)
  BY <1>3, ReturnSpares, Zenon
<1>4. CASE \E c \in Callers, k \in Tokens : Contract!Set(c, k)
  <2> PICK c \in Callers, k \in Tokens : Contract!Set(c, k)
    BY <1>4, Zenon
  <2>1. ASSUME NEW j \in Tokens, AlarmStage(j) \in {"done", "ended"}
        PROVE  AlarmStages'[j] = AlarmStages[j]
    <3>1. AlarmStages[j] \notin {"unset", "armed"} /\ AlarmStages[k] = "unset"
      BY <2>1, MappedAlarm DEF Contract!Set
    <3>2. j # k /\ AlarmStages[j] # "armed"
      BY <3>1, Zenon
    <3> QED  BY <3>2, Zenon DEF Contract!Set
  <2> QED  BY <2>1, MappedAlarm, MappedAlarmNext, Zenon DEF OverStaysOver
<1>5. CASE \E c \in Callers, k \in Tokens : Contract!Delete(c, k)
  <2> PICK c \in Callers, k \in Tokens : Contract!Delete(c, k)
    BY <1>5, Zenon
  <2>1. \A j \in Tokens : j \in {k} => AlarmStage(j) \notin {"done", "ended"}
    BY MappedAlarm DEF Contract!Delete
  <2>2. Contract!Go({k}, "taken") \/ Contract!Go({k}, "ended")
    BY Zenon DEF Contract!Delete
  <2> QED  BY <2>1, <2>2, GoSpares, Zenon
<1>6. CASE \E k \in Tokens : Contract!Succeed(k) \/ Contract!Fail(k)
  <2> PICK k \in Tokens : Contract!Succeed(k) \/ Contract!Fail(k)
    BY <1>6, Zenon
  <2>1. \A j \in Tokens : j \in {k} => AlarmStage(j) \notin {"done", "ended"}
    BY MappedAlarm DEF Contract!Succeed, Contract!Fail
  <2>2. \/ Contract!Go({k}, "done") \/ Contract!Go({k}, "ended")
        \/ AlarmStages' = AlarmStages
    BY Zenon DEF Contract!Succeed, Contract!Fail
  <2> QED  BY <2>1, <2>2, GoSpares, SameStages, Zenon
<1>7. CASE \E kept \in SUBSET Callers : Contract!Abandon(kept)
  <2>1. Contract!Go(Contract!At("taken"), "ended")
    BY <1>7, Zenon DEF Contract!Abandon
  <2>2. \A k \in Tokens : k \in Contract!At("taken") => AlarmStage(k) \notin {"done", "ended"}
    BY MappedAlarm DEF Contract!At
  <2> QED  BY <2>1, <2>2, GoSpares, Zenon
<1> QED  BY <1>1, <1>2, <1>3, <1>4, <1>5, <1>6, <1>7, Zenon DEF Contract!Next

\* An alarm that ran successfully, was given up, or was replaced or deleted by a
\* call that is over never comes back and never changes how it ended, whatever
\* deliveries, repairs, restored rows and restarts follow.
THEOREM OverIsForEver == Spec => [][OverStaysOver]_vars
<1>1. IInv /\ [Contract!Next]_(Contract!vars) => OverStaysOver
  BY StepSpares, Zenon
<1> QED
  BY <1>1, Invariance, AlarmsKeepContract, PTL DEF KeepsAlarmContract, Contract!Spec

=============================================================================
